-------------------------- MODULE LogPipelineProofs --------------------------
(***************************************************************************)
(* Proofs about LogPipeline, for any numbers of workers, loggers and       *)
(* buffers, any assignment of workers to loggers, and any bounds.          *)
(***************************************************************************)
EXTENDS LogPipeline, FiniteSetTheorems, Induction

\* A worker's epochs follow GlobalEpoch, and it has one when it logs.
EpochInv ==
    \A w \in Workers :
        /\ CTIDW[w] <= ThLocalEpoch[w] /\ ThLocalEpoch[w] <= GlobalEpoch
        /\ pc[w] \in {"wal", "push"} => ThLocalEpoch[w] >= 1

\* Outside push() a worker in its loop has a current buffer.
ReadyInv == \A w \in Workers : pc[w] \in {"retry", "wal"} => current_buffer[w] # NULL

\* What a logger's place in its code says about what it has computed.
LoggerInv ==
    \A l \in Loggers :
        /\ lpc[l] # "write" => batch[l] = <<>>
        /\ lpc[l] \in {"queueDeq", "queueWait", "deq", "write", "send"} => min_epoch[l] >= 1
        /\ lpc[l] \in {"cas", "pepoch", "store"} => ThLocalDurableEpoch[l] < min_epoch[l] - 1
        /\ lpc[l] \in {"cas", "casFinal"} => \A i \in Loggers : min_dl[l] <= ThLocalDurableEpoch[i]
        /\ lpc[l] \in {"pepoch", "pepochFinal"} => 1 <= min_dl[l] /\ min_dl[l] <= DurableEpoch

\* Every buffer's owner and its logger keep to their own, and a buffer is in
\* exactly one place, once.
Owned ==
    /\ \A w \in Workers : current_buffer[w] # NULL => current_buffer[w][1] = w
    /\ \A w \in Workers : IsInjective(pool[w]) /\ \A b \in Range(pool[w]) : b[1] = w
    /\ \A l \in Loggers :
         /\ IsInjective(queue[l]) /\ \A b \in Range(queue[l]) : LoggerOf[b[1]] = l
         /\ IsInjective(batch[l]) /\ \A b \in Range(batch[l]) : LoggerOf[b[1]] = l

IsCurrent(b) == current_buffer[b[1]] = b
IsPooled(b)  == b \in Range(pool[b[1]])
IsQueued(b)  == b \in Range(queue[LoggerOf[b[1]]])
IsTaken(b)   == b \in Range(batch[LoggerOf[b[1]]])

OnePlace ==
    \A b \in Buffers :
        \/ IsCurrent(b) /\ ~IsPooled(b) /\ ~IsQueued(b) /\ ~IsTaken(b)
        \/ ~IsCurrent(b) /\ IsPooled(b) /\ ~IsQueued(b) /\ ~IsTaken(b)
        \/ ~IsCurrent(b) /\ ~IsPooled(b) /\ IsQueued(b) /\ ~IsTaken(b)
        \/ ~IsCurrent(b) /\ ~IsPooled(b) /\ ~IsQueued(b) /\ IsTaken(b)

PlaceInv == Owned /\ OnePlace

\* A buffer without records; nids says nothing about it.
IsEmpty(b) == buf[b].log_set = <<>> /\ buf[b].min = Unset /\ buf[b].max = 0

\* A buffer whose records are of epoch e.
IsOf(b, e) ==
    /\ buf[b].min = e /\ buf[b].max = e /\ buf[b].nids
    /\ \A i \in DOMAIN buf[b].log_set : buf[b].log_set[i].epoch = e

\* A pooled buffer is empty, a current one of the epoch its worker has logged
\* last, and the one that push() goes on with of the epoch of its transaction.
ContentInv ==
    \A b \in Buffers :
        /\ IsEmpty(b) \/ \E e \in 1 .. MaxEpoch : IsOf(b, e)
        /\ IsPooled(b) => IsEmpty(b)
        /\ IsCurrent(b) => IsEmpty(b) \/ IsOf(b, CTIDW[b[1]])
        /\ IsCurrent(b) /\ pc[b[1]] = "push" => IsEmpty(b) \/ CTIDW[b[1]] = ThLocalEpoch[b[1]]

\* The same of its length.
LengthInv ==
    /\ \A b \in Buffers : IsCurrent(b) /\ pc[b[1]] = "push" =>
         Len(buf[b].log_set) <= MAX_BUFFERED_LOG_ENTRIES
    /\ BufferBounded

\* A queue is ordered by epoch.
QueueInv ==
    \A l \in Loggers : \A i, j \in DOMAIN queue[l] :
        i <= j => buf[queue[l][i]].min <= buf[queue[l][j]].min

\* No record of w in a buffer for which P holds is of an epoch below m, and no
\* transaction of w is, that is being logged or still to come.
Above(w, m) ==
    /\ CTIDW[w] >= m \/ m <= 1
    /\ \A b \in Buffers : b[1] = w =>
         \A i \in DOMAIN buf[b].log_set : buf[b].log_set[i].epoch >= m

\* What a logger has declared, or is about to declare, durable.
DurableInv ==
    ~skipped => \A l \in Loggers : \A w \in MyWorkers(l) :
        /\ Above(w, ThLocalDurableEpoch[l] + 1)
        /\ lpc[l] \in {"queueDeq", "queueWait"} => CTIDW[w] >= min_epoch[l] \/ min_epoch[l] <= 1
        /\ lpc[l] \in {"deq", "write", "send", "cas", "pepoch", "store"} => Above(w, min_epoch[l])

IInv == /\ TypeOK /\ EpochInv /\ ReadyInv /\ LoggerInv /\ PlaceInv /\ ContentInv /\ LengthInv
        /\ QueueInv /\ PepochBehind /\ DurableInv
-----------------------------------------------------------------------------
(* Sequences.                                                               *)

LEMMA AppendFacts ==
    ASSUME NEW S, NEW s \in Seq(S), NEW x \in S
    PROVE  /\ Append(s, x) \in Seq(S)
           /\ Range(Append(s, x)) = Range(s) \cup {x}
           /\ IsInjective(s) /\ x \notin Range(s) => IsInjective(Append(s, x))
<1>1. /\ Append(s, x) \in Seq(S)
      /\ \A n \in 1 .. Len(s) : Append(s, x)[n] = s[n]
      /\ Append(s, x)[Len(s) + 1] = x
      /\ DOMAIN Append(s, x) = 1 .. Len(s) + 1 /\ DOMAIN s = 1 .. Len(s) /\ Len(s) \in Nat
  OBVIOUS
<1>2. Range(Append(s, x)) = Range(s) \cup {x}
  BY <1>1 DEF Range
<1>3. ASSUME IsInjective(s), x \notin Range(s) PROVE IsInjective(Append(s, x))
  BY <1>1, <1>3 DEF IsInjective, Range
<1> QED BY <1>1, <1>2, <1>3

LEMMA FrontFacts ==
    ASSUME NEW S, NEW s \in Seq(S), s # <<>>
    PROVE  /\ Front(s) \in Seq(S) /\ Last(s) \in S /\ Last(s) \in Range(s)
           /\ Range(Front(s)) \subseteq Range(s)
           /\ IsInjective(s) => /\ IsInjective(Front(s))
                                /\ Range(Front(s)) = Range(s) \ {Last(s)}
<1>1. /\ Front(s) \in Seq(S) /\ Len(s) \in Nat \ {0}
      /\ DOMAIN Front(s) = 1 .. Len(s) - 1 /\ DOMAIN s = 1 .. Len(s)
      /\ \A n \in 1 .. Len(s) - 1 : Front(s)[n] = s[n]
  BY DEF Front
<1>2. Last(s) \in S /\ Last(s) \in Range(s)
  BY <1>1 DEF Last, Range
<1>3. Range(Front(s)) \subseteq Range(s)
  BY <1>1 DEF Range
<1>4. ASSUME IsInjective(s) PROVE IsInjective(Front(s)) /\ Range(Front(s)) = Range(s) \ {Last(s)}
  <2>1. IsInjective(Front(s))
    BY <1>1, <1>4 DEF IsInjective
  <2>2. Last(s) \notin Range(Front(s))
    BY <1>1, <1>4 DEF IsInjective, Range, Last
  <2>3. Range(s) \ {Last(s)} \subseteq Range(Front(s))
    BY <1>1 DEF Range, Last
  <2> QED BY <1>3, <2>1, <2>2, <2>3
<1> QED BY <1>1, <1>2, <1>3, <1>4

LEMMA TailFacts ==
    ASSUME NEW S, NEW s \in Seq(S), s # <<>>
    PROVE  /\ Tail(s) \in Seq(S) /\ Head(s) \in S /\ Head(s) \in Range(s)
           /\ Range(Tail(s)) \subseteq Range(s)
           /\ IsInjective(s) => /\ IsInjective(Tail(s))
                                /\ Range(Tail(s)) = Range(s) \ {Head(s)}
<1>1. /\ Tail(s) \in Seq(S) /\ Len(s) \in Nat \ {0} /\ Head(s) = s[1]
      /\ DOMAIN Tail(s) = 1 .. Len(s) - 1 /\ DOMAIN s = 1 .. Len(s)
      /\ \A n \in 1 .. Len(s) - 1 : Tail(s)[n] = s[n + 1]
  OBVIOUS
<1>2. Head(s) \in S /\ Head(s) \in Range(s)
  BY <1>1 DEF Range
<1>3. Range(Tail(s)) \subseteq Range(s)
  BY <1>1 DEF Range
<1>4. ASSUME IsInjective(s) PROVE IsInjective(Tail(s)) /\ Range(Tail(s)) = Range(s) \ {Head(s)}
  <2>1. IsInjective(Tail(s))
    BY <1>1, <1>4 DEF IsInjective
  <2>2. Head(s) \notin Range(Tail(s))
    BY <1>1, <1>4 DEF IsInjective, Range
  <2>3. ASSUME NEW x \in Range(s) \ {Head(s)} PROVE x \in Range(Tail(s))
    <3>1. PICK n \in 1 .. Len(s) : x = s[n]
      BY <1>1 DEF Range
    <3>2. n # 1 /\ n - 1 \in 1 .. Len(s) - 1
      BY <1>1, <3>1
    <3>3. Tail(s)[n - 1] = x
      BY <1>1, <3>1, <3>2
    <3> QED BY <1>1, <3>2, <3>3 DEF Range
  <2> QED BY <1>3, <2>1, <2>2, <2>3
<1> QED BY <1>1, <1>2, <1>3, <1>4

LEMMA InsertAtFacts ==
    ASSUME NEW S, NEW s \in Seq(S), NEW x \in S, NEW i \in 1 .. Len(s) + 1
    PROVE  /\ InsertAt(s, i, x) \in Seq(S)
           /\ DOMAIN InsertAt(s, i, x) = 1 .. Len(s) + 1
           /\ \A n \in 1 .. Len(s) + 1 : InsertAt(s, i, x)[n] =
                IF n < i THEN s[n] ELSE IF n = i THEN x ELSE s[n - 1]
<1> DEFINE a == SubSeq(s, 1, i - 1)
           b == SubSeq(s, i, Len(s))
<1>1. /\ a \in Seq(S) /\ Len(a) = i - 1 /\ \A n \in 1 .. i - 1 : a[n] = s[n]
      /\ b \in Seq(S) /\ Len(b) = Len(s) - i + 1 /\ \A n \in 1 .. Len(s) - i + 1 : b[n] = s[i + n - 1]
  OBVIOUS
<1>2. InsertAt(s, i, x) = a \o <<x>> \o b
  BY DEF InsertAt
<1>3. /\ <<x>> \in Seq(S) /\ Len(<<x>>) = 1 /\ <<x>>[1] = x
  OBVIOUS
<1> HIDE DEF a, b
<1>4. /\ a \o <<x>> \in Seq(S) /\ Len(a \o <<x>>) = i
      /\ \A n \in 1 .. i : (a \o <<x>>)[n] = IF n < i THEN s[n] ELSE x
  BY <1>1, <1>3
<1> DEFINE c == a \o <<x>>
<1>5. /\ c \o b \in Seq(S) /\ Len(c \o b) = Len(s) + 1
      /\ \A n \in 1 .. Len(s) + 1 : (c \o b)[n] = IF n <= i THEN c[n] ELSE b[n - i]
  <2>1. c \in Seq(S) /\ Len(c) = i /\ b \in Seq(S) /\ Len(b) = Len(s) - i + 1
    BY <1>1, <1>4
  <2> HIDE DEF c
  <2> QED BY <2>1
<1>6. \A n \in 1 .. Len(s) + 1 : n > i => b[n - i] = s[n - 1]
  BY <1>1
<1> QED BY <1>2, <1>4, <1>5, <1>6

LEMMA InsertAtRange ==
    ASSUME NEW S, NEW s \in Seq(S), NEW x \in S, NEW i \in 1 .. Len(s) + 1
    PROVE  /\ Range(InsertAt(s, i, x)) = Range(s) \cup {x}
           /\ IsInjective(s) /\ x \notin Range(s) => IsInjective(InsertAt(s, i, x))
<1> DEFINE r == InsertAt(s, i, x)
<1>1. /\ DOMAIN r = 1 .. Len(s) + 1 /\ DOMAIN s = 1 .. Len(s) /\ Len(s) \in Nat
      /\ \A n \in 1 .. Len(s) + 1 : r[n] = IF n < i THEN s[n] ELSE IF n = i THEN x ELSE s[n - 1]
  BY InsertAtFacts
<1> HIDE DEF r
<1>2. ASSUME NEW y \in Range(s) PROVE y \in Range(r)
  <2>1. PICK n \in 1 .. Len(s) : y = s[n]
    BY <1>1 DEF Range
  <2>2. CASE n < i
    BY <1>1, <2>1, <2>2 DEF Range
  <2>3. CASE n >= i
    <3>1. n + 1 \in 1 .. Len(s) + 1 /\ r[n + 1] = s[n]
      BY <1>1, <2>3
    <3> QED BY <1>1, <2>1, <3>1 DEF Range
  <2> QED BY <2>2, <2>3
<1>3. x \in Range(r)
  BY <1>1 DEF Range
<1>4. Range(r) \subseteq Range(s) \cup {x}
  <2>1. ASSUME NEW n \in 1 .. Len(s) + 1 PROVE r[n] \in Range(s) \cup {x}
    <3>1. CASE n < i
      BY <1>1, <3>1 DEF Range
    <3>2. CASE n = i
      BY <1>1, <3>2
    <3>3. CASE n > i
      <4>1. n - 1 \in 1 .. Len(s) /\ r[n] = s[n - 1]
        BY <1>1, <3>3
      <4> QED BY <1>1, <4>1 DEF Range
    <3> QED BY <3>1, <3>2, <3>3
  <2> QED BY <1>1, <2>1 DEF Range
<1>5. ASSUME IsInjective(s), x \notin Range(s) PROVE IsInjective(r)
  <2>1. \A n \in 1 .. Len(s) : s[n] # x
    BY <1>1, <1>5 DEF Range
  <2>2. \A n \in 1 .. Len(s) + 1 : n # i => r[n] # x
    <3>1. \A n \in 1 .. Len(s) + 1 : n < i => n \in 1 .. Len(s) /\ r[n] = s[n]
      BY <1>1
    <3>2. \A n \in 1 .. Len(s) + 1 : n > i => n - 1 \in 1 .. Len(s) /\ r[n] = s[n - 1]
      BY <1>1
    <3> QED BY <1>1, <2>1, <3>1, <3>2
  <2>3. \A m, n \in 1 .. Len(s) : s[m] = s[n] => m = n
    BY <1>1, <1>5 DEF IsInjective
  <2>4. ASSUME NEW m \in 1 .. Len(s) + 1, NEW n \in 1 .. Len(s) + 1, r[m] = r[n] PROVE m = n
    <3>1. CASE m = i \/ n = i
      BY <1>1, <2>2, <2>4, <3>1
    <3>2. CASE m # i /\ n # i
      BY <1>1, <2>3, <2>4, <3>2
    <3> QED BY <3>1, <3>2
  <2> QED BY <1>1, <2>4 DEF IsInjective
<1> QED BY <1>2, <1>3, <1>4, <1>5 DEF r
-----------------------------------------------------------------------------
(* Minima, and the place of a buffer in a queue.                            *)

LEMMA MinFacts ==
    ASSUME NEW S, S \subseteq Nat, S # {}
    PROVE  Min(S) \in S /\ \A x \in S : Min(S) <= x
<1> DEFINE R == OpToRel(<, Nat)
<1>1. \A x, y \in Nat : y < x => <<y, x>> \in R
  BY DEF OpToRel
<1>2. IsWellFoundedOn(R, Nat)
  BY NatLessThanWellFounded
<1> HIDE DEF R
<1>3. PICK x \in S : \A y \in S : ~ (<<y, x>> \in R)
  BY <1>2, WFMin
<1>4. ASSUME NEW y \in S PROVE x <= y
  <2>1. x \in Nat /\ y \in Nat
    OBVIOUS
  <2>2. ~ (y < x)
    BY <1>1, <1>3, <2>1
  <2> QED BY <2>1, <2>2
<1> QED BY <1>4 DEF Min

LEMMA MinOfTwo ==
    ASSUME NEW a \in Nat, NEW b \in Nat
    PROVE  /\ Min({a, b}) = IF a <= b THEN a ELSE b
           /\ Max({a, b}) = IF a <= b THEN b ELSE a
<1>1. Min({a, b}) \in {a, b} /\ \A x \in {a, b} : Min({a, b}) <= x
  BY MinFacts
<1>2. \E x \in {a, b} : \A y \in {a, b} : x >= y
  OBVIOUS
<1>3. Max({a, b}) \in {a, b} /\ \A x \in {a, b} : Max({a, b}) >= x
  BY <1>2 DEF Max
<1> QED BY <1>1, <1>3

\* The positions of a queue at which a downward closed property holds are the first ones.
LEMMA InitialSegment ==
    ASSUME NEW L \in Nat, NEW D, D \subseteq 1 .. L,
           \A i \in D : \A j \in 1 .. L : j <= i => j \in D
    PROVE  Cardinality(D) \in 0 .. L /\ D = 1 .. Cardinality(D)
<1> DEFINE K == {k \in 0 .. L : D \subseteq 1 .. k}
<1>1. Min(K) \in K /\ \A x \in K : Min(K) <= x
  BY MinFacts
<1>2. \A i \in 1 .. Min(K) : i \in D
  <2>1. CASE Min(K) = 0
    BY <2>1
  <2>2. CASE Min(K) > 0
    <3>1. Min(K) - 1 \in 0 .. L /\ Min(K) - 1 \notin K
      BY <1>1, <2>2
    <3>2. Min(K) \in D
      BY <1>1, <3>1
    <3> QED BY <1>1, <3>2
  <2> QED BY <1>1, <2>1, <2>2
<1>3. D = 1 .. Min(K)
  BY <1>1, <1>2
<1>4. Cardinality(1 .. Min(K)) = Min(K)
  BY <1>1, FS_Interval
<1> QED BY <1>1, <1>3, <1>4

\* enq keeps a queue in order.
LEMMA EnqFacts ==
    ASSUME NEW q \in Seq(Buffers), NEW b \in Buffers,
           \A c \in Buffers : buf[c].min \in Nat,
           \A i, j \in DOMAIN q : i <= j => buf[q[i]].min <= buf[q[j]].min
    PROVE  /\ enq(q, b) \in Seq(Buffers)
           /\ Range(enq(q, b)) = Range(q) \cup {b}
           /\ IsInjective(q) /\ b \notin Range(q) => IsInjective(enq(q, b))
           /\ \A i, j \in DOMAIN enq(q, b) :
                i <= j => buf[enq(q, b)[i]].min <= buf[enq(q, b)[j]].min
<1> DEFINE D == {i \in DOMAIN q : buf[q[i]].min <= buf[b].min}
           k == Cardinality(D) + 1
<1>1. /\ Len(q) \in Nat /\ DOMAIN q = 1 .. Len(q) /\ \A i \in 1 .. Len(q) : q[i] \in Buffers
      /\ buf[b].min \in Nat /\ \A i \in 1 .. Len(q) : buf[q[i]].min \in Nat
  OBVIOUS
<1>2. Cardinality(D) \in 0 .. Len(q) /\ D = 1 .. Cardinality(D)
  <2>1. D \subseteq 1 .. Len(q)
    BY <1>1
  <2>2. \A i \in D : \A j \in 1 .. Len(q) : j <= i => j \in D
    BY <1>1
  <2> HIDE DEF D
  <2> QED BY <1>1, <2>1, <2>2, InitialSegment
<1>3. k \in 1 .. Len(q) + 1 /\ enq(q, b) = InsertAt(q, k, b)
  BY <1>1, <1>2 DEF enq
<1>4. \A i \in 1 .. Len(q) : buf[q[i]].min <= buf[b].min <=> i < k
  BY <1>1, <1>2
<1> HIDE DEF k, D
<1> DEFINE r == InsertAt(q, k, b)
<1>5. /\ DOMAIN r = 1 .. Len(q) + 1
      /\ \A n \in 1 .. Len(q) + 1 : r[n] = IF n < k THEN q[n] ELSE IF n = k THEN b ELSE q[n - 1]
  <2>1. q \in Seq(Buffers) /\ b \in Buffers /\ k \in 1 .. Len(q) + 1
    BY <1>3
  <2> QED BY ONLY <2>1, InsertAtFacts
<1> HIDE DEF r
<1>6. ASSUME NEW i \in DOMAIN r, NEW j \in DOMAIN r, i <= j PROVE buf[r[i]].min <= buf[r[j]].min
  <2> DEFINE at(n) == IF n < k THEN n ELSE n - 1
  <2>1. \A n \in 1 .. Len(q) + 1 : n # k => at(n) \in 1 .. Len(q) /\ r[n] = q[at(n)]
    BY <1>1, <1>3, <1>5
  <2>2. \A m, n \in 1 .. Len(q) : m <= n => buf[q[m]].min <= buf[q[n]].min
    BY <1>1
  <2>3. CASE i # k /\ j # k
    <3>1. at(i) <= at(j) /\ at(i) \in 1 .. Len(q) /\ at(j) \in 1 .. Len(q)
      BY <1>1, <1>3, <1>5, <1>6, <2>1, <2>3
    <3> HIDE DEF at
    <3> QED BY <1>5, <2>1, <2>2, <2>3, <3>1
  <2>4. CASE i = k /\ j # k
    <3>1. at(j) \in 1 .. Len(q) /\ at(j) >= k /\ r[j] = q[at(j)] /\ r[i] = b
      BY <1>1, <1>3, <1>5, <1>6, <2>1, <2>4
    <3> HIDE DEF at
    <3> QED BY <1>1, <1>3, <1>4, <3>1
  <2>5. CASE j = k /\ i # k
    <3>1. at(i) \in 1 .. Len(q) /\ at(i) < k /\ r[i] = q[at(i)] /\ r[j] = b
      BY <1>1, <1>3, <1>5, <1>6, <2>1, <2>5
    <3> HIDE DEF at
    <3> QED BY <1>1, <1>3, <1>4, <3>1
  <2>6. CASE i = k /\ j = k
    BY <1>1, <1>5, <2>6
  <2> QED BY <2>3, <2>4, <2>5, <2>6
<1>7. /\ r \in Seq(Buffers) /\ Range(r) = Range(q) \cup {b}
      /\ IsInjective(q) /\ b \notin Range(q) => IsInjective(r)
  BY <1>3, InsertAtFacts, InsertAtRange DEF r
<1> QED BY <1>3, <1>6, <1>7 DEF r
-----------------------------------------------------------------------------
(* Domains.                                                                 *)

LEMMA Domains ==
    /\ MaxEpoch \in Nat \ {0} /\ Unset \in Nat /\ Unset = MaxEpoch + 1
    /\ MAX_BUFFERED_LOG_ENTRIES \in Nat /\ Sizes \cup {0} \subseteq Nat
    /\ Workers \subseteq Nat /\ Loggers \subseteq Nat /\ Loggers # {}
    /\ \A w \in Workers : LoggerOf[w] \in Loggers
    /\ \A b \in Buffers : b[1] \in Workers /\ LoggerOf[b[1]] \in Loggers
    /\ NULL \notin Buffers
BY LogPipelineAssumption DEF Unset, Workers, Loggers, Buffers

BufferType == [log_set : Seq(Entry), nids : BOOLEAN, min : 1 .. Unset, max : 0 .. MaxEpoch]

LEMMA EmptyHasType ==
    /\ EmptyBuffer \in BufferType
    /\ \A x \in BOOLEAN : [EmptyBuffer EXCEPT !.nids = x] \in BufferType
<1>1. <<>> \in Seq(Entry) /\ Unset \in 1 .. Unset /\ 0 \in 0 .. MaxEpoch
  BY Domains
<1>2. EmptyBuffer = [log_set |-> <<>>, nids |-> FALSE, min |-> Unset, max |-> 0]
  BY DEF EmptyBuffer
<1>3. \A x : [EmptyBuffer EXCEPT !.nids = x] = [log_set |-> <<>>, nids |-> x, min |-> Unset, max |-> 0]
  BY <1>2
<1> QED BY <1>1, <1>2, <1>3 DEF BufferType

LEMMA WrittenFacts ==
    ASSUME TypeOK, NEW b \in Buffers
    PROVE  /\ Written(b) \in BufferType
           /\ Written(b).log_set = <<>> /\ Written(b).min = Unset /\ Written(b).max = 0
<1>1. buf[b].nids \in BOOLEAN
  BY DEF TypeOK
<1>2. Written(b) = EmptyBuffer \/ \E x \in BOOLEAN : Written(b) = [EmptyBuffer EXCEPT !.nids = x]
  BY <1>1 DEF Written
<1>3. Written(b) \in BufferType
  BY <1>2, EmptyHasType
<1>4. Written(b).log_set = <<>> /\ Written(b).min = Unset /\ Written(b).max = 0
  BY <1>2 DEF EmptyBuffer
<1> QED BY <1>3, <1>4

\* What push() makes of a buffer.
Pushed(w) ==
    LET x == buf[current_buffer[w]]
        e == ThLocalEpoch[w]
    IN  [log_set |-> x.log_set \o Entries(w, Len(txs[w]) + 1, e, size[w]),
         nids    |-> TRUE,
         min     |-> Min({x.min, e}),
         max     |-> Max({x.max, e})]

LEMMA PushedFacts ==
    ASSUME TypeOK, EpochInv, NEW w \in Workers, Push(w)
    PROVE  /\ current_buffer[w] \in Buffers
           /\ buf' = [buf EXCEPT ![current_buffer[w]] = Pushed(w)]
           /\ Pushed(w) \in BufferType
           /\ Pushed(w).nids
           /\ LET x == buf[current_buffer[w]]
                  e == ThLocalEpoch[w]
              IN  /\ e \in 1 .. MaxEpoch
                  /\ Len(Pushed(w).log_set) = Len(x.log_set) + size[w]
                  /\ \A i \in DOMAIN Pushed(w).log_set :
                       \/ i \in DOMAIN x.log_set /\ Pushed(w).log_set[i] = x.log_set[i]
                       \/ Pushed(w).log_set[i].epoch = e
                  /\ Pushed(w).min = IF x.min <= e THEN x.min ELSE e
                  /\ Pushed(w).max = IF x.max <= e THEN e ELSE x.max
<1> DEFINE b == current_buffer[w]
           e == ThLocalEpoch[w]
           n == Len(txs[w]) + 1
           s == Entries(w, n, e, size[w])
<1>1. /\ b \in Buffers /\ e \in 1 .. MaxEpoch /\ n \in Nat /\ size[w] \in Nat
      /\ buf[b] \in BufferType
  BY Domains DEF TypeOK, EpochInv, Push, BufferType
<1>2. s \in Seq(Entry) /\ Len(s) = size[w] /\ \A i \in 1 .. size[w] : s[i].epoch = e
  <2>1. n \in Nat /\ e \in Nat /\ size[w] \in Nat
    BY <1>1
  <2> HIDE DEF n, e
  <2>2. \A i \in 1 .. size[w] :
          [worker |-> w, tx |-> n, elem |-> i, epoch |-> e] \in Entry
    BY <2>1 DEF Entry
  <2>3. s = [i \in 1 .. size[w] |-> [worker |-> w, tx |-> n, elem |-> i, epoch |-> e]]
    BY DEF Entries
  <2>4. s \in [1 .. size[w] -> Entry] /\ \A i \in 1 .. size[w] : s[i].epoch = e
    BY <2>2, <2>3
  <2> HIDE DEF s
  <2>5. s \in Seq(Entry) /\ Len(s) = size[w]
    BY <2>1, <2>4
  <2> QED BY <2>4, <2>5
<1>3. /\ buf[b].log_set \in Seq(Entry) /\ buf[b].min \in 1 .. Unset /\ buf[b].max \in 0 .. MaxEpoch
  BY <1>1 DEF BufferType
<1>4. /\ Pushed(w).log_set = buf[b].log_set \o s /\ Pushed(w).nids = TRUE
      /\ Pushed(w).min = Min({buf[b].min, e}) /\ Pushed(w).max = Max({buf[b].max, e})
      /\ Pushed(w) = [log_set |-> Pushed(w).log_set, nids |-> TRUE,
                      min |-> Pushed(w).min, max |-> Pushed(w).max]
  BY DEF Pushed
<1>5. /\ Pushed(w).min = IF buf[b].min <= e THEN buf[b].min ELSE e
      /\ Pushed(w).max = IF buf[b].max <= e THEN e ELSE buf[b].max
  <2>1. e \in Nat /\ buf[b].min \in Nat /\ buf[b].max \in Nat
    BY <1>1, <1>3, Domains
  <2> HIDE DEF e, b
  <2> QED BY <1>4, <2>1, MinOfTwo
<1>6. buf' = [buf EXCEPT ![b] = Pushed(w)]
  BY DEF Push, Pushed
<1> HIDE DEF s, b, n, e
<1>7. /\ Pushed(w).log_set \in Seq(Entry)
      /\ Len(Pushed(w).log_set) = Len(buf[b].log_set) + size[w]
      /\ \A i \in DOMAIN Pushed(w).log_set :
           \/ i \in DOMAIN buf[b].log_set /\ Pushed(w).log_set[i] = buf[b].log_set[i]
           \/ Pushed(w).log_set[i].epoch = e
  <2> DEFINE q == buf[b].log_set
  <2>1. q \in Seq(Entry) /\ s \in Seq(Entry) /\ Len(q) \in Nat /\ Len(s) = size[w]
    BY <1>2, <1>3
  <2> HIDE DEF q
  <2>2. /\ q \o s \in Seq(Entry) /\ Len(q \o s) = Len(q) + Len(s)
        /\ \A i \in 1 .. Len(q) + Len(s) : (q \o s)[i] = IF i <= Len(q) THEN q[i] ELSE s[i - Len(q)]
        /\ DOMAIN (q \o s) = 1 .. Len(q) + Len(s) /\ DOMAIN q = 1 .. Len(q)
    BY <2>1
  <2>3. ASSUME NEW i \in 1 .. Len(q) + Len(s), ~ (i <= Len(q))
        PROVE  (q \o s)[i].epoch = e
    <3>1. i - Len(q) \in 1 .. size[w] /\ (q \o s)[i] = s[i - Len(q)]
      BY <1>1, <2>1, <2>2, <2>3
    <3> QED BY <1>2, <3>1
  <2>4. \A i \in DOMAIN (q \o s) : (i \in DOMAIN q /\ (q \o s)[i] = q[i]) \/ (q \o s)[i].epoch = e
    BY <2>1, <2>2, <2>3
  <2>5. Pushed(w).log_set = q \o s
    BY <1>4 DEF q
  <2> QED BY <2>1, <2>2, <2>4, <2>5 DEF q
<1>8. Pushed(w) \in BufferType
  <2>1. Pushed(w).min \in 1 .. Unset /\ Pushed(w).max \in 0 .. MaxEpoch
    BY <1>1, <1>3, <1>5, Domains
  <2> QED BY <1>4, <1>7, <2>1 DEF BufferType
<1> QED BY <1>1, <1>4, <1>5, <1>6, <1>7, <1>8 DEF b, e
-----------------------------------------------------------------------------
(* Which steps change what.                                                 *)

LEMMA WorkerFrame ==
    ASSUME NEW w \in Workers, Worker(w)
    PROVE  /\ Validate(w) \/ Push(w) \/ UNCHANGED <<ThLocalEpoch, CTIDW>>
           /\ Push(w) \/ UNCHANGED <<CTIDW, buf, txs>>
           /\ Validate(w) \/ UNCHANGED <<ThLocalEpoch, size>>
           /\ Publish(w) \/ Terminate(w) \/ UNCHANGED queue
           /\ TakeBuffer(w) \/ UNCHANGED pool
           /\ Publish(w) \/ Terminate(w) \/ TakeBuffer(w) \/ UNCHANGED current_buffer
           /\ WorkerEnd(w) \/ UNCHANGED <<queue_quit, thid_set>>
           /\ UNCHANGED <<GlobalEpoch, quit, batch, lpc, min_epoch, min_dl, old_d, skipped, logfile,
                          ThLocalDurableEpoch, DurableEpoch, pepoch, joined>>
BY DEF Worker, Validate, Publish, TakeBuffer, Push, Terminate, WorkerEnd, WorkerJoined, publish,
       glob, dur, local, fin

Computes(l)  == \/ FindMinCtid(l, "ctidDeq", "queueDeq") \/ FindMinQueue(l, "queueDeq", "deq")
                \/ FindMinCtid(l, "ctidWait", "queueWait") \/ FindMinQueue(l, "queueWait", "send")
Declares(l)  == \/ SwapDurable(l, "cas", "pepoch", "store") 
                \/ SwapDurable(l, "casFinal", "pepochFinal", "end")
Records(l)   == WritePepoch(l, "pepoch", "store") \/ WritePepoch(l, "pepochFinal", "end")

LEMMA LoggerFrame ==
    ASSUME NEW l \in Loggers, Logger(l)
    PROVE  /\ Computes(l) \/ UNCHANGED <<min_epoch, skipped>>
           /\ Deq(l) \/ UNCHANGED queue
           /\ Deq(l) \/ WriteBuffer(l) \/ UNCHANGED batch
           /\ WriteBuffer(l) \/ UNCHANGED <<buf, pool, logfile>>
           /\ Send(l) \/ Final(l) \/ UNCHANGED <<min_dl, old_d>>
           /\ Declares(l) \/ UNCHANGED DurableEpoch
           /\ Records(l) \/ UNCHANGED pepoch
           /\ StoreThLocalDurable(l) \/ UNCHANGED ThLocalDurableEpoch
           /\ logger_end(l) \/ UNCHANGED joined
           /\ WriteBuffer(l) \/ \E to \in LPC : LGoto(l, to)
           /\ UNCHANGED <<GlobalEpoch, ThLocalEpoch, CTIDW, quit, pc, size, current_buffer, txs,
                          queue_quit, thid_set>>
BY DEF Logger, Computes, Declares, Records, WaitDeq, Timeout, FindMinCtid, FindMinQueue, Deq,
       WriteBuffer, LoggingDone, Send, Final, LoadDurable, SwapDurable, WritePepoch,
       StoreThLocalDurable, logger_end, LoggerReturn, LGoto, LPC, glob, dur, local, fin, work

LEMMA StepCases ==
    ASSUME [Next]_vars
    PROVE  \/ UNCHANGED vars \/ SendQuit \/ Tick
           \/ \E w \in Workers : Worker(w)
           \/ \E l \in Loggers : Logger(l)
BY DEF Next, Threads, Finished
-----------------------------------------------------------------------------
(* Types.                                                                   *)

LEMMA TypeInit == Init => TypeOK
<1> SUFFICES ASSUME Init PROVE TypeOK
  OBVIOUS
<1>1. current_buffer \in [Workers -> Buffers \cup {NULL}] /\ pool \in [Workers -> Seq(Buffers)]
  <2>1. /\ \A w \in Workers : <<w, 1>> \in Buffers
        /\ \A w \in Workers : [i \in 1 .. BUFFER_NUM - 1 |-> <<w, i + 1>>] \in Seq(Buffers)
    BY LogPipelineAssumption DEF Buffers
  <2> QED BY <2>1 DEF Init
<1>2. buf \in [Buffers -> BufferType]
  BY EmptyHasType DEF Init
<1>3. pc \in [Workers -> WPC] /\ lpc \in [Loggers -> LPC] /\ thid_set \in [Loggers -> SUBSET Workers]
  BY DEF Init, WPC, LPC
<1>4. /\ 0 \in 0 .. MaxEpoch /\ 1 \in 1 .. MaxEpoch
      /\ \A T : <<>> \in Seq(T)
  BY Domains
<1>5. /\ GlobalEpoch \in 1 .. MaxEpoch /\ DurableEpoch \in 0 .. MaxEpoch
      /\ ThLocalEpoch \in [Workers -> 0 .. MaxEpoch] /\ CTIDW \in [Workers -> 0 .. MaxEpoch]
      /\ size \in [Workers -> Sizes \cup {0}] /\ quit \in BOOLEAN /\ skipped \in BOOLEAN
  BY <1>4 DEF Init
<1>6. /\ txs \in [Workers -> Seq([epoch : 1 .. MaxEpoch, size : Sizes])]
      /\ queue \in [Loggers -> Seq(Buffers)] /\ batch \in [Loggers -> Seq(Buffers)]
      /\ logfile \in [Loggers -> Seq(Entry)] /\ pepoch \in Seq(1 .. MaxEpoch)
  BY <1>4 DEF Init
<1>7. /\ queue_quit \in [Loggers -> BOOLEAN] /\ joined \in [Loggers -> BOOLEAN]
      /\ min_epoch \in [Loggers -> 0 .. MaxEpoch]
      /\ min_dl \in [Loggers -> 0 .. MaxEpoch] /\ old_d \in [Loggers -> 0 .. MaxEpoch]
      /\ ThLocalDurableEpoch \in [Loggers -> 0 .. MaxEpoch]
  BY <1>4 DEF Init
<1> QED BY <1>1, <1>2, <1>3, <1>5, <1>6, <1>7 DEF TypeOK, BufferType

LEMMA PublishTypes ==
    ASSUME TypeOK, QueueInv, NEW w \in Workers, publish(w), current_buffer[w] # NULL
    PROVE  queue' \in [Loggers -> Seq(Buffers)] /\ current_buffer' \in [Workers -> Buffers \cup {NULL}]
<1> DEFINE q == queue[LoggerOf[w]]
           b == current_buffer[w]
<1>1. LoggerOf[w] \in Loggers /\ q \in Seq(Buffers) /\ b \in Buffers
  BY Domains DEF TypeOK
<1>2. /\ \A c \in Buffers : buf[c].min \in Nat
      /\ \A i, j \in DOMAIN q : i <= j => buf[q[i]].min <= buf[q[j]].min
  <2>1. \A c \in Buffers : buf[c].min \in Nat
    BY Domains DEF TypeOK
  <2> QED BY <1>1, <2>1 DEF QueueInv
<1> HIDE DEF q, b
<1>3. enq(q, b) \in Seq(Buffers)
  BY <1>1, <1>2, EnqFacts
<1> QED BY <1>1, <1>3 DEF publish, TypeOK, q, b

LEMMA TypeStep ==
    ASSUME IInv, [Next]_vars
    PROVE  TypeOK'
<1> USE DEF IInv
<1>1. /\ GlobalEpoch' \in 1 .. MaxEpoch
      /\ ThLocalEpoch' \in [Workers -> 0 .. MaxEpoch] /\ CTIDW' \in [Workers -> 0 .. MaxEpoch]
  <2>1. CASE Tick
    BY <2>1, Domains DEF TypeOK, Tick
  <2>2. ASSUME NEW w \in Workers, Validate(w) \/ Push(w)
        PROVE  /\ GlobalEpoch' \in 1 .. MaxEpoch
               /\ ThLocalEpoch' \in [Workers -> 0 .. MaxEpoch] /\ CTIDW' \in [Workers -> 0 .. MaxEpoch]
    <3>1. /\ GlobalEpoch \in 1 .. MaxEpoch /\ GlobalEpoch \in 0 .. MaxEpoch
          /\ ThLocalEpoch \in [Workers -> 0 .. MaxEpoch] /\ CTIDW \in [Workers -> 0 .. MaxEpoch]
      BY Domains DEF TypeOK
    <3>2. CASE Validate(w)
      BY <3>1, <3>2 DEF Validate
    <3>3. CASE Push(w)
      BY <3>1, <3>3 DEF Push
    <3> QED BY <2>2, <3>2, <3>3
  <2>3. Tick \/ (\E w \in Workers : Validate(w) \/ Push(w))
          \/ UNCHANGED <<GlobalEpoch, ThLocalEpoch, CTIDW>>
    BY StepCases, WorkerFrame, LoggerFrame DEF SendQuit, vars, glob
  <2> QED BY <2>1, <2>2, <2>3 DEF TypeOK
<1>2. quit' \in BOOLEAN
  BY StepCases, WorkerFrame, LoggerFrame DEF TypeOK, SendQuit, Tick, vars
<1>3. pc' \in [Workers -> WPC] /\ size' \in [Workers -> Sizes \cup {0}]
  <2>1. ASSUME NEW w \in Workers, Worker(w) 
        PROVE  pc' \in [Workers -> WPC] /\ size' \in [Workers -> Sizes \cup {0}]
    <3>1. pc \in [Workers -> WPC] /\ size \in [Workers -> Sizes \cup {0}]
      BY DEF TypeOK
    <3>2. pc' = pc \/ \E to \in WPC : Goto(w, to)
      BY <2>1 DEF Worker, Validate, Publish, TakeBuffer, Push, Terminate, WorkerEnd,
             WorkerJoined, WPC
    <3>3. size' = size \/ \E n \in Sizes : size' = [size EXCEPT ![w] = n]
      BY <2>1, WorkerFrame DEF Validate
    <3> QED BY <3>1, <3>2, <3>3 DEF Goto
  <2>2. (\E w \in Workers : Worker(w)) \/ UNCHANGED <<pc, size>>
    BY StepCases, LoggerFrame DEF SendQuit, Tick, vars, work
  <2> QED BY <2>1, <2>2 DEF TypeOK
<1>4. txs' \in [Workers -> Seq([epoch : 1 .. MaxEpoch, size : Sizes])]
  <2>1. ASSUME NEW w \in Workers, Push(w)
        PROVE  txs' \in [Workers -> Seq([epoch : 1 .. MaxEpoch, size : Sizes])]
    <3>1. ThLocalEpoch[w] \in 1 .. MaxEpoch
      BY <2>1, PushedFacts
    <3>2. size[w] # 0 => [epoch |-> ThLocalEpoch[w], size |-> size[w]] \in [epoch : 1 .. MaxEpoch, size : Sizes]
      BY <3>1 DEF TypeOK
    <3> DEFINE T == [epoch : 1 .. MaxEpoch, size : Sizes]
               x == [epoch |-> ThLocalEpoch[w], size |-> size[w]]
    <3>3. size[w] # 0 => x \in T
      BY <3>2
    <3>4. txs' = txs \/ (size[w] # 0 /\ txs' = [txs EXCEPT ![w] = Append(txs[w], x)])
      <4>1. txs' = IF size[w] = 0 THEN txs ELSE [txs EXCEPT ![w] = Append(txs[w], x)]
        BY <2>1 DEF Push
      <4> HIDE DEF x, T
      <4>2. CASE size[w] = 0
        BY <4>1, <4>2
      <4>3. CASE size[w] # 0
        BY <4>1, <4>3
      <4> QED BY <4>2, <4>3
    <3>5. txs \in [Workers -> Seq(T)]
      BY DEF TypeOK
    <3> HIDE DEF T, x
    <3>6. size[w] # 0 => Append(txs[w], x) \in Seq(T)
      BY <3>3, <3>5, AppendFacts
    <3>7. txs' \in [Workers -> Seq(T)]
      BY <3>4, <3>5, <3>6
    <3> QED BY <3>7 DEF T
  <2>2. (\E w \in Workers : Push(w)) \/ UNCHANGED txs
    BY StepCases, WorkerFrame, LoggerFrame DEF SendQuit, Tick, vars, work
  <2> QED BY <2>1, <2>2 DEF TypeOK
<1>5. buf' \in [Buffers -> BufferType]
  <2>1. ASSUME NEW w \in Workers, Push(w) PROVE buf' \in [Buffers -> BufferType]
    BY <2>1, PushedFacts DEF TypeOK, BufferType
  <2>2. ASSUME NEW l \in Loggers, WriteBuffer(l) PROVE buf' \in [Buffers -> BufferType]
    <3>1. Head(batch[l]) \in Buffers
      BY <2>2, TailFacts DEF WriteBuffer, TypeOK
    <3> QED BY <2>2, <3>1, WrittenFacts DEF WriteBuffer, TypeOK, BufferType
  <2>3. (\E w \in Workers : Push(w)) \/ (\E l \in Loggers : WriteBuffer(l)) \/ UNCHANGED buf
    BY StepCases, WorkerFrame, LoggerFrame DEF SendQuit, Tick, vars
  <2> QED BY <2>1, <2>2, <2>3 DEF TypeOK, BufferType
<1>6. current_buffer' \in [Workers -> Buffers \cup {NULL}]
  <2>1. ASSUME NEW w \in Workers, Publish(w) \/ Terminate(w)
        PROVE  current_buffer' \in [Workers -> Buffers \cup {NULL}]
    BY <2>1, PublishTypes DEF Publish, Terminate, ReadyInv, TypeOK
  <2>2. ASSUME NEW w \in Workers, TakeBuffer(w)
        PROVE  current_buffer' \in [Workers -> Buffers \cup {NULL}]
    BY <2>2, FrontFacts DEF TakeBuffer, TypeOK
  <2>3. (\E w \in Workers : Publish(w) \/ Terminate(w) \/ TakeBuffer(w)) \/ UNCHANGED current_buffer
    BY StepCases, WorkerFrame, LoggerFrame DEF SendQuit, Tick, vars, work
  <2> QED BY <2>1, <2>2, <2>3 DEF TypeOK
<1>7. pool' \in [Workers -> Seq(Buffers)]
  <2>1. ASSUME NEW w \in Workers, TakeBuffer(w) PROVE pool' \in [Workers -> Seq(Buffers)]
    BY <2>1, FrontFacts DEF TakeBuffer, TypeOK
  <2>2. ASSUME NEW l \in Loggers, WriteBuffer(l) PROVE pool' \in [Workers -> Seq(Buffers)]
    <3> DEFINE b == Head(batch[l])
    <3>1. b \in Buffers /\ b[1] \in Workers /\ pool[b[1]] \in Seq(Buffers)
      BY <2>2, TailFacts, Domains DEF WriteBuffer, TypeOK
    <3>2. Append(pool[b[1]], b) \in Seq(Buffers)
      BY <3>1, AppendFacts
    <3>3. pool' = [pool EXCEPT ![b[1]] = Append(pool[b[1]], b)]
      BY <2>2 DEF WriteBuffer
    <3> HIDE DEF b
    <3> QED BY <3>1, <3>2, <3>3 DEF TypeOK
  <2>3. (\E w \in Workers : TakeBuffer(w)) \/ (\E l \in Loggers : WriteBuffer(l)) \/ UNCHANGED pool
    BY StepCases, WorkerFrame, LoggerFrame DEF SendQuit, Tick, vars
  <2> QED BY <2>1, <2>2, <2>3 DEF TypeOK
<1>8. queue' \in [Loggers -> Seq(Buffers)]
  <2>1. ASSUME NEW w \in Workers, Publish(w) \/ Terminate(w)
        PROVE  queue' \in [Loggers -> Seq(Buffers)]
    BY <2>1, PublishTypes DEF Publish, Terminate, ReadyInv, TypeOK
  <2>2. ASSUME NEW l \in Loggers, Deq(l) PROVE queue' \in [Loggers -> Seq(Buffers)]
    BY <2>2 DEF Deq, TypeOK
  <2>3. (\E w \in Workers : Publish(w) \/ Terminate(w)) \/ (\E l \in Loggers : Deq(l)) \/ UNCHANGED queue
    BY StepCases, WorkerFrame, LoggerFrame DEF SendQuit, Tick, vars
  <2> QED BY <2>1, <2>2, <2>3 DEF TypeOK
<1>9. batch' \in [Loggers -> Seq(Buffers)] /\ logfile' \in [Loggers -> Seq(Entry)]
  <2>1. ASSUME NEW l \in Loggers, Deq(l)
        PROVE  batch' \in [Loggers -> Seq(Buffers)] /\ logfile' \in [Loggers -> Seq(Entry)]
    BY <2>1 DEF Deq, TypeOK
  <2>2. ASSUME NEW l \in Loggers, WriteBuffer(l)
        PROVE  batch' \in [Loggers -> Seq(Buffers)] /\ logfile' \in [Loggers -> Seq(Entry)]
    <3> DEFINE b == Head(batch[l])
    <3>1. b \in Buffers /\ Tail(batch[l]) \in Seq(Buffers)
      BY <2>2, TailFacts DEF WriteBuffer, TypeOK
    <3>2. logfile[l] \in Seq(Entry) /\ buf[b].log_set \in Seq(Entry)
      BY <3>1 DEF TypeOK
    <3>3. logfile[l] \o buf[b].log_set \in Seq(Entry)
      BY <3>2
    <3>4. /\ logfile' = [logfile EXCEPT ![l] = logfile[l] \o buf[b].log_set]
          /\ batch' = [batch EXCEPT ![l] = Tail(batch[l])]
      BY <2>2 DEF WriteBuffer
    <3> HIDE DEF b
    <3> QED BY <3>1, <3>3, <3>4 DEF TypeOK
  <2>3. (\E l \in Loggers : Deq(l) \/ WriteBuffer(l)) \/ UNCHANGED <<batch, logfile>>
    BY StepCases, WorkerFrame, LoggerFrame DEF SendQuit, Tick, Deq, vars, local
  <2> QED BY <2>1, <2>2, <2>3 DEF TypeOK
<1>10. lpc' \in [Loggers -> LPC]
  <2>1. ASSUME NEW l \in Loggers, Logger(l) PROVE lpc' \in [Loggers -> LPC]
    BY <2>1, LoggerFrame DEF TypeOK, WriteBuffer, LGoto
  <2> QED BY <2>1, StepCases, WorkerFrame DEF TypeOK, SendQuit, Tick, vars
<1>11. min_epoch' \in [Loggers -> 0 .. MaxEpoch] /\ skipped' \in BOOLEAN
  <2>1. ASSUME NEW l \in Loggers, NEW at, NEW to, FindMinCtid(l, at, to)
        PROVE  min_epoch' \in [Loggers -> 0 .. MaxEpoch] /\ skipped' \in BOOLEAN
    <3> DEFINE known == {w \in MyWorkers(l) : CTIDW[w] > 0}
               T == {CTIDW[w] : w \in known}
               m == IF known = {} THEN 0 ELSE Min(T)
    <3>1. m \in 0 .. MaxEpoch
      <4>1. T \subseteq 0 .. MaxEpoch /\ T \subseteq Nat /\ (known # {} => T # {})
        <5>1. CTIDW \in [Workers -> 0 .. MaxEpoch]
          BY DEF TypeOK
        <5>2. \A w \in known : CTIDW[w] \in 0 .. MaxEpoch
          BY <5>1 DEF MyWorkers
        <5>3. T \subseteq 0 .. MaxEpoch
          BY <5>2
        <5>4. known # {} => T # {}
          OBVIOUS
        <5> HIDE DEF T, known
        <5>5. 0 .. MaxEpoch \subseteq Nat
          BY Domains
        <5> QED BY <5>3, <5>4, <5>5
      <4>2. known # {} => Min(T) \in T
        <5> HIDE DEF known, T
        <5> QED BY <4>1, MinFacts
      <4> QED BY <4>1, <4>2, Domains
    <3>2. min_epoch' = [min_epoch EXCEPT ![l] = m]
      BY <2>1 DEF FindMinCtid
    <3>3. skipped' \in BOOLEAN
      BY <2>1 DEF FindMinCtid, TypeOK
    <3> QED BY <3>1, <3>2, <3>3 DEF TypeOK
  <2>2. ASSUME NEW l \in Loggers, NEW at, NEW to, FindMinQueue(l, at, to)
        PROVE  min_epoch' \in [Loggers -> 0 .. MaxEpoch] /\ skipped' \in BOOLEAN
    <3>1. QueueEpoch(l) \in Nat
      <4>1. queue[l] # <<>> => Head(queue[l]) \in Buffers
        BY TailFacts DEF TypeOK
      <4> QED BY <4>1, Domains DEF QueueEpoch, TypeOK
    <3>2. Min({min_epoch[l], QueueEpoch(l)}) \in 0 .. MaxEpoch
      <4>1. min_epoch[l] \in 0 .. MaxEpoch /\ min_epoch[l] \in Nat
        BY DEF TypeOK
      <4> QED BY <3>1, <4>1, MinOfTwo, Domains
    <3> QED BY <2>2, <3>2 DEF FindMinQueue, TypeOK
  <2>3. (\E l \in Loggers : Computes(l)) \/ UNCHANGED <<min_epoch, skipped>>
    BY StepCases, WorkerFrame, LoggerFrame DEF SendQuit, Tick, vars, local
  <2> QED BY <2>1, <2>2, <2>3 DEF TypeOK, Computes
<1>12. min_dl' \in [Loggers -> 0 .. MaxEpoch] /\ old_d' \in [Loggers -> 0 .. MaxEpoch]
  <2>1. ASSUME NEW l \in Loggers, Send(l) \/ Final(l)
        PROVE  min_dl' \in [Loggers -> 0 .. MaxEpoch] /\ old_d' \in [Loggers -> 0 .. MaxEpoch]
    <3> DEFINE T == {ThLocalDurableEpoch[i] : i \in Loggers}
    <3>1. T \subseteq 0 .. MaxEpoch /\ T \subseteq Nat /\ T # {}
      <4>1. PICK i \in Loggers : TRUE
        BY Domains
      <4>2. ThLocalDurableEpoch[i] \in T
        OBVIOUS
      <4>3. ThLocalDurableEpoch \in [Loggers -> 0 .. MaxEpoch]
        BY DEF TypeOK
      <4>4. \A j \in Loggers : ThLocalDurableEpoch[j] \in 0 .. MaxEpoch
        BY <4>3
      <4>5. T \subseteq 0 .. MaxEpoch
        BY <4>4
      <4> HIDE DEF T
      <4> QED BY <4>2, <4>5
    <3>2. Min(T) \in 0 .. MaxEpoch
      <4> HIDE DEF T
      <4> QED BY <3>1, MinFacts
    <3>3. /\ min_dl \in [Loggers -> 0 .. MaxEpoch] /\ old_d \in [Loggers -> 0 .. MaxEpoch]
          /\ DurableEpoch \in 0 .. MaxEpoch
      BY DEF TypeOK
    <3>4. \/ UNCHANGED <<min_dl, old_d>>
          \/ /\ min_dl' = [min_dl EXCEPT ![l] = Min(T)]
             /\ old_d' = [old_d EXCEPT ![l] = DurableEpoch]
      BY <2>1 DEF Send, Final, LoadDurable
    <3> HIDE DEF T
    <3> QED BY <3>2, <3>3, <3>4
  <2>2. (\E l \in Loggers : Send(l) \/ Final(l)) \/ UNCHANGED <<min_dl, old_d>>
    BY StepCases, WorkerFrame, LoggerFrame DEF SendQuit, Tick, vars, local
  <2> QED BY <2>1, <2>2 DEF TypeOK
<1>13. DurableEpoch' \in 0 .. MaxEpoch
  <2>1. (\E l \in Loggers : DurableEpoch' = min_dl[l]) \/ UNCHANGED DurableEpoch
    BY StepCases, WorkerFrame, LoggerFrame DEF SendQuit, Tick, vars, dur, Declares, SwapDurable
  <2> QED BY <2>1 DEF TypeOK
<1>14. ThLocalDurableEpoch' \in [Loggers -> 0 .. MaxEpoch]
  <2>1. ASSUME NEW l \in Loggers, StoreThLocalDurable(l)
        PROVE  ThLocalDurableEpoch' \in [Loggers -> 0 .. MaxEpoch]
    <3>1. min_epoch[l] - 1 \in 0 .. MaxEpoch
      BY <2>1, Domains DEF StoreThLocalDurable, LoggerInv, TypeOK
    <3> QED BY <2>1, <3>1 DEF StoreThLocalDurable, TypeOK
  <2> QED BY <2>1, StepCases, WorkerFrame, LoggerFrame DEF SendQuit, Tick, vars, dur, TypeOK
<1>15. pepoch' \in Seq(1 .. MaxEpoch)
  <2>1. ASSUME NEW l \in Loggers, Records(l) PROVE pepoch' \in Seq(1 .. MaxEpoch)
    <3>1. min_dl[l] \in 1 .. MaxEpoch /\ pepoch' = Append(pepoch, min_dl[l])
      BY <2>1 DEF Records, WritePepoch, LoggerInv, TypeOK
    <3> QED BY <3>1, AppendFacts DEF TypeOK
  <2> QED BY <2>1, StepCases, WorkerFrame, LoggerFrame DEF SendQuit, Tick, vars, dur, TypeOK
<1>16. /\ queue_quit' \in [Loggers -> BOOLEAN] /\ thid_set' \in [Loggers -> SUBSET Workers]
       /\ joined' \in [Loggers -> BOOLEAN]
  <2>1. ASSUME NEW w \in Workers, WorkerEnd(w)
        PROVE  queue_quit' \in [Loggers -> BOOLEAN] /\ thid_set' \in [Loggers -> SUBSET Workers]
    BY <2>1 DEF WorkerEnd, TypeOK
  <2>2. ASSUME NEW l \in Loggers, logger_end(l) PROVE joined' \in [Loggers -> BOOLEAN]
    BY <2>2 DEF logger_end, TypeOK
  <2>3. /\ (\E w \in Workers : WorkerEnd(w)) \/ UNCHANGED <<queue_quit, thid_set>>
        /\ (\E l \in Loggers : logger_end(l)) \/ UNCHANGED joined
    BY StepCases, WorkerFrame, LoggerFrame DEF SendQuit, Tick, vars, fin
  <2> QED BY <2>1, <2>2, <2>3 DEF TypeOK
<1> QED
  BY <1>1, <1>2, <1>3, <1>4, <1>5, <1>6, <1>7, <1>8, <1>9, <1>10, <1>11, <1>12, <1>13, <1>14,
     <1>15, <1>16 DEF TypeOK, BufferType
-----------------------------------------------------------------------------
(* Epochs, current buffers, loggers.                                        *)

LEMMA EpochStep ==
    ASSUME IInv, [Next]_vars
    PROVE  EpochInv'
<1>1. /\ \A w \in Workers : CTIDW[w] <= ThLocalEpoch[w] /\ ThLocalEpoch[w] <= GlobalEpoch
      /\ \A w \in Workers : pc[w] \in {"wal", "push"} => ThLocalEpoch[w] >= 1
      /\ GlobalEpoch \in Nat \ {0}
      /\ ThLocalEpoch \in [Workers -> Nat] /\ CTIDW \in [Workers -> Nat] /\ pc \in [Workers -> WPC]
  <2>1. /\ GlobalEpoch \in 1 .. MaxEpoch /\ ThLocalEpoch \in [Workers -> 0 .. MaxEpoch]
        /\ CTIDW \in [Workers -> 0 .. MaxEpoch] /\ pc \in [Workers -> WPC]
    BY DEF IInv, TypeOK
  <2>2. 1 .. MaxEpoch \subseteq Nat \ {0} /\ 0 .. MaxEpoch \subseteq Nat
    BY Domains
  <2> QED BY <2>1, <2>2 DEF IInv, EpochInv
<1>2. CASE Tick
  <2>1. UNCHANGED <<ThLocalEpoch, CTIDW, pc>> /\ GlobalEpoch' = GlobalEpoch + 1
    BY <1>2 DEF Tick, work
  <2> QED BY <1>1, <2>1 DEF EpochInv
<1>3. ASSUME NEW w \in Workers, Worker(w) PROVE EpochInv'
  <2>1. CASE Validate(w)
    <3>1. /\ ThLocalEpoch' = [ThLocalEpoch EXCEPT ![w] = GlobalEpoch]
          /\ pc' = [pc EXCEPT ![w] = "wal"] /\ UNCHANGED <<GlobalEpoch, CTIDW>>
      BY <2>1 DEF Validate, Goto
    <3> QED BY <1>1, <3>1 DEF EpochInv
  <2>2. CASE Push(w)
    <3>1. /\ CTIDW' = [CTIDW EXCEPT ![w] = ThLocalEpoch[w]]
          /\ pc' = [pc EXCEPT ![w] = "retry"] /\ UNCHANGED <<GlobalEpoch, ThLocalEpoch>>
      BY <2>2 DEF Push, Goto
    <3> QED BY <1>1, <3>1 DEF EpochInv
  <2>3. CASE ~ Validate(w) /\ ~ Push(w)
    <3>1. UNCHANGED <<GlobalEpoch, ThLocalEpoch, CTIDW>>
      BY <1>3, <2>3, WorkerFrame
    <3>2. \/ pc' = pc
          \/ pc[w] = "wal" /\ pc' = [pc EXCEPT ![w] = "push"]
          \/ \E to \in {"ending", "joining", "done"} : pc' = [pc EXCEPT ![w] = to]
      BY <1>3, <2>3 DEF Worker, Publish, TakeBuffer, Terminate, WorkerEnd, WorkerJoined, Goto
    <3> QED BY <1>1, <3>1, <3>2 DEF EpochInv
  <2> QED BY <2>1, <2>2, <2>3
<1>4. CASE UNCHANGED <<GlobalEpoch, ThLocalEpoch, CTIDW, pc>>
  BY <1>4 DEF IInv, EpochInv
<1> QED BY <1>2, <1>3, <1>4, StepCases, LoggerFrame DEF SendQuit, vars, glob, work

LEMMA ReadyStep ==
    ASSUME IInv, [Next]_vars
    PROVE  ReadyInv'
<1>1. /\ \A w \in Workers : pc[w] \in {"retry", "wal"} => current_buffer[w] # NULL
      /\ pc \in [Workers -> WPC] /\ current_buffer \in [Workers -> Buffers \cup {NULL}]
  BY DEF IInv, ReadyInv, TypeOK
<1>2. ASSUME NEW w \in Workers, Worker(w) PROVE ReadyInv'
  <2>1. CASE TakeBuffer(w)
    <3>1. Last(pool[w]) \in Buffers
      BY <2>1, FrontFacts DEF TakeBuffer, IInv, TypeOK
    <3>2. pc' = pc /\ current_buffer' = [current_buffer EXCEPT ![w] = Last(pool[w])]
      BY <2>1 DEF TakeBuffer
    <3> QED BY <1>1, <3>1, <3>2, Domains DEF ReadyInv
  <2>2. CASE Publish(w) \/ Terminate(w)
    <3>1. /\ \/ current_buffer' = current_buffer
             \/ current_buffer' = [current_buffer EXCEPT ![w] = NULL]
          /\ \E to \in {"push", "ending"} : pc' = [pc EXCEPT ![w] = to]
      BY <2>2 DEF Publish, Terminate, publish, Goto
    <3> QED BY <1>1, <3>1 DEF ReadyInv
  <2>3. CASE ~ TakeBuffer(w) /\ ~ Publish(w) /\ ~ Terminate(w)
    <3>1. current_buffer' = current_buffer
      BY <1>2, <2>3, WorkerFrame
    <3>2. \E to \in WPC : /\ to \in {"retry", "wal"} => current_buffer[w] # NULL
                          /\ pc' = [pc EXCEPT ![w] = to]
      BY <1>2, <2>3 DEF Worker, Validate, Push, WorkerEnd, WorkerJoined, Goto, WPC
    <3> QED BY <1>1, <3>1, <3>2 DEF ReadyInv
  <2> QED BY <2>1, <2>2, <2>3
<1>3. CASE UNCHANGED <<pc, current_buffer>>
  BY <1>3 DEF IInv, ReadyInv
<1> QED BY <1>2, <1>3, StepCases, LoggerFrame DEF SendQuit, Tick, vars, work

LEMMA DurableMoves ==
    ASSUME IInv, [Next]_vars
    PROVE  /\ DurableEpoch' >= DurableEpoch
           /\ \A l \in Loggers : /\ ThLocalDurableEpoch'[l] >= ThLocalDurableEpoch[l]
                                 /\ DurableEpoch' <= ThLocalDurableEpoch'[l]
<1>1. /\ DurableEpoch \in Nat /\ ThLocalDurableEpoch \in [Loggers -> Nat]
      /\ min_dl \in [Loggers -> Nat] /\ old_d \in [Loggers -> Nat] /\ min_epoch \in [Loggers -> Nat]
  BY Domains DEF IInv, TypeOK
<1>2. \A l \in Loggers : DurableEpoch <= ThLocalDurableEpoch[l]
  BY DEF IInv, PepochBehind
<1>3. ASSUME NEW l \in Loggers, Declares(l), DurableEpoch' # DurableEpoch
      PROVE  /\ DurableEpoch' >= DurableEpoch /\ UNCHANGED ThLocalDurableEpoch
             /\ \A i \in Loggers : DurableEpoch' <= ThLocalDurableEpoch[i]
  <2>1. /\ lpc[l] \in {"cas", "casFinal"} /\ DurableEpoch' = min_dl[l]
        /\ old_d[l] < min_dl[l] /\ DurableEpoch = old_d[l] /\ UNCHANGED ThLocalDurableEpoch
    BY <1>3 DEF Declares, SwapDurable
  <2>2. \A i \in Loggers : min_dl[l] <= ThLocalDurableEpoch[i]
    BY <2>1 DEF IInv, LoggerInv
  <2> QED BY <1>1, <2>1, <2>2
<1>4. ASSUME NEW l \in Loggers, StoreThLocalDurable(l)
      PROVE  /\ UNCHANGED DurableEpoch
             /\ \A i \in Loggers : ThLocalDurableEpoch'[i] >= ThLocalDurableEpoch[i]
  <2>1. /\ ThLocalDurableEpoch' = [ThLocalDurableEpoch EXCEPT ![l] = min_epoch[l] - 1]
        /\ UNCHANGED DurableEpoch /\ lpc[l] = "store"
    BY <1>4 DEF StoreThLocalDurable
  <2>2. ThLocalDurableEpoch[l] < min_epoch[l] - 1
    BY <2>1 DEF IInv, LoggerInv
  <2> QED BY <1>1, <2>1, <2>2
<1>5. CASE UNCHANGED <<DurableEpoch, ThLocalDurableEpoch>>
  BY <1>1, <1>2, <1>5
<1>6. \/ \E l \in Loggers : StoreThLocalDurable(l)
      \/ \E l \in Loggers : Declares(l) /\ DurableEpoch' # DurableEpoch
      \/ UNCHANGED <<DurableEpoch, ThLocalDurableEpoch>>
  BY StepCases, WorkerFrame, LoggerFrame DEF SendQuit, Tick, vars, dur, Declares, SwapDurable
<1>7. DurableEpoch' >= DurableEpoch
  BY <1>1, <1>3, <1>4, <1>5, <1>6
<1>8. ASSUME NEW i \in Loggers
      PROVE  ThLocalDurableEpoch'[i] >= ThLocalDurableEpoch[i] /\ DurableEpoch' <= ThLocalDurableEpoch'[i]
  <2>1. /\ ThLocalDurableEpoch[i] \in Nat /\ DurableEpoch \in Nat /\ DurableEpoch <= ThLocalDurableEpoch[i]
        /\ ThLocalDurableEpoch'[i] \in Nat
    BY <1>1, <1>2, TypeStep, Domains DEF TypeOK
  <2> QED BY <1>3, <1>4, <1>5, <1>6, <2>1
<1> QED BY <1>7, <1>8

LEMMA PepochStep ==
    ASSUME IInv, [Next]_vars
    PROVE  PepochBehind'
<1>1. /\ \A i \in DOMAIN pepoch : pepoch[i] <= DurableEpoch
      /\ pepoch \in Seq(1 .. MaxEpoch) /\ DurableEpoch \in Nat /\ DurableEpoch' \in Nat
  <2>1. pepoch \in Seq(1 .. MaxEpoch) /\ DurableEpoch \in 0 .. MaxEpoch
    BY DEF IInv, TypeOK
  <2>2. DurableEpoch' \in 0 .. MaxEpoch
    BY TypeStep DEF TypeOK
  <2> QED BY <2>1, <2>2, Domains DEF IInv, PepochBehind
<1>2. pepoch \in Seq(Nat)
  BY <1>1, Domains
<1>3. \A i \in DOMAIN pepoch' : pepoch'[i] <= DurableEpoch'
  <2>1. ASSUME NEW l \in Loggers, Records(l) PROVE \A i \in DOMAIN pepoch' : pepoch'[i] <= DurableEpoch'
    <3>1. lpc[l] \in {"pepoch", "pepochFinal"} /\ pepoch' = Append(pepoch, min_dl[l])
          /\ DurableEpoch' = DurableEpoch
      BY <2>1 DEF Records, WritePepoch
    <3>2. min_dl[l] \in Nat /\ min_dl[l] <= DurableEpoch
      BY <3>1, Domains DEF IInv, LoggerInv, TypeOK
    <3> QED BY <1>1, <1>2, <3>1, <3>2
  <2>2. CASE UNCHANGED pepoch
    <3>1. \A i \in DOMAIN pepoch : pepoch[i] \in Nat
      BY <1>2
    <3> QED BY <1>1, <2>2, <3>1, DurableMoves
  <2> QED BY <2>1, <2>2, StepCases, WorkerFrame, LoggerFrame DEF SendQuit, Tick, vars, dur
<1> QED BY <1>3, DurableMoves DEF PepochBehind

LEMMA MinOfDurable ==
    ASSUME TypeOK, NEW l \in Loggers, NEW to, LoadDurable(l, to)
    PROVE  \E m \in Nat : /\ min_dl' = [min_dl EXCEPT ![l] = m]
                          /\ \A i \in Loggers : m <= ThLocalDurableEpoch[i]
<1> DEFINE T == {ThLocalDurableEpoch[i] : i \in Loggers}
<1>1. ThLocalDurableEpoch \in [Loggers -> Nat] /\ Loggers # {}
  BY Domains DEF TypeOK
<1>2. T \subseteq Nat /\ T # {} /\ \A i \in Loggers : ThLocalDurableEpoch[i] \in T
  BY <1>1
<1>3. min_dl' = [min_dl EXCEPT ![l] = Min(T)]
  BY DEF LoadDurable
<1> HIDE DEF T
<1>4. Min(T) \in Nat /\ \A i \in Loggers : Min(T) <= ThLocalDurableEpoch[i]
  BY <1>2, MinFacts
<1> QED BY <1>3, <1>4

LEMMA MinOfCtid ==
    ASSUME TypeOK, NEW l \in Loggers, NEW at, NEW to, FindMinCtid(l, at, to)
    PROVE  \E m \in Nat :
             /\ min_epoch' = [min_epoch EXCEPT ![l] = m]
             /\ lpc' = [lpc EXCEPT ![l] = IF m = 0 THEN "wait" ELSE to]
             /\ m > 0 => \A w \in MyWorkers(l) : CTIDW[w] > 0 => m <= CTIDW[w]
             /\ skipped' = (skipped \/ (m > 1 /\ \E w \in MyWorkers(l) : ~ (CTIDW[w] > 0)))
<1> DEFINE known == {w \in MyWorkers(l) : CTIDW[w] > 0}
           T == {CTIDW[w] : w \in known}
           m == IF known = {} THEN 0 ELSE Min(T)
<1>1. \A w \in MyWorkers(l) : CTIDW[w] \in Nat
  BY Domains DEF TypeOK, MyWorkers
<1>2. T \subseteq Nat /\ (known # {} => T # {}) /\ \A w \in known : CTIDW[w] \in T
  BY <1>1
<1>3. m \in Nat /\ \A w \in known : m <= CTIDW[w]
  <2> HIDE DEF known, T
  <2> QED BY <1>2, MinFacts
<1>4. /\ min_epoch' = [min_epoch EXCEPT ![l] = m]
      /\ lpc' = [lpc EXCEPT ![l] = IF m = 0 THEN "wait" ELSE to]
      /\ skipped' = (skipped \/ (m > 1 /\ known # MyWorkers(l)))
  BY DEF FindMinCtid, LGoto
<1>5. known # MyWorkers(l) <=> \E w \in MyWorkers(l) : ~ (CTIDW[w] > 0)
  OBVIOUS
<1>6. \A w \in MyWorkers(l) : CTIDW[w] > 0 => w \in known
  OBVIOUS
<1> HIDE DEF m, known, T
<1> QED BY <1>3, <1>4, <1>5, <1>6

LEMMA MinOfQueue ==
    ASSUME TypeOK, NEW l \in Loggers, NEW at, NEW to, FindMinQueue(l, at, to)
    PROVE  /\ min_epoch' = [min_epoch EXCEPT ![l] = IF @ <= QueueEpoch(l) THEN @ ELSE QueueEpoch(l)]
           /\ QueueEpoch(l) \in Nat \ {0} /\ min_epoch[l] \in Nat
           /\ queue[l] # <<>> => QueueEpoch(l) = buf[queue[l][1]].min
<1>1. queue[l] \in Seq(Buffers) /\ (queue[l] # <<>> => Head(queue[l]) \in Buffers /\ Head(queue[l]) = queue[l][1])
  BY TailFacts DEF TypeOK
<1>2. \A b \in Buffers : buf[b].min \in Nat \ {0}
  BY Domains DEF TypeOK
<1>3. QueueEpoch(l) \in Nat \ {0}
  BY <1>1, <1>2, Domains DEF QueueEpoch
<1>4. min_epoch[l] \in Nat
  BY Domains DEF TypeOK
<1>5. min_epoch' = [min_epoch EXCEPT ![l] = Min({min_epoch[l], QueueEpoch(l)})]
  BY DEF FindMinQueue
<1> QED BY <1>1, <1>3, <1>4, <1>5, MinOfTwo DEF QueueEpoch

LEMMA LoggerStep ==
    ASSUME IInv, [Next]_vars
    PROVE  LoggerInv'
<1>1. /\ DurableEpoch \in Nat /\ ThLocalDurableEpoch \in [Loggers -> Nat]
      /\ min_dl \in [Loggers -> Nat] /\ old_d \in [Loggers -> Nat] /\ min_epoch \in [Loggers -> Nat]
      /\ lpc \in [Loggers -> LPC] /\ batch \in [Loggers -> Seq(Buffers)]
  BY Domains DEF IInv, TypeOK
<1>2. LoggerInv /\ TypeOK
  BY DEF IInv
<1>3. DurableEpoch' \in Nat /\ \A i \in Loggers : ThLocalDurableEpoch'[i] \in Nat
  <2>1. DurableEpoch' \in 0 .. MaxEpoch /\ ThLocalDurableEpoch' \in [Loggers -> 0 .. MaxEpoch]
    BY TypeStep DEF TypeOK
  <2> QED BY <2>1, Domains
<1> DEFINE OK(i) ==
        /\ lpc[i] # "write" => batch[i] = <<>>
        /\ lpc[i] \in {"queueDeq", "queueWait", "deq", "write", "send"} => min_epoch[i] >= 1
        /\ lpc[i] \in {"cas", "pepoch", "store"} => ThLocalDurableEpoch[i] < min_epoch[i] - 1
        /\ lpc[i] \in {"cas", "casFinal"} => \A j \in Loggers : min_dl[i] <= ThLocalDurableEpoch[j]
        /\ lpc[i] \in {"pepoch", "pepochFinal"} => 1 <= min_dl[i] /\ min_dl[i] <= DurableEpoch
<1>4. ASSUME NEW i \in Loggers,
             lpc'[i] = lpc[i], batch'[i] = batch[i], min_epoch'[i] = min_epoch[i],
             min_dl'[i] = min_dl[i], ThLocalDurableEpoch'[i] = ThLocalDurableEpoch[i]
      PROVE  OK(i)'
  <2>1. lpc[i] \in {"cas", "casFinal"} => \A j \in Loggers : min_dl[i] <= ThLocalDurableEpoch'[j]
    BY <1>1, <1>2, <1>3, DurableMoves DEF LoggerInv
  <2>2. lpc[i] \in {"pepoch", "pepochFinal"} => 1 <= min_dl[i] /\ min_dl[i] <= DurableEpoch'
    BY <1>1, <1>2, <1>3, DurableMoves DEF LoggerInv
  <2> QED BY <1>2, <1>4, <2>1, <2>2 DEF LoggerInv
<1>5. ASSUME NEW l \in Loggers, Logger(l) PROVE \A i \in Loggers : OK(i)'
  <2>1. ASSUME NEW i \in Loggers, i # l PROVE OK(i)'
    <3>1. /\ lpc'[i] = lpc[i] /\ batch'[i] = batch[i] /\ min_epoch'[i] = min_epoch[i]
          /\ min_dl'[i] = min_dl[i] /\ ThLocalDurableEpoch'[i] = ThLocalDurableEpoch[i]
      BY <1>1, <1>5, <2>1 DEF Logger, WaitDeq, Timeout, FindMinCtid, FindMinQueue, Deq,
         WriteBuffer, LoggingDone, Send, Final, LoadDurable, SwapDurable, WritePepoch,
         StoreThLocalDurable, logger_end, LoggerReturn, LGoto, dur, local
    <3> HIDE DEF OK
    <3> QED BY <1>4, <3>1
  <2>2. ASSUME NEW at, NEW to, FindMinCtid(l, at, to), at # "write", to \in {"queueDeq", "queueWait"}
        PROVE  OK(l)'
    <3>1. PICK m \in Nat : /\ min_epoch' = [min_epoch EXCEPT ![l] = m]
                           /\ lpc' = [lpc EXCEPT ![l] = IF m = 0 THEN "wait" ELSE to]
      BY <1>2, <2>2, MinOfCtid
    <3>2. lpc[l] = at /\ UNCHANGED batch
      BY <2>2 DEF FindMinCtid
    <3>3. /\ lpc'[l] \in {"wait", "queueDeq", "queueWait"} /\ (lpc'[l] = "wait" \/ min_epoch'[l] >= 1)
          /\ batch'[l] = <<>>
      BY <1>1, <1>2, <2>2, <3>1, <3>2 DEF LoggerInv
    <3> QED BY <3>3
  <2>3. ASSUME NEW at, NEW to, FindMinQueue(l, at, to), at \in {"queueDeq", "queueWait"},
               to \in {"deq", "send"}
        PROVE  OK(l)'
    <3>1. /\ min_epoch' = [min_epoch EXCEPT ![l] = IF @ <= QueueEpoch(l) THEN @ ELSE QueueEpoch(l)]
          /\ QueueEpoch(l) \in Nat \ {0}
      BY <1>2, <2>3, MinOfQueue
    <3>2. lpc[l] = at /\ lpc' = [lpc EXCEPT ![l] = to] /\ UNCHANGED batch
      BY <2>3 DEF FindMinQueue, LGoto
    <3>3. min_epoch[l] >= 1 /\ batch[l] = <<>>
      BY <1>2, <2>3, <3>2 DEF LoggerInv
    <3>4. lpc'[l] \in {"deq", "send"} /\ min_epoch'[l] >= 1 /\ batch'[l] = <<>>
      BY <1>1, <2>3, <3>1, <3>2, <3>3
    <3> QED BY <3>4
  <2>4. ASSUME WaitDeq(l) \/ Timeout(l) \/ logger_end(l) \/ LoggerReturn(l) PROVE OK(l)'
    <3>1. /\ lpc'[l] \in {"ctidDeq", "ctidWait", "final", "ended", "gone"}
          /\ lpc[l] # "write" /\ UNCHANGED batch
      BY <1>1, <2>4 DEF WaitDeq, Timeout, logger_end, LoggerReturn, LGoto, local
    <3>2. batch'[l] = <<>>
      BY <1>2, <3>1 DEF LoggerInv
    <3> QED BY <3>1, <3>2
  <2>5. ASSUME Deq(l) \/ WriteBuffer(l) PROVE OK(l)'
    <3>1. lpc'[l] = "write" /\ lpc[l] \in {"deq", "write"} /\ UNCHANGED min_epoch
      BY <1>1, <2>5 DEF Deq, WriteBuffer, LGoto
    <3>2. min_epoch'[l] >= 1
      BY <1>2, <3>1 DEF LoggerInv
    <3> QED BY <3>1, <3>2
  <2>6. ASSUME LoggingDone(l) PROVE OK(l)'
    <3>1. lpc'[l] = "send" /\ lpc[l] = "write" /\ batch[l] = <<>> /\ UNCHANGED <<min_epoch, batch>>
      BY <1>1, <2>6 DEF LoggingDone, LGoto, local
    <3>2. min_epoch'[l] >= 1
      BY <1>2, <3>1 DEF LoggerInv
    <3> QED BY <3>1, <3>2
  <2>7. ASSUME Send(l) \/ Final(l) PROVE OK(l)'
    <3>1. /\ lpc[l] \in {"send", "final"}
          /\ UNCHANGED <<batch, min_epoch, ThLocalDurableEpoch>>
      BY <2>7 DEF Send, Final, dur
    <3>2. batch'[l] = <<>>
      BY <1>2, <3>1 DEF LoggerInv
    <3>3. \/ lpc'[l] = "wait"
          \/ lpc'[l] = "cas" /\ LoadDurable(l, "cas") /\ ThLocalDurableEpoch[l] < min_epoch[l] - 1
          \/ lpc'[l] = "casFinal" /\ LoadDurable(l, "casFinal")
      BY <1>1, <2>7 DEF Send, Final, LoadDurable, LGoto
    <3>4. ASSUME NEW to, LoadDurable(l, to)
          PROVE  \A j \in Loggers : min_dl'[l] <= ThLocalDurableEpoch[j]
      <4>1. PICK m \in Nat : /\ min_dl' = [min_dl EXCEPT ![l] = m]
                             /\ \A j \in Loggers : m <= ThLocalDurableEpoch[j]
        BY <1>2, <3>4, MinOfDurable
      <4> QED BY <1>1, <4>1
    <3> QED BY <3>1, <3>2, <3>3, <3>4
  <2>8. ASSUME NEW at, NEW won, NEW next, SwapDurable(l, at, won, next),
               <<at, won, next>> \in {<<"cas", "pepoch", "store">>, <<"casFinal", "pepochFinal", "end">>}
        PROVE  OK(l)'
    <3>1. /\ lpc[l] = at /\ UNCHANGED <<batch, min_epoch, min_dl, ThLocalDurableEpoch>>
          /\ \/ lpc'[l] = next
             \/ lpc'[l] = won /\ DurableEpoch' = min_dl[l] /\ old_d[l] < min_dl[l]
      BY <1>1, <2>8 DEF SwapDurable, LGoto, local
    <3>2. /\ batch[l] = <<>> /\ (at = "cas" => ThLocalDurableEpoch[l] < min_epoch[l] - 1)
      BY <1>2, <2>8, <3>1 DEF LoggerInv
    <3>3. lpc'[l] = won => 1 <= min_dl'[l] /\ min_dl'[l] <= DurableEpoch'
      BY <1>1, <2>8, <3>1
    <3>4. /\ lpc'[l] \in {"pepoch", "store", "pepochFinal", "end"}
          /\ lpc'[l] \in {"pepoch", "pepochFinal"} => lpc'[l] = won
          /\ lpc'[l] \in {"pepoch", "store"} => at = "cas"
      BY <2>8, <3>1
    <3> QED BY <3>1, <3>2, <3>3, <3>4
  <2>9. ASSUME Records(l) \/ StoreThLocalDurable(l) PROVE OK(l)'
    <3>1. /\ lpc[l] \in {"pepoch", "pepochFinal", "store"} /\ UNCHANGED <<batch, min_epoch>>
          /\ lpc'[l] \in {"store", "end", "wait"}
          /\ lpc'[l] = "store" => lpc[l] = "pepoch" /\ UNCHANGED ThLocalDurableEpoch
      BY <1>1, <2>9 DEF Records, WritePepoch, StoreThLocalDurable, LGoto, local
    <3>2. batch[l] = <<>> /\ (lpc[l] = "pepoch" => ThLocalDurableEpoch[l] < min_epoch[l] - 1)
      BY <1>2, <3>1 DEF LoggerInv
    <3> QED BY <3>1, <3>2
  <2>10. OK(l)'
    <3> HIDE DEF OK
    <3> QED BY <1>5, <2>2, <2>3, <2>4, <2>5, <2>6, <2>7, <2>8, <2>9 DEF Logger, Records
  <2> QED BY <2>1, <2>10
<1>6. ASSUME UNCHANGED <<lpc, batch, min_epoch, min_dl, ThLocalDurableEpoch>>
      PROVE  \A i \in Loggers : OK(i)'
  <2> HIDE DEF OK
  <2> QED BY <1>4, <1>6
<1>7. (\E l \in Loggers : Logger(l)) \/ UNCHANGED <<lpc, batch, min_epoch, min_dl, ThLocalDurableEpoch>>
  BY StepCases, WorkerFrame DEF SendQuit, Tick, vars, local, dur
<1>8. \A i \in Loggers : OK(i)'
  BY <1>5, <1>6, <1>7
<1> QED BY <1>8 DEF LoggerInv
-----------------------------------------------------------------------------
(* Where a buffer is, and which steps move one.                             *)

LEMMA EmptySequence == Range(<<>>) = {} /\ IsInjective(<<>>)
BY DEF Range, IsInjective

LEMMA PlaceTypes ==
    ASSUME IInv
    PROVE  /\ current_buffer \in [Workers -> Buffers \cup {NULL}] /\ pool \in [Workers -> Seq(Buffers)]
           /\ queue \in [Loggers -> Seq(Buffers)] /\ batch \in [Loggers -> Seq(Buffers)]
           /\ Owned /\ OnePlace
BY DEF IInv, TypeOK, PlaceInv

LEMMA QueueFacts ==
    ASSUME IInv, NEW l \in Loggers
    PROVE  /\ queue[l] \in Seq(Buffers) /\ \A c \in Buffers : buf[c].min \in Nat
           /\ \A i, j \in DOMAIN queue[l] : i <= j => buf[queue[l][i]].min <= buf[queue[l][j]].min
<1>1. \A c \in Buffers : buf[c].min \in Nat
  BY Domains DEF IInv, TypeOK
<1>2. \A i, j \in DOMAIN queue[l] : i <= j => buf[queue[l][i]].min <= buf[queue[l][j]].min
  BY DEF IInv, QueueInv
<1> QED BY <1>1, <1>2, PlaceTypes

\* publish() moves the current buffer of w to its logger's queue.
PublishMoves(w) ==
    LET b == current_buffer[w] IN
      /\ b \in Buffers /\ b[1] = w /\ IsCurrent(b) /\ buf[b].nids
      /\ queue' = [queue EXCEPT ![LoggerOf[w]] = enq(@, b)]
      /\ \A c \in Buffers : /\ IsCurrent(c)' <=> IsCurrent(c) /\ c # b
                            /\ IsQueued(c)' <=> IsQueued(c) \/ c = b
                            /\ IsPooled(c)' <=> IsPooled(c)
                            /\ IsTaken(c)' <=> IsTaken(c)

LEMMA PublishPlace ==
    ASSUME IInv, NEW w \in Workers, Publish(w) \/ Terminate(w)
    PROVE  \/ UNCHANGED <<current_buffer, pool, queue, batch>>
           \/ PublishMoves(w) /\ Owned'
<1> DEFINE b == current_buffer[w]
           l == LoggerOf[w]
<1>1. b # NULL
  BY PlaceTypes DEF Publish, Terminate, IInv, ReadyInv
<1>2. /\ b \in Buffers /\ b[1] = w /\ l \in Loggers /\ IsCurrent(b)
  BY <1>1, PlaceTypes, Domains DEF Owned, IsCurrent
<1>3. UNCHANGED <<pool, batch>>
  BY DEF Publish, Terminate, local
<1>4. \/ UNCHANGED <<current_buffer, queue>>
      \/ /\ buf[b].nids /\ queue' = [queue EXCEPT ![l] = enq(queue[l], b)]
         /\ current_buffer' = [current_buffer EXCEPT ![w] = NULL]
  BY <1>1 DEF Publish, Terminate, publish
<1>5. ASSUME buf[b].nids, queue' = [queue EXCEPT ![l] = enq(queue[l], b)],
             current_buffer' = [current_buffer EXCEPT ![w] = NULL]
      PROVE  PublishMoves(w) /\ Owned'
  <2>1. /\ Range(enq(queue[l], b)) = Range(queue[l]) \cup {b}
        /\ IsInjective(queue[l]) /\ b \notin Range(queue[l]) => IsInjective(enq(queue[l], b))
    <3>1. /\ queue[l] \in Seq(Buffers) /\ \A c \in Buffers : buf[c].min \in Nat
          /\ \A i, j \in DOMAIN queue[l] : i <= j => buf[queue[l][i]].min <= buf[queue[l][j]].min
      BY <1>2, QueueFacts
    <3> HIDE DEF b, l
    <3> QED BY ONLY <1>2, <3>1, EnqFacts
  <2> HIDE DEF b, l
  <2>2. \A c \in Buffers : IsQueued(c)' <=> IsQueued(c) \/ c = b
    <3>1. ASSUME NEW c \in Buffers PROVE IsQueued(c)' <=> IsQueued(c) \/ c = b
      <4>1. c[1] \in Workers /\ LoggerOf[c[1]] \in Loggers
        BY Domains
      <4>2. CASE LoggerOf[c[1]] = l
        BY <1>5, <2>1, <4>1, <4>2, PlaceTypes DEF IsQueued
      <4>3. CASE LoggerOf[c[1]] # l
        BY <1>2, <1>5, <4>1, <4>3, PlaceTypes DEF IsQueued, l
      <4> QED BY <4>2, <4>3
    <3> QED BY <3>1
  <2>3. \A c \in Buffers : IsCurrent(c)' <=> IsCurrent(c) /\ c # b
    <3>1. ASSUME NEW c \in Buffers PROVE IsCurrent(c)' <=> IsCurrent(c) /\ c # b
      <4>1. c[1] \in Workers /\ c # NULL
        BY Domains
      <4> QED BY <1>2, <1>5, <4>1, PlaceTypes DEF IsCurrent, b
    <3> QED BY <3>1
  <2>4. \A c \in Buffers : (IsPooled(c)' <=> IsPooled(c)) /\ (IsTaken(c)' <=> IsTaken(c))
    BY <1>3 DEF IsPooled, IsTaken
  <2>5. PublishMoves(w)
    BY <1>2, <1>5, <2>2, <2>3, <2>4 DEF PublishMoves, b, l
  <2>6. b \notin Range(queue[l])
    BY <1>2, PlaceTypes DEF OnePlace, IsQueued, l
  <2>7. \A x \in Loggers : IsInjective(queue'[x]) /\ \A c \in Range(queue'[x]) : LoggerOf[c[1]] = x
    <3>1. ASSUME NEW x \in Loggers
          PROVE  IsInjective(queue'[x]) /\ \A c \in Range(queue'[x]) : LoggerOf[c[1]] = x
      <4>1. IsInjective(queue[x]) /\ \A c \in Range(queue[x]) : LoggerOf[c[1]] = x
        BY PlaceTypes DEF Owned
      <4>2. CASE x = l
        <5>1. queue'[x] = enq(queue[l], b)
          BY <1>2, <1>5, <4>2, PlaceTypes
        <5>2. LoggerOf[b[1]] = l
          BY <1>2 DEF l
        <5> QED BY <2>1, <2>6, <4>1, <4>2, <5>1, <5>2
      <4>3. CASE x # l
        BY <1>5, <4>1, <4>3, PlaceTypes
      <4> QED BY <4>2, <4>3
    <3> QED BY <3>1
  <2>8. \A x \in Workers : current_buffer'[x] # NULL => current_buffer'[x][1] = x
    BY <1>5, PlaceTypes DEF Owned
  <2>9. Owned'
    BY <1>3, <2>7, <2>8, PlaceTypes DEF Owned
  <2> QED BY <2>5, <2>9
<1> QED BY <1>3, <1>4, <1>5

\* is_ready() moves a buffer of the pool to its owner.
TakeMoves(w) ==
    \E b \in Buffers :
      /\ b[1] = w /\ IsPooled(b) /\ current_buffer[w] = NULL
      /\ UNCHANGED <<queue, batch>>
      /\ \A c \in Buffers : /\ IsCurrent(c)' <=> IsCurrent(c) \/ c = b
                            /\ IsPooled(c)' <=> IsPooled(c) /\ c # b
                            /\ IsQueued(c)' <=> IsQueued(c)
                            /\ IsTaken(c)' <=> IsTaken(c)

LEMMA TakePlace ==
    ASSUME IInv, NEW w \in Workers, TakeBuffer(w)
    PROVE  TakeMoves(w) /\ Owned'
<1> DEFINE b == Last(pool[w])
<1>1. /\ current_buffer[w] = NULL /\ pool[w] # <<>> /\ pool[w] \in Seq(Buffers)
      /\ current_buffer' = [current_buffer EXCEPT ![w] = b]
      /\ pool' = [pool EXCEPT ![w] = Front(pool[w])] /\ UNCHANGED <<queue, batch>>
  BY PlaceTypes DEF TakeBuffer, local
<1>2. IsInjective(pool[w]) /\ \A c \in Range(pool[w]) : c[1] = w
  BY PlaceTypes DEF Owned
<1>3. /\ b \in Buffers /\ b \in Range(pool[w])
      /\ IsInjective(Front(pool[w])) /\ Range(Front(pool[w])) = Range(pool[w]) \ {b}
  BY <1>1, <1>2, FrontFacts
<1>4. b[1] = w
  BY <1>2, <1>3
<1> HIDE DEF b
<1>5. ASSUME NEW c \in Buffers
      PROVE  (IsCurrent(c)' <=> IsCurrent(c) \/ c = b) /\ (IsPooled(c)' <=> IsPooled(c) /\ c # b)
  <2>1. c[1] \in Workers /\ c # NULL
    BY Domains
  <2>2. CASE c[1] = w
    BY <1>1, <1>3, <2>1, <2>2, PlaceTypes DEF IsCurrent, IsPooled
  <2>3. CASE c[1] # w
    BY <1>1, <1>4, <2>1, <2>3, PlaceTypes DEF IsCurrent, IsPooled
  <2> QED BY <2>2, <2>3
<1>6. \A c \in Buffers : (IsQueued(c)' <=> IsQueued(c)) /\ (IsTaken(c)' <=> IsTaken(c))
  BY <1>1 DEF IsQueued, IsTaken
<1>7. TakeMoves(w)
  <2>1. IsPooled(b)
    BY <1>3, <1>4 DEF IsPooled
  <2> QED BY <1>1, <1>3, <1>4, <1>5, <1>6, <2>1 DEF TakeMoves
<1>8. \A x \in Workers : current_buffer'[x] # NULL => current_buffer'[x][1] = x
  BY <1>1, <1>4, PlaceTypes DEF Owned
<1>9. \A x \in Workers : IsInjective(pool'[x]) /\ \A c \in Range(pool'[x]) : c[1] = x
  <2>1. ASSUME NEW x \in Workers PROVE IsInjective(pool'[x]) /\ \A c \in Range(pool'[x]) : c[1] = x
    <3>1. CASE x = w
      BY <1>1, <1>2, <1>3, <3>1, PlaceTypes
    <3>2. CASE x # w
      BY <1>1, <3>2, PlaceTypes DEF Owned
    <3> QED BY <3>1, <3>2
  <2> QED BY <2>1
<1>10. Owned'
  BY <1>1, <1>8, <1>9, PlaceTypes DEF Owned
<1> QED BY <1>7, <1>10

\* deq() moves the whole queue to the logger's batch, which is empty.
DeqMoves(l) ==
    /\ queue[l] \in Seq(Buffers) /\ queue' = [queue EXCEPT ![l] = <<>>]
    /\ \A c \in Buffers : /\ IsCurrent(c)' <=> IsCurrent(c)
                          /\ IsPooled(c)' <=> IsPooled(c)
                          /\ IsQueued(c)' <=> IsQueued(c) /\ LoggerOf[c[1]] # l
                          /\ IsTaken(c)' <=> IsTaken(c) \/ (IsQueued(c) /\ LoggerOf[c[1]] = l)

LEMMA DeqPlace ==
    ASSUME IInv, NEW l \in Loggers, Deq(l)
    PROVE  DeqMoves(l) /\ Owned'
<1>1. /\ batch' = [batch EXCEPT ![l] = queue[l]] /\ queue' = [queue EXCEPT ![l] = <<>>]
      /\ lpc[l] = "deq" /\ UNCHANGED <<current_buffer, pool>>
  BY DEF Deq, work
<1>2. batch[l] = <<>>
  BY <1>1 DEF IInv, LoggerInv
<1>3. ASSUME NEW c \in Buffers
      PROVE  /\ IsQueued(c)' <=> IsQueued(c) /\ LoggerOf[c[1]] # l
             /\ IsTaken(c)' <=> IsTaken(c) \/ (IsQueued(c) /\ LoggerOf[c[1]] = l)
  <2>1. LoggerOf[c[1]] \in Loggers
    BY Domains
  <2>2. CASE LoggerOf[c[1]] = l
    BY <1>1, <1>2, <2>1, <2>2, PlaceTypes, EmptySequence DEF IsQueued, IsTaken
  <2>3. CASE LoggerOf[c[1]] # l
    BY <1>1, <2>1, <2>3, PlaceTypes DEF IsQueued, IsTaken
  <2> QED BY <2>2, <2>3
<1>4. \A c \in Buffers : (IsCurrent(c)' <=> IsCurrent(c)) /\ (IsPooled(c)' <=> IsPooled(c))
  BY <1>1 DEF IsCurrent, IsPooled
<1>5. DeqMoves(l)
  BY <1>1, <1>3, <1>4, PlaceTypes DEF DeqMoves
<1>6. ASSUME NEW x \in Loggers
      PROVE  /\ IsInjective(queue'[x]) /\ \A c \in Range(queue'[x]) : LoggerOf[c[1]] = x
             /\ IsInjective(batch'[x]) /\ \A c \in Range(batch'[x]) : LoggerOf[c[1]] = x
  <2>1. CASE x = l
    BY <1>1, <2>1, PlaceTypes, EmptySequence DEF Owned
  <2>2. CASE x # l
    BY <1>1, <2>2, PlaceTypes DEF Owned
  <2> QED BY <2>1, <2>2
<1>7. Owned'
  BY <1>1, <1>6, PlaceTypes DEF Owned
<1> QED BY <1>5, <1>7

\* logging() gives the first buffer of the batch back to its pool.
WriteMoves(l) ==
    \E b \in Buffers :
      /\ LoggerOf[b[1]] = l /\ IsTaken(b)
      /\ buf' = [buf EXCEPT ![b] = Written(b)] /\ UNCHANGED <<queue, current_buffer>>
      /\ \A c \in Buffers : /\ IsCurrent(c)' <=> IsCurrent(c)
                            /\ IsPooled(c)' <=> IsPooled(c) \/ c = b
                            /\ IsQueued(c)' <=> IsQueued(c)
                            /\ IsTaken(c)' <=> IsTaken(c) /\ c # b

LEMMA WritePlace ==
    ASSUME IInv, NEW l \in Loggers, WriteBuffer(l)
    PROVE  WriteMoves(l) /\ Owned'
<1> DEFINE b == Head(batch[l])
           w == b[1]
<1>1. /\ batch[l] # <<>> /\ batch[l] \in Seq(Buffers)
      /\ buf' = [buf EXCEPT ![b] = Written(b)]
      /\ pool' = [pool EXCEPT ![w] = Append(pool[w], b)]
      /\ batch' = [batch EXCEPT ![l] = Tail(batch[l])] /\ UNCHANGED <<queue, current_buffer>>
  BY PlaceTypes DEF WriteBuffer, work
<1>2. IsInjective(batch[l]) /\ \A c \in Range(batch[l]) : LoggerOf[c[1]] = l
  BY PlaceTypes DEF Owned
<1>3. /\ b \in Buffers /\ b \in Range(batch[l])
      /\ IsInjective(Tail(batch[l])) /\ Range(Tail(batch[l])) = Range(batch[l]) \ {b}
  BY <1>1, <1>2, TailFacts
<1>4. LoggerOf[w] = l /\ w \in Workers
  BY <1>2, <1>3, Domains
<1>5. IsTaken(b)
  BY <1>3, <1>4 DEF IsTaken
<1>6. b \notin Range(pool[w])
  BY <1>3, <1>5, PlaceTypes DEF OnePlace, IsPooled
<1>7. /\ Range(Append(pool[w], b)) = Range(pool[w]) \cup {b}
      /\ IsInjective(pool[w]) => IsInjective(Append(pool[w], b))
  <2>1. pool[w] \in Seq(Buffers)
    BY <1>4, PlaceTypes
  <2> HIDE DEF b, w
  <2> QED BY <1>3, <1>6, <2>1, AppendFacts
<1>8. b[1] = w
  OBVIOUS
<1> HIDE DEF b, w
<1>9. ASSUME NEW c \in Buffers
      PROVE  (IsPooled(c)' <=> IsPooled(c) \/ c = b) /\ (IsTaken(c)' <=> IsTaken(c) /\ c # b)
  <2>1. c[1] \in Workers /\ LoggerOf[c[1]] \in Loggers
    BY Domains
  <2>2. IsPooled(c)' <=> IsPooled(c) \/ c = b
    <3>1. CASE c[1] = w
      BY <1>1, <1>4, <1>7, <3>1, PlaceTypes DEF IsPooled
    <3>2. CASE c[1] # w
      BY <1>1, <1>8, <2>1, <3>2, PlaceTypes DEF IsPooled
    <3> QED BY <3>1, <3>2
  <2>3. IsTaken(c)' <=> IsTaken(c) /\ c # b
    <3>1. CASE LoggerOf[c[1]] = l
      BY <1>1, <1>3, <3>1, PlaceTypes DEF IsTaken
    <3>2. CASE LoggerOf[c[1]] # l
      BY <1>1, <1>4, <1>8, <2>1, <3>2, PlaceTypes DEF IsTaken
    <3> QED BY <3>1, <3>2
  <2> QED BY <2>2, <2>3
<1>10. \A c \in Buffers : (IsCurrent(c)' <=> IsCurrent(c)) /\ (IsQueued(c)' <=> IsQueued(c))
  BY <1>1 DEF IsCurrent, IsQueued
<1>11. WriteMoves(l)
  <2>1. LoggerOf[b[1]] = l
    BY <1>4, <1>8
  <2>2. \A c \in Buffers : /\ IsCurrent(c)' <=> IsCurrent(c)
                           /\ IsPooled(c)' <=> IsPooled(c) \/ c = b
                           /\ IsQueued(c)' <=> IsQueued(c)
                           /\ IsTaken(c)' <=> IsTaken(c) /\ c # b
    BY <1>9, <1>10
  <2>3. b \in Buffers /\ buf' = [buf EXCEPT ![b] = Written(b)] /\ UNCHANGED <<queue, current_buffer>>
    BY <1>1, <1>3
  <2> QED BY ONLY <1>5, <2>1, <2>2, <2>3 DEF WriteMoves
<1>12. ASSUME NEW x \in Workers PROVE IsInjective(pool'[x]) /\ \A c \in Range(pool'[x]) : c[1] = x
  <2>1. IsInjective(pool[x]) /\ \A c \in Range(pool[x]) : c[1] = x
    BY PlaceTypes DEF Owned
  <2>2. CASE x = w
    BY <1>1, <1>7, <1>8, <2>1, <2>2, PlaceTypes
  <2>3. CASE x # w
    BY <1>1, <2>1, <2>3, PlaceTypes
  <2> QED BY <2>2, <2>3
<1>13. ASSUME NEW x \in Loggers PROVE IsInjective(batch'[x]) /\ \A c \in Range(batch'[x]) : LoggerOf[c[1]] = x
  <2>1. CASE x = l
    BY <1>1, <1>2, <1>3, <2>1, PlaceTypes
  <2>2. CASE x # l
    BY <1>1, <2>2, PlaceTypes DEF Owned
  <2> QED BY <2>1, <2>2
<1>14. Owned'
  BY <1>1, <1>12, <1>13, PlaceTypes DEF Owned
<1> QED BY <1>11, <1>14

\* The steps by what they do to the buffers' places.
LEMMA PlaceCases ==
    ASSUME IInv, [Next]_vars
    PROVE  \/ UNCHANGED <<current_buffer, pool, queue, batch>>
           \/ \E w \in Workers : (Publish(w) \/ Terminate(w)) /\ PublishMoves(w) /\ Owned'
           \/ \E w \in Workers : TakeBuffer(w) /\ TakeMoves(w) /\ Owned'
           \/ \E l \in Loggers : Deq(l) /\ DeqMoves(l) /\ Owned'
           \/ \E l \in Loggers : WriteBuffer(l) /\ WriteMoves(l) /\ Owned'
<1>1. ASSUME NEW w \in Workers, Worker(w)
      PROVE  \/ UNCHANGED <<current_buffer, pool, queue, batch>>
             \/ (Publish(w) \/ Terminate(w)) /\ PublishMoves(w) /\ Owned'
             \/ TakeBuffer(w) /\ TakeMoves(w) /\ Owned'
  BY <1>1, WorkerFrame, PublishPlace, TakePlace
<1>2. ASSUME NEW l \in Loggers, Logger(l)
      PROVE  \/ UNCHANGED <<current_buffer, pool, queue, batch>>
             \/ Deq(l) /\ DeqMoves(l) /\ Owned'
             \/ WriteBuffer(l) /\ WriteMoves(l) /\ Owned'
  BY <1>2, LoggerFrame, DeqPlace, WritePlace
<1>3. \/ UNCHANGED <<current_buffer, pool, queue, batch>>
      \/ (\E w \in Workers : Worker(w)) \/ (\E l \in Loggers : Logger(l))
  BY StepCases DEF SendQuit, Tick, vars, work, local
<1> QED BY <1>1, <1>2, <1>3

LEMMA PlaceStep ==
    ASSUME IInv, [Next]_vars
    PROVE  PlaceInv'
<1>1. OnePlace
  BY PlaceTypes
<1>2. CASE UNCHANGED <<current_buffer, pool, queue, batch>>
  BY <1>2, PlaceTypes DEF PlaceInv, Owned, OnePlace, IsCurrent, IsPooled, IsQueued, IsTaken
<1>3. ASSUME NEW w \in Workers, PublishMoves(w) \/ TakeMoves(w) PROVE OnePlace'
  BY <1>1, <1>3 DEF OnePlace, PublishMoves, TakeMoves
<1>4. ASSUME NEW l \in Loggers, DeqMoves(l) \/ WriteMoves(l) PROVE OnePlace'
  BY <1>1, <1>4 DEF OnePlace, DeqMoves, WriteMoves
<1> QED BY <1>2, <1>3, <1>4, PlaceCases DEF PlaceInv
-----------------------------------------------------------------------------
(* What is in a buffer.                                                     *)

LEMMA ContentTypes ==
    ASSUME IInv
    PROVE  /\ \A b \in Buffers : /\ buf[b].log_set \in Seq(Entry) /\ buf[b].min \in 1 .. Unset
                                 /\ buf[b].max \in 0 .. MaxEpoch /\ buf[b].nids \in BOOLEAN
           /\ CTIDW \in [Workers -> 0 .. MaxEpoch] /\ ThLocalEpoch \in [Workers -> 0 .. MaxEpoch]
           /\ pc \in [Workers -> WPC] /\ size \in [Workers -> Sizes \cup {0}]
           /\ buf \in [Buffers -> BufferType]
BY DEF IInv, TypeOK, BufferType

\* A buffer that Publish leaves current has room for a transaction of its epoch.
LEMMA PublishStays ==
    ASSUME IInv, NEW w \in Workers, Publish(w), UNCHANGED current_buffer
    PROVE  LET b == current_buffer[w] IN
             \/ IsEmpty(b)
             \/ CTIDW[w] = ThLocalEpoch[w] /\ Len(buf[b].log_set) <= MAX_BUFFERED_LOG_ENTRIES
<1> DEFINE b == current_buffer[w]
<1>1. b \in Buffers /\ current_buffer \in [Workers -> Buffers \cup {NULL}]
  BY PlaceTypes DEF Publish, IInv, ReadyInv
<1>2. Len(buf[b].log_set) \in Nat /\ MAX_BUFFERED_LOG_ENTRIES \in Nat
  BY <1>1, ContentTypes, Domains
<1>3. CASE publish(w)
  <2>1. ~ buf[b].nids
    BY <1>1, <1>3, Domains DEF publish
  <2>2. IsEmpty(b) \/ \E e \in 1 .. MaxEpoch : IsOf(b, e)
    BY <1>1 DEF IInv, ContentInv
  <2> QED BY <2>1, <2>2 DEF IsOf
<1>4. CASE ~ (Len(buf[b].log_set) > MAX_BUFFERED_LOG_ENTRIES) /\ ~ new_epoch_begins(w)
  BY <1>2, <1>4 DEF new_epoch_begins
<1> QED BY <1>3, <1>4 DEF Publish

LEMMA ToPush ==
    ASSUME IInv, [Next]_vars, NEW w \in Workers, pc'[w] = "push"
    PROVE  \/ Publish(w)
           \/ /\ pc[w] = "push" /\ UNCHANGED CTIDW[w] /\ UNCHANGED ThLocalEpoch[w]
              /\ UNCHANGED size[w]
<1>1. ASSUME NEW x \in Workers, Worker(x), x # w
      PROVE  UNCHANGED pc[w] /\ UNCHANGED CTIDW[w] /\ UNCHANGED ThLocalEpoch[w] /\ UNCHANGED size[w]
  BY <1>1, ContentTypes DEF Worker, Validate, Publish, TakeBuffer, Push, Terminate, WorkerEnd,
     WorkerJoined, Goto, glob
<1>2. ASSUME Worker(w), ~ Publish(w)
      PROVE  UNCHANGED pc[w] /\ UNCHANGED CTIDW[w] /\ UNCHANGED ThLocalEpoch[w] /\ UNCHANGED size[w]
  <2>1. TakeBuffer(w)
    BY <1>2, ContentTypes DEF Worker, Validate, Push, Terminate, WorkerEnd, WorkerJoined, Goto
  <2> QED BY <2>1 DEF TakeBuffer, glob
<1>3. CASE UNCHANGED <<pc, CTIDW, ThLocalEpoch, size>>
  BY <1>3
<1> QED BY <1>1, <1>2, <1>3, StepCases, LoggerFrame DEF SendQuit, Tick, vars, glob, work

LEMMA PushContent ==
    ASSUME IInv, NEW w \in Workers, Push(w)
    PROVE  LET b == current_buffer[w]
               e == ThLocalEpoch[w]
           IN  /\ IsOf(b, e)' /\ b \in Buffers /\ b[1] = w /\ IsCurrent(b) /\ CTIDW'[w] = e /\ e \in 1 .. MaxEpoch
               /\ buf[b].min \in {e, Unset}
               /\ Len(buf'[b].log_set) = Len(buf[b].log_set) + size[w]
               /\ \A c \in Buffers : c # b => UNCHANGED buf[c]
               /\ \A c \in Buffers : IsCurrent(c) /\ c # b => c[1] # w
               /\ pc[w] = "push" /\ pc'[w] = "retry"
               /\ \A x \in Workers : x # w => UNCHANGED pc[x] /\ UNCHANGED CTIDW[x]
               /\ UNCHANGED <<current_buffer, pool, queue, batch, ThLocalEpoch, size>>
<1> DEFINE b == current_buffer[w]
           e == ThLocalEpoch[w]
<1>1. /\ b \in Buffers /\ buf' = [buf EXCEPT ![b] = Pushed(w)] /\ e \in 1 .. MaxEpoch
      /\ Pushed(w).nids
      /\ Len(Pushed(w).log_set) = Len(buf[b].log_set) + size[w]
      /\ \A i \in DOMAIN Pushed(w).log_set :
           \/ i \in DOMAIN buf[b].log_set /\ Pushed(w).log_set[i] = buf[b].log_set[i]
           \/ Pushed(w).log_set[i].epoch = e
      /\ Pushed(w).min = IF buf[b].min <= e THEN buf[b].min ELSE e
      /\ Pushed(w).max = IF buf[b].max <= e THEN e ELSE buf[b].max
  BY PushedFacts DEF IInv
<1>2. /\ pc[w] = "push" /\ pc' = [pc EXCEPT ![w] = "retry"] /\ CTIDW' = [CTIDW EXCEPT ![w] = e]
      /\ UNCHANGED <<current_buffer, pool, queue, batch, ThLocalEpoch, size>>
  BY DEF Push, Goto, local
<1>3. b[1] = w /\ IsCurrent(b)
  BY <1>1, Domains, PlaceTypes DEF Owned, IsCurrent
<1>4. buf'[b] = Pushed(w) /\ \A c \in Buffers : c # b => buf'[c] = buf[c]
  BY <1>1, ContentTypes
<1>5. IsEmpty(b) \/ IsOf(b, e)
  BY <1>1, <1>2, <1>3 DEF IInv, ContentInv
<1>6. e \in Nat /\ e >= 1 /\ e < Unset /\ Unset \in Nat
  BY <1>1, Domains
<1>7. IsOf(b, e)' /\ buf[b].min \in {e, Unset}
  <2>1. CASE IsEmpty(b)
    <3>1. buf[b].log_set = <<>> /\ buf[b].min = Unset /\ buf[b].max = 0
      BY <2>1 DEF IsEmpty
    <3>2. \A i \in DOMAIN Pushed(w).log_set : Pushed(w).log_set[i].epoch = e
      BY <1>1, <3>1
    <3>3. Pushed(w).min = e /\ Pushed(w).max = e
      BY <1>1, <1>6, <3>1
    <3> QED BY <1>1, <1>2, <1>4, <3>1, <3>2, <3>3 DEF IsOf
  <2>2. CASE IsOf(b, e)
    <3>1. buf[b].min = e /\ buf[b].max = e /\ \A i \in DOMAIN buf[b].log_set : buf[b].log_set[i].epoch = e
      BY <2>2 DEF IsOf
    <3>2. \A i \in DOMAIN Pushed(w).log_set : Pushed(w).log_set[i].epoch = e
      BY <1>1, <3>1
    <3>3. Pushed(w).min = e /\ Pushed(w).max = e
      BY <1>1, <1>6, <3>1
    <3> QED BY <1>1, <1>2, <1>4, <3>1, <3>2, <3>3 DEF IsOf
  <2> QED BY <1>5, <2>1, <2>2
<1>8. \A c \in Buffers : IsCurrent(c) /\ c # b => c[1] # w
  BY DEF IsCurrent
<1>9. /\ pc'[w] = "retry" /\ CTIDW'[w] = e
      /\ \A x \in Workers : x # w => UNCHANGED pc[x] /\ UNCHANGED CTIDW[x]
  BY <1>2, ContentTypes
<1> HIDE DEF b, e
<1> QED BY <1>1, <1>2, <1>3, <1>4, <1>7, <1>8, <1>9 DEF b, e

\* The steps that change what is in a buffer, or which one a worker fills; and
\* every other step.
LEMMA ContentCases ==
    ASSUME IInv, [Next]_vars
    PROVE  \/ \E w \in Workers : Push(w)
           \/ \E w \in Workers : TakeBuffer(w) /\ TakeMoves(w) /\ UNCHANGED <<buf, CTIDW, ThLocalEpoch, pc>>
           \/ \E l \in Loggers : WriteBuffer(l) /\ WriteMoves(l) /\ UNCHANGED <<CTIDW, ThLocalEpoch, pc>>
           \/ /\ UNCHANGED <<buf, CTIDW>>
              /\ \A c \in Buffers : /\ IsPooled(c)' <=> IsPooled(c)
                                    /\ IsCurrent(c)' => IsCurrent(c)
                                    /\ IsCurrent(c)' /\ Publish(c[1]) => UNCHANGED current_buffer
<1>1. \/ (\E w \in Workers : Push(w)) \/ (\E l \in Loggers : WriteBuffer(l)) \/ UNCHANGED <<buf, CTIDW>>
  BY StepCases, WorkerFrame, LoggerFrame DEF SendQuit, Tick, vars, glob
<1>2. CASE UNCHANGED <<current_buffer, pool, queue, batch>>
  <2>1. \A c \in Buffers : (IsPooled(c)' <=> IsPooled(c)) /\ (IsCurrent(c)' <=> IsCurrent(c))
    BY <1>2 DEF IsPooled, IsCurrent
  <2>2. ASSUME NEW l \in Loggers, WriteBuffer(l) PROVE FALSE
    <3>1. /\ batch[l] \in Seq(Buffers) /\ batch[l] # <<>> 
          /\ batch' = [batch EXCEPT ![l] = Tail(batch[l])] /\ batch \in [Loggers -> Seq(Buffers)]
      BY <2>2, PlaceTypes DEF WriteBuffer
    <3>2. batch[l] = Tail(batch[l])
      BY <1>2, <3>1
    <3> DEFINE s == batch[l]
    <3>3. s \in Seq(Buffers) /\ s # <<>>
      BY <3>1
    <3>4. s = Tail(s)
      BY <3>2
    <3> HIDE DEF s
    <3>5. Len(Tail(s)) = Len(s) - 1 /\ Len(s) \in Nat
      BY <3>3
    <3>6. Len(Tail(s)) = Len(s)
      BY <3>4, Zenon
    <3> QED BY <3>5, <3>6
  <2> QED BY <1>1, <1>2, <2>1, <2>2
<1>3. ASSUME NEW w \in Workers, Publish(w) \/ Terminate(w), PublishMoves(w)
      PROVE  /\ UNCHANGED <<buf, CTIDW>>
             /\ \A c \in Buffers : /\ IsPooled(c)' <=> IsPooled(c)
                                   /\ IsCurrent(c)' => IsCurrent(c)
                                   /\ IsCurrent(c)' /\ Publish(c[1]) => UNCHANGED current_buffer
  <2>1. UNCHANGED <<buf, CTIDW>>
    BY <1>3 DEF Publish, Terminate, glob
  <2>2. \A c \in Buffers : (IsPooled(c)' <=> IsPooled(c)) /\ (IsCurrent(c)' => IsCurrent(c) /\ c # current_buffer[w])
    BY <1>3 DEF PublishMoves
  <2>3. ASSUME NEW c \in Buffers, IsCurrent(c)', Publish(c[1]) PROVE UNCHANGED current_buffer
    <3>1. c[1] \in Workers /\ IsCurrent(c) /\ c # current_buffer[w]
      BY <2>2, <2>3, Domains
    <3>2. c[1] # w
      BY <3>1 DEF IsCurrent
    <3>3. pc' = [pc EXCEPT ![c[1]] = "push"] /\ pc[c[1]] = "wal"
      BY <2>3 DEF Publish, Goto
    <3>4. \E to : pc' = [pc EXCEPT ![w] = to]
      BY <1>3 DEF Publish, Terminate, Goto
    <3> QED BY <3>1, <3>2, <3>3, <3>4, ContentTypes
  <2> QED BY <2>1, <2>2, <2>3
<1>4. ASSUME NEW l \in Loggers, Deq(l), DeqMoves(l)
      PROVE  /\ UNCHANGED <<buf, CTIDW>>
             /\ \A c \in Buffers : /\ IsPooled(c)' <=> IsPooled(c)
                                   /\ IsCurrent(c)' => IsCurrent(c)
                                   /\ UNCHANGED current_buffer
  BY <1>4 DEF Deq, DeqMoves, glob, work
<1>5. ASSUME NEW w \in Workers, TakeBuffer(w) PROVE UNCHANGED <<buf, CTIDW, ThLocalEpoch, pc>>
  BY <1>5 DEF TakeBuffer, glob
<1>6. ASSUME NEW l \in Loggers, WriteBuffer(l) PROVE UNCHANGED <<CTIDW, ThLocalEpoch, pc>>
  BY <1>6 DEF WriteBuffer, glob, work
<1> QED BY <1>2, <1>3, <1>4, <1>5, <1>6, PlaceCases

LEMMA ContentStep ==
    ASSUME IInv, [Next]_vars
    PROVE  ContentInv'
<1> DEFINE OK(c) ==
        /\ IsEmpty(c) \/ \E e \in 1 .. MaxEpoch : IsOf(c, e)
        /\ IsPooled(c) => IsEmpty(c)
        /\ IsCurrent(c) => IsEmpty(c) \/ IsOf(c, CTIDW[c[1]])
        /\ IsCurrent(c) /\ pc[c[1]] = "push" => IsEmpty(c) \/ CTIDW[c[1]] = ThLocalEpoch[c[1]]
<1>1. \A c \in Buffers : OK(c) /\ c[1] \in Workers
  BY Domains DEF IInv, ContentInv
<1>2. ASSUME NEW c \in Buffers, UNCHANGED buf[c]
      PROVE  (IsEmpty(c)' <=> IsEmpty(c)) /\ \A e : IsOf(c, e)' <=> IsOf(c, e)
  BY <1>2 DEF IsEmpty, IsOf
<1>3. ASSUME NEW w \in Workers, Push(w), NEW c \in Buffers PROVE OK(c)'
  <2> DEFINE b == current_buffer[w]
             e == ThLocalEpoch[w]
  <2>1. /\ IsOf(b, e)' /\ b \in Buffers /\ b[1] = w /\ IsCurrent(b) /\ CTIDW'[w] = e /\ e \in 1 .. MaxEpoch
        /\ \A x \in Buffers : x # b => UNCHANGED buf[x]
        /\ \A x \in Buffers : IsCurrent(x) /\ x # b => x[1] # w
        /\ pc'[w] = "retry"
        /\ \A x \in Workers : x # w => UNCHANGED pc[x] /\ UNCHANGED CTIDW[x]
        /\ UNCHANGED <<current_buffer, pool, queue, batch, ThLocalEpoch, size>>
    BY <1>3, PushContent
  <2>2. b' = b /\ e' = e
    BY <2>1
  <2> HIDE DEF b, e
  <2>3. (IsPooled(c)' <=> IsPooled(c)) /\ (IsCurrent(c)' <=> IsCurrent(c))
    BY <2>1 DEF IsPooled, IsCurrent
  <2>4. CASE c = b
    <3>1. ~ IsPooled(b)
      BY <2>1, PlaceTypes DEF OnePlace
    <3>2. c[1] = w /\ IsOf(c, CTIDW[c[1]])' /\ IsOf(c, e)'
      BY <2>1, <2>4, <2>2 DEF IsOf
    <3>3. \E x \in 1 .. MaxEpoch : IsOf(c, x)'
      BY <2>1, <2>2, <3>2
    <3> QED BY <2>1, <2>3, <2>4, <3>1, <3>2, <3>3
  <2>5. CASE c # b
    <3>1. (IsEmpty(c)' <=> IsEmpty(c)) /\ \A x : IsOf(c, x)' <=> IsOf(c, x)
      BY <1>2, <2>1, <2>5
    <3>2. IsCurrent(c) => UNCHANGED pc[c[1]] /\ UNCHANGED CTIDW[c[1]] /\ UNCHANGED ThLocalEpoch[c[1]]
      BY <1>1, <2>1, <2>5
    <3> QED BY <1>1, <2>3, <3>1, <3>2
  <2> QED BY <2>4, <2>5
<1>4. ASSUME NEW w \in Workers, TakeMoves(w), UNCHANGED <<buf, CTIDW, ThLocalEpoch, pc>>, NEW c \in Buffers
      PROVE  OK(c)'
  <2>1. (IsEmpty(c)' <=> IsEmpty(c)) /\ \A e : IsOf(c, e)' <=> IsOf(c, e)
    BY <1>2, <1>4
  <2>2. (IsPooled(c)' => IsPooled(c)) /\ (IsCurrent(c)' => IsCurrent(c) \/ IsPooled(c))
    BY <1>4 DEF TakeMoves
  <2>3. UNCHANGED CTIDW[c[1]] /\ UNCHANGED ThLocalEpoch[c[1]] /\ UNCHANGED pc[c[1]]
    BY <1>4
  <2> QED BY <1>1, <2>1, <2>2, <2>3
<1>5. ASSUME NEW l \in Loggers, WriteMoves(l), UNCHANGED <<CTIDW, ThLocalEpoch, pc>>, NEW c \in Buffers
      PROVE  OK(c)'
  <2>1. PICK b \in Buffers : /\ buf' = [buf EXCEPT ![b] = Written(b)]
                             /\ \A x \in Buffers : /\ IsCurrent(x)' <=> IsCurrent(x)
                                                   /\ IsPooled(x)' <=> IsPooled(x) \/ x = b
    BY <1>5 DEF WriteMoves
  <2>2. CASE c = b
    <3>1. IsEmpty(c)'
      <4>1. buf'[b] = Written(b)
        BY <2>1, ContentTypes
      <4>2. Written(b).log_set = <<>> /\ Written(b).min = Unset /\ Written(b).max = 0
        BY WrittenFacts DEF IInv
      <4>3. IsEmpty(c)' <=> buf'[c].log_set = <<>> /\ buf'[c].min = Unset /\ buf'[c].max = 0
        BY DEF IsEmpty, Unset
      <4> QED BY <2>2, <4>1, <4>2, <4>3
    <3> QED BY <3>1
  <2>3. CASE c # b
    <3>1. UNCHANGED buf[c]
      BY <2>1, <2>3, ContentTypes
    <3>2. (IsEmpty(c)' <=> IsEmpty(c)) /\ \A e : IsOf(c, e)' <=> IsOf(c, e)
      BY <1>2, <3>1
    <3>3. UNCHANGED CTIDW[c[1]] /\ UNCHANGED ThLocalEpoch[c[1]] /\ UNCHANGED pc[c[1]]
      BY <1>5
    <3> QED BY <1>1, <2>1, <2>3, <3>2, <3>3
  <2> QED BY <2>2, <2>3
<1>6. ASSUME UNCHANGED <<buf, CTIDW>>, NEW c \in Buffers, IsPooled(c)' <=> IsPooled(c),
             IsCurrent(c)' => IsCurrent(c), IsCurrent(c)' /\ Publish(c[1]) => UNCHANGED current_buffer
      PROVE  OK(c)'
  <2>1. (IsEmpty(c)' <=> IsEmpty(c)) /\ \A e : IsOf(c, e)' <=> IsOf(c, e)
    BY <1>2, <1>6
  <2>2. UNCHANGED CTIDW[c[1]]
    BY <1>6
  <2>3. ASSUME IsCurrent(c)', pc'[c[1]] = "push" PROVE IsEmpty(c) \/ CTIDW[c[1]] = ThLocalEpoch'[c[1]]
    <3>1. IsCurrent(c) /\ c[1] \in Workers /\ current_buffer[c[1]] = c
      BY <1>1, <1>6, <2>3 DEF IsCurrent
    <3>2. CASE Publish(c[1])
      <4>1. UNCHANGED current_buffer
        BY <1>6, <2>3, <3>2
      <4>2. IsEmpty(c) \/ CTIDW[c[1]] = ThLocalEpoch[c[1]]
        BY <3>1, <3>2, <4>1, PublishStays
      <4>3. UNCHANGED ThLocalEpoch
        BY <3>2 DEF Publish, glob
      <4> QED BY <4>2, <4>3
    <3>3. CASE ~ Publish(c[1])
      <4>1. pc[c[1]] = "push" /\ UNCHANGED ThLocalEpoch[c[1]]
        BY <2>3, <3>1, <3>3, ToPush
      <4> QED BY <1>1, <3>1, <4>1
    <3> QED BY <3>2, <3>3
  <2> QED BY <1>1, <1>6, <2>1, <2>2, <2>3
<1>7. \A c \in Buffers : OK(c)'
  <2> HIDE DEF OK
  <2> QED BY <1>3, <1>4, <1>5, <1>6, ContentCases
<1> QED BY <1>7 DEF ContentInv

LEMMA LengthStep ==
    ASSUME IInv, [Next]_vars
    PROVE  LengthInv'
<1> DEFINE n(c) == Len(buf[c].log_set)
           M == MAX_BUFFERED_LOG_ENTRIES
           OK(c) == /\ IsCurrent(c) /\ pc[c[1]] = "push" => n(c) <= M
                    /\ \E k \in Sizes \cup {0} : n(c) <= M + k
<1>1. \A c \in Buffers : OK(c) /\ c[1] \in Workers
  BY Domains DEF IInv, LengthInv, BufferBounded
<1>2. M \in Nat /\ 0 \in Sizes \cup {0} /\ Sizes \cup {0} \subseteq Nat
  BY Domains
<1>3. \A c \in Buffers : /\ n(c) \in Nat
                         /\ IsEmpty(c) => n(c) = 0
                         /\ IsPooled(c) => IsEmpty(c)
  BY ContentTypes DEF IsEmpty, IInv, ContentInv
<1>4. ASSUME NEW w \in Workers, Push(w), NEW c \in Buffers PROVE OK(c)'
  <2> DEFINE b == current_buffer[w]
  <2>1. /\ b \in Buffers /\ b[1] = w /\ IsCurrent(b)
        /\ Len(buf'[b].log_set) = Len(buf[b].log_set) + size[w]
        /\ \A x \in Buffers : x # b => UNCHANGED buf[x]
        /\ \A x \in Buffers : IsCurrent(x) /\ x # b => x[1] # w
        /\ pc[w] = "push" /\ pc'[w] = "retry"
        /\ \A x \in Workers : x # w => UNCHANGED pc[x]
        /\ UNCHANGED current_buffer
    BY <1>4, PushContent
  <2> HIDE DEF b
  <2>2. CASE c = b
    <3>1. n(b) <= M /\ n(b)' = n(b) + size[w] /\ size[w] \in Sizes \cup {0} /\ n(b) \in Nat
      <4>1. b' = b
        BY <2>1 DEF b
      <4> QED BY <1>1, <1>3, <2>1, <4>1, ContentTypes
    <3>2. n(b)' <= M + size[w]
      BY <1>2, <3>1
    <3> QED BY <2>1, <2>2, <3>1, <3>2
  <2>3. CASE c # b
    <3>1. UNCHANGED buf[c] /\ (IsCurrent(c)' <=> IsCurrent(c)) /\ (IsCurrent(c) => UNCHANGED pc[c[1]])
      BY <1>1, <2>1, <2>3 DEF IsCurrent
    <3> QED BY <1>1, <3>1
  <2> QED BY <2>2, <2>3
<1>5. ASSUME NEW w \in Workers, TakeMoves(w), UNCHANGED <<buf, pc>>, NEW c \in Buffers PROVE OK(c)'
  <2>1. (IsCurrent(c)' => IsCurrent(c) \/ IsPooled(c)) /\ UNCHANGED buf[c] /\ UNCHANGED pc[c[1]]
    BY <1>5 DEF TakeMoves
  <2> QED BY <1>1, <1>2, <1>3, <2>1
<1>6. ASSUME NEW l \in Loggers, WriteMoves(l), UNCHANGED pc, NEW c \in Buffers PROVE OK(c)'
  <2>1. PICK b \in Buffers : /\ buf' = [buf EXCEPT ![b] = Written(b)]
                             /\ \A x \in Buffers : IsCurrent(x)' <=> IsCurrent(x)
    BY <1>6 DEF WriteMoves
  <2>2. CASE c = b
    <3>1. Written(b).log_set = <<>> /\ buf'[c] = Written(b)
      BY <2>1, <2>2, WrittenFacts, ContentTypes DEF IInv
    <3>2. n(c)' = 0
      BY <3>1
    <3>3. n(c)' <= M /\ n(c)' <= M + 0
      BY <1>2, <3>2
    <3> HIDE DEF n
    <3> QED BY <1>2, <3>3
  <2>3. CASE c # b
    <3>1. UNCHANGED buf[c] /\ UNCHANGED pc[c[1]] /\ (IsCurrent(c)' <=> IsCurrent(c))
      BY <1>6, <2>1, <2>3, ContentTypes
    <3> QED BY <1>1, <3>1
  <2> QED BY <2>2, <2>3
<1>7. ASSUME UNCHANGED buf, NEW c \in Buffers,
             IsCurrent(c)' => IsCurrent(c), IsCurrent(c)' /\ Publish(c[1]) => UNCHANGED current_buffer
      PROVE  OK(c)'
  <2>1. UNCHANGED n(c)
    BY <1>7
  <2>2. ASSUME IsCurrent(c)', pc'[c[1]] = "push" PROVE n(c) <= M
    <3>1. IsCurrent(c) /\ c[1] \in Workers /\ current_buffer[c[1]] = c
      BY <1>1, <1>7, <2>2 DEF IsCurrent
    <3>2. CASE Publish(c[1])
      BY <1>2, <1>3, <1>7, <2>2, <3>1, <3>2, PublishStays
    <3>3. CASE ~ Publish(c[1])
      BY <1>1, <2>2, <3>1, <3>3, ToPush
    <3> QED BY <3>2, <3>3
  <2> HIDE DEF n
  <2> QED BY <1>1, <2>1, <2>2
<1>8. \A c \in Buffers : OK(c)'
  <2> HIDE DEF OK
  <2> QED BY <1>4, <1>5, <1>6, <1>7, ContentCases
<1> QED BY <1>8 DEF LengthInv, BufferBounded

\* A queue stays in order: nothing changes a queued buffer.
LEMMA QueuedStays ==
    ASSUME IInv, [Next]_vars, NEW c \in Buffers, IsQueued(c)
    PROVE  UNCHANGED buf[c]
<1>1. ~ IsCurrent(c) /\ ~ IsTaken(c)
  BY PlaceTypes DEF OnePlace
<1>2. ASSUME NEW w \in Workers, Push(w) PROVE UNCHANGED buf[c]
  BY <1>1, <1>2, PushContent
<1>3. ASSUME NEW l \in Loggers, WriteMoves(l) PROVE UNCHANGED buf[c]
  BY <1>1, <1>3, ContentTypes DEF WriteMoves
<1> QED BY <1>2, <1>3, ContentCases

LEMMA QueueStep ==
    ASSUME IInv, [Next]_vars
    PROVE  QueueInv'
<1>1. ASSUME NEW l \in Loggers, NEW i \in DOMAIN queue[l]
      PROVE  buf'[queue[l][i]] = buf[queue[l][i]]
  <2> DEFINE c == queue[l][i]
  <2>1. c \in Buffers /\ c \in Range(queue[l])
    <3>1. queue[l] \in Seq(Buffers)
      BY PlaceTypes
    <3> QED BY <1>1, <3>1 DEF Range
  <2>2. LoggerOf[c[1]] = l
    BY <2>1, PlaceTypes DEF Owned
  <2>3. IsQueued(c)
    BY <2>1, <2>2 DEF IsQueued
  <2> QED BY <2>1, <2>3, QueuedStays
<1>2. ASSUME NEW l \in Loggers, queue'[l] = queue[l]
      PROVE  \A i, j \in DOMAIN queue'[l] : i <= j => buf'[queue'[l][i]].min <= buf'[queue'[l][j]].min
  BY <1>1, <1>2 DEF IInv, QueueInv
<1>3. ASSUME NEW w \in Workers, Publish(w) \/ Terminate(w), PublishMoves(w), NEW l \in Loggers
      PROVE  \A i, j \in DOMAIN queue'[l] : i <= j => buf'[queue'[l][i]].min <= buf'[queue'[l][j]].min
  <2> DEFINE b == current_buffer[w]
  <2>1. /\ b \in Buffers /\ queue' = [queue EXCEPT ![LoggerOf[w]] = enq(queue[LoggerOf[w]], b)]
        /\ UNCHANGED buf /\ queue \in [Loggers -> Seq(Buffers)]
    BY <1>3, PlaceTypes DEF PublishMoves, Publish, Terminate
  <2> HIDE DEF b
  <2>2. CASE l = LoggerOf[w]
    <3>1. queue'[l] = enq(queue[l], b)
      BY <2>1, <2>2
    <3>2. \A i, j \in DOMAIN enq(queue[l], b) :
             i <= j => buf[enq(queue[l], b)[i]].min <= buf[enq(queue[l], b)[j]].min
      <4>1. /\ queue[l] \in Seq(Buffers) /\ \A c \in Buffers : buf[c].min \in Nat
            /\ \A i, j \in DOMAIN queue[l] : i <= j => buf[queue[l][i]].min <= buf[queue[l][j]].min
        BY QueueFacts
      <4> QED BY ONLY <2>1, <4>1, EnqFacts
    <3> QED BY <2>1, <3>1, <3>2
  <2>3. CASE l # LoggerOf[w]
    BY <1>2, <2>1, <2>3
  <2> QED BY <2>2, <2>3
<1>4. ASSUME NEW k \in Loggers, DeqMoves(k), NEW l \in Loggers
      PROVE  \A i, j \in DOMAIN queue'[l] : i <= j => buf'[queue'[l][i]].min <= buf'[queue'[l][j]].min
  <2>1. queue' = [queue EXCEPT ![k] = <<>>] /\ queue \in [Loggers -> Seq(Buffers)]
    BY <1>4, PlaceTypes DEF DeqMoves
  <2>2. CASE l = k
    BY <2>1, <2>2
  <2>3. CASE l # k
    BY <1>2, <2>1, <2>3
  <2> QED BY <2>2, <2>3
<1>5. ASSUME UNCHANGED queue, NEW l \in Loggers
      PROVE  \A i, j \in DOMAIN queue'[l] : i <= j => buf'[queue'[l][i]].min <= buf'[queue'[l][j]].min
  BY <1>2, <1>5
<1>6. \/ UNCHANGED queue
      \/ \E w \in Workers : (Publish(w) \/ Terminate(w)) /\ PublishMoves(w)
      \/ \E k \in Loggers : DeqMoves(k)
  BY PlaceCases DEF TakeMoves, WriteMoves
<1> QED BY <1>3, <1>4, <1>5, <1>6 DEF QueueInv
-----------------------------------------------------------------------------
(* What is durable.                                                         *)

\* No step brings a record below a bound that holds.
LEMMA AboveStays ==
    ASSUME IInv, [Next]_vars, NEW w \in Workers, NEW m \in Nat, Above(w, m)
    PROVE  Above(w, m)'
<1>1. /\ CTIDW[w] >= m \/ m <= 1
      /\ \A b \in Buffers : b[1] = w => \A i \in DOMAIN buf[b].log_set : buf[b].log_set[i].epoch >= m
  BY DEF Above
<1>2. CTIDW[w] \in Nat
  BY ContentTypes, Domains
<1>3. ASSUME NEW x \in Workers, Push(x) PROVE Above(w, m)'
  <2> DEFINE b == current_buffer[x]
             e == ThLocalEpoch[x]
  <2>1. /\ IsOf(b, e)' /\ b \in Buffers /\ b[1] = x /\ CTIDW'[x] = e /\ e \in 1 .. MaxEpoch
        /\ \A c \in Buffers : c # b => UNCHANGED buf[c]
        /\ \A y \in Workers : y # x => UNCHANGED CTIDW[y]
        /\ UNCHANGED current_buffer /\ UNCHANGED ThLocalEpoch
    BY <1>3, PushContent
  <2>2. \A i \in DOMAIN buf'[b].log_set : buf'[b].log_set[i].epoch = e
    BY <2>1 DEF IsOf
  <2>3. x = w => e >= m /\ CTIDW[x] <= e
    <3>1. e \in Nat /\ e >= 1
      BY <2>1, Domains
    <3>2. CTIDW[x] <= e
      BY DEF IInv, EpochInv
    <3> HIDE DEF e
    <3> QED BY <1>1, <1>2, <3>1, <3>2
  <2>4. e \in Nat
    BY <2>1, Domains
  <2> HIDE DEF b, e
  <2>5. CTIDW'[w] >= m \/ m <= 1
    BY <1>1, <1>2, <2>1, <2>3, <2>4
  <2>6. ASSUME NEW c \in Buffers, c[1] = w, NEW i \in DOMAIN buf'[c].log_set
        PROVE  buf'[c].log_set[i].epoch >= m
    <3>1. CASE c = b
      BY <2>1, <2>2, <2>3, <2>6, <3>1
    <3>2. CASE c # b
      <4>1. buf'[c] = buf[c]
        BY <2>1, <3>2
      <4> QED BY <1>1, <2>6, <4>1
    <3> QED BY <3>1, <3>2
  <2> QED BY <2>5, <2>6 DEF Above
<1>4. ASSUME NEW l \in Loggers, WriteMoves(l), UNCHANGED CTIDW PROVE Above(w, m)'
  <2>1. PICK b \in Buffers : buf' = [buf EXCEPT ![b] = Written(b)]
    BY <1>4 DEF WriteMoves
  <2>2. ASSUME NEW c \in Buffers, c[1] = w, NEW i \in DOMAIN buf'[c].log_set
        PROVE  buf'[c].log_set[i].epoch >= m
    <3>1. CASE c = b
      <4>1. buf'[c].log_set = <<>>
        BY <2>1, <3>1, WrittenFacts, ContentTypes DEF IInv
      <4> QED BY <2>2, <4>1
    <3>2. CASE c # b
      <4>1. buf'[c] = buf[c]
        BY <2>1, <3>2, ContentTypes
      <4> QED BY <1>1, <2>2, <4>1
    <3> QED BY <3>1, <3>2
  <2> QED BY <1>1, <1>4, <2>2 DEF Above
<1>5. CASE UNCHANGED <<buf, CTIDW>>
  BY <1>1, <1>5 DEF Above
<1> QED BY <1>3, <1>4, <1>5, ContentCases

\* The steps of a logger by what they do to its min_epoch.
Declaring == {"deq", "write", "send", "cas", "pepoch", "store"}

LEMMA LoggerPath ==
    ASSUME IInv, [Next]_vars, NEW l \in Loggers
    PROVE  \/ \E at, to : /\ FindMinCtid(l, at, to) /\ to \in {"queueDeq", "queueWait"}
                          /\ UNCHANGED CTIDW
           \/ \E at, to : /\ FindMinQueue(l, at, to) /\ at \in {"queueDeq", "queueWait"}
                          /\ to \in Declaring
           \/ /\ UNCHANGED min_epoch[l]
              /\ lpc'[l] \in {"queueDeq", "queueWait"} => UNCHANGED lpc[l]
              /\ lpc'[l] \in Declaring => lpc[l] \in Declaring
<1>1. lpc \in [Loggers -> LPC] /\ min_epoch \in [Loggers -> 0 .. MaxEpoch]
  BY DEF IInv, TypeOK
<1> DEFINE Quiet == /\ UNCHANGED min_epoch[l]
                    /\ lpc'[l] \in {"queueDeq", "queueWait"} => UNCHANGED lpc[l]
                    /\ lpc'[l] \in Declaring => lpc[l] \in Declaring
<1>2. ASSUME NEW k \in Loggers, Logger(k), k # l PROVE Quiet
  <2>1. UNCHANGED lpc[l] /\ UNCHANGED min_epoch[l]
    BY <1>1, <1>2 DEF Logger, WaitDeq, Timeout, FindMinCtid, FindMinQueue, Deq, WriteBuffer,
       LoggingDone, Send, Final, LoadDurable, SwapDurable, WritePepoch, StoreThLocalDurable,
       logger_end, LoggerReturn, LGoto, local
  <2> QED BY <2>1
<1>3. ASSUME Logger(l), ~ Computes(l) PROVE Quiet
  <2>1. UNCHANGED min_epoch
    BY <1>3, LoggerFrame
  <2>2. CASE WaitDeq(l) \/ Timeout(l) \/ Final(l) \/ logger_end(l) \/ LoggerReturn(l)
    <3>1. lpc'[l] \in {"ctidDeq", "ctidWait", "final", "casFinal", "ended", "gone"}
      BY <1>1, <2>2 DEF WaitDeq, Timeout, Final, LoadDurable, logger_end, LoggerReturn, LGoto
    <3> QED BY <2>1, <3>1 DEF Declaring
  <2>3. CASE Deq(l) \/ WriteBuffer(l) \/ LoggingDone(l) \/ Send(l) \/ StoreThLocalDurable(l)
    <3>1. lpc'[l] \in {"write", "send", "cas", "wait"} /\ lpc[l] \in Declaring
      BY <1>1, <2>3 DEF Deq, WriteBuffer, LoggingDone, Send, StoreThLocalDurable, LoadDurable, LGoto, Declaring
    <3> QED BY <2>1, <3>1
  <2>4. CASE Declares(l) \/ Records(l)
    <3>1. \/ lpc'[l] \in {"pepoch", "store"} /\ lpc[l] \in {"cas", "pepoch"}
          \/ lpc'[l] \in {"pepochFinal", "end"}
      BY <1>1, <2>4 DEF Declares, Records, SwapDurable, WritePepoch, LGoto
    <3> QED BY <2>1, <3>1 DEF Declaring
  <2> QED BY <1>3, <2>2, <2>3, <2>4 DEF Logger, Computes, Declares, Records
<1>4. CASE UNCHANGED <<lpc, min_epoch>>
  BY <1>4
<1>5. ASSUME Computes(l)
      PROVE  \/ \E at, to : /\ FindMinCtid(l, at, to) /\ to \in {"queueDeq", "queueWait"}
                            /\ UNCHANGED CTIDW
             \/ \E at, to : /\ FindMinQueue(l, at, to) /\ at \in {"queueDeq", "queueWait"}
                            /\ to \in Declaring
  BY <1>5 DEF Computes, FindMinCtid, glob, Declaring
<1>6. (\E k \in Loggers : Logger(k)) \/ UNCHANGED <<lpc, min_epoch>>
  BY StepCases, WorkerFrame DEF SendQuit, Tick, vars, local
<1> HIDE DEF Quiet
<1>7. \/ Quiet
      \/ \E at, to : /\ FindMinCtid(l, at, to) /\ to \in {"queueDeq", "queueWait"}
                     /\ UNCHANGED CTIDW
      \/ \E at, to : /\ FindMinQueue(l, at, to) /\ at \in {"queueDeq", "queueWait"}
                     /\ to \in Declaring
  BY <1>2, <1>3, <1>4, <1>5, <1>6 DEF Quiet
<1> QED BY <1>7 DEF Quiet

\* What find_min_epoch returns bounds every buffer of the logger's workers.
LEMMA MinEpochIsAbove ==
    ASSUME IInv, NEW l \in Loggers, NEW w \in MyWorkers(l), NEW m \in Nat,
           CTIDW[w] >= m \/ m <= 1, batch[l] = <<>>,
           queue[l] # <<>> => m <= buf[queue[l][1]].min
    PROVE  Above(w, m)
<1>1. w \in Workers /\ LoggerOf[w] = l /\ CTIDW[w] \in Nat
  BY ContentTypes, Domains DEF MyWorkers
<1>2. ASSUME NEW b \in Buffers, b[1] = w, NEW i \in DOMAIN buf[b].log_set
      PROVE  buf[b].log_set[i].epoch >= m
  <2>1. ~ IsEmpty(b)
    BY <1>2 DEF IsEmpty
  <2>2. PICK e \in 1 .. MaxEpoch : IsOf(b, e)
    BY <2>1 DEF IInv, ContentInv
  <2>3. buf[b].log_set[i].epoch = e /\ buf[b].min = e /\ e \in Nat /\ e >= 1
    BY <1>2, <2>2, Domains DEF IsOf
  <2>4. ~ IsTaken(b)
    BY <1>1, <1>2, EmptySequence DEF IsTaken
  <2>5. ~ IsPooled(b)
    BY <2>1 DEF IInv, ContentInv
  <2>6. CASE IsCurrent(b)
    <3>1. IsOf(b, CTIDW[w])
      BY <1>2, <2>1, <2>6 DEF IInv, ContentInv
    <3>2. e = CTIDW[w]
      BY <2>3, <3>1 DEF IsOf
    <3> QED BY <1>1, <2>3, <3>2
  <2>7. CASE IsQueued(b)
    <3> DEFINE q == queue[l]
    <3>1. /\ q \in Seq(Buffers) /\ \A c \in Buffers : buf[c].min \in Nat
          /\ \A j, k \in DOMAIN q : j <= k => buf[q[j]].min <= buf[q[k]].min
      BY QueueFacts
    <3>2. b \in Range(q)
      BY <1>1, <1>2, <2>7 DEF IsQueued
    <3> HIDE DEF q
    <3>3. PICK j \in 1 .. Len(q) : b = q[j]
      BY <3>1, <3>2 DEF Range
    <3>4. q # <<>> /\ 1 \in DOMAIN q /\ j \in DOMAIN q /\ 1 <= j /\ q[1] \in Buffers
      BY <3>1, <3>3
    <3>5. buf[q[1]].min <= buf[b].min /\ buf[q[1]].min \in Nat
      BY <3>1, <3>3, <3>4
    <3>6. m <= buf[q[1]].min
      BY <3>4 DEF q
    <3> QED BY <2>3, <3>5, <3>6
  <2> QED BY <2>4, <2>5, <2>6, <2>7, PlaceTypes DEF OnePlace
<1> QED BY <1>2 DEF Above

LEMMA DurableStep ==
    ASSUME IInv, [Next]_vars
    PROVE  DurableInv'
<1> SUFFICES ASSUME ~ skipped', NEW l \in Loggers, NEW w \in MyWorkers(l)
             PROVE  /\ Above(w, ThLocalDurableEpoch[l] + 1)'
                    /\ lpc'[l] \in {"queueDeq", "queueWait"} => CTIDW'[w] >= min_epoch'[l] \/ min_epoch'[l] <= 1
                    /\ lpc'[l] \in Declaring => Above(w, min_epoch[l])'
  BY DEF DurableInv, MyWorkers, Declaring
<1>1. w \in Workers
  BY DEF MyWorkers
<1>2. ~ skipped
  <2>1. ASSUME NEW k \in Loggers, NEW at, NEW to, FindMinCtid(k, at, to) PROVE ~ skipped
    BY <2>1 DEF FindMinCtid
  <2>2. ASSUME NEW k \in Loggers, NEW at, NEW to, FindMinQueue(k, at, to) PROVE ~ skipped
    BY <2>2 DEF FindMinQueue
  <2>3. (\E k \in Loggers : Computes(k)) \/ UNCHANGED skipped
    BY StepCases, WorkerFrame, LoggerFrame DEF SendQuit, Tick, vars, local
  <2> QED BY <2>1, <2>2, <2>3 DEF Computes
<1>3. /\ Above(w, ThLocalDurableEpoch[l] + 1)
      /\ lpc[l] \in {"queueDeq", "queueWait"} => CTIDW[w] >= min_epoch[l] \/ min_epoch[l] <= 1
      /\ lpc[l] \in Declaring => Above(w, min_epoch[l])
  BY <1>2 DEF IInv, DurableInv, Declaring
<1>4. /\ min_epoch \in [Loggers -> Nat] /\ ThLocalDurableEpoch \in [Loggers -> Nat]
      /\ CTIDW \in [Workers -> Nat] /\ lpc \in [Loggers -> LPC]
  BY Domains DEF IInv, TypeOK
<1>5. Above(w, ThLocalDurableEpoch[l] + 1)'
  <2>1. CASE ThLocalDurableEpoch'[l] = ThLocalDurableEpoch[l]
    <3> DEFINE m == ThLocalDurableEpoch[l] + 1
    <3>1. m \in Nat /\ Above(w, m) /\ m' = m
      BY <1>3, <1>4, <2>1
    <3> HIDE DEF m
    <3>2. PICK n \in Nat : n = m
      BY <3>1
    <3>3. Above(w, n)'
      BY <1>1, <3>1, <3>2, AboveStays
    <3>4. ThLocalDurableEpoch'[l] + 1 = n
      BY <3>1, <3>2 DEF m
    <3> QED BY <3>3, <3>4 DEF Above
  <2>2. CASE StoreThLocalDurable(l)
    <3>1. ThLocalDurableEpoch' = [ThLocalDurableEpoch EXCEPT ![l] = min_epoch[l] - 1] /\ lpc[l] = "store"
      BY <2>2 DEF StoreThLocalDurable
    <3>2. ThLocalDurableEpoch'[l] = min_epoch[l] - 1
      BY <1>4, <3>1
    <3>3. PICK n \in Nat : n = min_epoch[l]
      BY <1>4
    <3>4. Above(w, n)
      BY <1>3, <3>1, <3>3 DEF Declaring
    <3>5. Above(w, n)'
      BY <1>1, <3>4, AboveStays
    <3>6. ThLocalDurableEpoch'[l] + 1 = n
      BY <3>2, <3>3
    <3> QED BY <3>5, <3>6 DEF Above
  <2>3. \/ StoreThLocalDurable(l) \/ ThLocalDurableEpoch'[l] = ThLocalDurableEpoch[l]
    <3>1. ASSUME NEW k \in Loggers, StoreThLocalDurable(k), k # l
          PROVE  ThLocalDurableEpoch'[l] = ThLocalDurableEpoch[l]
      BY <1>4, <3>1 DEF StoreThLocalDurable
    <3>2. (\E k \in Loggers : StoreThLocalDurable(k)) \/ UNCHANGED ThLocalDurableEpoch
      BY StepCases, WorkerFrame, LoggerFrame DEF SendQuit, Tick, vars, dur
    <3> QED BY <3>1, <3>2
  <2> QED BY <2>1, <2>2, <2>3
<1>6. CTIDW'[w] \in Nat /\ CTIDW'[w] >= CTIDW[w]
  <2>1. ASSUME NEW x \in Workers, Push(x) PROVE CTIDW'[w] \in Nat /\ CTIDW'[w] >= CTIDW[w]
    <3>1. /\ CTIDW' = [CTIDW EXCEPT ![x] = ThLocalEpoch[x]]
      BY <2>1 DEF Push
    <3>2. ThLocalEpoch[x] \in Nat /\ CTIDW[x] <= ThLocalEpoch[x]
      BY ContentTypes, Domains DEF IInv, EpochInv
    <3> QED BY <1>1, <1>4, <3>1, <3>2
  <2>2. (\E x \in Workers : Push(x)) \/ UNCHANGED CTIDW
    BY StepCases, WorkerFrame, LoggerFrame DEF SendQuit, Tick, vars, glob
  <2> QED BY <1>1, <1>4, <2>1, <2>2
<1>7. ASSUME NEW at, NEW to, FindMinCtid(l, at, to), to \in {"queueDeq", "queueWait"}, UNCHANGED CTIDW
      PROVE  /\ lpc'[l] \in {"queueDeq", "queueWait"} => CTIDW'[w] >= min_epoch'[l] \/ min_epoch'[l] <= 1
             /\ lpc'[l] \notin Declaring
  <2>1. PICK m \in Nat : 
             /\ min_epoch' = [min_epoch EXCEPT ![l] = m]
             /\ lpc' = [lpc EXCEPT ![l] = IF m = 0 THEN "wait" ELSE to]
             /\ m > 0 => \A x \in MyWorkers(l) : CTIDW[x] > 0 => m <= CTIDW[x]
             /\ skipped' = (skipped \/ (m > 1 /\ \E x \in MyWorkers(l) : ~ (CTIDW[x] > 0)))
    BY <1>7, MinOfCtid DEF IInv
  <2>2. m <= 1 \/ m <= CTIDW[w]
    <3>1. ~ (m > 1 /\ \E x \in MyWorkers(l) : ~ (CTIDW[x] > 0))
      BY <2>1, Zenon
    <3> QED BY <1>1, <1>4, <2>1, <3>1
  <2>3. lpc'[l] \in {"wait", "queueDeq", "queueWait"} /\ min_epoch'[l] = m
    BY <1>4, <1>7, <2>1
  <2> QED BY <1>1, <1>4, <1>7, <2>2, <2>3 DEF Declaring
<1>8. ASSUME NEW at, NEW to, FindMinQueue(l, at, to), at \in {"queueDeq", "queueWait"}, to \in Declaring
      PROVE  /\ lpc'[l] \notin {"queueDeq", "queueWait"}
             /\ Above(w, min_epoch[l])'
  <2>1. /\ lpc[l] = at /\ lpc' = [lpc EXCEPT ![l] = to]
        /\ min_epoch' = [min_epoch EXCEPT ![l] = IF @ <= QueueEpoch(l) THEN @ ELSE QueueEpoch(l)]
        /\ QueueEpoch(l) \in Nat \ {0} /\ min_epoch[l] \in Nat
        /\ queue[l] # <<>> => QueueEpoch(l) = buf[queue[l][1]].min
    BY <1>8, MinOfQueue DEF IInv, FindMinQueue, LGoto
  <2>2. PICK m \in Nat : m = IF min_epoch[l] <= QueueEpoch(l) THEN min_epoch[l] ELSE QueueEpoch(l)
    BY <2>1
  <2>3. min_epoch'[l] = m /\ lpc'[l] = to
    BY <1>4, <2>1, <2>2
  <2>4. m <= min_epoch[l] /\ m <= QueueEpoch(l)
    BY <2>1, <2>2
  <2>5. CTIDW[w] >= m \/ m <= 1
    BY <1>1, <1>3, <1>4, <1>8, <2>1, <2>4
  <2>6. batch[l] = <<>>
    BY <1>8, <2>1 DEF IInv, LoggerInv
  <2>7. Above(w, m)
    BY <2>1, <2>4, <2>5, <2>6, MinEpochIsAbove
  <2>8. Above(w, m)'
    BY <1>1, <2>7, AboveStays
  <2> QED BY <1>8, <2>3, <2>8 DEF Above, Declaring
<1>9. ASSUME UNCHANGED min_epoch[l],
             lpc'[l] \in {"queueDeq", "queueWait"} => UNCHANGED lpc[l],
             lpc'[l] \in Declaring => lpc[l] \in Declaring
      PROVE  /\ lpc'[l] \in {"queueDeq", "queueWait"} => CTIDW'[w] >= min_epoch'[l] \/ min_epoch'[l] <= 1
             /\ lpc'[l] \in Declaring => Above(w, min_epoch[l])'
  <2>1. lpc'[l] \in {"queueDeq", "queueWait"} => CTIDW'[w] >= min_epoch'[l] \/ min_epoch'[l] <= 1
    BY <1>1, <1>3, <1>4, <1>6, <1>9
  <2>2. ASSUME lpc'[l] \in Declaring PROVE Above(w, min_epoch[l])'
    <3>1. PICK n \in Nat : n = min_epoch[l]
      BY <1>4
    <3>2. Above(w, n)'
      BY <1>1, <1>3, <1>9, <2>2, <3>1, AboveStays
    <3>3. min_epoch'[l] = n
      BY <1>9, <3>1
    <3> QED BY <3>2, <3>3 DEF Above
  <2> QED BY <2>1, <2>2
<1> QED BY <1>5, <1>7, <1>8, <1>9, LoggerPath
-----------------------------------------------------------------------------
(* The invariant holds.                                                     *)

LEMMA InitPlace == Init => PlaceInv
<1> SUFFICES ASSUME Init PROVE PlaceInv
  OBVIOUS
<1>1. BUFFER_NUM \in Nat \ {0} /\ Buffers = Workers \X (1 .. BUFFER_NUM) /\ NULL \notin Buffers
  BY LogPipelineAssumption DEF Buffers
<1>2. /\ current_buffer = [w \in Workers |-> <<w, 1>>]
      /\ pool = [w \in Workers |-> [i \in 1 .. BUFFER_NUM - 1 |-> <<w, i + 1>>]]
      /\ queue = [l \in Loggers |-> <<>>] /\ batch = [l \in Loggers |-> <<>>]
  BY DEF Init
<1>3. ASSUME NEW w \in Workers
      PROVE  /\ IsInjective(pool[w])
             /\ \A b : b \in Range(pool[w]) <=> \E i \in 1 .. BUFFER_NUM - 1 : b = <<w, i + 1>>
  <2>1. pool[w] = [i \in 1 .. BUFFER_NUM - 1 |-> <<w, i + 1>>]
    BY <1>2
  <2>2. IsInjective(pool[w])
    BY <1>1, <2>1 DEF IsInjective
  <2>3. \A b : b \in Range(pool[w]) <=> \E i \in 1 .. BUFFER_NUM - 1 : b = <<w, i + 1>>
    BY <2>1 DEF Range
  <2> QED BY <2>2, <2>3
<1>4. Owned
  <2>1. \A w \in Workers : IsInjective(pool[w]) /\ \A b \in Range(pool[w]) : b[1] = w
    BY <1>3
  <2>2. \A w \in Workers : current_buffer[w] # NULL => current_buffer[w][1] = w
    BY <1>2
  <2>3. \A l \in Loggers : /\ IsInjective(queue[l]) /\ \A b \in Range(queue[l]) : LoggerOf[b[1]] = l
                           /\ IsInjective(batch[l]) /\ \A b \in Range(batch[l]) : LoggerOf[b[1]] = l
    BY <1>2, EmptySequence
  <2> QED BY <2>1, <2>2, <2>3 DEF Owned
<1>5. ASSUME NEW b \in Buffers
      PROVE  /\ ~ IsQueued(b) /\ ~ IsTaken(b)
             /\ IsCurrent(b) <=> ~ IsPooled(b)
  <2>1. PICK w \in Workers, k \in 1 .. BUFFER_NUM : b = <<w, k>>
    BY <1>1
  <2>2. b[1] = w /\ LoggerOf[w] \in Loggers
    BY <2>1, Domains
  <2>3. ~ IsQueued(b) /\ ~ IsTaken(b)
    BY <1>2, <2>2, EmptySequence DEF IsQueued, IsTaken
  <2>4. IsCurrent(b) <=> k = 1
    BY <1>2, <2>1, <2>2 DEF IsCurrent
  <2>5. IsPooled(b) <=> k # 1
    <3>1. IsPooled(b) <=> \E i \in 1 .. BUFFER_NUM - 1 : k = i + 1
      BY <1>3, <2>1, <2>2 DEF IsPooled
    <3>2. k # 1 => k - 1 \in 1 .. BUFFER_NUM - 1 /\ k = (k - 1) + 1
      BY <1>1
    <3>3. \A i \in 1 .. BUFFER_NUM - 1 : i + 1 # 1
      BY <1>1
    <3> QED BY <3>1, <3>2, <3>3
  <2> QED BY <2>3, <2>4, <2>5
<1>6. OnePlace
  BY <1>5 DEF OnePlace
<1> QED BY <1>4, <1>6 DEF PlaceInv

LEMMA InitInv == Init => IInv
<1> SUFFICES ASSUME Init PROVE IInv
  OBVIOUS
<1>1. TypeOK /\ PlaceInv
  BY TypeInit, InitPlace
<1>2. EpochInv
  BY DEF Init, EpochInv
<1>3. ReadyInv
  <2>1. \A w \in Workers : current_buffer[w] \in Buffers
    BY LogPipelineAssumption DEF Init, Buffers
  <2> QED BY <2>1, Domains DEF ReadyInv
<1>4. LoggerInv
  BY DEF Init, LoggerInv
<1>5. \A b \in Buffers : IsEmpty(b) /\ buf[b].log_set = <<>> /\ DOMAIN buf[b].log_set = {}
  BY DEF Init, IsEmpty, EmptyBuffer
<1>6. ContentInv
  BY <1>5 DEF ContentInv
<1>7. LengthInv
  <2>1. \A b \in Buffers : Len(buf[b].log_set) = 0
    BY <1>5
  <2>2. MAX_BUFFERED_LOG_ENTRIES + 0 >= 0 /\ MAX_BUFFERED_LOG_ENTRIES >= 0 /\ 0 \in Sizes \cup {0}
    BY Domains
  <2> QED BY <2>1, <2>2 DEF LengthInv, BufferBounded
<1>8. QueueInv
  BY DEF Init, QueueInv
<1>9. PepochBehind
  BY DEF Init, PepochBehind
<1>10. DurableInv
  <2>1. \A w \in Workers : Above(w, 1)
    BY <1>5 DEF Above
  <2> QED BY <2>1 DEF Init, DurableInv, MyWorkers
<1> QED BY <1>1, <1>2, <1>3, <1>4, <1>6, <1>7, <1>8, <1>9, <1>10 DEF IInv

LEMMA StepInv == IInv /\ [Next]_vars => IInv'
<1> SUFFICES ASSUME IInv, [Next]_vars PROVE IInv'
  OBVIOUS
<1> QED
  BY TypeStep, EpochStep, ReadyStep, LoggerStep, PlaceStep, ContentStep, LengthStep, QueueStep,
     PepochStep, DurableStep DEF IInv

LEMMA InvHolds == Spec => []IInv
BY InitInv, StepInv, PTL DEF Spec
-----------------------------------------------------------------------------
(* The properties of the log.                                               *)

\* Every variable keeps its type: in particular the epochs stay within their
\* bound, and check_durable never writes the epoch 0 to pepoch.seal.
THEOREM LogTypes == Spec => []TypeOK
<1>1. IInv => TypeOK
  BY DEF IInv
<1> QED BY <1>1, InvHolds, PTL

LEMMA TimesOf ==
    ASSUME NEW s \in Seq(Buffers), IsInjective(s), NEW b
    PROVE  Cardinality({i \in DOMAIN s : s[i] = b}) = IF b \in Range(s) THEN 1 ELSE 0
<1> DEFINE D == {i \in DOMAIN s : s[i] = b}
<1>1. CASE b \in Range(s)
  <2>1. PICK k \in DOMAIN s : b = s[k]
    BY <1>1 DEF Range
  <2>2. D = {k}
    BY <2>1 DEF IsInjective
  <2> QED BY <1>1, <2>2, FS_Singleton
<1>2. CASE b \notin Range(s)
  <2>1. D = {}
    BY <1>2 DEF Range
  <2> QED BY <1>2, <2>1, FS_EmptySet
<1> QED BY <1>1, <1>2

\* current_buffer_, pool_, the queue and the batch of logging() hold every
\* LogBuffer exactly once between them, so a worker never fills a buffer that
\* a logger is writing.
THEOREM BuffersAreNotShared == Spec => []BufferInOnePlace
<1>1. ASSUME IInv PROVE BufferInOnePlace
  <2>1. ASSUME NEW b \in Buffers
        PROVE  LET w == b[1]
                   l == LoggerOf[w]
                   Times(s) == Cardinality({i \in DOMAIN s : s[i] = b})
               IN  (IF current_buffer[w] = b THEN 1 ELSE 0)
                     + Times(pool[w]) + Times(queue[l]) + Times(batch[l]) = 1
    <3> DEFINE w == b[1]
               l == LoggerOf[w]
               Times(s) == Cardinality({i \in DOMAIN s : s[i] = b})
    <3>1. w \in Workers /\ l \in Loggers
      BY Domains
    <3>2. /\ pool[w] \in Seq(Buffers) /\ IsInjective(pool[w])
          /\ queue[l] \in Seq(Buffers) /\ IsInjective(queue[l])
          /\ batch[l] \in Seq(Buffers) /\ IsInjective(batch[l])
      BY <1>1, <3>1, PlaceTypes DEF Owned
    <3>3. /\ Times(pool[w]) = IF IsPooled(b) THEN 1 ELSE 0
          /\ Times(queue[l]) = IF IsQueued(b) THEN 1 ELSE 0
          /\ Times(batch[l]) = IF IsTaken(b) THEN 1 ELSE 0
      BY <3>2, TimesOf DEF IsPooled, IsQueued, IsTaken
    <3>4. (current_buffer[w] = b) <=> IsCurrent(b)
      BY DEF IsCurrent
    <3> HIDE DEF Times
    <3>5. (IF current_buffer[w] = b THEN 1 ELSE 0)
            + Times(pool[w]) + Times(queue[l]) + Times(batch[l]) = 1
      BY <1>1, <3>3, <3>4, PlaceTypes DEF OnePlace
    <3> QED BY <3>5 DEF Times
  <2> QED BY <2>1 DEF BufferInOnePlace
<1> QED BY <1>1, InvHolds, PTL

\* The assertion in LogBuffer::push holds: publish() leaves a buffer as soon
\* as its worker's epoch moves on, so one buffer never mixes two epochs and the
\* epoch it is queued under is the one of all its records.
THEOREM BuffersHoldOneEpoch == Spec => []OneEpochPerBuffer
<1>1. ASSUME IInv PROVE OneEpochPerBuffer
  <2>1. ASSUME NEW b \in Buffers, NEW i \in DOMAIN buf[b].log_set
        PROVE  buf[b].min = buf[b].max /\ buf[b].log_set[i].epoch = buf[b].min
    <3>1. ~ IsEmpty(b)
      BY <2>1 DEF IsEmpty
    <3>2. PICK e \in 1 .. MaxEpoch : IsOf(b, e)
      BY <1>1, <3>1 DEF IInv, ContentInv
    <3> QED BY <2>1, <3>2 DEF IsOf
  <2> QED BY <2>1 DEF OneEpochPerBuffer
<1> QED BY <1>1, InvHolds, PTL

\* LogBufferPool tests the size before it adds a write set: a buffer outgrows
\* MAX_BUFFERED_LOG_ENTRIES by less than one transaction more.
THEOREM BuffersStaySmall == Spec => []BufferBounded
<1>1. IInv => BufferBounded
  BY DEF IInv, LengthInv
<1> QED BY <1>1, InvHolds, PTL

\* push() waits until it has a buffer, so the worker's loop always finds its
\* pool ready: durableEpochWork never gets as far as epochWork.
THEOREM PoolIsReady == Spec => []PoolReady
<1>1. IInv => PoolReady
  BY DEF IInv, ReadyInv, PoolReady
<1> QED BY <1>1, InvHolds, PTL

\* However the loggers' loads, swaps and stores interleave in check_durable,
\* pepoch.seal never holds an epoch above DurableEpoch, and DurableEpoch is
\* never above what any logger has stored.
THEOREM PepochIsBehind == Spec => []PepochBehind
<1>1. IInv => PepochBehind
  BY DEF IInv
<1> QED BY <1>1, InvHolds, PTL

\* DurableEpoch is what it says: no buffer holds a record of an epoch up to it
\* and no worker is about to log one, unless find_min_epoch has left out a
\* worker that has not committed yet.
THEOREM DurableEpochIsDurable == Spec => []DurableIsPersisted
<1>1. ASSUME IInv PROVE DurableIsPersisted
  <2> SUFFICES ASSUME ~ skipped
               PROVE  /\ \A b \in Buffers : \A i \in DOMAIN buf[b].log_set :
                           buf[b].log_set[i].epoch > DurableEpoch
                      /\ \A w \in Workers : pc[w] \in {"wal", "push"} => ThLocalEpoch[w] > DurableEpoch
    BY DEF DurableIsPersisted
  <2>1. ASSUME NEW w \in Workers
        PROVE  \E m \in Nat : Above(w, m + 1) /\ DurableEpoch <= m
    <3> DEFINE l == LoggerOf[w]
    <3>1. l \in Loggers /\ w \in MyWorkers(l)
      BY Domains DEF MyWorkers
    <3>2. Above(w, ThLocalDurableEpoch[l] + 1)
      BY <1>1, <3>1 DEF IInv, DurableInv
    <3>3. ThLocalDurableEpoch[l] \in Nat /\ DurableEpoch <= ThLocalDurableEpoch[l]
      <4>1. ThLocalDurableEpoch \in [Loggers -> 0 .. MaxEpoch]
        BY <1>1 DEF IInv, TypeOK
      <4>2. DurableEpoch <= ThLocalDurableEpoch[l]
        BY <1>1, <3>1 DEF IInv, PepochBehind
      <4> HIDE DEF l
      <4> QED BY <3>1, <4>1, <4>2, Domains
    <3> QED BY <3>2, <3>3
  <2>2. DurableEpoch \in Nat
    BY <1>1, Domains DEF IInv, TypeOK
  <2>3. ASSUME NEW b \in Buffers, NEW i \in DOMAIN buf[b].log_set
        PROVE  buf[b].log_set[i].epoch > DurableEpoch
    <3>1. PICK m \in Nat : Above(b[1], m + 1) /\ DurableEpoch <= m
      BY <2>1, Domains
    <3>2. buf[b].log_set[i].epoch >= m + 1
      BY <2>3, <3>1 DEF Above
    <3>3. buf[b].log_set[i].epoch \in Nat
      <4>1. buf[b].log_set \in Seq(Entry)
        BY <1>1, ContentTypes
      <4>2. buf[b].log_set[i] \in Entry
        BY <2>3, <4>1
      <4> QED BY <4>2 DEF Entry
    <3> QED BY <2>2, <3>1, <3>2, <3>3
  <2>4. ASSUME NEW w \in Workers, pc[w] \in {"wal", "push"} PROVE ThLocalEpoch[w] > DurableEpoch
    <3>1. PICK m \in Nat : Above(w, m + 1) /\ DurableEpoch <= m
      BY <2>1
    <3>2. CTIDW[w] >= m + 1 \/ m + 1 <= 1
      BY <3>1 DEF Above
    <3>3. CTIDW[w] <= ThLocalEpoch[w] /\ ThLocalEpoch[w] >= 1
      BY <1>1, <2>4 DEF IInv, EpochInv
    <3>4. CTIDW[w] \in Nat /\ ThLocalEpoch[w] \in Nat
      BY <1>1, ContentTypes, Domains
    <3> QED BY <2>2, <3>1, <3>2, <3>3, <3>4
  <2> QED BY <2>3, <2>4
<1> QED BY <1>1, InvHolds, PTL

\* The compare-and-swap of check_durable never takes DurableEpoch back, though
\* it is tried once and with values that other loggers may have overtaken.
THEOREM DurableEpochGrows == Spec => DurableGrows
<1>1. IInv /\ [Next]_vars => [DurableEpoch' >= DurableEpoch]_DurableEpoch
  BY DurableMoves
<1> QED BY <1>1, InvHolds, PTL DEF Spec, DurableGrows

\* The program moves GlobalEpoch in epochWork only, and no worker enters it:
\* the epoch is 1 for as long as the program runs, whatever the bounds are.
\* So every behaviour of the program is one of Spec.
THEOREM EpochStands == ProgramSpec => [](GlobalEpoch = 1) /\ Spec
<1> DEFINE J == IInv /\ GlobalEpoch = 1
<1>1. Init => J
  BY InitInv DEF Init
<1>2. J /\ [ProgramNext]_vars => [Next]_vars /\ J'
  <2> SUFFICES ASSUME J, [ProgramNext]_vars PROVE [Next]_vars /\ J'
    OBVIOUS
  <2>1. ASSUME NEW w \in Workers, EpochWork(w) PROVE FALSE
    BY <2>1 DEF EpochWork, IInv, ReadyInv
  <2>2. [Next]_vars
    BY <2>1 DEF ProgramNext, Next
  <2>3. UNCHANGED GlobalEpoch
    <3>1. ASSUME NEW w \in Workers, Worker(w) PROVE UNCHANGED GlobalEpoch
      BY <3>1, WorkerFrame
    <3>2. ASSUME NEW l \in Loggers, Logger(l) PROVE UNCHANGED GlobalEpoch
      BY <3>2, LoggerFrame
    <3> QED BY <2>1, <3>1, <3>2 DEF ProgramNext, Threads, SendQuit, Finished, vars, glob
  <2> QED BY <2>2, <2>3, StepInv
<1>3. J => GlobalEpoch = 1
  OBVIOUS
<1> HIDE DEF J
<1> QED BY <1>1, <1>2, <1>3, PTL DEF ProgramSpec, Spec
-----------------------------------------------------------------------------
(* The records of a worker in a sequence, and in a sequence of buffers.     *)

\* The records of w in a sequence, each as a sequence of one.
Mine(w, s) == [i \in DOMAIN s |-> IF s[i].worker = w THEN <<s[i]>> ELSE <<>>]

LEMMA MineFacts ==
    ASSUME NEW w, NEW s \in Seq(Entry), NEW t \in Seq(Entry)
    PROVE  /\ Mine(w, s) \in Seq(Seq(Entry))
           /\ Mine(w, s \o t) = Mine(w, s) \o Mine(w, t)
<1> DEFINE g == [x \in Entry |-> IF x.worker = w THEN <<x>> ELSE <<>>]
<1>1. g \in [Entry -> Seq(Entry)]
  OBVIOUS
<1>2. ASSUME NEW r \in Seq(Entry) PROVE Mine(w, r) = Mapped(g, r)
  <2>1. \A i \in DOMAIN r : r[i] \in Entry
    OBVIOUS
  <2> QED BY <2>1 DEF Mine, Mapped
<1>3. s \o t \in Seq(Entry)
  OBVIOUS
<1> HIDE DEF g
<1> DEFINE P(T, h, u, v) == /\ Mapped(h, u) \in Seq(T)
                            /\ Mapped(h, u \o v) = Mapped(h, u) \o Mapped(h, v)
<1>4. \A S, T : \A h \in [S -> T] : \A u, v \in Seq(S) : P(T, h, u, v)
  BY MappedConcat, Zenon
<1>5. P(Seq(Entry), g, s, t)
  <2> HIDE DEF P
  <2> QED BY <1>1, <1>4, Zenon
<1>6. /\ Mine(w, s) = Mapped(g, s) /\ Mine(w, t) = Mapped(g, t)
      /\ Mine(w, s \o t) = Mapped(g, s \o t)
  BY <1>2, <1>3, Zenon
<1> QED BY <1>5, <1>6, Zenon

\* Of goes through a sequence from left to right.
LEMMA OfFacts ==
    ASSUME NEW w, NEW s \in Seq(Entry), NEW t \in Seq(Entry)
    PROVE  /\ Of(w, s) \in Seq(Entry) /\ Of(w, <<>>) = <<>>
           /\ Of(w, s \o t) = Of(w, s) \o Of(w, t)
<1>1. \A r : Of(w, r) = FlattenSeq(Mine(w, r))
  BY Zenon DEF Of, Mine
<1>2. Mine(w, <<>>) = <<>>
  BY DEF Mine
<1>3. /\ Mine(w, s) \in Seq(Seq(Entry)) /\ Mine(w, t) \in Seq(Seq(Entry))
      /\ Mine(w, s \o t) = Mine(w, s) \o Mine(w, t)
  BY MineFacts
<1>4. <<>> \in Seq(Entry)
  OBVIOUS
<1>5. FlattenSeq(Mine(w, s)) \in Seq(Entry) /\ FlattenSeq(<<>>) = <<>>
  BY <1>3, <1>4, FlattenAppend, Zenon
<1>6. FlattenSeq(Mine(w, s) \o Mine(w, t)) = FlattenSeq(Mine(w, s)) \o FlattenSeq(Mine(w, t))
  BY <1>3, FlattenConcat, Zenon
<1>7. Of(w, s) \in Seq(Entry) /\ Of(w, <<>>) = <<>>
  BY <1>1, <1>2, <1>5, Zenon
<1>8. Of(w, s \o t) = Of(w, s) \o Of(w, t)
  <2>1. Of(w, s \o t) = FlattenSeq(Mine(w, s) \o Mine(w, t))
    BY <1>1, <1>3
  <2>2. Of(w, s) = FlattenSeq(Mine(w, s)) /\ Of(w, t) = FlattenSeq(Mine(w, t))
    BY <1>1
  <2> QED BY <1>6, <2>1, <2>2
<1> QED BY <1>7, <1>8

LEMMA OfOne ==
    ASSUME NEW w, NEW x \in Entry
    PROVE  Of(w, <<x>>) = IF x.worker = w THEN <<x>> ELSE <<>>
<1> DEFINE y == IF x.worker = w THEN <<x>> ELSE <<>>
<1>1. Mine(w, <<x>>) = <<y>>
  <2>1. DOMAIN <<x>> = 1 .. 1 /\ <<x>>[1] = x
    OBVIOUS
  <2>2. Mine(w, <<x>>) = [i \in 1 .. 1 |-> y]
    BY <2>1 DEF Mine
  <2> HIDE DEF y
  <2>3. [i \in 1 .. 1 |-> y] = <<y>>
    OBVIOUS
  <2> QED BY <2>2, <2>3
<1>2. y \in Seq(Entry)
  OBVIOUS
<1> HIDE DEF y
<1>3. FlattenSeq(<<y>>) = y
  BY <1>2, FlattenOne, Zenon
<1>4. Of(w, <<x>>) = FlattenSeq(Mine(w, <<x>>))
  BY Zenon DEF Of, Mine
<1> QED BY <1>1, <1>3, <1>4, Zenon DEF y

\* Of the records of one worker.
LEMMA OfAll ==
    ASSUME NEW w, NEW v, NEW s \in Seq(Entry), \A i \in DOMAIN s : s[i].worker = v
    PROVE  Of(w, s) = IF w = v THEN s ELSE <<>>
<1> DEFINE P == {r \in Seq(Entry) : (\A i \in DOMAIN r : r[i].worker = v) =>
                                      Of(w, r) = IF w = v THEN r ELSE <<>>}
<1>1. <<>> \in P
  <2>1. <<>> \in Seq(Entry)
    OBVIOUS
  <2>2. Of(w, <<>>) = <<>>
    BY <2>1, OfFacts, Zenon
  <2> QED BY <2>1, <2>2
<1>2. ASSUME NEW r \in Seq(Entry), NEW x \in Entry, r \in P PROVE Append(r, x) \in P
  <2>1. /\ Append(r, x) \in Seq(Entry) /\ Append(r, x) = r \o <<x>> /\ <<x>> \in Seq(Entry)
        /\ DOMAIN r = 1 .. Len(r) /\ DOMAIN Append(r, x) = 1 .. Len(r) + 1 /\ Len(r) \in Nat
        /\ \A i \in 1 .. Len(r) : Append(r, x)[i] = r[i]
        /\ Append(r, x)[Len(r) + 1] = x
    BY AppendIsConcat
  <2>2. SUFFICES ASSUME \A i \in DOMAIN Append(r, x) : Append(r, x)[i].worker = v
                 PROVE  Of(w, Append(r, x)) = IF w = v THEN Append(r, x) ELSE <<>>
    BY <2>1
  <2>3. x.worker = v /\ \A i \in DOMAIN r : r[i].worker = v
    BY <2>1, <2>2
  <2>4. Of(w, r) = IF w = v THEN r ELSE <<>>
    BY <1>2, <2>3
  <2>5. Of(w, <<x>>) = IF w = v THEN <<x>> ELSE <<>>
    BY <2>3, OfOne
  <2>6. Of(w, Append(r, x)) = Of(w, r) \o Of(w, <<x>>)
    <3>1. Of(w, r \o <<x>>) = Of(w, r) \o Of(w, <<x>>)
      BY <2>1, OfFacts, Zenon
    <3> QED BY <2>1, <3>1, Zenon
  <2>7. <<>> \o <<>> = <<>>
    OBVIOUS
  <2> QED BY <2>1, <2>4, <2>5, <2>6, <2>7, Zenon
<1> HIDE DEF P
<1>3. Seq(Entry) \subseteq P
  BY <1>1, <1>2, AllSequences, Zenon
<1> QED BY <1>3 DEF P

SetsOf(B, q) == [i \in DOMAIN q |-> B[q[i]].log_set]

\* LogSets of any contents of the buffers.
LogSetsOf(B, q) == FlattenSeq(SetsOf(B, q))

LEMMA SetsOfFacts ==
    ASSUME NEW B \in [Buffers -> BufferType], NEW q \in Seq(Buffers), NEW r \in Seq(Buffers)
    PROVE  /\ SetsOf(B, q) \in Seq(Seq(Entry))
           /\ SetsOf(B, q \o r) = SetsOf(B, q) \o SetsOf(B, r)
<1> DEFINE g == [b \in Buffers |-> B[b].log_set]
<1>1. g \in [Buffers -> Seq(Entry)]
  BY DEF BufferType
<1>2. ASSUME NEW s \in Seq(Buffers) PROVE SetsOf(B, s) = Mapped(g, s)
  <2>1. \A i \in DOMAIN s : s[i] \in Buffers
    OBVIOUS
  <2> QED BY <2>1 DEF SetsOf, Mapped
<1>3. q \o r \in Seq(Buffers)
  OBVIOUS
<1> HIDE DEF g
<1> DEFINE P(T, h, u, v) == /\ Mapped(h, u) \in Seq(T)
                            /\ Mapped(h, u \o v) = Mapped(h, u) \o Mapped(h, v)
<1>4. \A S, T : \A h \in [S -> T] : \A u, v \in Seq(S) : P(T, h, u, v)
  BY MappedConcat, Zenon
<1>5. P(Seq(Entry), g, q, r)
  <2> HIDE DEF P
  <2> QED BY <1>1, <1>4, Zenon
<1>6. /\ SetsOf(B, q) = Mapped(g, q) /\ SetsOf(B, r) = Mapped(g, r)
      /\ SetsOf(B, q \o r) = Mapped(g, q \o r)
  BY <1>2, <1>3, Zenon
<1> QED BY <1>5, <1>6, Zenon

LEMMA LogSetsFacts ==
    ASSUME NEW B \in [Buffers -> BufferType], NEW q \in Seq(Buffers), NEW r \in Seq(Buffers)
    PROVE  /\ LogSetsOf(B, <<>>) = <<>> /\ LogSetsOf(B, q) \in Seq(Entry)
           /\ LogSetsOf(B, q \o r) = LogSetsOf(B, q) \o LogSetsOf(B, r)
<1>1. /\ SetsOf(B, q) \in Seq(Seq(Entry)) /\ SetsOf(B, r) \in Seq(Seq(Entry))
      /\ SetsOf(B, q \o r) = SetsOf(B, q) \o SetsOf(B, r)
  BY SetsOfFacts
<1>2. <<>> \in Seq(Entry)
  OBVIOUS
<1>3. FlattenSeq(SetsOf(B, q)) \in Seq(Entry) /\ FlattenSeq(<<>>) = <<>>
  BY <1>1, <1>2, FlattenAppend, Zenon
<1>4. FlattenSeq(SetsOf(B, q) \o SetsOf(B, r)) = FlattenSeq(SetsOf(B, q)) \o FlattenSeq(SetsOf(B, r))
  BY <1>1, FlattenConcat, Zenon
<1>5. SetsOf(B, <<>>) = <<>>
  BY DEF SetsOf
<1>6. LogSetsOf(B, q \o r) = LogSetsOf(B, q) \o LogSetsOf(B, r)
  <2>1. LogSetsOf(B, q \o r) = FlattenSeq(SetsOf(B, q) \o SetsOf(B, r))
    BY <1>1 DEF LogSetsOf
  <2>2. LogSetsOf(B, q) = FlattenSeq(SetsOf(B, q)) /\ LogSetsOf(B, r) = FlattenSeq(SetsOf(B, r))
    BY DEF LogSetsOf
  <2> QED BY <1>4, <2>1, <2>2
<1>7. LogSetsOf(B, <<>>) = <<>> /\ LogSetsOf(B, q) \in Seq(Entry)
  BY <1>3, <1>5, Zenon DEF LogSetsOf
<1> QED BY <1>6, <1>7

LEMMA LogSetsOne ==
    ASSUME NEW B \in [Buffers -> BufferType], NEW b \in Buffers
    PROVE  LogSetsOf(B, <<b>>) = B[b].log_set /\ B[b].log_set \in Seq(Entry)
<1> DEFINE y == B[b].log_set
<1>1. y \in Seq(Entry)
  BY DEF BufferType
<1>2. SetsOf(B, <<b>>) = <<y>>
  <2>1. DOMAIN <<b>> = 1 .. 1 /\ <<b>>[1] = b
    OBVIOUS
  <2>2. SetsOf(B, <<b>>) = [i \in 1 .. 1 |-> y]
    BY <2>1 DEF SetsOf
  <2> HIDE DEF y
  <2>3. [i \in 1 .. 1 |-> y] = <<y>>
    OBVIOUS
  <2> QED BY <2>2, <2>3
<1>3. FlattenSeq(<<y>>) = y
  BY <1>1, FlattenOne, Zenon
<1> QED BY <1>1, <1>2, <1>3, Zenon DEF LogSetsOf

\* Buffers that are not in a queue do not matter to it.
LEMMA LogSetsSame ==
    ASSUME NEW B, NEW C, NEW q, \A b \in Range(q) : C[b].log_set = B[b].log_set
    PROVE  LogSetsOf(C, q) = LogSetsOf(B, q)
<1>1. \A i \in DOMAIN q : C[q[i]].log_set = B[q[i]].log_set
  BY DEF Range
<1>2. SetsOf(C, q) = SetsOf(B, q)
  BY <1>1 DEF SetsOf
<1> QED BY <1>2, Zenon DEF LogSetsOf

\* A queue of buffers without records of w has none.
LEMMA LogSetsNone ==
    ASSUME NEW B \in [Buffers -> BufferType], NEW q \in Seq(Buffers), NEW w,
           \A b \in Range(q) : Of(w, B[b].log_set) = <<>>
    PROVE  Of(w, LogSetsOf(B, q)) = <<>>
<1> DEFINE P == {r \in Seq(Buffers) : (\A b \in Range(r) : Of(w, B[b].log_set) = <<>>) =>
                                        Of(w, LogSetsOf(B, r)) = <<>>}
<1>0. <<>> \in Seq(Entry) /\ <<>> \in Seq(Buffers) /\ <<>> \o <<>> = <<>>
  OBVIOUS
<1>1. <<>> \in P
  <2>1. FlattenSeq(<<>>) = <<>>
    BY <1>0, EmptySeq, FlattenAppend, Zenon
  <2>2. SetsOf(B, <<>>) = <<>>
    BY DEF SetsOf
  <2>3. Of(w, <<>>) = <<>>
    BY <1>0, OfFacts, Zenon
  <2>4. Of(w, LogSetsOf(B, <<>>)) = <<>>
    BY <2>1, <2>2, <2>3, Zenon DEF LogSetsOf
  <2> QED BY <1>0, <2>4
<1>2. ASSUME NEW r \in Seq(Buffers), NEW x \in Buffers, r \in P PROVE Append(r, x) \in P
  <2>1. /\ Append(r, x) \in Seq(Buffers) /\ Append(r, x) = r \o <<x>> /\ <<x>> \in Seq(Buffers)
        /\ Range(Append(r, x)) = Range(r) \cup {x}
    BY AppendIsConcat, AppendFacts
  <2>2. SUFFICES ASSUME \A b \in Range(Append(r, x)) : Of(w, B[b].log_set) = <<>>
                 PROVE  Of(w, LogSetsOf(B, Append(r, x))) = <<>>
    BY <2>1
  <2>3. Of(w, LogSetsOf(B, r)) = <<>> /\ Of(w, B[x].log_set) = <<>>
    BY <1>2, <2>1, <2>2
  <2>4. /\ LogSetsOf(B, r \o <<x>>) = LogSetsOf(B, r) \o LogSetsOf(B, <<x>>)
        /\ LogSetsOf(B, <<x>>) = B[x].log_set
        /\ LogSetsOf(B, r) \in Seq(Entry) /\ B[x].log_set \in Seq(Entry)
    BY <2>1, LogSetsFacts, LogSetsOne
  <2>5. Of(w, LogSetsOf(B, r) \o B[x].log_set) = Of(w, LogSetsOf(B, r)) \o Of(w, B[x].log_set)
    BY <2>4, OfFacts
  <2>6. LogSetsOf(B, Append(r, x)) = LogSetsOf(B, r) \o B[x].log_set
    BY <2>1, <2>4
  <2> QED BY <1>0, <2>3, <2>5, <2>6
<1> HIDE DEF P
<1>3. Seq(Buffers) \subseteq P
  BY <1>1, <1>2, AllSequences, Zenon
<1> QED BY <1>3 DEF P

-----------------------------------------------------------------------------
(* The four parts of a worker's log.                                        *)

\* Every record is in a buffer of its worker's, and no buffer is of an epoch
\* that its worker has not logged yet.
RecordInv ==
    \A b \in Buffers :
        /\ \A i \in DOMAIN buf[b].log_set : buf[b].log_set[i].worker = b[1]
        /\ IsEmpty(b) \/ buf[b].min <= CTIDW[b[1]]

\* The four parts of LogInOrder: what of w's records is written, what its
\* logger is writing, what it has queued, and what is in its current buffer.
Filed(w)   == Of(w, logfile[LoggerOf[w]])
Taken(w)   == Of(w, LogSetsOf(buf, batch[LoggerOf[w]]))
Waiting(w) == Of(w, LogSetsOf(buf, queue[LoggerOf[w]]))
Open(w)    == IF current_buffer[w] = NULL THEN <<>> ELSE buf[current_buffer[w]].log_set

\* Concatenation, with a name to reason about it by the following lemma only.
Cat(s, t) == s \o t

\* Put together, they are what x has committed.
InOrderAt(x) == Cat(Filed(x), Cat(Taken(x), Cat(Waiting(x), Open(x)))) = Committed(x)

InOrder == \A w \in Workers : InOrderAt(w)

LEMMA PartTypes ==
    ASSUME TypeOK, NEW w \in Workers
    PROVE  /\ Filed(w) \in Seq(Entry) /\ Taken(w) \in Seq(Entry) /\ Waiting(w) \in Seq(Entry)
           /\ Open(w) \in Seq(Entry)
           /\ logfile[LoggerOf[w]] \in Seq(Entry)
           /\ LogSetsOf(buf, batch[LoggerOf[w]]) \in Seq(Entry)
           /\ LogSetsOf(buf, queue[LoggerOf[w]]) \in Seq(Entry)
<1> DEFINE l == LoggerOf[w]
<1>1. /\ l \in Loggers /\ buf \in [Buffers -> BufferType] /\ logfile[l] \in Seq(Entry)
      /\ batch[l] \in Seq(Buffers) /\ queue[l] \in Seq(Buffers)
      /\ current_buffer[w] \in Buffers \cup {NULL}
  BY Domains DEF TypeOK, BufferType
<1> HIDE DEF l
<1>2. LogSetsOf(buf, batch[l]) \in Seq(Entry) /\ LogSetsOf(buf, queue[l]) \in Seq(Entry)
  BY <1>1, LogSetsFacts
<1>3. \A s \in Seq(Entry) : Of(w, s) \in Seq(Entry)
  BY OfFacts
<1>4. Open(w) \in Seq(Entry)
  <2>1. <<>> \in Seq(Entry) /\ \A b \in Buffers : buf[b].log_set \in Seq(Entry)
    BY <1>1 DEF BufferType
  <2> QED BY <1>1, <2>1 DEF Open
<1> QED BY <1>1, <1>2, <1>3, <1>4 DEF Filed, Taken, Waiting, l

LEMMA CatFacts ==
    ASSUME NEW r \in Seq(Entry), NEW s \in Seq(Entry), NEW t \in Seq(Entry)
    PROVE  /\ Cat(r, s) \in Seq(Entry) /\ Cat(Cat(r, s), t) = Cat(r, Cat(s, t))
           /\ Cat(<<>>, r) = r /\ Cat(r, <<>>) = r
<1>1. r \o s \in Seq(Entry) /\ s \o t \in Seq(Entry)
  BY ConcatProperties, Zenon
<1>2. (r \o s) \o t = r \o (s \o t)
  BY ConcatAssociative
<1>3. <<>> \o r = r /\ r \o <<>> = r
  BY ConcatEmptySeq, Zenon
<1> QED BY <1>1, <1>2, <1>3 DEF Cat

LEMMA CatAssociates ==
    ASSUME NEW r, NEW s, NEW t, r \in Seq(Entry), s \in Seq(Entry), t \in Seq(Entry)
    PROVE  Cat(Cat(r, s), t) = Cat(r, Cat(s, t))
BY CatFacts

\* LogInOrder, part by part.
LEMMA InParts ==
    ASSUME NEW w, NEW f, NEW a, NEW q, NEW o,
           f \in Seq(Entry), a \in Seq(Entry), q \in Seq(Entry), o \in Seq(Entry)
    PROVE  Cat(Of(w, Cat(Cat(f, a), q)), o) = Cat(Of(w, f), Cat(Of(w, a), Cat(Of(w, q), o)))
<1>1. Cat(f, a) \in Seq(Entry)
  BY CatFacts
<1>2. \A s, t \in Seq(Entry) : Of(w, Cat(s, t)) = Cat(Of(w, s), Of(w, t)) /\ Of(w, s) \in Seq(Entry)
  BY OfFacts DEF Cat
<1>3. Of(w, Cat(Cat(f, a), q)) = Cat(Cat(Of(w, f), Of(w, a)), Of(w, q))
  BY <1>1, <1>2, Zenon
<1>5. PICK x, y, z : x = Of(w, f) /\ y = Of(w, a) /\ z = Of(w, q)
  OBVIOUS
<1>6. x \in Seq(Entry) /\ y \in Seq(Entry) /\ z \in Seq(Entry)
  BY <1>2, <1>5, Zenon
<1>7. Cat(x, y) \in Seq(Entry) /\ Cat(z, o) \in Seq(Entry)
  BY <1>6, CatFacts, Zenon
<1>8. Cat(Cat(Cat(x, y), z), o) = Cat(Cat(x, y), Cat(z, o))
  BY <1>6, <1>7, CatAssociates
<1>9. Cat(Cat(x, y), Cat(z, o)) = Cat(x, Cat(y, Cat(z, o)))
  BY <1>6, <1>7, CatAssociates
<1> QED BY <1>3, <1>5, <1>8, <1>9, Zenon

LEMMA EntriesFacts ==
    ASSUME NEW w \in Workers, NEW n \in Nat, NEW e \in Nat, NEW k \in Nat
    PROVE  /\ Entries(w, n, e, k) \in Seq(Entry)
           /\ \A i \in DOMAIN Entries(w, n, e, k) : Entries(w, n, e, k)[i].worker = w
           /\ k = 0 => Entries(w, n, e, k) = <<>>
<1> DEFINE s == Entries(w, n, e, k)
<1>1. s = [i \in 1 .. k |-> [worker |-> w, tx |-> n, elem |-> i, epoch |-> e]]
  BY DEF Entries
<1>2. \A i \in 1 .. k : [worker |-> w, tx |-> n, elem |-> i, epoch |-> e] \in Entry
  BY DEF Entry
<1>3. s \in [1 .. k -> Entry] /\ \A i \in 1 .. k : s[i].worker = w
  BY <1>1, <1>2
<1> HIDE DEF s
<1>4. s \in Seq(Entry) /\ DOMAIN s = 1 .. k
  BY <1>3
<1>5. k = 0 => s = <<>>
  BY <1>3, <1>4
<1> QED BY <1>3, <1>4, <1>5 DEF s

\* The current buffer of a worker, and what is nowhere else.
LEMMA CurrentFacts ==
    ASSUME IInv, NEW w \in Workers, current_buffer[w] # NULL
    PROVE  /\ current_buffer[w] \in Buffers /\ current_buffer[w][1] = w
           /\ IsCurrent(current_buffer[w])
           /\ \A l \in Loggers : current_buffer[w] \notin Range(queue[l]) \cup Range(batch[l])
           /\ \A x \in Workers : x # w => current_buffer[x] # current_buffer[w]
<1> DEFINE b == current_buffer[w]
<1>1. b \in Buffers /\ b[1] = w
  BY PlaceTypes DEF Owned
<1>2. IsCurrent(b)
  BY <1>1 DEF IsCurrent
<1>3. ASSUME NEW l \in Loggers PROVE b \notin Range(queue[l]) \cup Range(batch[l])
  <2>1. b \in Range(queue[l]) \cup Range(batch[l]) => LoggerOf[b[1]] = l
    BY PlaceTypes DEF Owned
  <2> QED BY <1>1, <1>2, <2>1, PlaceTypes DEF OnePlace, IsQueued, IsTaken
<1>4. \A x \in Workers : x # w => current_buffer[x] # b
  BY <1>1, PlaceTypes DEF Owned
<1> QED BY <1>1, <1>2, <1>3, <1>4

LEMMA RecordStep ==
    ASSUME IInv, RecordInv, [Next]_vars
    PROVE  RecordInv'
<1>1. ASSUME NEW w \in Workers, Push(w), NEW c \in Buffers
      PROVE  /\ \A i \in DOMAIN buf'[c].log_set : buf'[c].log_set[i].worker = c[1]
             /\ IsEmpty(c)' \/ buf'[c].min <= CTIDW'[c[1]]
  <2> DEFINE b == current_buffer[w]
             e == ThLocalEpoch[w]
  <2>1. /\ IsOf(b, e)' /\ b \in Buffers /\ b[1] = w /\ CTIDW'[w] = e /\ e \in 1 .. MaxEpoch
        /\ \A x \in Buffers : x # b => UNCHANGED buf[x]
        /\ \A x \in Workers : x # w => UNCHANGED CTIDW[x]
        /\ UNCHANGED <<current_buffer, ThLocalEpoch>>
    BY <1>1, PushContent
  <2>2. b' = b /\ e' = e
    BY <2>1
  <2>3. /\ CTIDW \in [Workers -> 0 .. MaxEpoch] /\ buf[c].min \in Nat /\ MaxEpoch \in Nat
        /\ CTIDW[w] <= e
    BY ContentTypes, Domains DEF IInv, EpochInv
  <2>4. CASE c = b
    <3>1. buf'[c].min = e
      BY <2>1, <2>2, <2>4 DEF IsOf
    <3>2. buf'[c].log_set = buf[c].log_set \o Entries(w, Len(txs[w]) + 1, e, size[w])
      BY <1>1, <2>4, ContentTypes DEF Push
    <3>3. /\ Len(txs[w]) + 1 \in Nat /\ size[w] \in Nat /\ e \in Nat
          /\ buf[c].log_set \in Seq(Entry)
      <4>1. txs[w] \in Seq([epoch : 1 .. MaxEpoch, size : Sizes])
        BY DEF IInv, TypeOK
      <4>2. Len(txs[w]) + 1 \in Nat
        BY <4>1
      <4>3. size[w] \in Nat /\ buf[c].log_set \in Seq(Entry)
        BY ContentTypes, Domains
      <4> QED BY <2>1, <4>2, <4>3, Domains
    <3> DEFINE s == Entries(w, Len(txs[w]) + 1, e, size[w])
               r == buf[c].log_set
    <3>4. s \in Seq(Entry) /\ \A i \in DOMAIN s : s[i].worker = w
      <4> DEFINE n == Len(txs[w]) + 1
                 k == size[w]
      <4>1. n \in Nat /\ k \in Nat /\ e \in Nat
        BY <3>3
      <4> HIDE DEF n, k, e
      <4>2. /\ Entries(w, n, e, k) \in Seq(Entry)
            /\ \A i \in DOMAIN Entries(w, n, e, k) : Entries(w, n, e, k)[i].worker = w
        BY <4>1, EntriesFacts
      <4> QED BY <4>2 DEF n, k
    <3>5. r \in Seq(Entry) /\ \A i \in DOMAIN r : r[i].worker = w
      BY <2>1, <2>4, <3>3 DEF RecordInv
    <3>6. buf'[c].log_set = r \o s
      BY <3>2
    <3> HIDE DEF r, s
    <3>7. \A i \in DOMAIN (r \o s) : (r \o s)[i].worker = w
      <4>1. /\ DOMAIN (r \o s) = 1 .. Len(r) + Len(s) /\ DOMAIN r = 1 .. Len(r) /\ DOMAIN s = 1 .. Len(s)
            /\ Len(r) \in Nat /\ Len(s) \in Nat
            /\ \A i \in 1 .. Len(r) + Len(s) : (r \o s)[i] = IF i <= Len(r) THEN r[i] ELSE s[i - Len(r)]
        BY <3>4, <3>5
      <4>2. ASSUME NEW i \in 1 .. Len(r) + Len(s) PROVE (r \o s)[i].worker = w
        <5>1. CASE i <= Len(r)
          BY <3>5, <4>1, <5>1
        <5>2. CASE ~ (i <= Len(r))
          <6>1. i - Len(r) \in 1 .. Len(s)
            BY <4>1, <5>2
          <6> QED BY <3>4, <4>1, <5>2, <6>1
        <5> QED BY <5>1, <5>2
      <4> QED BY <4>1, <4>2
    <3> QED BY <2>1, <2>3, <2>4, <3>1, <3>6, <3>7
  <2>5. CASE c # b
    <3>1. UNCHANGED buf[c] /\ c[1] \in Workers
      BY <2>1, <2>5, Domains
    <3>2. IsEmpty(c)' <=> IsEmpty(c)
      BY <3>1 DEF IsEmpty
    <3>3. CTIDW[c[1]] <= CTIDW'[c[1]] /\ CTIDW[c[1]] \in Nat /\ CTIDW'[c[1]] \in Nat
      <4>1. CASE c[1] = w
        BY <2>1, <2>3, <4>1
      <4>2. CASE c[1] # w
        BY <2>1, <2>3, <3>1, <4>2
      <4> QED BY <4>1, <4>2
    <3>4. buf'[c] = buf[c]
      BY <3>1
    <3>5. IsEmpty(c) \/ buf[c].min <= CTIDW[c[1]]
      BY DEF RecordInv
    <3>6. \A i \in DOMAIN buf[c].log_set : buf[c].log_set[i].worker = c[1]
      BY DEF RecordInv
    <3> HIDE DEF b, e
    <3> QED BY <2>3, <3>2, <3>3, <3>4, <3>5, <3>6
  <2> QED BY <2>4, <2>5
<1>2. ASSUME NEW l \in Loggers, WriteMoves(l), UNCHANGED CTIDW, NEW c \in Buffers
      PROVE  /\ \A i \in DOMAIN buf'[c].log_set : buf'[c].log_set[i].worker = c[1]
             /\ IsEmpty(c)' \/ buf'[c].min <= CTIDW'[c[1]]
  <2>1. PICK b \in Buffers : buf' = [buf EXCEPT ![b] = Written(b)]
    BY <1>2 DEF WriteMoves
  <2>2. CASE c = b
    <3>1. buf'[c] = Written(c)
      BY <2>1, <2>2, ContentTypes
    <3>2. Written(c).log_set = <<>> /\ Written(c).min = Unset /\ Written(c).max = 0
      BY WrittenFacts DEF IInv
    <3>3. IsEmpty(c)'
      BY <3>1, <3>2 DEF IsEmpty, Unset
    <3> QED BY <3>1, <3>2, <3>3
  <2>3. CASE c # b
    <3>1. buf'[c] = buf[c]
      BY <2>1, <2>3, ContentTypes
    <3>2. IsEmpty(c)' <=> IsEmpty(c)
      BY <3>1 DEF IsEmpty
    <3> QED BY <1>2, <3>1, <3>2 DEF RecordInv
  <2> QED BY <2>2, <2>3
<1>3. ASSUME UNCHANGED <<buf, CTIDW>> PROVE RecordInv'
  BY <1>3 DEF RecordInv, IsEmpty
<1> QED BY <1>1, <1>2, <1>3, ContentCases DEF RecordInv

Transaction == [epoch : 1 .. MaxEpoch, size : Sizes]

RecordsOf(w, s) == [n \in DOMAIN s |-> Entries(w, n, s[n].epoch, s[n].size)]

\* Committed, of any list of transactions.
CommittedOf(w, s) == FlattenSeq(RecordsOf(w, s))

LEMMA RecordsFacts ==
    ASSUME NEW w \in Workers, NEW s \in Seq(Transaction)
    PROVE  /\ RecordsOf(w, s) \in Seq(Seq(Entry)) /\ Len(RecordsOf(w, s)) = Len(s) /\ Len(s) \in Nat
           /\ \A n \in 1 .. Len(s) : RecordsOf(w, s)[n] = Entries(w, n, s[n].epoch, s[n].size)
<1>1. Len(s) \in Nat /\ DOMAIN s = 1 .. Len(s) /\ \A n \in 1 .. Len(s) : s[n] \in Transaction
  OBVIOUS
<1> DEFINE m == RecordsOf(w, s)
           T == Seq(Entry)
<1>2. m = [n \in 1 .. Len(s) |-> Entries(w, n, s[n].epoch, s[n].size)]
  BY <1>1 DEF RecordsOf
<1>3. ASSUME NEW n \in 1 .. Len(s) PROVE Entries(w, n, s[n].epoch, s[n].size) \in T
  <2>1. n \in Nat /\ s[n].epoch \in Nat /\ s[n].size \in Nat
    BY <1>1, Domains DEF Transaction
  <2> QED BY <2>1, EntriesFacts
<1> HIDE DEF m, T
<1>4. m \in [1 .. Len(s) -> T]
  BY <1>2, <1>3
<1>5. m \in Seq(T) /\ Len(m) = Len(s)
  BY <1>1, <1>4
<1> QED BY <1>1, <1>2, <1>5 DEF m, T

LEMMA CommittedFacts ==
    ASSUME NEW w \in Workers, NEW s \in Seq(Transaction), NEW r \in Transaction
    PROVE  /\ CommittedOf(w, s) \in Seq(Entry) /\ CommittedOf(w, <<>>) = <<>>
           /\ CommittedOf(w, Append(s, r)) =
                Cat(CommittedOf(w, s), Entries(w, Len(s) + 1, r.epoch, r.size))
<1> DEFINE a == RecordsOf(w, s)
           e == Entries(w, Len(s) + 1, r.epoch, r.size)
           b == RecordsOf(w, Append(s, r))
           T == Seq(Entry)
<1>1. /\ a \in Seq(T) /\ Len(a) = Len(s) /\ Len(s) \in Nat
      /\ \A n \in 1 .. Len(s) : a[n] = Entries(w, n, s[n].epoch, s[n].size)
  BY RecordsFacts
<1>2. /\ Append(s, r) \in Seq(Transaction) /\ Len(Append(s, r)) = Len(s) + 1
      /\ Append(s, r)[Len(s) + 1] = r /\ \A n \in 1 .. Len(s) : Append(s, r)[n] = s[n]
  OBVIOUS
<1>3. /\ b \in Seq(T) /\ Len(b) = Len(s) + 1
      /\ \A n \in 1 .. Len(s) + 1 :
           b[n] = Entries(w, n, Append(s, r)[n].epoch, Append(s, r)[n].size)
  BY <1>2, RecordsFacts
<1>4. e \in T
  <2>1. Len(s) + 1 \in Nat /\ r.epoch \in Nat /\ r.size \in Nat
    BY <1>1, Domains DEF Transaction
  <2> QED BY <2>1, EntriesFacts
<1>5. b[Len(s) + 1] = e /\ \A n \in 1 .. Len(s) : b[n] = a[n]
  <2>1. Len(s) + 1 \in 1 .. Len(s) + 1 /\ \A n \in 1 .. Len(s) : n \in 1 .. Len(s) + 1
    BY <1>1
  <2> QED BY <1>1, <1>2, <1>3, <2>1
<1>6. CommittedOf(w, s) = FlattenSeq(a) /\ CommittedOf(w, Append(s, r)) = FlattenSeq(b)
  BY DEF CommittedOf
<1>7. RecordsOf(w, <<>>) = <<>>
  BY DEF RecordsOf
<1>8. FlattenSeq(<<>>) = <<>> /\ FlattenSeq(a) \in Seq(Entry) /\ FlattenSeq(Append(a, e)) = FlattenSeq(a) \o e
  BY <1>1, <1>4, FlattenAppend, Zenon
<1> HIDE DEF a, b, e, T
<1>9. Append(a, e) \in Seq(T) /\ Len(Append(a, e)) = Len(s) + 1
      /\ Append(a, e)[Len(s) + 1] = e /\ \A n \in 1 .. Len(s) : Append(a, e)[n] = a[n]
  <2>1. /\ Append(a, e) \in Seq(T) /\ Len(Append(a, e)) = Len(a) + 1
        /\ Append(a, e)[Len(a) + 1] = e /\ \A n \in 1 .. Len(a) : Append(a, e)[n] = a[n]
    <3>1. a \in Seq(T) /\ e \in T
      BY <1>1, <1>4
    <3> QED BY ONLY <3>1, AppendProperties
  <2> QED BY <1>1, <2>1
<1>10. b = Append(a, e)
  <2>1. \A n \in 1 .. Len(s) + 1 : n \in 1 .. Len(s) \/ n = Len(s) + 1
    BY <1>1
  <2>2. \A n \in 1 .. Len(b) : b[n] = Append(a, e)[n]
    BY <1>3, <1>5, <1>9, <2>1
  <2> QED BY <1>3, <1>9, <2>2, SeqEqual
<1>11. CommittedOf(w, Append(s, r)) = Cat(CommittedOf(w, s), e)
  BY <1>6, <1>8, <1>10, Zenon DEF Cat
<1>12. CommittedOf(w, <<>>) = <<>>
  BY <1>7, <1>8, Zenon DEF CommittedOf
<1> QED BY <1>6, <1>8, <1>11, <1>12 DEF e

LEMMA PushParts ==
    ASSUME IInv, RecordInv, NEW w \in Workers, Push(w)
    PROVE  \E e \in Seq(Entry) :
             /\ \A x \in Workers : Filed(x)' = Filed(x) /\ Taken(x)' = Taken(x) /\ Waiting(x)' = Waiting(x)
             /\ Open(w)' = Cat(Open(w), e) /\ Committed(w)' = Cat(Committed(w), e)
             /\ \A x \in Workers : x # w => Open(x)' = Open(x) /\ Committed(x)' = Committed(x)
<1>1. PICK b : b = current_buffer[w]
  OBVIOUS
<1>2. /\ b # NULL /\ UNCHANGED <<current_buffer, batch, queue, logfile>>
      /\ pc[w] = "push"
  BY <1>1 DEF Push, local
<1>3. /\ b \in Buffers /\ b[1] = w
      /\ \A l \in Loggers : b \notin Range(queue[l]) \cup Range(batch[l])
      /\ \A x \in Workers : x # w => current_buffer[x] # b
  BY <1>1, <1>2, CurrentFacts
<1>4. \A c \in Buffers : c # b => buf'[c] = buf[c]
  BY <1>1, PushContent
<1>5. ASSUME NEW x \in Workers
      PROVE  Filed(x)' = Filed(x) /\ Taken(x)' = Taken(x) /\ Waiting(x)' = Waiting(x)
  <2>1. LoggerOf[x] \in Loggers
    BY Domains
  <2>2. Range(queue[LoggerOf[x]]) \cup Range(batch[LoggerOf[x]]) \subseteq Buffers
    BY <2>1, PlaceTypes DEF Range
  <2>3. \A c \in Range(queue[LoggerOf[x]]) \cup Range(batch[LoggerOf[x]]) : buf'[c].log_set = buf[c].log_set
    BY <1>3, <1>4, <2>1, <2>2
  <2>4. LogSetsOf(buf', queue[LoggerOf[x]]) = LogSetsOf(buf, queue[LoggerOf[x]])
    BY <2>3, LogSetsSame
  <2>5. LogSetsOf(buf', batch[LoggerOf[x]]) = LogSetsOf(buf, batch[LoggerOf[x]])
    BY <2>3, LogSetsSame
  <2> QED BY <1>2, <2>4, <2>5 DEF Filed, Taken, Waiting
<1>6. ASSUME NEW x \in Workers, x # w PROVE Open(x)' = Open(x) /\ Committed(x)' = Committed(x)
  <2>1. current_buffer[x] = NULL \/ current_buffer[x] \in Buffers
    BY PlaceTypes
  <2>2. Open(x)' = Open(x)
    BY <1>2, <1>3, <1>4, <1>6, <2>1 DEF Open
  <2>3. txs'[x] = txs[x]
    <3>1. txs \in [Workers -> Seq(Transaction)]
      BY DEF IInv, TypeOK, Transaction
    <3> QED BY <1>6, <3>1 DEF Push
  <2> QED BY <2>2, <2>3 DEF Committed
<1> DEFINE e == Entries(w, Len(txs[w]) + 1, ThLocalEpoch[w], size[w])
<1>7. e \in Seq(Entry) /\ (size[w] = 0 => e = <<>>)
  <2>1. PICK n, k, t : n = Len(txs[w]) + 1 /\ k = size[w] /\ t = ThLocalEpoch[w]
    OBVIOUS
  <2>2. n \in Nat /\ k \in Nat /\ t \in Nat
    <3>1. txs[w] \in Seq([epoch : 1 .. MaxEpoch, size : Sizes])
      BY DEF IInv, TypeOK
    <3>2. Len(txs[w]) + 1 \in Nat
      BY <3>1
    <3> QED BY <2>1, <3>2, ContentTypes, Domains
  <2>3. Entries(w, n, t, k) \in Seq(Entry) /\ (k = 0 => Entries(w, n, t, k) = <<>>)
    BY <2>2, EntriesFacts
  <2> QED BY <2>1, <2>3
<1>8. Open(w)' = Cat(Open(w), e)
  <2>1. buf'[b].log_set = buf[b].log_set \o e
    BY <1>1, <1>3, ContentTypes DEF Push
  <2> HIDE DEF e
  <2>2. Open(w)' = buf'[b].log_set /\ Open(w) = buf[b].log_set
    BY <1>1, <1>2 DEF Open
  <2> QED BY <2>1, <2>2, Zenon DEF Cat
<1>9. Committed(w)' = Cat(Committed(w), e)
  <2>1. txs[w] \in Seq(Transaction) /\ txs \in [Workers -> Seq(Transaction)]
    BY DEF IInv, TypeOK, Transaction
  <2>2. Committed(w) = CommittedOf(w, txs[w]) /\ Committed(w)' = CommittedOf(w, txs'[w])
    BY DEF Committed, CommittedOf, RecordsOf
  <2>3. <<>> \in Seq(Transaction) /\ [epoch |-> 1, size |-> 0] = [epoch |-> 1, size |-> 0]
    OBVIOUS
  <2>4. CASE size[w] = 0
    <3>1. txs' = txs /\ e = <<>>
      BY <1>7, <2>4 DEF Push
    <3>2. Committed(w) \in Seq(Entry)
      <4>1. RecordsOf(w, txs[w]) \in Seq(Seq(Entry))
        BY <2>1, RecordsFacts
      <4>2. FlattenSeq(RecordsOf(w, txs[w])) \in Seq(Entry)
        BY <1>7, <4>1, FlattenAppend, Zenon
      <4> QED BY <2>2, <4>2 DEF CommittedOf
    <3>3. Cat(Committed(w), <<>>) = Committed(w)
      BY <3>2, CatFacts, Zenon
    <3> QED BY <2>2, <3>1, <3>3
  <2>5. CASE size[w] # 0
    <3> DEFINE r == [epoch |-> ThLocalEpoch[w], size |-> size[w]]
    <3>1. txs'[w] = Append(txs[w], r)
      BY <2>1, <2>5 DEF Push
    <3>2. r \in Transaction
      <4>1. ThLocalEpoch[w] \in 1 .. MaxEpoch
        BY <1>2, ContentTypes, Domains DEF IInv, EpochInv
      <4>2. size[w] \in Sizes
        BY <2>5, ContentTypes
      <4> QED BY <4>1, <4>2 DEF Transaction
    <3>3. r.epoch = ThLocalEpoch[w] /\ r.size = size[w]
      OBVIOUS
    <3> HIDE DEF r
    <3>4. CommittedOf(w, Append(txs[w], r)) =
            Cat(CommittedOf(w, txs[w]), Entries(w, Len(txs[w]) + 1, r.epoch, r.size))
      BY <2>1, <3>2, CommittedFacts, Zenon
    <3> QED BY <2>2, <3>1, <3>3, <3>4
  <2> QED BY <2>4, <2>5
<1> HIDE DEF e
<1> QED BY <1>5, <1>6, <1>7, <1>8, <1>9

\* The records of a buffer are its worker's.
LEMMA BufferRecords ==
    ASSUME IInv, RecordInv, NEW b \in Buffers, NEW x \in Workers
    PROVE  /\ buf[b].log_set \in Seq(Entry)
           /\ Of(x, buf[b].log_set) = IF x = b[1] THEN buf[b].log_set ELSE <<>>
<1>1. buf[b].log_set \in Seq(Entry) /\ \A i \in DOMAIN buf[b].log_set : buf[b].log_set[i].worker = b[1]
  BY ContentTypes DEF RecordInv
<1> QED BY <1>1, OfAll

\* enq puts a buffer in front of those of a later epoch.
LEMMA EnqParts ==
    ASSUME NEW q \in Seq(Buffers), NEW b \in Buffers,
           \A c \in Buffers : buf[c].min \in Nat,
           \A i, j \in DOMAIN q : i <= j => buf[q[i]].min <= buf[q[j]].min
    PROVE  \E r, s \in Seq(Buffers) :
             /\ q = r \o s /\ enq(q, b) = (r \o <<b>>) \o s
             /\ \A c \in Range(s) : c \in Range(q) /\ buf[c].min > buf[b].min
<1> DEFINE D == {i \in DOMAIN q : buf[q[i]].min <= buf[b].min}
           k == Cardinality(D)
           r == SubSeq(q, 1, k)
           s == SubSeq(q, k + 1, Len(q))
<1>1. /\ Len(q) \in Nat /\ DOMAIN q = 1 .. Len(q) /\ \A i \in 1 .. Len(q) : q[i] \in Buffers
      /\ buf[b].min \in Nat /\ \A i \in 1 .. Len(q) : buf[q[i]].min \in Nat
  OBVIOUS
<1>2. k \in 0 .. Len(q) /\ D = 1 .. k
  <2>1. D \subseteq 1 .. Len(q)
    BY <1>1
  <2>2. \A i \in D : \A j \in 1 .. Len(q) : j <= i => j \in D
    BY <1>1
  <2> HIDE DEF D
  <2> QED BY <1>1, <2>1, <2>2, InitialSegment
<1>3. \A i \in 1 .. Len(q) : i > k => buf[q[i]].min > buf[b].min
  <2>1. \A i \in 1 .. Len(q) : i > k => i \notin D
    BY <1>2
  <2> QED BY <1>1, <2>1
<1>4. enq(q, b) = SubSeq(q, 1, (k + 1) - 1) \o <<b>> \o SubSeq(q, k + 1, Len(q))
  BY DEF enq, InsertAt
<1> HIDE DEF k, D
<1>5. k \in Nat /\ k <= Len(q) /\ (k + 1) - 1 = k
  BY <1>1, <1>2
<1>6. enq(q, b) = (r \o <<b>>) \o s
  BY <1>4, <1>5
<1>7. /\ r \in Seq(Buffers) /\ s \in Seq(Buffers) /\ Len(r) = k /\ Len(s) = Len(q) - k
      /\ \A i \in 1 .. k : r[i] = q[i]
      /\ \A i \in 1 .. Len(q) - k : s[i] = q[k + i]
  <2>1. r \in Seq(Buffers) /\ Len(r) = k /\ \A i \in 1 .. k : r[i] = q[i]
    BY <1>1, <1>5
  <2>2. /\ k + 1 \in 1 .. Len(q) + 1 /\ s \in Seq(Buffers) /\ Len(s) = Len(q) - k
        /\ \A i \in 1 .. Len(q) - k : s[i] = q[k + 1 + i - 1]
    <3>0. PICK m, n : m = k + 1 /\ n = Len(q)
      OBVIOUS
    <3>1. m \in Nat /\ n \in Nat /\ m <= n + 1 /\ n - m + 1 = Len(q) - k
      BY <1>1, <1>5, <3>0
    <3>2. \A i \in m .. n : q[i] \in Buffers
      <4>1. \A i \in m .. n : i \in 1 .. Len(q)
        BY <1>1, <1>5, <3>0, <3>1
      <4> QED BY <1>1, <4>1
    <3>3. /\ SubSeq(q, m, n) \in Seq(Buffers)
          /\ Len(SubSeq(q, m, n)) = IF m <= n THEN n - m + 1 ELSE 0
          /\ \A i \in 1 .. n - m + 1 : SubSeq(q, m, n)[i] = q[m + i - 1]
      <4>1. m \in Int /\ n \in Int
        BY <3>1
      <4> QED BY ONLY <3>2, <4>1, SubSeqProperties
    <3>4. s = SubSeq(q, m, n)
      BY <3>0
    <3>5. k + 1 \in 1 .. Len(q) + 1
      BY <1>1, <1>5
    <3>6. Len(SubSeq(q, m, n)) = Len(q) - k
      BY <3>1, <3>3
    <3> HIDE DEF s
    <3>7. \A i \in 1 .. Len(q) - k : s[i] = q[m + i - 1]
      BY <3>1, <3>3, <3>4
    <3> QED BY <3>0, <3>3, <3>4, <3>5, <3>6, <3>7
  <2>3. \A i \in 1 .. Len(q) - k : k + 1 + i - 1 = k + i
    BY <1>1, <1>5
  <2> HIDE DEF r, s
  <2> QED BY <2>1, <2>2, <2>3
<1> HIDE DEF r, s
<1>8. q = r \o s
  <2>1. /\ r \o s \in Seq(Buffers) /\ Len(r \o s) = Len(q)
        /\ \A i \in 1 .. Len(q) : (r \o s)[i] = IF i <= k THEN r[i] ELSE s[i - k]
    <3>1. /\ r \o s \in Seq(Buffers) /\ Len(r \o s) = Len(r) + Len(s)
          /\ \A i \in 1 .. Len(r) + Len(s) : (r \o s)[i] = IF i <= Len(r) THEN r[i] ELSE s[i - Len(r)]
      BY <1>7, ConcatProperties, Zenon
    <3>2. Len(r) + Len(s) = Len(q)
      BY <1>1, <1>5, <1>7
    <3> QED BY <1>7, <3>1, <3>2
  <2>2. \A i \in 1 .. Len(q) : (r \o s)[i] = q[i]
    BY <1>1, <1>5, <1>7, <2>1
  <2> QED BY <2>1, <2>2, SeqEqual
<1>9. ASSUME NEW c \in Range(s) PROVE c \in Range(q) /\ buf[c].min > buf[b].min
  <2>1. PICK i \in 1 .. Len(q) - k : c = s[i]
    BY <1>1, <1>5, <1>7 DEF Range
  <2>2. k + i \in 1 .. Len(q) /\ k + i > k /\ c = q[k + i]
    BY <1>1, <1>5, <1>7, <2>1
  <2> QED BY <1>1, <1>3, <2>2 DEF Range
<1> QED BY <1>6, <1>7, <1>8, <1>9

\* A worker's current buffer is queued behind all that it has in the queue.
LEMMA EnqRecords ==
    ASSUME IInv, RecordInv, NEW w \in Workers, NEW b \in Buffers, b[1] = w, IsCurrent(b), NEW x \in Workers
    PROVE  Of(x, LogSetsOf(buf, enq(queue[LoggerOf[w]], b))) =
             IF x = w THEN Cat(Of(x, LogSetsOf(buf, queue[LoggerOf[w]])), buf[b].log_set)
             ELSE Of(x, LogSetsOf(buf, queue[LoggerOf[w]]))
<1>1. PICK q : q = queue[LoggerOf[w]]
  OBVIOUS
<1>2. /\ q \in Seq(Buffers) /\ \A c \in Buffers : buf[c].min \in Nat
      /\ \A i, j \in DOMAIN q : i <= j => buf[q[i]].min <= buf[q[j]].min
  BY <1>1, QueueFacts, Domains
<1>3. PICK r \in Seq(Buffers), s \in Seq(Buffers) :
        /\ q = r \o s /\ enq(q, b) = (r \o <<b>>) \o s
        /\ \A c \in Range(s) : c \in Range(q) /\ buf[c].min > buf[b].min
  BY <1>2, EnqParts, Zenon
<1>4. buf \in [Buffers -> BufferType]
  BY ContentTypes
<1>5. PICK e, a, c : e = buf[b].log_set /\ a = LogSetsOf(buf, r) /\ c = LogSetsOf(buf, s)
  OBVIOUS
<1>6. /\ a \in Seq(Entry) /\ c \in Seq(Entry) /\ e \in Seq(Entry)
      /\ LogSetsOf(buf, q) = Cat(a, c) /\ LogSetsOf(buf, enq(q, b)) = Cat(Cat(a, e), c)
  <2>1. <<b>> \in Seq(Buffers)
    OBVIOUS
  <2>2. r \o <<b>> \in Seq(Buffers)
    BY <2>1, ConcatProperties, Zenon
  <2>3. LogSetsOf(buf, r) \in Seq(Entry) /\ LogSetsOf(buf, s) \in Seq(Entry)
        /\ LogSetsOf(buf, r \o s) = LogSetsOf(buf, r) \o LogSetsOf(buf, s)
    BY <1>4, LogSetsFacts, Zenon
  <2>4. LogSetsOf(buf, r \o <<b>>) = LogSetsOf(buf, r) \o LogSetsOf(buf, <<b>>)
    BY <1>4, <2>1, LogSetsFacts, Zenon
  <2>5. LogSetsOf(buf, (r \o <<b>>) \o s) = LogSetsOf(buf, r \o <<b>>) \o LogSetsOf(buf, s)
    BY <1>4, <2>2, LogSetsFacts, Zenon
  <2>6. LogSetsOf(buf, <<b>>) = e /\ e \in Seq(Entry)
    BY <1>4, <1>5, LogSetsOne
  <2> QED BY <1>3, <1>5, <2>3, <2>4, <2>5, <2>6, Zenon DEF Cat
<1>7. PICK oa, oe, oc : oa = Of(x, a) /\ oe = Of(x, e) /\ oc = Of(x, c)
  OBVIOUS
<1>8. /\ oa \in Seq(Entry) /\ oe \in Seq(Entry) /\ oc \in Seq(Entry)
      /\ Of(x, LogSetsOf(buf, q)) = Cat(oa, oc)
      /\ Of(x, LogSetsOf(buf, enq(q, b))) = Cat(Cat(oa, oe), oc)
  <2>1. \A y, z \in Seq(Entry) : Of(x, Cat(y, z)) = Cat(Of(x, y), Of(x, z)) /\ Of(x, y) \in Seq(Entry)
    BY OfFacts DEF Cat
  <2>2. Cat(a, e) \in Seq(Entry)
    BY <1>6, CatFacts, Zenon
  <2>3. Of(x, a) \in Seq(Entry) /\ Of(x, e) \in Seq(Entry) /\ Of(x, c) \in Seq(Entry)
    BY <1>6, <2>1, Zenon
  <2>4. Of(x, Cat(a, c)) = Cat(Of(x, a), Of(x, c)) /\ Of(x, Cat(a, e)) = Cat(Of(x, a), Of(x, e))
    BY <1>6, <2>1, Zenon
  <2>5. Of(x, Cat(Cat(a, e), c)) = Cat(Of(x, Cat(a, e)), Of(x, c))
    BY <1>6, <2>1, <2>2, Zenon
  <2> QED BY <1>6, <1>7, <2>3, <2>4, <2>5, Zenon
<1>9. oe = IF x = w THEN e ELSE <<>>
  BY <1>5, <1>7, BufferRecords
<1>10. CASE oe = <<>>
  <2>1. Cat(oa, oe) = oa
    BY <1>8, <1>10, CatFacts, Zenon
  <2>2. x = w => e = <<>>
    BY <1>9, <1>10
  <2>3. Cat(oa, oc) \in Seq(Entry)
    BY <1>8, CatFacts, Zenon
  <2>4. Cat(Cat(oa, oc), <<>>) = Cat(oa, oc)
    BY <2>3, CatFacts, Zenon
  <2> QED BY <1>1, <1>5, <1>8, <2>1, <2>2, <2>4, Zenon
<1>11. CASE oe # <<>>
  <2>1. x = w /\ e # <<>> /\ oe = e
    BY <1>9, <1>11
  <2>2. IsOf(b, CTIDW[w])
    <3>1. IsEmpty(b) \/ IsOf(b, CTIDW[b[1]])
      BY DEF IInv, ContentInv
    <3> QED BY <1>5, <2>1, <3>1 DEF IsEmpty
  <2>3. ASSUME NEW d \in Range(s) PROVE Of(x, buf[d].log_set) = <<>>
    <3>1. d \in Buffers /\ buf[d].min > buf[b].min
      <4>1. Range(q) \subseteq Buffers
        BY <1>2 DEF Range
      <4> QED BY <1>3, <4>1, Zenon
    <3>2. CASE d[1] = w
      <4>1. buf[b].min = CTIDW[w] /\ CTIDW[w] \in Nat /\ buf[d].min \in Nat
        BY <1>2, <2>2, <3>1, ContentTypes, Domains DEF IsOf
      <4>2. IsEmpty(d)
        BY <3>1, <3>2, <4>1 DEF RecordInv
      <4> QED BY <2>1, <3>1, <3>2, <4>2, BufferRecords DEF IsEmpty
    <3>3. CASE d[1] # w
      BY <2>1, <3>1, <3>3, BufferRecords
    <3> QED BY <3>2, <3>3
  <2>4. oc = <<>>
    <3>1. Of(x, LogSetsOf(buf, s)) = <<>>
      BY <1>4, <2>3, LogSetsNone, Zenon
    <3> QED BY <1>5, <1>7, <3>1
  <2>5. Cat(oa, <<>>) = oa /\ Cat(oa, oe) \in Seq(Entry)
    BY <1>8, CatFacts, Zenon
  <2>6. Cat(Cat(oa, oe), <<>>) = Cat(oa, oe)
    BY <2>5, CatFacts, Zenon
  <2> QED BY <1>1, <1>5, <1>8, <2>1, <2>4, <2>5, <2>6, Zenon
<1> QED BY <1>10, <1>11

-----------------------------------------------------------------------------
(* What a step does to the records.                                         *)

\* What a step may do to a worker's records: nothing,
Stays(x) == UNCHANGED <<Filed(x), Taken(x), Waiting(x), Open(x), Committed(x)>>

\* commit more of them,
Commits(x, e) ==
    /\ Open(x)' = Cat(Open(x), e) /\ Committed(x)' = Cat(Committed(x), e)
    /\ UNCHANGED <<Filed(x), Taken(x), Waiting(x)>>

\* queue the current buffer,
Queues(x) ==
    /\ Waiting(x)' = Cat(Waiting(x), Open(x)) /\ Open(x)' = <<>>
    /\ UNCHANGED <<Filed(x), Taken(x), Committed(x)>>

\* take the whole queue,
Takes(x) ==
    /\ Taken(x) = <<>> /\ Taken(x)' = Waiting(x) /\ Waiting(x)' = <<>>
    /\ UNCHANGED <<Filed(x), Open(x), Committed(x)>>

\* or write the first buffer of those taken.
Writes(x, e) ==
    /\ Filed(x)' = Cat(Filed(x), e) /\ Taken(x) = Cat(e, Taken(x)') /\ Taken(x)' \in Seq(Entry)
    /\ UNCHANGED <<Waiting(x), Open(x), Committed(x)>>

Others(w) == \A x \in Workers : x # w => Stays(x)

LEMMA PartsStay ==
    ASSUME UNCHANGED <<buf, logfile, batch, queue, current_buffer, txs>>, NEW x \in Workers
    PROVE  Stays(x)
BY DEF Stays, Filed, Taken, Waiting, Open, Committed

LEMMA PushStep ==
    ASSUME IInv, RecordInv, NEW w \in Workers, Push(w)
    PROVE  (\E e \in Seq(Entry) : Commits(w, e)) /\ Others(w)
<1>1. PICK e \in Seq(Entry) :
        /\ \A x \in Workers : Filed(x)' = Filed(x) /\ Taken(x)' = Taken(x) /\ Waiting(x)' = Waiting(x)
        /\ Open(w)' = Cat(Open(w), e) /\ Committed(w)' = Cat(Committed(w), e)
        /\ \A x \in Workers : x # w => Open(x)' = Open(x) /\ Committed(x)' = Committed(x)
  BY PushParts, Zenon
<1> QED BY <1>1 DEF Commits, Others, Stays

LEMMA PublishStep ==
    ASSUME IInv, RecordInv, NEW w \in Workers, Publish(w) \/ Terminate(w)
    PROVE  \/ \A x \in Workers : Stays(x)
           \/ Queues(w) /\ Others(w)
<1>1. UNCHANGED <<buf, logfile, batch, txs>>
  BY DEF Publish, Terminate, local
<1>2. PICK b : b = current_buffer[w]
  OBVIOUS
<1>3. b # NULL
  BY <1>2, PlaceTypes DEF Publish, Terminate, IInv, ReadyInv
<1>4. b \in Buffers /\ b[1] = w /\ IsCurrent(b)
  BY <1>2, <1>3, CurrentFacts
<1>5. PICK l : l = LoggerOf[w]
  OBVIOUS
<1>6. l \in Loggers /\ queue \in [Loggers -> Seq(Buffers)] /\ current_buffer \in [Workers -> Buffers \cup {NULL}]
  BY <1>5, Domains, PlaceTypes
<1>7. \/ UNCHANGED <<current_buffer, queue>>
      \/ /\ queue' = [queue EXCEPT ![l] = enq(queue[l], b)]
         /\ current_buffer' = [current_buffer EXCEPT ![w] = NULL]
  BY <1>2, <1>5 DEF Publish, Terminate, publish
<1>8. CASE UNCHANGED <<current_buffer, queue>>
  BY <1>1, <1>8, PartsStay
<1>9. CASE /\ queue' = [queue EXCEPT ![l] = enq(queue[l], b)]
           /\ current_buffer' = [current_buffer EXCEPT ![w] = NULL]
  <2>1. queue'[l] = enq(queue[l], b) /\ \A k \in Loggers : k # l => queue'[k] = queue[k]
    BY <1>6, <1>9
  <2>2. current_buffer'[w] = NULL /\ \A x \in Workers : x # w => current_buffer'[x] = current_buffer[x]
    BY <1>6, <1>9
  <2>3. \A x \in Workers : UNCHANGED <<Filed(x), Taken(x), Committed(x)>>
    BY <1>1 DEF Filed, Taken, Committed
  <2>4. Open(w)' = <<>> /\ Open(w) = buf[b].log_set
    BY <1>2, <1>3, <2>2 DEF Open
  <2>5. Waiting(w)' = Cat(Waiting(w), Open(w))
    <3>1. Waiting(w)' = Of(w, LogSetsOf(buf, enq(queue[l], b)))
      BY <1>1, <1>5, <2>1 DEF Waiting
    <3>2. Of(w, LogSetsOf(buf, enq(queue[LoggerOf[w]], b))) =
            Cat(Of(w, LogSetsOf(buf, queue[LoggerOf[w]])), buf[b].log_set)
      BY <1>4, EnqRecords
    <3> QED BY <1>5, <2>4, <3>1, <3>2 DEF Waiting
  <2>6. ASSUME NEW x \in Workers, x # w PROVE Stays(x)
    <3>1. Open(x)' = Open(x)
      BY <1>1, <2>2, <2>6 DEF Open
    <3>2. LoggerOf[x] \in Loggers
      BY Domains
    <3>3. CASE LoggerOf[x] = l
      <4>1. Waiting(x)' = Of(x, LogSetsOf(buf, enq(queue[l], b)))
        BY <1>1, <2>1, <3>3 DEF Waiting
      <4>2. Of(x, LogSetsOf(buf, enq(queue[LoggerOf[w]], b))) = Of(x, LogSetsOf(buf, queue[LoggerOf[w]]))
        BY <1>4, <2>6, EnqRecords
      <4>3. Waiting(x)' = Waiting(x)
        BY <1>5, <3>3, <4>1, <4>2 DEF Waiting
      <4> QED BY <2>3, <3>1, <4>3 DEF Stays
    <3>4. CASE LoggerOf[x] # l
      <4>1. Waiting(x)' = Waiting(x)
        BY <1>1, <2>1, <3>2, <3>4 DEF Waiting
      <4> QED BY <2>3, <3>1, <4>1 DEF Stays
    <3> QED BY <3>3, <3>4
  <2> QED BY <2>3, <2>4, <2>5, <2>6 DEF Queues, Others
<1> QED BY <1>7, <1>8, <1>9

LEMMA TakeStep ==
    ASSUME IInv, RecordInv, NEW w \in Workers, TakeBuffer(w), NEW x \in Workers
    PROVE  Stays(x)
<1>1. /\ UNCHANGED <<buf, logfile, batch, queue, txs>>
      /\ current_buffer[w] = NULL /\ pool[w] # <<>>
      /\ current_buffer' = [current_buffer EXCEPT ![w] = Last(pool[w])]
  BY DEF TakeBuffer, local
<1>2. PICK b : b = Last(pool[w])
  OBVIOUS
<1>3. b \in Buffers /\ b \in Range(pool[w]) /\ b[1] = w
  <2>1. pool[w] \in Seq(Buffers)
    BY PlaceTypes
  <2>2. b \in Buffers /\ b \in Range(pool[w])
    BY <1>1, <1>2, <2>1, FrontFacts
  <2> QED BY <2>2, PlaceTypes DEF Owned
<1>4. buf[b].log_set = <<>>
  BY <1>3 DEF IInv, ContentInv, IsPooled, IsEmpty
<1>5. b # NULL
  BY <1>3, Domains
<1>6. Open(x)' = Open(x)
  <2>1. current_buffer'[w] = b /\ \A y \in Workers : y # w => current_buffer'[y] = current_buffer[y]
    BY <1>1, <1>2, PlaceTypes
  <2>2. CASE x = w
    BY <1>1, <1>4, <1>5, <2>1, <2>2 DEF Open
  <2>3. CASE x # w
    BY <1>1, <2>1, <2>3 DEF Open
  <2> QED BY <2>2, <2>3
<1> QED BY <1>1, <1>6 DEF Stays, Filed, Taken, Waiting, Committed

LEMMA NoRecords ==
    ASSUME IInv, NEW x \in Workers
    PROVE  Of(x, LogSetsOf(buf, <<>>)) = <<>>
<1>1. <<>> \in Seq(Entry) /\ <<>> \in Seq(Buffers)
  OBVIOUS
<1>2. LogSetsOf(buf, <<>>) = <<>>
  BY <1>1, ContentTypes, LogSetsFacts, Zenon
<1>3. Of(x, <<>>) = <<>>
  BY <1>1, OfFacts, Zenon
<1> QED BY <1>2, <1>3

LEMMA DeqStep ==
    ASSUME IInv, RecordInv, NEW l \in Loggers, Deq(l), NEW x \in Workers
    PROVE  Takes(x) \/ Stays(x)
<1>1. /\ UNCHANGED <<buf, logfile, txs, current_buffer>>
      /\ batch' = [batch EXCEPT ![l] = queue[l]] /\ queue' = [queue EXCEPT ![l] = <<>>]
      /\ batch[l] = <<>>
  BY DEF Deq, work, IInv, LoggerInv
<1>2. LoggerOf[x] \in Loggers
  BY Domains
<1>3. UNCHANGED <<Filed(x), Open(x), Committed(x)>>
  BY <1>1 DEF Filed, Open, Committed
<1>4. CASE LoggerOf[x] = l
  <2>1. batch'[l] = queue[l] /\ queue'[l] = <<>>
    BY <1>1, <1>2, <1>4, PlaceTypes
  <2>2. Taken(x)' = Waiting(x)
    BY <1>1, <1>4, <2>1 DEF Taken, Waiting
  <2>3. Taken(x) = <<>>
    BY <1>1, <1>4, NoRecords DEF Taken
  <2>4. Waiting(x)' = <<>>
    <3>1. Waiting(x)' = Of(x, LogSetsOf(buf, <<>>))
      BY <1>1, <1>4, <2>1 DEF Waiting
    <3> QED BY <3>1, NoRecords
  <2> QED BY <1>3, <2>2, <2>3, <2>4 DEF Takes
<1>5. CASE LoggerOf[x] # l
  <2>1. batch'[LoggerOf[x]] = batch[LoggerOf[x]] /\ queue'[LoggerOf[x]] = queue[LoggerOf[x]]
    BY <1>1, <1>2, <1>5, PlaceTypes
  <2> QED BY <1>1, <1>3, <2>1 DEF Stays, Taken, Waiting
<1> QED BY <1>4, <1>5

LEMMA HeadAndTail ==
    ASSUME NEW q \in Seq(Buffers), q # <<>>
    PROVE  q = <<Head(q)>> \o Tail(q) /\ Head(q) \in Buffers /\ Tail(q) \in Seq(Buffers)
<1>1. /\ Tail(q) \in Seq(Buffers) /\ Len(q) \in Nat \ {0} /\ Head(q) = q[1] /\ q[1] \in Buffers
      /\ Len(Tail(q)) = Len(q) - 1
      /\ \A i \in 1 .. Len(q) - 1 : Tail(q)[i] = q[i + 1]
  OBVIOUS
<1>2. PICK h, t : h = <<Head(q)>> /\ t = Tail(q)
  OBVIOUS
<1>3. /\ h \in Seq(Buffers) /\ Len(h) = 1 /\ h[1] = q[1]
      /\ t \in Seq(Buffers) /\ Len(t) = Len(q) - 1 /\ \A i \in 1 .. Len(q) - 1 : t[i] = q[i + 1]
  BY <1>1, <1>2
<1>4. /\ h \o t \in Seq(Buffers) /\ Len(h \o t) = Len(h) + Len(t)
      /\ \A i \in 1 .. Len(h) + Len(t) : (h \o t)[i] = IF i <= Len(h) THEN h[i] ELSE t[i - Len(h)]
  <2>1. h \in Seq(Buffers) /\ t \in Seq(Buffers)
    BY <1>3
  <2> QED BY ONLY <2>1, ConcatProperties
<1>5. Len(h \o t) = Len(q)
  <2>1. Len(h) + Len(t) = Len(q)
    BY <1>1, <1>3
  <2> QED BY <1>4, <2>1
<1>6. ASSUME NEW i \in 1 .. Len(q) PROVE (h \o t)[i] = q[i]
  <2>1. CASE i = 1
    BY <1>1, <1>3, <1>4, <2>1
  <2>2. CASE i # 1
    <3>1. i - 1 \in 1 .. Len(q) - 1 /\ i - 1 + 1 = i /\ i \in 1 .. Len(h) + Len(t) /\ ~ (i <= Len(h))
      BY <1>1, <1>3, <2>2
    <3>2. (h \o t)[i] = t[i - 1]
      BY <1>3, <1>4, <3>1
    <3> QED BY <1>3, <3>1, <3>2
  <2> QED BY <2>1, <2>2
<1>7. q = h \o t
  BY <1>4, <1>5, <1>6, SeqEqual
<1> QED BY <1>1, <1>2, <1>7

LEMMA WriteStep ==
    ASSUME IInv, RecordInv, NEW l \in Loggers, WriteBuffer(l)
    PROVE  \E w \in Workers : \E e \in Seq(Entry) : LoggerOf[w] = l /\ Writes(w, e) /\ Others(w)
<1>1. PICK q, b, t : q = batch[l] /\ b = Head(q) /\ t = Tail(q)
  OBVIOUS
<1>2. /\ q # <<>> /\ q \in Seq(Buffers) /\ UNCHANGED <<queue, current_buffer, txs>>
      /\ logfile' = [logfile EXCEPT ![l] = logfile[l] \o buf[b].log_set]
      /\ buf' = [buf EXCEPT ![b] = Written(b)]
      /\ batch' = [batch EXCEPT ![l] = t]
  BY <1>1, PlaceTypes DEF WriteBuffer, work
<1>3. q = <<b>> \o t /\ b \in Buffers /\ t \in Seq(Buffers)
  BY <1>1, <1>2, HeadAndTail
<1>4. b \in Range(q) /\ b \notin Range(t) /\ Range(t) \subseteq Range(q)
  <2>1. IsInjective(q)
    BY <1>1, PlaceTypes DEF Owned
  <2>2. Head(q) \in Range(q) /\ Range(Tail(q)) = Range(q) \ {Head(q)}
    BY <1>2, <2>1, TailFacts
  <2> QED BY <1>1, <2>2
<1>5. PICK w : w = b[1]
  OBVIOUS
<1>6. w \in Workers /\ LoggerOf[w] = l /\ IsTaken(b)
  BY <1>1, <1>3, <1>4, <1>5, PlaceTypes, Domains DEF Owned, IsTaken
<1>7. PICK e : e = buf[b].log_set
  OBVIOUS
<1>8. e \in Seq(Entry)
  BY <1>3, <1>7, ContentTypes
<1>9. \A c \in Buffers : c # b => buf'[c] = buf[c]
  BY <1>2
<1>10. logfile'[l] = logfile[l] \o e /\ \A k \in Loggers : k # l => logfile'[k] = logfile[k]
  BY <1>2, <1>7 DEF IInv, TypeOK
<1>11. batch'[l] = t /\ \A k \in Loggers : k # l => batch'[k] = batch[k]
  BY <1>2, PlaceTypes
<1>12. ASSUME NEW x \in Workers PROVE Open(x)' = Open(x) /\ Committed(x)' = Committed(x) /\ Waiting(x)' = Waiting(x)
  <2>1. LoggerOf[x] \in Loggers
    BY Domains
  <2>2. Open(x)' = Open(x)
    <3>1. CASE current_buffer[x] = NULL
      BY <1>2, <3>1 DEF Open
    <3>2. CASE current_buffer[x] # NULL
      <4>1. current_buffer[x] \in Buffers /\ b # current_buffer[x]
        BY <1>1, <1>4, <3>2, CurrentFacts
      <4> QED BY <1>2, <1>9, <4>1 DEF Open
    <3> QED BY <3>1, <3>2
  <2>3. b \notin Range(queue[LoggerOf[x]])
    <3>1. ASSUME b \in Range(queue[LoggerOf[x]]) PROVE FALSE
      <4>1. IsQueued(b)
        BY <2>1, <3>1, PlaceTypes DEF IsQueued, Owned
      <4> QED BY <1>3, <1>6, <4>1, PlaceTypes DEF OnePlace
    <3> QED BY <3>1
  <2>4. \A c \in Range(queue[LoggerOf[x]]) : buf'[c].log_set = buf[c].log_set
    <3>1. Range(queue[LoggerOf[x]]) \subseteq Buffers
      BY <2>1, PlaceTypes DEF Range
    <3> QED BY <1>9, <2>3, <3>1
  <2>5. LogSetsOf(buf', queue[LoggerOf[x]]) = LogSetsOf(buf, queue[LoggerOf[x]])
    BY <2>4, LogSetsSame
  <2> QED BY <1>2, <2>2, <2>5 DEF Waiting, Committed
<1>13. ASSUME NEW x \in Workers, LoggerOf[x] # l PROVE Stays(x)
  <2>1. LoggerOf[x] \in Loggers
    BY Domains
  <2>2. logfile'[LoggerOf[x]] = logfile[LoggerOf[x]] /\ batch'[LoggerOf[x]] = batch[LoggerOf[x]]
    BY <1>10, <1>11, <1>13, <2>1
  <2>3. b \notin Range(batch[LoggerOf[x]])
    BY <1>5, <1>6, <1>13, <2>1, PlaceTypes DEF Owned
  <2>4. \A c \in Range(batch[LoggerOf[x]]) : buf'[c].log_set = buf[c].log_set
    <3>1. Range(batch[LoggerOf[x]]) \subseteq Buffers
      BY <2>1, PlaceTypes DEF Range
    <3> QED BY <1>9, <2>3, <3>1
  <2>5. LogSetsOf(buf', batch[LoggerOf[x]]) = LogSetsOf(buf, batch[LoggerOf[x]])
    BY <2>4, LogSetsSame
  <2> QED BY <1>12, <2>2, <2>5 DEF Stays, Filed, Taken
<1>14. ASSUME NEW x \in Workers, LoggerOf[x] = l
       PROVE  Filed(x)' = Cat(Filed(x), Of(x, e)) /\ Taken(x) = Cat(Of(x, e), Taken(x)') /\ Taken(x)' \in Seq(Entry)
  <2>1. Of(x, logfile[l] \o e) = Cat(Of(x, logfile[l]), Of(x, e))
    <3>1. logfile[l] \in Seq(Entry)
      BY DEF IInv, TypeOK
    <3> QED BY <1>8, <3>1, OfFacts, Zenon DEF Cat
  <2>2. Filed(x)' = Cat(Filed(x), Of(x, e))
    BY <1>10, <1>14, <2>1 DEF Filed
  <2>3. LogSetsOf(buf', t) = LogSetsOf(buf, t)
    <3>1. Range(t) \subseteq Buffers
      BY <1>3 DEF Range
    <3>2. \A c \in Range(t) : buf'[c].log_set = buf[c].log_set
      BY <1>4, <1>9, <3>1
    <3> QED BY <3>2, LogSetsSame
  <2>4. Taken(x)' = Of(x, LogSetsOf(buf, t))
    BY <1>11, <1>14, <2>3 DEF Taken
  <2>5. LogSetsOf(buf, q) = LogSetsOf(buf, <<b>>) \o LogSetsOf(buf, t) /\ LogSetsOf(buf, t) \in Seq(Entry)
    <3>1. <<b>> \in Seq(Buffers)
      BY <1>3
    <3> QED BY <1>3, <3>1, ContentTypes, LogSetsFacts, Zenon
  <2>6. LogSetsOf(buf, <<b>>) = e
    BY <1>3, <1>7, ContentTypes, LogSetsOne
  <2>7. Of(x, e \o LogSetsOf(buf, t)) = Cat(Of(x, e), Of(x, LogSetsOf(buf, t)))
    BY <1>8, <2>5, OfFacts, Zenon DEF Cat
  <2>8. Taken(x) = Of(x, LogSetsOf(buf, q))
    BY <1>1, <1>14 DEF Taken
  <2>9. Of(x, LogSetsOf(buf, t)) \in Seq(Entry)
    BY <2>5, OfFacts, Zenon
  <2> QED BY <2>2, <2>4, <2>5, <2>6, <2>7, <2>8, <2>9
<1>15. \A x \in Workers : Of(x, e) = IF x = w THEN e ELSE <<>>
  BY <1>3, <1>5, <1>7, BufferRecords
<1>16. Writes(w, e)
  BY <1>6, <1>12, <1>14, <1>15 DEF Writes
<1>17. ASSUME NEW x \in Workers, x # w PROVE Stays(x)
  <2>1. CASE LoggerOf[x] = l
    <3>1. Filed(x)' = Cat(Filed(x), <<>>) /\ Taken(x) = Cat(<<>>, Taken(x)') /\ Taken(x)' \in Seq(Entry)
      BY <1>14, <1>15, <1>17, <2>1
    <3>2. Filed(x) \in Seq(Entry)
      BY PartTypes DEF IInv
    <3>3. Cat(Filed(x), <<>>) = Filed(x)
      BY <3>2, CatFacts, Zenon
    <3>4. Cat(<<>>, Taken(x)') = Taken(x)'
      BY <3>1, CatFacts, Zenon
    <3> QED BY <1>12, <3>1, <3>3, <3>4 DEF Stays
  <2>2. CASE LoggerOf[x] # l
    BY <1>13, <2>2
  <2> QED BY <2>1, <2>2
<1> QED BY <1>6, <1>8, <1>16, <1>17 DEF Others

-----------------------------------------------------------------------------
(* The log in order.                                                        *)

\* The steps by what they do to the records.
LEMMA RecordCases ==
    ASSUME IInv, RecordInv, [Next]_vars
    PROVE  \/ \A x \in Workers : Stays(x)
           \/ \E w \in Workers : Push(w) /\ (\E e \in Seq(Entry) : Commits(w, e)) /\ Others(w)
           \/ \E w \in Workers : (Publish(w) \/ Terminate(w)) /\ Queues(w) /\ Others(w)
           \/ \E l \in Loggers : Deq(l) /\ \A x \in Workers : Takes(x) \/ Stays(x)
           \/ \E l \in Loggers : WriteBuffer(l) /\ \E w \in Workers : \E e \in Seq(Entry) :
                LoggerOf[w] = l /\ Writes(w, e) /\ Others(w)
<1>1. ASSUME NEW w \in Workers, Worker(w)
      PROVE  \/ \A x \in Workers : Stays(x)
             \/ Push(w) /\ (\E e \in Seq(Entry) : Commits(w, e)) /\ Others(w)
             \/ (Publish(w) \/ Terminate(w)) /\ Queues(w) /\ Others(w)
  <2>1. CASE UNCHANGED <<buf, txs, queue, current_buffer>>
    <3>1. UNCHANGED <<logfile, batch>>
      BY <1>1, WorkerFrame
    <3> QED BY <2>1, <3>1, PartsStay
  <2>2. CASE TakeBuffer(w)
    BY <2>2, TakeStep
  <2>3. CASE Publish(w) \/ Terminate(w)
    BY <2>3, PublishStep
  <2>4. CASE Push(w)
    BY <2>4, PushStep
  <2> QED BY <1>1, <2>1, <2>2, <2>3, <2>4, WorkerFrame
<1>2. ASSUME NEW l \in Loggers, Logger(l)
      PROVE  \/ \A x \in Workers : Stays(x)
             \/ Deq(l) /\ \A x \in Workers : Takes(x) \/ Stays(x)
             \/ WriteBuffer(l) /\ \E w \in Workers : \E e \in Seq(Entry) :
                  LoggerOf[w] = l /\ Writes(w, e) /\ Others(w)
  <2>1. CASE UNCHANGED <<queue, batch, buf, logfile>>
    <3>1. UNCHANGED <<current_buffer, txs>>
      BY <1>2, LoggerFrame
    <3> QED BY <2>1, <3>1, PartsStay
  <2>2. CASE Deq(l)
    BY <2>2, DeqStep
  <2>3. CASE WriteBuffer(l)
    BY <2>3, WriteStep
  <2> QED BY <1>2, <2>1, <2>2, <2>3, LoggerFrame
<1>3. CASE UNCHANGED vars \/ SendQuit \/ Tick
  BY <1>3, PartsStay DEF vars, SendQuit, Tick, work, local
<1> QED BY <1>1, <1>2, <1>3, StepCases

LEMMA CatTypes ==
    ASSUME NEW r, NEW s, r \in Seq(Entry), s \in Seq(Entry)
    PROVE  Cat(r, s) \in Seq(Entry)
BY CatFacts, Zenon

LEMMA CatEmpty ==
    ASSUME NEW r, r \in Seq(Entry)
    PROVE  Cat(<<>>, r) = r /\ Cat(r, <<>>) = r
BY CatFacts, Zenon

\* Records are committed at the end of the four parts,
LEMMA AtTheEnd ==
    ASSUME NEW f, NEW a, NEW q, NEW o, NEW e, f \in Seq(Entry), a \in Seq(Entry), q \in Seq(Entry),
           o \in Seq(Entry), e \in Seq(Entry)
    PROVE  Cat(f, Cat(a, Cat(q, Cat(o, e)))) = Cat(Cat(f, Cat(a, Cat(q, o))), e)
<1>1. PICK qo : qo = Cat(q, o)
  OBVIOUS
<1>2. PICK aqo : aqo = Cat(a, qo)
  OBVIOUS
<1>3. qo \in Seq(Entry)
  BY <1>1, CatTypes
<1>4. aqo \in Seq(Entry)
  BY <1>2, <1>3, CatTypes
<1>5. Cat(Cat(q, o), e) = Cat(q, Cat(o, e))
  BY CatAssociates
<1>6. Cat(Cat(a, qo), e) = Cat(a, Cat(qo, e))
  BY <1>3, CatAssociates
<1>7. Cat(Cat(f, aqo), e) = Cat(f, Cat(aqo, e))
  BY <1>4, CatAssociates
<1> QED BY <1>1, <1>2, <1>5, <1>6, <1>7, Zenon

\* and move from the third part to the second and from there to the first.
LEMMA ToTheFront ==
    ASSUME NEW f, NEW a, NEW r, NEW e, f \in Seq(Entry), a \in Seq(Entry), r \in Seq(Entry), e \in Seq(Entry)
    PROVE  Cat(Cat(f, e), Cat(a, r)) = Cat(f, Cat(Cat(e, a), r))
<1>1. PICK ar : ar = Cat(a, r)
  OBVIOUS
<1>2. ar \in Seq(Entry)
  BY <1>1, CatTypes
<1>3. Cat(Cat(e, a), r) = Cat(e, Cat(a, r))
  BY CatAssociates
<1>4. Cat(Cat(f, e), ar) = Cat(f, Cat(e, ar))
  BY <1>2, CatAssociates
<1> QED BY <1>1, <1>3, <1>4, Zenon

\* Each kind of step keeps them in order.
LEMMA OrderKept ==
    ASSUME IInv, NEW x \in Workers, InOrderAt(x),
           \/ Stays(x) \/ Queues(x) \/ Takes(x)
           \/ \E e \in Seq(Entry) : Commits(x, e) \/ Writes(x, e)
    PROVE  InOrderAt(x)'
<1>1. /\ Filed(x) \in Seq(Entry) /\ Taken(x) \in Seq(Entry) /\ Waiting(x) \in Seq(Entry)
      /\ Open(x) \in Seq(Entry)
  BY PartTypes DEF IInv
<1>2. PICK f, a, q, o : f = Filed(x) /\ a = Taken(x) /\ q = Waiting(x) /\ o = Open(x)
  OBVIOUS
<1>3. f \in Seq(Entry) /\ a \in Seq(Entry) /\ q \in Seq(Entry) /\ o \in Seq(Entry) /\ <<>> \in Seq(Entry)
  BY <1>1, <1>2
<1>4. Cat(f, Cat(a, Cat(q, o))) = Committed(x)
  BY <1>2 DEF InOrderAt
<1>5. CASE Stays(x)
  BY <1>5 DEF Stays, InOrderAt
<1>6. CASE Queues(x)
  <2>1. Cat(f, Cat(a, Cat(Cat(q, o), <<>>))) = Cat(f, Cat(a, Cat(q, o)))
    <3>1. Cat(q, o) \in Seq(Entry)
      BY <1>3, CatTypes
    <3> QED BY <3>1, CatEmpty, Zenon
  <2> QED BY <1>2, <1>4, <1>6, <2>1 DEF Queues, InOrderAt
<1>7. CASE Takes(x)
  <2>1. Cat(f, Cat(q, Cat(<<>>, o))) = Cat(f, Cat(<<>>, Cat(q, o)))
    <3>1. Cat(q, o) \in Seq(Entry)
      BY <1>3, CatTypes
    <3> QED BY <1>3, <3>1, CatEmpty, Zenon
  <2> QED BY <1>2, <1>4, <1>7, <2>1 DEF Takes, InOrderAt
<1>8. ASSUME NEW e \in Seq(Entry), Commits(x, e) PROVE InOrderAt(x)'
  <2>1. Cat(f, Cat(a, Cat(q, Cat(o, e)))) = Cat(Cat(f, Cat(a, Cat(q, o))), e)
    BY <1>3, AtTheEnd
  <2> QED BY <1>2, <1>4, <1>8, <2>1 DEF Commits, InOrderAt
<1>9. ASSUME NEW e \in Seq(Entry), Writes(x, e) PROVE InOrderAt(x)'
  <2>1. PICK n : n = Taken(x)'
    OBVIOUS
  <2>2. n \in Seq(Entry) /\ a = Cat(e, n)
    BY <1>2, <1>9, <2>1 DEF Writes
  <2>3. Cat(Cat(f, e), Cat(n, Cat(q, o))) = Cat(f, Cat(Cat(e, n), Cat(q, o)))
    <3>1. PICK r : r = Cat(q, o)
      OBVIOUS
    <3>2. r \in Seq(Entry)
      BY <1>3, <3>1, CatTypes
    <3>3. Cat(Cat(f, e), Cat(n, r)) = Cat(f, Cat(Cat(e, n), r))
      BY <1>3, <2>2, <3>2, ToTheFront
    <3> QED BY <3>1, <3>3
  <2> QED BY <1>2, <1>4, <1>9, <2>1, <2>2, <2>3 DEF Writes, InOrderAt
<1> QED BY <1>5, <1>6, <1>7, <1>8, <1>9

LEMMA OrderStep ==
    ASSUME IInv, RecordInv, InOrder, [Next]_vars
    PROVE  InOrder'
<1>1. \A x \in Workers : InOrderAt(x)
  BY DEF InOrder, InOrderAt
<1>2. ASSUME NEW x \in Workers
      PROVE  \/ Stays(x) \/ Queues(x) \/ Takes(x)
             \/ \E e \in Seq(Entry) : Commits(x, e) \/ Writes(x, e)
  BY RecordCases DEF Others
<1>3. ASSUME NEW x \in Workers PROVE InOrderAt(x)'
  BY <1>1, <1>2, OrderKept
<1> QED BY <1>3 DEF InOrder, InOrderAt

LEMMA InitOrder ==
    ASSUME Init
    PROVE  RecordInv /\ InOrder
<1>1. IInv
  BY InitInv
<1>2. <<>> \in Seq(Entry) /\ <<>> \in Seq(Transaction) /\ <<>> \in Seq(Buffers)
  OBVIOUS
<1>3. \A b \in Buffers : IsEmpty(b) /\ buf[b].log_set = <<>> /\ DOMAIN buf[b].log_set = {}
  BY DEF Init, IsEmpty, EmptyBuffer
<1>4. RecordInv
  BY <1>3 DEF RecordInv
<1>5. ASSUME NEW x \in Workers PROVE Cat(Filed(x), Cat(Taken(x), Cat(Waiting(x), Open(x)))) = Committed(x)
  <2>1. LoggerOf[x] \in Loggers
    BY Domains
  <2>2. logfile[LoggerOf[x]] = <<>> /\ batch[LoggerOf[x]] = <<>> /\ queue[LoggerOf[x]] = <<>> /\ txs[x] = <<>>
    BY <2>1 DEF Init
  <2>3. Of(x, <<>>) = <<>>
    BY <1>2, OfFacts, Zenon
  <2>4. Filed(x) = <<>> /\ Taken(x) = <<>> /\ Waiting(x) = <<>>
    BY <1>1, <2>2, <2>3, NoRecords DEF Filed, Taken, Waiting
  <2>5. Open(x) = <<>>
    <3>1. current_buffer[x] = NULL \/ current_buffer[x] \in Buffers
      BY <1>1, PlaceTypes
    <3> QED BY <1>3, <3>1 DEF Open
  <2>6. Committed(x) = <<>>
    <3>1. RecordsOf(x, <<>>) = <<>>
      BY DEF RecordsOf
    <3>2. FlattenSeq(<<>>) = <<>>
      BY <1>2, EmptySeq, FlattenAppend, Zenon
    <3>3. Committed(x) = FlattenSeq(RecordsOf(x, txs[x]))
      BY DEF Committed, RecordsOf
    <3> QED BY <2>2, <3>1, <3>2, <3>3
  <2>7. Cat(<<>>, <<>>) = <<>>
    BY <1>2, CatFacts, Zenon
  <2> QED BY <2>4, <2>5, <2>6, <2>7
<1> QED BY <1>4, <1>5 DEF InOrder, InOrderAt

\* LogInOrder says it of the whole of a logger's file, batch and queue.
LEMMA OrderMeans == ASSUME TypeOK, InOrder PROVE LogInOrder
<1>1. ASSUME NEW w \in Workers, NEW l, l = LoggerOf[w]
      PROVE  Of(w, logfile[l] \o LogSets(batch[l]) \o LogSets(queue[l]))
               \o (IF current_buffer[w] = NULL THEN <<>> ELSE buf[current_buffer[w]].log_set)
               = Committed(w)
  <2>1. \A q : LogSets(q) = LogSetsOf(buf, q)
    BY DEF LogSets, LogSetsOf, SetsOf
  <2>2. PICK f, a, q, o : f = logfile[l] /\ a = LogSets(batch[l]) /\ q = LogSets(queue[l]) /\ o = Open(w)
    OBVIOUS
  <2>3. f \in Seq(Entry) /\ a \in Seq(Entry) /\ q \in Seq(Entry) /\ o \in Seq(Entry)
    BY <1>1, <2>1, <2>2, PartTypes
  <2>4. Cat(Of(w, Cat(Cat(f, a), q)), o) = Cat(Of(w, f), Cat(Of(w, a), Cat(Of(w, q), o)))
    BY <2>3, InParts
  <2>5. Of(w, f) = Filed(w) /\ Of(w, a) = Taken(w) /\ Of(w, q) = Waiting(w)
    BY <1>1, <2>1, <2>2 DEF Filed, Taken, Waiting
  <2>6. Cat(Of(w, Cat(Cat(f, a), q)), o) = Committed(w)
    BY <2>2, <2>4, <2>5 DEF InOrder, InOrderAt
  <2>7. Of(w, f \o a \o q) \o o = Committed(w)
    BY <2>6, Zenon DEF Cat
  <2> QED BY <2>2, <2>7, Zenon DEF Open
<1> QED BY <1>1 DEF LogInOrder

LEMMA OrderHolds == Spec => [](IInv /\ RecordInv /\ InOrder)
<1>1. Init => IInv /\ RecordInv /\ InOrder
  BY InitInv, InitOrder
<1>2. (IInv /\ RecordInv /\ InOrder) /\ [Next]_vars => (IInv /\ RecordInv /\ InOrder)'
  BY StepInv, RecordStep, OrderStep
<1> QED BY <1>1, <1>2, PTL DEF Spec

\* Whatever wal(), push(), enq() and the loggers do in between, the records of
\* a worker are in its logger's file, then in what logging() is writing, then
\* in the queue, then in its current buffer, in the order of its commits, none
\* missing and none twice: enq() sorts by epoch and keeps a worker's own order.
THEOREM LogKeepsOrder == Spec => []LogInOrder
<1>1. IInv /\ RecordInv /\ InOrder => LogInOrder
  BY OrderMeans DEF IInv
<1> QED BY <1>1, OrderHolds, PTL

-----------------------------------------------------------------------------
(* Shutdown.                                                                *)

LastStops == {"final", "casFinal", "pepochFinal", "end", "ended", "gone"}

Left(l) == \A w \in MyWorkers(l) : pc[w] \in {"joining", "done"}

\* The shutdown: a logger's last work starts when all its workers have ended
\* and left it nothing to write.
LoggerQuit(l) ==
    /\ thid_set[l] = {w \in MyWorkers(l) : pc[w] \notin {"joining", "done"}}
    /\ queue_quit[l] => Left(l)
    /\ lpc[l] \in LastStops => queue_quit[l] /\ queue[l] = <<>>
    /\ joined[l] => lpc[l] \in {"ended", "gone"}

WorkerQuit(w) == pc[w] \in {"ending", "joining", "done"} => Open(w) = <<>>

QuitInv == (\A l \in Loggers : LoggerQuit(l)) /\ (\A w \in Workers : WorkerQuit(w))

LEMMA QuitTypes ==
    ASSUME IInv
    PROVE  /\ pc \in [Workers -> WPC] /\ lpc \in [Loggers -> LPC]
           /\ thid_set \in [Loggers -> SUBSET Workers]
           /\ queue_quit \in [Loggers -> BOOLEAN] /\ joined \in [Loggers -> BOOLEAN]
           /\ \A l \in Loggers : MyWorkers(l) \subseteq Workers
           /\ \A w \in Workers : w \in MyWorkers(LoggerOf[w]) /\ LoggerOf[w] \in Loggers
           /\ \A w \in Workers, l \in Loggers : w \in MyWorkers(l) <=> LoggerOf[w] = l
BY Domains DEF IInv, TypeOK, MyWorkers

\* The steps of a worker, by where they lead it.
LEMMA WorkerPath ==
    ASSUME IInv, NEW w \in Workers, Worker(w)
    PROVE  /\ \A x \in Workers : x # w => UNCHANGED pc[x]
           /\ UNCHANGED <<lpc, joined>>
           /\ \/ WorkerEnd(w) \/ WorkerJoined(w) \/ Terminate(w)
              \/ /\ pc[w] \in {"retry", "wal", "push"} /\ pc'[w] \in {"retry", "wal", "push"}
                 /\ UNCHANGED <<thid_set, queue_quit>>
<1>1. pc \in [Workers -> WPC]
  BY QuitTypes
<1>2. CASE Validate(w)
  BY <1>1, <1>2 DEF Validate, Goto, local, fin
<1>3. CASE Publish(w)
  BY <1>1, <1>3 DEF Publish, Goto, local, fin
<1>4. CASE TakeBuffer(w)
  BY <1>1, <1>4 DEF TakeBuffer, Goto, local, fin
<1>5. CASE Push(w)
  BY <1>1, <1>5 DEF Push, Goto, local, fin
<1>6. CASE Terminate(w)
  BY <1>1, <1>6 DEF Terminate, Goto, local, fin
<1>7. CASE WorkerEnd(w)
  BY <1>1, <1>7 DEF WorkerEnd, Goto, local, fin
<1>8. CASE WorkerJoined(w)
  BY <1>1, <1>8 DEF WorkerJoined, Goto, local, fin
<1> QED BY <1>2, <1>3, <1>4, <1>5, <1>6, <1>7, <1>8 DEF Worker

\* The steps of a logger, by where they lead it.
LEMMA LoggerLeads ==
    ASSUME IInv, NEW l \in Loggers, Logger(l)
    PROVE  /\ \A k \in Loggers : k # l => UNCHANGED lpc[k] /\ UNCHANGED joined[k] /\ UNCHANGED queue[k]
           /\ lpc'[l] \in LastStops => \/ lpc[l] \in LastStops /\ UNCHANGED queue[l]
                                       \/ lpc[l] = "wait" /\ queue[l] = <<>> /\ queue_quit[l] /\ UNCHANGED queue
           /\ logger_end(l) \/ UNCHANGED joined
           /\ joined'[l] => joined[l] \/ lpc'[l] = "ended"
           /\ lpc[l] \in {"ended", "gone"} => lpc'[l] \in {"ended", "gone"}
<1>1. lpc \in [Loggers -> LPC] /\ joined \in [Loggers -> BOOLEAN] /\ queue \in [Loggers -> Seq(Buffers)]
  BY QuitTypes, PlaceTypes
<1>2. CASE WaitDeq(l) \/ Timeout(l)
  BY <1>1, <1>2 DEF WaitDeq, Timeout, LGoto, LastStops, fin, logger_end
<1>3. CASE Computes(l)
  BY <1>1, <1>3 DEF Computes, FindMinCtid, FindMinQueue, LGoto, LastStops, fin, logger_end
<1>4. CASE Deq(l)
  BY <1>1, <1>4 DEF Deq, LGoto, LastStops, fin, logger_end
<1>5. CASE WriteBuffer(l) \/ LoggingDone(l)
  BY <1>1, <1>5 DEF WriteBuffer, LoggingDone, LGoto, LastStops, fin, logger_end
<1>6. CASE Send(l) \/ StoreThLocalDurable(l) \/ Final(l)
  BY <1>1, <1>6 DEF Send, StoreThLocalDurable, Final, LoadDurable, LGoto, LastStops, fin, logger_end
<1>7. CASE Declares(l) \/ Records(l)
  BY <1>1, <1>7 DEF Declares, Records, SwapDurable, WritePepoch, LGoto, LastStops, fin, logger_end
<1>8. CASE logger_end(l) \/ LoggerReturn(l)
  BY <1>1, <1>8 DEF logger_end, LoggerReturn, LGoto, LastStops, fin
<1> QED BY <1>2, <1>3, <1>4, <1>5, <1>6, <1>7, <1>8 DEF Logger, Computes, Declares, Records

\* terminate() leaves its worker nothing to write.
LEMMA TerminateLeaves ==
    ASSUME IInv, RecordInv, NEW w \in Workers, Terminate(w)
    PROVE  Open(w)' = <<>>
<1>1. current_buffer[w] # NULL /\ UNCHANGED buf
  BY DEF Terminate, IInv, ReadyInv
<1>2. current_buffer[w] \in Buffers
  BY <1>1, PlaceTypes
<1>3. CASE buf[current_buffer[w]].nids
  <2>1. current_buffer'[w] = NULL
    BY <1>1, <1>3, PlaceTypes DEF Terminate, publish
  <2> QED BY <2>1 DEF Open
<1>4. CASE ~ buf[current_buffer[w]].nids
  <2>1. UNCHANGED current_buffer
    BY <1>1, <1>4 DEF Terminate, publish
  <2>2. buf[current_buffer[w]].log_set = <<>>
    BY <1>2, <1>4 DEF IInv, ContentInv, IsEmpty, IsOf
  <2> QED BY <1>1, <2>1, <2>2 DEF Open
<1> QED BY <1>3, <1>4

LEMMA WorkerQuitStep ==
    ASSUME IInv, RecordInv, QuitInv, [Next]_vars, NEW w \in Workers
    PROVE  WorkerQuit(w)'
<1>1. WorkerQuit(w)
  BY DEF QuitInv
<1>2. ASSUME Stays(w) \/ Takes(w) \/ Queues(w) \/ (\E e \in Seq(Entry) : Writes(w, e)), UNCHANGED pc[w]
      PROVE  WorkerQuit(w)'
  BY <1>1, <1>2 DEF WorkerQuit, Stays, Takes, Queues, Writes
<1>3. ASSUME Worker(w) PROVE WorkerQuit(w)'
  <2>1. CASE Terminate(w)
    BY <2>1, TerminateLeaves DEF WorkerQuit
  <2>2. CASE WorkerEnd(w) \/ WorkerJoined(w)
    <3>1. UNCHANGED <<current_buffer, buf>> /\ pc[w] \in {"ending", "joining"}
      BY <2>2 DEF WorkerEnd, WorkerJoined
    <3>2. Open(w)' = Open(w)
      BY <3>1 DEF Open
    <3> QED BY <1>1, <3>1, <3>2 DEF WorkerQuit
  <2>3. CASE ~ Terminate(w) /\ ~ WorkerEnd(w) /\ ~ WorkerJoined(w)
    BY <1>3, <2>3, WorkerPath DEF WorkerQuit
  <2> QED BY <2>1, <2>2, <2>3
<1>4. ASSUME ~ Worker(w) PROVE WorkerQuit(w)'
  <2>1. UNCHANGED pc[w]
    <3>1. \A x \in Workers : Worker(x) => x # w /\ UNCHANGED pc[w]
      BY <1>4, WorkerPath
    <3>2. UNCHANGED pc \/ \E x \in Workers : Worker(x)
      BY StepCases, LoggerFrame DEF SendQuit, Tick, vars, work
    <3> QED BY <3>1, <3>2
  <2>3. Stays(w) \/ Takes(w) \/ Queues(w) \/ (\E e \in Seq(Entry) : Writes(w, e))
    <3>1. ~ Push(w)
      BY <1>4 DEF Worker
    <3> QED BY <3>1, RecordCases DEF Others
  <2> QED BY <1>2, <2>1, <2>3
<1> QED BY <1>3, <1>4
LEMMA LoggerQuitStep ==
    ASSUME IInv, RecordInv, QuitInv, [Next]_vars, NEW l \in Loggers
    PROVE  LoggerQuit(l)'
<1>1. LoggerQuit(l)
  BY DEF QuitInv
<1>2. ASSUME UNCHANGED <<thid_set, pc, queue_quit, lpc, joined, queue>> PROVE LoggerQuit(l)'
  BY <1>1, <1>2 DEF LoggerQuit, Left
<1>3. ASSUME NEW w \in Workers, Worker(w) PROVE LoggerQuit(l)'
  <2>1. /\ \A x \in Workers : x # w => UNCHANGED pc[x]
        /\ UNCHANGED <<lpc, joined>>
    BY <1>3, WorkerPath
  <2>2. CASE WorkerEnd(w)
    <3>1. PICK k : k = LoggerOf[w]
      OBVIOUS
    <3>2. /\ pc[w] = "ending" /\ pc'[w] = "joining" /\ UNCHANGED queue
          /\ thid_set' = [thid_set EXCEPT ![k] = thid_set[k] \ {w}]
          /\ queue_quit' = [queue_quit EXCEPT ![k] = queue_quit[k] \/ thid_set'[k] = {}]
      BY <2>2, <3>1, QuitTypes DEF WorkerEnd, Goto
    <3>3. CASE l = k
      <4>1. /\ thid_set'[l] = thid_set[l] \ {w} /\ w \in MyWorkers(l)
            /\ queue_quit'[l] <=> queue_quit[l] \/ thid_set'[l] = {}
        BY <3>1, <3>2, <3>3, QuitTypes
      <4>2. thid_set'[l] = {x \in MyWorkers(l) : pc'[x] \notin {"joining", "done"}}
        BY <1>1, <2>1, <3>2, <4>1, QuitTypes DEF LoggerQuit
      <4>3. queue_quit'[l] => Left(l)'
        <5>1. ASSUME thid_set'[l] = {} PROVE \A x \in MyWorkers(l) : pc'[x] \in {"joining", "done"}
          BY <4>2, <5>1
        <5>2. ~ queue_quit[l]
          BY <1>1, <3>2, <4>1 DEF LoggerQuit, Left
        <5> QED BY <4>1, <5>1, <5>2 DEF Left
      <4>4. lpc[l] \notin LastStops
        BY <1>1, <3>2, <4>1 DEF LoggerQuit, Left
      <4> QED BY <1>1, <2>1, <4>2, <4>3, <4>4 DEF LoggerQuit
    <3>4. CASE l # k
      <4>1. thid_set'[l] = thid_set[l] /\ queue_quit'[l] = queue_quit[l] /\ w \notin MyWorkers(l)
        BY <3>1, <3>2, <3>4, QuitTypes
      <4>2. \A x \in MyWorkers(l) : pc'[x] = pc[x]
        BY <2>1, <4>1, QuitTypes
      <4> QED BY <1>1, <2>1, <3>2, <4>1, <4>2 DEF LoggerQuit, Left
    <3> QED BY <3>3, <3>4
  <2>3. CASE WorkerJoined(w)
    <3>1. pc[w] = "joining" /\ pc'[w] = "done" /\ UNCHANGED <<thid_set, queue_quit, queue>>
      BY <2>3, QuitTypes DEF WorkerJoined, Goto, fin
    <3>2. \A x \in MyWorkers(l) : pc'[x] \in {"joining", "done"} <=> pc[x] \in {"joining", "done"}
      BY <2>1, <3>1, QuitTypes
    <3> QED BY <1>1, <2>1, <3>1, <3>2 DEF LoggerQuit, Left
  <2>4. CASE \/ Terminate(w)
             \/ /\ pc[w] \in {"retry", "wal", "push"} /\ pc'[w] \in {"retry", "wal", "push"}
                /\ UNCHANGED <<thid_set, queue_quit>>
    <3>1. /\ UNCHANGED <<thid_set, queue_quit>>
          /\ pc[w] \notin {"joining", "done"} /\ pc'[w] \notin {"joining", "done"}
      BY <2>4, QuitTypes DEF Terminate, Goto, fin
    <3>2. \A x \in MyWorkers(l) : pc'[x] \in {"joining", "done"} <=> pc[x] \in {"joining", "done"}
      BY <2>1, <3>1, QuitTypes
    <3>3. CASE w \in MyWorkers(l)
      <4>1. lpc[l] \notin LastStops
        BY <1>1, <3>1, <3>3 DEF LoggerQuit, Left
      <4> QED BY <1>1, <2>1, <3>1, <3>2, <4>1 DEF LoggerQuit, Left
    <3>4. CASE w \notin MyWorkers(l)
      <4>1. queue'[l] = queue[l]
        <5>1. LoggerOf[w] # l
          BY <3>4, QuitTypes
        <5>2. UNCHANGED queue \/ Publish(w) \/ Terminate(w)
          BY <1>3, WorkerFrame
        <5>3. ASSUME Publish(w) \/ Terminate(w) PROVE queue'[l] = queue[l]
          BY <5>1, <5>3, PlaceTypes DEF Publish, Terminate, publish
        <5> QED BY <5>2, <5>3
      <4> QED BY <1>1, <2>1, <3>1, <3>2, <4>1 DEF LoggerQuit, Left
    <3> QED BY <3>3, <3>4
  <2> QED BY <1>3, <2>2, <2>3, <2>4, WorkerPath
<1>4. ASSUME NEW k \in Loggers, Logger(k) PROVE LoggerQuit(l)'
  <2>1. UNCHANGED <<thid_set, pc, queue_quit>>
    BY <1>4, LoggerFrame
  <2>2. CASE k # l
    <3>1. UNCHANGED lpc[l] /\ UNCHANGED joined[l] /\ UNCHANGED queue[l]
      BY <1>4, <2>2, LoggerLeads
    <3> QED BY <1>1, <2>1, <3>1 DEF LoggerQuit, Left
  <2>3. CASE k = l
    <3>1. lpc'[l] \in LastStops => queue_quit[l] /\ queue'[l] = <<>>
      BY <1>1, <1>4, <2>3, LoggerLeads DEF LoggerQuit
    <3>2. joined'[l] => lpc'[l] \in {"ended", "gone"}
      BY <1>1, <1>4, <2>3, LoggerLeads DEF LoggerQuit
    <3> QED BY <1>1, <2>1, <3>1, <3>2 DEF LoggerQuit, Left
  <2> QED BY <2>2, <2>3
<1> QED BY <1>2, <1>3, <1>4, StepCases DEF SendQuit, Tick, vars, work, fin

LEMMA QuitStep ==
    ASSUME IInv, RecordInv, QuitInv, [Next]_vars
    PROVE  QuitInv'
BY LoggerQuitStep, WorkerQuitStep DEF QuitInv

LEMMA InitQuit ==
    ASSUME Init
    PROVE  QuitInv
<1>1. \A w \in Workers : pc[w] = "retry"
  BY DEF Init
<1>2. \A l \in Loggers : /\ thid_set[l] = MyWorkers(l) /\ ~ queue_quit[l] /\ lpc[l] = "wait" /\ ~ joined[l]
  BY DEF Init, MyWorkers
<1>3. \A l \in Loggers : MyWorkers(l) = {w \in MyWorkers(l) : pc[w] \notin {"joining", "done"}}
  BY <1>1 DEF MyWorkers
<1> QED BY <1>1, <1>2, <1>3 DEF QuitInv, LoggerQuit, WorkerQuit, LastStops

-----------------------------------------------------------------------------
(* The redo log.                                                            *)

LEMMA PrefixOfCat ==
    ASSUME NEW r, NEW s, r \in Seq(Entry), s \in Seq(Entry)
    PROVE  IsPrefix(r, Cat(r, s))
<1>1. PICK t : t = Cat(r, s)
  OBVIOUS
<1>2. /\ t \in Seq(Entry) /\ Len(t) = Len(r) + Len(s)
      /\ \A i \in 1 .. Len(r) + Len(s) : t[i] = IF i <= Len(r) THEN r[i] ELSE s[i - Len(r)]
  BY <1>1, ConcatProperties DEF Cat
<1>3. Len(r) \in Nat /\ Len(s) \in Nat /\ Len(r) <= Len(t) /\ Len(t) \in Nat
  BY <1>2
<1>4. \A i \in 1 .. Len(r) : t[i] = r[i] /\ r[i] \in Entry /\ t[i] \in Entry
  BY <1>2, <1>3
<1>5. PICK m, n : m = 1 /\ n = Len(r)
  OBVIOUS
<1>6. m \in Int /\ n \in Int /\ (\A i \in m .. n : r[i] \in Entry) /\ (\A i \in m .. n : t[i] \in Entry)
  BY <1>3, <1>4, <1>5
<1>7. PICK x, y : x = SubSeq(r, m, n) /\ y = SubSeq(t, m, n)
  OBVIOUS
<1>8. /\ x \in Seq(Entry) /\ Len(x) = IF m <= n THEN n - m + 1 ELSE 0
      /\ \A i \in 1 .. n - m + 1 : x[i] = r[m + i - 1]
  BY ONLY <1>6, <1>7, SubSeqProperties
<1>9. /\ y \in Seq(Entry) /\ Len(y) = IF m <= n THEN n - m + 1 ELSE 0
      /\ \A i \in 1 .. n - m + 1 : y[i] = t[m + i - 1]
  BY ONLY <1>6, <1>7, SubSeqProperties
<1>10. Len(x) = Len(r) /\ Len(y) = Len(r) /\ n - m + 1 = Len(r) /\ \A i \in 1 .. Len(r) : m + i - 1 = i
  BY <1>3, <1>5, <1>8, <1>9
<1>11. \A i \in 1 .. Len(r) : x[i] = y[i]
  BY <1>4, <1>8, <1>9, <1>10
<1>12. x = y
  BY <1>8, <1>9, <1>10, <1>11, SeqEqual
<1>13. SubSeq(r, 1, Len(r)) = SubSeq(t, 1, Len(r))
  BY <1>5, <1>7, <1>12
<1> QED BY <1>1, <1>3, <1>13 DEF IsPrefix

LEMMA SamePrefix == \A s, t : Redo!IsPrefix(s, t) <=> IsPrefix(s, t)
BY DEF IsPrefix, Redo!IsPrefix

LogInv == IInv /\ RecordInv /\ InOrder /\ QuitInv

\* Before its logger is in its last steps, no worker's log is closed.
LEMMA NotClosed ==
    ASSUME LogInv, NEW w \in Workers, \/ pc[w] \in {"retry", "wal", "push"}
                                      \/ lpc[LoggerOf[w]] = "write"
    PROVE  ~ closed[w]
<1>1. closed[w] = joined[LoggerOf[w]] /\ w \in MyWorkers(LoggerOf[w]) /\ LoggerOf[w] \in Loggers
  BY QuitTypes DEF closed, LogInv
<1>2. LoggerQuit(LoggerOf[w])
  BY <1>1 DEF LogInv, QuitInv
<1> QED BY <1>1, <1>2 DEF LoggerQuit, Left, LastStops

\* A worker's log grows: in memory,
LEMMA CommitStep ==
    ASSUME LogInv, NEW w \in Workers, NEW e \in Seq(Entry), pc[w] = "push",
           Commits(w, e), Others(w), UNCHANGED joined
    PROVE  Redo!Commit(w)
<1>1. ~ closed[w]
  BY NotClosed
<1>2. \A x \in Workers : committed[x] = Committed(x) /\ committed'[x] = Committed(x)'
  BY DEF committed
<1>3. IsPrefix(committed[w], committed'[w])
  <2>1. Committed(w) \in Seq(Entry)
    <3>1. txs[w] \in Seq(Transaction) /\ <<>> \in Seq(Entry)
      <4>1. txs \in [Workers -> Seq(Transaction)]
        BY DEF LogInv, IInv, TypeOK, Transaction
      <4> QED BY <4>1
    <3>2. RecordsOf(w, txs[w]) \in Seq(Seq(Entry))
      BY <3>1, RecordsFacts
    <3>3. FlattenSeq(RecordsOf(w, txs[w])) \in Seq(Entry)
      BY <3>1, <3>2, FlattenAppend, Zenon
    <3> QED BY <3>3 DEF Committed, RecordsOf
  <2>2. IsPrefix(Committed(w), Cat(Committed(w), e))
    BY <2>1, PrefixOfCat
  <2> QED BY <1>2, <2>2 DEF Commits
<1>4. committed' = [committed EXCEPT ![w] = committed'[w]]
  <2>1. \A x \in Workers : x # w => committed'[x] = committed[x]
    BY <1>2 DEF Others, Stays
  <2>2. committed = [x \in Workers |-> committed[x]] /\ committed' = [x \in Workers |-> committed'[x]]
    BY DEF committed
  <2> QED BY <2>1, <2>2
<1>5. UNCHANGED <<file, closed>>
  BY DEF file, Filed, closed, Commits, Others, Stays
<1> QED BY <1>1, <1>3, <1>4, <1>5, SamePrefix DEF Redo!Commit, Redo!Extends

\* on file,
LEMMA FlushStep ==
    ASSUME LogInv, NEW w \in Workers, NEW e \in Seq(Entry), lpc[LoggerOf[w]] = "write",
           Writes(w, e), Others(w), UNCHANGED joined
    PROVE  Redo!Flush(w)
<1>1. ~ closed[w]
  BY NotClosed
<1>2. \A x \in Workers : file[x] = Filed(x) /\ file'[x] = Filed(x)'
  BY DEF file, Filed
<1>3. /\ Filed(w) \in Seq(Entry) /\ Taken(w) \in Seq(Entry) /\ Waiting(w) \in Seq(Entry)
      /\ Open(w) \in Seq(Entry)
  BY PartTypes DEF LogInv, IInv
<1>4. IsPrefix(file[w], file'[w])
  <2>1. IsPrefix(Filed(w), Cat(Filed(w), e))
    BY <1>3, PrefixOfCat
  <2> QED BY <1>2, <2>1 DEF Writes
<1>5. file' = [file EXCEPT ![w] = file'[w]]
  <2>1. \A x \in Workers : x # w => file'[x] = file[x]
    BY <1>2 DEF Others, Stays
  <2>2. file = [x \in Workers |-> file[x]] /\ file' = [x \in Workers |-> file'[x]]
    BY DEF file
  <2> QED BY <2>1, <2>2
<1>6. IsPrefix(file'[w], committed[w])
  <2>1. PICK f, n, r : f = Filed(w) /\ n = Taken(w)' /\ r = Cat(Waiting(w), Open(w))
    OBVIOUS
  <2>2. f \in Seq(Entry) /\ n \in Seq(Entry) /\ Taken(w) = Cat(e, n) /\ Filed(w)' = Cat(f, e)
    BY <1>3, <2>1 DEF Writes
  <2>3. r \in Seq(Entry)
    BY <1>3, <2>1, CatTypes
  <2>4. Cat(f, Cat(Cat(e, n), r)) = Committed(w)
    BY <2>1, <2>2 DEF LogInv, InOrder, InOrderAt
  <2>5. Cat(Cat(f, e), Cat(n, r)) = Cat(f, Cat(Cat(e, n), r))
    BY <2>2, <2>3, ToTheFront
  <2>6. PICK fe, nr : fe = Cat(f, e) /\ nr = Cat(n, r)
    OBVIOUS
  <2>7. fe \in Seq(Entry) /\ nr \in Seq(Entry)
    BY <2>2, <2>3, <2>6, CatTypes
  <2>8. IsPrefix(fe, Cat(fe, nr))
    BY <2>7, PrefixOfCat
  <2>9. committed[w] = Committed(w)
    BY DEF committed
  <2> QED BY <1>2, <2>2, <2>4, <2>5, <2>6, <2>8, <2>9
<1>7. UNCHANGED <<committed, closed>>
  BY DEF committed, closed, Writes, Others, Stays
<1> QED BY <1>1, <1>4, <1>5, <1>6, <1>7, SamePrefix DEF Redo!Flush, Redo!Extends

\* and is closed, by the logger for all its workers at once.
LEMMA CloseStep ==
    ASSUME LogInv, NEW l \in Loggers, logger_end(l)
    PROVE  Redo!Close(MyWorkers(l))
<1>1. /\ lpc[l] = "end" /\ joined' = [joined EXCEPT ![l] = TRUE]
      /\ UNCHANGED <<logfile, txs, buf, batch, queue, current_buffer>>
  BY DEF logger_end, work, local
<1>2. Left(l) /\ queue[l] = <<>> /\ batch[l] = <<>>
  <2>1. LoggerQuit(l)
    BY DEF LogInv, QuitInv
  <2>2. lpc[l] \in LastStops
    BY <1>1 DEF LastStops
  <2>3. batch[l] = <<>>
    BY <1>1 DEF LogInv, IInv, LoggerInv
  <2> QED BY <2>1, <2>2, <2>3 DEF LoggerQuit
<1>3. ASSUME NEW w \in MyWorkers(l) PROVE file[w] = committed[w]
  <2>1. w \in Workers /\ LoggerOf[w] = l
    BY DEF MyWorkers
  <2>2. Taken(w) = <<>> /\ Waiting(w) = <<>>
    BY <1>2, <2>1, NoRecords DEF Taken, Waiting, LogInv
  <2>3. Open(w) = <<>>
    BY <1>2, <2>1 DEF Left, LogInv, QuitInv, WorkerQuit
  <2>4. Filed(w) \in Seq(Entry) /\ <<>> \in Seq(Entry)
    BY <2>1, PartTypes DEF LogInv, IInv
  <2>5. Cat(<<>>, <<>>) = <<>> /\ Cat(Filed(w), <<>>) = Filed(w)
    BY <2>4, CatEmpty
  <2>6. Filed(w) = Committed(w)
    BY <2>1, <2>2, <2>3, <2>5 DEF LogInv, InOrder, InOrderAt
  <2> QED BY <2>1, <2>6 DEF file, committed, Filed
<1>4. closed' = [w \in Workers |-> closed[w] \/ w \in MyWorkers(l)]
  <2>1. ASSUME NEW w \in Workers PROVE joined'[LoggerOf[w]] = (joined[LoggerOf[w]] \/ w \in MyWorkers(l))
    <3>1. joined \in [Loggers -> BOOLEAN] /\ LoggerOf[w] \in Loggers /\ (w \in MyWorkers(l) <=> LoggerOf[w] = l)
      BY QuitTypes DEF LogInv
    <3>2. CASE LoggerOf[w] = l
      BY <1>1, <3>1, <3>2
    <3>3. CASE LoggerOf[w] # l
      BY <1>1, <3>1, <3>3
    <3> QED BY <3>2, <3>3
  <2>2. \A w \in Workers : closed[w] = joined[LoggerOf[w]]
    BY DEF closed
  <2>3. closed' = [w \in Workers |-> joined'[LoggerOf[w]]]
    BY DEF closed
  <2> QED BY <2>1, <2>2, <2>3
<1>5. UNCHANGED <<committed, file>>
  BY <1>1 DEF committed, file, Committed
<1> QED BY <1>3, <1>4, <1>5 DEF Redo!Close

LEMMA RedoStep ==
    ASSUME LogInv, [Next]_vars
    PROVE  [Redo!Next]_<<committed, file, closed>>
<1>1. UNCHANGED joined \/ \E l \in Loggers : logger_end(l)
  BY StepCases, WorkerFrame, LoggerFrame DEF SendQuit, Tick, vars, fin
<1>2. ASSUME NEW l \in Loggers, logger_end(l) PROVE Redo!Next
  <2>1. MyWorkers(l) \in SUBSET Workers
    BY DEF MyWorkers
  <2> QED BY <1>2, <2>1, CloseStep DEF Redo!Next
<1>3. CASE UNCHANGED joined
  <2>1. UNCHANGED closed
    BY <1>3 DEF closed
  <2>2. CASE \A x \in Workers : Filed(x)' = Filed(x) /\ Committed(x)' = Committed(x)
    BY <2>1, <2>2 DEF file, committed, Filed
  <2>3. ASSUME NEW w \in Workers, NEW e \in Seq(Entry), Push(w), Commits(w, e), Others(w)
        PROVE  Redo!Next
    <3>1. pc[w] = "push"
      BY <2>3 DEF Push
    <3>2. Redo!Commit(w)
      BY <1>3, <2>3, <3>1, CommitStep
    <3> QED BY <3>2 DEF Redo!Next
  <2>4. ASSUME NEW w \in Workers, NEW e \in Seq(Entry), WriteBuffer(LoggerOf[w]), Writes(w, e), Others(w)
        PROVE  Redo!Next
    <3>1. lpc[LoggerOf[w]] = "write"
      BY <2>4 DEF WriteBuffer
    <3>2. Redo!Flush(w)
      BY <1>3, <2>4, <3>1, FlushStep
    <3> QED BY <3>2 DEF Redo!Next
  <2>5. ASSUME NEW w \in Workers, Queues(w), Others(w), NEW x \in Workers
        PROVE  Filed(x)' = Filed(x) /\ Committed(x)' = Committed(x)
    BY <2>5 DEF Queues, Others, Stays
  <2>6. ASSUME NEW x \in Workers, Takes(x) \/ Stays(x)
        PROVE  Filed(x)' = Filed(x) /\ Committed(x)' = Committed(x)
    BY <2>6 DEF Takes, Stays
  <2> QED BY <2>2, <2>3, <2>4, <2>5, <2>6, RecordCases DEF LogInv
<1> QED BY <1>1, <1>2, <1>3

LEMMA RedoInit == Init => Redo!Init
<1> SUFFICES ASSUME Init PROVE Redo!Init
  OBVIOUS
<1>1. <<>> \in Seq(Entry) /\ <<>> \in Seq(Transaction)
  OBVIOUS
<1>2. ASSUME NEW w \in Workers PROVE committed[w] = <<>> /\ file[w] = <<>> /\ closed[w] = FALSE
  <2>1. LoggerOf[w] \in Loggers
    BY Domains
  <2>2. logfile[LoggerOf[w]] = <<>> /\ txs[w] = <<>> /\ joined[LoggerOf[w]] = FALSE
    BY <2>1 DEF Init
  <2>3. Of(w, <<>>) = <<>>
    BY <1>1, OfFacts, Zenon
  <2>4. Committed(w) = <<>>
    <3>1. Committed(w) = CommittedOf(w, txs[w])
      BY DEF Committed, CommittedOf, RecordsOf
    <3>2. [n \in DOMAIN <<>> |-> Entries(w, n, <<>>[n].epoch, <<>>[n].size)] = <<>>
      OBVIOUS
    <3>3. FlattenSeq(<<>>) = <<>>
      BY <1>1, EmptySeq, FlattenAppend, Zenon
    <3> QED BY <2>2, <3>1, <3>2, <3>3 DEF CommittedOf, RecordsOf
  <2> QED BY <2>2, <2>3, <2>4 DEF committed, file, closed
<1>3. /\ committed = [w \in Workers |-> committed[w]] /\ file = [w \in Workers |-> file[w]]
      /\ closed = [w \in Workers |-> closed[w]]
  BY DEF committed, file, closed
<1> QED BY <1>2, <1>3 DEF Redo!Init

LEMMA LogHolds == Spec => []LogInv
<1>1. Init => QuitInv
  BY InitQuit
<1>2. IInv /\ RecordInv /\ QuitInv /\ [Next]_vars => QuitInv'
  BY QuitStep
<1> QED BY <1>1, <1>2, OrderHolds, PTL DEF Spec, LogInv

\* The log is a redo log: each write_log() appends to a worker's records the
\* next ones of those it has committed, and once its logger has been joined the
\* file has all of them, since no worker leaves before its last buffer is queued
\* and no logger stops before its queue is empty and its workers have left.
THEOREM LogIsRedoLog == Spec => ImplementsRedoLog
<1>1. LogInv /\ [Next]_vars => [Redo!Next]_<<committed, file, closed>>
  BY RedoStep
<1> QED BY <1>1, RedoInit, LogHolds, PTL DEF Spec, ImplementsRedoLog, Redo!Spec
=============================================================================
