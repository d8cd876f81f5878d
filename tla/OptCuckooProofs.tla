-------------------------- MODULE OptCuckooProofs --------------------------
(***************************************************************************)
(* Proofs about OptCuckoo: the type invariant, the slot locks, that        *)
(* nothing that has been put is lost by the moves, that the table is a     *)
(* Dictionary, and that the search of a put finds a shortest path.         *)
(***************************************************************************)
EXTENDS OptCuckoo, SequenceTheorems, FiniteSetTheorems, Induction
-----------------------------------------------------------------------------
(* The inductive invariant.                                                 *)

Paths == [path : Seq(Slots), hist : Seq(Nat)]

Locals == [n : 1 .. 2 * SLOTS_NUM, node : Nodes \cup {NULL}, ver : Nat,
           got : Vals \cup {NULL}, slot : Slots \cup {NULL}, que : Seq(Paths),
           path : Seq(Slots), hist : Seq(Nat), i : Nat, attempt : 0 .. MaxAttempts - 1]

Getting == {"get", "getVersion", "getVal", "getCheck"}
Moving  == {"move", "lockHigher", "copy", "copied"}
Putting == {"put", "fill", "update", "setVal", "store", "stored", "search", "take"} \cup Moving

Buckets(k) == Range(Scan[k])

\* The shared variables, the calls and the locals have their types.
Typed ==
    /\ table \in [Slots -> DOMAIN val \cup {NULL}]
    /\ table_locks \in [Slots -> Threads \cup {NULL}]
    /\ key_versions \in [Slots -> Nat]
    /\ DOMAIN val \subseteq Nodes /\ val \in [DOMAIN val -> Vals]
    /\ pc \in [Threads -> PCs]
    /\ todo \in [Threads -> Seq(Calls)]
    /\ loc \in [Threads -> Locals]
    /\ may \in [Threads -> SUBSET (Vals \cup {NULL})]
    /\ answer \in [Threads -> Vals \cup {NULL}]
    /\ stored \subseteq Keys /\ faults \subseteq {"twins", "stray"}

\* A thread that runs is in a call of its own, and has the node and the slot
\* its next step is about.
InCall(t) ==
    /\ pc[t] \in Getting => todo[t] # <<>> /\ Call(t).op = "get"
    /\ pc[t] \in Putting => todo[t] # <<>> /\ Call(t).op = "put" /\ NewNode(t) \in DOMAIN val
    /\ loc[t].node \in DOMAIN val \cup {NULL}
    /\ pc[t] \in {"getVersion", "getVal", "getCheck"} => loc[t].node \in DOMAIN val
    /\ pc[t] \in {"update", "setVal"} => loc[t].node \in DOMAIN val /\ loc[t].node.key = Key(t)
    /\ pc[t] \in {"fill", "update"} => loc[t].slot = At(t)
    /\ pc[t] \in {"setVal", "store", "stored"} => loc[t].slot \in Buckets(Key(t))

\* The scan starts at the first slot, and the slots a put has passed are not null.
Passed(t) ==
    /\ pc[t] = "idle" => loc[t].n = 1
    /\ pc[t] \in {"put", "fill", "update"} =>
         \A n \in 1 .. 2 * SLOTS_NUM : n < loc[t].n => table[Scan[Key(t)][n]] # NULL

Simple(p) == \A m, n \in DOMAIN p : p[m] = p[n] => m = n

\* If slot s is as it was at version v, the node in it may move to slot r.
Link(s, v, r) ==
    /\ v <= key_versions[s]
    /\ key_versions[s] = v /\ ~Odd(v) => r \in Buckets(table[s].key)

\* A path that put_impl is trying to prolong.
Tried(t, e) ==
    /\ Len(e.path) >= 1 /\ Len(e.hist) = Len(e.path) - 1
    /\ Simple(e.path) /\ e.path[1] \in Buckets(Key(t))
    /\ \A n \in DOMAIN e.path : table[e.path[n]] # NULL
    /\ \A n \in DOMAIN e.hist : Link(e.path[n], e.hist[n], e.path[n + 1])

TriedAll(t) == pc[t] = "search" => \A n \in DOMAIN loc[t].que : Tried(t, loc[t].que[n])

\* The path that the nodes are moved along.
Found(t) ==
    LET p == loc[t].path
        h == loc[t].hist
        last == Len(p)
    IN  /\ last >= 2 /\ Len(h) = last /\ Simple(p) /\ p[1] \in Buckets(Key(t))
        /\ loc[t].i \in 1 .. last
        /\ pc[t] = "take" <=> loc[t].i = 1
        /\ \A n \in 1 .. last - 1 : table[p[n]] # NULL /\ Link(p[n], h[n], p[n + 1])
        /\ h[last] <= key_versions[p[last]]
        /\ key_versions[p[last]] = h[last] /\ ~Odd(h[last]) => table[p[last]] = NULL

OnPath(t) == pc[t] \in Moving \cup {"take"} => Found(t)

\* A move under way copies a node to one of its own buckets, and has done so.
MoveOK(t) ==
    /\ pc[t] = "copy" => To(t) \in Buckets(table[From(t)].key)
    /\ pc[t] = "copied" => table[To(t)] = table[From(t)]

\* Every node is in one of the two buckets of its key.
Placed == \A s \in Slots : table[s] # NULL => s \in Buckets(table[s].key)

\* t overwrites what is in slot s, unless the slot changes first: it has copied
\* the node to the next slot of the path, or is about to store a node in it.
Dooms(t, s) ==
    \/ /\ pc[t] \in {"move", "lockHigher", "take"} /\ loc[t].i < Len(loc[t].path)
       /\ s = To(t) /\ Unchanged(t, loc[t].i)
    \/ pc[t] = "copy" /\ s = To(t)
    \/ pc[t] = "copied" /\ s = From(t)
    \/ pc[t] = "store" /\ s = loc[t].slot

Safe(s) == \A t \in Threads : ~Dooms(t, s)

\* Whatever is about to be overwritten is in another slot too.
Kept == \A s \in Slots : table[s] # NULL => \E r \in Slots : table[r] = table[s] /\ Safe(r)

\* The keys that are in the table for ever.
Present ==
    /\ \A k \in stored : InTable(k)
    /\ \A t \in Threads : pc[t] \in {"update", "setVal", "stored"} => InTable(Key(t))

Inductive ==
    /\ Typed /\ LocksHeld /\ Placed /\ Kept /\ Present
    /\ \A t \in Threads : InCall(t) /\ Passed(t) /\ TriedAll(t) /\ OnPath(t) /\ MoveOK(t)

-----------------------------------------------------------------------------
(* The operators the table is built from.                                   *)

\* Min is what its name says, on sets of numbers that are not empty.
LEMMA MinIsIn ==
    ASSUME NEW S, S \subseteq Nat, S # {}
    PROVE  Min(S) \in S
BY LeastNumber DEF Min

\* What is assumed of the constants, one fact at a time.
LEMMA Constants ==
    /\ TUPLE_NUM \in Nat \ {0} /\ SLOTS_NUM \in Nat \ {0} /\ MaxAttempts \in Nat \ {0}
    /\ 2 * SLOTS_NUM \in Nat /\ 1 \in 1 .. 2 * SLOTS_NUM
    /\ Plans \subseteq [Threads -> Seq(Calls)]
    /\ NULL \notin Vals /\ NULL \notin Threads /\ NULL \notin Nodes
BY OptCuckooAssumption

\* The slots of a key are slots of the table, in whatever order.
LEMMA ScanSlots ==
    ASSUME NEW k \in Keys
    PROVE  /\ Scan[k] \in [1 .. 2 * SLOTS_NUM -> Slots]
           /\ Queued[k] \in [1 .. 2 * SLOTS_NUM -> Slots]
           /\ Buckets(k) \subseteq Slots
           /\ \A n \in 1 .. 2 * SLOTS_NUM : Scan[k][n] \in Buckets(k)
<1>1. ASSUME NEW n \in 1 .. 2 * SLOTS_NUM
      PROVE  Scan[k][n] \in Slots /\ Queued[k][n] \in Slots
  <2>1. SLOTS_NUM \in Nat
    BY Constants
  <2>2. /\ n <= SLOTS_NUM => n - 1 \in 0 .. SLOTS_NUM - 1
        /\ n > SLOTS_NUM => n - SLOTS_NUM - 1 \in 0 .. SLOTS_NUM - 1
        /\ (n - 1) \div 2 \in 0 .. SLOTS_NUM - 1
    BY <2>1
  <2>3. \A j \in 0 .. SLOTS_NUM - 1 : <<h1(k), j>> \in Slots /\ <<h2(k), j>> \in Slots
    BY SMT DEF Slots
  <2>4. /\ Scan[k][n] = IF n <= SLOTS_NUM THEN <<h1(k), n - 1>> ELSE <<h2(k), n - SLOTS_NUM - 1>>
        /\ Queued[k][n] = <<IF n % 2 = 1 THEN h1(k) ELSE h2(k), (n - 1) \div 2>>
    BY SMT DEF Scan, Queued
  <2>5. n <= SLOTS_NUM \/ n > SLOTS_NUM
    BY <2>1
  <2>6. Scan[k][n] \in Slots
    BY <2>2, <2>3, <2>4, <2>5, Zenon
  <2>7. Queued[k][n] \in Slots
    BY <2>2, <2>3, <2>4, Zenon
  <2> QED
    BY <2>6, <2>7
<1>2. /\ Scan[k] \in [1 .. 2 * SLOTS_NUM -> Slots]
      /\ Queued[k] \in [1 .. 2 * SLOTS_NUM -> Slots]
  BY <1>1 DEF Scan, Queued
<1> QED
  BY <1>2 DEF Buckets, Range

\* The search queues the slots that get and put scan.
LEMMA QueuedIsScanned ==
    ASSUME NEW k \in Keys, NEW n \in 1 .. 2 * SLOTS_NUM
    PROVE  Queued[k][n] \in Buckets(k)
<1> DEFINE half == (n - 1) \div 2
           m == IF n % 2 = 1 THEN half + 1 ELSE SLOTS_NUM + half + 1
<1>1. SLOTS_NUM \in Nat
  BY Constants
<1>2. /\ half \in 0 .. SLOTS_NUM - 1
      /\ m \in 1 .. 2 * SLOTS_NUM
      /\ n % 2 = 1 => m <= SLOTS_NUM /\ m - 1 = half
      /\ n % 2 # 1 => ~(m <= SLOTS_NUM) /\ m - SLOTS_NUM - 1 = half
  BY <1>1
<1>3. Queued[k][n] = <<IF n % 2 = 1 THEN h1(k) ELSE h2(k), half>>
  BY DEF Queued
<1>4. Scan[k][m] = IF m <= SLOTS_NUM THEN <<h1(k), m - 1>> ELSE <<h2(k), m - SLOTS_NUM - 1>>
  BY <1>2 DEF Scan
<1>5. Queued[k][n] = Scan[k][m]
  <2> HIDE DEF m, half
  <2> QED
    BY <1>2, <1>3, <1>4
<1> HIDE DEF m
<1> QED
  BY <1>2, <1>5, ScanSlots

\* The numbers up to which Others can be computed include 2 * SLOTS_NUM.
LEMMA OthersDefined ==
    ASSUME NEW k \in Keys, NEW p
    PROVE  \E f : f = [i \in 0 .. 2 * SLOTS_NUM |->
                        IF i = 0 THEN <<>>
                        ELSE IF Queued[k][i] \in Range(p) THEN f[i - 1]
                        ELSE Append(f[i - 1], Queued[k][i])]
<1> DEFINE Step(f, i) == IF i = 0 THEN <<>>
                         ELSE IF Queued[k][i] \in Range(p) THEN f[i - 1]
                         ELSE Append(f[i - 1], Queued[k][i])
           Computes(f, m) == f = [i \in 0 .. m |-> Step(f, i)]
           Computable(m) == \E f : Computes(f, m)
           Not == {m \in Nat : ~Computable(m)}
<1>1. SUFFICES ASSUME Not # {} PROVE FALSE
  <2>1. 2 * SLOTS_NUM \in Nat
    BY Constants
  <2>2. CASE Not = {}
    <3>1. \E f : Computes(f, 2 * SLOTS_NUM)
      BY <2>1, <2>2
    <3> QED
      BY <3>1
  <2> QED
    BY <1>1, <2>2
<1>2. PICK m \in Not : \A n \in Not : m <= n
  BY <1>1, LeastNumber
<1>3. CASE m = 0
  <2> DEFINE f == [i \in 0 .. 0 |-> <<>>]
  <2>1. f = [i \in 0 .. 0 |-> Step(f, i)]
    OBVIOUS
  <2> QED
    BY <1>2, <1>3, <2>1
<1>4. CASE m # 0
  <2>1. m \in Nat /\ m - 1 \in Nat /\ m - 1 \notin Not
    <3> HIDE DEF Computable
    <3> QED
      BY <1>2, <1>4
  <2>2. PICK f : Computes(f, m - 1)
    <3>1. Computable(m - 1)
      <4> HIDE DEF Computable
      <4> QED
        BY <2>1
    <3> QED
      BY <3>1
  <2> DEFINE g == [i \in 0 .. m |-> IF i < m THEN f[i] ELSE Step(f, m)]
  <2>3. ASSUME NEW i \in 0 .. m PROVE g[i] = Step(g, i)
    <3>1. CASE i < m
      <4>0. i \in 0 .. m - 1
        BY <2>1, <3>1
      <4>1. f[i] = Step(f, i)
        BY <2>2, <4>0, Zenon
      <4>2. i # 0 => i - 1 \in 0 .. m /\ i - 1 < m
        BY <2>1, <3>1
      <4>3. i # 0 => g[i - 1] = f[i - 1]
        BY <4>2
      <4> QED
        BY <3>1, <4>1, <4>3
    <3>2. CASE i = m
      <4>1. m - 1 \in 0 .. m /\ m - 1 < m
        BY <2>1
      <4>2. g[m - 1] = f[m - 1]
        BY <4>1
      <4> QED
        BY <1>4, <2>1, <3>2, <4>2
    <3> QED
      BY <2>1, <3>1, <3>2
  <2>4. g = [i \in 0 .. m |-> Step(g, i)]
    BY <2>3
  <2> QED
    BY <1>2, <2>4
<1> QED
  BY <1>3, <1>4

\* Others returns slots of k that are not on the path.
LEMMA OthersAre ==
    ASSUME NEW k \in Keys, NEW p
    PROVE  /\ Others(k, p) \in Seq(Slots)
           /\ \A j \in DOMAIN Others(k, p) :
                Others(k, p)[j] \in Buckets(k) /\ Others(k, p)[j] \notin Range(p)
<1> DEFINE f == CHOOSE f : f = [i \in 0 .. 2 * SLOTS_NUM |->
                        IF i = 0 THEN <<>>
                        ELSE IF Queued[k][i] \in Range(p) THEN f[i - 1]
                        ELSE Append(f[i - 1], Queued[k][i])]
           Good(s) == s \in Seq(Slots) /\ \A j \in DOMAIN s : s[j] \in Buckets(k) /\ s[j] \notin Range(p)
           Bad == {m \in 0 .. 2 * SLOTS_NUM : ~Good(f[m])}
<1>0. 2 * SLOTS_NUM \in Nat
  BY Constants
<1>1. Others(k, p) = f[2 * SLOTS_NUM]
  BY DEF Others
<1>2. f = [i \in 0 .. 2 * SLOTS_NUM |->
             IF i = 0 THEN <<>>
             ELSE IF Queued[k][i] \in Range(p) THEN f[i - 1]
             ELSE Append(f[i - 1], Queued[k][i])]
  BY OthersDefined
<1> HIDE DEF f
<1>3. SUFFICES ASSUME Bad # {} PROVE FALSE
  BY <1>0, <1>1, <1>3
<1>4. PICK m \in Bad : \A n \in Bad : m <= n
  <2>1. Bad \subseteq Nat
    BY <1>0
  <2> QED
    BY <1>3, <2>1, LeastNumber
<1>5. m \in 0 .. 2 * SLOTS_NUM /\ ~Good(f[m])
  BY <1>4
<1>6. m # 0
  BY <1>0, <1>2, <1>5
<1>7. m - 1 \in 0 .. 2 * SLOTS_NUM /\ Good(f[m - 1])
  BY <1>0, <1>4, <1>5, <1>6
<1>8. CASE Queued[k][m] \in Range(p)
  BY <1>2, <1>5, <1>6, <1>7, <1>8
<1>9. CASE Queued[k][m] \notin Range(p)
  <2>1. f[m] = Append(f[m - 1], Queued[k][m])
    BY <1>2, <1>5, <1>6, <1>9
  <2>2. Queued[k][m] \in Slots /\ Queued[k][m] \in Buckets(k)
    BY <1>5, <1>6, QueuedIsScanned, ScanSlots
  <2> DEFINE q == Queued[k][m]
             r == f[m - 1]
  <2>3. Good(Append(r, q))
    <3> HIDE DEF q, r
    <3>1. r \in Seq(Slots) /\ q \in Slots
      BY <1>7, <2>2 DEF q, r
    <3>2. Append(r, q) \in Seq(Slots)
      BY <3>1
    <3>3. ASSUME NEW j \in DOMAIN Append(r, q)
          PROVE  Append(r, q)[j] = q \/ (j \in DOMAIN r /\ Append(r, q)[j] = r[j])
      <4>1. Len(Append(r, q)) = Len(r) + 1 /\ Len(r) \in Nat /\ DOMAIN r = 1 .. Len(r)
        BY <3>1
      <4>2. DOMAIN Append(r, q) = 1 .. Len(Append(r, q))
        BY <3>2
      <4>2a. j \in 1 .. Len(r) + 1
        BY <4>1, <4>2, Zenon
      <4>3. j = Len(r) + 1 => Append(r, q)[j] = q
        BY <3>1
      <4>4. j \in 1 .. Len(r) => Append(r, q)[j] = r[j]
        BY <3>1
      <4> QED
        BY <4>1, <4>2a, <4>3, <4>4
    <3>4. /\ \A j \in DOMAIN r : r[j] \in Buckets(k) /\ r[j] \notin Range(p)
          /\ q \in Buckets(k) /\ q \notin Range(p)
      BY <1>7, <1>9, <2>2 DEF q, r
    <3> QED
      BY <3>2, <3>3, <3>4
  <2> QED
    BY <1>5, <2>1, <2>3
<1> QED
  BY <1>8, <1>9

-----------------------------------------------------------------------------
(* Types.                                                                   *)

Step(t) == BeginGet(t) \/ BeginPut(t) \/ get(t) \/ put(t)

\* The call a thread is in, and the node it has allocated.
LEMMA CallTyped ==
    ASSUME Typed, NEW t \in Threads, todo[t] # <<>>
    PROVE  /\ Call(t) \in Calls /\ Key(t) \in Keys
           /\ Call(t).op = "put" => Call(t).val \in Vals
           /\ Call(t).op \in {"put", "get"}
           /\ Tail(todo[t]) \in Seq(Calls)
           /\ NewNode(t) \in Nodes /\ NewNode(t).key = Key(t)
<1>1. todo[t] \in Seq(Calls)
  BY DEF Typed
<1>2. Call(t) \in Calls /\ Tail(todo[t]) \in Seq(Calls) /\ Len(todo[t]) \in Nat
  BY <1>1 DEF Call
<1>3. /\ Key(t) \in Keys
      /\ Call(t).op = "put" => Call(t).val \in Vals
      /\ Call(t).op \in {"put", "get"}
  BY <1>2 DEF Calls, Put, Get, Key
<1> QED
  BY <1>2, <1>3 DEF NewNode, Nodes

LEMMA BlankTyped ==
    /\ Blank \in Locals
    /\ \A n \in 1 .. 2 * SLOTS_NUM : [Blank EXCEPT !.n = n] \in Locals
    /\ \A a \in 0 .. MaxAttempts - 1 : [Blank EXCEPT !.attempt = a] \in Locals
    /\ \A n \in 1 .. 2 * SLOTS_NUM, a \in 0 .. MaxAttempts - 1 :
         [Blank EXCEPT !.n = n, !.attempt = a] \in Locals
    /\ \A q \in Seq(Paths), a \in 0 .. MaxAttempts - 1 :
         [Blank EXCEPT !.que = q, !.attempt = a] \in Locals
    /\ \A s \in Slots, a \in 0 .. MaxAttempts - 1 :
         [Blank EXCEPT !.slot = s, !.attempt = a] \in Locals
    /\ \A p \in Seq(Slots), h \in Seq(Nat), i \in Nat, a \in 0 .. MaxAttempts - 1 :
         [Blank EXCEPT !.path = p, !.hist = h, !.i = i, !.attempt = a] \in Locals
<1>1. 1 \in 1 .. 2 * SLOTS_NUM /\ 0 \in 0 .. MaxAttempts - 1
  BY Constants
<1>2. <<>> \in Seq(Paths) /\ <<>> \in Seq(Slots) /\ <<>> \in Seq(Nat)
  OBVIOUS
<1> QED
  BY <1>1, <1>2 DEF Blank, Locals

LEMMA LocTyped ==
    ASSUME Typed, NEW t \in Threads
    PROVE  loc[t] \in Locals /\ loc[t].n \in 1 .. 2 * SLOTS_NUM /\ loc[t].attempt \in 0 .. MaxAttempts - 1
BY DEF Typed, Locals

\* What a thread does to its locals and where it goes, in the steps that put
\* and get share.
LEMMA FailGoes ==
    ASSUME Typed, NEW t \in Threads, Fail(t)
    PROVE  /\ loc' \in [Threads -> Locals] /\ loc' = [loc EXCEPT ![t] = loc'[t]]
           /\ loc'[t].n = 1
           /\ pc' = [pc EXCEPT ![t] = pc'[t]]
           /\ \/ pc'[t] = "put" /\ UNCHANGED <<todo, may, answer>>
              \/ /\ pc'[t] = "idle" /\ todo' = [todo EXCEPT ![t] = Tail(@)]
                 /\ may' = [may EXCEPT ![t] = {}] /\ answer' = [answer EXCEPT ![t] = NULL]
<1>1. loc \in [Threads -> Locals] /\ pc \in [Threads -> PCs]
  BY DEF Typed
<1>2. CASE loc[t].attempt + 1 < MaxAttempts
  <2>1. loc[t].attempt + 1 \in 0 .. MaxAttempts - 1
    BY <1>2, LocTyped, Constants
  <2> DEFINE r == [Blank EXCEPT !.attempt = loc[t].attempt + 1]
  <2>2a. r \in Locals
    BY <2>1, BlankTyped, Zenon
  <2>2b. r.n = 1
    BY DEF Blank
  <2>2. r \in Locals /\ r.n = 1
    BY <2>2a, <2>2b
  <2>3. loc' = [loc EXCEPT ![t] = r] /\ pc' = [pc EXCEPT ![t] = "put"] /\ UNCHANGED <<todo, may, answer>>
    BY <1>2 DEF Fail, Goto
  <2> HIDE DEF r
  <2> QED
    BY <1>1, <2>2, <2>3
<1>3. CASE ~(loc[t].attempt + 1 < MaxAttempts)
  <2>1. Return(t, NULL)
    BY <1>3 DEF Fail
  <2>2. Blank \in Locals /\ Blank.n = 1
    BY BlankTyped DEF Blank
  <2> QED
    BY <1>1, <2>1, <2>2 DEF Return, Goto
<1> QED
  BY <1>2, <1>3

LEMMA ScanOnGoes ==
    ASSUME Typed, NEW t \in Threads, ScanOn(t), Key(t) \in Keys
    PROVE  /\ loc' \in [Threads -> Locals] /\ loc' = [loc EXCEPT ![t] = loc'[t]]
           /\ pc' = [pc EXCEPT ![t] = pc'[t]]
           /\ \/ pc'[t] = "put" /\ loc[t].n < 2 * SLOTS_NUM /\ loc'[t].n = loc[t].n + 1
              \/ pc'[t] = "search" /\ loc[t].n = 2 * SLOTS_NUM /\ loc'[t].que = First(Key(t))
<1>1. loc \in [Threads -> Locals] /\ pc \in [Threads -> PCs]
  BY DEF Typed
<1>2. CASE loc[t].n < 2 * SLOTS_NUM
  <2>1. loc[t].n + 1 \in 1 .. 2 * SLOTS_NUM
    BY <1>2, LocTyped, Constants
  <2> DEFINE r == [Blank EXCEPT !.n = loc[t].n + 1, !.attempt = loc[t].attempt]
  <2>2. r \in Locals
    BY <2>1, LocTyped, BlankTyped, Zenon
  <2>3. r.n = loc[t].n + 1
    BY DEF Blank
  <2>4. loc' = [loc EXCEPT ![t] = r] /\ pc' = [pc EXCEPT ![t] = "put"]
    BY <1>2 DEF ScanOn, Goto
  <2> HIDE DEF r
  <2> QED
    BY <1>1, <1>2, <2>2, <2>3, <2>4
<1>3. CASE ~(loc[t].n < 2 * SLOTS_NUM)
  <2>1. loc[t].n = 2 * SLOTS_NUM
    BY <1>3, LocTyped, Constants
  <2>2. First(Key(t)) \in Seq(Paths)
    <3>1. \A i \in 1 .. 2 * SLOTS_NUM : <<Queued[Key(t)][i]>> \in Seq(Slots)
      <4>1. \A i \in 1 .. 2 * SLOTS_NUM : Queued[Key(t)][i] \in Slots
        BY ScanSlots
      <4>2. \A x \in Slots : <<x>> \in Seq(Slots)
        OBVIOUS
      <4> QED
        BY <4>1, <4>2, Zenon
    <3>2. \A i \in 1 .. 2 * SLOTS_NUM : [path |-> <<Queued[Key(t)][i]>>, hist |-> <<>>] \in Paths
      <4>1. <<>> \in Seq(Nat)
        OBVIOUS
      <4> QED
        BY <3>1, <4>1 DEF Paths
    <3>3. First(Key(t)) = [i \in 1 .. 2 * SLOTS_NUM |-> [path |-> <<Queued[Key(t)][i]>>, hist |-> <<>>]]
      BY DEF First
    <3>4. First(Key(t)) \in [1 .. 2 * SLOTS_NUM -> Paths]
      BY <3>2, <3>3, Zenon
    <3>5. 2 * SLOTS_NUM \in Nat
      BY Constants
    <3> QED
      BY <3>4, <3>5, SeqDef, Zenon
  <2> DEFINE q == First(Key(t))
             r == [Blank EXCEPT !.que = q, !.attempt = loc[t].attempt]
  <2>3. r.que = q
    BY DEF Blank
  <2>4. loc' = [loc EXCEPT ![t] = r] /\ pc' = [pc EXCEPT ![t] = "search"]
    BY <1>3 DEF ScanOn, Goto
  <2>5. r \in Locals
    <3> HIDE DEF q
    <3> QED
      BY <2>2, LocTyped, BlankTyped DEF q
  <2> HIDE DEF r
  <2> QED
    BY <1>1, <2>1, <2>3, <2>4, <2>5
<1> QED
  BY <1>2, <1>3

LEMMA NextSlotGoes ==
    ASSUME Typed, NEW t \in Threads, NextSlot(t)
    PROVE  /\ loc' \in [Threads -> Locals] /\ loc' = [loc EXCEPT ![t] = loc'[t]]
           /\ pc' = [pc EXCEPT ![t] = pc'[t]]
           /\ \/ pc'[t] = "get" /\ UNCHANGED <<todo, may, answer>>
              \/ /\ pc'[t] = "idle" /\ todo' = [todo EXCEPT ![t] = Tail(@)]
                 /\ may' = [may EXCEPT ![t] = {}] /\ answer' = [answer EXCEPT ![t] = NULL]
<1>1. loc \in [Threads -> Locals] /\ pc \in [Threads -> PCs]
  BY DEF Typed
<1>2. CASE loc[t].n < 2 * SLOTS_NUM
  <2>1. loc[t].n + 1 \in 1 .. 2 * SLOTS_NUM
    BY <1>2, LocTyped, Constants
  <2> DEFINE r == [Blank EXCEPT !.n = loc[t].n + 1]
  <2>2. r \in Locals
    BY <2>1, BlankTyped, Zenon
  <2>3. loc' = [loc EXCEPT ![t] = r] /\ pc' = [pc EXCEPT ![t] = "get"] /\ UNCHANGED <<todo, may, answer>>
    BY <1>2 DEF NextSlot, Goto
  <2> HIDE DEF r
  <2> QED
    BY <1>1, <2>2, <2>3
<1>3. CASE ~(loc[t].n < 2 * SLOTS_NUM)
  BY <1>1, <1>3, BlankTyped DEF NextSlot, Return, Goto
<1> QED
  BY <1>2, <1>3

\* The path that add_next_node takes from the queue.
Next_Path(t) == Head(loc[t].que).path
Next_Hist(t) == Append(Head(loc[t].que).hist, key_versions[Last(Next_Path(t))])
Next_Key(t)  == table[Last(Next_Path(t))].key

LEMMA TableTyped ==
    ASSUME Typed, NEW s \in Slots, table[s] # NULL
    PROVE  table[s] \in DOMAIN val /\ table[s] \in Nodes /\ table[s].key \in Keys
BY DEF Typed, Nodes

\* The path ends with a node, whose slots may prolong it.
LEMMA NextPath ==
    ASSUME Inductive, NEW t \in Threads, pc[t] = "search", loc[t].que # <<>>
    PROVE  /\ Head(loc[t].que) \in Paths /\ Tried(t, Head(loc[t].que))
           /\ Next_Path(t) \in Seq(Slots) /\ Len(Next_Path(t)) \in Nat \ {0}
           /\ Last(Next_Path(t)) = Next_Path(t)[Len(Next_Path(t))]
           /\ Last(Next_Path(t)) \in Slots /\ Next_Key(t) \in Keys
           /\ Next_Hist(t) \in Seq(Nat) /\ Len(Next_Hist(t)) = Len(Next_Path(t))
           /\ \A n \in 1 .. Len(Next_Path(t)) : Next_Hist(t)[n] =
                IF n = Len(Next_Path(t)) THEN key_versions[Last(Next_Path(t))]
                ELSE Head(loc[t].que).hist[n]
<1> DEFINE e == Head(loc[t].que)
<1>1. Typed /\ TriedAll(t)
  BY DEF Inductive
<1>2. loc[t].que \in Seq(Paths)
  BY <1>1 DEF Typed, Locals
<1>3. e \in Paths /\ e = loc[t].que[1] /\ 1 \in DOMAIN loc[t].que
  BY <1>2
<1>4. Tried(t, e)
  BY <1>1, <1>3, Zenon DEF TriedAll
<1> HIDE DEF e
<1>5. e.path \in Seq(Slots) /\ e.hist \in Seq(Nat)
  BY <1>3 DEF Paths
<1>6. Len(e.path) \in Nat \ {0} /\ Len(e.hist) = Len(e.path) - 1
  BY <1>4, <1>5 DEF Tried
<1>7. Last(e.path) = e.path[Len(e.path)] /\ Len(e.path) \in DOMAIN e.path
  BY <1>5, <1>6 DEF Last
<1>8. Last(e.path) \in Slots
  BY <1>5, <1>7
<1>9. table[Last(e.path)] # NULL
  BY <1>4, <1>7, Zenon DEF Tried
<1>10. table[Last(e.path)].key \in Keys
  BY <1>1, <1>8, <1>9, TableTyped, Zenon
<1>11. key_versions[Last(e.path)] \in Nat
  BY <1>1, <1>8 DEF Typed
<1> DEFINE v == key_versions[Last(e.path)]
           h == Append(e.hist, v)
<1>12. h \in Seq(Nat) /\ Len(h) = Len(e.path) /\ \A n \in 1 .. Len(e.path) : h[n] = IF n = Len(e.path) THEN v ELSE e.hist[n]
  <2> HIDE DEF v
  <2>1. v \in Nat
    BY <1>11 DEF v
  <2> QED
    BY <1>5, <1>6, <2>1
<1> QED
  BY <1>3, <1>4, <1>5, <1>6, <1>7, <1>8, <1>10, <1>12 DEF e, Next_Path, Next_Hist, Next_Key

\* The search ends with a null slot that the last node may go to, or it has
\* looked at all the slots of that node, none of them null, and goes on.
LEMMA SearchGoes ==
    ASSUME Inductive, NEW t \in Threads, Search(t)
    PROVE  /\ pc[t] = "search" /\ loc[t].que # <<>>
           /\ pc' = [pc EXCEPT ![t] = pc'[t]]
           /\ \/ /\ pc'[t] = "move"
                 /\ \E end \in Buckets(Next_Key(t)) :
                      /\ table[end] = NULL
                      /\ loc' = [loc EXCEPT ![t] = [Blank EXCEPT
                                   !.path = Append(Next_Path(t), end),
                                   !.hist = Append(Next_Hist(t), key_versions[end]),
                                   !.i = Len(Next_Path(t)) + 1, !.attempt = loc[t].attempt]]
              \/ /\ pc'[t] = "search"
                 /\ \A s \in Buckets(Next_Key(t)) : table[s] # NULL
                 /\ LET longer == Others(Next_Key(t), Next_Path(t)) IN
                    loc' = [loc EXCEPT ![t].que = Tail(@) \o
                              [i \in DOMAIN longer |->
                                 [path |-> Append(Next_Path(t), longer[i]), hist |-> Next_Hist(t)]]]
<1> DEFINE p      == Head(loc[t].que).path
           last   == Last(p)
           k      == table[last].key
           h      == Append(Head(loc[t].que).hist, key_versions[last])
           nulls  == {i \in DOMAIN Scan[k] : table[Scan[k][i]] = NULL}
           end    == Scan[k][Min(nulls)]
           longer == Others(k, p)
<1>1. pc[t] = "search" /\ loc[t].que # <<>>
  BY DEF Search
<1>2. pc \in [Threads -> PCs]
  BY DEF Inductive, Typed
<1>3. k \in Keys /\ p = Next_Path(t) /\ k = Next_Key(t) /\ h = Next_Hist(t)
  BY <1>1, NextPath DEF Next_Path, Next_Key, Next_Hist
<1>4. DOMAIN Scan[k] = 1 .. 2 * SLOTS_NUM /\ \A n \in 1 .. 2 * SLOTS_NUM : Scan[k][n] \in Buckets(k)
  BY <1>3, ScanSlots
<1>5. CASE nulls # {}
  <2>1. /\ loc' = [loc EXCEPT ![t] = [Blank EXCEPT
                     !.path = Append(p, end), !.hist = Append(h, key_versions[end]),
                     !.i = Len(p) + 1, !.attempt = loc[t].attempt]]
        /\ Goto(t, "move")
    BY <1>5 DEF Search
  <2>2. nulls \subseteq Nat
    <3>1. nulls \subseteq DOMAIN Scan[k]
      <4> HIDE DEF k
      <4> QED
        OBVIOUS
    <3>2. 1 .. 2 * SLOTS_NUM \subseteq Nat
      BY Constants
    <3> HIDE DEF k, nulls
    <3> QED
      BY <1>4, <3>1, <3>2, Zenon
  <2> HIDE DEF k, p, h
  <2>3. Min(nulls) \in nulls
    <3> HIDE DEF nulls
    <3> QED
      BY <1>5, <2>2, MinIsIn
  <2>4. end \in Buckets(k) /\ table[end] = NULL
    <3> DEFINE m == Min(nulls)
    <3>1. m \in 1 .. 2 * SLOTS_NUM /\ table[Scan[k][m]] = NULL
      <4> HIDE DEF m
      <4>1. m \in nulls
        BY <2>3 DEF m
      <4> QED
        BY <1>4, <4>1
    <3> HIDE DEF m
    <3>2. Scan[k][m] \in Buckets(k)
      BY <1>4, <3>1
    <3> QED
      BY <3>1, <3>2 DEF m
  <2>5. pc' = [pc EXCEPT ![t] = "move"]
    BY <2>1 DEF Goto
  <2> HIDE DEF end
  <2> QED
    BY <1>1, <1>2, <1>3, <2>1, <2>4, <2>5
<1>6. CASE nulls = {}
  <2>1. /\ loc' = [loc EXCEPT ![t].que = Tail(@) \o
                     [i \in DOMAIN longer |-> [path |-> Append(p, longer[i]), hist |-> h]]]
        /\ UNCHANGED pc
    BY <1>6 DEF Search
  <2>2. ASSUME NEW s \in Buckets(k) PROVE table[s] # NULL
    <3> HIDE DEF k
    <3>1. PICK n \in DOMAIN Scan[k] : s = Scan[k][n]
      BY Zenon DEF Buckets, Range
    <3>2. n \notin nulls
      BY <1>6
    <3> QED
      BY <3>1, <3>2
  <2> QED
    BY <1>1, <1>2, <1>3, <2>1, <2>2
<1> QED
  BY <1>5, <1>6

LEMMA SearchTyped ==
    ASSUME Inductive, NEW t \in Threads, Search(t)
    PROVE  loc' \in [Threads -> Locals] /\ loc' = [loc EXCEPT ![t] = loc'[t]]
<1> DEFINE p == Next_Path(t)
           h == Next_Hist(t)
           k == Next_Key(t)
<1>1. Typed /\ loc \in [Threads -> Locals] /\ key_versions \in [Slots -> Nat]
  BY DEF Inductive, Typed
<1>2. pc[t] = "search" /\ loc[t].que # <<>>
  BY SearchGoes
<1>3. /\ p \in Seq(Slots) /\ h \in Seq(Nat) /\ k \in Keys /\ Len(p) \in Nat
  BY <1>2, NextPath
<1>4. ASSUME NEW end \in Buckets(k),
             loc' = [loc EXCEPT ![t] = [Blank EXCEPT !.path = Append(p, end), !.hist = Append(h, key_versions[end]),
                                          !.i = Len(p) + 1, !.attempt = loc[t].attempt]]
      PROVE  loc' \in [Threads -> Locals] /\ loc' = [loc EXCEPT ![t] = loc'[t]]
  <2>1. end \in Slots
    BY <1>3, ScanSlots
  <2>2. key_versions[end] \in Nat
    BY <1>1, <2>1
  <2> DEFINE v == key_versions[end]
             pp == Append(p, end)
             hh == Append(h, v)
             ii == Len(p) + 1
             a == loc[t].attempt
             r == [Blank EXCEPT !.path = pp, !.hist = hh, !.i = ii, !.attempt = a]
  <2>3. pp \in Seq(Slots) /\ hh \in Seq(Nat) /\ ii \in Nat
    <3> HIDE DEF p, h, v
    <3> QED
      BY <1>3, <2>1, <2>2 DEF v
  <2>4. a \in 0 .. MaxAttempts - 1
    BY <1>1, LocTyped
  <2> HIDE DEF pp, hh, ii, a
  <2>5. r \in Locals
    BY <2>3, <2>4, BlankTyped, Zenon
  <2>6. loc' = [loc EXCEPT ![t] = r]
    BY <1>4 DEF pp, hh, ii, a
  <2> HIDE DEF r
  <2> QED
    BY <1>1, <2>5, <2>6
<1>5. ASSUME NEW longer, longer = Others(k, p),
             loc' = [loc EXCEPT ![t].que = Tail(@) \o
                      [i \in DOMAIN longer |-> [path |-> Append(p, longer[i]), hist |-> h]]]
      PROVE  loc' \in [Threads -> Locals] /\ loc' = [loc EXCEPT ![t] = loc'[t]]
  <2>1. longer \in Seq(Slots)
    BY <1>3, <1>5, OthersAre
  <2> DEFINE more == [i \in DOMAIN longer |-> [path |-> Append(p, longer[i]), hist |-> h]]
             q == Tail(loc[t].que) \o more
             r == [loc[t] EXCEPT !.que = q]
  <2>2. more \in Seq(Paths)
    <3>1. \A i \in DOMAIN longer : longer[i] \in Slots
      BY <2>1
    <3>2. \A s \in Slots : Append(p, s) \in Seq(Slots)
      <4> HIDE DEF p
      <4> QED
        BY <1>3
    <3>3. \A i \in DOMAIN longer : [path |-> Append(p, longer[i]), hist |-> h] \in Paths
      <4> HIDE DEF p, h
      <4> QED
        BY <1>3, <3>1, <3>2 DEF Paths
    <3>4. more \in [DOMAIN longer -> Paths]
      <4> HIDE DEF p, h
      <4> QED
        BY <3>3, Zenon
    <3>5. DOMAIN longer = 1 .. Len(longer) /\ Len(longer) \in Nat
      BY <2>1
    <3> HIDE DEF more
    <3> QED
      BY <3>4, <3>5, SeqDef, Zenon
  <2>3. q \in Seq(Paths)
    <3> HIDE DEF more
    <3>1. loc[t].que \in Seq(Paths)
      BY <1>1 DEF Locals
    <3>2. Tail(loc[t].que) \in Seq(Paths)
      BY <1>2, <3>1
    <3> QED
      BY <2>2, <3>2
  <2>4. loc' = [loc EXCEPT ![t] = r]
    <3> HIDE DEF more
    <3>1. loc' = [loc EXCEPT ![t].que = Tail(@) \o more]
      BY <1>5 DEF more
    <3> QED
      BY <1>1, <3>1
  <2> HIDE DEF q
  <2>5. r \in Locals
    BY <1>1, <2>3 DEF Locals
  <2> HIDE DEF r
  <2> QED
    BY <1>1, <2>4, <2>5
<1> QED
  BY <1>4, <1>5, SearchGoes

\* In a step of t, only t's locals and program counter change, and t's calls
\* stay or lose the first.
LEMMA StepGoes ==
    ASSUME Inductive, NEW t \in Threads, Step(t)
    PROVE  /\ loc' \in [Threads -> Locals] /\ loc' = [loc EXCEPT ![t] = loc'[t]]
           /\ pc' \in [Threads -> PCs] /\ pc' = [pc EXCEPT ![t] = pc'[t]]
           /\ \/ UNCHANGED todo
              \/ pc'[t] = "idle" /\ todo' = [todo EXCEPT ![t] = Tail(@)]
<1> DEFINE Typ == /\ loc' \in [Threads -> Locals] /\ loc' = [loc EXCEPT ![t] = loc'[t]]
                  /\ pc' \in [Threads -> PCs] /\ pc' = [pc EXCEPT ![t] = pc'[t]]
                  /\ \/ UNCHANGED todo
                     \/ pc'[t] = "idle" /\ todo' = [todo EXCEPT ![t] = Tail(@)]
<1>1. Typed /\ InCall(t) /\ OnPath(t)
  BY DEF Inductive
<1>2. loc \in [Threads -> Locals] /\ pc \in [Threads -> PCs] /\ loc[t] \in Locals
  BY <1>1 DEF Typed
<1>3. pc[t] \in Putting => Key(t) \in Keys
  BY <1>1, CallTyped DEF InCall
<1>4. CASE BeginGet(t)
  BY <1>2, <1>4 DEF BeginGet, Goto, PCs
<1>5. CASE BeginPut(t)
  BY <1>2, <1>5 DEF BeginPut, Goto, PCs
<1>6. CASE GetNode(t)
  <2>1. CASE Matches(table[At(t)], Key(t))
    <3>1. At(t) \in Slots
      <4>1. Key(t) \in Keys
        BY <1>1, <1>6, CallTyped DEF GetNode, InCall, Getting
      <4> QED
        BY <1>1, <4>1, LocTyped, ScanSlots DEF At
    <3>2. table[At(t)] \in Nodes
      BY <1>1, <2>1, <3>1, TableTyped DEF Matches
    <3>3. [loc[t] EXCEPT !.node = table[At(t)]] \in Locals
      BY <1>2, <3>2 DEF Locals
    <3>4. /\ loc' = [loc EXCEPT ![t] = [loc[t] EXCEPT !.node = table[At(t)]]]
          /\ pc' = [pc EXCEPT ![t] = "getVersion"] /\ UNCHANGED todo
      BY <1>2, <1>6, <2>1 DEF GetNode, Goto
    <3> QED
      BY <1>2, <3>3, <3>4 DEF PCs
  <2>2. CASE ~Matches(table[At(t)], Key(t))
    <3>1. NextSlot(t)
      BY <1>6, <2>2 DEF GetNode
    <3> QED
      BY <1>1, <1>2, <3>1, NextSlotGoes DEF PCs
  <2> QED
    BY <2>1, <2>2
<1>7. CASE GetVersion(t)
  <2>1. At(t) \in Slots
    <3>1. Key(t) \in Keys
      BY <1>1, <1>7, CallTyped DEF GetVersion, InCall, Getting
    <3> QED
      BY <1>1, <3>1, LocTyped, ScanSlots DEF At
  <2>2. key_versions[At(t)] \in Nat
    BY <1>1, <2>1 DEF Typed
  <2>3. [loc[t] EXCEPT !.ver = key_versions[At(t)]] \in Locals
    BY <1>2, <2>2 DEF Locals
  <2>4. /\ loc' = [loc EXCEPT ![t] = [loc[t] EXCEPT !.ver = key_versions[At(t)]]]
        /\ pc' = [pc EXCEPT ![t] = "getVal"] /\ UNCHANGED todo
    BY <1>2, <1>7 DEF GetVersion, Goto
  <2> QED
    BY <1>2, <2>3, <2>4 DEF PCs
<1>8. CASE GetVal(t)
  <2>1. val[loc[t].node] \in Vals
    BY <1>1, <1>8 DEF GetVal, InCall, Typed
  <2>2. [loc[t] EXCEPT !.got = val[loc[t].node]] \in Locals
    BY <1>2, <2>1 DEF Locals
  <2>3. /\ loc' = [loc EXCEPT ![t] = [loc[t] EXCEPT !.got = val[loc[t].node]]]
        /\ pc' = [pc EXCEPT ![t] = "getCheck"] /\ UNCHANGED todo
    BY <1>2, <1>8 DEF GetVal, Goto
  <2> QED
    BY <1>2, <2>2, <2>3 DEF PCs
<1>9. CASE GetCheck(t)
  <2>1. NextSlot(t) \/ Return(t, loc[t].got)
    BY <1>9 DEF GetCheck
  <2>2. CASE NextSlot(t)
    BY <1>1, <1>2, <2>2, NextSlotGoes DEF PCs
  <2>3. CASE Return(t, loc[t].got)
    BY <1>2, <2>3, BlankTyped DEF Return, Goto, PCs
  <2> QED
    BY <2>1, <2>2, <2>3
<1>10. CASE PutScan(t)
  <2>1. At(t) \in Slots /\ Key(t) \in Keys
    BY <1>1, <1>3, <1>10, LocTyped, ScanSlots DEF At, PutScan, Putting
  <2>2. UNCHANGED todo
    BY <1>10 DEF PutScan
  <2>3. CASE ScanOn(t)
    BY <1>1, <1>2, <2>1, <2>2, <2>3, ScanOnGoes DEF PCs
  <2>4. CASE ~ScanOn(t)
    <3> DEFINE x == table[At(t)]
               r == [loc[t] EXCEPT !.node = x, !.slot = At(t)]
    <3>1. x \in Nodes \cup {NULL}
      BY <1>1, <2>1, TableTyped
    <3>2. r \in Locals
      BY <1>2, <2>1, <3>1 DEF Locals
    <3>3. loc' = [loc EXCEPT ![t] = r]
      BY <1>2, <1>10, <2>4 DEF PutScan
    <3>4. pc' = [pc EXCEPT ![t] = "fill"] \/ pc' = [pc EXCEPT ![t] = "update"]
      BY <1>10, <2>4 DEF PutScan, Goto
    <3> HIDE DEF r
    <3> QED
      BY <1>2, <2>2, <3>2, <3>3, <3>4 DEF PCs
  <2> QED
    BY <2>3, <2>4
<1>11. CASE Fill(t)
  <2>1. Key(t) \in Keys /\ UNCHANGED todo
    BY <1>3, <1>11 DEF Fill, Putting
  <2>2. CASE ScanOn(t)
    BY <1>1, <1>2, <2>1, <2>2, ScanOnGoes DEF PCs
  <2>3. CASE ~ScanOn(t)
    BY <1>2, <1>11, <2>1, <2>3 DEF Fill, Goto, PCs
  <2> QED
    BY <2>2, <2>3
<1>12. CASE Update(t) \/ SetVal(t) \/ Store(t) \/ LockLower(t) \/ LockHigher(t) \/ Copy(t)
  BY <1>2, <1>12 DEF Update, SetVal, Store, LockLower, LockHigher, Copy, Goto, PCs
<1>13. CASE Stored(t)
  BY <1>2, <1>13, BlankTyped DEF Stored, Return, Goto, PCs
<1>14. CASE NoPath(t) \/ MoveFails(t) \/ TakeFails(t)
  <2>1. Fail(t)
    BY <1>14 DEF NoPath, MoveFails, TakeFails
  <2> QED
    BY <1>1, <1>2, <2>1, FailGoes DEF PCs
<1>15. CASE Search(t)
  <2>1. UNCHANGED todo
    BY <1>15 DEF Search
  <2> QED
    BY <1>2, <1>15, <2>1, SearchGoes, SearchTyped DEF PCs
<1>16. CASE Copied(t)
  <2>1. loc[t].i - 1 \in Nat
    <3>1. Found(t)
      BY <1>1, <1>16 DEF Copied, OnPath, Moving
    <3> QED
      BY <1>2, <3>1 DEF Found, Locals
  <2>2. [loc[t] EXCEPT !.i = loc[t].i - 1] \in Locals
    BY <1>2, <2>1 DEF Locals
  <2>3. loc' = [loc EXCEPT ![t] = [loc[t] EXCEPT !.i = loc[t].i - 1]] /\ UNCHANGED todo
    BY <1>2, <1>16 DEF Copied
  <2>4. pc' = [pc EXCEPT ![t] = "take"] \/ pc' = [pc EXCEPT ![t] = "move"]
    BY <1>16 DEF Copied, Goto
  <2> QED
    BY <1>2, <2>2, <2>3, <2>4 DEF PCs
<1>17. CASE Take(t)
  <2>1. Found(t)
    BY <1>1, <1>17 DEF Take, OnPath
  <2>2. loc[t].path \in Seq(Slots) /\ Len(loc[t].path) >= 2
    BY <1>2, <2>1 DEF Found, Locals
  <2> DEFINE s == loc[t].path[1]
             a == loc[t].attempt
             r == [Blank EXCEPT !.slot = s, !.attempt = a]
  <2>3. s \in Slots /\ a \in 0 .. MaxAttempts - 1
    BY <1>1, <2>2, LocTyped
  <2>4. /\ loc' = [loc EXCEPT ![t] = r] /\ UNCHANGED todo
        /\ pc' = [pc EXCEPT ![t] = "store"]
    BY <1>17 DEF Take, Goto
  <2>5. r \in Locals
    <3> HIDE DEF s, a
    <3> QED
      BY <2>3, BlankTyped, Zenon
  <2> HIDE DEF r
  <2> QED
    BY <1>2, <2>4, <2>5 DEF PCs
<1> QED
  BY <1>4, <1>5, <1>6, <1>7, <1>8, <1>9, <1>10, <1>11, <1>12, <1>13, <1>14, <1>15, <1>16, <1>17
     DEF Step, get, put

-----------------------------------------------------------------------------
(* The slot locks and the versions.                                         *)

Locked3 == {"setVal", "store", "stored"}
Locked2 == {"copy", "copied"}

\* Held and Writing, case by case, in a state and in the next.
LEMMA HeldIs ==
    ASSUME NEW t \in Threads
    PROVE  /\ pc[t] \in Locked3 => Held(t) = {loc[t].slot} /\ Writing(t) = {loc[t].slot}
           /\ pc[t] = "lockHigher" => Held(t) = {Lower(t)} /\ Writing(t) = {}
           /\ pc[t] \in Locked2 => Held(t) = {Lower(t), Higher(t)} /\ Writing(t) = {To(t)}
           /\ pc[t] \notin Locked3 \cup Locked2 \cup {"lockHigher"} => Held(t) = {} /\ Writing(t) = {}
BY DEF Held, Writing, Locked3, Locked2

LEMMA HeldIsNext ==
    ASSUME NEW t \in Threads
    PROVE  /\ pc'[t] \in Locked3 => Held(t)' = {loc'[t].slot} /\ Writing(t)' = {loc'[t].slot}
           /\ pc'[t] = "lockHigher" => Held(t)' = {Lower(t)'} /\ Writing(t)' = {}
           /\ pc'[t] \in Locked2 => Held(t)' = {Lower(t)', Higher(t)'} /\ Writing(t)' = {To(t)'}
           /\ pc'[t] \notin Locked3 \cup Locked2 \cup {"lockHigher"} => Held(t)' = {} /\ Writing(t)' = {}
BY DEF Held, Writing, Locked3, Locked2

\* The two slots of a move are different, and one is the lower.
LEMMA MoveSlots ==
    ASSUME Inductive, NEW t \in Threads, pc[t] \in Moving
    PROVE  /\ To(t) \in Slots /\ From(t) \in Slots /\ To(t) # From(t)
           /\ {Lower(t), Higher(t)} = {To(t), From(t)} /\ Lower(t) # Higher(t)
           /\ loc[t].i \in 2 .. Len(loc[t].path)
           /\ loc[t].path \in Seq(Slots) /\ loc[t].hist \in Seq(Nat)
           /\ Len(loc[t].path) \in Nat /\ Len(loc[t].hist) = Len(loc[t].path)
<1>1. Found(t) /\ Typed
  BY DEF Inductive, OnPath
<1>2. loc[t].path \in Seq(Slots) /\ loc[t].hist \in Seq(Nat) /\ loc[t].i \in Nat
  BY <1>1 DEF Typed, Locals
<1>3. loc[t].i \in 2 .. Len(loc[t].path) /\ Len(loc[t].path) \in Nat /\ Len(loc[t].hist) = Len(loc[t].path)
  BY <1>1, <1>2 DEF Found, Moving
<1>4. loc[t].i \in DOMAIN loc[t].path /\ loc[t].i - 1 \in DOMAIN loc[t].path /\ loc[t].i # loc[t].i - 1
  BY <1>2, <1>3
<1>5. To(t) \in Slots /\ From(t) \in Slots
  BY <1>2, <1>4 DEF To, From
<1>6. To(t) # From(t)
  <2>1. Simple(loc[t].path)
    BY <1>1 DEF Found
  <2> QED
    BY <1>4, <2>1 DEF Simple, To, From
<1>7. {Lower(t), Higher(t)} = {To(t), From(t)} /\ Lower(t) # Higher(t)
  BY <1>6, Zenon DEF Lower, Higher
<1> QED
  BY <1>2, <1>3, <1>5, <1>6, <1>7

\* A step of t changes the locks of the slots it comes to hold or to release,
\* and counts the slots it begins or ends to write to.
LockStep(t) ==
    /\ table_locks' \in [Slots -> Threads \cup {NULL}] /\ key_versions' \in [Slots -> Nat]
    /\ \A s \in Slots :
         /\ table_locks'[s] = IF s \in Held(t)' THEN t ELSE IF s \in Held(t) THEN NULL ELSE table_locks[s]
         /\ s \in Held(t)' => s \in Held(t) \/ table_locks[s] = NULL
         /\ key_versions'[s] = IF s \in Writing(t) <=> s \in Writing(t)' THEN key_versions[s]
                               ELSE key_versions[s] + 1

LEMMA LockStepSame ==
    ASSUME Typed, NEW t \in Threads, UNCHANGED <<table_locks, key_versions>>,
           Held(t)' = Held(t), Writing(t)' = Writing(t),
           \A s \in Slots : s \in Held(t) => table_locks[s] = t
    PROVE  LockStep(t)
BY DEF LockStep, Typed

LEMMA LockStepLock ==
    ASSUME Typed, NEW t \in Threads, NEW s \in Slots, LockAndCount(t, s),
           Held(t) = {}, Writing(t) = {}, Held(t)' = {s}, Writing(t)' = {s}
    PROVE  LockStep(t)
BY DEF LockStep, Typed, LockAndCount, Count, Free

LEMMA LockSteps ==
    ASSUME Inductive, NEW t \in Threads, Step(t)
    PROVE  LockStep(t)
<1>1. Typed /\ InCall(t) /\ OnPath(t) /\ LocksHeld
  BY DEF Inductive
<1>2. /\ loc \in [Threads -> Locals] /\ pc \in [Threads -> PCs] /\ loc[t] \in Locals
      /\ table_locks \in [Slots -> Threads \cup {NULL}] /\ key_versions \in [Slots -> Nat]
  BY <1>1 DEF Typed
<1>3. loc' = [loc EXCEPT ![t] = loc'[t]] /\ pc' = [pc EXCEPT ![t] = pc'[t]]
  BY StepGoes
<1>4. \A s \in Slots : s \in Held(t) => table_locks[s] = t
  BY <1>1 DEF LocksHeld
<1>5. pc[t] \in {"fill", "update", "setVal", "store", "stored"} => loc[t].slot \in Slots
  <2>1. pc[t] \in {"fill", "update", "setVal", "store", "stored"} => Key(t) \in Keys
    BY <1>1, CallTyped DEF InCall, Putting
  <2>2. pc[t] \in {"fill", "update", "setVal", "store", "stored"} => At(t) \in Slots
    BY <1>1, <2>1, LocTyped, ScanSlots DEF At
  <2> QED
    BY <1>1, <2>1, <2>2, ScanSlots DEF InCall
<1> DEFINE Idle == {"idle", "get", "getVersion", "getVal", "getCheck", "put", "fill", "update", "search", "move", "take"}
<1>6. ASSUME pc[t] \in Idle, pc'[t] \in Idle, UNCHANGED <<table_locks, key_versions>>
      PROVE  LockStep(t)
  <2>1. /\ pc[t] \notin Locked3 \cup Locked2 \cup {"lockHigher"}
        /\ pc'[t] \notin Locked3 \cup Locked2 \cup {"lockHigher"}
    BY <1>6 DEF Locked3, Locked2
  <2>2. Held(t) = {} /\ Writing(t) = {} /\ Held(t)' = {} /\ Writing(t)' = {}
    BY <2>1, HeldIs, HeldIsNext
  <2> QED
    BY <1>1, <1>6, <2>2, LockStepSame
<1>7. CASE BeginGet(t) \/ BeginPut(t)
  BY <1>2, <1>6, <1>7 DEF BeginGet, BeginPut, Begin, Running, Goto, shared
<1>8. CASE get(t)
  <2>1. pc[t] \in Idle /\ UNCHANGED shared
    BY <1>8 DEF get, GetNode, GetVersion, GetVal, GetCheck
  <2>2. pc'[t] \in Idle
    <3>1. CASE NextSlot(t)
      BY <1>1, <3>1, NextSlotGoes
    <3>2. CASE Return(t, loc[t].got)
      BY <1>2, <3>2 DEF Return, Goto
    <3>3. CASE Goto(t, "getVersion") \/ Goto(t, "getVal") \/ Goto(t, "getCheck")
      BY <1>2, <3>3 DEF Goto
    <3> QED
      BY <1>8, <3>1, <3>2, <3>3 DEF get, GetNode, GetVersion, GetVal, GetCheck
  <2> QED
    BY <1>6, <2>1, <2>2 DEF shared
<1>9. CASE PutScan(t) \/ NoPath(t) \/ Search(t) \/ TakeFails(t)
  <2>1. pc[t] \in Idle /\ UNCHANGED shared
    BY <1>9 DEF PutScan, NoPath, Search, TakeFails
  <2>2. pc'[t] \in Idle
    <3>1. CASE Fail(t)
      BY <1>1, <3>1, FailGoes
    <3>2. CASE Search(t)
      BY <3>2, SearchGoes
    <3>3. CASE PutScan(t) /\ ScanOn(t)
      <4>1. Key(t) \in Keys
        BY <1>1, <3>3, CallTyped DEF PutScan, InCall, Putting
      <4> QED
        BY <1>1, <3>3, <4>1, ScanOnGoes
    <3>4. CASE PutScan(t) /\ ~ScanOn(t)
      BY <1>2, <3>4 DEF PutScan, Goto
    <3> QED
      BY <1>9, <3>1, <3>2, <3>3, <3>4 DEF NoPath, TakeFails
  <2> QED
    BY <1>6, <2>1, <2>2 DEF shared
<1>10. CASE Fill(t)
  <2>1. pc[t] = "fill" /\ Held(t) = {} /\ Writing(t) = {}
    BY <1>10, HeldIs DEF Fill, Locked3, Locked2
  <2>2. CASE table[loc[t].slot] # NULL
    <3>1. Key(t) \in Keys
      BY <1>1, <2>1, CallTyped DEF InCall, Putting
    <3>2. pc'[t] \in {"put", "search"} /\ UNCHANGED <<table_locks, key_versions>>
      BY <1>1, <1>10, <2>2, <3>1, ScanOnGoes DEF Fill
    <3> QED
      BY <1>6, <2>1, <3>2
  <2>3. CASE table[loc[t].slot] = NULL
    <3>1. LockAndCount(t, loc[t].slot) /\ pc'[t] = "store" /\ loc' = loc
      BY <1>2, <1>10, <2>3 DEF Fill, Goto
    <3>2. Held(t)' = {loc[t].slot} /\ Writing(t)' = {loc[t].slot}
      BY <3>1, HeldIsNext DEF Locked3
    <3> QED
      BY <1>1, <1>5, <2>1, <3>1, <3>2, LockStepLock
  <2> QED
    BY <2>2, <2>3
<1>11. CASE Update(t)
  <2>1. pc[t] = "update" /\ Held(t) = {} /\ Writing(t) = {}
    BY <1>11, HeldIs DEF Update, Locked3, Locked2
  <2>2. LockAndCount(t, loc[t].slot) /\ pc'[t] = "setVal" /\ loc' = loc
    BY <1>2, <1>11 DEF Update, Goto
  <2>3. Held(t)' = {loc[t].slot} /\ Writing(t)' = {loc[t].slot}
    BY <2>2, HeldIsNext DEF Locked3
  <2> QED
    BY <1>1, <1>5, <2>1, <2>2, <2>3, LockStepLock
<1>12. CASE Take(t)
  <2>1. pc[t] = "take" /\ Held(t) = {} /\ Writing(t) = {}
    BY <1>12, HeldIs DEF Take, Locked3, Locked2
  <2>2. Found(t)
    BY <1>1, <2>1 DEF OnPath
  <2>3. loc[t].path[1] \in Slots
    BY <1>2, <2>2 DEF Found, Locals
  <2>4. LockAndCount(t, loc[t].path[1]) /\ pc'[t] = "store"
    BY <1>2, <1>12 DEF Take, Goto
  <2>5. loc'[t].slot = loc[t].path[1]
    BY <1>2, <1>12 DEF Take, Blank
  <2>6. Held(t)' = {loc[t].path[1]} /\ Writing(t)' = {loc[t].path[1]}
    BY <2>4, <2>5, HeldIsNext DEF Locked3
  <2> QED
    BY <1>1, <2>1, <2>3, <2>4, <2>6, LockStepLock
<1>13. CASE SetVal(t) \/ Store(t)
  <2>1. pc[t] \in Locked3 /\ pc'[t] \in Locked3 /\ loc' = loc /\ UNCHANGED <<table_locks, key_versions>>
    BY <1>2, <1>13 DEF SetVal, Store, Goto, Locked3
  <2>2. Held(t)' = Held(t) /\ Writing(t)' = Writing(t)
    BY <2>1, HeldIs, HeldIsNext
  <2> QED
    BY <1>1, <1>4, <2>1, <2>2, LockStepSame
<1>14. CASE Copy(t)
  <2>1. pc[t] \in Locked2 /\ pc'[t] \in Locked2 /\ loc' = loc /\ UNCHANGED <<table_locks, key_versions>>
    BY <1>2, <1>14 DEF Copy, Goto, Locked2
  <2>2. To(t)' = To(t) /\ Lower(t)' = Lower(t) /\ Higher(t)' = Higher(t)
    BY <2>1 DEF To, From, Lower, Higher
  <2>3. Held(t)' = Held(t) /\ Writing(t)' = Writing(t)
    BY <2>1, <2>2, HeldIs, HeldIsNext
  <2> QED
    BY <1>1, <1>4, <2>1, <2>3, LockStepSame
<1>15. CASE Stored(t)
  <2>1. pc[t] = "stored" /\ Held(t) = {loc[t].slot} /\ Writing(t) = {loc[t].slot}
    BY <1>15, HeldIs DEF Stored, Locked3
  <2>2. pc'[t] = "idle"
    BY <1>2, <1>15 DEF Stored, Return, Goto
  <2>3. Held(t)' = {} /\ Writing(t)' = {}
    BY <2>2, HeldIsNext DEF Locked3, Locked2
  <2>4. /\ key_versions' = [key_versions EXCEPT ![loc[t].slot] = @ + 1]
        /\ table_locks' = [table_locks EXCEPT ![loc[t].slot] = NULL]
    BY <1>15 DEF Stored, Count
  <2> QED
    BY <1>2, <1>5, <2>1, <2>3, <2>4 DEF LockStep
<1>16. CASE LockLower(t)
  <2>1. pc[t] = "move" /\ Held(t) = {} /\ Writing(t) = {}
    BY <1>16, HeldIs DEF LockLower, Locked3, Locked2
  <2>2. pc'[t] = "lockHigher" /\ loc' = loc
    BY <1>2, <1>16 DEF LockLower, Goto
  <2>3. Lower(t)' = Lower(t)
    BY <2>2 DEF To, From, Lower
  <2>4. Held(t)' = {Lower(t)} /\ Writing(t)' = {}
    BY <2>2, <2>3, HeldIsNext
  <2>5. Lower(t) \in Slots
    BY <2>1, MoveSlots DEF Moving
  <2>6. /\ table_locks[Lower(t)] = NULL /\ UNCHANGED key_versions
        /\ table_locks' = [table_locks EXCEPT ![Lower(t)] = t]
    BY <1>16 DEF LockLower, Free
  <2> QED
    BY <1>2, <2>1, <2>4, <2>5, <2>6 DEF LockStep
<1>17. CASE LockHigher(t)
  <2>1. pc[t] = "lockHigher" /\ Held(t) = {Lower(t)} /\ Writing(t) = {}
    BY <1>17, HeldIs DEF LockHigher
  <2>2. pc'[t] = "copy" /\ loc' = loc
    BY <1>2, <1>17 DEF LockHigher, Goto
  <2>3. To(t)' = To(t) /\ Lower(t)' = Lower(t) /\ Higher(t)' = Higher(t)
    BY <2>2 DEF To, From, Lower, Higher
  <2>4. Held(t)' = {Lower(t), Higher(t)} /\ Writing(t)' = {To(t)}
    BY <2>2, <2>3, HeldIsNext DEF Locked2
  <2>5. Lower(t) \in Slots /\ Higher(t) \in Slots /\ To(t) \in Slots
    BY <2>1, MoveSlots DEF Moving
  <2>6. /\ table_locks[Higher(t)] = NULL
        /\ table_locks' = [table_locks EXCEPT ![Higher(t)] = t]
        /\ key_versions' = [key_versions EXCEPT ![To(t)] = @ + 1]
    BY <1>17 DEF LockHigher, Free, Count
  <2>7. table_locks[Lower(t)] = t
    BY <1>4, <2>1, <2>5
  <2> QED
    BY <1>2, <2>1, <2>4, <2>5, <2>6, <2>7 DEF LockStep
<1>18. CASE MoveFails(t)
  <2>1. pc[t] = "lockHigher" /\ Held(t) = {Lower(t)} /\ Writing(t) = {}
    BY <1>18, HeldIs DEF MoveFails
  <2>2. Fail(t) /\ table_locks' = [table_locks EXCEPT ![Lower(t)] = NULL] /\ UNCHANGED key_versions
    BY <1>18 DEF MoveFails
  <2>3. pc'[t] \in {"put", "idle"}
    BY <1>1, <2>2, FailGoes
  <2>4. Held(t)' = {} /\ Writing(t)' = {}
    BY <2>3, HeldIsNext DEF Locked3, Locked2
  <2>5. Lower(t) \in Slots
    BY <2>1, MoveSlots DEF Moving
  <2> QED
    BY <1>2, <2>1, <2>2, <2>4, <2>5 DEF LockStep
<1>19. CASE Copied(t)
  <2>1. pc[t] = "copied" /\ Held(t) = {Lower(t), Higher(t)} /\ Writing(t) = {To(t)}
    BY <1>19, HeldIs DEF Copied, Locked2
  <2>2. /\ To(t) \in Slots /\ From(t) \in Slots /\ Held(t) = {To(t), From(t)}
    BY <2>1, MoveSlots DEF Moving
  <2>3. pc'[t] \in {"take", "move"}
    BY <1>2, <1>19 DEF Copied, Goto
  <2>4. Held(t)' = {} /\ Writing(t)' = {}
    BY <2>3, HeldIsNext DEF Locked3, Locked2
  <2>5. /\ table_locks' = [table_locks EXCEPT ![To(t)] = NULL, ![From(t)] = NULL]
        /\ key_versions' = [key_versions EXCEPT ![To(t)] = @ + 1]
    BY <1>19 DEF Copied, Count
  <2> QED
    BY <1>2, <2>1, <2>2, <2>4, <2>5 DEF LockStep
<1> QED
  BY <1>7, <1>8, <1>9, <1>10, <1>11, <1>12, <1>13, <1>14, <1>15, <1>16, <1>17, <1>18, <1>19
     DEF Step, put

LEMMA OddCount == \A n \in Nat : Odd(n + 1) <=> ~Odd(n)
BY DEF Odd

\* What a thread writes to it holds.
LEMMA WritingHeld ==
    ASSUME Inductive, NEW t \in Threads
    PROVE  Writing(t) \subseteq Held(t)
<1>1. pc[t] \in Locked2 => To(t) \in {Lower(t), Higher(t)}
  <2>1. pc[t] \in Locked2 => pc[t] \in Moving
    BY DEF Locked2, Moving
  <2> QED
    BY <2>1, MoveSlots
<1> QED
  BY <1>1, HeldIs

\* A step of t leaves what another thread w has and is at as it is.
LEMMA OthersSame ==
    ASSUME Inductive, NEW t \in Threads, Step(t), NEW w \in Threads, w # t
    PROVE  /\ pc'[w] = pc[w] /\ loc'[w] = loc[w] /\ todo'[w] = todo[w]
           /\ Call(w)' = Call(w) /\ Key(w)' = Key(w) /\ NewNode(w)' = NewNode(w) /\ At(w)' = At(w)
           /\ To(w)' = To(w) /\ From(w)' = From(w)
           /\ Held(w)' = Held(w) /\ Writing(w)' = Writing(w)
<1>1. loc \in [Threads -> Locals] /\ pc \in [Threads -> PCs] /\ todo \in [Threads -> Seq(Calls)]
  BY DEF Inductive, Typed
<1>2. pc'[w] = pc[w] /\ loc'[w] = loc[w] /\ todo'[w] = todo[w]
  BY <1>1, StepGoes
<1>3. Call(w)' = Call(w) /\ Key(w)' = Key(w) /\ NewNode(w)' = NewNode(w) /\ At(w)' = At(w)
  BY <1>2 DEF Call, Key, NewNode, At
<1>4. To(w)' = To(w) /\ From(w)' = From(w)
  BY <1>2 DEF To, From
<1>5. Lower(w)' = Lower(w) /\ Higher(w)' = Higher(w)
  BY <1>4 DEF Lower, Higher
<1>6. Held(w)' = Held(w) /\ Writing(w)' = Writing(w)
  BY <1>2, <1>4, <1>5 DEF Held, Writing
<1> QED
  BY <1>2, <1>3, <1>4, <1>6

LEMMA LocksHeldNext ==
    ASSUME Inductive, NEW t \in Threads, Step(t)
    PROVE  LocksHeld'
<1>1. LocksHeld /\ LockStep(t)
  BY LockSteps DEF Inductive
<1>2. \A w \in Threads : w # t => Held(w)' = Held(w) /\ Writing(w)' = Writing(w)
  BY OthersSame
<1>3. \A w \in Threads : Writing(w) \subseteq Held(w)
  BY WritingHeld
<1>4. key_versions \in [Slots -> Nat] /\ NULL \notin Threads
  BY Constants DEF Inductive, Typed
<1>5. ASSUME NEW s \in Slots, NEW w \in Threads
      PROVE  table_locks'[s] = w <=> s \in Held(w)'
  BY <1>1, <1>2, <1>4 DEF LocksHeld, LockStep
<1>6. ASSUME NEW s \in Slots
      PROVE  Odd(key_versions'[s]) <=> \E w \in Threads : s \in Writing(w)'
  <2>1. Odd(key_versions[s]) <=> \E w \in Threads : s \in Writing(w)
    BY <1>1 DEF LocksHeld
  <2>2. Odd(key_versions[s] + 1) <=> ~Odd(key_versions[s])
    BY <1>4, OddCount
  <2>3. CASE s \in Writing(t) <=> s \in Writing(t)'
    BY <1>1, <1>2, <2>1, <2>3 DEF LockStep
  <2>4. CASE ~(s \in Writing(t) <=> s \in Writing(t)')
    <3>1. Odd(key_versions'[s]) <=> ~Odd(key_versions[s])
      BY <1>1, <2>2, <2>4 DEF LockStep
    <3>2. Writing(t)' \subseteq Held(t)'
      <4>1. LockStep(t) /\ LocksHeld
        BY <1>1
      <4>2. pc'[t] \in Locked2 => pc'[t] = "copy" \/ pc'[t] = "copied"
        BY DEF Locked2
      <4>3. pc'[t] \in Locked2 => To(t)' \in {Lower(t)', Higher(t)'}
        BY Zenon DEF Lower, Higher
      <4> QED
        BY <4>3, HeldIsNext
    <3>3. ASSUME NEW w \in Threads, w # t PROVE s \notin Writing(w)
      <4>1. s \in Held(t) \/ table_locks[s] = NULL
        BY <1>1, <1>3, <2>4, <3>2 DEF LockStep
      <4>2. s \notin Held(w)
        BY <1>1, <1>4, <3>3, <4>1 DEF LocksHeld
      <4> QED
        BY <1>3, <4>2
    <3> QED
      BY <1>2, <2>1, <2>4, <3>1, <3>3
  <2> QED
    BY <2>3, <2>4
<1> QED
  BY <1>5, <1>6 DEF LocksHeld
-----------------------------------------------------------------------------
(* What a step changes.                                                     *)

\* The table changes where a put stores its node, or copies another.
LEMMA TableStep ==
    ASSUME Inductive, NEW t \in Threads, Step(t)
    PROVE  \/ UNCHANGED table
           \/ /\ Store(t) /\ loc[t].slot \in Slots /\ NewNode(t) \in DOMAIN val
              /\ table' = [table EXCEPT ![loc[t].slot] = NewNode(t)]
              /\ UNCHANGED key_versions /\ Odd(key_versions[loc[t].slot])
           \/ /\ Copy(t) /\ To(t) \in Slots /\ From(t) \in Slots
              /\ table[From(t)] \in DOMAIN val /\ table[From(t)] # NULL
              /\ table' = [table EXCEPT ![To(t)] = table[From(t)]]
              /\ UNCHANGED key_versions /\ Odd(key_versions[To(t)])
<1>1. Typed /\ InCall(t) /\ OnPath(t) /\ LocksHeld
  BY DEF Inductive
<1>2. CASE Store(t)
  <2>1. pc[t] = "store"
    BY <1>2 DEF Store
  <2>2. Key(t) \in Keys /\ NewNode(t) \in DOMAIN val /\ loc[t].slot \in Slots
    BY <1>1, <2>1, CallTyped, ScanSlots DEF InCall, Putting
  <2>3. loc[t].slot \in Writing(t)
    BY <2>1, HeldIs DEF Locked3
  <2> QED
    BY <1>1, <1>2, <2>2, <2>3 DEF Store, LocksHeld
<1>3. CASE Copy(t)
  <2>1. pc[t] = "copy" /\ pc[t] \in Moving
    BY <1>3 DEF Copy, Moving
  <2>2. To(t) \in Slots /\ From(t) \in Slots /\ loc[t].i \in 2 .. Len(loc[t].path) /\ Len(loc[t].path) \in Nat
    BY <2>1, MoveSlots
  <2>3. table[From(t)] # NULL
    <3>1. Found(t)
      BY <1>1, <2>1 DEF OnPath
    <3>2. loc[t].i - 1 \in 1 .. Len(loc[t].path) - 1
      BY <2>2
    <3> QED
      BY <3>1, <3>2 DEF Found, From
  <2>4. To(t) \in Writing(t)
    BY <2>1, HeldIs DEF Locked2
  <2> QED
    BY <1>1, <1>3, <2>2, <2>3, <2>4, TableTyped DEF Copy, LocksHeld
<1>4. CASE ~Store(t) /\ ~Copy(t)
  BY <1>4 DEF Step, BeginGet, BeginPut, get, put, GetNode, GetVersion, GetVal, GetCheck,
     PutScan, Fill, Update, SetVal, Stored, NoPath, Search, LockLower, LockHigher,
     MoveFails, Copied, Take, TakeFails, shared
<1> QED
  BY <1>2, <1>3, <1>4

\* A slot that is not null does not become null.
LEMMA NullOnce ==
    ASSUME Inductive, NEW t \in Threads, Step(t), NEW s \in Slots, table[s] # NULL
    PROVE  table'[s] # NULL
<1>1. table \in [Slots -> DOMAIN val \cup {NULL}]
  BY DEF Inductive, Typed
<1>2. DOMAIN val \subseteq Nodes /\ NULL \notin Nodes
  BY Constants DEF Inductive, Typed
<1> QED
  BY <1>1, <1>2, TableStep

\* A slot changes only while its version is odd, and versions do not decrease.
LEMMA SlotStep ==
    ASSUME Inductive, NEW t \in Threads, Step(t), NEW s \in Slots
    PROVE  /\ key_versions[s] \in Nat /\ key_versions'[s] \in Nat
           /\ key_versions'[s] \in {key_versions[s], key_versions[s] + 1}
           /\ table'[s] # table[s] => Odd(key_versions[s]) /\ key_versions'[s] = key_versions[s]
<1>1. table \in [Slots -> DOMAIN val \cup {NULL}] /\ key_versions \in [Slots -> Nat]
  BY DEF Inductive, Typed
<1>2. LockStep(t)
  BY LockSteps
<1> QED
  BY <1>1, <1>2, TableStep DEF LockStep

\* What the search knows of a slot of the path stays as good as it was.
LEMMA LinkStays ==
    ASSUME Inductive, NEW t \in Threads, Step(t), NEW s \in Slots, NEW v \in Nat, NEW r, Link(s, v, r)
    PROVE  Link(s, v, r)'
BY SlotStep DEF Link

\* The values, the nodes allocated, and the history variables are typed.
LEMMA ValStep ==
    ASSUME Inductive, NEW t \in Threads, Step(t)
    PROVE  /\ DOMAIN val \subseteq DOMAIN val' /\ DOMAIN val' \subseteq Nodes
           /\ val' \in [DOMAIN val' -> Vals]
           /\ BeginPut(t) => NewNode(t) \in DOMAIN val'
<1>1. Typed /\ InCall(t)
  BY DEF Inductive
<1>2. DOMAIN val \subseteq Nodes /\ val \in [DOMAIN val -> Vals]
  BY <1>1 DEF Typed
<1>3. CASE BeginPut(t)
  <2>1. NewNode(t) \in Nodes /\ Call(t).val \in Vals
    BY <1>1, <1>3, CallTyped DEF BeginPut, Begin
  <2>2. val' = [x \in DOMAIN val \cup {NewNode(t)} |-> IF x = NewNode(t) THEN Call(t).val ELSE val[x]]
    BY <1>3 DEF BeginPut
  <2> QED
    BY <1>2, <2>1, <2>2
<1>4. CASE SetVal(t)
  <2>1. loc[t].node \in DOMAIN val /\ Call(t).val \in Vals
    BY <1>1, <1>4, CallTyped DEF SetVal, InCall, Putting
  <2>2. ~BeginPut(t)
    BY <1>4 DEF SetVal, BeginPut, Begin, Running
  <2> QED
    BY <1>2, <1>4, <2>1, <2>2 DEF SetVal
<1>5. CASE ~BeginPut(t) /\ ~SetVal(t)
  <2>1. UNCHANGED val
    BY <1>5 DEF Step, BeginGet, get, put, GetNode, GetVersion, GetVal, GetCheck,
     PutScan, Fill, Update, Store, Stored, NoPath, Search, LockLower, LockHigher,
     MoveFails, Copy, Copied, Take, TakeFails, shared
  <2> QED
    BY <1>2, <1>5, <2>1
<1> QED
  BY <1>3, <1>4, <1>5

\* What a get finds is a value, or nothing.
LEMMA ShownTyped ==
    ASSUME Typed, NEW k \in Keys
    PROVE  Shown(k) \in Vals \cup {NULL}
<1> DEFINE at == {i \in DOMAIN Scan[k] : Matches(table[Scan[k][i]], k)}
<1>1. DOMAIN Scan[k] = 1 .. 2 * SLOTS_NUM /\ \A n \in 1 .. 2 * SLOTS_NUM : Scan[k][n] \in Slots
  BY ScanSlots
<1>2. CASE at = {}
  BY <1>2 DEF Shown
<1>3. CASE at # {}
  <2>1. at \subseteq Nat
    <3>1. at \subseteq DOMAIN Scan[k]
      OBVIOUS
    <3>2. 1 .. 2 * SLOTS_NUM \subseteq Nat
      BY Constants
    <3> HIDE DEF at
    <3> QED
      BY <1>1, <3>1, <3>2, Zenon
  <2>2. PICK m \in at : m = Min(at)
    <3> HIDE DEF at
    <3> QED
      BY <1>3, <2>1, MinIsIn
  <2>3. table[Scan[k][m]] \in DOMAIN val
    <3>1. Scan[k][m] \in Slots /\ table[Scan[k][m]] # NULL
      BY <1>1, <2>2 DEF Matches
    <3> QED
      BY <3>1, TableTyped
  <2>4. Shown(k) = val[table[Scan[k][m]]]
    BY <1>3, <2>2 DEF Shown
  <2> QED
    BY <2>3, <2>4 DEF Typed
<1> QED
  BY <1>2, <1>3

LEMMA HistoryStep ==
    ASSUME Inductive, NEW t \in Threads, Step(t)
    PROVE  /\ may' \in [Threads -> SUBSET (Vals \cup {NULL})]
           /\ answer' \in [Threads -> Vals \cup {NULL}]
           /\ faults' \subseteq {"twins", "stray"}
<1>1. Typed /\ InCall(t)
  BY DEF Inductive
<1>2. /\ may \in [Threads -> SUBSET (Vals \cup {NULL})]
      /\ answer \in [Threads -> Vals \cup {NULL}] /\ faults \subseteq {"twins", "stray"}
  BY <1>1 DEF Typed
<1>3. CASE BeginGet(t)
  <2>1. Key(t) \in Keys
    BY <1>1, <1>3, CallTyped DEF BeginGet, Begin
  <2>2. Shown(Key(t)) \in Vals \cup {NULL}
    BY <1>1, <2>1, ShownTyped
  <2> DEFINE a == {Shown(Key(t))} \cup {x \in {NULL} : Putters(Key(t)) # {}}
  <2>3. a \in SUBSET (Vals \cup {NULL})
    BY <2>2
  <2>4. may' = [may EXCEPT ![t] = a] /\ UNCHANGED <<answer, faults>>
    BY <1>3 DEF BeginGet
  <2> HIDE DEF a
  <2> QED
    BY <1>2, <2>3, <2>4
<1>4. CASE BeginPut(t) \/ SetVal(t) \/ Store(t)
  <2>1. todo[t] # <<>> /\ Call(t).op = "put"
    BY <1>1, <1>4 DEF BeginPut, Begin, SetVal, Store, InCall, Putting
  <2>2. Call(t).val \in Vals
    BY <1>1, <2>1, CallTyped
  <2>3. ASSUME NEW k, NEW x \in Vals \cup {NULL}
        PROVE  MayAnswer(k, x) \in [Threads -> SUBSET (Vals \cup {NULL})]
    BY <1>2 DEF MayAnswer
  <2>4. may' = MayAnswer(Key(t), NULL) \/ may' = MayAnswer(Key(t), Call(t).val)
    BY <1>4 DEF BeginPut, SetVal, Store
  <2>5. UNCHANGED answer /\ faults' \subseteq {"twins", "stray"}
    BY <1>2, <1>4 DEF BeginPut, SetVal, Store
  <2>6. MayAnswer(Key(t), NULL) \in [Threads -> SUBSET (Vals \cup {NULL})]
    BY <2>3
  <2>7. MayAnswer(Key(t), Call(t).val) \in [Threads -> SUBSET (Vals \cup {NULL})]
    BY <2>2, <2>3
  <2> QED
    BY <1>2, <2>4, <2>5, <2>6, <2>7
<1>5. CASE NoPath(t) \/ MoveFails(t) \/ TakeFails(t)
  <2>1. Fail(t) /\ UNCHANGED faults
    BY <1>5 DEF NoPath, MoveFails, TakeFails
  <2> QED
    BY <1>1, <1>2, <2>1, FailGoes
<1>6. CASE GetNode(t) \/ GetCheck(t) \/ Stored(t)
  <2>1. UNCHANGED faults
    BY <1>6 DEF GetNode, GetCheck, Stored
  <2>2. \/ UNCHANGED <<may, answer>>
        \/ NextSlot(t)
        \/ Return(t, loc[t].got) \/ Return(t, NULL)
    BY <1>6 DEF GetNode, GetCheck, Stored
  <2>3. loc[t].got \in Vals \cup {NULL}
    BY <1>1 DEF Typed, Locals
  <2>4. CASE NextSlot(t)
    BY <1>1, <1>2, <2>1, <2>4, NextSlotGoes
  <2>5. CASE Return(t, loc[t].got) \/ Return(t, NULL)
    BY <1>2, <2>1, <2>3, <2>5 DEF Return
  <2> QED
    BY <1>2, <2>1, <2>2, <2>4, <2>5
<1>7. CASE \/ GetVersion(t) \/ GetVal(t) \/ PutScan(t) \/ Fill(t) \/ Update(t) \/ Search(t)
           \/ LockLower(t) \/ LockHigher(t) \/ Copy(t) \/ Copied(t) \/ Take(t)
  BY <1>2, <1>7 DEF GetVersion, GetVal, PutScan, Fill, Update, Search,
     LockLower, LockHigher, Copy, Copied, Take, hist
<1> QED
  BY <1>3, <1>4, <1>5, <1>6, <1>7 DEF Step, get, put

\* The types are kept.
LEMMA TypedNext ==
    ASSUME Inductive, NEW t \in Threads, Step(t)
    PROVE  Typed'
<1>1. Typed /\ InCall(t)
  BY DEF Inductive
<1>2. table' \in [Slots -> DOMAIN val' \cup {NULL}]
  <2>1. DOMAIN val \subseteq DOMAIN val'
    BY ValStep
  <2> QED
    BY <1>1, <2>1, TableStep DEF Typed
<1>3. table_locks' \in [Slots -> Threads \cup {NULL}] /\ key_versions' \in [Slots -> Nat]
  BY LockSteps DEF LockStep
<1>4. todo' \in [Threads -> Seq(Calls)]
  <2>1. todo \in [Threads -> Seq(Calls)]
    BY <1>1 DEF Typed
  <2>2. CASE UNCHANGED todo
    BY <2>1, <2>2
  <2>3. CASE ~UNCHANGED todo
    <3>1. todo[t] # <<>>
      <4>1. ~BeginGet(t) /\ ~BeginPut(t)
        BY <2>3 DEF BeginGet, BeginPut
      <4>2. pc[t] \in Getting \cup Putting
        BY <4>1 DEF Step, get, put, GetNode, GetVersion, GetVal, GetCheck, PutScan, Fill, Update, SetVal,
           Store, Stored, NoPath, Search, LockLower, LockHigher, MoveFails, Copy, Copied, Take, TakeFails,
           Getting, Putting, Moving
      <4> QED
        BY <1>1, <4>2 DEF InCall
    <3>2. Tail(todo[t]) \in Seq(Calls)
      BY <1>1, <3>1, CallTyped
    <3>3. todo' = [todo EXCEPT ![t] = Tail(todo[t])]
      BY <2>3, StepGoes
    <3> QED
      BY <2>1, <3>2, <3>3
  <2> QED
    BY <2>2, <2>3
<1>5. stored' \subseteq Keys
  <2>1. CASE Stored(t)
    <3>1. Key(t) \in Keys
      BY <1>1, <2>1, CallTyped DEF Stored, InCall, Putting
    <3> QED
      BY <1>1, <2>1, <3>1 DEF Stored, Typed
  <2>2. CASE ~Stored(t)
    <3>1. UNCHANGED stored
      BY <2>2 DEF Step, BeginGet, BeginPut, get, put, GetNode, GetVersion, GetVal, GetCheck, PutScan, Fill,
         Update, SetVal, Store, NoPath, Search, LockLower, LockHigher, MoveFails, Copy, Copied, Take,
         TakeFails, hist
    <3> QED
      BY <1>1, <3>1 DEF Typed
  <2> QED
    BY <2>1, <2>2
<1> QED
  BY <1>2, <1>3, <1>4, <1>5, StepGoes, ValStep, HistoryStep DEF Typed

-----------------------------------------------------------------------------
(* Calls and paths.                                                         *)

\* t runs on in the call it is in, unless it is about to begin one.
LEMMA CallStays ==
    ASSUME Inductive, NEW t \in Threads, Step(t), pc'[t] # "idle"
    PROVE  /\ todo' = todo /\ Call(t)' = Call(t) /\ Key(t)' = Key(t) /\ NewNode(t)' = NewNode(t)
           /\ todo[t] # <<>>
           /\ pc'[t] \in Getting => Call(t).op = "get"
           /\ pc'[t] \in Putting => Call(t).op = "put" /\ NewNode(t) \in DOMAIN val'
<1>1. UNCHANGED todo
  BY StepGoes
<1>0. todo' = todo /\ Call(t)' = Call(t) /\ Key(t)' = Key(t) /\ NewNode(t)' = NewNode(t)
  BY <1>1 DEF Call, Key, NewNode
<1>2. Typed /\ InCall(t) /\ pc \in [Threads -> PCs]
  BY DEF Inductive, Typed
<1>3. pc'[t] = "get" => pc'[t] \notin Putting
  BY DEF Putting, Moving
<1>4. CASE BeginGet(t)
  BY <1>2, <1>3, <1>4, <1>0 DEF BeginGet, Begin, Goto
<1>5. CASE BeginPut(t)
  <2>1. pc'[t] = "put" /\ todo[t] # <<>> /\ Call(t).op = "put"
    BY <1>2, <1>5 DEF BeginPut, Begin, Goto
  <2> QED
    BY <1>5, <1>0, <2>1, ValStep DEF Getting
<1>6. CASE get(t)
  <2>1. pc[t] \in Getting
    BY <1>6 DEF get, GetNode, GetVersion, GetVal, GetCheck, Getting
  <2>2. pc'[t] \in Getting
    <3>1. CASE NextSlot(t)
      BY <1>2, <3>1, NextSlotGoes DEF Getting
    <3>2. CASE Return(t, loc[t].got)
      BY <1>2, <3>2 DEF Return, Goto
    <3>3. CASE Goto(t, "getVersion") \/ Goto(t, "getVal") \/ Goto(t, "getCheck")
      BY <1>2, <3>3 DEF Goto, Getting
    <3> QED
      BY <1>6, <3>1, <3>2, <3>3 DEF get, GetNode, GetVersion, GetVal, GetCheck
  <2>3. pc'[t] \notin Putting
    BY <2>2 DEF Getting, Putting, Moving
  <2> QED
    BY <1>2, <1>0, <2>1, <2>2, <2>3 DEF InCall
<1>7. CASE put(t)
  <2>1. pc[t] \in Putting
    BY <1>7 DEF put, PutScan, Fill, Update, SetVal, Store, Stored, NoPath, Search, LockLower, LockHigher,
       MoveFails, Copy, Copied, Take, TakeFails, Putting, Moving
  <2>2. todo[t] # <<>> /\ Call(t).op = "put" /\ NewNode(t) \in DOMAIN val' /\ Key(t) \in Keys
    BY <1>2, <2>1, ValStep, CallTyped DEF InCall
  <2>3. pc'[t] \notin Getting
    <3>1. CASE ScanOn(t)
      BY <1>2, <2>2, <3>1, ScanOnGoes DEF Getting
    <3>2. CASE Fail(t)
      BY <1>2, <3>2, FailGoes DEF Getting
    <3>3. CASE Search(t)
      BY <3>3, SearchGoes DEF Getting
    <3>4. CASE Stored(t)
      BY <1>2, <3>4 DEF Stored, Return, Goto
    <3>5. CASE ~ScanOn(t) /\ ~Fail(t) /\ ~Search(t) /\ ~Stored(t)
      <4>1. \E l \in Putting : Goto(t, l)
        BY <1>7, <3>5 DEF put, PutScan, Fill, Update, SetVal, Store, NoPath, LockLower, LockHigher,
           MoveFails, Copy, Copied, Take, TakeFails, Putting, Moving
      <4> QED
        BY <1>2, <4>1 DEF Goto, Getting, Putting, Moving
    <3> QED
      BY <3>1, <3>2, <3>3, <3>4, <3>5
  <2> QED
    BY <1>0, <2>2, <2>3
<1> QED
  BY <1>4, <1>5, <1>6, <1>7 DEF Step

\* The node a thread has in hand has been allocated.
LEMMA NodeStep ==
    ASSUME Inductive, NEW t \in Threads, Step(t)
    PROVE  loc'[t].node \in DOMAIN val' \cup {NULL}
<1>1. Typed /\ InCall(t) /\ loc \in [Threads -> Locals] /\ DOMAIN val \subseteq DOMAIN val'
  BY ValStep DEF Inductive, Typed
<1>2. loc[t].node \in DOMAIN val' \cup {NULL}
  BY <1>1 DEF InCall
<1>3. ASSUME NEW x, Return(t, x) PROVE loc'[t].node = NULL
  BY <1>1, <1>3 DEF Return, Blank
<1>4. Fail(t) => loc'[t].node = NULL
  <2>1. CASE loc[t].attempt + 1 < MaxAttempts
    BY <1>1, <2>1 DEF Fail, Blank
  <2>2. CASE ~(loc[t].attempt + 1 < MaxAttempts)
    BY <1>3, <2>2 DEF Fail
  <2> QED
    BY <2>1, <2>2
<1>5. NextSlot(t) => loc'[t].node = NULL
  <2>1. CASE loc[t].n < 2 * SLOTS_NUM
    BY <1>1, <2>1 DEF NextSlot, Blank
  <2>2. CASE ~(loc[t].n < 2 * SLOTS_NUM)
    BY <1>3, <2>2 DEF NextSlot
  <2> QED
    BY <2>1, <2>2
<1>6. ScanOn(t) => loc'[t].node = NULL
  BY <1>1 DEF ScanOn, Blank
<1>7. CASE GetNode(t) \/ PutScan(t)
  <2>1. Key(t) \in Keys
    BY <1>1, <1>7, CallTyped DEF InCall, GetNode, PutScan, Getting, Putting
  <2>2. At(t) \in Slots
    BY <1>1, <2>1, LocTyped, ScanSlots DEF At
  <2>3. table[At(t)] \in DOMAIN val \cup {NULL}
    BY <1>1, <2>2 DEF Typed
  <2>4. loc'[t].node \in {NULL, table[At(t)]}
    <3>1. CASE NextSlot(t) \/ ScanOn(t)
      BY <1>5, <1>6, <3>1
    <3>2. CASE ~NextSlot(t) /\ ~ScanOn(t)
      <4>1. \/ loc' = [loc EXCEPT ![t].node = table[At(t)]]
            \/ loc' = [loc EXCEPT ![t].node = table[At(t)], ![t].slot = At(t)]
        BY <1>7, <3>2 DEF GetNode, PutScan
      <4> QED
        BY <1>1, <4>1 DEF Locals
    <3> QED
      BY <3>1, <3>2
  <2> QED
    BY <1>1, <2>3, <2>4
<1>8. CASE GetCheck(t) \/ Fill(t) \/ Stored(t) \/ NoPath(t) \/ MoveFails(t) \/ TakeFails(t)
  BY <1>2, <1>3, <1>4, <1>5, <1>6, <1>8 DEF GetCheck, Fill, Stored, NoPath, MoveFails, TakeFails
<1>9. CASE Search(t)
  <2>1. loc'[t].node \in {NULL, loc[t].node}
    <3>1. CASE pc'[t] = "move"
      <4>1. \E r : r.node = NULL /\ loc' = [loc EXCEPT ![t] = r]
        <5>1. PICK end \in Buckets(Next_Key(t)) :
                loc' = [loc EXCEPT ![t] = [Blank EXCEPT
                         !.path = Append(Next_Path(t), end), !.hist = Append(Next_Hist(t), key_versions[end]),
                         !.i = Len(Next_Path(t)) + 1, !.attempt = loc[t].attempt]]
          BY <1>9, <3>1, SearchGoes
        <5> QED
          BY <5>1 DEF Blank
      <4> QED
        BY <1>1, <4>1
    <3>2. CASE pc'[t] # "move"
      <4>1. PICK q : loc' = [loc EXCEPT ![t].que = q]
        BY <1>9, <3>2, SearchGoes
      <4> QED
        BY <1>1, <4>1 DEF Locals
    <3> QED
      BY <3>1, <3>2
  <2> QED
    BY <1>2, <2>1
<1>10. CASE Take(t)
  BY <1>1, <1>10 DEF Take, Blank
<1>11. CASE Copied(t)
  <2>1. loc'[t].node = loc[t].node
    BY <1>1, <1>11 DEF Copied, Locals
  <2> QED
    BY <1>2, <2>1
<1>12. CASE GetVersion(t) \/ GetVal(t)
  <2>1. loc'[t].node = loc[t].node
    BY <1>1, <1>12 DEF GetVersion, GetVal, Locals
  <2> QED
    BY <1>2, <2>1
<1>13. CASE \/ BeginGet(t) \/ BeginPut(t) \/ Update(t) \/ SetVal(t) \/ Store(t)
            \/ LockLower(t) \/ LockHigher(t) \/ Copy(t)
  BY <1>2, <1>13 DEF BeginGet, BeginPut, Update, SetVal, Store, LockLower, LockHigher, Copy
<1> QED
  BY <1>7, <1>8, <1>9, <1>10, <1>11, <1>12, <1>13 DEF Step, get, put

LEMMA InCallNext ==
    ASSUME Inductive, NEW t \in Threads, Step(t), NEW w \in Threads
    PROVE  InCall(w)'
<1>1. Typed /\ InCall(t) /\ InCall(w) /\ OnPath(t) /\ TriedAll(t)
  BY DEF Inductive
<1>2. DOMAIN val \subseteq DOMAIN val'
  BY ValStep
<1>3. CASE w # t
  BY <1>1, <1>2, <1>3, OthersSame DEF InCall
<1>4. CASE w = t
  <2>1. pc \in [Threads -> PCs] /\ loc \in [Threads -> Locals]
    BY <1>1 DEF Typed
  <2>2. pc'[t] \in Getting \cup Putting => pc'[t] # "idle"
    BY DEF Getting, Putting, Moving
  <2>3. pc'[t] \in {"getVersion", "getVal", "getCheck"} => loc'[t].node \in DOMAIN val'
    <3>1. SUFFICES ASSUME pc'[t] \in {"getVersion", "getVal", "getCheck"}
                   PROVE  loc'[t].node \in DOMAIN val'
      OBVIOUS
    <3>2. GetNode(t) \/ GetVersion(t) \/ GetVal(t)
      <4>1. ~NextSlot(t)
        BY <1>1, <3>1, NextSlotGoes
      <4>2. ~put(t)
        BY <3>1, <2>2, CallStays, <1>1 DEF Getting, put, PutScan, Fill, Update, SetVal, Store, Stored, NoPath,
           Search, LockLower, LockHigher, MoveFails, Copy, Copied, Take, TakeFails, Putting, Moving, InCall
      <4> QED
        BY <2>1, <3>1, <4>1, <4>2 DEF Step, BeginGet, BeginPut, get, GetCheck, Return, Goto
    <3>3. CASE GetNode(t)
      <4>1. Key(t) \in Keys
        BY <1>1, <3>3, CallTyped DEF GetNode, InCall, Getting
      <4>2. At(t) \in Slots
        BY <1>1, <4>1, LocTyped, ScanSlots DEF At
      <4>3. Matches(table[At(t)], Key(t)) /\ loc' = [loc EXCEPT ![t].node = table[At(t)]]
        BY <1>1, <3>1, <3>3, NextSlotGoes DEF GetNode
      <4>4. table[At(t)] \in DOMAIN val
        BY <1>1, <4>2, <4>3, TableTyped DEF Matches
      <4>5. loc'[t].node = table[At(t)]
        BY <2>1, <4>3 DEF Locals
      <4> QED
        BY <1>2, <4>4, <4>5
    <3>4. CASE GetVersion(t) \/ GetVal(t)
      <4>1. loc'[t].node = loc[t].node
        BY <2>1, <3>4 DEF GetVersion, GetVal, Locals
      <4> QED
        BY <1>1, <1>2, <3>4, <4>1 DEF InCall, GetVersion, GetVal
    <3> QED
      BY <3>2, <3>3, <3>4
  <2>4. /\ pc'[t] \in {"fill", "update"} => PutScan(t) /\ ~ScanOn(t)
        /\ pc'[t] = "setVal" => Update(t)
        /\ pc'[t] = "store" => (Fill(t) /\ table[loc[t].slot] = NULL) \/ Take(t)
        /\ pc'[t] = "stored" => SetVal(t) \/ Store(t)
    <3>1. ~get(t) \/ pc'[t] \in Getting \cup {"idle"}
      <4>1. CASE get(t)
        <5>1. CASE NextSlot(t)
          BY <1>1, <5>1, NextSlotGoes DEF Getting
        <5>2. CASE ~NextSlot(t)
          BY <2>1, <4>1, <5>2 DEF get, GetNode, GetVersion, GetVal, GetCheck, Return, Goto, Getting
        <5> QED
          BY <5>1, <5>2
      <4> QED
        BY <4>1
    <3>2. Fail(t) => pc'[t] \in {"put", "idle"}
      BY <1>1, FailGoes
    <3>3. Search(t) => pc'[t] \in {"move", "search"}
      BY SearchGoes
    <3>4. ScanOn(t) /\ pc[t] \in Putting => pc'[t] \in {"put", "search"}
      BY <1>1, CallTyped, ScanOnGoes DEF InCall
    <3> QED
      BY <2>1, <3>1, <3>2, <3>3, <3>4 DEF Step, BeginGet, BeginPut, put, PutScan, Fill, Update, SetVal, Store,
         Stored, NoPath, LockLower, LockHigher, MoveFails, Copy, Copied, Take, TakeFails, Return, Goto,
         Getting, Putting
  <2>5. pc'[t] \in {"fill", "update"} => /\ loc'[t].slot = At(t)' /\ loc'[t].node = table[At(t)]
                                         /\ loc'[t].n = loc[t].n
    <3>1. SUFFICES ASSUME pc'[t] \in {"fill", "update"}
                   PROVE  loc'[t].slot = At(t)' /\ loc'[t].node = table[At(t)] /\ loc'[t].n = loc[t].n
      OBVIOUS
    <3>2. loc' = [loc EXCEPT ![t].node = table[At(t)], ![t].slot = At(t)]
      BY <2>4, <3>1 DEF PutScan
    <3>3. loc'[t].slot = At(t) /\ loc'[t].node = table[At(t)] /\ loc'[t].n = loc[t].n
      BY <2>1, <3>2 DEF Locals
    <3>4. Key(t)' = Key(t)
      BY <3>1, CallStays
    <3> QED
      BY <3>3, <3>4 DEF At
  <2>6. pc'[t] \in {"update", "setVal"} => loc'[t].node \in DOMAIN val' /\ loc'[t].node.key = Key(t)'
    <3>1. CASE pc'[t] = "update"
      <4>1. PutScan(t) /\ ~ScanOn(t) /\ loc'[t].node = table[At(t)] /\ Key(t)' = Key(t)
        BY <2>4, <2>5, <3>1, CallStays
      <4>2. Key(t) \in Keys
        BY <1>1, <4>1, CallTyped DEF PutScan, InCall, Putting
      <4>3. At(t) \in Slots
        BY <1>1, <4>2, LocTyped, ScanSlots DEF At
      <4>4. table[At(t)] # NULL
        BY <2>1, <3>1, <4>1 DEF PutScan, Goto
      <4>5. table[At(t)].key = Key(t)
        BY <4>1, <4>4 DEF PutScan, Matches
      <4> QED
        BY <1>1, <1>2, <4>1, <4>3, <4>4, <4>5, TableTyped
    <3>2. CASE pc'[t] = "setVal"
      <4>1. Update(t) /\ Key(t)' = Key(t)
        BY <2>4, <3>2, CallStays
      <4>2. loc' = loc /\ pc[t] = "update"
        BY <4>1 DEF Update
      <4> QED
        BY <1>1, <1>2, <4>1, <4>2 DEF InCall
    <3> QED
      BY <3>1, <3>2
  <2>7. pc'[t] \in {"setVal", "store", "stored"} => loc'[t].slot \in Buckets(Key(t)')
    <3>1. SUFFICES ASSUME pc'[t] \in {"setVal", "store", "stored"} PROVE loc'[t].slot \in Buckets(Key(t))
      BY CallStays
    <3>2. CASE Update(t) \/ (Fill(t) /\ table[loc[t].slot] = NULL)
      <4>1. loc'[t].slot = At(t) /\ pc[t] \in {"fill", "update"}
        BY <1>1, <3>2 DEF Update, Fill, InCall
      <4>2. Key(t) \in Keys
        BY <1>1, <4>1, CallTyped DEF InCall, Putting
      <4> QED
        BY <1>1, <4>1, <4>2, LocTyped, ScanSlots DEF At
    <3>3. CASE Take(t)
      <4>1. loc'[t].slot = loc[t].path[1]
        BY <2>1, <3>3 DEF Take, Blank
      <4> QED
        BY <1>1, <3>3, <4>1 DEF Take, OnPath, Found
    <3>4. CASE SetVal(t) \/ Store(t)
      BY <1>1, <3>4 DEF SetVal, Store, InCall
    <3> QED
      BY <2>4, <3>1, <3>2, <3>3, <3>4
  <2>8. /\ pc'[t] \in Getting => todo'[t] # <<>> /\ Call(t)'.op = "get"
        /\ pc'[t] \in Putting => todo'[t] # <<>> /\ Call(t)'.op = "put" /\ NewNode(t)' \in DOMAIN val'
    BY <2>2, CallStays
  <2> QED
    BY <1>4, <2>3, <2>5, <2>6, <2>7, <2>8, NodeStep DEF InCall
<1> QED
  BY <1>3, <1>4

\* A thread that is not running has its scan before it.
LEMMA Rewound ==
    ASSUME Inductive, NEW t \in Threads, Step(t)
    PROVE  /\ pc'[t] = "idle" => loc'[t].n = 1
           /\ pc'[t] = "put" => loc'[t].n = 1 \/ ((PutScan(t) \/ Fill(t)) /\ ScanOn(t))
<1>1. Typed /\ Passed(t) /\ InCall(t) /\ pc \in [Threads -> PCs] /\ loc \in [Threads -> Locals]
  BY DEF Inductive, Typed
<1>2. ASSUME NEW x, Return(t, x) PROVE loc'[t].n = 1 /\ pc'[t] = "idle"
  BY <1>1, <1>2 DEF Return, Goto, Blank
<1>3. Fail(t) => loc'[t].n = 1
  BY <1>1, FailGoes
<1>4. NextSlot(t) => pc'[t] = "get" \/ (pc'[t] = "idle" /\ loc'[t].n = 1)
  <2>1. CASE loc[t].n < 2 * SLOTS_NUM
    BY <1>1, <2>1 DEF NextSlot, Goto
  <2>2. CASE ~(loc[t].n < 2 * SLOTS_NUM)
    BY <1>2, <2>2 DEF NextSlot
  <2> QED
    BY <2>1, <2>2
<1>5. CASE BeginGet(t) \/ BeginPut(t)
  BY <1>1, <1>5 DEF BeginGet, BeginPut, Begin, Running, Passed, Goto
<1>6. CASE get(t)
  BY <1>1, <1>2, <1>4, <1>6 DEF get, GetNode, GetVersion, GetVal, GetCheck, Goto
<1>7. CASE put(t)
  <2>1. Search(t) => pc'[t] \in {"move", "search"}
    BY SearchGoes
  <2>2. ScanOn(t) /\ pc[t] \in Putting => pc'[t] \in {"put", "search"}
    BY <1>1, CallTyped, ScanOnGoes DEF InCall
  <2> QED
    BY <1>1, <1>2, <1>3, <1>7, <2>1, <2>2 DEF put, PutScan, Fill, Update, SetVal, Store, Stored, NoPath,
       LockLower, LockHigher, MoveFails, Copy, Copied, Take, TakeFails, Goto, Putting
<1> QED
  BY <1>5, <1>6, <1>7 DEF Step

\* A put that scans on leaves a slot behind that is not null.
LEMMA ScannedOn ==
    ASSUME Inductive, NEW t \in Threads, PutScan(t) \/ Fill(t), ScanOn(t)
    PROVE  /\ Key(t) \in Keys
           /\ \A n \in 1 .. 2 * SLOTS_NUM : n <= loc[t].n => table[Scan[Key(t)][n]] # NULL
<1>1. Typed /\ Passed(t) /\ InCall(t) /\ pc \in [Threads -> PCs]
  BY DEF Inductive, Typed
<1>2. Key(t) \in Keys
  BY <1>1, CallTyped DEF InCall, PutScan, Fill, Putting
<1>3. pc'[t] \in {"put", "search"} /\ loc' = [loc EXCEPT ![t] = loc'[t]]
  BY <1>1, <1>2, ScanOnGoes
<1>5. (PutScan(t) \/ Fill(t)) /\ table[At(t)] # NULL
  <2>1. CASE PutScan(t)
    <3>1. At(t) \in Slots
      BY <1>1, <1>2, LocTyped, ScanSlots DEF At
    <3>2. CASE table[At(t)] = NULL
      BY <1>1, <1>3, <2>1, <3>2 DEF PutScan, Goto
    <3> QED
      BY <2>1, <3>2
  <2>2. CASE Fill(t)
    <3>1. CASE table[loc[t].slot] = NULL
      BY <1>1, <1>3, <2>2, <3>1 DEF Fill, Goto
    <3> QED
      BY <1>1, <2>2, <3>1 DEF Fill, InCall
  <2> QED
    BY <2>1, <2>2
<1>6. \A n \in 1 .. 2 * SLOTS_NUM : n < loc[t].n => table[Scan[Key(t)][n]] # NULL
  BY <1>1, <1>5 DEF Passed, PutScan, Fill
<1> QED
  BY <1>1, <1>2, <1>5, <1>6, LocTyped, Constants DEF At

LEMMA PassedNext ==
    ASSUME Inductive, NEW t \in Threads, Step(t), NEW w \in Threads
    PROVE  Passed(w)'
<1>1. Typed /\ InCall(t) /\ InCall(w) /\ Passed(t) /\ Passed(w)
  BY DEF Inductive
<1>2. ASSUME NEW k \in Keys, NEW n \in 1 .. 2 * SLOTS_NUM, table[Scan[k][n]] # NULL
      PROVE  table'[Scan[k][n]] # NULL
  BY <1>2, ScanSlots, NullOnce
<1>3. CASE w # t
  <2>1. pc'[w] = pc[w] /\ loc'[w] = loc[w] /\ Key(w)' = Key(w)
    BY <1>3, OthersSame
  <2>2. pc[w] \in {"put", "fill", "update"} => Key(w) \in Keys
    BY <1>1, CallTyped DEF InCall, Putting
  <2> QED
    BY <1>1, <1>2, <2>1, <2>2 DEF Passed
<1>4. CASE w = t
  <2>1. pc'[t] = "idle" => loc'[t].n = 1
    BY Rewound
  <2>2. CASE pc'[t] = "put"
    <3>1. Key(t)' = Key(t) /\ loc'[t].n \in Nat
      <4>1. loc'[t] \in Locals
        BY StepGoes
      <4> QED
        BY <2>2, <4>1, CallStays, Constants DEF Locals
    <3>2. CASE loc'[t].n = 1
      BY <1>4, <2>2, <3>1, <3>2 DEF Passed
    <3>3. CASE (PutScan(t) \/ Fill(t)) /\ ScanOn(t)
      <4>1. Key(t) \in Keys /\ \A n \in 1 .. 2 * SLOTS_NUM : n <= loc[t].n => table[Scan[Key(t)][n]] # NULL
        BY <3>3, ScannedOn
      <4>2. loc'[t].n = loc[t].n + 1
        BY <1>1, <2>2, <3>3, <4>1, ScanOnGoes
      <4>3. \A n \in 1 .. 2 * SLOTS_NUM : n < loc'[t].n => n <= loc[t].n
        BY <1>1, <4>2, LocTyped, Constants
      <4> QED
        BY <1>2, <1>4, <2>2, <3>1, <4>1, <4>3 DEF Passed
    <3> QED
      BY <2>2, <3>2, <3>3, Rewound
  <2>3. CASE pc'[t] \in {"fill", "update"}
    <3>1. PutScan(t) /\ loc'[t].n = loc[t].n /\ Key(t)' = Key(t) /\ Key(t) \in Keys
      <4>1. pc \in [Threads -> PCs] /\ loc \in [Threads -> Locals]
        BY <1>1 DEF Typed
      <4>2. InCall(t)'
        BY InCallNext
      <4>3. Fail(t) => pc'[t] \in {"put", "idle"}
        BY <1>1, FailGoes
      <4>4. Search(t) => pc'[t] \in {"move", "search"}
        BY SearchGoes
      <4>5. Key(t)' = Key(t) /\ Key(t) \in Keys /\ Call(t).op = "put"
        BY <1>1, <2>3, CallStays, CallTyped DEF Putting
      <4>6. ScanOn(t) => pc'[t] \in {"put", "search"}
        BY <1>1, <4>5, ScanOnGoes
      <4>7. ~get(t)
        <5>1. get(t) => pc[t] \in Getting
          BY DEF get, GetNode, GetVersion, GetVal, GetCheck, Getting
        <5> QED
          BY <1>1, <4>5, <5>1 DEF InCall
      <4>8. PutScan(t)
        BY <2>3, <4>1, <4>3, <4>4, <4>6, <4>7 DEF Step, BeginGet, BeginPut, put, PutScan, Fill, Update, SetVal,
           Store, Stored, NoPath, LockLower, LockHigher, MoveFails, Copy, Copied, Take, TakeFails, Return, Goto
      <4>9. loc' = [loc EXCEPT ![t].node = table[At(t)], ![t].slot = At(t)]
        BY <2>3, <4>6, <4>8 DEF PutScan
      <4> QED
        BY <4>1, <4>5, <4>8, <4>9 DEF Locals
    <3>2. \A n \in 1 .. 2 * SLOTS_NUM : n < loc[t].n => table[Scan[Key(t)][n]] # NULL
      BY <1>1, <3>1 DEF Passed, PutScan
    <3> QED
      BY <1>2, <1>4, <2>3, <3>1, <3>2 DEF Passed
  <2> QED
    BY <1>4, <2>1, <2>2, <2>3 DEF Passed
<1> QED
  BY <1>3, <1>4

\* A path that is tried, or found, stays one while its thread does not touch it.
LEMMA TriedStays ==
    ASSUME Inductive, NEW t \in Threads, Step(t), NEW w \in Threads, NEW e \in Paths,
           Tried(w, e), Key(w)' = Key(w)
    PROVE  Tried(w, e)'
<1>1. e.path \in Seq(Slots) /\ e.hist \in Seq(Nat)
  BY DEF Paths
<1>2. \A n \in DOMAIN e.path : table'[e.path[n]] # NULL
  BY <1>1, NullOnce DEF Tried
<1>3. ASSUME NEW n \in DOMAIN e.hist PROVE Link(e.path[n], e.hist[n], e.path[n + 1])'
  <2>1. n \in DOMAIN e.path
    BY <1>1 DEF Tried
  <2>2. e.path[n] \in Slots /\ e.hist[n] \in Nat
    BY <1>1, <2>1
  <2>3. Link(e.path[n], e.hist[n], e.path[n + 1])
    BY DEF Tried
  <2> QED
    BY <2>2, <2>3, LinkStays
<1> QED
  BY <1>2, <1>3 DEF Tried

LEMMA FoundStays ==
    ASSUME Inductive, NEW t \in Threads, Step(t), NEW w \in Threads,
           Found(w), Key(w)' = Key(w), loc'[w].path = loc[w].path, loc'[w].hist = loc[w].hist,
           loc'[w].i \in 1 .. Len(loc[w].path), pc'[w] = "take" <=> loc'[w].i = 1
    PROVE  Found(w)'
<1> DEFINE p == loc[w].path
           h == loc[w].hist
           last == Len(p)
<1>1. p \in Seq(Slots) /\ h \in Seq(Nat)
  BY DEF Inductive, Typed, Locals
<1>2. /\ last >= 2 /\ Len(h) = last /\ Simple(p) /\ p[1] \in Buckets(Key(w))
      /\ loc[w].i \in 1 .. last
      /\ pc[w] = "take" <=> loc[w].i = 1
      /\ \A n \in 1 .. last - 1 : table[p[n]] # NULL /\ Link(p[n], h[n], p[n + 1])
      /\ h[last] <= key_versions[p[last]]
      /\ key_versions[p[last]] = h[last] /\ ~Odd(h[last]) => table[p[last]] = NULL
  BY DEF Found
<1> HIDE DEF p, h
<1>3. ASSUME NEW n \in 1 .. last - 1 PROVE table'[p[n]] # NULL /\ Link(p[n], h[n], p[n + 1])'
  <2>1. p[n] \in Slots /\ h[n] \in Nat
    BY <1>1, <1>2
  <2>2. table[p[n]] # NULL /\ Link(p[n], h[n], p[n + 1])
    BY <1>2
  <2>3. Link(p[n], h[n], p[n + 1])'
    <3> DEFINE s == p[n]
               v == h[n]
               r == p[n + 1]
    <3> HIDE DEF s, v, r
    <3>1. s \in Slots /\ v \in Nat /\ Link(s, v, r)
      BY <2>1, <2>2 DEF s, v, r
    <3>2. s' = s /\ v' = v /\ r' = r
      BY DEF s, v, r, p, h
    <3>3. v <= key_versions'[s] /\ (key_versions'[s] = v /\ ~Odd(v) => r \in Buckets(table'[s].key))
      BY <3>1, SlotStep DEF Link
    <3> QED
      BY <3>2, <3>3 DEF Link, s, v, r
  <2> QED
    BY <2>1, <2>2, <2>3, NullOnce
<1>4. /\ h[last] <= key_versions'[p[last]]
      /\ key_versions'[p[last]] = h[last] /\ ~Odd(h[last]) => table'[p[last]] = NULL
  <2>1. p[last] \in Slots /\ h[last] \in Nat
    BY <1>1, <1>2
  <2> QED
    BY <1>2, <2>1, SlotStep
<1>5. loc'[w].path = p /\ loc'[w].hist = h /\ p' = p /\ h' = h
  BY DEF p, h
<1> QED
  BY <1>2, <1>3, <1>4, <1>5 DEF Found

\* The path of the queue that is tried next, with one more slot.
LEMMA Prolong ==
    ASSUME Inductive, NEW t \in Threads, pc[t] = "search", loc[t].que # <<>>,
           NEW s \in Buckets(Next_Key(t)), s \notin Range(Next_Path(t)),
           NEW q, q = Append(Next_Path(t), s)
    PROVE  /\ q \in Seq(Slots) /\ Len(q) = Len(Next_Path(t)) + 1
           /\ Simple(q) /\ q[1] \in Buckets(Key(t)) /\ q[Len(q)] = s
           /\ \A n \in 1 .. Len(Next_Path(t)) :
                table[q[n]] # NULL /\ Link(q[n], Next_Hist(t)[n], q[n + 1])
<1> DEFINE p == Next_Path(t)
           h == Next_Hist(t)
           e == Head(loc[t].que)
           last == Last(p)
<1>1. /\ Tried(t, e) /\ e \in Paths /\ e.path = p
      /\ p \in Seq(Slots) /\ Len(p) \in Nat \ {0} /\ last = p[Len(p)] /\ last \in Slots
      /\ Next_Key(t) \in Keys /\ h \in Seq(Nat) /\ Len(h) = Len(p)
      /\ \A n \in 1 .. Len(p) : h[n] = IF n = Len(p) THEN key_versions[last] ELSE e.hist[n]
      /\ Next_Key(t) = table[last].key
  BY NextPath DEF Next_Path, Next_Key
<1>2. /\ Len(e.hist) = Len(p) - 1 /\ Simple(p) /\ p[1] \in Buckets(Key(t))
      /\ \A n \in DOMAIN p : table[p[n]] # NULL
      /\ \A n \in DOMAIN e.hist : Link(p[n], e.hist[n], p[n + 1])
  BY <1>1 DEF Tried
<1>3. e.hist \in Seq(Nat)
  BY <1>1 DEF Paths
<1>4. s \in Slots
  BY <1>1, ScanSlots
<1>5. key_versions[last] \in Nat
  BY <1>1 DEF Inductive, Typed
<1>6. \A n \in 1 .. Len(p) : p[n] # s
  BY <1>1 DEF Range
<1>7. q = Append(p, s) /\ DOMAIN p = 1 .. Len(p)
  BY <1>1
<1> HIDE DEF p, h, e, last
<1>8. /\ q \in Seq(Slots) /\ Len(q) = Len(p) + 1 /\ q[Len(q)] = s
      /\ \A n \in 1 .. Len(p) : q[n] = p[n]
      /\ DOMAIN q = 1 .. Len(p) + 1
  BY <1>1, <1>4, <1>7
<1>9. Simple(q)
  <2>1. \A m, n \in 1 .. Len(p) + 1 : q[m] = q[n] => m = n
    <3>1. \A n \in 1 .. Len(p) + 1 : n = Len(p) + 1 \/ n \in 1 .. Len(p)
      BY <1>1
    <3>2. \A m, n \in 1 .. Len(p) : p[m] = p[n] => m = n
      BY <1>2, <1>7 DEF Simple
    <3>3. q[Len(p) + 1] = s
      BY <1>8
    <3> QED
      BY <1>6, <1>8, <3>1, <3>2, <3>3, Zenon
  <2> QED
    BY <1>8, <2>1 DEF Simple
<1>10. q[1] \in Buckets(Key(t))
  BY <1>1, <1>2, <1>8
<1>11. ASSUME NEW n \in 1 .. Len(p)
       PROVE  table[q[n]] # NULL /\ Link(q[n], h[n], q[n + 1])
  <2>1. table[q[n]] # NULL
    BY <1>2, <1>7, <1>8
  <2>2. CASE n = Len(p)
    <3>1. q[n] = last /\ h[n] = key_versions[last] /\ q[n + 1] = s
      BY <1>1, <1>8, <2>2
    <3> QED
      BY <1>1, <1>5, <2>1, <3>1 DEF Link
  <2>3. CASE n # Len(p)
    <3>1. n \in 1 .. Len(p) - 1 /\ n + 1 \in 1 .. Len(p)
      BY <1>1, <2>3
    <3>2. n \in DOMAIN e.hist
      BY <1>1, <1>2, <1>3, <3>1
    <3>3. h[n] = e.hist[n] /\ q[n] = p[n] /\ q[n + 1] = p[n + 1]
      BY <1>1, <1>8, <2>3, <3>1
    <3> QED
      BY <1>2, <2>1, <3>2, <3>3
  <2> QED
    BY <2>2, <2>3
<1> QED
  BY <1>8, <1>9, <1>10, <1>11 DEF p, h

LEMMA TriedNext ==
    ASSUME Inductive, NEW t \in Threads, Step(t), NEW w \in Threads
    PROVE  TriedAll(w)'
<1>1. Typed /\ InCall(t) /\ TriedAll(w) /\ pc \in [Threads -> PCs] /\ loc \in [Threads -> Locals]
  BY DEF Inductive, Typed
<1>2. CASE w # t
  <2>1. pc'[w] = pc[w] /\ loc'[w] = loc[w] /\ Key(w)' = Key(w)
    BY <1>2, OthersSame
  <2>2. loc[w].que \in Seq(Paths)
    BY <1>1 DEF Locals
  <2>3. \A n \in DOMAIN loc[w].que : loc[w].que[n] \in Paths
    BY <2>2
  <2> QED
    BY <1>1, <2>1, <2>3, TriedStays DEF TriedAll
<1>3. CASE w = t /\ pc'[t] = "search"
  <2>1. Key(t)' = Key(t) /\ Key(t) \in Keys
    BY <1>1, <1>3, CallStays, CallTyped DEF Putting
  <2>2. loc'[t].que \in Seq(Paths)
    BY StepGoes DEF Locals
  <2>3. SUFFICES ASSUME NEW n \in DOMAIN loc'[t].que PROVE Tried(t, loc'[t].que[n])
    <3>1. \A n \in DOMAIN loc'[t].que : loc'[t].que[n] \in Paths
      BY <2>2
    <3>2. ASSUME NEW n \in DOMAIN loc'[t].que PROVE Tried(t, loc[t].que[n])'
      <4>1. PICK e \in Paths : e = loc'[t].que[n] /\ Tried(t, e)
        BY <2>3, <3>1
      <4>2. Tried(t, e)'
        BY <2>1, <4>1, TriedStays
      <4> QED
        BY <4>1, <4>2 DEF Tried
    <3> QED
      BY <1>3, <3>2 DEF TriedAll
  <2>4. CASE Search(t)
    <3> DEFINE p == Next_Path(t)
               h == Next_Hist(t)
               longer == Others(Next_Key(t), p)
               more == [i \in DOMAIN longer |-> [path |-> Append(p, longer[i]), hist |-> h]]
               tail == Tail(loc[t].que)
    <3>1. /\ pc[t] = "search" /\ loc[t].que # <<>>
          /\ \A s \in Buckets(Next_Key(t)) : table[s] # NULL
          /\ loc' = [loc EXCEPT ![t].que = Tail(@) \o more]
      BY <1>3, <2>4, SearchGoes
    <3>2. loc'[t].que = tail \o more /\ loc[t].que \in Seq(Paths)
      BY <1>1, <3>1 DEF Locals
    <3>3. /\ longer \in Seq(Slots)
          /\ \A j \in DOMAIN longer : longer[j] \in Buckets(Next_Key(t)) /\ longer[j] \notin Range(p)
      BY <3>1, NextPath, OthersAre
    <3>4. tail \in Seq(Paths) /\ Len(tail) = Len(loc[t].que) - 1 /\ \A j \in 1 .. Len(tail) : tail[j] = loc[t].que[j + 1]
      BY <3>1, <3>2
    <3>5. Len(more) = Len(longer) /\ DOMAIN more = 1 .. Len(longer) /\ Len(longer) \in Nat
      <4>1. DOMAIN longer = 1 .. Len(longer) /\ Len(longer) \in Nat
        BY <3>3
      <4> HIDE DEF longer, p, h
      <4>2. DOMAIN more = 1 .. Len(longer)
        BY <4>1
      <4> QED
        BY <4>1, <4>2
    <3>6. CASE n \in 1 .. Len(tail)
      <4>1. loc'[t].que[n] = loc[t].que[n + 1] /\ n + 1 \in DOMAIN loc[t].que
        <5> HIDE DEF tail, more
        <5>1. (tail \o more)[n] = tail[n]
          BY <3>4, <3>6
        <5>2. tail[n] = loc[t].que[n + 1] /\ n + 1 \in 1 .. Len(loc[t].que)
          BY <3>2, <3>4, <3>6
        <5> QED
          BY <3>2, <5>1, <5>2
      <4> QED
        BY <1>1, <1>3, <3>1, <4>1 DEF TriedAll
    <3>7. CASE n \notin 1 .. Len(tail)
      <4>1. PICK j \in DOMAIN longer : loc'[t].que[n] = more[j]
        <5>0. tail \in Seq(Paths) /\ DOMAIN longer = 1 .. Len(longer) /\ n \in DOMAIN (tail \o more)
          BY <3>2, <3>3, <3>4
        <5> HIDE DEF tail, more, longer
        <5>1. Len(tail) \in Nat /\ n \in 1 .. Len(tail) + Len(more)
          BY <3>5, <5>0
        <5>2. n - Len(tail) \in 1 .. Len(longer) /\ (tail \o more)[n] = more[n - Len(tail)]
          BY <3>5, <3>7, <5>1
        <5> QED
          BY <3>2, <5>0, <5>2
      <4> DEFINE s == longer[j]
                 q == Append(p, s)
      <4>2. loc'[t].que[n] = [path |-> q, hist |-> h]
        BY <4>1
      <4>3. s \in Buckets(Next_Key(t)) /\ s \notin Range(p) /\ table[s] # NULL
        BY <3>1, <3>3
      <4> HIDE DEF s, longer
      <4>4. /\ q \in Seq(Slots) /\ Len(q) = Len(p) + 1
            /\ Simple(q) /\ q[1] \in Buckets(Key(t)) /\ q[Len(q)] = s
            /\ \A m \in 1 .. Len(p) : table[q[m]] # NULL /\ Link(q[m], h[m], q[m + 1])
        BY <3>1, <4>3, Prolong
      <4>5. h \in Seq(Nat) /\ Len(h) = Len(p) /\ Len(p) \in Nat
        BY <3>1, NextPath
      <4> HIDE DEF q, p, h
      <4>6. \A m \in DOMAIN q : table[q[m]] # NULL
        BY <4>3, <4>4, <4>5
      <4>7. Len(q) >= 1 /\ Len(h) = Len(q) - 1 /\ DOMAIN h = 1 .. Len(p)
        BY <4>4, <4>5
      <4> QED
        BY <4>2, <4>4, <4>6, <4>7 DEF Tried
    <3> QED
      BY <3>6, <3>7
  <2>5. CASE (PutScan(t) \/ Fill(t)) /\ ScanOn(t)
    <3>1. loc'[t].que = First(Key(t)) /\ loc[t].n = 2 * SLOTS_NUM
      BY <1>1, <1>3, <2>1, <2>5, ScanOnGoes
    <3>2. \A s \in Buckets(Key(t)) : table[s] # NULL
      <4>1. \A m \in 1 .. 2 * SLOTS_NUM : table[Scan[Key(t)][m]] # NULL
        BY <2>5, <3>1, ScannedOn, Constants
      <4>2. DOMAIN Scan[Key(t)] = 1 .. 2 * SLOTS_NUM
        BY <2>1, ScanSlots
      <4>3. TAKE s \in Buckets(Key(t))
      <4>4. PICK m \in DOMAIN Scan[Key(t)] : s = Scan[Key(t)][m]
        BY <4>3, Zenon DEF Buckets, Range
      <4> QED
        BY <4>1, <4>2, <4>4
    <3>3. n \in 1 .. 2 * SLOTS_NUM /\ loc'[t].que[n] = [path |-> <<Queued[Key(t)][n]>>, hist |-> <<>>]
      BY <3>1 DEF First
    <3> DEFINE s == Queued[Key(t)][n]
    <3>4. s \in Buckets(Key(t)) /\ table[s] # NULL
      BY <2>1, <3>2, <3>3, QueuedIsScanned
    <3> HIDE DEF s
    <3> QED
      BY <3>3, <3>4 DEF Tried, Simple, s
  <2>6. Search(t) \/ ((PutScan(t) \/ Fill(t)) /\ ScanOn(t))
    <3>1. Fail(t) => pc'[t] \in {"put", "idle"}
      BY <1>1, FailGoes
    <3>2. ~get(t)
      <4>1. get(t) => pc[t] \in Getting
        BY DEF get, GetNode, GetVersion, GetVal, GetCheck, Getting
      <4>2. Call(t).op = "put"
        BY <1>3, CallStays DEF Putting
      <4> QED
        BY <1>1, <4>1, <4>2 DEF InCall
    <3> QED
      BY <1>1, <1>3, <3>1, <3>2 DEF Step, BeginGet, BeginPut, put, PutScan, Fill, Update, SetVal,
         Store, Stored, NoPath, LockLower, LockHigher, MoveFails, Copy, Copied, Take, TakeFails, Return, Goto
  <2> QED
    BY <2>4, <2>5, <2>6
<1> QED
  BY <1>2, <1>3 DEF TriedAll

\* The steps that lead to a move, or to the last step of a path.
LEMMA OnPathEntry ==
    ASSUME Inductive, NEW t \in Threads, Step(t), pc'[t] \in Moving \cup {"take"}
    PROVE  /\ Key(t)' = Key(t)
           /\ Search(t) \/ LockLower(t) \/ LockHigher(t) \/ Copy(t) \/ Copied(t)
<1>1. Typed /\ InCall(t) /\ pc \in [Threads -> PCs]
  BY DEF Inductive, Typed
<1>2. Key(t)' = Key(t) /\ Call(t).op = "put" /\ Key(t) \in Keys
  BY <1>1, CallStays, CallTyped DEF Putting, Moving
<1>3. ~get(t)
  <2>1. get(t) => pc[t] \in Getting
    BY DEF get, GetNode, GetVersion, GetVal, GetCheck, Getting
  <2> QED
    BY <1>1, <1>2, <2>1 DEF InCall
<1>4. Fail(t) => pc'[t] \in {"put", "idle"}
  BY <1>1, FailGoes
<1>5. ScanOn(t) => pc'[t] \in {"put", "search"}
  BY <1>1, <1>2, ScanOnGoes
<1> QED
  BY <1>1, <1>2, <1>3, <1>4, <1>5 DEF Moving, Step, BeginGet, BeginPut, put, PutScan, Fill, Update, SetVal,
     Store, Stored, NoPath, MoveFails, Take, TakeFails, Return, Goto

LEMMA OnPathNext ==
    ASSUME Inductive, NEW t \in Threads, Step(t), NEW w \in Threads
    PROVE  OnPath(w)'
<1>1. Typed /\ InCall(t) /\ OnPath(w) /\ pc \in [Threads -> PCs] /\ loc \in [Threads -> Locals]
  BY DEF Inductive, Typed
<1>2. CASE w # t
  <2>1. pc'[w] = pc[w] /\ loc'[w] = loc[w] /\ Key(w)' = Key(w)
    BY <1>2, OthersSame
  <2>2. Found(w) => loc[w].i \in 1 .. Len(loc[w].path) /\ (pc[w] = "take" <=> loc[w].i = 1)
    BY DEF Found
  <2> QED
    BY <1>1, <2>1, <2>2, FoundStays DEF OnPath
<1>3. CASE w = t /\ pc'[t] \in Moving \cup {"take"}
  <2>1. Key(t)' = Key(t)
    BY <1>3, OnPathEntry
  <2>2. CASE LockLower(t) \/ LockHigher(t) \/ Copy(t)
    <3>1. /\ pc[t] \in Moving /\ pc[t] # "take" /\ pc'[t] # "take" /\ loc' = loc
      BY <1>1, <2>2 DEF LockLower, LockHigher, Copy, Goto, Moving
    <3>2. Found(t) /\ loc[t].i \in 1 .. Len(loc[t].path) /\ ~(loc[t].i = 1)
      BY <1>1, <1>3, <3>1 DEF OnPath, Found
    <3>3. Found(t)'
      BY <2>1, <3>1, <3>2, FoundStays
    <3> QED
      BY <1>3, <3>3 DEF OnPath
  <2>3. CASE Copied(t)
    <3>1. pc[t] \in Moving /\ pc[t] = "copied" /\ Found(t)
      BY <1>1, <1>3, <2>3 DEF Copied, Moving, OnPath
    <3>2. loc[t].i \in 2 .. Len(loc[t].path) /\ Len(loc[t].path) \in Nat
      BY <3>1, MoveSlots
    <3>3. loc' = [loc EXCEPT ![t].i = @ - 1] /\ pc' = [pc EXCEPT ![t] = IF loc[t].i = 2 THEN "take" ELSE "move"]
      BY <2>3 DEF Copied, Goto
    <3>4. /\ loc'[t].path = loc[t].path /\ loc'[t].hist = loc[t].hist /\ loc'[t].i = loc[t].i - 1
          /\ pc'[t] = "take" <=> loc[t].i = 2
      BY <1>1, <3>3 DEF Locals
    <3>5. loc'[t].i \in 1 .. Len(loc[t].path) /\ (pc'[t] = "take" <=> loc'[t].i = 1)
      BY <3>2, <3>4
    <3>6. Found(t)'
      BY <2>1, <3>1, <3>4, <3>5, FoundStays
    <3> QED
      BY <1>3, <3>6 DEF OnPath
  <2>4. CASE Search(t)
    <3> DEFINE p == Next_Path(t)
               h == Next_Hist(t)
    <3>1. pc'[t] = "move" /\ pc[t] = "search" /\ loc[t].que # <<>> /\ UNCHANGED <<table, key_versions>>
      BY <1>3, <2>4, SearchGoes DEF Search, Moving, shared
    <3>2. PICK end \in Buckets(Next_Key(t)) :
            /\ table[end] = NULL
            /\ loc' = [loc EXCEPT ![t] = [Blank EXCEPT
                         !.path = Append(p, end), !.hist = Append(h, key_versions[end]),
                         !.i = Len(p) + 1, !.attempt = loc[t].attempt]]
      BY <2>4, <3>1, SearchGoes
    <3>3. /\ Tried(t, Head(loc[t].que)) /\ Head(loc[t].que).path = p
          /\ p \in Seq(Slots) /\ Len(p) \in Nat \ {0} /\ Next_Key(t) \in Keys
          /\ h \in Seq(Nat) /\ Len(h) = Len(p)
      BY <3>1, NextPath DEF Next_Path
    <3>4. end \in Slots
      BY <3>3, ScanSlots
    <3>5. end \notin Range(p)
      BY <3>2, <3>3 DEF Tried, Range
    <3> DEFINE q == Append(p, end)
               v == key_versions[end]
               g == Append(h, v)
    <3>6. /\ q \in Seq(Slots) /\ Len(q) = Len(p) + 1
          /\ Simple(q) /\ q[1] \in Buckets(Key(t)) /\ q[Len(q)] = end
          /\ \A n \in 1 .. Len(p) : table[q[n]] # NULL /\ Link(q[n], h[n], q[n + 1])
      BY <3>1, <3>5, Prolong
    <3>7. v \in Nat
      BY <1>1, <3>4 DEF Typed
    <3>8. g \in Seq(Nat) /\ Len(g) = Len(p) + 1 /\ g[Len(p) + 1] = v /\ \A n \in 1 .. Len(p) : g[n] = h[n]
      <4> HIDE DEF v, h
      <4> QED
        BY <3>3, <3>7
    <3>9. loc'[t].path = q /\ loc'[t].hist = g /\ loc'[t].i = Len(p) + 1
      BY <1>1, <3>2 DEF Blank
    <3> HIDE DEF p, h, q, g
    <3>10. /\ Len(q) >= 2 /\ Len(g) = Len(q) /\ loc'[t].i \in 1 .. Len(q) /\ loc'[t].i # 1
           /\ g[Len(q)] <= key_versions[q[Len(q)]] /\ table[q[Len(q)]] = NULL
           /\ Len(q) - 1 = Len(p)
      BY <3>2, <3>3, <3>6, <3>7, <3>8, <3>9
    <3>11. \A n \in 1 .. Len(q) - 1 : table[q[n]] # NULL /\ Link(q[n], g[n], q[n + 1])
      BY <3>6, <3>8, <3>10
    <3>12. table' = table /\ key_versions' = key_versions
      BY <3>1
    <3>13. ASSUME NEW n \in 1 .. Len(q) - 1
           PROVE  /\ table'[q[n]] # NULL
                  /\ g[n] <= key_versions'[q[n]]
                  /\ key_versions'[q[n]] = g[n] /\ ~Odd(g[n]) => q[n + 1] \in Buckets(table'[q[n]].key)
      BY <3>11, <3>12 DEF Link
    <3>14. g[Len(q)] <= key_versions'[q[Len(q)]] /\ table'[q[Len(q)]] = NULL
      BY <3>10, <3>12
    <3>15. q[1] \in Buckets(Key(t)') /\ Simple(loc[t].path)'
      BY <2>1, <3>6, <3>9 DEF Simple
    <3> QED
      BY <1>3, <3>1, <3>9, <3>10, <3>13, <3>14, <3>15 DEF OnPath, Found, Link
  <2> QED
    BY <1>3, <2>2, <2>3, <2>4, OnPathEntry
<1> QED
  BY <1>2, <1>3 DEF OnPath

\* A slot that another thread holds is not changed.
LEMMA HeldStays ==
    ASSUME Inductive, NEW t \in Threads, Step(t), NEW w \in Threads, w # t, NEW s \in Slots, s \in Held(w)
    PROVE  table'[s] = table[s] /\ s \notin Writing(t)
<1>1. table_locks[s] = w /\ table \in [Slots -> DOMAIN val \cup {NULL}]
  BY DEF Inductive, LocksHeld, Typed
<1>2. s \notin Held(t)
  BY <1>1 DEF Inductive, LocksHeld
<1>3. s \notin Writing(t)
  BY <1>2, WritingHeld
<1>4. Store(t) => loc[t].slot \in Writing(t)
  BY HeldIs DEF Store, Locked3
<1>5. Copy(t) => To(t) \in Writing(t)
  BY HeldIs DEF Copy, Locked2
<1> QED
  BY <1>1, <1>3, <1>4, <1>5, TableStep

LEMMA MoveOKNext ==
    ASSUME Inductive, NEW t \in Threads, Step(t), NEW w \in Threads
    PROVE  MoveOK(w)'
<1>1. Typed /\ MoveOK(t) /\ MoveOK(w) /\ pc \in [Threads -> PCs]
  BY DEF Inductive, Typed
<1>2. CASE w # t
  <2>1. pc'[w] = pc[w] /\ To(w)' = To(w) /\ From(w)' = From(w)
    BY <1>2, OthersSame
  <2>2. pc[w] \in Locked2 => /\ To(w) \in Slots /\ From(w) \in Slots
                             /\ To(w) \in Held(w) /\ From(w) \in Held(w)
    BY HeldIs, MoveSlots DEF Locked2, Moving
  <2>3. pc[w] \in Locked2 => table'[To(w)] = table[To(w)] /\ table'[From(w)] = table[From(w)]
    BY <1>2, <2>2, HeldStays
  <2> QED
    BY <1>1, <2>1, <2>3 DEF MoveOK, Locked2
<1>3. CASE w = t /\ pc'[t] \in Locked2
  <2>1. pc'[t] \in Moving /\ pc'[t] \in {"copy", "copied"}
    BY <1>3 DEF Locked2, Moving
  <2>2. LockHigher(t) \/ Copy(t)
    BY <1>1, <2>1, OnPathEntry, SearchGoes DEF LockLower, Copied, Goto
  <2>3. pc[t] \in Moving /\ loc' = loc /\ To(t)' = To(t) /\ From(t)' = From(t)
    BY <2>2 DEF LockHigher, Copy, Moving, To, From
  <2>4. To(t) \in Slots /\ From(t) \in Slots /\ To(t) # From(t) /\ loc[t].i \in 2 .. Len(loc[t].path) /\ Len(loc[t].path) \in Nat
    BY <2>3, MoveSlots
  <2>5. CASE LockHigher(t)
    <3>1. pc'[t] = "copy" /\ table' = table /\ Unchanged(t, loc[t].i - 1)
      BY <1>1, <2>5 DEF LockHigher, Goto
    <3>2. Found(t)
      BY <2>3 DEF Inductive, OnPath
    <3>3. loc[t].i - 1 \in 1 .. Len(loc[t].path) - 1 /\ loc[t].i - 1 + 1 = loc[t].i
      BY <2>4
    <3>4. Link(From(t), loc[t].hist[loc[t].i - 1], To(t))
      BY <3>2, <3>3 DEF Found, From, To
    <3>5. To(t) \in Buckets(table[From(t)].key)
      BY <3>1, <3>4 DEF Link, Unchanged, From
    <3> QED
      BY <1>3, <2>3, <3>1, <3>5 DEF MoveOK
  <2>6. CASE Copy(t)
    <3>1. pc'[t] = "copied" /\ table' = [table EXCEPT ![To(t)] = table[From(t)]]
      BY <1>1, <2>6 DEF Copy, Goto
    <3>2. table'[To(t)] = table'[From(t)]
      BY <1>1, <2>4, <3>1 DEF Typed
    <3> QED
      BY <1>3, <2>3, <3>1, <3>2 DEF MoveOK
  <2> QED
    BY <2>2, <2>5, <2>6
<1> QED
  BY <1>2, <1>3 DEF MoveOK, Locked2

LEMMA PlacedNext ==
    ASSUME Inductive, NEW t \in Threads, Step(t)
    PROVE  Placed'
<1>1. Typed /\ Placed /\ InCall(t) /\ MoveOK(t) /\ table \in [Slots -> DOMAIN val \cup {NULL}]
  BY DEF Inductive, Typed
<1>2. CASE UNCHANGED table
  BY <1>1, <1>2 DEF Placed
<1>3. CASE Store(t)
  <2>1. loc[t].slot \in Buckets(Key(t)) /\ NewNode(t).key = Key(t)
    BY <1>1, <1>3, CallTyped DEF InCall, Store, Putting
  <2> QED
    BY <1>1, <1>3, <2>1 DEF Placed, Store
<1>4. CASE Copy(t)
  BY <1>1, <1>4 DEF Placed, Copy, MoveOK
<1> QED
  BY <1>2, <1>3, <1>4, TableStep

-----------------------------------------------------------------------------
(* Nothing is lost.                                                         *)

\* The step of another thread makes w overwrite nothing more.
LEMMA DoomsOther ==
    ASSUME Inductive, NEW t \in Threads, Step(t), NEW w \in Threads, w # t, NEW r \in Slots, Dooms(w, r)'
    PROVE  Dooms(w, r)
<1>1. /\ pc'[w] = pc[w] /\ loc'[w] = loc[w] /\ To(w)' = To(w) /\ From(w)' = From(w)
  BY OthersSame
<1>2. CASE pc[w] \in {"move", "lockHigher", "take"} /\ loc[w].i < Len(loc[w].path) /\ r = To(w) /\ Unchanged(w, loc[w].i)'
  <2>1. Found(w) /\ loc[w].path \in Seq(Slots) /\ loc[w].hist \in Seq(Nat)
    BY <1>2 DEF Inductive, OnPath, Moving, Typed, Locals
  <2>2. loc[w].i \in 1 .. Len(loc[w].path) - 1
    BY <1>2, <2>1 DEF Found
  <2>3. loc[w].hist[loc[w].i] <= key_versions[To(w)] /\ loc[w].hist[loc[w].i] \in Nat
    <3>1. loc[w].i \in DOMAIN loc[w].hist
      BY <2>1, <2>2 DEF Found
    <3> QED
      BY <2>1, <2>2, <3>1 DEF Found, Link, To
  <2>4. key_versions'[To(w)] = loc[w].hist[loc[w].i] /\ ~Odd(loc[w].hist[loc[w].i])
    BY <1>1, <1>2 DEF Unchanged, To
  <2>5. key_versions[To(w)] = loc[w].hist[loc[w].i]
    BY <1>2, <2>3, <2>4, SlotStep
  <2> QED
    BY <1>2, <2>4, <2>5 DEF Dooms, Unchanged, To
<1>3. CASE (pc[w] = "copy" /\ r = To(w)) \/ (pc[w] = "copied" /\ r = From(w)) \/ (pc[w] = "store" /\ r = loc[w].slot)
  BY <1>3 DEF Dooms
<1> QED
  BY <1>1, <1>2, <1>3 DEF Dooms

\* A step of t itself makes it overwrite nothing more, except null slots, and
\* the slot it has copied from.
LEMMA DoomsSelf ==
    ASSUME Inductive, NEW t \in Threads, Step(t), NEW r \in Slots, table[r] # NULL, Dooms(t, r)'
    PROVE  Dooms(t, r) \/ (Copy(t) /\ r = From(t))
<1>1. Typed /\ InCall(t) /\ OnPath(t) /\ pc \in [Threads -> PCs] /\ loc \in [Threads -> Locals]
  BY DEF Inductive, Typed
<1>2. CASE pc'[t] \in Moving \cup {"take"}
  <2>1. CASE Search(t)
    <3>1. loc'[t].i = Len(loc'[t].path) /\ pc'[t] = "move"
      <4> DEFINE p == Next_Path(t)
      <4>1. pc'[t] = "move" /\ pc[t] = "search" /\ loc[t].que # <<>>
        BY <1>2, <2>1, SearchGoes DEF Moving
      <4>2. p \in Seq(Slots) /\ Next_Key(t) \in Keys
        BY <4>1, NextPath
      <4>3. PICK end \in Buckets(Next_Key(t)) :
              loc'[t].path = Append(p, end) /\ loc'[t].i = Len(p) + 1
        <5>1. \E end \in Buckets(Next_Key(t)) :
                loc' = [loc EXCEPT ![t] = [Blank EXCEPT
                         !.path = Append(p, end), !.hist = Append(Next_Hist(t), key_versions[end]),
                         !.i = Len(p) + 1, !.attempt = loc[t].attempt]]
          BY <2>1, <4>1, SearchGoes
        <5> QED
          BY <1>1, <5>1 DEF Blank
      <4> HIDE DEF p
      <4>4. end \in Slots
        BY <4>2, ScanSlots
      <4> QED
        BY <4>1, <4>2, <4>3, <4>4
    <3>2. Len(loc'[t].path) \in Nat
      <4>1. loc'[t].path \in Seq(Slots)
        BY StepGoes DEF Locals
      <4> QED
        BY <4>1
    <3> QED
      BY <3>1, <3>2 DEF Dooms
  <2>2. CASE LockLower(t)
    <3>1. pc[t] = "move" /\ pc'[t] = "lockHigher" /\ loc' = loc /\ key_versions' = key_versions
      BY <1>1, <2>2 DEF LockLower, Goto
    <3> QED
      BY <3>1 DEF Dooms, Unchanged, To
  <2>3. CASE LockHigher(t)
    <3>1. pc[t] = "lockHigher" /\ pc'[t] = "copy" /\ loc' = loc /\ Unchanged(t, loc[t].i)
      BY <1>1, <2>3 DEF LockHigher, Goto
    <3>2. r = To(t)
      BY <3>1 DEF Dooms, To
    <3>3. Found(t) /\ loc[t].i \in 2 .. Len(loc[t].path) /\ Len(loc[t].path) \in Nat
      BY <1>1, <3>1, MoveSlots DEF OnPath, Moving
    <3>4. CASE loc[t].i < Len(loc[t].path)
      BY <3>1, <3>2, <3>4 DEF Dooms
    <3>5. CASE loc[t].i = Len(loc[t].path)
      BY <3>1, <3>2, <3>3, <3>5 DEF Found, Unchanged, To
    <3> QED
      BY <3>3, <3>4, <3>5
  <2>4. CASE Copy(t)
    <3>1. pc'[t] = "copied" /\ loc' = loc
      BY <1>1, <2>4 DEF Copy, Goto
    <3> QED
      BY <2>4, <3>1 DEF Dooms, From
  <2>5. CASE Copied(t)
    <3>1. /\ pc[t] = "copied" /\ pc'[t] \in {"take", "move"} /\ loc' = [loc EXCEPT ![t].i = @ - 1]
      BY <1>1, <2>5 DEF Copied, Goto
    <3>2. loc'[t].path = loc[t].path /\ loc'[t].i = loc[t].i - 1
      BY <1>1, <3>1 DEF Locals
    <3>3. To(t)' = From(t)
      BY <3>2 DEF To, From
    <3> QED
      BY <3>1, <3>3 DEF Dooms
  <2> QED
    BY <1>2, <2>1, <2>2, <2>3, <2>4, <2>5, OnPathEntry
<1>3. CASE pc'[t] = "store"
  <2>1. r = loc'[t].slot
    BY <1>3 DEF Dooms
  <2>2. (Fill(t) /\ table[loc[t].slot] = NULL) \/ Take(t)
    <3>1. Fail(t) => pc'[t] \in {"put", "idle"}
      BY <1>1, FailGoes
    <3>2. Search(t) => pc'[t] \in {"move", "search"}
      BY SearchGoes
    <3>3. Key(t) \in Keys /\ Call(t).op = "put"
      BY <1>1, <1>3, CallStays, CallTyped DEF Putting
    <3>4. ScanOn(t) => pc'[t] \in {"put", "search"}
      BY <1>1, <3>3, ScanOnGoes
    <3>5. ~get(t)
      <4>1. get(t) => pc[t] \in Getting
        BY DEF get, GetNode, GetVersion, GetVal, GetCheck, Getting
      <4> QED
        BY <1>1, <3>3, <4>1 DEF InCall
    <3> QED
      BY <1>1, <1>3, <3>1, <3>2, <3>4, <3>5 DEF Step, BeginGet, BeginPut, put, PutScan, Fill, Update, SetVal,
         Store, Stored, NoPath, LockLower, LockHigher, MoveFails, Copy, Copied, TakeFails, Return, Goto
  <2>3. CASE Fill(t) /\ table[loc[t].slot] = NULL
    BY <2>1, <2>3 DEF Fill
  <2>4. CASE Take(t)
    <3>1. pc[t] = "take" /\ Unchanged(t, 1) /\ loc'[t].slot = loc[t].path[1]
      BY <1>1, <2>4 DEF Take, Blank
    <3>2. loc[t].i = 1 /\ loc[t].i < Len(loc[t].path)
      <4>1. loc[t].path \in Seq(Slots)
        BY <1>1 DEF Locals
      <4> QED
        BY <1>1, <3>1, <4>1 DEF OnPath, Found
    <3> QED
      BY <2>1, <3>1, <3>2 DEF Dooms, To
  <2> QED
    BY <2>2, <2>3, <2>4
<1> QED
  BY <1>2, <1>3 DEF Dooms, Moving

\* What t is writing to no other thread is about to overwrite.
LEMMA WritingIsSafe ==
    ASSUME Inductive, NEW t \in Threads, NEW w \in Threads, w # t, NEW s \in Slots, s \in Writing(t)
    PROVE  ~Dooms(w, s)
<1>1. Odd(key_versions[s]) /\ s \notin Held(w)
  <2>1. s \in Held(t)
    BY WritingHeld
  <2> QED
    BY <2>1 DEF Inductive, LocksHeld
<1>2. pc[w] \in Locked2 => To(w) \in Held(w) /\ From(w) \in Held(w)
  BY HeldIs, MoveSlots DEF Locked2, Moving
<1>3. pc[w] = "store" => loc[w].slot \in Held(w)
  BY HeldIs DEF Locked3
<1> QED
  BY <1>1, <1>2, <1>3 DEF Dooms, Unchanged, To, Locked2

\* What stays where it was, of what is about to be overwritten elsewhere.
LEMMA SafeStays ==
    ASSUME Inductive, NEW t \in Threads, Step(t), NEW r \in Slots, table[r] # NULL, Safe(r),
           Copy(t) => table[r] # table[From(t)]
    PROVE  table'[r] = table[r] /\ Safe(r)'
<1>1. table'[r] = table[r]
  <2>1. Store(t) => Dooms(t, loc[t].slot)
    BY DEF Store, Dooms
  <2>2. Copy(t) => Dooms(t, To(t))
    BY DEF Copy, Dooms
  <2> QED
    BY <2>1, <2>2, TableStep DEF Safe, Inductive, Typed
<1>2. ASSUME NEW w \in Threads, Dooms(w, r)' PROVE FALSE
  <2>1. CASE w # t
    BY <1>2, <2>1, DoomsOther DEF Safe
  <2>2. CASE w = t
    BY <1>2, <2>2, DoomsSelf DEF Safe
  <2> QED
    BY <2>1, <2>2
<1> QED
  BY <1>1, <1>2 DEF Safe

LEMMA KeptNext ==
    ASSUME Inductive, NEW t \in Threads, Step(t)
    PROVE  Kept'
<1>1. Kept /\ table \in [Slots -> DOMAIN val \cup {NULL}] /\ pc \in [Threads -> PCs]
  BY DEF Inductive, Typed
<1>2. ASSUME NEW s \in Slots, table[s] # NULL, Copy(t) => table[s] # table[From(t)]
      PROVE  \E r \in Slots : table'[r] = table[s] /\ Safe(r)'
  <2>1. PICK r \in Slots : table[r] = table[s] /\ Safe(r)
    BY <1>1, <1>2 DEF Kept
  <2> QED
    BY <1>2, <2>1, SafeStays
<1>3. ASSUME NEW r \in Slots, r \in Writing(t), ~Dooms(t, r)'
      PROVE  Safe(r)'
  <2>1. \A w \in Threads : w # t => ~Dooms(w, r)'
    BY <1>3, WritingIsSafe, DoomsOther
  <2> QED
    BY <1>3, <2>1 DEF Safe
<1>4. CASE ~Store(t) /\ ~Copy(t)
  <2>1. table' = table
    BY <1>4, TableStep
  <2> QED
    BY <1>2, <1>4, <2>1 DEF Kept
<1>5. CASE Store(t)
  <2>1. pc[t] = "store" /\ pc'[t] = "stored" /\ ~Copy(t)
    BY <1>1, <1>5 DEF Store, Goto, Copy
  <2>2. loc[t].slot \in Slots /\ table' = [table EXCEPT ![loc[t].slot] = NewNode(t)]
    <3>1. Typed /\ InCall(t)
      BY DEF Inductive
    <3>2. loc[t].slot \in Buckets(Key(t)) /\ Key(t) \in Keys
      BY <2>1, <3>1, CallTyped DEF InCall, Putting
    <3> QED
      BY <1>5, <3>2, ScanSlots DEF Store
  <2>3. loc[t].slot \in Writing(t)
    BY <2>1, HeldIs DEF Locked3
  <2>4. ASSUME NEW s \in Slots, table'[s] # NULL
        PROVE  \E r \in Slots : table'[r] = table'[s] /\ Safe(r)'
    <3>1. CASE s = loc[t].slot
      BY <1>3, <2>1, <2>3, <3>1 DEF Dooms
    <3>2. CASE s # loc[t].slot
      <4>1. table'[s] = table[s]
        BY <1>1, <2>2, <3>2
      <4> QED
        BY <1>2, <2>1, <2>4, <4>1
    <3> QED
      BY <3>1, <3>2
  <2> QED
    BY <2>4 DEF Kept
<1>6. CASE Copy(t)
  <2>1. /\ pc[t] = "copy" /\ pc'[t] = "copied" /\ loc' = loc
        /\ table' = [table EXCEPT ![To(t)] = table[From(t)]]
    BY <1>1, <1>6 DEF Copy, Goto
  <2>2. To(t) \in Slots /\ To(t) # From(t) /\ To(t) \in Writing(t) /\ From(t)' = From(t)
    BY <2>1, MoveSlots, HeldIs DEF Moving, Locked2, From
  <2>3. ASSUME NEW s \in Slots, table'[s] # NULL
        PROVE  \E r \in Slots : table'[r] = table'[s] /\ Safe(r)'
    <3>1. CASE table'[s] = table[From(t)]
      <4>1. PICK r \in Slots : r = To(t)
        BY <2>2
      <4>2. ~Dooms(t, r)'
        BY <2>1, <2>2, <4>1 DEF Dooms
      <4>3. Safe(r)'
        BY <1>3, <2>2, <4>1, <4>2
      <4>4. table'[r] = table[From(t)]
        BY <1>1, <2>1, <4>1
      <4> QED
        BY <3>1, <4>3, <4>4
    <3>2. CASE table'[s] # table[From(t)]
      <4>1. table'[s] = table[s]
        BY <1>1, <2>1, <2>2, <3>2
      <4> QED
        BY <1>2, <2>3, <3>2, <4>1
    <3> QED
      BY <3>1, <3>2
  <2> QED
    BY <2>3 DEF Kept
<1> QED
  BY <1>4, <1>5, <1>6

\* So a key that is in the table stays in it.
LEMMA InTableStays ==
    ASSUME Inductive, NEW t \in Threads, Step(t), NEW k, InTable(k)
    PROVE  InTable(k)'
<1>1. PICK s \in Slots : table[s] # NULL /\ table[s].key = k
  BY DEF InTable, Matches
<1>2. \E r \in Slots : table'[r] = table[s]
  <2>1. CASE Copy(t) /\ table[s] = table[From(t)]
    <3>1. To(t) \in Slots
      BY <2>1, MoveSlots DEF Copy, Moving
    <3>2. table'[To(t)] = table[s]
      BY <2>1, <3>1 DEF Copy, Inductive, Typed
    <3> QED
      BY <3>1, <3>2
  <2>2. CASE ~(Copy(t) /\ table[s] = table[From(t)])
    <3>1. PICK r \in Slots : table[r] = table[s] /\ Safe(r)
      BY <1>1 DEF Inductive, Kept
    <3> QED
      BY <1>1, <2>2, <3>1, SafeStays
  <2> QED
    BY <2>1, <2>2
<1> QED
  BY <1>1, <1>2 DEF InTable, Matches

LEMMA PresentNext ==
    ASSUME Inductive, NEW t \in Threads, Step(t)
    PROVE  Present'
<1>1. Typed /\ Present /\ InCall(t) /\ pc \in [Threads -> PCs]
  BY DEF Inductive, Typed
<1>2. ASSUME NEW k \in stored' PROVE InTable(k)'
  <2>1. CASE k \in stored
    BY <1>1, <2>1, InTableStays DEF Present
  <2>2. CASE k \notin stored
    <3>1. Stored(t)
      BY <1>2, <2>2 DEF Step, BeginGet, BeginPut, get, put, GetNode, GetVersion, GetVal, GetCheck, PutScan, Fill,
         Update, SetVal, Store, NoPath, Search, LockLower, LockHigher, MoveFails, Copy, Copied, Take,
         TakeFails, hist
    <3>2. pc[t] = "stored" /\ k = Key(t)
      BY <1>2, <2>2, <3>1 DEF Stored
    <3> QED
      BY <1>1, <3>2, InTableStays DEF Present
  <2> QED
    BY <2>1, <2>2
<1>3. ASSUME NEW w \in Threads, pc'[w] \in {"update", "setVal", "stored"}
      PROVE  InTable(Key(w))'
  <2>1. Key(w)' = Key(w)
    BY <1>3, OthersSame, CallStays
  <2>2. SUFFICES ASSUME NEW k, k = Key(w) PROVE InTable(k)'
    BY <2>1, <2>2 DEF InTable
  <2>3. CASE pc[w] \in {"update", "setVal", "stored"}
    BY <1>1, <2>2, <2>3, InTableStays DEF Present
  <2>4. CASE pc[w] \notin {"update", "setVal", "stored"}
    <3>1. w = t
      BY <1>3, <2>4, OthersSame
    <3>2. Key(t) \in Keys /\ Call(t).op = "put"
      BY <1>1, <1>3, <3>1, CallStays, CallTyped DEF Putting
    <3>3. (PutScan(t) /\ ~ScanOn(t)) \/ Store(t)
      <4>1. Fail(t) => pc'[t] \in {"put", "idle"}
        BY <1>1, FailGoes
      <4>2. Search(t) => pc'[t] \in {"move", "search"}
        BY SearchGoes
      <4>3. ScanOn(t) => pc'[t] \in {"put", "search"}
        BY <1>1, <3>2, ScanOnGoes
      <4>4. ~get(t)
        <5>1. get(t) => pc[t] \in Getting
          BY DEF get, GetNode, GetVersion, GetVal, GetCheck, Getting
        <5> QED
          BY <1>1, <3>2, <5>1 DEF InCall
      <4> QED
        BY <1>1, <1>3, <2>4, <3>1, <4>1, <4>2, <4>3, <4>4 DEF Step, BeginGet, BeginPut, put, PutScan, Fill,
           Update, SetVal, Stored, NoPath, LockLower, LockHigher, MoveFails, Copy, Copied, Take, TakeFails,
           Return, Goto
    <3>4. CASE PutScan(t) /\ ~ScanOn(t)
      <4>1. At(t) \in Slots
        BY <1>1, <3>2, LocTyped, ScanSlots DEF At
      <4>2. Matches(table[At(t)], Key(t))
        BY <1>1, <1>3, <3>1, <3>4 DEF PutScan, Goto
      <4>3. InTable(Key(t))
        BY <4>1, <4>2 DEF InTable
      <4> QED
        BY <2>2, <3>1, <4>3, InTableStays
    <3>5. CASE Store(t)
      <4>1. NewNode(t) \in DOMAIN val /\ loc[t].slot \in Slots /\ NewNode(t).key = Key(t)
        BY <1>1, <3>2, <3>5, CallTyped, ScanSlots DEF Store, InCall, Putting
      <4>2. table'[loc[t].slot] = NewNode(t)
        BY <1>1, <3>5, <4>1 DEF Store, Typed
      <4>3. NewNode(t) # NULL
        BY <1>1, <4>1, Constants DEF Typed
      <4> QED
        BY <2>2, <3>1, <4>1, <4>2, <4>3 DEF InTable, Matches
    <3> QED
      BY <3>3, <3>4, <3>5
  <2> QED
    BY <2>3, <2>4
<1> QED
  BY <1>2, <1>3 DEF Present
-----------------------------------------------------------------------------
(* The theorems.                                                            *)

LEMMA InductiveInit == Init => Inductive
<1> SUFFICES ASSUME Init PROVE Inductive
  OBVIOUS
<1>1. 1 \in 1 .. 2 * SLOTS_NUM /\ Blank \in Locals
  BY Constants, BlankTyped
<1>2. DOMAIN val = {}
  BY DEF Init
<1>3. todo \in [Threads -> Seq(Calls)]
  BY Constants DEF Init
<1>4. Typed
  <2>1. val \in [DOMAIN val -> Vals]
    BY <1>2 DEF Init
  <2> QED
    BY <1>1, <1>2, <1>3, <2>1 DEF Init, Typed, PCs
<1>5. \A t \in Threads : pc[t] = "idle" /\ Held(t) = {} /\ Writing(t) = {} /\ loc[t] = Blank
  BY HeldIs DEF Init, Locked3, Locked2
<1>6. LocksHeld
  <2>1. ~Odd(0)
    BY DEF Odd
  <2> QED
    BY <1>5, <2>1, Constants DEF Init, LocksHeld
<1>7. Placed /\ Kept /\ Present
  BY <1>5 DEF Init, Placed, Kept, Present
<1>8. ASSUME NEW t \in Threads
      PROVE  InCall(t) /\ Passed(t) /\ TriedAll(t) /\ OnPath(t) /\ MoveOK(t)
  <2>1. loc[t].n = 1 /\ loc[t].node = NULL
    BY <1>5 DEF Blank
  <2> QED
    BY <1>5, <2>1 DEF InCall, Passed, TriedAll, OnPath, MoveOK, Getting, Putting, Moving
<1> QED
  BY <1>4, <1>6, <1>7, <1>8 DEF Inductive

LEMMA InductiveNext == Inductive /\ [Next]_vars => Inductive'
<1> SUFFICES ASSUME Inductive, [Next]_vars PROVE Inductive'
  OBVIOUS
<1>1. CASE UNCHANGED vars
  BY <1>1 DEF vars, shared, hist, Inductive, Typed, LocksHeld, Placed, Kept, Present, InCall, Passed, TriedAll,
     OnPath, MoveOK, Found, Tried, Link, Simple, Dooms, Safe, Unchanged, InTable, Matches, Held, Writing,
     Lower, Higher, To, From, Call, Key, NewNode, At
<1>2. ASSUME NEW t \in Threads, Step(t) PROVE Inductive'
  <2>1. Typed' /\ LocksHeld' /\ Placed' /\ Kept' /\ Present'
    BY <1>2, TypedNext, LocksHeldNext, PlacedNext, KeptNext, PresentNext
  <2>2. \A w \in Threads : InCall(w)' /\ Passed(w)' /\ TriedAll(w)' /\ OnPath(w)' /\ MoveOK(w)'
    BY <1>2, InCallNext, PassedNext, TriedNext, OnPathNext, MoveOKNext
  <2> QED
    BY <2>1, <2>2 DEF Inductive
<1> QED
  BY <1>1, <1>2 DEF Next, Finished, Step

LEMMA InductiveAlways == Spec => []Inductive
BY InductiveInit, InductiveNext, PTL DEF Spec

\* Every variable has its type: nodes are allocated before a slot points to
\* them, and no thread gives up more often than put tries.
THEOREM TypeCorrect == Spec => []TypeOK
<1>1. ASSUME Typed, \A t \in Threads : InCall(t) PROVE TypeOK
  <2>1. \A x \in DOMAIN val : val[x] \in Vals
    BY <1>1 DEF Typed
  <2>2. ASSUME NEW t \in Threads
        PROVE  /\ todo[t] \in Seq(Calls)
               /\ may[t] \subseteq Vals \cup {NULL} /\ answer[t] \in Vals \cup {NULL}
    BY <1>1 DEF Typed
  <2>3. ASSUME NEW t \in Threads
        PROVE  /\ loc[t].n \in 1 .. 2 * SLOTS_NUM /\ loc[t].attempt \in 0 .. MaxAttempts - 1
               /\ loc[t].got \in Vals \cup {NULL} /\ loc[t].path \in Seq(Slots)
               /\ loc[t].slot \in Slots \cup {NULL} /\ loc[t].node \in DOMAIN val \cup {NULL}
    BY <1>1 DEF Typed, Locals, InCall
  <2> QED
    BY <1>1, <2>1, <2>2, <2>3 DEF Typed, TypeOK
<1>2. Inductive => TypeOK
  BY <1>1 DEF Inductive
<1> QED
  BY <1>2, InductiveAlways, PTL

\* A slot is locked by the thread between its lock and its unlock, whether a
\* put succeeds or gives up half-way, and its version is odd exactly while it
\* is written to, for every number of threads, slots and calls.
THEOREM LocksAreHeld == Spec => []LocksHeld
<1>1. Inductive => LocksHeld
  BY DEF Inductive
<1> QED
  BY <1>1, InductiveAlways, PTL

\* A key that has been put is in one of its buckets from then on, also in the
\* middle of the moves of any number of threads.
THEOREM NothingIsLost == Spec => []EntriesStay
<1>1. ASSUME Inductive, NEW k \in stored
      PROVE  \E i \in DOMAIN Scan[k] : Matches(table[Scan[k][i]], k)
  <2>1. PICK s \in Slots : Matches(table[s], k)
    BY <1>1 DEF Inductive, Present, InTable
  <2>2. s \in Buckets(k)
    BY <1>1, <2>1 DEF Inductive, Placed, Matches
  <2> QED
    BY <2>1, <2>2, Zenon DEF Buckets, Range
<1>2. Inductive => EntriesStay
  BY <1>1 DEF EntriesStay
<1> QED
  BY <1>2, InductiveAlways, PTL
-----------------------------------------------------------------------------
(* Nodes only move from the first bucket of their key to the second.        *)

\* Every slot of bucket b points to a node.
Full(b) == \A s \in Slots : s[1] = b => table[s] # NULL

\* Every slot of the bucket of s in front of s points to a node.
Filled(s) == \A r \in Slots : r[1] = s[1] /\ r[2] < s[2] => table[r] # NULL

\* The slots of k in front of s are not null.
FrontFull(s, k) == Filled(s) /\ (s[1] # h1(k) => Full(h1(k)))

Packed == \A s \in Slots : table[s] # NULL => FrontFull(s, table[s].key)

\* What put knows of the slots of its key.
Tight(t) ==
    /\ pc[t] \in {"search", "take"} \cup Moving => Full(h1(Key(t))) /\ Full(h2(Key(t)))
    /\ pc[t] = "store" => FrontFull(loc[t].slot, Key(t))

\* s holds a node in the first bucket of its key, and that is not the second.
Home(s) == table[s] # NULL /\ s[1] = h1(table[s].key) /\ h2(table[s].key) # s[1]

\* A move from s to r is one from the first bucket of a key to the second.
Up(s, r) == Home(s) /\ r[1] = h2(table[s].key)

\* The buckets of the paths that are tried are full, and shorter ones come first.
Queues(t) ==
    pc[t] = "search" =>
        LET q == loc[t].que IN
        /\ \A a \in DOMAIN q : \A i \in DOMAIN q[a].path : Full(q[a].path[i][1])
        /\ \A a, b \in DOMAIN q : a <= b => Len(q[a].path) <= Len(q[b].path)
        /\ \A a \in DOMAIN q : Len(q[a].path) <= Len(q[1].path) + 1

\* From its i-th slot on, z leads through second buckets to a null slot.
Route(z, i) ==
    /\ i \in 1 .. Len(z) /\ Simple(z)
    /\ \A j \in i .. Len(z) : Home(z[j])
    /\ \A j \in i .. Len(z) - 1 : z[j + 1][1] = h2(table[z[j]].key)
    /\ ~Full(h2(table[z[Len(z)]].key))

\* z leaves the path p in the bucket of its i-th slot.
Branches(z, p, i) == z[i][1] = p[i][1] /\ \A j \in 1 .. i - 1 : z[j] = p[j]

Begins(p, z) == Len(p) <= Len(z) /\ \A j \in 1 .. Len(p) : p[j] = z[j]

\* A path of q leads along z at least to its i-th slot.
Covered(q, z, i) == \E b \in DOMAIN q : i <= Len(q[b].path) /\ Begins(q[b].path, z)

\* Where a path is tried, so is every route that leaves it.
Covers(t) ==
    pc[t] = "search" =>
        \A a \in DOMAIN loc[t].que : \A i \in DOMAIN loc[t].que[a].path : \A z \in Seq(Slots) :
            Route(z, i) /\ Branches(z, loc[t].que[a].path, i) => Covered(loc[t].que, z, i)

Straight(t) ==
    pc[t] \in Moving =>
        LET p == loc[t].path
            m == loc[t].i IN
        /\ \A n \in 1 .. m - 1 : (\A j \in n .. m - 1 : Unchanged(t, j)) => Up(p[n], p[n + 1])
        /\ \A n \in 1 .. Len(p) - 1 : Full(p[n][1])
        /\ Filled(p[Len(p)])
        /\ pc[t] \in {"copy", "copied"} => Unchanged(t, m - 1)

\* What is about to be overwritten is a node in its first bucket.
Leaves == \A t \in Threads : \A s \in Slots : Dooms(t, s) /\ table[s] # NULL => Home(s)

\* A node is in at most one slot of its first bucket.
Once == \A s, r \in Slots : Home(s) /\ Home(r) /\ table[s] = table[r] => s = r

Upward ==
    /\ Packed /\ Leaves /\ Once
    /\ \A t \in Threads : Tight(t) /\ Queues(t) /\ Covers(t) /\ Straight(t)
-----------------------------------------------------------------------------
(* Nodes and calls.                                                         *)

NodeIn(x) == \E s \in Slots : table[s] = x

\* t's node is not in the table before t has stored it there.
Fresh(t) ==
    \A s \in Slots : table[s] # NULL /\ table[s].by = t =>
        /\ table[s].no >= Len(todo[t])
        /\ table[s].no = Len(todo[t]) => pc[t] = "stored"

\* Until then it has the value to be put; the node t has read is in the table.
Holds(t) ==
    /\ pc[t] \in Putting \ {"stored"} => val[NewNode(t)] = Call(t).val
    /\ pc[t] \in {"getVersion", "getVal", "getCheck", "update", "setVal"} =>
         NodeIn(loc[t].node) /\ loc[t].node # NULL /\ loc[t].node.key = Key(t)
    /\ pc[t] \notin Getting => may[t] = {}
    /\ pc[t] \in Getting /\ Putters(Key(t)) # {} => NULL \in may[t]

Seen(k, n) == {Scan[k][j] : j \in 1 .. n - 1}

\* k is in a slot from the n-th on.
Later(k, n) == \E s \in Slots : s \notin Seen(k, n) /\ Matches(table[s], k)

\* One node for a key, and one put where there is none.
OneNode == \A s, r \in Slots : table[s] # NULL /\ table[r] # NULL /\ table[s].key = table[r].key => table[s] = table[r]

Alone == \A t, w \in Threads : t # w /\ pc[t] \in Putting /\ pc[w] \in Putting /\ Key(t) = Key(w) => InTable(Key(t))

Lone(t) ==
    /\ pc[t] = "put" /\ InTable(Key(t)) => Later(Key(t), loc[t].n)
    /\ pc[t] \in {"fill", "store", "search", "take"} \cup Moving => ~InTable(Key(t))
    /\ pc[t] = "setVal" => table[loc[t].slot] = loc[t].node
    /\ pc[t] = "stored" => Matches(table[loc[t].slot], Key(t))

\* A get from its n-th slot on finds k.
Ahead(k, n) ==
    /\ Later(k, n)
    /\ \A s \in Seen(k, n) : Matches(table[s], k) /\ Home(s) => \E w \in Threads : s \in Writing(w)

\* What a get of k that is at its n-th slot will answer, it may.
Finds(t) ==
    pc[t] \in Getting => \A k \in Keys, n \in 1 .. 2 * SLOTS_NUM : k = Key(t) /\ n = loc[t].n =>
      /\ Shown(k) \in may[t]
      /\ pc[t] = "getCheck" => loc[t].got \in may[t]
      /\ NULL \in may[t] \/ Ahead(k, n)
      /\ pc[t] \in {"getVal", "getCheck"} /\ (loc[t].ver # key_versions[Scan[k][n]] \/ Odd(loc[t].ver)) =>
            NULL \in may[t] \/ Ahead(k, n + 1)

Faultless == OneNode /\ Alone /\ \A t \in Threads : Lone(t) /\ Finds(t)

Answers ==
    /\ \A t \in Threads : Fresh(t) /\ Holds(t)
    /\ faults = {} => Faultless
-----------------------------------------------------------------------------
(* Hashes, buckets and scans.                                               *)

LEMMA QuotientIsOne ==
    ASSUME NEW T \in Nat \ {0}, NEW x \in Nat, NEW y \in Nat, NEW r \in 0 .. T - 1, NEW s \in 0 .. T - 1,
           T * x + r = T * y + s
    PROVE  r = s
<1>1. ASSUME NEW a \in Nat, NEW b \in Nat, a < b PROVE T * a + T <= T * b
  <2>1. PICK d \in Nat : b = a + 1 + d
    <3>1. b - a - 1 \in Nat /\ b = a + 1 + (b - a - 1)
      BY <1>1
    <3> QED BY <3>1
  <2>2. T * b = T * a + T + T * d
    BY <2>1
  <2>3. T * d \in Nat /\ T * a \in Nat
    OBVIOUS
  <2> QED BY <2>2, <2>3
<1>2. T * x \in Nat /\ T * y \in Nat
  OBVIOUS
<1>3. ~(x < y)
  <2>1. SUFFICES ASSUME x < y PROVE FALSE
    OBVIOUS
  <2>2. T * x + T <= T * y
    BY <1>1, <2>1
  <2> QED BY <1>2, <2>2
<1>4. ~(y < x)
  <2>1. SUFFICES ASSUME y < x PROVE FALSE
    OBVIOUS
  <2>2. T * y + T <= T * x
    BY <1>1, <2>1
  <2> QED BY <1>2, <2>2
<1>5. x = y
  BY <1>3, <1>4
<1> QED BY <1>2, <1>5

LEMMA Remainder ==
    ASSUME NEW T \in Nat \ {0}, NEW n \in Nat
    PROVE  n % T \in 0 .. T - 1 /\ n \div T \in Nat /\ n = T * (n \div T) + (n % T)
OBVIOUS

\* Keys with one first bucket have one second bucket.
LEMMA HashClass ==
    ASSUME NEW k \in Keys, NEW l \in Keys, h1(k) = h1(l)
    PROVE  h2(k) = h2(l)
<1> DEFINE T == table_size
<1>1. T \in Nat \ {0} /\ k \in Nat /\ l \in Nat /\ k * 109 \in Nat /\ l * 109 \in Nat
  <2>1. TUPLE_NUM \in Nat \ {0}
    BY OptCuckooAssumption
  <2>2. Keys \subseteq Nat
    BY KeysAssumption
  <2> QED BY <2>1, <2>2, SMT DEF table_size
<1> HIDE DEF T
<1>2. PICK r, a, b : /\ r = k % T /\ r = l % T /\ a = k \div T /\ b = l \div T
  BY DEF h1, T
<1>3. r \in Nat /\ a \in Nat /\ b \in Nat /\ k = T * a + r /\ l = T * b + r
  <2>1. k = T * (k \div T) + (k % T) /\ k % T \in 0 .. T - 1 /\ k \div T \in Nat
    BY <1>1, Remainder
  <2>2. l = T * (l \div T) + (l % T) /\ l % T \in 0 .. T - 1 /\ l \div T \in Nat
    BY <1>1, Remainder
  <2>3. r \in Nat
    BY <1>1, <1>2, <2>1
  <2> QED BY <1>2, <2>1, <2>2, <2>3, Zenon
<1>4. PICK x, y, u, v : x = (k * 109) \div T /\ y = (l * 109) \div T /\ u = (k * 109) % T /\ v = (l * 109) % T
  OBVIOUS
<1>5. x \in Nat /\ y \in Nat /\ u \in 0 .. T - 1 /\ v \in 0 .. T - 1 /\ k * 109 = T * x + u /\ l * 109 = T * y + v
  BY <1>1, <1>4, Remainder
<1>6. PICK X, Y : X = x + 109 * b /\ Y = y + 109 * a
  OBVIOUS
<1>7. X \in Nat /\ Y \in Nat /\ T * X + u = T * Y + v
  <2>1. T * X = T * x + 109 * (T * b) /\ T * Y = T * y + 109 * (T * a)
    BY <1>1, <1>3, <1>5, <1>6, SMT
  <2>2. PICK tx, ty, ta, tb : tx = T * x /\ ty = T * y /\ ta = T * a /\ tb = T * b
    OBVIOUS
  <2>3. tx \in Nat /\ ty \in Nat /\ ta \in Nat /\ tb \in Nat
    BY <1>1, <1>3, <1>5, <2>2, SMT
  <2>4. u \in Nat /\ v \in Nat
    BY <1>1, <1>5, SMT
  <2>5. k * 109 = 109 * ta + 109 * r /\ l * 109 = 109 * tb + 109 * r
    <3>1. k = ta + r /\ l = tb + r
      BY <1>3, <2>2, SMT
    <3> QED BY <1>3, <2>3, <3>1, SMT
  <2>6. tx + u = 109 * ta + 109 * r /\ ty + v = 109 * tb + 109 * r
    BY <1>5, <2>2, <2>5, SMT
  <2>7. T * X = tx + 109 * tb /\ T * Y = ty + 109 * ta
    BY <2>1, <2>2, SMT
  <2>8. X \in Nat /\ Y \in Nat
    BY <1>3, <1>5, <1>6, SMT
  <2> QED BY <1>3, <2>3, <2>4, <2>6, <2>7, <2>8, SMT
<1>8. u = v
  BY <1>1, <1>5, <1>7, QuotientIsOne
<1> QED BY <1>4, <1>8 DEF h2, T

LEMMA SlotIs ==
    ASSUME NEW s \in Slots
    PROVE  /\ s = <<s[1], s[2]>> /\ s[2] \in 0 .. SLOTS_NUM - 1 /\ SLOTS_NUM \in Nat \ {0}
           /\ \A j \in 0 .. SLOTS_NUM - 1 : <<s[1], j>> \in Slots
BY Constants DEF Slots

\* Where a slot is in the scan of a key.
LEMMA ScanAt ==
    ASSUME NEW k \in Keys
    PROVE  /\ \A n \in 1 .. SLOTS_NUM : Scan[k][n] = <<h1(k), n - 1>> /\ n \in 1 .. 2 * SLOTS_NUM
           /\ \A n \in SLOTS_NUM + 1 .. 2 * SLOTS_NUM :
                Scan[k][n] = <<h2(k), n - SLOTS_NUM - 1>> /\ n \in 1 .. 2 * SLOTS_NUM
           /\ \A s \in Slots : s[1] = h1(k) => s[2] + 1 \in 1 .. SLOTS_NUM /\ Scan[k][s[2] + 1] = s
           /\ \A s \in Slots : s[1] = h2(k) => /\ s[2] + SLOTS_NUM + 1 \in SLOTS_NUM + 1 .. 2 * SLOTS_NUM
                                               /\ Scan[k][s[2] + SLOTS_NUM + 1] = s
<1>1. SLOTS_NUM \in Nat \ {0}
  BY Constants
<1>2. \A n \in 1 .. 2 * SLOTS_NUM :
        Scan[k][n] = IF n <= SLOTS_NUM THEN <<h1(k), n - 1>> ELSE <<h2(k), n - SLOTS_NUM - 1>>
  BY DEF Scan
<1>3. ASSUME NEW n \in 1 .. SLOTS_NUM PROVE Scan[k][n] = <<h1(k), n - 1>> /\ n \in 1 .. 2 * SLOTS_NUM
  <2>1. n <= SLOTS_NUM /\ n \in 1 .. 2 * SLOTS_NUM
    BY <1>1
  <2> QED BY <1>2, <2>1, Zenon
<1>4. ASSUME NEW n \in SLOTS_NUM + 1 .. 2 * SLOTS_NUM
      PROVE  Scan[k][n] = <<h2(k), n - SLOTS_NUM - 1>> /\ n \in 1 .. 2 * SLOTS_NUM
  <2>1. ~(n <= SLOTS_NUM) /\ n \in 1 .. 2 * SLOTS_NUM
    BY <1>1
  <2> QED BY <1>2, <2>1, Zenon
<1>5. ASSUME NEW s \in Slots, s[1] = h1(k)
      PROVE  s[2] + 1 \in 1 .. SLOTS_NUM /\ Scan[k][s[2] + 1] = s
  <2>1. PICK m : m = s[2] + 1
    OBVIOUS
  <2>2. m \in 1 .. SLOTS_NUM /\ m - 1 = s[2]
    BY <1>1, <2>1, SlotIs
  <2>3. Scan[k][m] = <<h1(k), m - 1>>
    BY <1>3, <2>2, Zenon
  <2> QED BY <1>5, <2>1, <2>2, <2>3, SlotIs
<1>6. ASSUME NEW s \in Slots, s[1] = h2(k)
      PROVE  /\ s[2] + SLOTS_NUM + 1 \in SLOTS_NUM + 1 .. 2 * SLOTS_NUM
             /\ Scan[k][s[2] + SLOTS_NUM + 1] = s
  <2> DEFINE m == s[2] + SLOTS_NUM + 1
  <2>1. m \in SLOTS_NUM + 1 .. 2 * SLOTS_NUM /\ m - SLOTS_NUM - 1 = s[2]
    BY <1>1, SlotIs
  <2>2. Scan[k][m] = <<h2(k), m - SLOTS_NUM - 1>>
    BY <1>4, <2>1
  <2> QED BY <1>6, <2>1, <2>2, SlotIs
<1> QED BY <1>3, <1>4, <1>5, <1>6

\* The slots of a key are those of its two buckets.
LEMMA BucketsAre ==
    ASSUME NEW k \in Keys, NEW s \in Slots
    PROVE  s \in Buckets(k) <=> s[1] = h1(k) \/ s[1] = h2(k)
<1>1. SLOTS_NUM \in Nat \ {0} /\ DOMAIN Scan[k] = 1 .. 2 * SLOTS_NUM
  BY Constants, ScanSlots
<1>2. ASSUME s \in Buckets(k) PROVE s[1] = h1(k) \/ s[1] = h2(k)
  <2>1. PICK n \in 1 .. 2 * SLOTS_NUM : s = Scan[k][n]
    BY <1>1, <1>2 DEF Buckets, Range
  <2>2. n \in 1 .. SLOTS_NUM \/ n \in SLOTS_NUM + 1 .. 2 * SLOTS_NUM
    BY <1>1
  <2> QED BY <2>1, <2>2, ScanAt
<1>3. ASSUME s[1] = h1(k) \/ s[1] = h2(k) PROVE s \in Buckets(k)
  <2>1. \E n \in 1 .. 2 * SLOTS_NUM : s = Scan[k][n]
    <3>1. CASE s[1] = h1(k)
      <4>1. s[2] + 1 \in 1 .. SLOTS_NUM /\ Scan[k][s[2] + 1] = s
        BY <3>1, ScanAt
      <4>2. s[2] + 1 \in 1 .. 2 * SLOTS_NUM
        BY <4>1, ScanAt
      <4> QED BY <4>1, <4>2
    <3>2. CASE s[1] = h2(k)
      <4>1. s[2] + SLOTS_NUM + 1 \in SLOTS_NUM + 1 .. 2 * SLOTS_NUM /\ Scan[k][s[2] + SLOTS_NUM + 1] = s
        BY <3>2, ScanAt
      <4>2. s[2] + SLOTS_NUM + 1 \in 1 .. 2 * SLOTS_NUM
        BY <1>1, <4>1
      <4> QED BY <4>1, <4>2
    <3> QED BY <1>3, <3>1, <3>2
  <2> QED BY <1>1, <2>1, ScanSlots
<1> QED BY <1>2, <1>3

\* The first n - 1 slots of a scan.
LEMMA SeenAre ==
    ASSUME NEW k \in Keys
    PROVE  /\ Seen(k, 1) = {} /\ Seen(k, 2 * SLOTS_NUM + 1) = Buckets(k)
           /\ \A n \in 1 .. 2 * SLOTS_NUM : Seen(k, n + 1) = Seen(k, n) \cup {Scan[k][n]}
           /\ \A n \in 1 .. 2 * SLOTS_NUM + 1 : Seen(k, n) \subseteq Buckets(k)
           /\ \A s \in Slots, n \in 1 .. 2 * SLOTS_NUM + 1 :
                s[1] = h1(k) /\ s \notin Seen(k, n) =>
                  n \in 1 .. SLOTS_NUM /\ \A r \in Seen(k, n) : r[1] = h1(k)
<1>1. SLOTS_NUM \in Nat \ {0} /\ DOMAIN Scan[k] = 1 .. 2 * SLOTS_NUM
  BY Constants, ScanSlots
<1>2. Seen(k, 1) = {}
  BY DEF Seen
<1>3. Seen(k, 2 * SLOTS_NUM + 1) = Buckets(k)
  <2>1. 2 * SLOTS_NUM + 1 - 1 = 2 * SLOTS_NUM
    BY <1>1
  <2> QED BY <1>1, <2>1 DEF Seen, Buckets, Range
<1>4. ASSUME NEW n \in 1 .. 2 * SLOTS_NUM PROVE Seen(k, n + 1) = Seen(k, n) \cup {Scan[k][n]}
  <2>1. \A j : j \in 1 .. n + 1 - 1 <=> j \in 1 .. n - 1 \/ j = n
    BY <1>1
  <2> QED BY <2>1 DEF Seen
<1>5. ASSUME NEW n \in 1 .. 2 * SLOTS_NUM + 1 PROVE Seen(k, n) \subseteq Buckets(k)
  <2>1. \A j \in 1 .. n - 1 : j \in 1 .. 2 * SLOTS_NUM
    BY <1>1
  <2> QED BY <2>1, ScanSlots DEF Seen
<1>6. ASSUME NEW s \in Slots, NEW n \in 1 .. 2 * SLOTS_NUM + 1, s[1] = h1(k), s \notin Seen(k, n)
      PROVE  n \in 1 .. SLOTS_NUM /\ \A r \in Seen(k, n) : r[1] = h1(k)
  <2>1. s[2] + 1 \in 1 .. SLOTS_NUM /\ Scan[k][s[2] + 1] = s
    BY <1>6, ScanAt
  <2>2. ~(s[2] + 1 <= n - 1)
    <3>1. s[2] + 1 \notin 1 .. n - 1
      BY <1>6, <2>1 DEF Seen
    <3> QED BY <2>1, <3>1
  <2>3. n \in 1 .. SLOTS_NUM
    <3>1. PICK m : m = s[2] + 1
      OBVIOUS
    <3> QED BY <1>1, <2>1, <2>2, <3>1
  <2>4. \A j \in 1 .. n - 1 : j \in 1 .. SLOTS_NUM
    BY <1>1, <2>3
  <2> QED BY <2>3, <2>4, ScanAt DEF Seen
<1> QED BY <1>2, <1>3, <1>4, <1>5, <1>6

\* Every slot of a key is queued.
LEMMA AllQueued ==
    ASSUME NEW k \in Keys, NEW s \in Slots, s \in Buckets(k)
    PROVE  \E i \in 1 .. 2 * SLOTS_NUM : Queued[k][i] = s
<1>1. s = <<s[1], s[2]>> /\ s[2] \in 0 .. SLOTS_NUM - 1 /\ SLOTS_NUM \in Nat \ {0}
  BY SlotIs
<1>2. s[1] = h1(k) \/ s[1] = h2(k)
  BY BucketsAre
<1>3. \A i \in 1 .. 2 * SLOTS_NUM : Queued[k][i] = <<IF i % 2 = 1 THEN h1(k) ELSE h2(k), (i - 1) \div 2>>
  BY DEF Queued
<1>4. PICK j : j = s[2]
  OBVIOUS
<1>5. CASE s[1] = h1(k)
  <2>1. PICK i : i = 2 * j + 1
    OBVIOUS
  <2>2. i \in 1 .. 2 * SLOTS_NUM /\ i % 2 = 1 /\ (i - 1) \div 2 = j
    BY <1>1, <1>4, <2>1
  <2>3. Queued[k][i] = <<h1(k), j>>
    BY <1>3, <2>2
  <2> QED BY <1>1, <1>4, <1>5, <2>2, <2>3
<1>6. CASE s[1] = h2(k)
  <2>1. PICK i : i = 2 * j + 2
    OBVIOUS
  <2>2. i \in 1 .. 2 * SLOTS_NUM /\ i % 2 # 1 /\ (i - 1) \div 2 = j
    BY <1>1, <1>4, <2>1
  <2>3. Queued[k][i] = <<h2(k), j>>
    BY <1>3, <2>2
  <2> QED BY <1>1, <1>4, <1>6, <2>2, <2>3
<1> QED BY <1>2, <1>5, <1>6

\* Others returns all slots of k that are not on the path.
LEMMA OthersHave ==
    ASSUME NEW k \in Keys, NEW p, NEW s \in Slots, s \in Buckets(k), s \notin Range(p)
    PROVE  \E j \in DOMAIN Others(k, p) : Others(k, p)[j] = s
<1> DEFINE f == CHOOSE f : f = [i \in 0 .. 2 * SLOTS_NUM |->
                        IF i = 0 THEN <<>>
                        ELSE IF Queued[k][i] \in Range(p) THEN f[i - 1]
                        ELSE Append(f[i - 1], Queued[k][i])]
           Has(m) == f[m] \in Seq(Slots) /\ \E j \in DOMAIN f[m] : f[m][j] = s
           Typ(m) == f[m] \in Seq(Slots)
<1>0. 2 * SLOTS_NUM \in Nat
  BY Constants
<1>1. Others(k, p) = f[2 * SLOTS_NUM]
  BY DEF Others
<1>2. f = [i \in 0 .. 2 * SLOTS_NUM |->
             IF i = 0 THEN <<>>
             ELSE IF Queued[k][i] \in Range(p) THEN f[i - 1]
             ELSE Append(f[i - 1], Queued[k][i])]
  BY OthersDefined
<1> HIDE DEF f
<1>3. \A m \in 1 .. 2 * SLOTS_NUM :
        f[m] = IF Queued[k][m] \in Range(p) THEN f[m - 1] ELSE Append(f[m - 1], Queued[k][m])
  <2>1. \A m \in 1 .. 2 * SLOTS_NUM : m \in 0 .. 2 * SLOTS_NUM /\ m # 0
    BY <1>0
  <2> QED BY <1>2, <2>1, Zenon
<1>4. \A m \in 0 .. 2 * SLOTS_NUM : Typ(m)
  <2> DEFINE Bad == {m \in 0 .. 2 * SLOTS_NUM : ~Typ(m)}
  <2>0. SUFFICES ASSUME Bad # {} PROVE FALSE
    OBVIOUS
  <2>1. PICK m \in Bad : \A n \in Bad : m <= n
    <3>1. Bad \subseteq Nat
      BY <1>0
    <3> QED BY <2>0, <3>1, LeastNumber, Zenon
  <2>2. m # 0
    <3>1. f[0] = <<>>
      BY <1>0, <1>2
    <3>2. <<>> \in Seq(Slots)
      OBVIOUS
    <3>3. Typ(0)
      BY <3>1, <3>2
    <3>4. ~Typ(m)
      BY <2>1
    <3> QED BY <3>3, <3>4, Zenon
  <2>3. m \in 1 .. 2 * SLOTS_NUM /\ Typ(m - 1)
    <3>1. m - 1 \in 0 .. 2 * SLOTS_NUM /\ ~(m <= m - 1) /\ m \in 1 .. 2 * SLOTS_NUM
      BY <1>0, <2>1, <2>2
    <3>2. m - 1 \notin Bad
      BY <2>1, <3>1, Zenon
    <3> QED BY <3>1, <3>2
  <2>4. Queued[k][m] \in Slots
    BY <2>3, ScanSlots
  <2>5. f[m] = IF Queued[k][m] \in Range(p) THEN f[m - 1] ELSE Append(f[m - 1], Queued[k][m])
    BY <1>3, <2>3, Zenon
  <2>6. Typ(m)
    <3>1. PICK q, a : q = f[m - 1] /\ a = Queued[k][m]
      OBVIOUS
    <3>2. q \in Seq(Slots) /\ a \in Slots
      BY <2>3, <2>4, <3>1
    <3>3. Append(q, a) \in Seq(Slots)
      BY <3>2
    <3> QED BY <2>5, <3>1, <3>2, <3>3
  <2> QED BY <2>1, <2>6
<1>5. PICK i \in 1 .. 2 * SLOTS_NUM : Queued[k][i] = s
  BY AllQueued
<1>6. Has(i)
  <2>1. f[i] = Append(f[i - 1], s)
    BY <1>3, <1>5
  <2>2. i - 1 \in 0 .. 2 * SLOTS_NUM
    BY <1>0
  <2>3. PICK q : q = f[i - 1]
    OBVIOUS
  <2>4. q \in Seq(Slots)
    BY <1>4, <2>2, <2>3
  <2>5. Append(q, s) \in Seq(Slots) /\ Append(q, s)[Len(q) + 1] = s /\ Len(q) + 1 \in DOMAIN Append(q, s)
    <3>1. Append(q, s) \in Seq(Slots) /\ Len(q) \in Nat
      BY <2>4
    <3>2. Len(Append(q, s)) = Len(q) + 1 /\ Append(q, s)[Len(q) + 1] = s
      BY <2>4
    <3> QED BY <3>1, <3>2
  <2> QED BY <2>1, <2>3, <2>5
<1>7. ASSUME NEW m \in 1 .. 2 * SLOTS_NUM, Has(m - 1) PROVE Has(m)
  <2>1. PICK q, a : q = f[m - 1] /\ a = Queued[k][m]
    OBVIOUS
  <2>2. q \in Seq(Slots) /\ a \in Slots /\ f[m] \in {q, Append(q, a)}
    <3>1. a \in Slots
      BY <2>1, ScanSlots
    <3>2. f[m] = IF Queued[k][m] \in Range(p) THEN f[m - 1] ELSE Append(f[m - 1], Queued[k][m])
      BY <1>3, Zenon
    <3> QED BY <1>7, <2>1, <3>1, <3>2
  <2>3. PICK j \in DOMAIN q : q[j] = s
    BY <1>7, <2>1
  <2>4. CASE f[m] = q
    BY <2>2, <2>3, <2>4
  <2>5. CASE f[m] = Append(q, a)
    <3>1. Append(q, a) \in Seq(Slots) /\ Len(q) \in Nat /\ j \in 1 .. Len(q)
      BY <2>2, <2>3
    <3>2. Len(Append(q, a)) = Len(q) + 1 /\ Append(q, a)[j] = q[j]
      BY <2>2, <3>1
    <3>3. j \in DOMAIN Append(q, a)
      BY <3>1, <3>2
    <3> QED BY <2>3, <2>5, <3>1, <3>2, <3>3
  <2> QED BY <2>2, <2>4, <2>5
<1>8. Has(2 * SLOTS_NUM)
  <2> DEFINE Bad == {m \in i .. 2 * SLOTS_NUM : ~Has(m)}
  <2> HIDE DEF Has
  <2>0. SUFFICES ASSUME Bad # {} PROVE FALSE
    BY <1>0
  <2>1. PICK m \in Bad : \A n \in Bad : m <= n
    <3>1. Bad \subseteq Nat
      BY <1>0
    <3> QED BY <2>0, <3>1, LeastNumber, Zenon
  <2>2. m # i
    BY <1>6, <2>1
  <2>3. m - 1 \in i .. 2 * SLOTS_NUM /\ m \in 1 .. 2 * SLOTS_NUM /\ ~(m <= m - 1)
    BY <1>0, <2>1, <2>2
  <2>4. Has(m - 1)
    BY <2>1, <2>3
  <2> QED BY <1>7, <2>1, <2>3, <2>4
<1> QED BY <1>1, <1>8

-----------------------------------------------------------------------------
(* Slots that are not null.                                                 *)

LEMMA FullScanned ==
    ASSUME NEW k \in Keys, \A m \in 1 .. 2 * SLOTS_NUM : table[Scan[k][m]] # NULL
    PROVE  Full(h1(k)) /\ Full(h2(k))
<1>1. ASSUME NEW s \in Slots, s \in Buckets(k) PROVE table[s] # NULL
  <2>1. \E m \in 1 .. 2 * SLOTS_NUM : s = Scan[k][m]
    BY <1>1, ScanSlots DEF Buckets, Range
  <2> QED BY <2>1
<1> QED BY <1>1, BucketsAre DEF Full

LEMMA FullIsScanned ==
    ASSUME NEW k \in Keys, \A s \in Buckets(k) : table[s] # NULL
    PROVE  Full(h1(k)) /\ Full(h2(k))
BY BucketsAre DEF Full

LEMMA FrontScanned ==
    ASSUME NEW k \in Keys, NEW n \in 1 .. 2 * SLOTS_NUM,
           \A m \in 1 .. 2 * SLOTS_NUM : m < n => table[Scan[k][m]] # NULL
    PROVE  FrontFull(Scan[k][n], k)
<1>1. SLOTS_NUM \in Nat \ {0}
  BY Constants
<1>2. CASE n \in 1 .. SLOTS_NUM
  <2>1. Scan[k][n] = <<h1(k), n - 1>>
    BY <1>2, ScanAt
  <2>2. ASSUME NEW r \in Slots, r[1] = h1(k), r[2] < n - 1 PROVE table[r] # NULL
    <3>1. PICK m : m = r[2] + 1
      OBVIOUS
    <3>2. r[2] \in 0 .. SLOTS_NUM - 1 /\ m \in 1 .. SLOTS_NUM /\ Scan[k][m] = r
      BY <2>2, <3>1, ScanAt, SlotIs
    <3>3. m < n /\ m \in 1 .. 2 * SLOTS_NUM
      BY <1>1, <1>2, <2>2, <3>1, <3>2
    <3> QED BY <3>2, <3>3
  <2> QED BY <2>1, <2>2 DEF FrontFull, Filled
<1>3. CASE n \in SLOTS_NUM + 1 .. 2 * SLOTS_NUM
  <2>1. Scan[k][n] = <<h2(k), n - SLOTS_NUM - 1>>
    BY <1>3, ScanAt
  <2>2. ASSUME NEW r \in Slots, r[1] = h2(k), r[2] < n - SLOTS_NUM - 1 PROVE table[r] # NULL
    <3>1. PICK m : m = r[2] + SLOTS_NUM + 1
      OBVIOUS
    <3>2. r[2] \in 0 .. SLOTS_NUM - 1 /\ m \in SLOTS_NUM + 1 .. 2 * SLOTS_NUM /\ Scan[k][m] = r
      BY <2>2, <3>1, ScanAt, SlotIs
    <3>3. m < n /\ m \in 1 .. 2 * SLOTS_NUM
      BY <1>1, <1>3, <2>2, <3>1, <3>2
    <3> QED BY <3>2, <3>3
  <2>3. ASSUME NEW r \in Slots, r[1] = h1(k) PROVE table[r] # NULL
    <3>1. PICK m : m = r[2] + 1
      OBVIOUS
    <3>2. m \in 1 .. SLOTS_NUM /\ Scan[k][m] = r
      BY <2>3, <3>1, ScanAt
    <3>3. m < n /\ m \in 1 .. 2 * SLOTS_NUM
      BY <1>1, <1>3, <3>2
    <3> QED BY <3>2, <3>3
  <2> QED BY <2>1, <2>2, <2>3 DEF FrontFull, Filled, Full
<1>4. n \in 1 .. SLOTS_NUM \/ n \in SLOTS_NUM + 1 .. 2 * SLOTS_NUM
  BY <1>1
<1> QED BY <1>2, <1>3, <1>4

LEMMA FrontScan ==
    ASSUME NEW k \in Keys, NEW s \in Slots, s \in Buckets(k), FrontFull(s, k),
           NEW n \in 1 .. 2 * SLOTS_NUM, s \notin Seen(k, n + 1)
    PROVE  table[Scan[k][n]] # NULL
<1>1. SLOTS_NUM \in Nat \ {0}
  BY Constants
<1>2. \A m \in 1 .. n : Scan[k][m] # s
  <2>1. \A m \in 1 .. n : m \in 1 .. n + 1 - 1
    BY <1>1
  <2> QED BY <2>1 DEF Seen
<1>3. s[2] \in 0 .. SLOTS_NUM - 1 /\ Scan[k][n] \in Slots
  BY SlotIs, ScanSlots
<1>4. CASE s[1] = h1(k)
  <2>1. PICK m : m = s[2] + 1
    OBVIOUS
  <2>2. m \in 1 .. SLOTS_NUM /\ Scan[k][m] = s
    BY <1>4, <2>1, ScanAt
  <2>3. m > n
    BY <1>1, <1>2, <2>2
  <2>4. n \in 1 .. SLOTS_NUM /\ n - 1 < s[2]
    BY <1>1, <1>3, <2>1, <2>2, <2>3
  <2>5. Scan[k][n] = <<h1(k), n - 1>>
    BY <2>4, ScanAt
  <2>6. Scan[k][n][1] = s[1] /\ Scan[k][n][2] < s[2]
    BY <1>4, <2>4, <2>5
  <2> QED BY <1>3, <2>6 DEF FrontFull, Filled
<1>5. CASE s[1] # h1(k)
  <2>1. s[1] = h2(k) /\ Full(h1(k))
    BY <1>5, BucketsAre DEF FrontFull
  <2>2. CASE n \in 1 .. SLOTS_NUM
    <3>1. Scan[k][n][1] = h1(k)
      BY <2>2, ScanAt
    <3> QED BY <1>3, <2>1, <3>1 DEF Full
  <2>3. CASE n \in SLOTS_NUM + 1 .. 2 * SLOTS_NUM
    <3>1. PICK m : m = s[2] + SLOTS_NUM + 1
      OBVIOUS
    <3>2. m \in 1 .. 2 * SLOTS_NUM /\ Scan[k][m] = s
      BY <1>1, <1>3, <2>1, <3>1, ScanAt
    <3>3. m > n
      BY <1>1, <1>2, <3>2
    <3>4. n - SLOTS_NUM - 1 < s[2]
      BY <1>1, <1>3, <3>1, <3>3
    <3>5. Scan[k][n] = <<h2(k), n - SLOTS_NUM - 1>>
      BY <2>3, ScanAt
    <3>6. Scan[k][n][1] = s[1] /\ Scan[k][n][2] < s[2]
      BY <2>1, <3>4, <3>5
    <3> QED BY <1>3, <3>6 DEF FrontFull, Filled
  <2>4. n \in 1 .. SLOTS_NUM \/ n \in SLOTS_NUM + 1 .. 2 * SLOTS_NUM
    BY <1>1
  <2> QED BY <2>2, <2>3, <2>4
<1> QED BY <1>4, <1>5

\* They never become null again.
LEMMA FullStays ==
    ASSUME Inductive, NEW t \in Threads, Step(t)
    PROVE  /\ \A b : Full(b) => Full(b)'
           /\ \A s \in Slots : Filled(s) => Filled(s)'
           /\ \A s \in Slots : \A k : FrontFull(s, k) => FrontFull(s, k)'
<1>1. \A b : Full(b) => Full(b)'
  BY NullOnce DEF Full
<1>2. \A s \in Slots : Filled(s) => Filled(s)'
  BY NullOnce DEF Filled
<1> QED BY <1>1, <1>2 DEF FrontFull
-----------------------------------------------------------------------------
(* Where each step starts and ends.                                         *)

LEMMA GetSteps ==
    ASSUME Inductive, NEW t \in Threads, get(t)
    PROVE  \/ GetNode(t) /\ pc[t] = "get" /\ pc'[t] \in {"getVersion", "get", "idle"}
           \/ GetVersion(t) /\ pc[t] = "getVersion" /\ pc'[t] = "getVal"
           \/ GetVal(t) /\ pc[t] = "getVal" /\ pc'[t] = "getCheck"
           \/ GetCheck(t) /\ pc[t] = "getCheck" /\ pc'[t] \in {"get", "idle"}
<1>1. Typed /\ pc \in [Threads -> PCs]
  BY DEF Inductive, Typed
<1>2. NextSlot(t) => pc'[t] \in {"get", "idle"}
  BY <1>1, NextSlotGoes
<1> QED
  BY <1>1, <1>2 DEF get, GetNode, GetVersion, GetVal, GetCheck, Return, Goto

LEMMA PutSteps ==
    ASSUME Inductive, NEW t \in Threads, put(t)
    PROVE  \/ PutScan(t) /\ pc[t] = "put" /\ pc'[t] \in {"put", "search", "fill", "update"}
           \/ Fill(t) /\ pc[t] = "fill" /\ pc'[t] \in {"put", "search", "store"}
           \/ Update(t) /\ pc[t] = "update" /\ pc'[t] = "setVal"
           \/ SetVal(t) /\ pc[t] = "setVal" /\ pc'[t] = "stored"
           \/ Store(t) /\ pc[t] = "store" /\ pc'[t] = "stored"
           \/ Stored(t) /\ pc[t] = "stored" /\ pc'[t] = "idle"
           \/ NoPath(t) /\ pc[t] = "search" /\ pc'[t] \in {"put", "idle"}
           \/ Search(t) /\ pc[t] = "search" /\ pc'[t] \in {"move", "search"}
           \/ LockLower(t) /\ pc[t] = "move" /\ pc'[t] = "lockHigher"
           \/ LockHigher(t) /\ pc[t] = "lockHigher" /\ pc'[t] = "copy"
           \/ MoveFails(t) /\ pc[t] = "lockHigher" /\ pc'[t] \in {"put", "idle"}
           \/ Copy(t) /\ pc[t] = "copy" /\ pc'[t] = "copied"
           \/ Copied(t) /\ pc[t] = "copied" /\ pc'[t] \in {"take", "move"}
           \/ Take(t) /\ pc[t] = "take" /\ pc'[t] = "store"
           \/ TakeFails(t) /\ pc[t] = "take" /\ pc'[t] \in {"put", "idle"}
<1>1. Typed /\ pc \in [Threads -> PCs] /\ InCall(t)
  BY DEF Inductive, Typed
<1>2. Fail(t) => pc'[t] \in {"put", "idle"}
  BY <1>1, FailGoes
<1>3. Search(t) => pc[t] = "search" /\ pc'[t] \in {"move", "search"}
  BY SearchGoes
<1>4. pc[t] \in {"put", "fill"} => Key(t) \in Keys
  BY <1>1, CallTyped DEF InCall, Putting
<1>5. ScanOn(t) /\ pc[t] \in {"put", "fill"} => pc'[t] \in {"put", "search"}
  BY <1>1, <1>4, ScanOnGoes
<1>6. PutScan(t) => pc[t] = "put" /\ pc'[t] \in {"put", "search", "fill", "update"}
  BY <1>1, <1>5 DEF PutScan, Goto
<1>7. Fill(t) => pc[t] = "fill" /\ pc'[t] \in {"put", "search", "store"}
  BY <1>1, <1>5 DEF Fill, Goto
<1>8. NoPath(t) \/ MoveFails(t) \/ TakeFails(t) => Fail(t)
  BY DEF NoPath, MoveFails, TakeFails
<1>9. /\ NoPath(t) => pc[t] = "search" /\ pc'[t] \in {"put", "idle"}
      /\ MoveFails(t) => pc[t] = "lockHigher" /\ pc'[t] \in {"put", "idle"}
      /\ TakeFails(t) => pc[t] = "take" /\ pc'[t] \in {"put", "idle"}
  BY <1>2, <1>8 DEF NoPath, MoveFails, TakeFails
<1>10. /\ Update(t) => pc[t] = "update" /\ pc'[t] = "setVal"
       /\ SetVal(t) => pc[t] = "setVal" /\ pc'[t] = "stored"
       /\ Store(t) => pc[t] = "store" /\ pc'[t] = "stored"
       /\ Stored(t) => pc[t] = "stored" /\ pc'[t] = "idle"
       /\ LockLower(t) => pc[t] = "move" /\ pc'[t] = "lockHigher"
       /\ LockHigher(t) => pc[t] = "lockHigher" /\ pc'[t] = "copy"
       /\ Copy(t) => pc[t] = "copy" /\ pc'[t] = "copied"
       /\ Copied(t) => pc[t] = "copied" /\ pc'[t] \in {"take", "move"}
       /\ Take(t) => pc[t] = "take" /\ pc'[t] = "store"
  BY <1>1 DEF Update, SetVal, Store, Stored, LockLower, LockHigher, Copy, Copied, Take, Return, Goto
<1> QED
  BY <1>3, <1>6, <1>7, <1>9, <1>10 DEF put

LEMMA BeginSteps ==
    ASSUME Inductive, NEW t \in Threads
    PROVE  /\ BeginGet(t) => pc[t] = "idle" /\ pc'[t] = "get" /\ todo[t] # <<>> /\ Call(t).op = "get"
           /\ BeginPut(t) => pc[t] = "idle" /\ pc'[t] = "put" /\ todo[t] # <<>> /\ Call(t).op = "put"
BY DEF BeginGet, BeginPut, Begin, Running, Goto, Inductive, Typed

\* Which step has led there.
LEMMA StepTo ==
    ASSUME Inductive, NEW t \in Threads, Step(t)
    PROVE  /\ pc'[t] = "search" => Search(t) \/ ((PutScan(t) \/ Fill(t)) /\ ScanOn(t))
           /\ pc'[t] = "move" => Search(t) \/ Copied(t)
           /\ pc'[t] = "lockHigher" => LockLower(t)
           /\ pc'[t] = "copy" => LockHigher(t)
           /\ pc'[t] = "copied" => Copy(t)
           /\ pc'[t] = "take" => Copied(t)
           /\ pc'[t] = "store" => (Fill(t) /\ table[loc[t].slot] = NULL) \/ Take(t)
           /\ pc'[t] = "stored" => SetVal(t) \/ Store(t)
           /\ pc'[t] = "setVal" => Update(t)
           /\ pc'[t] = "update" => PutScan(t) /\ Matches(table[At(t)], Key(t))
           /\ pc'[t] = "fill" => PutScan(t) /\ table[At(t)] = NULL
           /\ pc'[t] \in {"getVersion"} => GetNode(t)
           /\ pc'[t] = "getVal" => GetVersion(t)
           /\ pc'[t] = "getCheck" => GetVal(t)
<1>1. Typed /\ pc \in [Threads -> PCs] /\ InCall(t)
  BY DEF Inductive, Typed
<1>2. pc[t] \in {"put", "fill"} => Key(t) \in Keys
  BY <1>1, CallTyped DEF InCall, Putting
<1>3. ScanOn(t) /\ pc[t] \in {"put", "fill"} => pc'[t] \in {"put", "search"}
  BY <1>1, <1>2, ScanOnGoes
<1>4. CASE BeginGet(t) \/ BeginPut(t)
  BY <1>4, BeginSteps
<1>5. CASE get(t)
  BY <1>5, GetSteps
<1>6. CASE put(t)
  <2>1. CASE PutScan(t) /\ pc[t] = "put" /\ pc'[t] \in {"put", "search", "fill", "update"}
    <3>1. CASE ScanOn(t)
      BY <1>3, <2>1, <3>1
    <3>2. CASE ~ScanOn(t)
      BY <1>1, <2>1, <3>2 DEF PutScan, Goto, Matches
    <3> QED BY <3>1, <3>2
  <2>2. CASE Fill(t) /\ pc[t] = "fill" /\ pc'[t] \in {"put", "search", "store"}
    <3>1. CASE ScanOn(t)
      BY <1>3, <2>2, <3>1
    <3>2. CASE ~ScanOn(t)
      BY <1>1, <2>2, <3>2 DEF Fill, Goto
    <3> QED BY <3>1, <3>2
  <2>3. CASE ~PutScan(t) /\ ~Fill(t)
    BY <1>6, <2>3, PutSteps
  <2> QED BY <1>6, <2>1, <2>2, <2>3, PutSteps
<1> QED BY <1>4, <1>5, <1>6 DEF Step

-----------------------------------------------------------------------------
(* The queue after a round of the search.                                   *)

LEMMA NewQueue ==
    ASSUME Inductive, NEW t \in Threads, Search(t), pc'[t] = "search"
    PROVE  /\ pc[t] = "search" /\ loc[t].que \in Seq(Paths) /\ loc[t].que # <<>>
           /\ Next_Path(t) = loc[t].que[1].path /\ 1 \in DOMAIN loc[t].que
           /\ loc'[t].que \in Seq(Paths)
           /\ \A s \in Buckets(Next_Key(t)) : table[s] # NULL
           /\ \A a \in DOMAIN loc'[t].que :
                IF a < Len(loc[t].que)
                THEN a + 1 \in DOMAIN loc[t].que /\ loc'[t].que[a] = loc[t].que[a + 1]
                ELSE \E s \in Buckets(Next_Key(t)) :
                       s \notin Range(Next_Path(t)) /\ loc'[t].que[a].path = Append(Next_Path(t), s)
           /\ \A b \in DOMAIN loc[t].que : b # 1 =>
                b - 1 \in DOMAIN loc'[t].que /\ loc'[t].que[b - 1] = loc[t].que[b]
           /\ \A s \in Buckets(Next_Key(t)) : s \notin Range(Next_Path(t)) =>
                \E a \in DOMAIN loc'[t].que : loc'[t].que[a].path = Append(Next_Path(t), s)
<1>1. Typed /\ pc \in [Threads -> PCs] /\ loc \in [Threads -> Locals]
  BY DEF Inductive, Typed
<1> DEFINE p == Next_Path(t)
           h == Next_Hist(t)
           longer == Others(Next_Key(t), p)
           more == [i \in DOMAIN longer |-> [path |-> Append(p, longer[i]), hist |-> h]]
           tail == Tail(loc[t].que)
<1>2. /\ pc[t] = "search" /\ loc[t].que # <<>>
      /\ \A s \in Buckets(Next_Key(t)) : table[s] # NULL
      /\ loc' = [loc EXCEPT ![t].que = Tail(@) \o more]
  BY SearchGoes
<1>3. loc'[t].que = tail \o more /\ loc[t].que \in Seq(Paths)
  BY <1>1, <1>2 DEF Locals
<1>4. /\ longer \in Seq(Slots) /\ Next_Key(t) \in Keys
      /\ \A j \in DOMAIN longer : longer[j] \in Buckets(Next_Key(t)) /\ longer[j] \notin Range(p)
  BY <1>2, NextPath, OthersAre
<1>5. /\ tail \in Seq(Paths) /\ Len(tail) = Len(loc[t].que) - 1 /\ Len(tail) \in Nat
      /\ \A j \in 1 .. Len(tail) : tail[j] = loc[t].que[j + 1]
  BY <1>2, <1>3
<1>6. Len(more) = Len(longer) /\ DOMAIN more = 1 .. Len(longer) /\ Len(longer) \in Nat /\ DOMAIN longer = 1 .. Len(longer)
  <2>1. DOMAIN longer = 1 .. Len(longer) /\ Len(longer) \in Nat
    BY <1>4
  <2> HIDE DEF longer, p, h
  <2>2. DOMAIN more = 1 .. Len(longer)
    BY <2>1
  <2> QED
    BY <2>1, <2>2
<1>7. loc'[t].que \in Seq(Paths)
  BY SearchTyped DEF Locals
<1>8. PICK q, r : q = loc[t].que /\ r = loc'[t].que
  OBVIOUS
<1>9. /\ r \in Seq(Paths) /\ q \in Seq(Paths) /\ q # <<>> /\ Len(q) \in Nat \ {0}
      /\ DOMAIN q = 1 .. Len(q) /\ DOMAIN r = 1 .. Len(r) /\ Head(q) = q[1]
      /\ Len(r) = Len(q) - 1 + Len(longer)
      /\ \A a \in 1 .. Len(r) : r[a] = IF a < Len(q) THEN q[a + 1] ELSE more[a - Len(q) + 1]
  <2>1. r \in Seq(Paths) /\ q \in Seq(Paths) /\ q # <<>>
    BY <1>2, <1>3, <1>7, <1>8
  <2>2. Len(q) \in Nat \ {0} /\ DOMAIN q = 1 .. Len(q) /\ DOMAIN r = 1 .. Len(r) /\ Head(q) = q[1]
    BY <2>1
  <2>3. r = tail \o more
    BY <1>3, <1>8
  <2>4. Len(tail) = Len(q) - 1 /\ \A j \in 1 .. Len(tail) : tail[j] = q[j + 1]
    BY <1>5, <1>8
  <2>5. tail \in Seq(Paths)
    BY <1>5
  <2> HIDE DEF tail, more, longer
  <2>6. Len(r) = Len(tail) + Len(more) /\ \A a \in 1 .. Len(r) : r[a] = IF a <= Len(tail) THEN tail[a] ELSE more[a - Len(tail)]
    BY <2>3, <2>5
  <2>7. ASSUME NEW a \in 1 .. Len(r) PROVE r[a] = IF a < Len(q) THEN q[a + 1] ELSE more[a - Len(q) + 1]
    <3>1. Len(r) \in Nat /\ a \in Nat
      BY <2>1
    <3>2. CASE a < Len(q)
      <4>1. a <= Len(tail) /\ a \in 1 .. Len(tail)
        BY <2>2, <2>4, <3>1, <3>2
      <4> QED BY <2>4, <2>6, <3>2, <4>1
    <3>3. CASE ~(a < Len(q))
      <4>1. ~(a <= Len(tail)) /\ a - Len(tail) = a - Len(q) + 1
        BY <2>2, <2>4, <3>1, <3>3
      <4> QED BY <2>6, <3>3, <4>1
    <3> QED BY <3>2, <3>3
  <2> QED BY <1>6, <2>1, <2>2, <2>4, <2>6, <2>7
<1>10. p = q[1].path
  BY <1>8, <1>9 DEF Next_Path
<1>11. \A j \in 1 .. Len(longer) : more[j].path = Append(p, longer[j])
  BY <1>6
<1> HIDE DEF longer, more, tail, p, h
<1>12. ASSUME NEW a \in 1 .. Len(r), ~(a < Len(q))
       PROVE  \E s \in Buckets(Next_Key(t)) : s \notin Range(p) /\ r[a].path = Append(p, s)
  <2>1. PICK j : j = a - Len(q) + 1
    OBVIOUS
  <2>2. j \in 1 .. Len(longer)
    BY <1>6, <1>9, <1>12, <2>1
  <2>3. r[a] = more[j]
    BY <1>9, <1>12, <2>1
  <2> QED BY <1>4, <1>6, <1>11, <2>2, <2>3
<1>13. ASSUME NEW b \in 1 .. Len(q), b # 1
       PROVE  b - 1 \in 1 .. Len(r) /\ r[b - 1] = q[b]
  <2>1. PICK a : a = b - 1
    OBVIOUS
  <2>2. a \in 1 .. Len(r) /\ a < Len(q) /\ a + 1 = b
    BY <1>6, <1>9, <1>13, <2>1
  <2> QED BY <1>9, <2>1, <2>2
<1>14. ASSUME NEW s \in Buckets(Next_Key(t)), s \notin Range(p)
       PROVE  \E a \in 1 .. Len(r) : r[a].path = Append(p, s)
  <2>1. s \in Slots
    BY <1>4, ScanSlots
  <2>2. PICK j \in 1 .. Len(longer) : longer[j] = s
    BY <1>4, <1>6, <1>14, <2>1, OthersHave DEF longer
  <2>3. PICK a : a = j + Len(q) - 1
    OBVIOUS
  <2>4. a \in 1 .. Len(r) /\ ~(a < Len(q)) /\ a - Len(q) + 1 = j
    BY <1>6, <1>9, <2>2, <2>3
  <2> QED BY <1>9, <1>11, <2>2, <2>4
<1>15. \A a \in 1 .. Len(r) : a < Len(q) => a + 1 \in 1 .. Len(q) /\ r[a] = q[a + 1]
  BY <1>9
<1>16. \A a \in 1 .. Len(r) :
         IF a < Len(q) THEN a + 1 \in 1 .. Len(q) /\ r[a] = q[a + 1]
         ELSE \E s \in Buckets(Next_Key(t)) : s \notin Range(p) /\ r[a].path = Append(p, s)
  BY <1>12, <1>15
<1>17. 1 \in 1 .. Len(q)
  BY <1>9
<1> QED
  BY <1>2, <1>8, <1>9, <1>10, <1>13, <1>14, <1>16, <1>17, Zenon DEF p
-----------------------------------------------------------------------------
(* Nodes and slots in a step.                                               *)

LEMMA KeyTyped ==
    ASSUME Inductive, NEW s \in Slots, table[s] # NULL
    PROVE  table[s].key \in Keys /\ s \in Buckets(table[s].key)
BY TableTyped DEF Inductive, Placed

LEMMA KeyTypedNext ==
    ASSUME Inductive, NEW t \in Threads, Step(t), NEW s \in Slots, table'[s] # NULL
    PROVE  table'[s].key \in Keys
BY TypedNext DEF Typed, Nodes

\* What has changed in a slot t was writing to.
LEMMA Changed ==
    ASSUME Inductive, NEW t \in Threads, Step(t), NEW s \in Slots, table'[s] # table[s]
    PROVE  /\ s \in Writing(t) /\ Dooms(t, s) /\ ~Dooms(t, s)'
           /\ \/ Store(t) /\ s = loc[t].slot /\ table'[s] = NewNode(t)
              \/ Copy(t) /\ s = To(t) /\ table'[s] = table[From(t)]
<1>1. Typed /\ table \in [Slots -> DOMAIN val \cup {NULL}] /\ pc \in [Threads -> PCs]
  BY DEF Inductive, Typed
<1>2. CASE Store(t) /\ loc[t].slot \in Slots /\ table' = [table EXCEPT ![loc[t].slot] = NewNode(t)]
  <2>1. s = loc[t].slot /\ table'[s] = NewNode(t)
    BY <1>1, <1>2
  <2>2. pc[t] = "store" /\ pc'[t] = "stored"
    BY <1>1, <1>2 DEF Store, Goto
  <2>3. s \in Writing(t)
    BY <2>1, <2>2, HeldIs DEF Locked3
  <2> QED BY <1>2, <2>1, <2>2, <2>3 DEF Dooms
<1>3. CASE Copy(t) /\ To(t) \in Slots /\ table' = [table EXCEPT ![To(t)] = table[From(t)]]
  <2>1. s = To(t) /\ table'[s] = table[From(t)]
    BY <1>1, <1>3
  <2>2. pc[t] = "copy" /\ pc'[t] = "copied" /\ loc' = loc
    BY <1>1, <1>3 DEF Copy, Goto
  <2>3. s \in Writing(t)
    BY <2>1, <2>2, HeldIs DEF Locked2
  <2>4. From(t)' = From(t) /\ From(t) # To(t)
    BY <2>2, MoveSlots DEF From, Moving
  <2> QED BY <1>3, <2>1, <2>2, <2>3, <2>4 DEF Dooms
<1> QED BY <1>2, <1>3, TableStep

\* Every node of the table after a step was in it before, or is stored by it.
LEMMA NodeWas ==
    ASSUME Inductive, NEW t \in Threads, Step(t), NEW s \in Slots, table'[s] # NULL
    PROVE  (Store(t) /\ s = loc[t].slot /\ table'[s] = NewNode(t)) \/ \E r \in Slots : table'[s] = table[r]
<1>1. CASE table'[s] = table[s]
  BY <1>1
<1>2. CASE table'[s] # table[s]
  <2>1. Copy(t) => From(t) \in Slots
    BY MoveSlots DEF Copy, Moving
  <2> QED BY <1>2, <2>1, Changed
<1> QED BY <1>1, <1>2

LEMMA HomeSame ==
    ASSUME NEW s \in Slots, table'[s] = table[s]
    PROVE  Home(s)' <=> Home(s)
BY DEF Home, h1, h2

\* A slot in its node's first bucket held one like it before.
LEMMA HomeWas ==
    ASSUME Inductive, Leaves, NEW t \in Threads, Step(t), NEW s \in Slots, table[s] # NULL, Home(s)'
    PROVE  Home(s) /\ h2(table'[s].key) = h2(table[s].key)
<1>1. CASE table'[s] = table[s]
  BY <1>1, HomeSame
<1>2. CASE table'[s] # table[s]
  <2>1. Home(s)
    BY <1>2, Changed DEF Leaves
  <2>2. table'[s] # NULL /\ s[1] = h1(table'[s].key)
    BY DEF Home
  <2>3. table[s].key \in Keys /\ table'[s].key \in Keys
    BY <2>2, KeyTyped, KeyTypedNext
  <2>4. h1(table'[s].key) = h1(table[s].key)
    BY <2>1, <2>2 DEF Home
  <2> QED BY <2>1, <2>3, <2>4, HashClass
<1> QED BY <1>1, <1>2

\* A move goes from the first bucket of a key to the second, which is full in front of it.
LEMMA MoveGoes ==
    ASSUME Inductive, NEW t \in Threads, Straight(t), pc[t] \in {"copy", "copied"}
    PROVE  Up(From(t), To(t)) /\ Full(From(t)[1]) /\ Filled(To(t))
<1> DEFINE p == loc[t].path
           m == loc[t].i
<1>1. m \in 2 .. Len(p) /\ Len(p) \in Nat /\ To(t) \in Slots
  BY MoveSlots DEF Moving
<1>2. /\ \A n \in 1 .. m - 1 : (\A j \in n .. m - 1 : Unchanged(t, j)) => Up(p[n], p[n + 1])
      /\ \A n \in 1 .. Len(p) - 1 : Full(p[n][1])
      /\ Filled(p[Len(p)])
      /\ Unchanged(t, m - 1)
  BY DEF Straight, Moving
<1>3. PICK a : a = m - 1
  OBVIOUS
<1>4. To(t) = p[m] /\ From(t) = p[a]
  BY <1>3 DEF To, From
<1> HIDE DEF p, m
<1>5. a \in 1 .. m - 1 /\ a + 1 = m /\ a \in 1 .. Len(p) - 1 /\ \A j \in a .. m - 1 : j = a
  BY <1>1, <1>3
<1>6. Up(p[a], p[m])
  BY <1>2, <1>3, <1>5
<1>7. Full(p[a][1])
  BY <1>2, <1>5
<1>8. Filled(p[m])
  <2>1. CASE m = Len(p)
    BY <1>2, <2>1
  <2>2. CASE m # Len(p)
    <3>1. m \in 1 .. Len(p) - 1
      BY <1>1, <2>2
    <3> QED BY <1>2, <3>1 DEF Full, Filled
  <2> QED BY <2>1, <2>2
<1> QED BY <1>4, <1>6, <1>7, <1>8
-----------------------------------------------------------------------------
(* Upward is inductive.                                                     *)

LEMMA PackedNext ==
    ASSUME Inductive, NEW t \in Threads, Step(t), Packed, Tight(t), Straight(t)
    PROVE  Packed'
<1>1. SUFFICES ASSUME NEW s \in Slots, table'[s] # NULL, NEW k, k = table'[s].key PROVE FrontFull(s, k)'
  <2>1. ASSUME NEW s \in Slots, table'[s] # NULL PROVE FrontFull(s, table[s].key)'
    <3>1. PICK k : k = table'[s].key
      OBVIOUS
    <3>2. FrontFull(s, k)'
      BY <1>1, <2>1, <3>1
    <3> QED BY <3>1, <3>2 DEF FrontFull, h1
  <2> QED BY <2>1 DEF Packed
<1>2. SUFFICES FrontFull(s, k)
  BY <1>2, FullStays
<1>3. CASE table'[s] = table[s]
  BY <1>1, <1>3 DEF Packed
<1>4. CASE Store(t) /\ s = loc[t].slot /\ table'[s] = NewNode(t)
  BY <1>1, <1>4 DEF Tight, Store, NewNode
<1>5. CASE Copy(t) /\ s = To(t) /\ table'[s] = table[From(t)]
  <2>1. Up(From(t), To(t)) /\ Full(From(t)[1]) /\ Filled(To(t))
    BY <1>5, MoveGoes DEF Copy
  <2> QED BY <1>1, <1>5, <2>1 DEF FrontFull, Up, Home
<1> QED BY <1>3, <1>4, <1>5, Changed

LEMMA TightNext ==
    ASSUME Inductive, NEW t \in Threads, Step(t), NEW w \in Threads, Tight(w)
    PROVE  Tight(w)'
<1>1. Typed /\ InCall(t) /\ Passed(t) /\ OnPath(t) /\ pc \in [Threads -> PCs] /\ loc \in [Threads -> Locals]
  BY DEF Inductive, Typed
<1>2. PICK k : k = Key(w)
  OBVIOUS
<1>3. SUFFICES ASSUME Key(w)' = k
               PROVE  /\ pc'[w] \in {"search", "take"} \cup Moving => Full(h1(k)) /\ Full(h2(k))
                      /\ pc'[w] = "store" => FrontFull(loc'[w].slot, k) /\ loc'[w].slot \in Slots
  <2>1. pc'[w] \in {"search", "take", "store"} \cup Moving => Key(w)' = k
    BY <1>2, OthersSame, CallStays DEF Moving
  <2>2. ASSUME pc'[w] \in {"search", "take"} \cup Moving PROVE Full(h1(Key(w)))' /\ Full(h2(Key(w)))'
    <3>1. PICK a, b : a = h1(k) /\ b = h2(k)
      OBVIOUS
    <3>2. Full(a)' /\ Full(b)'
      BY <1>3, <2>1, <2>2, <3>1, FullStays
    <3>3. Key(w)' = k
      BY <2>1, <2>2
    <3> QED BY <3>1, <3>2, <3>3 DEF Full, h1, h2
  <2>3. ASSUME pc'[w] = "store" PROVE FrontFull(loc[w].slot, Key(w))'
    <3>1. PICK s : s = loc'[w].slot
      OBVIOUS
    <3>2. FrontFull(s, k)'
      BY <1>3, <2>1, <2>3, <3>1, FullStays
    <3>3. Key(w)' = k
      BY <2>1, <2>3
    <3> QED BY <3>1, <3>2, <3>3 DEF FrontFull, Filled, Full, h1
  <2> QED BY <2>2, <2>3 DEF Tight
<1>4. CASE w # t
  <2>1. pc'[w] = pc[w] /\ loc'[w] = loc[w]
    BY <1>4, OthersSame
  <2>2. pc[w] = "store" => loc[w].slot \in Slots
    <3>1. Typed /\ InCall(w)
      BY DEF Inductive
    <3> QED BY <3>1, CallTyped, ScanSlots DEF InCall, Putting
  <2> QED BY <1>2, <2>1, <2>2 DEF Tight
<1>5. CASE w = t
  <2>1. pc[t] \in Putting => k \in Keys
    BY <1>1, <1>2, <1>5, CallTyped DEF InCall
  <2>2. CASE pc'[t] = "search"
    <3>1. CASE Search(t)
      BY <1>2, <1>5, <2>2, <3>1 DEF Tight, Search
    <3>2. CASE (PutScan(t) \/ Fill(t)) /\ ScanOn(t)
      <4>1. k \in Keys /\ loc[t].n = 2 * SLOTS_NUM
        BY <1>1, <1>2, <1>5, <2>1, <2>2, <3>2, ScanOnGoes DEF PutScan, Fill, Putting
      <4>2. \A m \in 1 .. 2 * SLOTS_NUM : table[Scan[k][m]] # NULL
        BY <1>2, <1>5, <3>2, <4>1, ScannedOn, Constants
      <4> QED BY <1>5, <2>2, <4>1, <4>2, FullScanned
    <3> QED BY <2>2, <3>1, <3>2, StepTo
  <2>3. CASE pc'[t] \in Moving \cup {"take"}
    <3>1. pc[t] \in {"search"} \cup Moving
      BY <2>3, StepTo DEF Search, LockLower, LockHigher, Copy, Copied, Moving
    <3> QED BY <1>2, <1>5, <2>3, <3>1 DEF Tight, Moving
  <2>4. CASE pc'[t] = "store"
    <3>1. CASE Fill(t) /\ table[loc[t].slot] = NULL
      <4>1. pc[t] = "fill" /\ loc' = loc /\ loc[t].slot = At(t)
        BY <1>1, <3>1 DEF Fill, InCall
      <4>2. k \in Keys /\ loc[t].n \in 1 .. 2 * SLOTS_NUM
        BY <1>1, <2>1, <4>1, LocTyped DEF Putting
      <4>3. \A m \in 1 .. 2 * SLOTS_NUM : m < loc[t].n => table[Scan[k][m]] # NULL
        BY <1>1, <1>2, <1>5, <4>1 DEF Passed
      <4>4. FrontFull(Scan[k][loc[t].n], k)
        BY <4>2, <4>3, FrontScanned
      <4> QED BY <1>2, <1>5, <2>4, <4>1, <4>2, <4>4, ScanSlots DEF At, Moving
    <3>2. CASE Take(t)
      <4>1. pc[t] = "take" /\ loc'[t].slot = loc[t].path[1]
        BY <1>1, <3>2 DEF Take, Blank
      <4>2. k \in Keys /\ loc[t].path[1] \in Buckets(k)
        BY <1>1, <1>2, <1>5, <2>1, <4>1 DEF Putting, OnPath, Found
      <4>3. PICK s \in Slots : s = loc[t].path[1]
        BY <4>2, ScanSlots
      <4>4. Full(h1(k)) /\ Full(h2(k))
        BY <1>2, <1>5, <4>1 DEF Tight
      <4>5. s[1] = h1(k) \/ s[1] = h2(k)
        BY <4>2, <4>3, BucketsAre
      <4>6. Filled(s)
        BY <4>4, <4>5 DEF Full, Filled
      <4> QED BY <1>5, <2>4, <4>1, <4>3, <4>4, <4>6 DEF FrontFull, Moving
    <3> QED BY <2>4, <3>1, <3>2, StepTo
  <2> QED BY <1>5, <2>2, <2>3, <2>4
<1> QED BY <1>4, <1>5

\* The paths that are tried are paths, one after the other.
LEMMA QueueTyped ==
    ASSUME Inductive, NEW w \in Threads
    PROVE  /\ loc[w].que \in Seq(Paths)
           /\ \A a \in DOMAIN loc[w].que : loc[w].que[a].path \in Seq(Slots) /\ Len(loc[w].que[a].path) \in Nat
<1>1. loc[w].que \in Seq(Paths)
  BY DEF Inductive, Typed, Locals
<1>2. \A a \in DOMAIN loc[w].que : loc[w].que[a] \in Paths
  BY <1>1
<1> QED BY <1>1, <1>2 DEF Paths

QueuesOK(q) ==
    /\ \A a \in DOMAIN q : \A i \in DOMAIN q[a].path : Full(q[a].path[i][1])
    /\ \A a, b \in DOMAIN q : a <= b => Len(q[a].path) <= Len(q[b].path)
    /\ \A a \in DOMAIN q : Len(q[a].path) <= Len(q[1].path) + 1

LEMMA QueuesSearch ==
    ASSUME Inductive, NEW t \in Threads, Search(t), pc'[t] = "search", QueuesOK(loc[t].que)
    PROVE  QueuesOK(loc'[t].que)
<1>1. PICK q, r, p, k : q = loc[t].que /\ r = loc'[t].que /\ p = Next_Path(t) /\ k = Next_Key(t)
  OBVIOUS
<1>2. /\ q \in Seq(Paths) /\ q # <<>> /\ p = q[1].path /\ 1 \in DOMAIN q /\ r \in Seq(Paths)
      /\ \A s \in Buckets(k) : table[s] # NULL
      /\ \A a \in DOMAIN r : IF a < Len(q) THEN a + 1 \in DOMAIN q /\ r[a] = q[a + 1]
                             ELSE \E s \in Buckets(k) : s \notin Range(p) /\ r[a].path = Append(p, s)
      /\ pc[t] = "search"
  BY <1>1, NewQueue, Zenon
<1>3. k \in Keys /\ p \in Seq(Slots) /\ Len(p) \in Nat \ {0}
  BY <1>1, <1>2, NextPath
<1>4. QueuesOK(q)
  BY <1>1
<1>5. \A a \in DOMAIN q : q[a].path \in Seq(Slots) /\ Len(q[a].path) \in Nat
  BY <1>1, QueueTyped
<1>6. DOMAIN q = 1 .. Len(q) /\ Len(q) \in Nat /\ DOMAIN r = 1 .. Len(r) /\ Len(r) \in Nat
  BY <1>2
<1>7. ASSUME NEW a \in DOMAIN r, ~(a < Len(q))
      PROVE  /\ Len(r[a].path) = Len(p) + 1
             /\ \A i \in DOMAIN r[a].path : Full(r[a].path[i][1])
  <2>1. PICK s \in Buckets(k) : r[a].path = Append(p, s)
    BY <1>2, <1>7
  <2>2. s \in Slots /\ Full(s[1])
    BY <1>2, <1>3, ScanSlots, BucketsAre, FullIsScanned
  <2>3. PICK z : z = Append(p, s)
    OBVIOUS
  <2>4. Len(z) = Len(p) + 1 /\ DOMAIN z = 1 .. Len(p) + 1 /\ z[Len(p) + 1] = s /\ \A i \in 1 .. Len(p) : z[i] = p[i]
    BY <1>3, <2>2, <2>3
  <2>5. \A i \in 1 .. Len(p) : Full(p[i][1])
    <3>1. DOMAIN p = 1 .. Len(p)
      BY <1>3
    <3> QED BY <1>2, <1>4, <3>1 DEF QueuesOK
  <2>6. ASSUME NEW i \in DOMAIN z PROVE Full(z[i][1])
    <3>1. i \in 1 .. Len(p) \/ i = Len(p) + 1
      BY <1>3, <2>4
    <3> QED BY <2>2, <2>4, <2>5, <3>1
  <2> QED BY <2>1, <2>3, <2>4, <2>6
<1>8. ASSUME NEW a \in DOMAIN r, a < Len(q)
      PROVE  /\ Len(p) <= Len(r[a].path) /\ Len(r[a].path) <= Len(p) + 1 /\ Len(r[a].path) \in Nat
             /\ \A i \in DOMAIN r[a].path : Full(r[a].path[i][1])
  <2>1. a + 1 \in DOMAIN q /\ r[a] = q[a + 1] /\ 1 <= a + 1
    BY <1>2, <1>6, <1>8
  <2>2. PICK b \in DOMAIN q : b = a + 1
    BY <2>1
  <2> QED BY <1>2, <1>4, <1>5, <2>1, <2>2 DEF QueuesOK
<1>9. ASSUME NEW a \in DOMAIN r, NEW b \in DOMAIN r, a <= b
      PROVE  Len(r[a].path) <= Len(r[b].path)
  <2>1. CASE b < Len(q)
    <3>1. a < Len(q)
      BY <1>6, <1>9, <2>1
    <3>2. a + 1 \in DOMAIN q /\ r[a] = q[a + 1] /\ b + 1 \in DOMAIN q /\ r[b] = q[b + 1]
      BY <1>2, <2>1, <3>1
    <3>3. PICK c \in DOMAIN q, d \in DOMAIN q : c = a + 1 /\ d = b + 1 /\ c <= d
      BY <1>6, <1>9, <3>2
    <3> QED BY <1>4, <3>2, <3>3 DEF QueuesOK
  <2>2. CASE ~(b < Len(q)) /\ a < Len(q)
    BY <1>3, <1>7, <1>8, <2>2
  <2>3. CASE ~(b < Len(q)) /\ ~(a < Len(q))
    BY <1>3, <1>7, <2>3
  <2> QED BY <2>1, <2>2, <2>3
<1>10. ASSUME NEW a \in DOMAIN r PROVE Len(r[a].path) <= Len(r[1].path) + 1
  <2>1. 1 \in DOMAIN r
    BY <1>6
  <2>2. Len(r[a].path) <= Len(p) + 1 /\ Len(r[a].path) \in Nat
    BY <1>3, <1>7, <1>8
  <2>3. Len(p) <= Len(r[1].path) /\ Len(r[1].path) \in Nat
    BY <1>3, <1>7, <1>8, <2>1
  <2> QED BY <1>3, <2>2, <2>3
<1>11. QueuesOK(r)
  BY <1>7, <1>8, <1>9, <1>10 DEF QueuesOK
<1> QED BY <1>1, <1>11

\* The paths that a search starts with.
LEMMA FirstQueue ==
    ASSUME Inductive, NEW t \in Threads, (PutScan(t) \/ Fill(t)) /\ ScanOn(t), pc'[t] = "search"
    PROVE  /\ Key(t) \in Keys /\ Full(h1(Key(t))) /\ Full(h2(Key(t)))
           /\ DOMAIN loc'[t].que = 1 .. 2 * SLOTS_NUM
           /\ \A a \in 1 .. 2 * SLOTS_NUM : loc'[t].que[a].path = <<Queued[Key(t)][a]>>
<1>1. Typed /\ pc \in [Threads -> PCs]
  BY DEF Inductive, Typed
<1>2. Key(t) \in Keys /\ \A n \in 1 .. 2 * SLOTS_NUM : n <= loc[t].n => table[Scan[Key(t)][n]] # NULL
  BY ScannedOn
<1>3. loc[t].n = 2 * SLOTS_NUM /\ loc'[t].que = First(Key(t))
  BY <1>1, <1>2, ScanOnGoes
<1>4. \A n \in 1 .. 2 * SLOTS_NUM : table[Scan[Key(t)][n]] # NULL
  BY <1>2, <1>3, Constants
<1> QED BY <1>2, <1>3, <1>4, FullScanned DEF First

LEMMA QueuesNext ==
    ASSUME Inductive, NEW t \in Threads, Step(t), NEW w \in Threads, Queues(w)
    PROVE  Queues(w)'
<1>1. SUFFICES ASSUME pc'[w] = "search", NEW r, r = loc'[w].que PROVE QueuesOK(r)
  <2>1. ASSUME pc'[w] = "search" PROVE QueuesOK(loc[w].que)'
    <3>1. PICK r : r = loc'[w].que
      OBVIOUS
    <3>2. QueuesOK(r)
      BY <1>1, <2>1, <3>1
    <3>3. QueuesOK(r)'
      BY <3>2, FullStays DEF QueuesOK
    <3> QED BY <3>1, <3>3 DEF QueuesOK
  <2> QED BY <2>1 DEF Queues, QueuesOK
<1>2. pc[w] = "search" => QueuesOK(loc[w].que)
  BY DEF Queues, QueuesOK
<1>3. CASE w # t
  BY <1>1, <1>2, <1>3, OthersSame
<1>4. CASE w = t /\ Search(t)
  BY <1>1, <1>2, <1>4, QueuesSearch DEF Search
<1>5. CASE w = t /\ (PutScan(t) \/ Fill(t)) /\ ScanOn(t)
  <2>1. /\ Key(t) \in Keys /\ Full(h1(Key(t))) /\ Full(h2(Key(t)))
        /\ DOMAIN r = 1 .. 2 * SLOTS_NUM
        /\ \A a \in 1 .. 2 * SLOTS_NUM : r[a].path = <<Queued[Key(t)][a]>>
    BY <1>1, <1>5, FirstQueue
  <2>2. ASSUME NEW a \in 1 .. 2 * SLOTS_NUM PROVE Full(Queued[Key(t)][a][1])
    <3>1. Queued[Key(t)][a] \in Buckets(Key(t)) /\ Queued[Key(t)][a] \in Slots
      BY <2>1, QueuedIsScanned, ScanSlots
    <3> QED BY <2>1, <3>1, BucketsAre
  <2>3. 1 \in 1 .. 2 * SLOTS_NUM
    BY Constants
  <2>4. ASSUME NEW a \in DOMAIN r PROVE Len(r[a].path) = 1 /\ DOMAIN r[a].path = {1} /\ Full(r[a].path[1][1])
    <3>1. PICK x : x = Queued[Key(t)][a]
      OBVIOUS
    <3>2. r[a].path = <<x>> /\ Full(x[1])
      BY <2>1, <2>2, <3>1
    <3>3. Len(<<x>>) = 1 /\ DOMAIN <<x>> = {1} /\ <<x>>[1] = x
      OBVIOUS
    <3> QED BY <3>2, <3>3
  <2> QED BY <2>1, <2>3, <2>4 DEF QueuesOK
<1> QED BY <1>1, <1>3, <1>4, <1>5, StepTo
-----------------------------------------------------------------------------
(* Routes.                                                                  *)

\* A route up to the slot that was null at first is a route as it was.
LEMMA RouteCut ==
    ASSUME Inductive, Leaves, NEW t \in Threads, Step(t), NEW z \in Seq(Slots), NEW i, Route(z, i)',
           NEW n \in i .. Len(z), \A j \in i .. n : table[z[j]] # NULL,
           ~Full(h2(table[z[n]].key)),
           NEW y \in Seq(Slots), Len(y) = n, \A j \in 1 .. n : y[j] = z[j]
    PROVE  Route(y, i)
<1>1. Len(z) \in Nat /\ DOMAIN z = 1 .. Len(z) /\ DOMAIN y = 1 .. n
  BY SMT
<1>2. i \in 1 .. Len(z) /\ Simple(z)
  BY DEF Route, Simple
<1>3. n \in 1 .. Len(z) /\ i \in 1 .. n /\ n \in Nat
  BY <1>1, <1>2
<1>4. Simple(y)
  BY <1>1, <1>2, <1>3 DEF Simple
<1>5. \A j \in i .. n : j \in i .. Len(z) /\ j \in 1 .. n /\ z[j] \in Slots
  BY <1>1, <1>2, <1>3
<1>6. ASSUME NEW j \in i .. n PROVE Home(y[j])
  <2>1. PICK s \in Slots : s = z[j]
    BY <1>5
  <2>2. Home(s)' /\ table[s] # NULL
    BY <1>5, <2>1 DEF Route, Home
  <2>3. Home(s)
    BY <2>2, HomeWas
  <2> QED BY <1>5, <2>1, <2>3
<1>7. ASSUME NEW j \in i .. n - 1 PROVE y[j + 1][1] = h2(table[y[j]].key)
  <2>0. j \in i .. n /\ j \in i .. Len(z) - 1 /\ j + 1 \in 1 .. n
    BY <1>1, <1>2, <1>3
  <2>1. PICK s \in Slots : s = z[j]
    BY <1>5, <2>0
  <2>2. Home(s)' /\ table[s] # NULL
    BY <1>5, <2>0, <2>1 DEF Route, Home
  <2>3. h2(table'[s].key) = h2(table[s].key)
    BY <2>2, HomeWas
  <2>4. z[j + 1][1] = h2(table'[s].key)
    BY <2>0, <2>1 DEF Route, h2
  <2> QED BY <1>5, <2>0, <2>1, <2>3, <2>4
<1>8. ~Full(h2(table[y[Len(y)]].key))
  BY <1>3
<1> QED BY <1>2, <1>3, <1>4, <1>6, <1>7, <1>8 DEF Route

LEMMA RouteStays ==
    ASSUME Inductive, Leaves, NEW t \in Threads, Step(t), NEW z \in Seq(Slots), NEW i, Route(z, i)', Full(z[i][1])
    PROVE  \E y \in Seq(Slots) : Route(y, i) /\ Begins(y, z)
<1>1. Len(z) \in Nat /\ DOMAIN z = 1 .. Len(z) /\ i \in 1 .. Len(z) /\ i \in Nat
  BY DEF Route
<1>2. \A j \in 1 .. Len(z) : z[j] \in Slots
  BY <1>1
<1> DEFINE Nulls == {j \in i .. Len(z) : table[z[j]] = NULL}
<1>3. SUFFICES ASSUME NEW n \in i .. Len(z), \A j \in i .. n : table[z[j]] # NULL, ~Full(h2(table[z[n]].key))
               PROVE  \E y \in Seq(Slots) : Route(y, i) /\ Begins(y, z)
  <2>1. CASE Nulls = {}
    <3>1. PICK n : n = Len(z)
      OBVIOUS
    <3>2. n \in i .. Len(z) /\ \A j \in i .. n : table[z[j]] # NULL
      BY <1>1, <2>1, <3>1
    <3>3. PICK s \in Slots : s = z[n]
      BY <1>1, <1>2, <3>1
    <3>4. Home(s)' /\ table[s] # NULL
      BY <3>1, <3>2, <3>3 DEF Route, Home
    <3>5. h2(table'[s].key) = h2(table[s].key)
      BY <3>4, HomeWas
    <3>6. PICK b : b = h2(table'[s].key)
      OBVIOUS
    <3>7. ~Full(b)'
      BY <3>1, <3>3, <3>6 DEF Route, Full, h2
    <3>8. ~Full(h2(table[z[n]].key))
      BY <3>3, <3>5, <3>6, <3>7, FullStays
    <3> QED BY <1>3, <3>2, <3>8
  <2>2. CASE Nulls # {}
    <3>1. PICK m \in Nulls : \A j \in Nulls : m <= j
      <4>1. Nulls \subseteq Nat
        BY <1>1
      <4> QED BY <2>2, <4>1, LeastNumber, Zenon
    <3>2. m # i
      BY <1>1, <1>2, <3>1 DEF Full
    <3>3. PICK n : n = m - 1
      OBVIOUS
    <3>4. n \in i .. Len(z) - 1 /\ n \in i .. Len(z) /\ n + 1 = m
      BY <1>1, <3>1, <3>2, <3>3
    <3>5. \A j \in i .. n : table[z[j]] # NULL
      BY <1>1, <3>1, <3>4
    <3>6. PICK s \in Slots : s = z[n]
      BY <1>1, <1>2, <3>4
    <3>7. Home(s)' /\ table[s] # NULL /\ z[m][1] = h2(table'[s].key)
      <4>1. Home(s)' /\ table[s] # NULL
        BY <1>1, <3>4, <3>5, <3>6 DEF Route, Home
      <4>2. z[n + 1][1] = h2(table'[z[n]].key)
        BY <3>4 DEF Route, h2
      <4> QED BY <3>4, <3>6, <4>1, <4>2
    <3>8. h2(table'[s].key) = h2(table[s].key)
      BY <3>7, HomeWas
    <3>9. z[m] \in Slots /\ table[z[m]] = NULL
      BY <1>1, <1>2, <3>1
    <3>10. ~Full(h2(table[z[n]].key))
      BY <3>6, <3>7, <3>8, <3>9 DEF Full
    <3> QED BY <1>3, <3>4, <3>5, <3>10
  <2> QED BY <2>1, <2>2
<1>4. PICK y : y = [j \in 1 .. n |-> z[j]]
  OBVIOUS
<1>5. n \in Nat /\ n <= Len(z)
  BY <1>1
<1>6. y \in Seq(Slots) /\ Len(y) = n /\ \A j \in 1 .. n : y[j] = z[j]
  BY <1>2, <1>4, <1>5
<1>7. Route(y, i)
  BY <1>3, <1>6, RouteCut
<1> QED BY <1>5, <1>6, <1>7 DEF Begins

LEMMA RouteIs ==
    ASSUME NEW z \in Seq(Slots), NEW i, Route(z, i)
    PROVE  /\ Len(z) \in Nat /\ DOMAIN z = 1 .. Len(z) /\ i \in 1 .. Len(z) /\ i \in Nat /\ Simple(z)
           /\ \A j \in 1 .. Len(z) : z[j] \in Slots
           /\ \A j \in i .. Len(z) : Home(z[j])
           /\ \A j \in i .. Len(z) - 1 : z[j + 1][1] = h2(table[z[j]].key)
           /\ ~Full(h2(table[z[Len(z)]].key))
<1>1. Len(z) \in Nat /\ DOMAIN z = 1 .. Len(z) /\ \A j \in 1 .. Len(z) : z[j] \in Slots
  OBVIOUS
<1>2. /\ i \in 1 .. Len(z) /\ Simple(z)
      /\ \A j \in i .. Len(z) : Home(z[j])
      /\ \A j \in i .. Len(z) - 1 : z[j + 1][1] = h2(table[z[j]].key)
      /\ ~Full(h2(table[z[Len(z)]].key))
  BY Zenon DEF Route
<1> QED BY <1>1, <1>2

\* Covers, of a queue.
CoversAll(q) ==
    \A a \in DOMAIN q : \A i \in DOMAIN q[a].path : \A z \in Seq(Slots) :
        Route(z, i) /\ Branches(z, q[a].path, i) => Covered(q, z, i)

\* Every prolongation of the path that has been tried is in the queue.
LEMMA Prolonged ==
    ASSUME Inductive, NEW t \in Threads, Search(t), pc'[t] = "search",
           NEW z \in Seq(Slots), Simple(z), Begins(Next_Path(t), z), Len(Next_Path(t)) < Len(z),
           NEW n, n = Len(Next_Path(t)) + 1, z[n] \in Buckets(Next_Key(t))
    PROVE  \E b \in DOMAIN loc'[t].que : Len(loc'[t].que[b].path) = n /\ Begins(loc'[t].que[b].path, z)
<1>1. PICK p, k, r : p = Next_Path(t) /\ k = Next_Key(t) /\ r = loc'[t].que
  OBVIOUS
<1>2. /\ pc[t] = "search" /\ loc[t].que # <<>>
      /\ \A s \in Buckets(k) : s \notin Range(p) => \E a \in DOMAIN r : r[a].path = Append(p, s)
  BY <1>1, NewQueue, Zenon
<1>3. k \in Keys /\ p \in Seq(Slots) /\ Len(p) \in Nat \ {0}
  BY <1>1, <1>2, NextPath
<1>4. /\ Len(z) \in Nat /\ DOMAIN z = 1 .. Len(z) /\ DOMAIN p = 1 .. Len(p) /\ n \in 1 .. Len(z)
      /\ \A j \in 1 .. Len(p) : p[j] = z[j] /\ j \in 1 .. Len(z) /\ j # n
  BY <1>1, <1>3 DEF Begins
<1>5. PICK s \in Slots : s = z[n]
  BY <1>4
<1>6. s \notin Range(p)
  BY <1>4, <1>5 DEF Range, Simple
<1>7. PICK b \in DOMAIN r : r[b].path = Append(p, s)
  BY <1>1, <1>2, <1>5, <1>6
<1>8. PICK y : y = Append(p, s)
  OBVIOUS
<1>9. Len(y) = n /\ y[n] = s /\ \A j \in 1 .. Len(p) : y[j] = p[j]
  BY <1>1, <1>3, <1>8
<1>10. \A j \in 1 .. n : j \in 1 .. Len(p) \/ j = n
  BY <1>1, <1>3
<1>11. n <= Len(z)
  BY <1>3, <1>4
<1>12. Begins(y, z)
  BY <1>4, <1>5, <1>9, <1>10, <1>11 DEF Begins
<1> QED BY <1>1, <1>7, <1>8, <1>9, <1>12

LEMMA CoversSearch ==
    ASSUME Inductive, NEW t \in Threads, Search(t), pc'[t] = "search", CoversAll(loc[t].que)
    PROVE  CoversAll(loc'[t].que)
<1>1. PICK q, r, p, k : q = loc[t].que /\ r = loc'[t].que /\ p = Next_Path(t) /\ k = Next_Key(t)
  OBVIOUS
<1>2. /\ q \in Seq(Paths) /\ q # <<>> /\ p = q[1].path /\ 1 \in DOMAIN q /\ r \in Seq(Paths)
      /\ \A s \in Buckets(k) : table[s] # NULL
      /\ \A a \in DOMAIN r : IF a < Len(q) THEN a + 1 \in DOMAIN q /\ r[a] = q[a + 1]
                             ELSE \E s \in Buckets(k) : s \notin Range(p) /\ r[a].path = Append(p, s)
      /\ \A b \in DOMAIN q : b # 1 => b - 1 \in DOMAIN r /\ r[b - 1] = q[b]
      /\ pc[t] = "search"
  BY <1>1, NewQueue, Zenon
<1>3. k \in Keys /\ p \in Seq(Slots) /\ Len(p) \in Nat \ {0} /\ k = table[p[Len(p)]].key /\ p[Len(p)] \in Slots
  BY <1>1, <1>2, NextPath DEF Next_Key
<1>4. Full(h1(k)) /\ Full(h2(k))
  BY <1>2, <1>3, FullIsScanned
<1>5. SUFFICES ASSUME NEW a \in DOMAIN r, NEW i \in DOMAIN r[a].path, NEW z \in Seq(Slots),
                      Route(z, i), Branches(z, r[a].path, i)
               PROVE  Covered(r, z, i)
  BY <1>1 DEF CoversAll
<1>6. Len(z) \in Nat /\ DOMAIN z = 1 .. Len(z) /\ i \in 1 .. Len(z) /\ Simple(z)
  BY <1>5, RouteIs
<1>7. ASSUME Begins(p, z), Len(p) < Len(z), i <= Len(p) + 1,
             NEW n, n = Len(p) + 1, z[n] \in Buckets(k)
      PROVE  Covered(r, z, i)
  <2>1. \E b \in DOMAIN r : Len(r[b].path) = n /\ Begins(r[b].path, z)
    BY <1>1, <1>2, <1>6, <1>7, Prolonged
  <2> QED BY <1>7, <2>1 DEF Covered
<1>8. ASSUME NEW b \in DOMAIN q, i <= Len(q[b].path), Begins(q[b].path, z)
      PROVE  Covered(r, z, i)
  <2>1. CASE b # 1
    BY <1>2, <1>8, <2>1 DEF Covered
  <2>2. CASE b = 1
    <3>1. Begins(p, z) /\ i <= Len(p) /\ Len(p) <= Len(z)
      BY <1>2, <1>8, <2>2 DEF Begins
    <3>2. z[Len(p)] = p[Len(p)]
      BY <1>3, <3>1 DEF Begins
    <3>3. Len(p) # Len(z)
      BY <1>3, <1>4, <1>5, <3>2, RouteIs
    <3>4. Len(p) \in i .. Len(z) - 1 /\ Len(p) < Len(z) /\ Len(p) + 1 \in 1 .. Len(z)
      BY <1>3, <1>6, <3>1, <3>3
    <3>5. PICK n : n = Len(p) + 1
      OBVIOUS
    <3>6. z[n] \in Slots /\ z[n][1] = h2(k)
      <4>1. z[Len(p) + 1][1] = h2(table[z[Len(p)]].key)
        BY <1>5, <3>4, RouteIs
      <4> QED BY <1>3, <1>6, <3>2, <3>4, <3>5, <4>1
    <3>7. z[n] \in Buckets(k)
      BY <1>3, <3>6, BucketsAre
    <3>8. i <= Len(p) + 1
      BY <1>3, <1>6, <3>1
    <3> QED BY <1>7, <3>1, <3>4, <3>5, <3>7, <3>8
  <2> QED BY <2>1, <2>2
<1>9. ASSUME NEW b \in DOMAIN q, i \in DOMAIN q[b].path, Branches(z, q[b].path, i)
      PROVE  Covered(r, z, i)
  <2>1. Covered(q, z, i)
    BY <1>1, <1>5, <1>9 DEF CoversAll
  <2> QED BY <1>8, <2>1 DEF Covered
<1>10. CASE a < Len(q)
  <2>1. a + 1 \in DOMAIN q /\ r[a] = q[a + 1]
    BY <1>2, <1>10
  <2>2. PICK b \in DOMAIN q : b = a + 1 /\ r[a] = q[b]
    BY <2>1
  <2> QED BY <1>5, <1>9, <2>2
<1>11. CASE ~(a < Len(q))
  <2>1. PICK s \in Buckets(k) : r[a].path = Append(p, s)
    BY <1>2, <1>11
  <2>2. PICK y : y = Append(p, s)
    OBVIOUS
  <2>3. s \in Slots
    BY <1>3, ScanSlots
  <2>4. /\ Len(y) = Len(p) + 1 /\ DOMAIN y = 1 .. Len(p) + 1 /\ y[Len(p) + 1] = s
        /\ \A j \in 1 .. Len(p) : y[j] = p[j]
    BY <1>3, <2>2, <2>3
  <2>5. i \in 1 .. Len(p) + 1 /\ Branches(z, y, i)
    BY <1>5, <2>1, <2>2, <2>4
  <2>6. CASE i \in 1 .. Len(p)
    <3>1. DOMAIN p = 1 .. Len(p) /\ \A j \in 1 .. i - 1 : j \in 1 .. Len(p)
      BY <1>3, <2>6
    <3>2. Branches(z, p, i)
      BY <2>4, <2>5, <2>6, <3>1 DEF Branches
    <3> QED BY <1>2, <1>9, <2>6, <3>1, <3>2
  <2>7. CASE i = Len(p) + 1
    <3>1. z[i][1] = s[1] /\ \A j \in 1 .. Len(p) : z[j] = p[j]
      <4>1. \A j \in 1 .. Len(p) : j \in 1 .. i - 1
        BY <1>3, <2>7
      <4> QED BY <2>4, <2>5, <2>7, <4>1 DEF Branches
    <3>2. Len(p) < Len(z) /\ Len(p) <= Len(z) /\ i <= Len(p) + 1
      BY <1>3, <1>6, <2>7
    <3>3. Begins(p, z)
      BY <3>1, <3>2 DEF Begins
    <3>4. z[i] \in Slots
      BY <1>6
    <3>5. z[i] \in Buckets(k)
      BY <1>3, <2>3, <3>1, <3>4, BucketsAre
    <3> QED BY <1>7, <2>7, <3>2, <3>3, <3>5
  <2>8. i \in 1 .. Len(p) \/ i = Len(p) + 1
    BY <1>3, <2>5
  <2> QED BY <2>6, <2>7, <2>8
<1> QED BY <1>10, <1>11

LEMMA CoversNext ==
    ASSUME Inductive, Leaves, NEW t \in Threads, Step(t), NEW w \in Threads, Queues(w), Covers(w)
    PROVE  Covers(w)'
<1>0. Typed /\ pc \in [Threads -> PCs]
  BY DEF Inductive, Typed
<1>1. SUFFICES ASSUME pc'[w] = "search", NEW r, r = loc'[w].que, NEW a \in DOMAIN r, NEW i \in DOMAIN r[a].path,
                      NEW z \in Seq(Slots), Route(z, i)', Branches(z, r[a].path, i)
               PROVE  Covered(r, z, i)
  <2>1. ASSUME pc'[w] = "search" PROVE Covers(w)'
    <3>1. PICK r : r = loc'[w].que
      OBVIOUS
    <3>2. \A a \in DOMAIN r : \A i \in DOMAIN r[a].path : \A z \in Seq(Slots) :
            Route(z, i)' /\ Branches(z, r[a].path, i) => Covered(r, z, i)
      BY <1>1, <2>1, <3>1
    <3> QED BY <2>1, <3>1, <3>2 DEF Covers, Branches, Covered, Begins
  <2> QED BY <2>1 DEF Covers
<1>2. pc[w] = "search" => QueuesOK(loc[w].que) /\ CoversAll(loc[w].que)
  BY DEF Queues, QueuesOK, Covers, CoversAll
<1>3. CASE w # t
  <2>1. pc[w] = "search" /\ r = loc[w].que
    BY <1>1, <1>3, OthersSame
  <2>2. Full(r[a].path[i][1]) /\ z[i][1] = r[a].path[i][1]
    BY <1>1, <1>2, <2>1 DEF QueuesOK, Branches
  <2>3. PICK y \in Seq(Slots) : Route(y, i) /\ Begins(y, z)
    BY <1>1, <2>2, RouteStays
  <2>4. Len(y) \in Nat /\ Len(z) \in Nat /\ i \in 1 .. Len(y) /\ Len(y) <= Len(z) /\ \A j \in 1 .. Len(y) : y[j] = z[j]
    BY <2>3 DEF Route, Begins
  <2>5. \A j \in 1 .. i - 1 : j \in 1 .. Len(y)
    BY <2>4
  <2>6. Branches(y, r[a].path, i)
    BY <1>1, <2>4, <2>5 DEF Branches
  <2>7. Covered(r, y, i)
    BY <1>2, <2>1, <2>3, <2>6 DEF CoversAll
  <2>8. PICK b \in DOMAIN r : i <= Len(r[b].path) /\ Begins(r[b].path, y)
    BY <2>7 DEF Covered
  <2>9. Len(r[b].path) \in Nat
    BY <2>1, QueueTyped
  <2>10. Begins(r[b].path, z)
    BY <2>4, <2>8, <2>9 DEF Begins
  <2> QED BY <2>8, <2>10 DEF Covered
<1>4. CASE w = t /\ Search(t)
  <2>1. table' = table /\ pc[t] = "search"
    BY <1>4 DEF Search, shared
  <2>2. Route(z, i)
    BY <1>1, <2>1 DEF Route, Simple, Home, Full, h1, h2
  <2>3. CoversAll(r)
    BY <1>1, <1>2, <1>4, <2>1, CoversSearch
  <2> QED BY <1>1, <2>2, <2>3 DEF CoversAll
<1>5. CASE w = t /\ (PutScan(t) \/ Fill(t)) /\ ScanOn(t)
  <2>1. PICK k : k = Key(t)
    OBVIOUS
  <2>2. /\ k \in Keys /\ DOMAIN r = 1 .. 2 * SLOTS_NUM
        /\ \A b \in 1 .. 2 * SLOTS_NUM : r[b].path = <<Queued[k][b]>>
    BY <1>1, <1>5, <2>1, FirstQueue
  <2>3. i = 1 /\ z[1][1] = Queued[k][a][1]
    <3>1. PICK x : x = Queued[k][a]
      OBVIOUS
    <3>2. r[a].path = <<x>>
      BY <2>2, <3>1
    <3> QED BY <1>1, <3>1, <3>2 DEF Branches
  <2>4. Len(z) \in Nat /\ 1 <= Len(z) /\ z[1] \in Slots
    BY <1>1, <2>3 DEF Route
  <2>5. Queued[k][a] \in Buckets(k) /\ Queued[k][a] \in Slots
    BY <2>2, QueuedIsScanned, ScanSlots
  <2>6. z[1] \in Buckets(k)
    BY <2>2, <2>3, <2>4, <2>5, BucketsAre
  <2>7. PICK b \in 1 .. 2 * SLOTS_NUM : Queued[k][b] = z[1]
    BY <2>2, <2>4, <2>6, AllQueued
  <2>8. PICK y : y = <<z[1]>>
    OBVIOUS
  <2>9. Len(y) = 1 /\ y[1] = z[1] /\ r[b].path = y
    BY <2>2, <2>7, <2>8
  <2>10. Begins(y, z)
    BY <2>4, <2>9 DEF Begins
  <2> QED BY <2>2, <2>3, <2>9, <2>10 DEF Covered
<1> QED BY <1>1, <1>3, <1>4, <1>5, StepTo

LEMMA MinIsLeast ==
    ASSUME NEW S, S \subseteq Nat, S # {}
    PROVE  Min(S) \in S /\ \A x \in S : Min(S) <= x
BY LeastNumber DEF Min

\* The slot a path ends in is the first of its last key that is null.
LEMMA SearchEnds ==
    ASSUME Inductive, NEW t \in Threads, Search(t), pc'[t] = "move"
    PROVE  /\ pc[t] = "search" /\ loc[t].que # <<>>
           /\ \E end \in Buckets(Next_Key(t)) :
                /\ table[end] = NULL /\ FrontFull(end, Next_Key(t))
                /\ loc' = [loc EXCEPT ![t] = [Blank EXCEPT
                             !.path = Append(Next_Path(t), end),
                             !.hist = Append(Next_Hist(t), key_versions[end]),
                             !.i = Len(Next_Path(t)) + 1, !.attempt = loc[t].attempt]]
<1>1. pc \in [Threads -> PCs]
  BY DEF Inductive, Typed
<1>2. pc[t] = "search" /\ loc[t].que # <<>>
  BY DEF Search
<1>3. Next_Key(t) \in Keys
  BY <1>2, NextPath
<1> DEFINE k == Next_Key(t)
           nulls == {i \in DOMAIN Scan[k] : table[Scan[k][i]] = NULL}
           m == Min(nulls)
           end == Scan[k][m]
<1>4. /\ nulls # {}
      /\ loc' = [loc EXCEPT ![t] = [Blank EXCEPT
                   !.path = Append(Next_Path(t), end), !.hist = Append(Next_Hist(t), key_versions[end]),
                   !.i = Len(Next_Path(t)) + 1, !.attempt = loc[t].attempt]]
  BY <1>1, <1>2, Zenon DEF Search, Next_Path, Next_Hist, Next_Key
<1>5. nulls \subseteq 1 .. 2 * SLOTS_NUM
  BY <1>3, ScanSlots
<1>6. m \in nulls /\ \A x \in nulls : m <= x
  <2>1. nulls \subseteq Nat
    BY <1>5
  <2> HIDE DEF nulls
  <2> QED BY <1>4, <2>1, MinIsLeast
<1>7. m \in 1 .. 2 * SLOTS_NUM /\ table[Scan[k][m]] = NULL
  <2> HIDE DEF m
  <2> QED BY <1>5, <1>6
<1>8. ASSUME NEW n \in 1 .. 2 * SLOTS_NUM, n < m PROVE table[Scan[k][n]] # NULL
  <2>1. n \notin nulls
    <3> HIDE DEF nulls, m
    <3> QED BY <1>5, <1>6, <1>7, <1>8
  <2>2. DOMAIN Scan[k] = 1 .. 2 * SLOTS_NUM
    BY <1>3, ScanSlots
  <2> QED BY <2>1, <2>2
<1> HIDE DEF k, nulls, m
<1>9. FrontFull(Scan[k][m], k)
  BY <1>3, <1>7, <1>8, FrontScanned DEF k
<1>10. end \in Buckets(Next_Key(t))
  BY <1>3, <1>7, ScanSlots DEF k
<1> HIDE DEF end
<1>11. table[end] = NULL /\ FrontFull(end, Next_Key(t))
  BY <1>7, <1>9 DEF end, k
<1> QED BY <1>2, <1>4, <1>10, <1>11

\* No slot of a path that was unchanged is in the bucket of an earlier one, if
\* the path goes up from there: a shorter path would have been tried first.
LEMMA Shortcut ==
    ASSUME Inductive, NEW q \in Seq(Paths), QueuesOK(q), CoversAll(q), 1 \in DOMAIN q,
           NEW p \in Seq(Slots), p = q[1].path, Simple(p),
           NEW end \in Slots, table[end] = NULL, NEW P, P = Append(p, end),
           NEW n \in 1 .. Len(p), NEW m \in 1 .. Len(p), n < m, P[m][1] = P[n][1],
           \A j \in m .. Len(p) : Up(P[j], P[j + 1])
    PROVE  FALSE
<1>1. PICK L, d : L = Len(p) /\ d = m - n
  OBVIOUS
<1>2. L \in Nat /\ DOMAIN p = 1 .. L /\ (\A j \in 1 .. L : p[j] \in Slots) /\ n \in 1 .. L /\ m \in 1 .. L
  BY <1>1
<1>3. d \in Nat \ {0} /\ n + d = m
  BY <1>1, <1>2
<1>4. P[L + 1] = end /\ \A j \in 1 .. L : P[j] = p[j]
  BY <1>1
<1>5. PICK l : l = L - d
  OBVIOUS
<1>6. l \in Nat /\ l + d = L /\ l < L /\ n \in 1 .. l
  BY <1>2, <1>3, <1>5
<1> DEFINE z == [j \in 1 .. l |-> IF j < n THEN p[j] ELSE p[j + d]]
<1>7. /\ \A j \in 1 .. l : j < n => z[j] = p[j] /\ j \in 1 .. L
      /\ \A j \in 1 .. l : ~(j < n) => z[j] = p[j + d] /\ j + d \in m .. L /\ j + d \in 1 .. L
  BY <1>2, <1>3, <1>6
<1>8. z \in Seq(Slots) /\ Len(z) = l /\ DOMAIN z = 1 .. l
  <2>1. z = [j \in 1 .. l |-> z[j]]
    OBVIOUS
  <2> HIDE DEF z
  <2>2. ASSUME NEW j \in 1 .. l PROVE z[j] \in Slots
    <3>1. PICK c : c = j + d
      OBVIOUS
    <3>2. CASE j < n
      BY <1>2, <1>7, <3>2
    <3>3. CASE ~(j < n)
      <4>1. z[j] = p[c] /\ c \in 1 .. L
        BY <1>7, <3>1, <3>3
      <4> QED BY <1>2, <4>1
    <3> QED BY <3>2, <3>3
  <2> QED BY <1>6, <2>1, <2>2
<1> HIDE DEF z
<1>9. Simple(z)
  <2>1. SUFFICES ASSUME NEW a \in 1 .. l, NEW b \in 1 .. l, z[a] = z[b] PROVE a = b
    BY <1>8 DEF Simple
  <2>2. \A x, y \in 1 .. L : p[x] = p[y] => x = y
    BY <1>2 DEF Simple
  <2>3. CASE a < n /\ b < n
    BY <1>7, <2>1, <2>2, <2>3
  <2>4. CASE ~(a < n) /\ ~(b < n)
    <3>0. PICK c, e : c = a + d /\ e = b + d
      OBVIOUS
    <3>1. c = e
      <4>1. z[a] = p[c] /\ z[b] = p[e] /\ c \in 1 .. L /\ e \in 1 .. L
        BY <1>7, <2>1, <2>4, <3>0
      <4> QED BY <2>1, <2>2, <4>1
    <3> QED BY <1>3, <1>6, <3>0, <3>1
  <2>5. CASE a < n /\ ~(b < n)
    <3>1. a = b + d
      BY <1>7, <2>1, <2>2, <2>5
    <3> QED BY <1>3, <1>6, <2>5, <3>1
  <2>6. CASE ~(a < n) /\ b < n
    <3>1. a + d = b
      BY <1>7, <2>1, <2>2, <2>6
    <3> QED BY <1>3, <1>6, <2>6, <3>1
  <2> QED BY <2>3, <2>4, <2>5, <2>6
<1>10. ASSUME NEW j \in n .. l
       PROVE  /\ z[j] = p[j + d] /\ Home(z[j]) /\ P[j + d + 1][1] = h2(table[z[j]].key)
              /\ j + d \in 1 .. L
  <2>1. j \in 1 .. l /\ ~(j < n)
    BY <1>2, <1>6
  <2>2. PICK c : c = j + d
    OBVIOUS
  <2>3. z[j] = p[c] /\ c \in m .. L /\ c \in 1 .. L
    BY <1>7, <2>1, <2>2
  <2>4. Up(P[c], P[c + 1]) /\ P[c] = p[c]
    BY <1>1, <1>4, <2>3
  <2> QED BY <2>2, <2>3, <2>4 DEF Up
<1>11. ASSUME NEW j \in n .. l - 1 PROVE z[j + 1][1] = h2(table[z[j]].key)
  <2>1. j \in n .. l /\ j + 1 \in n .. l
    BY <1>2, <1>6
  <2>2. PICK b : b = j + 1
    OBVIOUS
  <2>3. z[b] = p[b + d] /\ b + d \in 1 .. L
    BY <1>10, <2>1, <2>2
  <2>4. b + d = j + d + 1
    BY <1>2, <1>3, <1>6, <2>2
  <2>5. P[b + d] = p[b + d]
    BY <1>4, <2>3
  <2> QED BY <1>10, <2>1, <2>2, <2>3, <2>4, <2>5
<1>12. ~Full(h2(table[z[l]].key))
  <2>1. l \in n .. l
    BY <1>6
  <2>2. P[l + d + 1][1] = h2(table[z[l]].key)
    BY <1>10, <2>1
  <2>3. P[l + d + 1] = end
    BY <1>4, <1>6
  <2> QED BY <2>2, <2>3 DEF Full
<1>13. Route(z, n)
  BY <1>6, <1>8, <1>9, <1>10, <1>11, <1>12 DEF Route
<1>14. Branches(z, p, n)
  <2>1. n \in n .. l
    BY <1>6
  <2>2. z[n] = p[m]
    BY <1>3, <1>10, <2>1
  <2>3. z[n][1] = p[n][1]
    BY <1>2, <1>4, <2>2
  <2>4. \A j \in 1 .. n - 1 : j \in 1 .. l /\ j < n
    BY <1>6
  <2> QED BY <1>7, <2>3, <2>4 DEF Branches
<1>15. Covered(q, z, n)
  BY <1>2, <1>8, <1>13, <1>14 DEF CoversAll
<1>16. PICK b \in DOMAIN q : Begins(q[b].path, z)
  BY <1>15 DEF Covered
<1>17. Len(q[1].path) <= Len(q[b].path) /\ Len(q[b].path) \in Nat
  <2>1. q[b] \in Paths /\ b \in Nat /\ 1 <= b
    BY <1>16
  <2> QED BY <1>16, <2>1 DEF QueuesOK, Paths
<1>18. Len(q[b].path) <= l
  BY <1>8, <1>16 DEF Begins
<1> QED BY <1>1, <1>2, <1>6, <1>17, <1>18

LEMMA GreatestNumber ==
    ASSUME NEW L \in Nat, NEW S, S \subseteq 1 .. L, S # {}
    PROVE  \E m \in S : \A i \in S : i <= m
<1> DEFINE T == {x \in 0 .. L : L - x \in S}
<1>1. T \subseteq Nat
  OBVIOUS
<1>2. \A i \in S : i \in 1 .. L /\ L - i \in T
  <2>1. \A i \in S : i \in 1 .. L /\ L - i \in 0 .. L /\ L - (L - i) = i
    OBVIOUS
  <2> QED BY <2>1
<1>3. T # {}
  <2> HIDE DEF T
  <2> QED BY <1>2
<1>4. \A x \in T : x \in 0 .. L /\ L - x \in S
  OBVIOUS
<1> HIDE DEF T
<1>5. PICK x \in T : \A y \in T : x <= y
  BY <1>1, <1>3, LeastNumber
<1>6. PICK m \in S : m = L - x
  BY <1>4, <1>5
<1>7. ASSUME NEW i \in S PROVE i <= m
  <2>1. PICK y \in T : y = L - i
    BY <1>2
  <2>2. x <= y
    BY <1>5
  <2> QED BY <1>2, <1>4, <1>5, <1>6, <2>1, <2>2
<1> QED BY <1>7

LEMMA AppendIs ==
    ASSUME NEW S, NEW s \in Seq(S), NEW x \in S, NEW z, z = Append(s, x), NEW L, L = Len(s)
    PROVE  /\ z \in Seq(S) /\ L \in Nat /\ Len(z) = L + 1 /\ z[L + 1] = x /\ \A j \in 1 .. L : z[j] = s[j]
           /\ DOMAIN s = 1 .. L /\ DOMAIN z = 1 .. L + 1
OBVIOUS

Fits(p, h, j) == key_versions[p[j]] = h[j] /\ ~Odd(h[j])

\* Straight, of a path with its versions.
StraightPath(p, h, m) ==
    /\ \A n \in 1 .. m - 1 : (\A j \in n .. m - 1 : Fits(p, h, j)) => Up(p[n], p[n + 1])
    /\ \A n \in 1 .. Len(p) - 1 : Full(p[n][1])
    /\ Filled(p[Len(p)])

\* One step of a path that was unchanged, if all that follow go up.
LEMMA StepUp ==
    ASSUME Inductive, Packed, NEW q \in Seq(Paths), QueuesOK(q), CoversAll(q), 1 \in DOMAIN q,
           NEW p \in Seq(Slots), p = q[1].path, Simple(p),
           NEW end \in Slots, table[end] = NULL, NEW P, P = Append(p, end),
           NEW n \in 1 .. Len(p), table[P[n]] # NULL, P[n + 1] \in Buckets(table[P[n]].key),
           \A j \in n + 1 .. Len(p) : Up(P[j], P[j + 1])
    PROVE  Up(P[n], P[n + 1])
<1>1. PICK L : L = Len(p)
  OBVIOUS
<1>2. /\ L \in Nat /\ n \in 1 .. L /\ DOMAIN p = 1 .. L /\ (\A j \in 1 .. L : p[j] \in Slots)
      /\ P[L + 1] = end /\ \A j \in 1 .. L : P[j] = p[j]
  BY <1>1
<1>3. PICK s \in Slots : s = P[n]
  BY <1>2
<1>4. PICK k \in Keys : k = table[s].key /\ s \in Buckets(k)
  BY <1>3, KeyTyped
<1>5. Full(s[1])
  BY <1>2, <1>3 DEF QueuesOK
<1>6. PICK r \in Slots : r = P[n + 1]
  <2>1. CASE n = L
    BY <1>2, <2>1
  <2>2. CASE n # L
    <3>1. n + 1 \in 1 .. L
      BY <1>2, <2>2
    <3> QED BY <1>2, <3>1
  <2> QED BY <2>1, <2>2
<1>7. (s[1] = h1(k) \/ s[1] = h2(k)) /\ (r[1] = h1(k) \/ r[1] = h2(k))
  BY <1>3, <1>4, <1>6, BucketsAre
<1>8. FrontFull(s, k)
  BY <1>3, <1>4 DEF Packed
<1>9. SUFFICES ASSUME ~Up(s, r) PROVE FALSE
  BY <1>3, <1>6
<1>10. r[1] # s[1]
  <2>1. SUFFICES ASSUME r[1] = s[1] PROVE FALSE
    OBVIOUS
  <2>2. CASE n = L
    BY <1>2, <1>5, <1>6, <2>1, <2>2 DEF Full
  <2>3. CASE n # L
    <3>1. PICK m : m = n + 1
      OBVIOUS
    <3>2. m \in 1 .. L /\ n < m
      BY <1>2, <2>3, <3>1
    <3>3. P[m][1] = P[n][1]
      BY <1>3, <1>6, <2>1, <3>1
    <3>4. \A j \in m .. L : Up(P[j], P[j + 1])
      BY <1>1, <3>1
    <3> QED BY <1>1, <3>2, <3>3, <3>4, Shortcut
  <2> QED BY <2>2, <2>3
<1>11. s[1] = h2(k) /\ r[1] = h1(k) /\ s[1] # h1(k)
  BY <1>3, <1>4, <1>7, <1>9, <1>10 DEF Up, Home
<1>12. Full(r[1])
  BY <1>8, <1>11 DEF FrontFull
<1>13. n # L
  BY <1>2, <1>6, <1>12 DEF Full
<1>14. PICK m : m = n + 1
  OBVIOUS
<1>15. m \in 1 .. L /\ m \in n + 1 .. L /\ P[m] = r
  BY <1>2, <1>6, <1>13, <1>14
<1>16. Up(r, P[m + 1])
  BY <1>1, <1>15
<1>17. Home(r) /\ P[m + 1][1] = h2(table[r].key)
  BY <1>16 DEF Up
<1>18. P[m + 1][1] = s[1]
  <2>1. table[r].key \in Keys /\ h1(table[r].key) = h1(k)
    BY <1>11, <1>17, KeyTyped DEF Home
  <2> QED BY <1>11, <1>17, <2>1, HashClass
<1>19. CASE m = L
  BY <1>2, <1>5, <1>18, <1>19 DEF Full
<1>20. CASE m # L
  <2>1. PICK l : l = m + 1
    OBVIOUS
  <2>2. l \in 1 .. L /\ n < l /\ \A j \in l .. L : j \in n + 1 .. L
    BY <1>2, <1>14, <1>15, <1>20, <2>1
  <2>3. P[l][1] = P[n][1]
    BY <1>3, <1>18, <2>1
  <2>4. \A j \in l .. L : Up(P[j], P[j + 1])
    BY <1>1, <2>2
  <2> QED BY <1>1, <2>2, <2>3, <2>4, Shortcut
<1> QED BY <1>19, <1>20

LEMMA PathEnds ==
    ASSUME Inductive, Packed, NEW t \in Threads, pc[t] = "search", loc[t].que # <<>>,
           QueuesOK(loc[t].que), CoversAll(loc[t].que),
           NEW end \in Buckets(Next_Key(t)), table[end] = NULL, FrontFull(end, Next_Key(t)),
           NEW P, P = Append(Next_Path(t), end),
           NEW H, H = Append(Next_Hist(t), key_versions[end])
    PROVE  StraightPath(P, H, Len(Next_Path(t)) + 1)
<1>1. PICK q, p, L, k, h : q = loc[t].que /\ p = Next_Path(t) /\ L = Len(p) /\ k = Next_Key(t) /\ h = Next_Hist(t)
  OBVIOUS
<1>2. /\ q \in Seq(Paths) /\ q # <<>>
      /\ p \in Seq(Slots) /\ L \in Nat \ {0} /\ k \in Keys
      /\ h \in Seq(Nat) /\ Len(h) = L
      /\ Tried(t, Head(q)) /\ p = Head(q).path /\ k = table[Last(p)].key /\ Last(p) = p[L]
      /\ \A n \in 1 .. L : h[n] = IF n = L THEN key_versions[Last(p)] ELSE Head(q).hist[n]
  BY <1>1, NextPath, QueueTyped DEF Next_Path, Next_Key
<1>3. 1 \in DOMAIN q /\ Head(q) = q[1]
  BY <1>2
<1>4. end \in Slots /\ key_versions[end] \in Nat
  BY <1>1, <1>2, ScanSlots DEF Inductive, Typed
<1>5. /\ P[L + 1] = end /\ (\A j \in 1 .. L : P[j] = p[j]) /\ Len(P) = L + 1
      /\ \A j \in 1 .. L : H[j] = h[j]
      /\ DOMAIN p = 1 .. L
  <2>1. p \in Seq(Slots) /\ h \in Seq(Nat) /\ L = Len(p) /\ L = Len(h)
    BY <1>1, <1>2
  <2>2. P = Append(p, end) /\ H = Append(h, key_versions[end])
    BY <1>1
  <2>3. PICK v \in Nat : v = key_versions[end]
    BY <1>4
  <2>4. P[L + 1] = end /\ (\A j \in 1 .. L : P[j] = p[j]) /\ Len(P) = L + 1 /\ DOMAIN p = 1 .. L
    <3>1. p \in Seq(Slots) /\ end \in Slots /\ P = Append(p, end) /\ L = Len(p)
      BY <1>4, <2>1, <2>2
    <3> QED BY ONLY <3>1, AppendIs
  <2>5. \A j \in 1 .. L : H[j] = h[j]
    BY <2>1, <2>2, <2>3, AppendIs
  <2> QED BY <2>4, <2>5
<1>6. Simple(p) /\ Len(Head(q).hist) = L - 1
  BY <1>1, <1>2 DEF Tried
<1>7. ASSUME NEW n \in 1 .. L, Fits(P, H, n)
      PROVE  table[P[n]] # NULL /\ P[n + 1] \in Buckets(table[P[n]].key)
  <2>1. table[P[n]] # NULL
    BY <1>2, <1>5 DEF Tried
  <2>2. CASE n = L
    <3>1. P[n] = Last(p) /\ P[n + 1] = end /\ end \in Buckets(k)
      BY <1>1, <1>2, <1>5, <2>2
    <3> QED BY <1>2, <2>1, <3>1
  <2>3. CASE n # L
    <3>1. n \in 1 .. L - 1 /\ n + 1 \in 1 .. L
      BY <1>2, <2>3
    <3>2. H[n] = Head(q).hist[n] /\ P[n] = p[n] /\ P[n + 1] = p[n + 1]
      BY <1>2, <1>5, <2>3, <3>1
    <3>3. Head(q).hist \in Seq(Nat)
      <4>1. q[1] \in Paths
        BY <1>2
      <4> QED BY <1>3, <4>1 DEF Paths
    <3>4. n \in DOMAIN Head(q).hist
      BY <1>6, <3>1, <3>3
    <3>5. Link(p[n], Head(q).hist[n], p[n + 1])
      BY <1>2, <3>4 DEF Tried
    <3> QED BY <1>7, <2>1, <3>2, <3>5 DEF Link, Fits
  <2> QED BY <2>2, <2>3
<1>8. \A n \in 1 .. L : (\A j \in n .. L : Fits(P, H, j)) => Up(P[n], P[n + 1])
  <2> DEFINE Bad == {n \in 1 .. L : (\A j \in n .. L : Fits(P, H, j)) /\ ~Up(P[n], P[n + 1])}
  <2>1. SUFFICES ASSUME Bad # {} PROVE FALSE
    OBVIOUS
  <2>2. PICK n \in Bad : \A j \in Bad : j <= n
    <3>1. Bad \subseteq 1 .. L
      OBVIOUS
    <3> HIDE DEF Bad
    <3> QED BY <1>2, <2>1, <3>1, GreatestNumber
  <2>3. n \in 1 .. L /\ (\A j \in n .. L : Fits(P, H, j)) /\ ~Up(P[n], P[n + 1])
    BY <2>2
  <2>4. ASSUME NEW j \in n + 1 .. L PROVE Up(P[j], P[j + 1])
    <3>1. j \in 1 .. L /\ ~(j <= n) /\ \A i \in j .. L : i \in n .. L
      BY <1>2, <2>3
    <3>2. j \notin Bad
      BY <2>2, <3>1
    <3>3. \A i \in j .. L : Fits(P, H, i)
      BY <2>3, <3>1
    <3> QED BY <3>1, <3>2, <3>3
  <2> HIDE DEF Bad
  <2>5. n \in n .. L
    BY <1>2, <2>3
  <2>6. table[P[n]] # NULL /\ P[n + 1] \in Buckets(table[P[n]].key)
    BY <1>7, <2>3, <2>5
  <2>7. QueuesOK(q) /\ CoversAll(q) /\ P = Append(p, end) /\ p = q[1].path
    BY <1>1, <1>2, <1>3
  <2> QED BY <1>1, <1>2, <1>3, <1>4, <1>6, <2>3, <2>4, <2>6, <2>7, StepUp
<1>9. ASSUME NEW n \in 1 .. L PROVE Full(P[n][1])
  <2>1. n \in DOMAIN q[1].path /\ P[n] = q[1].path[n]
    BY <1>2, <1>3, <1>5
  <2> QED BY <1>1, <1>3, <2>1 DEF QueuesOK
<1>10. Filled(end)
  BY DEF FrontFull
<1>11. Len(P) - 1 = L /\ Len(p) + 1 - 1 = L
  BY <1>1, <1>2, <1>5
<1> QED BY <1>1, <1>5, <1>8, <1>9, <1>10, <1>11 DEF StraightPath

\* The version of a slot that another thread holds does not change.
LEMMA HeldVersion ==
    ASSUME Inductive, NEW t \in Threads, Step(t), NEW w \in Threads, w # t, NEW s \in Slots, s \in Held(w)
    PROVE  key_versions'[s] = key_versions[s]
<1>1. s \notin Writing(t)
  BY HeldStays
<1>2. table_locks[s] = w /\ s \notin Held(t) /\ table_locks[s] # NULL
  <2>1. table_locks[s] = w
    BY DEF Inductive, LocksHeld
  <2>2. s \in Held(t) => table_locks[s] = t
    BY DEF Inductive, LocksHeld
  <2> QED BY <2>1, <2>2, Constants
<1>3. LockStep(t)
  BY LockSteps
<1>4. s \notin Held(t)'
  BY <1>2, <1>3 DEF LockStep
<1>5. Writing(t)' \subseteq Held(t)'
  <2>1. CASE pc'[t] \in Locked3
    BY <2>1, HeldIsNext
  <2>2. CASE pc'[t] \in Locked2
    <3>1. To(t)' \in {Lower(t)', Higher(t)'}
      BY Zenon DEF Lower, Higher
    <3> QED BY <2>2, <3>1, HeldIsNext
  <2>3. CASE pc'[t] \notin Locked3 \cup Locked2
    BY <2>3, HeldIsNext
  <2> QED BY <2>1, <2>2, <2>3
<1> QED BY <1>1, <1>3, <1>4, <1>5 DEF LockStep

\* What is unchanged after a step was so before it, and holds the same node.
LEMMA FitsWas ==
    ASSUME Inductive, NEW t \in Threads, Step(t), NEW w \in Threads, pc[w] \in Moving,
           NEW j \in 1 .. Len(loc[w].path) - 1, Fits(loc[w].path, loc[w].hist, j)'
    PROVE  /\ loc'[w].path = loc[w].path /\ loc'[w].hist = loc[w].hist =>
                Fits(loc[w].path, loc[w].hist, j) /\ table'[loc[w].path[j]] = table[loc[w].path[j]]
<1>1. SUFFICES ASSUME loc'[w].path = loc[w].path, loc'[w].hist = loc[w].hist
               PROVE  Fits(loc[w].path, loc[w].hist, j) /\ table'[loc[w].path[j]] = table[loc[w].path[j]]
  OBVIOUS
<1>2. PICK p, h : p = loc[w].path /\ h = loc[w].hist
  OBVIOUS
<1>3. key_versions'[p[j]] = h[j] /\ ~Odd(h[j])
  BY <1>1, <1>2 DEF Fits
<1>4. Found(w) /\ p \in Seq(Slots) /\ h \in Seq(Nat) /\ Len(h) = Len(p)
  BY <1>2, MoveSlots DEF Inductive, OnPath
<1>5. Link(p[j], h[j], p[j + 1])
  BY <1>2, <1>4 DEF Found
<1>6. PICK s \in Slots, v \in Nat : s = p[j] /\ v = h[j]
  BY <1>2, <1>4
<1>7. v <= key_versions[s]
  BY <1>5, <1>6 DEF Link
<1>8. /\ key_versions[s] \in Nat /\ key_versions'[s] \in {key_versions[s], key_versions[s] + 1}
      /\ table'[s] # table[s] => Odd(key_versions[s]) /\ key_versions'[s] = key_versions[s]
  BY SlotStep
<1>9. key_versions[s] = v
  BY <1>3, <1>6, <1>7, <1>8
<1> QED BY <1>2, <1>3, <1>6, <1>8, <1>9 DEF Fits

StraightIs(w) ==
    pc[w] \in Moving =>
      /\ StraightPath(loc[w].path, loc[w].hist, loc[w].i)
      /\ pc[w] \in {"copy", "copied"} => Fits(loc[w].path, loc[w].hist, loc[w].i - 1)

LEMMA StraightSame ==
    ASSUME NEW w
    PROVE  Straight(w) <=> StraightIs(w)
BY Zenon DEF Straight, StraightIs, StraightPath, Fits, Unchanged

\* A path that goes up where it is unchanged still does, up to its l-th slot.
LEMMA StraightStays ==
    ASSUME Inductive, NEW t \in Threads, Step(t), NEW w \in Threads, pc[w] \in Moving,
           StraightPath(loc[w].path, loc[w].hist, loc[w].i),
           NEW l \in {loc[w].i, loc[w].i - 1}, l # loc[w].i => Fits(loc[w].path, loc[w].hist, l),
           NEW p, p = loc[w].path, NEW h, h = loc[w].hist, loc'[w].path = p, loc'[w].hist = h
    PROVE  StraightPath(p, h, l)'
<1>1. PICK m : m = loc[w].i
  OBVIOUS
<1>2. m \in 2 .. Len(p) /\ Len(p) \in Nat /\ p \in Seq(Slots)
  BY <1>1, MoveSlots
<1>3. /\ \A n \in 1 .. m - 1 : (\A j \in n .. m - 1 : Fits(p, h, j)) => Up(p[n], p[n + 1])
      /\ \A n \in 1 .. Len(p) - 1 : Full(p[n][1])
      /\ Filled(p[Len(p)])
  BY <1>1 DEF StraightPath
<1>4. \A n \in 1 .. Len(p) : p[n] \in Slots
  BY <1>2
<1>5. ASSUME NEW n \in 1 .. l - 1, \A j \in n .. l - 1 : Fits(p, h, j)' PROVE Up(p[n], p[n + 1])'
  <2>1. l \in 1 .. Len(p) /\ (l = m \/ l = m - 1) /\ n \in 1 .. m - 1
    BY <1>1, <1>2
  <2>2. ASSUME NEW j \in n .. l - 1 PROVE Fits(p, h, j) /\ table'[p[j]] = table[p[j]]
    <3>1. j \in 1 .. Len(p) - 1
      BY <1>2, <2>1
    <3>2. Fits(loc[w].path, loc[w].hist, j)'
      BY <1>5, <2>2 DEF Fits
    <3> QED BY <3>1, <3>2, FitsWas
  <2>3. \A j \in n .. m - 1 : Fits(p, h, j)
    <3>1. CASE l = m
      BY <2>2, <3>1
    <3>2. CASE l # m
      <4>1. \A j \in n .. m - 1 : j \in n .. l - 1 \/ j = l
        BY <1>2, <2>1, <3>2
      <4>2. Fits(p, h, l)
        BY <1>1, <3>2
      <4> QED BY <2>2, <4>1, <4>2
    <3> QED BY <3>1, <3>2
  <2>4. Up(p[n], p[n + 1])
    BY <1>3, <2>1, <2>3
  <2>5. n \in n .. l - 1 /\ n \in 1 .. Len(p)
    BY <1>2, <2>1
  <2>6. PICK s \in Slots : s = p[n]
    BY <1>4, <2>5
  <2>7. PICK r : r = p[n + 1]
    OBVIOUS
  <2>8. table'[s] = table[s]
    BY <2>2, <2>5, <2>6
  <2>9. Up(s, r)'
    BY <2>4, <2>6, <2>7, <2>8 DEF Up, Home, h1, h2
  <2> QED BY <2>6, <2>7, <2>9 DEF Up, Home
<1>6. ASSUME NEW n \in 1 .. Len(p) - 1 PROVE Full(p[n][1])'
  <2>1. PICK b : b = p[n][1]
    OBVIOUS
  <2>2. Full(b)'
    BY <1>3, <2>1, FullStays
  <2> QED BY <2>1, <2>2 DEF Full
<1>7. Filled(p[Len(p)])'
  <2>1. PICK s \in Slots : s = p[Len(p)]
    BY <1>2, <1>4
  <2>2. Filled(s)'
    BY <1>3, <2>1, FullStays
  <2> QED BY <2>1, <2>2 DEF Filled
<1> QED BY <1>5, <1>6, <1>7 DEF StraightPath

LEMMA StraightSearch ==
    ASSUME Inductive, Packed, NEW t \in Threads, Search(t), pc'[t] = "move", Queues(t), Covers(t)
    PROVE  StraightIs(t)'
<1>1. pc[t] = "search" /\ loc[t].que # <<>> /\ UNCHANGED <<table, key_versions>>
  BY SearchEnds DEF Search, shared
<1>2. QueuesOK(loc[t].que) /\ CoversAll(loc[t].que)
  BY <1>1 DEF Queues, QueuesOK, Covers, CoversAll
<1>3. PICK end \in Buckets(Next_Key(t)) :
        /\ table[end] = NULL /\ FrontFull(end, Next_Key(t))
        /\ loc' = [loc EXCEPT ![t] = [Blank EXCEPT
                     !.path = Append(Next_Path(t), end),
                     !.hist = Append(Next_Hist(t), key_versions[end]),
                     !.i = Len(Next_Path(t)) + 1, !.attempt = loc[t].attempt]]
  BY SearchEnds
<1>4. PICK P, H, m : /\ P = Append(Next_Path(t), end) /\ H = Append(Next_Hist(t), key_versions[end])
                     /\ m = Len(Next_Path(t)) + 1
  OBVIOUS
<1>5. StraightPath(P, H, m)
  BY <1>1, <1>2, <1>3, <1>4, PathEnds
<1>6. loc'[t].path = P /\ loc'[t].hist = H /\ loc'[t].i = m
  BY <1>3, <1>4 DEF Blank, Inductive, Typed
<1>7. StraightPath(P, H, m)'
  BY <1>1, <1>5 DEF StraightPath, Fits, Up, Home, Full, Filled, h1, h2
<1>8. StraightPath(loc[t].path, loc[t].hist, loc[t].i)'
  BY <1>6, <1>7 DEF StraightPath, Fits
<1> QED BY <1>8 DEF StraightIs

LEMMA StraightNext ==
    ASSUME Inductive, Packed, NEW t \in Threads, Step(t), NEW w \in Threads, Queues(w), Covers(w), Straight(w)
    PROVE  Straight(w)'
<1>1. Typed /\ pc \in [Threads -> PCs] /\ loc \in [Threads -> Locals]
  BY DEF Inductive, Typed
<1>2. SUFFICES ASSUME pc'[w] \in Moving PROVE StraightIs(w)'
  BY <1>2 DEF Straight, StraightIs, StraightPath, Fits, Unchanged
<1>3. StraightIs(w)
  BY StraightSame
<1>4. PICK p, h, m : p = loc[w].path /\ h = loc[w].hist /\ m = loc[w].i
  OBVIOUS
<1>5. ASSUME pc[w] \in Moving, loc'[w] = loc[w], pc'[w] \in {"copy", "copied"} => Fits(p, h, m - 1)'
      PROVE  StraightIs(w)'
  <2>1. StraightPath(p, h, m)'
    BY <1>3, <1>4, <1>5, StraightStays DEF StraightIs
  <2>2. loc'[w].path = p /\ loc'[w].hist = h /\ loc'[w].i = m
    BY <1>4, <1>5
  <2> QED BY <1>5, <2>1, <2>2 DEF StraightIs, StraightPath, Fits
<1>6. CASE w # t
  <2>1. pc'[w] = pc[w] /\ loc'[w] = loc[w]
    BY <1>6, OthersSame
  <2>2. ASSUME pc'[w] \in {"copy", "copied"} PROVE Fits(p, h, m - 1)'
    <3>1. Fits(p, h, m - 1)
      BY <1>2, <1>3, <1>4, <2>1, <2>2 DEF StraightIs
    <3>2. From(w) \in Slots /\ From(w) \in Held(w) /\ From(w) = p[m - 1]
      BY <1>2, <1>4, <2>1, <2>2, MoveSlots, HeldIs DEF Locked2, From
    <3>3. key_versions'[From(w)] = key_versions[From(w)]
      BY <1>6, <3>2, HeldVersion
    <3> QED BY <3>1, <3>2, <3>3 DEF Fits
  <2> QED BY <1>2, <1>5, <2>1, <2>2
<1>7. CASE w = t
  <2>1. CASE Search(t)
    <3>1. pc'[t] = "move"
      BY <1>2, <1>7, <2>1, SearchGoes DEF Moving
    <3> QED BY <1>7, <2>1, <3>1, StraightSearch
  <2>2. CASE LockLower(t)
    BY <1>1, <1>5, <1>7, <2>2 DEF LockLower, Goto, Moving
  <2>3. CASE LockHigher(t)
    <3>1. pc[t] \in Moving /\ loc' = loc /\ Unchanged(t, m - 1)
      BY <1>4, <1>7, <2>3 DEF LockHigher, Moving
    <3>2. From(t) # To(t) /\ From(t) \in Slots /\ From(t) = p[m - 1]
      BY <1>4, <1>7, <3>1, MoveSlots DEF From
    <3>3. key_versions'[From(t)] = key_versions[From(t)]
      BY <1>1, <2>3, <3>2 DEF LockHigher, Count, Typed
    <3>4. Fits(p, h, m - 1)'
      BY <1>4, <1>7, <3>1, <3>2, <3>3 DEF Fits, Unchanged
    <3> QED BY <1>5, <1>7, <3>1, <3>4
  <2>4. CASE Copy(t)
    <3>1. pc[t] \in Moving /\ pc[t] = "copy" /\ loc' = loc /\ key_versions' = key_versions
      BY <2>4 DEF Copy, Moving
    <3>2. Fits(p, h, m - 1)'
      BY <1>3, <1>4, <1>7, <3>1 DEF StraightIs, Fits
    <3> QED BY <1>5, <1>7, <3>1, <3>2
  <2>5. CASE Copied(t)
    <3>1. pc[t] \in Moving /\ pc[t] = "copied" /\ loc' = [loc EXCEPT ![t].i = @ - 1]
      BY <2>5 DEF Copied, Moving
    <3>2. loc'[t].path = p /\ loc'[t].hist = h /\ loc'[t].i = m - 1
      BY <1>1, <1>4, <1>7, <3>1 DEF Locals
    <3>3. PICK l : l = m - 1
      OBVIOUS
    <3>4. Fits(p, h, l) /\ StraightPath(p, h, m)
      BY <1>3, <1>4, <1>7, <3>1, <3>3 DEF StraightIs
    <3>5. StraightPath(p, h, l)'
      BY <1>4, <1>7, <3>1, <3>2, <3>3, <3>4, StraightStays
    <3>6. StraightPath(loc[t].path, loc[t].hist, loc[t].i)'
      BY <3>2, <3>3, <3>5 DEF StraightPath, Fits
    <3>7. pc'[t] \in {"move", "take"}
      BY <1>1, <2>5 DEF Copied, Goto
    <3> QED BY <1>7, <3>6, <3>7 DEF StraightIs
  <2> QED BY <1>2, <1>7, <2>1, <2>2, <2>3, <2>4, <2>5, OnPathEntry
<1> QED BY <1>6, <1>7

LEMMA LeavesNext ==
    ASSUME Inductive, Leaves, NEW t \in Threads, Step(t), Straight(t)
    PROVE  Leaves'
<1>1. SUFFICES ASSUME NEW w \in Threads, NEW s \in Slots, Dooms(w, s)', table'[s] # NULL PROVE Home(s)'
  BY DEF Leaves
<1>2. table'[s] = table[s]
  <2>1. SUFFICES ASSUME table'[s] # table[s] PROVE FALSE
    OBVIOUS
  <2>2. s \in Writing(t) /\ ~Dooms(t, s)'
    BY <2>1, Changed
  <2>3. w # t /\ Dooms(w, s)
    BY <1>1, <2>2, DoomsOther
  <2> QED BY <2>2, <2>3, WritingIsSafe
<1>3. Dooms(w, s) \/ (Copy(t) /\ s = From(t))
  BY <1>1, <1>2, DoomsOther, DoomsSelf
<1>4. CASE Dooms(w, s)
  BY <1>1, <1>2, <1>4, HomeSame DEF Leaves
<1>5. CASE Copy(t) /\ s = From(t)
  <2>1. Up(From(t), To(t))
    BY <1>5, MoveGoes DEF Copy
  <2> QED BY <1>2, <1>5, <2>1, HomeSame DEF Up
<1> QED BY <1>3, <1>4, <1>5

LEMMA OnceNext ==
    ASSUME Inductive, Once, NEW t \in Threads, Step(t), Straight(t), Fresh(t)
    PROVE  Once'
<1>1. SUFFICES ASSUME NEW s \in Slots, NEW r \in Slots, Home(s)', Home(r)', table'[s] = table'[r], s # r,
                      table'[r] = table[r] \/ table'[s] = table[s]
               PROVE  FALSE
  <2>1. ASSUME NEW s \in Slots, NEW r \in Slots, s # r PROVE table'[r] = table[r] \/ table'[s] = table[s]
    BY <2>1, Changed DEF Store, Copy
  <2> QED BY <1>1, <2>1 DEF Once
<1>2. ASSUME NEW a \in Slots, NEW b \in Slots, Home(a)', Home(b)', table'[a] = table'[b], a # b, table'[b] = table[b]
      PROVE  FALSE
  <2>1. CASE table'[a] = table[a]
    BY <1>2, <2>1, HomeSame DEF Once
  <2>2. CASE Store(t) /\ table'[a] = NewNode(t)
    <3>1. table[b] # NULL /\ table[b] = NewNode(t) /\ pc[t] = "store"
      BY <1>2, <2>2 DEF Home, Store
    <3> QED BY <3>1 DEF Fresh, NewNode
  <2>3. CASE Copy(t) /\ a = To(t) /\ table'[a] = table[From(t)]
    <3>1. Up(From(t), To(t))
      BY <2>3, MoveGoes DEF Copy
    <3>2. a[1] = h2(table'[a].key)
      BY <2>3, <3>1 DEF Up
    <3> QED BY <1>2, <3>2 DEF Home, h2
  <2> QED BY <2>1, <2>2, <2>3, Changed
<1> QED BY <1>1, <1>2

\* A thread's calls become fewer, and their number is the node's until it is stored.
LEMMA FreshNext ==
    ASSUME Inductive, NEW t \in Threads, Step(t), NEW w \in Threads, Fresh(w)
    PROVE  Fresh(w)'
<1>1. Typed /\ InCall(t) /\ pc \in [Threads -> PCs] /\ todo \in [Threads -> Seq(Calls)]
  BY DEF Inductive, Typed
<1>2. SUFFICES ASSUME NEW s \in Slots, NEW x, x = table'[s], x # NULL, x.by = w
               PROVE  x.no >= Len(todo'[w]) /\ (x.no = Len(todo'[w]) => pc'[w] = "stored")
  <2>1. ASSUME NEW s \in Slots, table'[s] # NULL, table'[s].by = w
        PROVE  table'[s].no >= Len(todo'[w]) /\ (table'[s].no = Len(todo'[w]) => pc'[w] = "stored")
    BY <1>2, <2>1, Zenon
  <2> QED BY <2>1 DEF Fresh
<1>3. x.no \in Nat
  <2>1. x \in Nodes
    BY <1>2, TypedNext DEF Typed
  <2> QED BY <2>1 DEF Nodes
<1>4. ASSUME UNCHANGED todo, pc[w] = "stored" => pc'[w] = "stored", NEW r \in Slots, x = table[r]
      PROVE  x.no >= Len(todo'[w]) /\ (x.no = Len(todo'[w]) => pc'[w] = "stored")
  BY <1>2, <1>4 DEF Fresh
<1>5. pc[t] = "stored" => Stored(t)
  BY GetSteps, PutSteps, BeginSteps DEF Step
<1>6. CASE w # t
  <2>1. todo'[w] = todo[w] /\ pc'[w] = pc[w]
    BY <1>6, OthersSame
  <2>2. ~(x = NewNode(t))
    BY <1>2, <1>6 DEF NewNode
  <2>3. PICK r \in Slots : x = table[r]
    BY <1>2, <2>2, NodeWas
  <2> QED BY <1>2, <2>1, <2>3 DEF Fresh
<1>7. CASE w = t
  <2>1. CASE Store(t) /\ x = NewNode(t)
    <3>1. todo' = todo /\ pc'[t] = "stored"
      BY <1>1, <2>1 DEF Store, Goto
    <3>2. x.no = Len(todo[t]) /\ Len(todo[t]) \in Nat
      BY <1>1, <2>1 DEF NewNode
    <3> QED BY <1>7, <3>1, <3>2
  <2>2. CASE ~(Store(t) /\ x = NewNode(t))
    <3>1. PICK r \in Slots : x = table[r]
      BY <1>2, <2>2, NodeWas
    <3>2. x.no >= Len(todo[t]) /\ (x.no = Len(todo[t]) => pc[t] = "stored") /\ Len(todo[t]) \in Nat
      BY <1>1, <1>2, <1>7, <3>1 DEF Fresh
    <3>3. CASE todo[t] # <<>> /\ todo' = [todo EXCEPT ![t] = Tail(@)]
      <4>1. todo'[t] = Tail(todo[t]) /\ todo[t] \in Seq(Calls)
        BY <1>1, <3>3
      <4>2. Len(todo'[t]) = Len(todo[t]) - 1
        <5>1. \A c \in Seq(Calls) : c # <<>> => Len(Tail(c)) = Len(c) - 1
          OBVIOUS
        <5> QED BY <3>3, <4>1, <5>1
      <4>3. PICK n, l, m : n = x.no /\ l = Len(todo[t]) /\ m = Len(todo'[t])
        OBVIOUS
      <4>4. n \in Nat /\ l \in Nat /\ n >= l /\ m = l - 1
        BY <1>3, <3>2, <4>2, <4>3
      <4>5. n >= m /\ n # m
        BY <4>4
      <4> QED BY <1>7, <4>3, <4>5
    <3>4. CASE UNCHANGED todo /\ ~Stored(t)
      BY <1>4, <1>5, <1>7, <3>1, <3>4
    <3>5. Stored(t) => todo[t] # <<>> /\ todo' = [todo EXCEPT ![t] = Tail(@)]
      BY <1>1 DEF Stored, Return, InCall, Putting
    <3>6. UNCHANGED todo \/ (todo[t] # <<>> /\ todo' = [todo EXCEPT ![t] = Tail(@)])
      <4>1. CASE BeginGet(t) \/ BeginPut(t)
        BY <4>1 DEF BeginGet, BeginPut
      <4>2. CASE get(t) \/ put(t)
        <5>1. pc[t] \in Getting \cup Putting
          BY <4>2, GetSteps, PutSteps DEF Getting, Putting, Moving
        <5>2. todo[t] # <<>>
          BY <1>1, <5>1 DEF InCall
        <5> QED BY <5>2, StepGoes
      <4> QED BY <4>1, <4>2 DEF Step
    <3> QED BY <3>3, <3>4, <3>5, <3>6
  <2> QED BY <2>1, <2>2
<1> QED BY <1>6, <1>7

LEMMA UpwardInit == Init => Upward /\ \A t \in Threads : Fresh(t) /\ Holds(t)
<1> SUFFICES ASSUME Init PROVE Upward /\ \A t \in Threads : Fresh(t) /\ Holds(t)
  OBVIOUS
<1>1. \A s \in Slots : table[s] = NULL
  BY DEF Init
<1>2. \A t \in Threads : pc[t] = "idle" /\ may[t] = {}
  BY DEF Init
<1>3. Packed /\ Leaves /\ Once
  BY <1>1 DEF Packed, Leaves, Once, Home
<1>4. \A t \in Threads : Tight(t) /\ Queues(t) /\ Covers(t) /\ Straight(t) /\ Fresh(t) /\ Holds(t)
  BY <1>1, <1>2 DEF Tight, Queues, Covers, Straight, Fresh, Holds, Moving, Putting, Getting
<1> QED BY <1>3, <1>4 DEF Upward

LEMMA UpwardNext ==
    ASSUME Inductive, Upward, \A w \in Threads : Fresh(w), NEW t \in Threads, Step(t)
    PROVE  Upward' /\ \A w \in Threads : Fresh(w)'
<1>1. /\ Packed /\ Leaves /\ Once
      /\ \A w \in Threads : Tight(w) /\ Queues(w) /\ Covers(w) /\ Straight(w)
  BY DEF Upward
<1>2. Packed'
  BY <1>1, PackedNext
<1>3. Leaves'
  BY <1>1, LeavesNext
<1>4. Once'
  BY <1>1, OnceNext
<1>5. ASSUME NEW w \in Threads PROVE Tight(w)' /\ Queues(w)' /\ Covers(w)' /\ Straight(w)' /\ Fresh(w)'
  BY <1>1, TightNext, QueuesNext, CoversNext, StraightNext, FreshNext
<1> QED BY <1>2, <1>3, <1>4, <1>5 DEF Upward
-----------------------------------------------------------------------------
(* Calls, and what their gets may answer.                                   *)

LEMMA NodeInStays ==
    ASSUME Inductive, NEW t \in Threads, Step(t), NEW x, x # NULL, NodeIn(x)
    PROVE  NodeIn(x)'
<1>1. PICK s \in Slots : table[s] = x
  BY DEF NodeIn
<1>2. \E r \in Slots : table'[r] = table[s]
  <2>1. CASE Copy(t) /\ table[s] = table[From(t)]
    <3>1. To(t) \in Slots
      BY <2>1, MoveSlots DEF Copy, Moving
    <3>2. table'[To(t)] = table[s]
      BY <2>1, <3>1 DEF Copy, Inductive, Typed
    <3> QED BY <3>1, <3>2
  <2>2. CASE ~(Copy(t) /\ table[s] = table[From(t)])
    <3>1. PICK r \in Slots : table[r] = table[s] /\ Safe(r)
      BY <1>1 DEF Inductive, Kept
    <3> QED BY <1>1, <2>2, <3>1, SafeStays
  <2> QED BY <2>1, <2>2
<1> QED BY <1>1, <1>2 DEF NodeIn

\* A thread that gets is in a call of get, and one that puts in one of put.
LEMMA Gets ==
    ASSUME Inductive, NEW w \in Threads
    PROVE  /\ pc[w] = "idle" \/ pc[w] \in Getting \/ pc[w] \in Putting
           /\ pc[w] \in Getting => Running(w) /\ Call(w) = Get(Key(w)) /\ Key(w) \in Keys /\ pc[w] \notin Putting
           /\ pc[w] \in Putting => /\ Running(w) /\ Call(w) = Put(Key(w), Call(w).val) /\ Call(w).val \in Vals
                                   /\ Key(w) \in Keys /\ Call(w).op = "put" /\ \A k : Call(w) # Get(k)
<1>1. Typed /\ InCall(w) /\ pc[w] \in PCs
  BY DEF Inductive, Typed
<1>2. pc[w] = "idle" \/ pc[w] \in Getting \/ pc[w] \in Putting
  BY <1>1 DEF PCs, Getting, Putting, Moving
<1>3. pc[w] \in Getting \cup Putting => Call(w) \in Calls /\ Key(w) \in Keys /\ todo[w] # <<>> /\ Running(w)
  BY <1>1, CallTyped DEF InCall, Running, Getting, Putting, Moving
<1>4. pc[w] \in Getting => Call(w) = Get(Key(w)) /\ pc[w] \notin Putting
  BY <1>1, <1>3 DEF InCall, Calls, Get, Put, Key, Getting, Putting, Moving
<1>5. pc[w] \in Putting => /\ Call(w) = Put(Key(w), Call(w).val) /\ Call(w).val \in Vals
                           /\ Call(w).op = "put" /\ \A k : Call(w) # Get(k)
  BY <1>1, <1>3 DEF InCall, Calls, Get, Put, Key
<1> QED BY <1>2, <1>3, <1>4, <1>5

LEMMA PuttersAre ==
    ASSUME Inductive, NEW k
    PROVE  Putters(k) = {u \in Threads : pc[u] \in Putting /\ Key(u) = k}
<1>1. ASSUME NEW u \in Threads
      PROVE  (Running(u) /\ Call(u).op = "put") <=> pc[u] \in Putting
  <2>1. CASE pc[u] = "idle"
    BY <2>1 DEF Running, Putting, Moving
  <2>2. CASE pc[u] \in Getting
    BY <2>2, Gets DEF Get
  <2>3. CASE pc[u] \in Putting
    BY <2>3, Gets
  <2> QED BY <2>1, <2>2, <2>3, Gets
<1> QED BY <1>1 DEF Putters

\* How what gets may answer changes.
LEMMA MaySteps ==
    ASSUME Inductive, NEW t \in Threads, Step(t)
    PROVE  \/ BeginGet(t) /\ may' = [may EXCEPT ![t] = {Shown(Key(t))} \cup {x \in {NULL} : Putters(Key(t)) # {}}]
           \/ BeginPut(t) /\ may' = MayAnswer(Key(t), NULL)
           \/ (SetVal(t) \/ Store(t)) /\ may' = MayAnswer(Key(t), Call(t).val)
           \/ /\ ~BeginGet(t) /\ ~BeginPut(t) /\ ~SetVal(t) /\ ~Store(t)
              /\ pc'[t] # "idle" /\ may' = may
           \/ /\ ~BeginGet(t) /\ ~BeginPut(t) /\ ~SetVal(t) /\ ~Store(t)
              /\ pc'[t] = "idle" /\ may' = [may EXCEPT ![t] = {}]
<1>1. Typed /\ pc \in [Threads -> PCs] /\ may \in [Threads -> SUBSET (Vals \cup {NULL})]
  BY DEF Inductive, Typed
<1> DEFINE Same == pc'[t] # "idle" /\ may' = may
           Ends == pc'[t] = "idle" /\ may' = [may EXCEPT ![t] = {}]
<1>2. NextSlot(t) => Same \/ Ends
  BY <1>1, NextSlotGoes
<1>3. Fail(t) => Same \/ Ends
  BY <1>1, FailGoes
<1>4. \A x : Return(t, x) => Ends
  BY <1>1 DEF Return, Goto
<1>5. CASE BeginGet(t) \/ BeginPut(t)
  BY <1>5 DEF BeginGet, BeginPut
<1>6. ~BeginGet(t) /\ ~BeginPut(t) => pc[t] # "idle"
  BY GetSteps, PutSteps DEF Step
<1>7. CASE ~BeginGet(t) /\ ~BeginPut(t) /\ (GetNode(t) \/ GetCheck(t))
  <2>1. ~SetVal(t) /\ ~Store(t)
    BY <1>7 DEF GetNode, GetCheck, SetVal, Store
  <2>2. Same \/ Ends
    <3>1. CASE GetNode(t) /\ Matches(table[At(t)], Key(t))
      BY <1>1, <3>1 DEF GetNode, Goto
    <3>2. CASE GetNode(t) /\ ~Matches(table[At(t)], Key(t))
      BY <1>2, <3>2 DEF GetNode
    <3>3. CASE GetCheck(t)
      BY <1>2, <1>4, <3>3 DEF GetCheck
    <3> QED BY <1>7, <3>1, <3>2, <3>3
  <2> QED BY <1>7, <2>1, <2>2
<1>8. CASE ~BeginGet(t) /\ ~BeginPut(t) /\ (NoPath(t) \/ MoveFails(t) \/ TakeFails(t))
  <2>1. ~SetVal(t) /\ ~Store(t)
    BY <1>8 DEF NoPath, MoveFails, TakeFails, SetVal, Store
  <2> QED BY <1>3, <1>8, <2>1 DEF NoPath, MoveFails, TakeFails
<1>9. CASE ~BeginGet(t) /\ ~BeginPut(t) /\ Stored(t)
  <2>1. ~SetVal(t) /\ ~Store(t)
    BY <1>9 DEF Stored, SetVal, Store
  <2> QED BY <1>4, <1>9, <2>1 DEF Stored
<1>10. CASE SetVal(t) \/ Store(t)
  BY <1>10 DEF SetVal, Store
<1>11. CASE ~BeginGet(t) /\ ~BeginPut(t) /\
            (GetVersion(t) \/ GetVal(t) \/ PutScan(t) \/ Fill(t) \/ Update(t) \/ Search(t) \/ LockLower(t)
             \/ LockHigher(t) \/ Copy(t) \/ Copied(t) \/ Take(t))
  <2>1. ~SetVal(t) /\ ~Store(t) /\ may' = may
    BY <1>11 DEF GetVersion, GetVal, PutScan, Fill, Update, Search, LockLower, LockHigher, Copy, Copied, Take,
       SetVal, Store, hist
  <2>2. pc'[t] # "idle"
    <3>1. pc[t] \in {"put", "fill"} => Key(t) \in Keys
      BY Gets DEF Putting
    <3>2. ScanOn(t) /\ pc[t] \in {"put", "fill"} => pc'[t] # "idle"
      BY <1>1, <3>1, ScanOnGoes
    <3>3. Search(t) => pc'[t] # "idle"
      BY SearchGoes
    <3> QED BY <1>1, <1>11, <3>2, <3>3 DEF GetVersion, GetVal, PutScan, Fill, Update, LockLower, LockHigher, Copy,
       Copied, Take, Goto
  <2> QED BY <1>11, <2>1, <2>2
<1> QED BY <1>5, <1>7, <1>8, <1>9, <1>10, <1>11 DEF Step, get, put

LEMMA MayStep ==
    ASSUME Inductive, NEW t \in Threads, Step(t), NEW w \in Threads
    PROVE  /\ pc[w] \in Getting /\ pc'[w] \in Getting => may[w] \subseteq may'[w] /\ Key(w)' = Key(w)
           /\ pc[w] \in Getting /\ BeginPut(t) /\ Key(t) = Key(w) => NULL \in may'[w]
           /\ pc[w] \in Getting /\ (SetVal(t) \/ Store(t)) /\ Key(t) = Key(w) => Call(t).val \in may'[w]
           /\ pc'[w] \notin Getting /\ pc[w] \notin Getting /\ may[w] = {} => may'[w] = {}
           /\ pc'[w] \notin Getting /\ pc[w] \in Getting => may'[w] = {}
<1>1. may \in [Threads -> SUBSET (Vals \cup {NULL})] /\ pc \in [Threads -> PCs]
  BY DEF Inductive, Typed
<1>2. pc[w] \in Getting => Running(w) /\ Call(w) = Get(Key(w))
  BY Gets
<1>3. pc[w] \notin Getting => ~(Running(w) /\ \E k : Call(w) = Get(k))
  BY Gets DEF Running
<1>4. w # t => pc'[w] = pc[w] /\ Key(w)' = Key(w)
  BY OthersSame
<1>5. w = t /\ pc[w] \in Getting => get(t)
  BY BeginSteps, PutSteps DEF Step, Getting
<1>6. w = t /\ pc[w] \in Getting => ~BeginGet(t) /\ ~BeginPut(t) /\ ~SetVal(t) /\ ~Store(t)
  BY <1>5 DEF BeginGet, BeginPut, Begin, Running, SetVal, Store, Getting
<1>7. w = t /\ pc[w] \in Getting /\ pc'[w] \in Getting => Key(w)' = Key(w)
  BY CallStays DEF Getting
<1>8. ASSUME NEW k, NEW x, may' = MayAnswer(k, x)
      PROVE  /\ may'[w] = IF Running(w) /\ Call(w) = Get(k) THEN may[w] \cup {x} ELSE may[w]
  BY <1>8 DEF MayAnswer
<1>9. CASE BeginGet(t)
  <2>1. pc[t] = "idle" /\ pc'[t] = "get"
    BY <1>9, BeginSteps
  <2>2. w # t => may'[w] = may[w]
    BY <1>1, <1>9 DEF BeginGet
  <2> QED BY <1>4, <1>9, <2>1, <2>2 DEF Getting, SetVal, Store, BeginPut, BeginGet
<1>10. CASE BeginPut(t) /\ may' = MayAnswer(Key(t), NULL)
  <2>1. pc[t] = "idle" /\ pc'[t] = "put" /\ ~SetVal(t) /\ ~Store(t)
    BY <1>10, BeginSteps DEF SetVal, Store
  <2> QED BY <1>2, <1>3, <1>4, <1>8, <1>10, <2>1 DEF Getting
<1>11. CASE (SetVal(t) \/ Store(t)) /\ may' = MayAnswer(Key(t), Call(t).val)
  <2>1. ~BeginPut(t) /\ pc[t] \notin Getting /\ pc'[t] \notin Getting
    BY <1>1, <1>11 DEF SetVal, Store, BeginPut, Begin, Running, Goto, Getting
  <2> QED BY <1>2, <1>3, <1>4, <1>8, <1>11, <2>1
<1>12. CASE /\ ~BeginGet(t) /\ ~BeginPut(t) /\ ~SetVal(t) /\ ~Store(t)
            /\ pc'[t] # "idle" /\ may' = may
  <2>1. w = t /\ pc[w] \in Getting => pc'[w] \in Getting
    BY <1>5, <1>12, GetSteps DEF Getting
  <2> QED BY <1>4, <1>7, <1>12, <2>1
<1>13. CASE /\ ~BeginGet(t) /\ ~BeginPut(t) /\ ~SetVal(t) /\ ~Store(t)
            /\ pc'[t] = "idle" /\ may' = [may EXCEPT ![t] = {}]
  BY <1>1, <1>4, <1>13 DEF Getting
<1> QED BY <1>9, <1>10, <1>11, <1>12, <1>13, MaySteps

\* Who changes the values of nodes.
LEMMA ValueStays ==
    ASSUME Inductive, NEW t \in Threads, Step(t)
    PROVE  /\ BeginPut(t) \/ SetVal(t) \/ UNCHANGED val
           /\ \A x \in DOMAIN val :
                (BeginPut(t) => x # NewNode(t)) /\ (SetVal(t) => x # loc[t].node) => val'[x] = val[x]
           /\ BeginPut(t) => val'[NewNode(t)] = Call(t).val
           /\ SetVal(t) => loc[t].node \in DOMAIN val /\ val'[loc[t].node] = Call(t).val
<1>1. BeginPut(t) \/ SetVal(t) \/ UNCHANGED val
  BY DEF Step, get, put, BeginGet, GetNode, GetVersion, GetVal, GetCheck, PutScan, Fill, Update, Store, Stored, NoPath,
     Search, LockLower, LockHigher, MoveFails, Copy, Copied, Take, TakeFails, shared
<1>2. CASE BeginPut(t)
  <2>1. val' = [x \in DOMAIN val \cup {NewNode(t)} |-> IF x = NewNode(t) THEN Call(t).val ELSE val[x]]
    BY <1>2 DEF BeginPut
  <2>2. ~SetVal(t)
    BY <1>2 DEF BeginPut, Begin, Running, SetVal
  <2> QED BY <1>2, <2>1, <2>2
<1>3. CASE SetVal(t)
  <2>1. val' = [val EXCEPT ![loc[t].node] = Call(t).val]
    BY <1>3 DEF SetVal
  <2>2. ~BeginPut(t) /\ pc[t] = "setVal"
    BY <1>3 DEF BeginPut, Begin, Running, SetVal
  <2>3. loc[t].node \in DOMAIN val /\ val \in [DOMAIN val -> Vals]
    BY <2>2 DEF Inductive, Typed, InCall
  <2> QED BY <1>3, <2>1, <2>2, <2>3
<1>4. CASE ~BeginPut(t) /\ ~SetVal(t)
  BY <1>1, <1>4
<1> QED BY <1>1, <1>2, <1>3, <1>4

LEMMA PuttersStep ==
    ASSUME Inductive, NEW t \in Threads, Step(t), NEW k
    PROVE  /\ Putters(k)' \subseteq Threads
           /\ \A u \in Putters(k)' : u \in Putters(k) \/ (u = t /\ BeginPut(t) /\ Key(t) = k)
<1> SUFFICES ASSUME NEW u \in Putters(k)'
             PROVE  u \in Threads /\ (u \in Putters(k) \/ (u = t /\ BeginPut(t) /\ Key(t) = k))
  OBVIOUS
<1>1. u \in Threads /\ Running(u)' /\ Call(u)'.op = "put" /\ Key(u)' = k
  BY DEF Putters
<1>2. CASE u # t
  <2>1. Running(u) /\ Call(u).op = "put" /\ Key(u) = k
    BY <1>1, <1>2, OthersSame DEF Running
  <2> QED BY <1>1, <2>1 DEF Putters
<1>3. CASE u = t
  <2>1. pc'[t] # "idle"
    BY <1>1, <1>3 DEF Running
  <2>2. Call(t).op = "put" /\ Key(t) = k
    BY <1>1, <1>3, <2>1, CallStays
  <2>3. CASE Running(t)
    BY <1>1, <1>3, <2>2, <2>3 DEF Putters
  <2>4. CASE ~Running(t)
    <3>1. pc[t] = "idle"
      BY <2>4 DEF Running
    <3>2. BeginGet(t) \/ BeginPut(t)
      BY <3>1, GetSteps, PutSteps DEF Step
    <3>3. ~BeginGet(t)
      BY <2>2 DEF BeginGet
    <3> QED BY <1>1, <1>3, <2>2, <3>2, <3>3
  <2> QED BY <2>3, <2>4
<1> QED BY <1>2, <1>3

\* The value to be put stays that of t's node until the node is in the table.
LEMMA NodeHolds ==
    ASSUME Inductive, NEW t \in Threads, Step(t), NEW w \in Threads, \A u \in Threads : Fresh(u) /\ Holds(u),
           pc'[w] \in Putting \ {"stored"}
    PROVE  val'[NewNode(w)'] = Call(w)'.val
<1>1. CASE w = t
  <2>1. Call(t)' = Call(t) /\ NewNode(t)' = NewNode(t)
    BY <1>1, CallStays DEF Putting, Moving
  <2>2. val'[NewNode(t)] = Call(t).val
    <3>1. CASE BeginPut(t)
      BY <3>1, ValueStays
    <3>2. CASE ~BeginPut(t)
      <4>1. pc'[t] \in Putting /\ pc'[t] # "stored"
        BY <1>1
      <4>2. ~SetVal(t) /\ pc[t] \in Putting /\ pc[t] # "stored"
        <5>1. ~BeginGet(t)
          BY <4>1, BeginSteps DEF Putting, Moving
        <5>2. ~get(t)
          BY <4>1, GetSteps DEF Putting, Moving
        <5>3. put(t)
          BY <3>2, <5>1, <5>2 DEF Step
        <5>4. pc'[t] # "idle"
          BY <4>1 DEF Putting, Moving
        <5> QED BY <4>1, <5>3, <5>4, PutSteps DEF Putting, Moving, SetVal
      <4>3. val[NewNode(t)] = Call(t).val
        BY <4>2 DEF Holds
      <4>4. UNCHANGED val
        BY <3>2, <4>2, ValueStays
      <4> QED BY <4>3, <4>4
    <3> QED BY <3>1, <3>2
  <2>3. val'[NewNode(t)'] = Call(t)'.val
    BY <2>1, <2>2
  <2> QED BY <1>1, <2>3
<1>2. CASE w # t
  <2>1. pc'[w] = pc[w] /\ Call(w)' = Call(w) /\ NewNode(w)' = NewNode(w)
    BY <1>2, OthersSame
  <2>2. NewNode(w) \in DOMAIN val /\ val[NewNode(w)] = Call(w).val
    BY <2>1 DEF Inductive, InCall, Holds
  <2>3. BeginPut(t) => NewNode(w) # NewNode(t)
    BY <1>2 DEF NewNode
  <2>4. SetVal(t) => NewNode(w) # loc[t].node
    <3> SUFFICES ASSUME SetVal(t), NewNode(w) = loc[t].node PROVE FALSE
      OBVIOUS
    <3>1. NodeIn(loc[t].node)
      <4>1. pc[t] = "setVal"
        BY DEF SetVal
      <4> QED BY <4>1 DEF Holds
    <3>2. PICK s \in Slots : table[s] = NewNode(w)
      BY <3>1 DEF NodeIn
    <3>3. NewNode(w).by = w /\ NewNode(w).no = Len(todo[w])
      BY DEF NewNode
    <3>4. table[s] # NULL
      BY <2>2, <3>2, Constants DEF Inductive, Typed
    <3>5. pc[w] = "stored"
      BY <3>2, <3>3, <3>4 DEF Fresh
    <3> QED BY <2>1, <3>5
  <2>5. val'[NewNode(w)] = val[NewNode(w)]
    BY <2>2, <2>3, <2>4, ValueStays
  <2> QED BY <2>1, <2>2, <2>5
<1> QED BY <1>1, <1>2

LEMMA NodeRead ==
    ASSUME Inductive, NEW t \in Threads, Step(t), NEW w \in Threads, Holds(w),
           pc'[w] \in {"getVersion", "getVal", "getCheck", "update", "setVal"}
    PROVE  \E x : /\ loc'[w].node = x /\ x # NULL /\ NodeIn(x)' /\ x.key = Key(w)'
<1>1. PICK x : x = loc'[w].node
  OBVIOUS
<1>2. CASE pc[w] \in {"getVersion", "getVal", "getCheck", "update", "setVal"} /\ loc'[w].node = loc[w].node /\ Key(w)' = Key(w)
  <2>1. NodeIn(x) /\ x # NULL /\ x.key = Key(w)
    BY <1>1, <1>2 DEF Holds
  <2>2. NodeIn(x)'
    BY <2>1, NodeInStays
  <2> QED BY <1>1, <1>2, <2>1, <2>2
<1>3. CASE w # t
  BY <1>2, <1>3, OthersSame
<1>4. CASE w = t /\ (GetVersion(t) \/ GetVal(t) \/ Update(t))
  <2>1. Key(t)' = Key(t)
    BY <1>4, CallStays
  <2>2. pc[t] \in {"getVersion", "getVal", "getCheck", "update", "setVal"}
    BY <1>4 DEF GetVersion, GetVal, Update
  <2>3. loc'[t].node = loc[t].node
    <3>1. loc \in [Threads -> Locals]
      BY DEF Inductive, Typed
    <3>2. loc[t] \in Locals
      BY <3>1
    <3> QED BY <1>4, <3>1, <3>2 DEF GetVersion, GetVal, Update, Locals
  <2> QED BY <1>2, <1>4, <2>1, <2>2, <2>3
<1>5. CASE w = t /\ (GetNode(t) \/ PutScan(t))
  <2>1. Key(t)' = Key(t)
    BY <1>5, CallStays
  <2>2. Matches(table[At(t)], Key(t)) /\ loc'[t].node = table[At(t)] /\ At(t) \in Slots
    <3>1. loc \in [Threads -> Locals] /\ pc \in [Threads -> PCs]
      BY DEF Inductive, Typed
    <3>2. loc[t] \in Locals /\ loc[t].n \in 1 .. 2 * SLOTS_NUM
      BY <3>1, LocTyped DEF Inductive
    <3>3. pc[t] \in {"get", "put"}
      BY <1>5 DEF GetNode, PutScan
    <3>4. Key(t) \in Keys
      BY <3>3, Gets DEF Getting, Putting
    <3>5. At(t) \in Slots
      BY <3>2, <3>4, ScanSlots DEF At
    <3>6. CASE GetNode(t)
      <4>1. Matches(table[At(t)], Key(t))
        BY <1>5, <3>6, StepTo, GetSteps, NextSlotGoes DEF GetNode, Inductive
      <4> QED BY <3>1, <3>2, <3>5, <3>6, <4>1 DEF GetNode, Locals
    <3>7. CASE PutScan(t)
      <4>1. Matches(table[At(t)], Key(t))
        <5>1. put(t) /\ pc[t] = "put"
          BY <3>7 DEF put, PutScan
        <5>2. pc'[t] \in {"put", "search", "fill", "update"}
          BY <5>1, PutSteps
        <5>3. pc'[t] = "update"
          BY <1>5, <5>2
        <5> QED BY <5>3, StepTo
      <4>2. table[At(t)] # NULL /\ loc' = [loc EXCEPT ![t].node = table[At(t)], ![t].slot = At(t)]
        <5>1. table[At(t)] # NULL
          BY <4>1 DEF Matches
        <5>2. ~(table[At(t)] # NULL /\ ~Matches(table[At(t)], Key(t)))
          BY <4>1
        <5> QED BY <3>7, <5>1, <5>2, Zenon DEF PutScan
      <4>3. loc'[t] = [loc[t] EXCEPT !.node = table[At(t)], !.slot = At(t)]
        BY <3>1, <4>2
      <4>4. loc'[t].node = table[At(t)]
        <5>1. loc[t] \in [n : 1 .. 2 * SLOTS_NUM, node : Nodes \cup {NULL}, ver : Nat,
           got : Vals \cup {NULL}, slot : Slots \cup {NULL}, que : Seq(Paths),
           path : Seq(Slots), hist : Seq(Nat), i : Nat, attempt : 0 .. MaxAttempts - 1]
          BY <3>2 DEF Locals
        <5>2. PICK y : y = table[At(t)]
          OBVIOUS
        <5>3. loc'[t] = [loc[t] EXCEPT !.node = y, !.slot = At(t)]
          BY <4>3, <5>2
        <5> QED BY ONLY <5>1, <5>2, <5>3
      <4> QED BY <3>5, <4>1, <4>4
    <3> QED BY <1>5, <3>6, <3>7
  <2>3. PICK s \in Slots : s = At(t)
    BY <2>2
  <2>4. table' = table
    BY <1>5 DEF GetNode, PutScan, shared
  <2>5. x # NULL /\ x.key = Key(t)' /\ table'[s] = x
    BY <1>1, <1>5, <2>1, <2>2, <2>3, <2>4 DEF Matches
  <2> QED BY <1>1, <1>5, <2>5 DEF NodeIn
<1>6. w = t => GetVersion(t) \/ GetVal(t) \/ Update(t) \/ GetNode(t) \/ PutScan(t)
  BY StepTo
<1> QED BY <1>3, <1>4, <1>5, <1>6

LEMMA HoldsNext ==
    ASSUME Inductive, NEW t \in Threads, Step(t), NEW w \in Threads, \A u \in Threads : Fresh(u) /\ Holds(u)
    PROVE  Holds(w)'
<1>1. pc'[w] \in Putting \ {"stored"} => val'[NewNode(w)'] = Call(w)'.val
  BY NodeHolds
<1>2. ASSUME pc'[w] \in {"getVersion", "getVal", "getCheck", "update", "setVal"}
      PROVE  NodeIn(loc[w].node)' /\ loc'[w].node # NULL /\ loc'[w].node.key = Key(w)'
  <2>1. PICK x : /\ loc'[w].node = x /\ x # NULL /\ NodeIn(x)' /\ x.key = Key(w)'
    BY <1>2, NodeRead
  <2> QED BY <2>1 DEF NodeIn
<1>3. pc'[w] \notin Getting => may'[w] = {}
  BY MayStep DEF Holds
<1>4. ASSUME pc'[w] \in Getting, Putters(Key(w))' # {}
      PROVE  NULL \in may'[w]
  <2>1. PICK k : k = Key(w)'
    OBVIOUS
  <2>2. PICK u \in Threads : u \in Putters(k)'
    <3>1. Putters(k)' = Putters(Key(w))'
      BY <2>1 DEF Putters
    <3> QED BY <1>4, <3>1, PuttersStep
  <2>3. CASE pc[w] \in Getting
    <3>1. Key(w) = k /\ may[w] \subseteq may'[w]
      BY <1>4, <2>1, <2>3, MayStep
    <3>2. CASE u \in Putters(k)
      BY <2>3, <3>1, <3>2 DEF Holds
    <3>3. CASE u = t /\ BeginPut(t) /\ Key(t) = k
      BY <2>3, <3>1, <3>3, MayStep
    <3> QED BY <2>2, <3>2, <3>3, PuttersStep
  <2>4. CASE pc[w] \notin Getting
    <3>1. w = t
      BY <1>4, <2>4, OthersSame
    <3>2. BeginGet(t)
      BY <1>4, <2>4, <3>1, GetSteps, PutSteps, BeginSteps DEF Step, Getting
    <3>3. Key(t) = k
      BY <1>4, <2>1, <3>1, CallStays DEF Getting
    <3>4. u \in Putters(k)
      BY <2>2, <3>2, PuttersStep DEF BeginGet, BeginPut
    <3>5. may'[t] = {Shown(Key(t))} \cup {x \in {NULL} : Putters(Key(t)) # {}}
      BY <3>2 DEF BeginGet, Inductive, Typed
    <3> QED BY <3>1, <3>3, <3>4, <3>5
  <2> QED BY <2>3, <2>4
<1> QED BY <1>1, <1>2, <1>3, <1>4 DEF Holds

\* What a get finds is the value of the key's only node.
LEMMA ShownIs ==
    Inductive /\ OneNode =>
        \A k \in Keys : /\ \A s \in Slots : Matches(table[s], k) => Shown(k) = val[table[s]]
                        /\ ~InTable(k) => Shown(k) = NULL
<1> SUFFICES ASSUME Inductive, OneNode, NEW k \in Keys
             PROVE  /\ \A s \in Slots : Matches(table[s], k) => Shown(k) = val[table[s]]
                    /\ ~InTable(k) => Shown(k) = NULL
  OBVIOUS
<1> DEFINE at == {i \in DOMAIN Scan[k] : Matches(table[Scan[k][i]], k)}
<1>1. /\ DOMAIN Scan[k] = 1 .. 2 * SLOTS_NUM /\ at \subseteq Nat
      /\ \A i \in at : Scan[k][i] \in Slots /\ Matches(table[Scan[k][i]], k)
  BY ScanSlots, Constants
<1>2. Shown(k) = IF at = {} THEN NULL ELSE val[table[Scan[k][Min(at)]]]
  BY DEF Shown
<1>3. ASSUME NEW s \in Slots, Matches(table[s], k)
      PROVE  Shown(k) = val[table[s]]
  <2>1. s \in Buckets(k)
    BY <1>3, KeyTyped DEF Matches
  <2>2. at # {}
    BY <1>3, <2>1 DEF Buckets, Range
  <2> HIDE DEF at
  <2>3. Min(at) \in at
    BY <1>1, <2>2, MinIsIn
  <2>4. table[Scan[k][Min(at)]] = table[s]
    BY <1>1, <1>3, <2>3 DEF OneNode, Matches
  <2> QED BY <1>2, <2>2, <2>4
<1>4. ASSUME ~InTable(k) PROVE Shown(k) = NULL
  <2>1. at = {}
    BY <1>1, <1>4 DEF InTable
  <2> QED BY <1>2, <2>1
<1> QED BY <1>3, <1>4

LEMMA ShownIsNext ==
    Inductive' /\ OneNode' =>
        \A k \in Keys : /\ \A s \in Slots : Matches(table'[s], k) => Shown(k)' = val'[table'[s]]
                        /\ ~InTable(k)' => Shown(k)' = NULL
<1>1. (Inductive /\ OneNode =>
        \A k \in Keys : /\ \A s \in Slots : Matches(table[s], k) => Shown(k) = val[table[s]]
                        /\ ~InTable(k) => Shown(k) = NULL)'
  BY ShownIs, PTL
<1> QED BY <1>1

LEMMA FaultsGrow ==
    ASSUME Inductive, NEW t \in Threads, Step(t), faults' = {}
    PROVE  /\ faults = {}
           /\ BeginPut(t) => Putters(Key(t)) = {} \/ InTable(Key(t))
           /\ Update(t) => table[loc[t].slot] = loc[t].node
<1>1. BeginPut(t) \/ Update(t) \/ UNCHANGED faults
  BY DEF Step, get, put, BeginGet, GetNode, GetVersion, GetVal, GetCheck, PutScan, Fill, SetVal, Store, Stored, NoPath,
     Search, LockLower, LockHigher, MoveFails, Copy, Copied, Take, TakeFails, hist
<1>2. BeginPut(t) => faults = {} /\ (Putters(Key(t)) = {} \/ InTable(Key(t)))
  <2> SUFFICES ASSUME BeginPut(t) PROVE faults = {} /\ (Putters(Key(t)) = {} \/ InTable(Key(t)))
    OBVIOUS
  <2>1. faults \cup {f \in {"twins"} : Putters(Key(t)) # {} /\ ~InTable(Key(t))} = {}
    BY DEF BeginPut
  <2>2. "twins" \notin {f \in {"twins"} : Putters(Key(t)) # {} /\ ~InTable(Key(t))}
    BY <2>1
  <2> QED BY <2>1, <2>2
<1>3. Update(t) => faults = {} /\ table[loc[t].slot] = loc[t].node
  <2> SUFFICES ASSUME Update(t) PROVE faults = {} /\ table[loc[t].slot] = loc[t].node
    OBVIOUS
  <2>1. faults \cup {f \in {"stray"} : table[loc[t].slot] # loc[t].node} = {}
    BY DEF Update
  <2>2. "stray" \notin {f \in {"stray"} : table[loc[t].slot] # loc[t].node}
    BY <2>1
  <2> QED BY <2>1, <2>2
<1>4. BeginPut(t) => ~Update(t)
  BY DEF BeginPut, Begin, Running, Update
<1> QED BY <1>1, <1>2, <1>3, <1>4

LEMMA StoredNode ==
    ASSUME Inductive, NEW t \in Threads, Step(t), NEW k, InTable(k)', ~InTable(k)
    PROVE  Store(t) /\ Key(t) = k
<1>1. PICK s \in Slots : table'[s] # NULL /\ table'[s].key = k
  BY DEF InTable, Matches
<1>2. ~\E r \in Slots : table'[s] = table[r]
  BY <1>1 DEF InTable, Matches
<1>3. Store(t) /\ table'[s] = NewNode(t)
  BY <1>1, <1>2, NodeWas
<1>4. NewNode(t).key = Key(t)
  BY DEF NewNode
<1> QED BY <1>1, <1>3, <1>4

LEMMA OneNodeNext ==
    ASSUME Inductive, OneNode, NEW t \in Threads, Step(t), Lone(t)
    PROVE  OneNode'
<1> SUFFICES ASSUME NEW s \in Slots, NEW r \in Slots, table'[s] # NULL, table'[r] # NULL, table'[s].key = table'[r].key
             PROVE  table'[s] = table'[r]
  BY DEF OneNode
<1>1. NewNode(t).key = Key(t)
  BY DEF NewNode
<1>2. Store(t) => ~InTable(Key(t))
  BY DEF Store, Lone
<1>3. ASSUME NEW a \in Slots, NEW b \in Slots, table'[a] # NULL, table'[b] # NULL, table'[a].key = table'[b].key,
             Store(t), table'[a] = NewNode(t)
      PROVE  table'[a] = table'[b]
  <2>1. CASE table'[b] = NewNode(t)
    BY <1>3, <2>1
  <2>2. CASE \E c \in Slots : table'[b] = table[c]
    BY <1>1, <1>2, <1>3, <2>2 DEF InTable, Matches
  <2> QED BY <1>3, <2>1, <2>2, NodeWas
<1>4. CASE \E c, d \in Slots : table'[s] = table[c] /\ table'[r] = table[d]
  BY <1>4 DEF OneNode
<1>5. CASE Store(t) /\ table'[s] = NewNode(t)
  BY <1>3, <1>5
<1>6. CASE Store(t) /\ table'[r] = NewNode(t)
  BY <1>3, <1>6
<1> QED BY <1>4, <1>5, <1>6, NodeWas

LEMMA ShownStep ==
    ASSUME Inductive, Inductive', OneNode, OneNode', NEW t \in Threads, Step(t), Fresh(t), Holds(t), NEW k \in Keys
    PROVE  Shown(k)' = IF (SetVal(t) \/ Store(t)) /\ Key(t) = k THEN Call(t).val ELSE Shown(k)
<1>1. CASE ~InTable(k)'
  <2>1. ~InTable(k)
    BY <1>1, InTableStays
  <2>2. SetVal(t) => InTable(Key(t))
    BY DEF SetVal, Inductive, Present
  <2>3. Store(t) => Key(t) # k
    <3> SUFFICES ASSUME Store(t), Key(t) = k PROVE FALSE
      OBVIOUS
    <3>1. loc[t].slot \in Slots /\ table'[loc[t].slot] = NewNode(t) /\ NewNode(t) # NULL
      <4>1. pc[t] = "store"
        BY DEF Store
      <4>2. NewNode(t) \in DOMAIN val /\ NewNode(t) # NULL
        BY <4>1, Constants DEF Inductive, Typed, InCall, Putting
      <4>3. loc[t].slot \in Buckets(Key(t))
        BY <4>1 DEF Inductive, InCall
      <4>4. loc[t].slot \in Slots
        BY <4>3, ScanSlots
      <4> QED BY <4>2, <4>4 DEF Store, Inductive, Typed
    <3>2. NewNode(t).key = k
      BY DEF NewNode
    <3>3. PICK r \in Slots : r = loc[t].slot
      BY <3>1
    <3> QED BY <1>1, <3>1, <3>2, <3>3 DEF InTable, Matches
  <2> QED BY <1>1, <2>1, <2>2, <2>3, ShownIs, ShownIsNext
<1>2. CASE InTable(k)'
  <2>1. PICK s \in Slots : Matches(table'[s], k)
    BY <1>2 DEF InTable
  <2>2. PICK x : x = table'[s] /\ x # NULL /\ x.key = k
    BY <2>1 DEF Matches
  <2>3. Shown(k)' = val'[x]
    BY <2>1, <2>2, ShownIsNext
  <2>4. CASE Store(t) /\ Key(t) = k
    <3>1. pc[t] = "store" /\ val' = val
      BY <2>4 DEF Store
    <3>2. val[NewNode(t)] = Call(t).val
      BY <3>1 DEF Holds, Putting
    <3>3. loc[t].slot \in Slots /\ NewNode(t) # NULL /\ table'[loc[t].slot] = NewNode(t)
      <4>2. NewNode(t) \in DOMAIN val /\ NewNode(t) # NULL
        BY <3>1, Constants DEF Inductive, Typed, InCall, Putting
      <4>3. loc[t].slot \in Buckets(Key(t))
        BY <3>1 DEF Inductive, InCall
      <4>4. loc[t].slot \in Slots
        BY <2>4, <4>3, ScanSlots
      <4> QED BY <2>4, <4>2, <4>4 DEF Store, Inductive, Typed
    <3>4. PICK r \in Slots : r = loc[t].slot
      BY <3>3
    <3>5. table'[r] = NewNode(t) /\ NewNode(t).key = k
      BY <2>4, <3>3, <3>4 DEF NewNode
    <3>6. x = NewNode(t)
      BY <2>2, <3>3, <3>5 DEF OneNode
    <3> QED BY <2>3, <2>4, <3>1, <3>2, <3>6
  <2>5. CASE SetVal(t) /\ Key(t) = k
    <3>1. pc[t] = "setVal" /\ table' = table
      BY <2>5 DEF SetVal
    <3>2. NodeIn(loc[t].node) /\ loc[t].node # NULL /\ loc[t].node.key = k
      BY <2>5, <3>1 DEF Holds
    <3>3. x = loc[t].node
      BY <2>2, <3>1, <3>2 DEF OneNode, NodeIn
    <3> QED BY <2>3, <2>5, <3>3, ValueStays
  <2>6. CASE ~((SetVal(t) \/ Store(t)) /\ Key(t) = k)
    <3>1. PICK r \in Slots : x = table[r]
      <4>1. NewNode(t).key = Key(t)
        BY DEF NewNode
      <4> QED BY <2>2, <2>6, <4>1, NodeWas
    <3>2. Shown(k) = val[x] /\ x \in DOMAIN val
      BY <2>2, <3>1, ShownIs DEF Matches, Inductive, Typed
    <3>3. BeginPut(t) => x # NewNode(t)
      <4> SUFFICES ASSUME BeginPut(t), x = NewNode(t) PROVE FALSE
        OBVIOUS
      <4>1. x.by = t /\ x.no = Len(todo[t])
        BY DEF NewNode
      <4>2. pc[t] = "stored"
        BY <2>2, <3>1, <4>1 DEF Fresh
      <4> QED BY <4>2, BeginSteps
    <3>4. SetVal(t) => x # loc[t].node
      <4>1. SetVal(t) => loc[t].node.key = Key(t)
        BY DEF SetVal, Holds
      <4> QED BY <2>2, <2>6, <4>1
    <3>5. val'[x] = val[x]
      BY <3>2, <3>3, <3>4, ValueStays
    <3> QED BY <2>3, <2>6, <3>2, <3>5
  <2> QED BY <2>4, <2>5, <2>6
<1> QED BY <1>1, <1>2

LEMMA AloneNext ==
    ASSUME Inductive, Alone, NEW t \in Threads, Step(t), faults' = {}
    PROVE  Alone'
<1>1. ASSUME NEW u \in Threads, NEW w \in Threads, u # w, pc'[u] \in Putting, pc'[w] \in Putting, Key(u)' = Key(w)', w # t
      PROVE  \E k : k = Key(u)' /\ InTable(k)
  <2>1. pc[w] \in Putting /\ Key(w) = Key(w)'
    BY <1>1, OthersSame
  <2>2. CASE u # t
    <3>1. pc[u] \in Putting /\ Key(u) = Key(u)'
      BY <1>1, <2>2, OthersSame
    <3> QED BY <1>1, <2>1, <3>1 DEF Alone
  <2>3. CASE u = t
    <3>1. pc'[t] # "idle"
      BY <1>1, <2>3 DEF Putting, Moving
    <3>2. Key(t)' = Key(t)
      BY <3>1, CallStays
    <3>3. CASE pc[t] \in Putting
      BY <1>1, <2>1, <2>3, <3>2, <3>3 DEF Alone
    <3>4. CASE pc[t] \notin Putting
      <4>1. ~get(t)
        BY <1>1, <2>3, GetSteps DEF Putting, Moving
      <4>2. ~BeginGet(t)
        BY <1>1, <2>3, BeginSteps DEF Putting, Moving
      <4>3. ~put(t)
        BY <3>4, PutSteps DEF Putting, Moving
      <4>4. BeginPut(t)
        BY <4>1, <4>2, <4>3 DEF Step
      <4>5. PICK k : k = Key(t)
        OBVIOUS
      <4>6. w \in Putters(k)
        BY <1>1, <2>1, <2>3, <3>2, <4>5, PuttersAre
      <4>7. InTable(k)
        BY <4>4, <4>5, <4>6, FaultsGrow
      <4> QED BY <2>3, <3>2, <4>5, <4>7
    <3> QED BY <3>3, <3>4
  <2> QED BY <2>2, <2>3
<1>2. ASSUME NEW u \in Threads, NEW w \in Threads, u # w, pc'[u] \in Putting, pc'[w] \in Putting, Key(u)' = Key(w)'
      PROVE  InTable(Key(u))'
  <2>1. PICK k : k = Key(u)' /\ InTable(k)
    BY <1>1, <1>2
  <2>2. InTable(k)'
    BY <2>1, InTableStays
  <2> QED BY <2>1, <2>2 DEF InTable
<1> QED BY <1>2 DEF Alone

\* What is about to be overwritten is also in the second bucket of its key, by
\* now, and a scan that has not passed it has not passed that bucket.
LEMMA Elsewhere ==
    ASSUME Inductive, Leaves, Once, NEW t \in Threads, NEW k \in Keys, NEW s \in Slots, Dooms(t, s), Matches(table[s], k)
    PROVE  /\ s[1] = h1(k) /\ h1(k) # h2(k)
           /\ \E r \in Slots : table[r] = table[s] /\ Safe(r) /\ r[1] = h2(k)
<1>1. table[s] # NULL /\ table[s].key = k /\ Home(s)
  BY DEF Matches, Leaves
<1>2. s[1] = h1(k) /\ h1(k) # h2(k)
  BY <1>1 DEF Home
<1>3. PICK r \in Slots : table[r] = table[s] /\ Safe(r)
  BY <1>1 DEF Inductive, Kept
<1>4. ~Home(r)
  BY <1>1, <1>3 DEF Safe, Once
<1>5. r \in Buckets(k)
  BY <1>1, <1>3, KeyTyped
<1>6. r[1] = h2(k)
  BY <1>1, <1>2, <1>3, <1>4, <1>5, BucketsAre DEF Home
<1> QED BY <1>2, <1>3, <1>6

LEMMA LaterStays ==
    ASSUME Inductive, Leaves, Once, NEW t \in Threads, Step(t), NEW k \in Keys, NEW n \in 1 .. 2 * SLOTS_NUM + 1, Later(k, n)
    PROVE  Later(k, n)'
<1>1. PICK s \in Slots : s \notin Seen(k, n) /\ Matches(table[s], k)
  BY DEF Later
<1>2. \E r \in Slots : r \notin Seen(k, n) /\ Matches(table'[r], k)
  <2>1. CASE table'[s] = table[s]
    BY <1>1, <2>1
  <2>2. CASE table'[s] # table[s]
    <3>1. Dooms(t, s)
      BY <2>2, Changed
    <3>2. s[1] = h1(k) /\ h1(k) # h2(k)
      BY <1>1, <3>1, Elsewhere
    <3>3. PICK r \in Slots : table[r] = table[s] /\ Safe(r) /\ r[1] = h2(k)
      BY <1>1, <3>1, Elsewhere
    <3>4. r \notin Seen(k, n)
      BY <1>1, <3>2, <3>3, SeenAre
    <3>5. table'[r] = table[r]
      BY <3>3, Changed DEF Safe
    <3> QED BY <1>1, <3>3, <3>4, <3>5
  <2> QED BY <2>1, <2>2
<1> QED BY <1>2 DEF Later, Seen

LEMMA FirstSlot ==
    ASSUME NEW k \in Keys
    PROVE  InTable(k) <=> Later(k, 1)
BY SeenAre DEF InTable, Later

LEMMA LastSlot ==
    ASSUME Inductive, NEW k \in Keys
    PROVE  ~Later(k, 2 * SLOTS_NUM + 1)
<1> SUFFICES ASSUME NEW s \in Slots, s \notin Seen(k, 2 * SLOTS_NUM + 1), Matches(table[s], k) PROVE FALSE
  BY DEF Later
<1>1. s \in Buckets(k)
  BY KeyTyped DEF Matches
<1> QED BY <1>1, SeenAre

LEMMA LaterOn ==
    ASSUME NEW k \in Keys, NEW n \in 1 .. 2 * SLOTS_NUM, Later(k, n), ~Matches(table[Scan[k][n]], k)
    PROVE  Later(k, n + 1)
<1>1. PICK s \in Slots : s \notin Seen(k, n) /\ Matches(table[s], k)
  BY DEF Later
<1>2. s \notin Seen(k, n + 1)
  BY <1>1, SeenAre
<1> QED BY <1>1, <1>2 DEF Later

LEMMA FillIsNew ==
    ASSUME Inductive, Packed, NEW k \in Keys, NEW n \in 1 .. 2 * SLOTS_NUM, Later(k, n)
    PROVE  table[Scan[k][n]] # NULL
<1> SUFFICES ASSUME table[Scan[k][n]] = NULL PROVE FALSE
  OBVIOUS
<1>1. ~Matches(table[Scan[k][n]], k)
  BY DEF Matches
<1>2. PICK s \in Slots : s \notin Seen(k, n + 1) /\ Matches(table[s], k)
  BY <1>1, LaterOn DEF Later
<1>3. s \in Buckets(k) /\ FrontFull(s, k)
  BY <1>2, KeyTyped DEF Packed, Matches
<1> QED BY <1>2, <1>3, FrontScan

\* The put that finds its key nowhere.
LEMMA LoneSelf ==
    ASSUME Inductive, Packed, NEW t \in Threads, Step(t), Lone(t),
           pc'[t] \in {"fill", "store", "search", "take"} \cup Moving
    PROVE  ~InTable(Key(t))
<1>1. CASE pc[t] \in {"fill", "store", "search", "take"} \cup Moving
  BY <1>1 DEF Lone
<1>2. CASE PutScan(t)
  <2>1. pc[t] = "put"
    BY <1>2 DEF PutScan
  <2>2. PICK k \in Keys : k = Key(t)
    BY <2>1, Gets DEF Putting
  <2>3. PICK n \in 1 .. 2 * SLOTS_NUM : n = loc[t].n
    BY LocTyped DEF Inductive
  <2>4. At(t) = Scan[k][n]
    BY <2>2, <2>3 DEF At
  <2> SUFFICES ASSUME InTable(k) PROVE FALSE
    BY <2>2
  <2>5. Later(k, n)
    BY <2>1, <2>2, <2>3 DEF Lone
  <2>6. table[Scan[k][n]] # NULL
    BY <2>5, FillIsNew
  <2>7. pc'[t] = "search" /\ ~Matches(table[At(t)], Key(t)) /\ ScanOn(t)
    <3>1. pc'[t] # "fill"
      BY <2>4, <2>6, StepTo
    <3>2. put(t)
      BY <1>2 DEF put
    <3>3. pc'[t] = "search"
      BY <2>1, <3>1, <3>2, PutSteps DEF Moving
    <3>4. pc \in [Threads -> PCs]
      BY DEF Inductive, Typed
    <3>5. CASE Matches(table[At(t)], Key(t))
      <4>1. table[At(t)] # NULL
        BY <2>4, <2>6
      <4>2. Goto(t, "update")
        BY <1>2, <3>5, <4>1, Zenon DEF PutScan
      <4> QED BY <3>3, <3>4, <4>2 DEF Goto
    <3>6. CASE ~Matches(table[At(t)], Key(t))
      <4>1. ScanOn(t)
        BY <1>2, <2>4, <2>6, <3>6, Zenon DEF PutScan
      <4> QED BY <3>3, <3>6, <4>1
    <3> QED BY <3>5, <3>6
  <2>8. n = 2 * SLOTS_NUM
    BY <2>2, <2>3, <2>7, ScanOnGoes DEF Inductive
  <2>9. Later(k, n + 1)
    BY <2>2, <2>4, <2>5, <2>7, LaterOn
  <2> QED BY <2>8, <2>9, LastSlot
<1>3. pc[t] \in {"fill", "store", "search", "take"} \cup Moving \/ PutScan(t)
  <2>1. ~BeginGet(t) /\ ~BeginPut(t) /\ ~get(t)
    BY BeginSteps, GetSteps DEF Moving
  <2>2. put(t)
    BY <2>1 DEF Step
  <2> QED BY <2>2, PutSteps DEF Moving
<1> QED BY <1>1, <1>2, <1>3

LEMMA LonePut ==
    ASSUME Inductive, Leaves, Once, NEW t \in Threads, Step(t), Lone(t), pc'[t] = "put", InTable(Key(t))'
    PROVE  Later(Key(t), loc[t].n)'
<1>1. Key(t)' = Key(t) /\ Key(t) \in Keys
  <2>1. Key(t)' = Key(t) /\ todo[t] # <<>>
    BY CallStays
  <2> QED BY <2>1, CallTyped DEF Inductive
<1>2. PICK k \in Keys : k = Key(t)
  BY <1>1
<1>3. InTable(k)'
  BY <1>1, <1>2 DEF InTable
<1>4. CASE loc'[t].n = 1
  <2>1. PICK s \in Slots : Matches(table'[s], k)
    BY <1>3 DEF InTable
  <2>2. s \notin Seen(k, 1)
    BY SeenAre
  <2> QED BY <1>1, <1>2, <1>4, <2>1, <2>2 DEF Later, Seen
<1>5. CASE (PutScan(t) \/ Fill(t)) /\ ScanOn(t)
  <2>1. table' = table
    BY <1>5 DEF PutScan, Fill, shared
  <2>2. InTable(k)
    BY <1>3, <2>1 DEF InTable
  <2>3. ~Fill(t)
    BY <1>2, <2>2 DEF Fill, Lone
  <2>4. PICK n \in 1 .. 2 * SLOTS_NUM : n = loc[t].n
    BY LocTyped DEF Inductive
  <2>5. loc'[t].n = n + 1
    BY <1>1, <1>5, <2>4, ScanOnGoes DEF Inductive
  <2>6. PutScan(t) /\ pc[t] = "put"
    BY <1>5, <2>3 DEF PutScan
  <2>7. Later(k, n)
    BY <1>2, <2>2, <2>4, <2>6 DEF Lone
  <2>8. ~Matches(table[At(t)], Key(t))
    <3> SUFFICES ASSUME Matches(table[At(t)], Key(t)) PROVE FALSE
      OBVIOUS
    <3>1. Goto(t, IF table[At(t)] = NULL THEN "fill" ELSE "update")
      BY <2>6, Zenon DEF PutScan
    <3>2. pc \in [Threads -> PCs]
      BY DEF Inductive, Typed
    <3> QED BY <3>1, <3>2 DEF Goto
  <2>9. Later(k, n + 1)
    BY <1>2, <2>4, <2>7, <2>8, LaterOn DEF At
  <2>10. PICK s \in Slots : s \notin Seen(k, n + 1) /\ Matches(table[s], k)
    BY <2>9 DEF Later
  <2> QED BY <1>1, <1>2, <2>1, <2>5, <2>10 DEF Later, Seen
<1> QED BY <1>4, <1>5, Rewound

LEMMA LoneNext ==
    ASSUME Inductive, Packed, Leaves, Once, Alone, NEW t \in Threads, Step(t), faults' = {},
           Holds(t), NEW w \in Threads, Lone(w)
    PROVE  Lone(w)'
<1>1. ASSUME w # t PROVE Lone(w)'
  <2>1. PICK k : k = Key(w)
    OBVIOUS
  <2>2. pc'[w] = pc[w] /\ loc'[w] = loc[w] /\ Key(w)' = k
    BY <1>1, <2>1, OthersSame
  <2>3. ASSUME pc[w] \in Putting, InTable(k)' PROVE InTable(k)
    <3> SUFFICES ASSUME ~InTable(k) PROVE FALSE
      OBVIOUS
    <3>1. Store(t) /\ Key(t) = k
      BY <2>3, StoredNode
    <3>2. pc[t] \in Putting
      BY <3>1 DEF Store, Putting
    <3> QED BY <1>1, <2>1, <2>3, <3>1, <3>2 DEF Alone
  <2>4. ASSUME pc[w] = "put", InTable(k)' PROVE Later(k, loc[w].n)'
    <3>1. PICK n \in 1 .. 2 * SLOTS_NUM + 1 : n = loc[w].n
      BY LocTyped, Constants DEF Inductive
    <3>2. Later(k, n)
      BY <2>1, <2>3, <2>4, <3>1 DEF Lone, Putting
    <3>3. k \in Keys
      BY <2>1, <2>4, Gets DEF Putting
    <3>4. Later(k, n)'
      BY <3>2, <3>3, LaterStays
    <3> QED BY <2>2, <3>1, <3>4 DEF Later, Seen
  <2>5. ASSUME pc[w] \in {"fill", "store", "search", "take"} \cup Moving PROVE ~InTable(k)'
    <3>1. pc[w] \in Putting
      BY <2>5 DEF Putting
    <3> QED BY <2>1, <2>3, <2>5, <3>1 DEF Lone
  <2>6. ASSUME pc[w] \in {"setVal", "stored"} PROVE table'[loc[w].slot] = table[loc[w].slot]
    <3>1. loc[w].slot \in Held(w)
      BY <2>6, HeldIs DEF Locked3
    <3>2. loc[w].slot \in Slots
      <4>1. loc[w].slot \in Buckets(Key(w)) /\ Key(w) \in Keys
        BY <2>6, Gets DEF Inductive, InCall, Putting
      <4> QED BY <4>1, ScanSlots
    <3> QED BY <1>1, <3>1, <3>2, HeldStays
  <2>7. pc'[w] = "put" /\ InTable(Key(w))' => Later(Key(w), loc[w].n)'
    BY <2>2, <2>4 DEF InTable, Later, Seen
  <2>8. pc'[w] \in {"fill", "store", "search", "take"} \cup Moving => ~InTable(Key(w))'
    BY <2>2, <2>5 DEF InTable
  <2>9. pc'[w] = "setVal" => table'[loc'[w].slot] = loc'[w].node
    BY <2>2, <2>6 DEF Lone
  <2>10. pc'[w] = "stored" => Matches(table'[loc'[w].slot], Key(w)')
    BY <2>1, <2>2, <2>6 DEF Lone
  <2> QED BY <2>7, <2>8, <2>9, <2>10 DEF Lone
<1>2. Lone(t) => Lone(t)'
  <2> SUFFICES ASSUME Lone(t) PROVE Lone(t)'
    OBVIOUS
  <2>1. pc'[t] = "put" /\ InTable(Key(t))' => Later(Key(t), loc[t].n)'
    BY LonePut
  <2>2. ASSUME pc'[t] \in {"fill", "store", "search", "take"} \cup Moving PROVE ~InTable(Key(t))'
    <3>1. PICK k : k = Key(t)
      OBVIOUS
    <3>2. Key(t)' = k
      BY <2>2, <3>1, CallStays DEF Moving
    <3>3. ~InTable(k)
      BY <2>2, <3>1, LoneSelf
    <3>4. ~Store(t)
      <4>1. pc \in [Threads -> PCs]
        BY DEF Inductive, Typed
      <4> QED BY <2>2, <4>1 DEF Store, Goto, Moving
    <3>5. ~InTable(k)'
      BY <3>3, <3>4, StoredNode
    <3> QED BY <3>2, <3>5 DEF InTable
  <2>3. ASSUME pc'[t] = "setVal" PROVE table'[loc'[t].slot] = loc'[t].node
    <3>1. Update(t)
      BY <2>3, StepTo
    <3> QED BY <3>1, FaultsGrow DEF Update
  <2>4. ASSUME pc'[t] = "stored" PROVE Matches(table'[loc'[t].slot], Key(t)')
    <3>1. Key(t)' = Key(t) /\ loc' = loc
      BY <2>4, StepTo, CallStays DEF SetVal, Store
    <3>2. CASE SetVal(t)
      <4>1. pc[t] = "setVal" /\ table' = table
        BY <3>2 DEF SetVal
      <4> QED BY <3>1, <4>1 DEF Lone, Holds, Matches
    <3>3. CASE Store(t)
      <4>1. pc[t] = "store"
        BY <3>3 DEF Store
      <4>2. NewNode(t) \in DOMAIN val /\ NewNode(t) # NULL /\ NewNode(t).key = Key(t)
        BY <4>1, Constants DEF Inductive, Typed, InCall, Putting, NewNode
      <4>3. loc[t].slot \in Buckets(Key(t)) /\ Key(t) \in Keys
        BY <4>1, Gets DEF Inductive, InCall, Putting
      <4>4. loc[t].slot \in Slots
        BY <4>3, ScanSlots
      <4>5. table'[loc[t].slot] = NewNode(t)
        BY <3>3, <4>4 DEF Store, Inductive, Typed
      <4> QED BY <3>1, <4>2, <4>5 DEF Matches
    <3> QED BY <2>4, <3>2, <3>3, StepTo
  <2> QED BY <2>1, <2>2, <2>3, <2>4 DEF Lone
<1> QED BY <1>1, <1>2

\* A slot stays being written to until its lock is given back.
LEMMA WritingGoes ==
    ASSUME Inductive, NEW t \in Threads, Step(t), NEW s \in Slots, s \in Writing(t)
    PROVE  s \in Writing(t)' \/ (Stored(t) /\ s = loc[t].slot) \/ (Copied(t) /\ s = To(t))
<1>1. pc[t] \in Locked3 \cup Locked2
  BY HeldIs
<1>2. ~BeginGet(t) /\ ~BeginPut(t) /\ ~get(t)
  BY <1>1, GetSteps, BeginSteps DEF Locked3, Locked2
<1>3. put(t)
  BY <1>2 DEF Step
<1>4. SetVal(t) \/ Store(t) \/ Stored(t) \/ Copy(t) \/ Copied(t)
  BY <1>1, <1>3, PutSteps DEF Locked3, Locked2
<1>5. pc \in [Threads -> PCs]
  BY DEF Inductive, Typed
<1>6. CASE SetVal(t) \/ Store(t)
  <2>1. pc[t] \in Locked3 /\ pc'[t] \in Locked3 /\ loc' = loc
    BY <1>5, <1>6 DEF SetVal, Store, Goto, Locked3
  <2> QED BY <2>1, HeldIs, HeldIsNext
<1>7. CASE Stored(t)
  <2>1. pc[t] \in Locked3
    BY <1>7 DEF Stored, Locked3
  <2> QED BY <1>7, <2>1, HeldIs
<1>8. CASE Copy(t)
  <2>1. pc[t] \in Locked2 /\ pc'[t] \in Locked2 /\ loc' = loc
    BY <1>5, <1>8 DEF Copy, Goto, Locked2
  <2>2. To(t)' = To(t)
    BY <2>1 DEF To
  <2> QED BY <2>1, <2>2, HeldIs, HeldIsNext
<1>9. CASE Copied(t)
  <2>1. pc[t] \in Locked2
    BY <1>9 DEF Copied, Locked2
  <2> QED BY <1>9, <2>1, HeldIs
<1> QED BY <1>4, <1>6, <1>7, <1>8, <1>9

\* While nobody puts k, a get that is to find k will find it.
LEMMA AheadStays ==
    ASSUME Inductive, Leaves, Once, NEW t \in Threads, Step(t), Lone(t), Straight(t), NEW k \in Keys,
           Putters(k) = {}, NEW n \in 1 .. 2 * SLOTS_NUM + 1, Ahead(k, n)
    PROVE  Ahead(k, n)'
<1>1. Later(k, n)'
  BY LaterStays DEF Ahead
<1>2. pc[t] \in Putting => Key(t) # k
  BY PuttersAre
<1>3. ASSUME NEW s \in Slots, s \in Seen(k, n), Matches(table'[s], k), Home(s)'
      PROVE  \E w \in Threads : s \in Writing(w)'
  <2>1. CASE table'[s] # table[s]
    <3>1. Store(t) => table'[s] # NewNode(t)
      <4>1. Store(t) => Key(t) # k
        BY <1>2 DEF Store, Putting
      <4>2. NewNode(t).key = Key(t)
        BY DEF NewNode
      <4> QED BY <1>3, <4>1, <4>2 DEF Matches
    <3>2. Copy(t) /\ s = To(t)
      BY <2>1, <3>1, Changed
    <3>3. s \in Writing(t)
      BY <2>1, Changed
    <3>4. ~Stored(t) /\ ~Copied(t)
      BY <3>2 DEF Copy, Stored, Copied
    <3> QED BY <3>3, <3>4, WritingGoes
  <2>2. CASE table'[s] = table[s]
    <3>1. Matches(table[s], k) /\ Home(s)
      BY <1>3, <2>2, HomeSame
    <3>2. PICK w \in Threads : s \in Writing(w)
      BY <1>3, <3>1 DEF Ahead
    <3>3. CASE w # t
      BY <3>2, <3>3, OthersSame
    <3>4. CASE w = t
      <4>1. ~(Stored(t) /\ s = loc[t].slot)
        <5> SUFFICES ASSUME Stored(t), s = loc[t].slot PROVE FALSE
          OBVIOUS
        <5>1. pc[t] = "stored"
          BY DEF Stored
        <5>2. Matches(table[s], Key(t))
          BY <5>1 DEF Lone
        <5> QED BY <1>2, <3>1, <5>1, <5>2 DEF Matches, Putting
      <4>2. ~(Copied(t) /\ s = To(t))
        <5> SUFFICES ASSUME Copied(t), s = To(t) PROVE FALSE
          OBVIOUS
        <5>1. pc[t] = "copied"
          BY DEF Copied
        <5>2. Up(From(t), To(t))
          BY <5>1, MoveGoes
        <5>3. table[To(t)] = table[From(t)]
          BY <5>1 DEF Inductive, MoveOK
        <5> QED BY <3>1, <5>2, <5>3 DEF Up, Home, Matches
      <4> QED BY <3>2, <3>4, <4>1, <4>2, WritingGoes
    <3> QED BY <3>3, <3>4
  <2> QED BY <2>1, <2>2
<1>4. Seen(k, n) \subseteq Slots
  <2>1. Seen(k, n) \subseteq Buckets(k) /\ Buckets(k) \subseteq Slots
    BY SeenAre, ScanSlots
  <2> QED BY <2>1
<1> QED BY <1>1, <1>3, <1>4 DEF Ahead, Seen

\* Where a scan is, it has passed part of the first bucket, or all of it.
LEMMA HalfScanned ==
    ASSUME NEW k \in Keys, h1(k) # h2(k), NEW n \in 1 .. 2 * SLOTS_NUM
    PROVE  /\ Scan[k][n][1] = h1(k) => \A r \in Seen(k, n) : r[1] = h1(k)
           /\ Scan[k][n][1] = h2(k) => \A r \in Slots : r[1] = h1(k) => r \in Seen(k, n)
<1>1. SLOTS_NUM \in Nat \ {0}
  BY Constants
<1>2. CASE n \in 1 .. SLOTS_NUM
  <2>1. Scan[k][n] = <<h1(k), n - 1>>
    BY <1>2, ScanAt
  <2>2. \A j \in 1 .. n - 1 : j \in 1 .. SLOTS_NUM
    BY <1>1, <1>2
  <2>3. \A j \in 1 .. n - 1 : Scan[k][j] = <<h1(k), j - 1>>
    <3> SUFFICES ASSUME NEW j \in 1 .. n - 1 PROVE Scan[k][j] = <<h1(k), j - 1>>
      OBVIOUS
    <3>1. j \in 1 .. SLOTS_NUM
      BY <2>2
    <3> QED BY <3>1, ScanAt
  <2>4. \A r \in Seen(k, n) : r[1] = h1(k)
    BY <2>3 DEF Seen
  <2>5. Scan[k][n][1] = h1(k)
    BY <2>1
  <2> QED BY <2>4, <2>5
<1>3. CASE n \in SLOTS_NUM + 1 .. 2 * SLOTS_NUM
  <2>1. Scan[k][n] = <<h2(k), n - SLOTS_NUM - 1>>
    BY <1>3, ScanAt
  <2>2. ASSUME NEW r \in Slots, r[1] = h1(k) PROVE r \in Seen(k, n)
    <3>1. PICK j : j = r[2] + 1
      OBVIOUS
    <3>2. j \in 1 .. SLOTS_NUM /\ Scan[k][j] = r
      BY <2>2, <3>1, ScanAt
    <3>3. j \in 1 .. n - 1
      BY <1>1, <1>3, <3>2
    <3> QED BY <3>2, <3>3 DEF Seen
  <2> QED BY <2>1, <2>2
<1> QED BY <1>1, <1>2, <1>3

\* A slot that is being written to may be passed: k is also behind it.
LEMMA OddAhead ==
    Inductive /\ Upward /\ (\A u \in Threads : Lone(u)) =>
      \A k \in Keys : \A n \in 1 .. 2 * SLOTS_NUM :
        Ahead(k, n) /\ Putters(k) = {} /\ Odd(key_versions[Scan[k][n]]) => Ahead(k, n + 1)
<1> SUFFICES ASSUME Inductive, Upward, \A u \in Threads : Lone(u), NEW k \in Keys, NEW n \in 1 .. 2 * SLOTS_NUM,
                    Ahead(k, n), Putters(k) = {}, Odd(key_versions[Scan[k][n]])
             PROVE  Ahead(k, n + 1)
  OBVIOUS
<1>1. PICK a \in Slots : a = Scan[k][n]
  BY ScanSlots
<1>2. PICK w \in Threads : a \in Writing(w)
  BY <1>1 DEF Inductive, LocksHeld
<1>3. Seen(k, n + 1) = Seen(k, n) \cup {a}
  BY <1>1, SeenAre
<1>4. \A s \in Seen(k, n + 1) : Matches(table[s], k) /\ Home(s) => \E u \in Threads : s \in Writing(u)
  BY <1>2, <1>3 DEF Ahead
<1>5. pc[w] \in Putting => Key(w) # k
  BY PuttersAre
<1>6. Leaves /\ Once /\ Straight(w)
  BY DEF Upward
<1>7. Later(k, n + 1)
  <2>1. CASE ~Matches(table[a], k)
    BY <1>1, <2>1, LaterOn DEF Ahead
  <2>2. CASE Matches(table[a], k) /\ Dooms(w, a)
    <3>1. a[1] = h1(k) /\ h1(k) # h2(k)
      BY <1>6, <2>2, Elsewhere
    <3>2. PICK r \in Slots : table[r] = table[a] /\ Safe(r) /\ r[1] = h2(k)
      BY <1>6, <2>2, Elsewhere
    <3>3. r # a
      BY <3>1, <3>2
    <3>4. r \notin Seen(k, n)
      BY <1>1, <3>1, <3>2, HalfScanned
    <3>5. r \notin Seen(k, n + 1)
      BY <1>3, <3>3, <3>4
    <3> QED BY <2>2, <3>2, <3>5 DEF Later
  <2>3. CASE Matches(table[a], k) /\ ~Dooms(w, a)
    <3>1. pc[w] \in Locked3 \cup Locked2
      BY <1>2, HeldIs
    <3>2. CASE pc[w] \in Locked3
      <4>1. a = loc[w].slot /\ pc[w] \in Putting
        BY <1>2, <3>2, HeldIs DEF Locked3, Putting
      <4>2. pc[w] # "store"
        BY <2>3, <4>1 DEF Dooms
      <4>3. Matches(table[a], Key(w))
        <5>1. CASE pc[w] = "setVal"
          <6>1. loc[w].node.key = Key(w) /\ table[a] = loc[w].node
            BY <4>1, <5>1 DEF Inductive, InCall, Lone
          <6> QED BY <2>3, <6>1 DEF Matches
        <5>2. CASE pc[w] = "stored"
          BY <4>1, <5>2 DEF Lone
        <5> QED BY <3>2, <4>2, <5>1, <5>2 DEF Locked3
      <4> QED BY <1>5, <2>3, <4>1, <4>3 DEF Matches
    <3>3. CASE pc[w] \in Locked2
      <4>1. a = To(w) /\ Writing(w) = {To(w)} /\ Held(w) = {Lower(w), Higher(w)}
        BY <1>2, <3>3, HeldIs
      <4>2. pc[w] = "copied"
        BY <2>3, <3>3, <4>1 DEF Dooms, Locked2
      <4>3. From(w) \in Slots /\ From(w) # To(w) /\ {Lower(w), Higher(w)} = {To(w), From(w)}
        BY <4>2, MoveSlots DEF Moving
      <4>4. PICK f \in Slots : f = From(w)
        BY <4>3
      <4>5. Up(f, a) /\ table[a] = table[f]
        BY <1>6, <4>1, <4>2, <4>4, MoveGoes DEF Inductive, MoveOK
      <4>6. Matches(table[f], k) /\ Home(f) /\ f[1] = h1(k) /\ a[1] = h2(k) /\ h1(k) # h2(k)
        BY <2>3, <4>5 DEF Up, Home, Matches
      <4>7. f \in Seen(k, n)
        BY <1>1, <4>6, HalfScanned
      <4>8. PICK u \in Threads : f \in Writing(u)
        BY <4>6, <4>7 DEF Ahead
      <4>9. f \in Held(u) /\ f \in Held(w)
        BY <4>1, <4>3, <4>4, <4>8, WritingHeld
      <4>10. table_locks[f] = u /\ table_locks[f] = w
        BY <4>9 DEF Inductive, LocksHeld
      <4> QED BY <4>1, <4>3, <4>4, <4>8, <4>10
    <3> QED BY <3>1, <3>2, <3>3
  <2> QED BY <2>1, <2>2, <2>3
<1> QED BY <1>4, <1>7 DEF Ahead

LEMMA OddAheadNext ==
    Inductive' /\ Upward' /\ (\A u \in Threads : Lone(u)') =>
      \A k \in Keys : \A n \in 1 .. 2 * SLOTS_NUM :
        Ahead(k, n)' /\ Putters(k)' = {} /\ Odd(key_versions'[Scan[k][n]]) => Ahead(k, n + 1)'
<1>1. (Inductive /\ Upward /\ (\A u \in Threads : Lone(u)) =>
         \A k \in Keys : \A n \in 1 .. 2 * SLOTS_NUM :
           Ahead(k, n) /\ Putters(k) = {} /\ Odd(key_versions[Scan[k][n]]) => Ahead(k, n + 1))'
  BY OddAhead, PTL
<1> QED BY <1>1

\* Whose get may not answer NULL is not disturbed by puts.
LEMMA NobodyPuts ==
    ASSUME NEW w \in Threads, Holds(w), pc[w] \in Getting, NULL \notin may[w], NEW k, k = Key(w)
    PROVE  Putters(k) = {}
BY DEF Holds

LEMMA FindsShown ==
    ASSUME Inductive, Inductive', OneNode, OneNode', NEW t \in Threads, Step(t), Fresh(t), Holds(t),
           NEW w \in Threads, pc[w] \in Getting, pc'[w] \in Getting, NEW k \in Keys, k = Key(w), Shown(k) \in may[w]
    PROVE  Shown(k)' \in may'[w]
<1>1. may[w] \subseteq may'[w]
  BY MayStep
<1>2. CASE (SetVal(t) \/ Store(t)) /\ Key(t) = k
  <2>1. Call(t).val \in may'[w]
    BY <1>2, MayStep
  <2>2. Shown(k)' = Call(t).val
    BY <1>2, ShownStep
  <2> QED BY <2>1, <2>2
<1>3. CASE ~((SetVal(t) \/ Store(t)) /\ Key(t) = k)
  <2>1. Shown(k)' = Shown(k)
    BY <1>3, ShownStep
  <2> QED BY <1>1, <2>1
<1> QED BY <1>2, <1>3

\* A get, while another thread takes a step.
LEMMA FindsOther ==
    ASSUME Inductive, Inductive', Upward, Upward', OneNode, OneNode', \A u \in Threads : Lone(u) /\ Lone(u)',
           NEW t \in Threads, Step(t), Fresh(t), Holds(t),
           NEW w \in Threads, w # t, Holds(w), Holds(w)', Finds(w)
    PROVE  Finds(w)'
<1> SUFFICES ASSUME pc'[w] \in Getting, NEW k \in Keys, NEW n \in 1 .. 2 * SLOTS_NUM, k = Key(w)', n = loc'[w].n
             PROVE  /\ Shown(k)' \in may'[w]
                    /\ pc'[w] = "getCheck" => loc'[w].got \in may'[w]
                    /\ NULL \in may'[w] \/ Ahead(k, n)'
                    /\ /\ pc'[w] \in {"getVal", "getCheck"}
                       /\ loc'[w].ver # key_versions'[Scan[k][n]] \/ Odd(loc'[w].ver)
                       => NULL \in may'[w] \/ Ahead(k, n + 1)'
  BY DEF Finds
<1>1. pc'[w] = pc[w] /\ loc'[w] = loc[w] /\ Key(w) = k /\ n = loc[w].n /\ pc[w] \in Getting
  BY OthersSame
<1>2. /\ Shown(k) \in may[w]
      /\ pc[w] = "getCheck" => loc[w].got \in may[w]
      /\ NULL \in may[w] \/ Ahead(k, n)
      /\ pc[w] \in {"getVal", "getCheck"} /\ (loc[w].ver # key_versions[Scan[k][n]] \/ Odd(loc[w].ver)) =>
            NULL \in may[w] \/ Ahead(k, n + 1)
  BY <1>1 DEF Finds
<1>3. may[w] \subseteq may'[w]
  BY <1>1, MayStep
<1>4. Shown(k)' \in may'[w]
  BY <1>1, <1>2, FindsShown
<1>5. Leaves /\ Once /\ Straight(t) /\ Lone(t)
  BY DEF Upward
<1>6. ASSUME NULL \notin may'[w] PROVE Ahead(k, n)'
  <2>1. Putters(k) = {} /\ Ahead(k, n)
    BY <1>1, <1>2, <1>3, <1>6, NobodyPuts
  <2>2. n \in 1 .. 2 * SLOTS_NUM + 1
    BY Constants
  <2> QED BY <1>5, <2>1, <2>2, AheadStays
<1>7. ASSUME NULL \notin may'[w], pc'[w] \in {"getVal", "getCheck"},
             loc'[w].ver # key_versions'[Scan[k][n]] \/ Odd(loc'[w].ver)
      PROVE  Ahead(k, n + 1)'
  <2>1. Putters(k) = {} /\ NULL \notin may[w]
    BY <1>1, <1>3, <1>7, NobodyPuts
  <2>2. CASE loc[w].ver # key_versions[Scan[k][n]] \/ Odd(loc[w].ver)
    <3>1. Ahead(k, n + 1)
      BY <1>1, <1>2, <1>7, <2>1, <2>2
    <3>2. PICK m \in 1 .. 2 * SLOTS_NUM + 1 : m = n + 1
      BY Constants
    <3>3. Ahead(k, m)'
      BY <1>5, <2>1, <3>1, <3>2, AheadStays
    <3> QED BY <3>2, <3>3
  <2>3. CASE ~(loc[w].ver # key_versions[Scan[k][n]] \/ Odd(loc[w].ver))
    <3>1. PICK s \in Slots : s = Scan[k][n]
      BY ScanSlots
    <3>2. key_versions'[s] # key_versions[s] /\ ~Odd(key_versions[s])
      BY <1>1, <1>7, <2>3, <3>1
    <3>3. key_versions[s] \in Nat /\ key_versions'[s] = key_versions[s] + 1
      BY <3>2, SlotStep
    <3>4. Odd(key_versions'[Scan[k][n]])
      BY <3>1, <3>2, <3>3, OddCount
    <3>5. Ahead(k, n)'
      BY <1>6, <1>7
    <3>6. Putters(k)' = {}
      <4>1. Putters(Key(w))' = {}
        BY <1>7 DEF Holds
      <4> QED BY <4>1 DEF Putters
    <3> QED BY <3>4, <3>5, <3>6, OddAheadNext
  <2> QED BY <2>2, <2>3
<1> QED BY <1>1, <1>2, <1>3, <1>4, <1>6, <1>7

\* The get itself.
LEMMA NextSlotAt ==
    ASSUME Inductive, NEW t \in Threads, NextSlot(t), pc'[t] = "get", NEW n \in 1 .. 2 * SLOTS_NUM, n = loc[t].n
    PROVE  n < 2 * SLOTS_NUM /\ loc'[t].n = n + 1
<1>1. pc \in [Threads -> PCs] /\ loc \in [Threads -> Locals]
  BY DEF Inductive, Typed
<1>2. CASE loc[t].n < 2 * SLOTS_NUM
  <2>1. loc' = [loc EXCEPT ![t] = [Blank EXCEPT !.n = loc[t].n + 1]]
    BY <1>2 DEF NextSlot
  <2>2. loc'[t].n = loc[t].n + 1
    BY <1>1, <2>1 DEF Blank
  <2> QED BY <1>2, <2>2
<1>3. CASE ~(loc[t].n < 2 * SLOTS_NUM)
  BY <1>1, <1>3 DEF NextSlot, Return, Goto
<1> QED BY <1>2, <1>3

LEMMA AheadStep ==
    ASSUME Inductive, NEW k \in Keys, NEW n \in 1 .. 2 * SLOTS_NUM, Ahead(k, n), ~Matches(table[Scan[k][n]], k)
    PROVE  Ahead(k, n + 1)
<1>1. Later(k, n + 1)
  BY LaterOn DEF Ahead
<1>2. Seen(k, n + 1) = Seen(k, n) \cup {Scan[k][n]}
  BY SeenAre
<1> QED BY <1>1, <1>2 DEF Ahead

LEMMA FindsSelf ==
    ASSUME Inductive, Inductive', Upward, OneNode, OneNode', \A u \in Threads : Lone(u),
           NEW t \in Threads, Step(t), Fresh(t), Holds(t), Finds(t)
    PROVE  Finds(t)'
<1> SUFFICES ASSUME pc'[t] \in Getting, NEW k \in Keys, NEW n \in 1 .. 2 * SLOTS_NUM, k = Key(t)', n = loc'[t].n
             PROVE  /\ Shown(k)' \in may'[t]
                    /\ pc'[t] = "getCheck" => loc'[t].got \in may'[t]
                    /\ NULL \in may'[t] \/ Ahead(k, n)'
                    /\ /\ pc'[t] \in {"getVal", "getCheck"}
                       /\ loc'[t].ver # key_versions'[Scan[k][n]] \/ Odd(loc'[t].ver)
                       => NULL \in may'[t] \/ Ahead(k, n + 1)'
  BY DEF Finds
<1>1. Key(t) = k
  BY CallStays DEF Getting
<1>2. pc \in [Threads -> PCs] /\ loc \in [Threads -> Locals] /\ loc[t] \in Locals /\ may \in [Threads -> SUBSET (Vals \cup {NULL})]
  BY DEF Inductive, Typed
<1>3. PICK m \in 1 .. 2 * SLOTS_NUM : m = loc[t].n
  BY LocTyped DEF Inductive
<1>4. At(t) = Scan[k][m]
  BY <1>1, <1>3 DEF At
<1>5. CASE BeginGet(t)
  <2>1. pc[t] = "idle" /\ pc'[t] = "get" /\ table' = table /\ loc' = loc /\ val' = val
    BY <1>2, <1>5, BeginSteps DEF BeginGet, shared
  <2>2. may'[t] = {Shown(k)} \cup {x \in {NULL} : Putters(k) # {}}
    BY <1>1, <1>2, <1>5 DEF BeginGet
  <2>3. ~SetVal(t) /\ ~Store(t)
    BY <2>1 DEF SetVal, Store
  <2>4. Shown(k)' = Shown(k)
    BY <2>3, ShownStep
  <2>5. n = 1
    BY <2>1 DEF Inductive, Passed
  <2>6. ~InTable(k) => NULL \in may'[t]
    BY <2>2, ShownIs
  <2>7. InTable(k) => Ahead(k, 1)'
    <3> SUFFICES ASSUME InTable(k) PROVE Ahead(k, 1)'
      OBVIOUS
    <3>1. Later(k, 1) /\ Seen(k, 1) = {}
      BY FirstSlot, SeenAre
    <3> QED BY <2>1, <3>1 DEF Ahead, Later, Seen
  <2> QED BY <2>1, <2>2, <2>4, <2>5, <2>6, <2>7
<1>6. CASE get(t)
  <2>1. /\ pc[t] \in Getting /\ UNCHANGED shared /\ ~BeginPut(t) /\ ~SetVal(t) /\ ~Store(t)
    BY <1>6, GetSteps DEF get, GetNode, GetVersion, GetVal, GetCheck, Getting, BeginPut, Begin, Running, SetVal, Store
  <2>2. table' = table /\ key_versions' = key_versions /\ val' = val
    BY <2>1 DEF shared
  <2>3. /\ Shown(k) \in may[t]
        /\ pc[t] = "getCheck" => loc[t].got \in may[t]
        /\ NULL \in may[t] \/ Ahead(k, m)
        /\ pc[t] \in {"getVal", "getCheck"} /\ (loc[t].ver # key_versions[Scan[k][m]] \/ Odd(loc[t].ver)) =>
              NULL \in may[t] \/ Ahead(k, m + 1)
    BY <1>1, <1>3, <2>1 DEF Finds
  <2>4. may[t] \subseteq may'[t] /\ Shown(k)' \in may'[t]
    BY <1>1, <2>1, <2>3, MayStep, FindsShown
  <2>5. \A w \in Threads : Writing(w)' = Writing(w)
    <3>1. pc[t] \notin Locked3 \cup Locked2 /\ pc'[t] \notin Locked3 \cup Locked2
      BY <2>1 DEF Getting, Locked3, Locked2
    <3>2. Writing(t) = {} /\ Writing(t)' = {}
      BY <3>1, HeldIs, HeldIsNext
    <3>3. ASSUME NEW w \in Threads PROVE Writing(w)' = Writing(w)
      <4>1. CASE w = t
        BY <3>2, <4>1
      <4>2. CASE w # t
        BY <4>2, OthersSame
      <4> QED BY <4>1, <4>2
    <3> QED BY <3>3
  <2>6. \A j : Ahead(k, j) => Ahead(k, j)'
    BY <2>2, <2>5 DEF Ahead, Later, Seen, Home
  <2>7. NULL \notin may'[t] => NULL \notin may[t] /\ Putters(k) = {}
    BY <1>1, <2>1, <2>4, NobodyPuts
  <2>8. CASE GetNode(t) /\ pc'[t] = "getVersion"
    <3>1. n = m
      BY <1>2, <1>3, <2>8 DEF GetNode, NextSlot, Return, Goto, Locals
    <3> QED BY <2>3, <2>4, <2>6, <2>8, <3>1
  <2>9. CASE GetNode(t) /\ pc'[t] = "get"
    <3>1. ~Matches(table[Scan[k][m]], k) /\ NextSlot(t)
      BY <1>1, <1>2, <1>4, <2>9 DEF GetNode, Goto
    <3>2. n = m + 1
      BY <1>3, <2>9, <3>1, NextSlotAt
    <3>3. NULL \in may[t] \/ Ahead(k, n)
      BY <2>3, <3>1, <3>2, AheadStep
    <3> QED BY <2>4, <2>6, <2>9, <3>3
  <2>10. CASE GetVersion(t)
    <3>1. loc'[t].n = loc[t].n /\ loc'[t].ver = key_versions[Scan[k][m]] /\ pc'[t] = "getVal"
      BY <1>2, <1>4, <2>10 DEF GetVersion, Goto, Locals
    <3>2. n = m
      BY <1>3, <3>1
    <3>3. ASSUME NULL \notin may'[t], Odd(loc'[t].ver) PROVE Ahead(k, n + 1)'
      <4>1. Putters(k) = {} /\ Ahead(k, m)
        BY <2>3, <2>7, <3>3
      <4>2. Ahead(k, m + 1)
        BY <3>1, <3>3, <4>1, OddAhead
      <4>3. PICK j : j = m + 1
        OBVIOUS
      <4>4. Ahead(k, j)'
        BY <2>6, <4>2, <4>3
      <4> QED BY <3>2, <4>3, <4>4
    <3> QED BY <2>2, <2>3, <2>4, <2>6, <3>1, <3>2, <3>3
  <2>11. CASE GetVal(t)
    <3>1. pc[t] = "getVal" /\ pc'[t] = "getCheck" /\ loc' = [loc EXCEPT ![t].got = val[loc[t].node]]
      BY <1>2, <2>11 DEF GetVal, Goto
    <3>2. loc'[t].n = loc[t].n /\ loc'[t].ver = loc[t].ver /\ loc'[t].got = val[loc[t].node]
      BY <1>2, <3>1 DEF Locals
    <3>3. n = m
      BY <1>3, <3>2
    <3>4. val[loc[t].node] = Shown(k)
      <4>1. NodeIn(loc[t].node) /\ loc[t].node # NULL /\ loc[t].node.key = k
        BY <1>1, <3>1 DEF Holds
      <4>2. PICK s \in Slots : table[s] = loc[t].node
        BY <4>1 DEF NodeIn
      <4> QED BY <4>1, <4>2, ShownIs DEF Matches
    <3>5. ASSUME NULL \notin may'[t], loc'[t].ver # key_versions'[Scan[k][n]] \/ Odd(loc'[t].ver)
          PROVE  Ahead(k, n + 1)'
      <4>1. Ahead(k, m + 1)
        BY <2>2, <2>3, <2>7, <3>1, <3>2, <3>3, <3>5
      <4>2. PICK j : j = m + 1
        OBVIOUS
      <4>3. Ahead(k, j)'
        BY <2>6, <4>1, <4>2
      <4> QED BY <3>3, <4>2, <4>3
    <3> QED BY <2>3, <2>4, <2>6, <3>2, <3>3, <3>4, <3>5
  <2>12. CASE GetCheck(t) /\ pc'[t] = "get"
    <3>1. pc[t] = "getCheck" /\ (loc[t].ver # key_versions[Scan[k][m]] \/ Odd(loc[t].ver)) /\ NextSlot(t)
      BY <1>2, <1>4, <2>12 DEF GetCheck, Return, Goto
    <3>2. n = m + 1
      BY <1>3, <2>12, <3>1, NextSlotAt
    <3>3. NULL \in may[t] \/ Ahead(k, n)
      BY <2>3, <3>1, <3>2
    <3> QED BY <2>4, <2>6, <2>12, <3>3
  <2> QED BY <1>6, <2>8, <2>9, <2>10, <2>11, <2>12, GetSteps DEF Getting
<1>7. BeginGet(t) \/ get(t)
  <2>1. ~BeginPut(t) /\ ~put(t)
    BY BeginSteps, PutSteps DEF Getting
  <2> QED BY <2>1 DEF Step
<1> QED BY <1>5, <1>6, <1>7

LEMMA FaultlessNext ==
    ASSUME Inductive, Inductive', Upward, Upward', NEW t \in Threads, Step(t), faults' = {}, Faultless,
           \A w \in Threads : Fresh(w) /\ Holds(w) /\ Holds(w)'
    PROVE  Faultless'
<1>1. OneNode /\ Alone /\ Packed /\ Leaves /\ Once /\ \A w \in Threads : Lone(w) /\ Finds(w)
  BY DEF Faultless, Upward
<1>2. OneNode'
  BY <1>1, OneNodeNext
<1>3. Alone'
  BY <1>1, AloneNext
<1>4. \A w \in Threads : Lone(w)'
  <2> SUFFICES ASSUME NEW w \in Threads PROVE Lone(w)'
    OBVIOUS
  <2> QED BY <1>1, LoneNext
<1>5. \A w \in Threads : Finds(w)'
  <2> SUFFICES ASSUME NEW w \in Threads PROVE Finds(w)'
    OBVIOUS
  <2>1. CASE w = t
    <3>1. Finds(t)'
      BY <1>1, <1>2, FindsSelf
    <3> QED BY <2>1, <3>1
  <2>2. CASE w # t
    BY <1>1, <1>2, <1>4, <2>2, FindsOther
  <2> QED BY <2>1, <2>2
<1> QED BY <1>2, <1>3, <1>4, <1>5 DEF Faultless

LEMMA FaultlessInit == Init => Faultless
<1> SUFFICES ASSUME Init PROVE Faultless
  OBVIOUS
<1>1. /\ \A s \in Slots : table[s] = NULL
      /\ \A t \in Threads : pc[t] = "idle"
  BY DEF Init
<1> QED BY <1>1 DEF Faultless, OneNode, Alone, Lone, Finds, Putting, Moving, Getting

Ordered == Inductive /\ Upward /\ Answers

LEMMA OrderedNext == Ordered /\ [Next]_vars => Ordered'
<1> SUFFICES ASSUME Ordered, [Next]_vars PROVE Ordered'
  OBVIOUS
<1>1. Inductive /\ Upward /\ (\A w \in Threads : Fresh(w) /\ Holds(w)) /\ (faults = {} => Faultless)
  BY DEF Ordered, Answers
<1>2. Inductive'
  BY <1>1, InductiveNext
<1>3. ASSUME NEW t \in Threads, Step(t) PROVE Ordered'
  <2>1. Upward' /\ \A w \in Threads : Fresh(w)'
    BY <1>1, <1>3, UpwardNext
  <2>2. \A w \in Threads : Holds(w)'
    <3> SUFFICES ASSUME NEW w \in Threads PROVE Holds(w)'
      OBVIOUS
    <3> QED BY <1>1, <1>3, HoldsNext
  <2>3. ASSUME faults' = {} PROVE Faultless'
    <3>1. Faultless
      BY <1>1, <1>3, <2>3, FaultsGrow
    <3> QED BY <1>1, <1>2, <1>3, <2>1, <2>2, <2>3, <3>1, FaultlessNext
  <2> QED BY <1>2, <2>1, <2>2, <2>3 DEF Ordered, Answers
<1>4. CASE UNCHANGED vars
  <2>1. /\ table' = table /\ table_locks' = table_locks /\ key_versions' = key_versions /\ val' = val
        /\ pc' = pc /\ todo' = todo /\ loc' = loc /\ may' = may /\ faults' = faults
    BY <1>4 DEF vars, shared, hist
  <2>2. Upward'
    <3>1. Packed' /\ Leaves' /\ Once'
      <4>1. Packed'
        BY <1>1, <2>1 DEF Upward, Packed, FrontFull, Filled, Full
      <4>2. \A w \in Threads, s \in Slots : Dooms(w, s)' <=> Dooms(w, s)
        BY <2>1 DEF Dooms, To, From, Unchanged
      <4>3. \A s \in Slots : Home(s)' <=> Home(s)
        BY <2>1, HomeSame
      <4> QED BY <1>1, <2>1, <4>1, <4>2, <4>3 DEF Upward, Leaves, Once
    <3>2. \A w \in Threads : Tight(w)' /\ Queues(w)'
      BY <1>1, <2>1 DEF Upward, Tight, Queues, FrontFull, Filled, Full, Key, Call
    <3>3. \A w \in Threads : Covers(w)'
      <4>1. \A z, i : Route(z, i)' <=> Route(z, i)
        BY <2>1 DEF Route, Home, Full
      <4> QED BY <1>1, <2>1, <4>1 DEF Upward, Covers, Covered
    <3>4. \A w \in Threads : Straight(w)'
      BY <1>1, <2>1 DEF Upward, Straight, Unchanged, Up, Home, Full, Filled
    <3> QED BY <3>1, <3>2, <3>3, <3>4 DEF Upward
  <2>3. \A w \in Threads : Fresh(w)' /\ Holds(w)'
    BY <1>1, <2>1 DEF Fresh, Holds, NodeIn, NewNode, Key, Call, Putters, Running
  <2>4. Faultless => Faultless'
    <3>1. OneNode => OneNode'
      BY <2>1 DEF OneNode
    <3>2. Alone => Alone'
      BY <2>1 DEF Alone, Key, Call, InTable
    <3>3. \A w \in Threads : Lone(w) => Lone(w)'
      BY <2>1 DEF Lone, Key, Call, InTable, Later, Seen
    <3>4. \A w \in Threads : Finds(w) => Finds(w)'
      <4>1. \A k, n : Ahead(k, n)' <=> Ahead(k, n)
        BY <2>1 DEF Ahead, Later, Seen, Home, Writing, To
      <4>2. \A k : Shown(k)' = Shown(k)
        BY <2>1 DEF Shown
      <4> QED BY <2>1, <4>1, <4>2 DEF Finds, Key, Call
    <3> QED BY <3>1, <3>2, <3>3, <3>4 DEF Faultless
  <2> QED BY <1>1, <1>2, <2>1, <2>2, <2>3, <2>4 DEF Ordered, Answers
<1> QED BY <1>3, <1>4 DEF Next, Finished, Step

LEMMA OrderedAlways == Spec => []Ordered
<1>1. Init => Ordered
  BY InductiveInit, UpwardInit, FaultlessInit DEF Ordered, Answers
<1>2. Ordered /\ [Next]_vars => Ordered'
  BY OrderedNext
<1> QED BY <1>1, <1>2, PTL DEF Spec
-----------------------------------------------------------------------------
(* The refinement of Dictionary.                                            *)

LEMMA DictSame ==
    ASSUME Inductive
    PROVE  /\ \A k : Dict!Get(k) = Get(k) /\ \A v : Dict!Put(k, v) = Put(k, v)
           /\ \A k \in Keys : Dict!Putting(k) <=> Putters(k) # {}
           /\ \A k \in Keys : \A x : Dict!MayAnswer(k, x) = MayAnswer(k, x)
<1>1. \A k : Dict!Get(k) = Get(k) /\ \A v : Dict!Put(k, v) = Put(k, v)
  BY DEF Dict!Get, Dict!Put, Get, Put
<1>2. \A k \in Keys : Get(k) # NULL /\ \A v \in Vals : Put(k, v) # NULL
  <2>1. NULL \notin Calls
    BY OptCuckooAssumption
  <2>2. \A k \in Keys : Get(k) \in Calls /\ \A v \in Vals : Put(k, v) \in Calls
    BY DEF Calls
  <2> QED BY <2>1, <2>2
<1>3. \A u \in Threads : call[u] = IF Running(u) THEN Call(u) ELSE NULL
  BY DEF call
<1>4. ASSUME NEW k \in Keys PROVE Dict!Putting(k) <=> Putters(k) # {}
  <2>1. ASSUME Dict!Putting(k) PROVE Putters(k) # {}
    <3>1. PICK u \in Threads, v \in Vals : call[u] = Put(k, v)
      BY <1>1, <2>1 DEF Dict!Putting
    <3>2. Running(u) /\ Call(u) = Put(k, v)
      BY <1>2, <1>3, <3>1
    <3>3. u \in Putters(k)
      BY <3>2 DEF Putters, Put, Key
    <3> QED BY <3>3
  <2>2. ASSUME Putters(k) # {} PROVE Dict!Putting(k)
    <3>1. PICK u \in Threads : pc[u] \in Putting /\ Key(u) = k
      BY <2>2, PuttersAre
    <3>2. Running(u) /\ Call(u) = Put(k, Call(u).val) /\ Call(u).val \in Vals
      BY <3>1, Gets
    <3>3. call[u] = Put(k, Call(u).val)
      BY <1>3, <3>2
    <3> QED BY <1>1, <3>2, <3>3 DEF Dict!Putting
  <2> QED BY <2>1, <2>2
<1>5. ASSUME NEW k \in Keys, NEW x PROVE Dict!MayAnswer(k, x) = MayAnswer(k, x)
  <2>1. \A u \in Threads : call[u] = Dict!Get(k) <=> Running(u) /\ Call(u) = Get(k)
    BY <1>1, <1>2, <1>3
  <2> QED BY <2>1 DEF Dict!MayAnswer, MayAnswer
<1> QED BY <1>1, <1>4, <1>5

LEMMA CallIs ==
    /\ \A u \in Threads : call[u] = IF Running(u) THEN Call(u) ELSE NULL
    /\ \A u \in Threads : call'[u] = IF Running(u)' THEN Call(u)' ELSE NULL
    /\ \A u \in Threads : wrote[u] = (pc[u] = "stored") /\ wrote'[u] = (pc'[u] = "stored")
    /\ \A k \in Keys : map[k] = Shown(k) /\ map'[k] = Shown(k)'
    /\ DOMAIN call = Threads /\ DOMAIN call' = Threads /\ DOMAIN wrote = Threads /\ DOMAIN wrote' = Threads
    /\ DOMAIN map = Keys /\ DOMAIN map' = Keys
BY DEF call, wrote, map

LEMMA CallStep ==
    ASSUME Inductive, NEW t \in Threads, Step(t)
    PROVE  /\ pc[t] = "idle" /\ pc'[t] # "idle" => call' = [call EXCEPT ![t] = Call(t)]
           /\ pc[t] # "idle" /\ pc'[t] # "idle" => call' = call
           /\ pc'[t] = "idle" => call' = [call EXCEPT ![t] = NULL]
<1>1. \A u \in Threads : u # t => call'[u] = call[u]
  BY CallIs, OthersSame DEF Running
<1>2. pc'[t] # "idle" => call'[t] = Call(t)
  BY CallIs, CallStays DEF Running
<1>3. pc'[t] = "idle" => call'[t] = NULL
  BY CallIs DEF Running
<1>4. pc[t] # "idle" => call[t] = Call(t)
  BY CallIs DEF Running
<1>5. DOMAIN call = Threads /\ DOMAIN call' = Threads
  BY CallIs
<1>6. /\ call = [u \in Threads |-> call[u]]
      /\ call' = [u \in Threads |-> call'[u]]
  BY DEF call
<1> QED BY <1>1, <1>2, <1>3, <1>4, <1>5, <1>6

LEMMA WroteStep ==
    ASSUME Inductive, NEW t \in Threads, Step(t)
    PROVE  /\ pc'[t] = "stored" => wrote' = [wrote EXCEPT ![t] = TRUE]
           /\ pc'[t] # "stored" => wrote' = [wrote EXCEPT ![t] = FALSE]
           /\ pc'[t] # "stored" /\ pc[t] # "stored" => wrote' = wrote
<1>1. \A u \in Threads : u # t => wrote'[u] = wrote[u]
  BY CallIs, OthersSame
<1>2. wrote'[t] = (pc'[t] = "stored") /\ wrote[t] = (pc[t] = "stored")
  BY CallIs
<1>3. /\ wrote = [u \in Threads |-> wrote[u]]
      /\ wrote' = [u \in Threads |-> wrote'[u]]
  BY DEF wrote
<1>4. pc'[t] = "stored" => wrote'[t] = TRUE
  BY <1>2
<1>5. pc'[t] # "stored" => wrote'[t] = FALSE
  BY <1>2
<1>6. pc[t] # "stored" => wrote[t] = FALSE
  BY <1>2
<1> QED BY <1>1, <1>3, <1>4, <1>5, <1>6

LEMMA MapStep ==
    ASSUME Inductive, Inductive', OneNode, OneNode', NEW t \in Threads, Step(t), Fresh(t), Holds(t)
    PROVE  /\ SetVal(t) \/ Store(t) => map' = [map EXCEPT ![Key(t)] = Call(t).val]
           /\ ~SetVal(t) /\ ~Store(t) => map' = map
<1>1. /\ map = [k \in Keys |-> Shown(k)]
      /\ map' = [k \in Keys |-> Shown(k)']
  BY DEF map
<1>2. \A k \in Keys : Shown(k)' = IF (SetVal(t) \/ Store(t)) /\ Key(t) = k THEN Call(t).val ELSE Shown(k)
  <2> SUFFICES ASSUME NEW k \in Keys
               PROVE  Shown(k)' = IF (SetVal(t) \/ Store(t)) /\ Key(t) = k THEN Call(t).val ELSE Shown(k)
    OBVIOUS
  <2> QED BY ShownStep
<1>3. CASE ~SetVal(t) /\ ~Store(t)
  <2>1. \A k \in Keys : map'[k] = map[k]
    BY <1>1, <1>2, <1>3
  <2> QED BY <1>1, <1>2, <1>3
<1>4. CASE SetVal(t) \/ Store(t)
  <2>1. PICK l : l = Key(t)
    OBVIOUS
  <2>2. PICK x : x = Call(t).val
    OBVIOUS
  <2>3. \A k \in Keys : Shown(k)' = IF l = k THEN x ELSE Shown(k)
    BY <1>2, <1>4, <2>1, <2>2
  <2>4. map' = [map EXCEPT ![l] = x]
    BY <1>1, <2>3
  <2> QED BY <1>4, <2>1, <2>2, <2>4
<1> QED BY <1>3, <1>4

\* A call that goes on answers nothing.
LEMMA AnswerStays ==
    ASSUME Inductive, NEW t \in Threads, Step(t), pc'[t] # "idle"
    PROVE  answer' = answer
<1>1. Typed /\ pc \in [Threads -> PCs]
  BY DEF Inductive, Typed
<1>2. \A x : ~Return(t, x)
  BY <1>1 DEF Return, Goto
<1>3. NextSlot(t) => answer' = answer
  BY <1>2 DEF NextSlot
<1>4. Fail(t) => answer' = answer
  BY <1>2 DEF Fail
<1>5. CASE GetNode(t) \/ GetCheck(t)
  BY <1>2, <1>3, <1>5 DEF GetNode, GetCheck
<1>6. CASE NoPath(t) \/ MoveFails(t) \/ TakeFails(t)
  BY <1>4, <1>6 DEF NoPath, MoveFails, TakeFails
<1>7. CASE Stored(t)
  BY <1>2, <1>7 DEF Stored
<1>8. CASE \/ BeginGet(t) \/ BeginPut(t) \/ GetVersion(t) \/ GetVal(t) \/ PutScan(t) \/ Fill(t) \/ Update(t) \/ SetVal(t)
           \/ Store(t) \/ Search(t) \/ LockLower(t) \/ LockHigher(t) \/ Copy(t) \/ Copied(t) \/ Take(t)
  BY <1>8 DEF BeginGet, BeginPut, GetVersion, GetVal, PutScan, Fill, Update, SetVal, Store, Search, LockLower, LockHigher,
     Copy, Copied, Take, hist
<1> QED BY <1>5, <1>6, <1>7, <1>8 DEF Step, get, put

LEMMA PutEnds ==
    ASSUME Inductive, NEW t \in Threads, Step(t), pc'[t] = "idle", pc[t] \in Putting
    PROVE  answer' = [answer EXCEPT ![t] = NULL] /\ may' = [may EXCEPT ![t] = {}]
<1>1. Typed /\ pc \in [Threads -> PCs]
  BY DEF Inductive, Typed
<1>2. ~BeginGet(t) /\ ~BeginPut(t) /\ ~get(t)
  BY BeginSteps, GetSteps DEF Putting, Moving
<1>3. put(t)
  BY <1>2 DEF Step
<1>4. Stored(t) \/ NoPath(t) \/ MoveFails(t) \/ TakeFails(t)
  BY <1>3, PutSteps
<1>5. CASE Stored(t)
  BY <1>5 DEF Stored, Return
<1>6. CASE NoPath(t) \/ MoveFails(t) \/ TakeFails(t)
  <2>1. Fail(t)
    BY <1>6 DEF NoPath, MoveFails, TakeFails
  <2> QED BY <1>1, <2>1, FailGoes
<1> QED BY <1>4, <1>5, <1>6

LEMMA NextSlotEnds ==
    ASSUME Inductive, NEW t \in Threads, NextSlot(t), pc'[t] = "idle", NEW n \in 1 .. 2 * SLOTS_NUM, n = loc[t].n
    PROVE  n = 2 * SLOTS_NUM /\ answer' = [answer EXCEPT ![t] = NULL] /\ may' = [may EXCEPT ![t] = {}]
<1>1. pc \in [Threads -> PCs]
  BY DEF Inductive, Typed
<1>2. ~(loc[t].n < 2 * SLOTS_NUM)
  BY <1>1 DEF NextSlot, Goto
<1>3. Return(t, NULL)
  BY <1>2 DEF NextSlot
<1>4. n = 2 * SLOTS_NUM
  BY <1>2, Constants
<1> QED BY <1>3, <1>4 DEF Return

\* A get answers what it may.
LEMMA GetEnds ==
    ASSUME Inductive, NEW t \in Threads, Step(t), Finds(t), pc'[t] = "idle", pc[t] \in Getting
    PROVE  (\E x \in may[t] : answer' = [answer EXCEPT ![t] = x]) /\ may' = [may EXCEPT ![t] = {}]
<1>1. pc \in [Threads -> PCs]
  BY DEF Inductive, Typed
<1>2. PICK k \in Keys : k = Key(t)
  BY Gets
<1>3. PICK n \in 1 .. 2 * SLOTS_NUM : n = loc[t].n
  BY LocTyped DEF Inductive
<1>4. At(t) = Scan[k][n]
  BY <1>2, <1>3 DEF At
<1>5. /\ pc[t] = "getCheck" => loc[t].got \in may[t]
      /\ NULL \in may[t] \/ Ahead(k, n)
      /\ pc[t] \in {"getVal", "getCheck"} /\ (loc[t].ver # key_versions[Scan[k][n]] \/ Odd(loc[t].ver)) =>
            NULL \in may[t] \/ Ahead(k, n + 1)
  BY <1>2, <1>3 DEF Finds
<1>6. n = 2 * SLOTS_NUM => ~Ahead(k, n + 1)
  BY LastSlot DEF Ahead
<1>7. ~BeginGet(t) /\ ~BeginPut(t) /\ ~put(t)
  <2>1. ~BeginGet(t) /\ ~BeginPut(t)
    BY BeginSteps
  <2>2. ~put(t)
    BY PutSteps DEF Getting
  <2> QED BY <2>1, <2>2
<1>8. get(t)
  BY <1>7 DEF Step
<1>9. CASE GetNode(t)
  <2>1. ~Matches(table[Scan[k][n]], k) /\ NextSlot(t)
    BY <1>1, <1>2, <1>4, <1>9 DEF GetNode, Goto
  <2>2. n = 2 * SLOTS_NUM /\ answer' = [answer EXCEPT ![t] = NULL] /\ may' = [may EXCEPT ![t] = {}]
    BY <1>3, <2>1, NextSlotEnds
  <2>3. NULL \in may[t]
    BY <1>5, <1>6, <2>1, <2>2, AheadStep
  <2> QED BY <2>2, <2>3
<1>10. CASE GetCheck(t)
  <2>1. pc[t] = "getCheck"
    BY <1>10 DEF GetCheck
  <2>2. CASE loc[t].ver # key_versions[Scan[k][n]] \/ Odd(loc[t].ver)
    <3>1. NextSlot(t)
      BY <1>4, <1>10, <2>2 DEF GetCheck
    <3>2. n = 2 * SLOTS_NUM /\ answer' = [answer EXCEPT ![t] = NULL] /\ may' = [may EXCEPT ![t] = {}]
      BY <1>3, <3>1, NextSlotEnds
    <3>3. NULL \in may[t]
      BY <1>5, <1>6, <2>1, <2>2, <3>2
    <3> QED BY <3>2, <3>3
  <2>3. CASE ~(loc[t].ver # key_versions[Scan[k][n]] \/ Odd(loc[t].ver))
    <3>1. Return(t, loc[t].got)
      BY <1>4, <1>10, <2>3 DEF GetCheck
    <3> QED BY <1>5, <2>1, <3>1 DEF Return
  <2> QED BY <2>2, <2>3
<1> QED BY <1>8, <1>9, <1>10, GetSteps

\* Every step that loses no race is one of Dictionary, or none.
LEMMA StepRefines ==
    ASSUME Ordered, Ordered', NEW t \in Threads, Step(t), faults' = {}
    PROVE  Dict!Next \/ UNCHANGED Dict!dict
<1>1. Inductive /\ Inductive' /\ Upward /\ Fresh(t) /\ Holds(t)
  BY DEF Ordered, Answers
<1>2. OneNode /\ OneNode' /\ Finds(t)
  <2>1. faults = {}
    BY <1>1, FaultsGrow
  <2>2. Faultless /\ Faultless'
    BY <2>1 DEF Ordered, Answers
  <2> QED BY <2>2 DEF Faultless
<1>3. /\ SetVal(t) \/ Store(t) => map' = [map EXCEPT ![Key(t)] = Call(t).val]
      /\ ~SetVal(t) /\ ~Store(t) => map' = map
  BY <1>1, <1>2, MapStep
<1>4. pc \in [Threads -> PCs] /\ pc[t] \in PCs /\ may \in [Threads -> SUBSET (Vals \cup {NULL})]
  BY <1>1 DEF Inductive, Typed
<1>5. /\ \A k : Dict!Get(k) = Get(k) /\ \A v : Dict!Put(k, v) = Put(k, v)
      /\ \A k \in Keys : Dict!Putting(k) <=> Putters(k) # {}
      /\ \A k \in Keys : \A x : Dict!MayAnswer(k, x) = MayAnswer(k, x)
  BY <1>1, DictSame
<1>6. call[t] = IF Running(t) THEN Call(t) ELSE NULL
  BY CallIs
<1>7. CASE BeginGet(t)
  <2>1. pc[t] = "idle" /\ pc'[t] = "get" /\ todo[t] # <<>> /\ Call(t).op = "get" /\ ~SetVal(t) /\ ~Store(t)
    BY <1>1, <1>7, BeginSteps DEF SetVal, Store
  <2>2. PICK k \in Keys : k = Key(t)
    BY <1>1, <2>1, CallTyped DEF Inductive
  <2>3. Call(t) = Get(k)
    <3>1. Call(t) \in Calls
      BY <1>1, <2>1, CallTyped DEF Inductive
    <3> QED BY <2>1, <2>2, <3>1 DEF Calls, Get, Put, Key
  <2>4. call[t] = NULL /\ call' = [call EXCEPT ![t] = Dict!Get(k)]
    BY <1>1, <1>5, <1>6, <2>1, <2>3, CallStep DEF Running
  <2>5. may' = [may EXCEPT ![t] = {map[k]} \cup {x \in {NULL} : Dict!Putting(k)}]
    <3>1. map[k] = Shown(k)
      BY CallIs
    <3> QED BY <1>5, <1>7, <2>2, <3>1 DEF BeginGet
  <2>6. map' = map /\ wrote' = wrote /\ answer' = answer
    BY <1>1, <1>3, <1>7, <2>1, WroteStep DEF BeginGet
  <2>7. Dict!InvokeGet(t, k)
    BY <2>4, <2>5, <2>6 DEF Dict!InvokeGet
  <2> QED BY <2>7 DEF Dict!Next
<1>8. CASE BeginPut(t)
  <2>1. pc[t] = "idle" /\ pc'[t] = "put" /\ todo[t] # <<>> /\ Call(t).op = "put" /\ ~SetVal(t) /\ ~Store(t)
    BY <1>1, <1>8, BeginSteps DEF SetVal, Store
  <2>2. Call(t) \in Calls /\ Key(t) \in Keys /\ Call(t).val \in Vals
    BY <1>1, <2>1, CallTyped DEF Inductive
  <2>3. PICK k \in Keys, v \in Vals : k = Key(t) /\ v = Call(t).val
    BY <2>2
  <2>4. Call(t) = Put(k, v)
    BY <2>1, <2>2, <2>3 DEF Calls, Get, Put, Key
  <2>5. call[t] = NULL /\ call' = [call EXCEPT ![t] = Dict!Put(k, v)]
    BY <1>1, <1>5, <1>6, <2>1, <2>4, CallStep DEF Running
  <2>6. may' = Dict!MayAnswer(k, NULL)
    BY <1>5, <1>8, <2>3 DEF BeginPut
  <2>7. map' = map /\ wrote' = wrote /\ answer' = answer
    BY <1>1, <1>3, <1>8, <2>1, WroteStep DEF BeginPut
  <2>8. Dict!InvokePut(t, k, v)
    BY <2>5, <2>6, <2>7 DEF Dict!InvokePut
  <2> QED BY <2>3, <2>8 DEF Dict!Next
<1>9. CASE SetVal(t) \/ Store(t)
  <2>1. pc[t] \in Putting /\ pc[t] # "stored" /\ pc'[t] = "stored"
    BY <1>4, <1>9 DEF SetVal, Store, Goto, Putting
  <2>2. Call(t) = Put(Key(t), Call(t).val) /\ Call(t).val \in Vals /\ Key(t) \in Keys /\ Running(t)
    BY <1>1, <2>1, Gets
  <2>3. PICK k \in Keys, v \in Vals : k = Key(t) /\ v = Call(t).val
    BY <2>2
  <2>4. call[t] = Dict!Put(k, v) /\ ~wrote[t]
    BY <1>5, <1>6, <2>1, <2>2, <2>3, CallIs
  <2>5. map' = [map EXCEPT ![k] = v] /\ may' = Dict!MayAnswer(k, v)
    BY <1>3, <1>5, <1>9, <2>3 DEF SetVal, Store
  <2>6. wrote' = [wrote EXCEPT ![t] = TRUE] /\ call' = call /\ answer' = answer
    BY <1>1, <2>1, <2>2, WroteStep, CallStep, AnswerStays DEF Running
  <2>7. Dict!Effect(t, k, v)
    BY <2>4, <2>5, <2>6 DEF Dict!Effect
  <2> QED BY <2>3, <2>7 DEF Dict!Next
<1>10. CASE ~BeginGet(t) /\ ~BeginPut(t) /\ ~SetVal(t) /\ ~Store(t) /\ pc'[t] = "idle" /\ pc[t] \in Getting
  <2>1. PICK k \in Keys : k = Key(t)
    BY <1>1, <1>10, Gets
  <2>2. call[t] = Dict!Get(k)
    BY <1>1, <1>5, <1>6, <1>10, <2>1, Gets
  <2>3. (\E x \in may[t] : answer' = [answer EXCEPT ![t] = x]) /\ may' = [may EXCEPT ![t] = {}]
    BY <1>1, <1>2, <1>10, GetEnds
  <2>4. call' = [call EXCEPT ![t] = NULL] /\ map' = map /\ wrote' = wrote
    BY <1>1, <1>3, <1>10, CallStep, WroteStep DEF Getting
  <2>5. Dict!AnswerGet(t, k)
    BY <2>2, <2>3, <2>4 DEF Dict!AnswerGet
  <2> QED BY <2>5 DEF Dict!Next
<1>11. CASE ~BeginGet(t) /\ ~BeginPut(t) /\ ~SetVal(t) /\ ~Store(t) /\ pc'[t] = "idle" /\ pc[t] \in Putting
  <2>1. Call(t) = Put(Key(t), Call(t).val) /\ Call(t).val \in Vals /\ Key(t) \in Keys /\ Running(t)
    BY <1>1, <1>11, Gets
  <2>2. PICK k \in Keys, v \in Vals : k = Key(t) /\ v = Call(t).val
    BY <2>1
  <2>3. call[t] = Dict!Put(k, v)
    BY <1>5, <1>6, <2>1, <2>2
  <2>4. answer' = [answer EXCEPT ![t] = NULL]
    BY <1>1, <1>11, PutEnds
  <2>5. may' = may
    <3>1. may' = [may EXCEPT ![t] = {}]
      BY <1>1, <1>11, PutEnds
    <3>2. may[t] = {}
      BY <1>1, <1>11 DEF Holds, Putting, Getting, Moving
    <3> QED BY <1>4, <3>1, <3>2
  <2>6. call' = [call EXCEPT ![t] = NULL] /\ map' = map /\ wrote' = [wrote EXCEPT ![t] = FALSE]
    BY <1>1, <1>3, <1>11, CallStep, WroteStep
  <2>7. Dict!AnswerPut(t, k, v)
    BY <2>3, <2>4, <2>5, <2>6 DEF Dict!AnswerPut
  <2> QED BY <2>2, <2>7 DEF Dict!Next
<1>12. CASE ~BeginGet(t) /\ ~BeginPut(t) /\ ~SetVal(t) /\ ~Store(t) /\ pc'[t] # "idle"
  <2>1. pc[t] # "idle"
    BY <1>1, <1>12, GetSteps, PutSteps DEF Step
  <2>2. pc'[t] # "stored" /\ pc[t] # "stored"
    <3>1. pc'[t] # "stored"
      BY <1>1, <1>12, StepTo
    <3>2. pc[t] = "stored" => FALSE
      BY <1>1, <1>12, GetSteps, PutSteps DEF Step
    <3> QED BY <3>1, <3>2
  <2>3. map' = map /\ call' = call /\ wrote' = wrote /\ answer' = answer
    BY <1>1, <1>3, <1>12, <2>1, <2>2, CallStep, WroteStep, AnswerStays
  <2>4. may' = may
    BY <1>1, <1>12, MaySteps
  <2> QED BY <2>3, <2>4 DEF Dict!dict
<1>13. pc[t] \in Getting \/ pc[t] \in Putting \/ BeginGet(t) \/ BeginPut(t)
  <2>1. pc[t] = "idle" \/ pc[t] \in Getting \/ pc[t] \in Putting
    BY <1>1, Gets
  <2>2. pc[t] = "idle" => BeginGet(t) \/ BeginPut(t)
    BY <1>1, GetSteps, PutSteps DEF Step
  <2> QED BY <2>1, <2>2
<1> QED BY <1>7, <1>8, <1>9, <1>10, <1>11, <1>12, <1>13

LEMMA InitRefines == Init => Dict!Init
<1> SUFFICES ASSUME Init PROVE Dict!Init
  OBVIOUS
<1>1. \A s \in Slots : table[s] = NULL
  BY DEF Init
<1>2. \A t \in Threads : pc[t] = "idle"
  BY DEF Init
<1>3. map = [k \in Keys |-> NULL]
  <2>1. ASSUME NEW k \in Keys PROVE Shown(k) = NULL
    <3>1. \A i \in DOMAIN Scan[k] : ~Matches(table[Scan[k][i]], k)
      BY <1>1, ScanSlots DEF Matches
    <3> QED BY <3>1 DEF Shown
  <2> QED BY <2>1 DEF map
<1>4. call = [t \in Threads |-> NULL]
  BY <1>2 DEF call, Running
<1>5. wrote = [t \in Threads |-> FALSE]
  BY <1>2 DEF wrote
<1>6. may = [t \in Threads |-> {}] /\ answer = [t \in Threads |-> NULL]
  BY DEF Init
<1> QED BY <1>3, <1>4, <1>5, <1>6 DEF Dict!Init

LEMMA NextRefines ==
    Ordered /\ Ordered' /\ [Next]_vars => [Dict!Next \/ faults' # {}]_(Dict!dict)
<1> SUFFICES ASSUME Ordered, Ordered', [Next]_vars, faults' = {} PROVE Dict!Next \/ UNCHANGED Dict!dict
  OBVIOUS
<1>1. ASSUME NEW t \in Threads, Step(t) PROVE Dict!Next \/ UNCHANGED Dict!dict
  BY <1>1, StepRefines
<1>2. CASE UNCHANGED vars
  <2>1. map' = map
    BY <1>2 DEF vars, shared, hist, map, Shown
  <2>2. call' = call /\ wrote' = wrote /\ may' = may /\ answer' = answer
    BY <1>2 DEF vars, shared, hist, call, wrote, Running, Call
  <2> QED BY <2>1, <2>2 DEF Dict!dict
<1> QED BY <1>1, <1>2 DEF Next, Finished, Step

\* Threads that use the index at the same time see the dictionary it promises:
\* puts take effect one by one and gets answer what their key held meanwhile,
\* through all moves between the buckets, as long as no race is lost.
THEOREM AnswersAsDictionary == Spec => ImplementsDictionary
<1>1. Init => Dict!Init
  BY InitRefines
<1>2. Ordered /\ Ordered' /\ [Next]_vars => [Dict!Next \/ faults' # {}]_(Dict!dict)
  BY NextRefines
<1> QED BY <1>1, <1>2, OrderedAlways, PTL DEF Spec, ImplementsDictionary
-----------------------------------------------------------------------------
(* The search is exact.                                                     *)

\* From slot to slot of the node it holds, beginning in a bucket of k.
Walk(z, k) ==
    /\ z \in Seq(Slots) /\ Len(z) >= 1 /\ z[1] \in Buckets(k)
    /\ \A j \in 1 .. Len(z) - 1 : table[z[j]] # NULL /\ z[j + 1] \in Buckets(table[z[j]].key)

\* Moving the nodes of z makes room for k.
Room(z, k) == Walk(z, k) /\ table[z[Len(z)]] = NULL

\* Every walk that makes room and meets no slot twice begins with a queued path.
CompleteFor(q, k) ==
    /\ \A a \in DOMAIN q : Walk(q[a].path, k)
    /\ \A z \in Seq(Slots) : Room(z, k) /\ Simple(z) => \E a \in DOMAIN q : Begins(q[a].path, z)

\* The path makes room, and no walk that does is shorter.
ShortestFor(p, k) == Room(p, k) /\ \A z \in Seq(Slots) : Room(z, k) => Len(p) <= Len(z)

\* Nobody runs while the main thread has calls to make, so nothing changes
\* between two steps of its search.
Single   == \A t \in Workers : Running(t) => Loaded
Complete == pc[main] = "search" => CompleteFor(loc[main].que, Key(main))
Shortest == pc[main] = "move" /\ loc[main].i = Len(loc[main].path) => ShortestFor(loc[main].path, Key(main))

Loading == Single /\ Complete /\ Shortest
-----------------------------------------------------------------------------
\* A walk and its slots.
LEMMA WalkIs ==
    ASSUME NEW k, NEW z, Walk(z, k)
    PROVE  /\ z \in Seq(Slots) /\ Len(z) \in Nat /\ Len(z) >= 1 /\ Len(z) \in 1 .. Len(z)
           /\ \A j \in 1 .. Len(z) : z[j] \in Slots
           /\ z[1] \in Buckets(k)
           /\ \A j \in 1 .. Len(z) - 1 : table[z[j]] # NULL /\ z[j + 1] \in Buckets(table[z[j]].key)
<1>1. z \in Seq(Slots) /\ Len(z) \in Nat /\ Len(z) >= 1
  BY DEF Walk
<1>2. \A j \in 1 .. Len(z) : z[j] \in Slots
  BY ONLY <1>1
<1> QED
  BY <1>1, <1>2 DEF Walk

\* A walk that meets a slot twice can be cut short.
LEMMA CutShort ==
    ASSUME NEW k, NEW y, Room(y, k), NEW a \in 1 .. Len(y), NEW b \in 1 .. Len(y), a < b, y[a] = y[b]
    PROVE  \E w : Room(w, k) /\ Len(w) < Len(y)
<1>1. /\ y \in Seq(Slots) /\ Len(y) \in Nat /\ Len(y) >= 1
      /\ \A j \in 1 .. Len(y) : y[j] \in Slots
      /\ y[1] \in Buckets(k)
      /\ \A j \in 1 .. Len(y) - 1 : table[y[j]] # NULL /\ y[j + 1] \in Buckets(table[y[j]].key)
      /\ table[y[Len(y)]] = NULL
  BY WalkIs DEF Room
<1>2. PICK L \in Nat : L = Len(y)
  BY <1>1
<1>3. PICK d \in Nat : d = b - a /\ d >= 1
  BY <1>1
<1>4. PICK n \in Nat : n = L - d /\ n >= 1 /\ a <= n /\ n < L
  <2>1. L - d \in Nat /\ L - d >= 1 /\ a <= L - d /\ L - d < L
    BY ONLY <1>2, <1>3, a \in 1 .. Len(y), b \in 1 .. Len(y)
  <2> QED
    BY <2>1
<1> DEFINE v == [j \in 1 .. n |-> IF j <= a THEN y[j] ELSE y[j + d]]
<1>5. \A j \in 1 .. n : v[j] = IF j <= a THEN y[j] ELSE y[j + d]
  OBVIOUS
<1>6. \A j \in 1 .. n : v[j] \in Slots
  <2> SUFFICES ASSUME NEW j \in 1 .. n PROVE v[j] \in Slots
    OBVIOUS
  <2>1. j \in 1 .. Len(y) /\ j + d \in 1 .. Len(y)
    BY ONLY <1>2, <1>3, <1>4, j \in 1 .. n
  <2> QED
    BY <1>1, <1>5, <2>1, Zenon
<1>7. v \in Seq(Slots) /\ Len(v) = n
  BY <1>4, <1>6
<1> HIDE DEF v
<1>8. v[1] = y[1]
  BY <1>4, <1>5
<1>9. v[n] = y[L]
  <2>1. CASE n = a
    <3>1. b = L
      BY <1>2, <1>3, <1>4, <2>1
    <3> QED
      BY <1>4, <1>5, <2>1, <3>1
  <2>2. CASE n # a
    <3>1. ~(n <= a) /\ n + d = L /\ n \in 1 .. n
      BY <1>2, <1>3, <1>4, <2>2
    <3> QED
      BY <1>5, <3>1
  <2> QED
    BY <2>1, <2>2
<1>10. ASSUME NEW j \in 1 .. n - 1
       PROVE  table[v[j]] # NULL /\ v[j + 1] \in Buckets(table[v[j]].key)
  <2>1. /\ j \in 1 .. n /\ j + 1 \in 1 .. n /\ j \in 1 .. Len(y) - 1 /\ j + d \in 1 .. Len(y) - 1
        /\ (j + d) + 1 = (j + 1) + d
    BY ONLY <1>2, <1>3, <1>4, j \in 1 .. n - 1
  <2>2. CASE j < a
    <3>1. v[j] = y[j] /\ v[j + 1] = y[j + 1]
      BY <1>5, <2>1, <2>2
    <3> QED
      BY <1>1, <2>1, <3>1, Zenon
  <2>3. CASE j = a
    <3>1. j <= a /\ ~(j + 1 <= a)
      BY <2>1, <2>3
    <3>2. v[j] = y[j] /\ v[j + 1] = y[(j + 1) + d]
      BY <1>5, <2>1, <3>1, Zenon
    <3>3. y[j + d] = y[j]
      BY <1>3, <2>3
    <3>4. v[j] = y[j + d] /\ v[j + 1] = y[(j + d) + 1]
      BY <2>1, <3>2, <3>3, Zenon
    <3> QED
      BY <1>1, <2>1, <3>4, Zenon
  <2>4. CASE j > a
    <3>1. ~(j <= a) /\ ~(j + 1 <= a)
      BY <2>1, <2>4
    <3>2. v[j] = y[j + d] /\ v[j + 1] = y[(j + 1) + d]
      BY <1>5, <2>1, <3>1, Zenon
    <3>3. v[j + 1] = y[(j + d) + 1]
      BY <2>1, <3>2, Zenon
    <3> QED
      BY <1>1, <2>1, <3>2, <3>3, Zenon
  <2> QED
    BY <2>1, <2>2, <2>3, <2>4
<1>11. Walk(v, k)
  BY <1>1, <1>4, <1>7, <1>8, <1>10 DEF Walk
<1>12. Room(v, k)
  BY <1>1, <1>2, <1>7, <1>9, <1>11 DEF Room
<1>13. Len(v) < Len(y)
  BY <1>2, <1>4, <1>7
<1> QED
  BY <1>12, <1>13, Zenon

\* If moving nodes can make room, then along a walk that meets no slot twice and is as short as any.
LEMMA SimpleWalk ==
    ASSUME NEW k, NEW z, Room(z, k)
    PROVE  \E y : Room(y, k) /\ Simple(y) /\ y \in Seq(Slots) /\ Len(y) \in Nat /\ Len(y) <= Len(z)
<1> DEFINE Lengths == {n \in Nat : \E y : Room(y, k) /\ Len(y) = n}
<1>1. \A y : Room(y, k) => y \in Seq(Slots) /\ Len(y) \in Nat
  BY WalkIs DEF Room
<1>2. Len(z) \in Lengths
  BY <1>1
<1>3. PICK m \in Lengths : \A n \in Lengths : m <= n
  <2>1. Lengths \subseteq Nat /\ Lengths # {}
    BY <1>2
  <2> HIDE DEF Lengths
  <2> QED
    BY <2>1, LeastNumber
<1>4. PICK y : Room(y, k) /\ Len(y) = m
  BY <1>3
<1>5. Simple(y)
  <2> SUFFICES ASSUME NEW a \in 1 .. Len(y), NEW b \in 1 .. Len(y), y[a] = y[b], a # b PROVE FALSE
    BY <1>1, <1>4 DEF Simple
  <2>1. ~\E w : Room(w, k) /\ Len(w) < Len(y)
    BY <1>1, <1>3, <1>4
  <2>2. a < b \/ b < a
    BY <1>1, <1>4
  <2>3. Room(y, k) /\ y[b] = y[a]
    BY <1>4
  <2>4. ~(a < b)
    BY ONLY <2>1, <2>3, CutShort, a \in 1 .. Len(y), b \in 1 .. Len(y), Zenon
  <2>5. ~(b < a)
    BY ONLY <2>1, <2>3, CutShort, a \in 1 .. Len(y), b \in 1 .. Len(y), Zenon
  <2> QED
    BY <2>2, <2>4, <2>5
<1>6. m <= Len(z)
  <2> HIDE DEF Lengths
  <2> QED
    BY <1>2, <1>3
<1> QED
  BY <1>1, <1>4, <1>5, <1>6

\* There are finitely many slots: the buckets are numbers below table_size.
LEMMA SlotsFinite == IsFiniteSet(Slots) /\ Cardinality(Slots) \in Nat
<1> DEFINE used == {h1(k) : k \in Keys} \cup {h2(k) : k \in Keys}
           rows == 0 .. SLOTS_NUM - 1
           size == 0 .. table_size - 1
<1>1. table_size \in Nat \ {0} /\ SLOTS_NUM \in Nat \ {0}
  BY Constants DEF table_size
<1>2. used \subseteq size
  <2> SUFFICES ASSUME NEW k \in Keys PROVE h1(k) \in size /\ h2(k) \in size
    OBVIOUS
  <2>1. k \in Nat /\ k * 109 \in Nat
    BY KeysAssumption
  <2> HIDE DEF size
  <2>2. \A T \in Nat \ {0}, n \in Nat : n % T \in 0 .. T - 1
    BY Remainder
  <2>3. k % table_size \in 0 .. table_size - 1 /\ (k * 109) % table_size \in 0 .. table_size - 1
    BY ONLY <1>1, <2>1, <2>2
  <2> QED
    BY <2>3 DEF h1, h2, size
<1>3. IsFiniteSet(size) /\ IsFiniteSet(rows)
  <2>1. 0 \in Int /\ table_size - 1 \in Int /\ SLOTS_NUM - 1 \in Int
    BY <1>1
  <2> QED
    BY <2>1, FS_Interval
<1> HIDE DEF used, rows, size
<1>4. IsFiniteSet(used)
  <2>1. used \in SUBSET size
    BY <1>2
  <2> QED
    BY <1>3, <2>1, FS_Subset
<1>5. IsFiniteSet(used \X rows)
  BY <1>3, <1>4, FS_Product
<1>6. Slots = used \X rows
  BY DEF Slots, used, rows
<1> QED
  BY <1>5, <1>6, FS_CardinalityType

\* A path that meets no slot twice is not longer than there are slots.
LEMMA SimpleIsShort ==
    ASSUME NEW p \in Seq(Slots), Simple(p)
    PROVE  Len(p) <= Cardinality(Slots)
<1>1. Len(p) \in Nat /\ p \in [1 .. Len(p) -> Slots] /\ DOMAIN p = 1 .. Len(p)
  BY ONLY p \in Seq(Slots)
<1>2. IsFiniteSet(1 .. Len(p)) /\ Cardinality(1 .. Len(p)) = Len(p)
  <2>1. 1 \in Int /\ Len(p) \in Int
    BY <1>1
  <2>2. /\ IsFiniteSet(1 .. Len(p))
        /\ Cardinality(1 .. Len(p)) = IF 1 > Len(p) THEN 0 ELSE Len(p) - 1 + 1
    BY <2>1, FS_Interval
  <2> QED
    BY <1>1, <2>2
<1>3. IsFiniteSet(Slots) /\ Cardinality(Slots) \in Nat
  BY SlotsFinite
<1>4. ~(Cardinality(Slots) < Cardinality(1 .. Len(p)))
  <2> SUFFICES ASSUME Cardinality(Slots) < Cardinality(1 .. Len(p)) PROVE FALSE
    OBVIOUS
  <2>1. \E x, y \in 1 .. Len(p) : x # y /\ p[x] = p[y]
    BY ONLY <1>1, <1>2, <1>3, Cardinality(Slots) < Cardinality(1 .. Len(p)), FS_PigeonHole, Zenon
  <2> QED
    BY <1>1, <2>1 DEF Simple
<1> QED
  BY <1>1, <1>2, <1>3, <1>4

\* The slots that a walk of at most d moves from k gets to, for each d up to N.
Levels(f, k, N) ==
    f = [d \in 0 .. N |->
           IF d = 0 THEN Range(Scan[k])
           ELSE f[d - 1] \cup UNION {Range(Scan[table[s].key]) : s \in {x \in f[d - 1] : table[x] # NULL}}]

\* They are defined, for every N.
LEMMA LevelsExist ==
    ASSUME NEW k
    PROVE  \A N \in Nat : \E f : Levels(f, k, N)
<1> DEFINE Missing == {m \in Nat : ~\E f : Levels(f, k, m)}
<1>1. SUFFICES ASSUME Missing # {} PROVE FALSE
  OBVIOUS
<1>2. PICK m \in Missing : \A n \in Missing : m <= n
  <2>1. Missing \subseteq Nat
    OBVIOUS
  <2> HIDE DEF Missing
  <2> QED
    BY <1>1, <2>1, LeastNumber
<1>3. m \in Nat /\ ~\E f : Levels(f, k, m)
  BY <1>2
<1> DEFINE Level(f, d) ==
             IF d = 0 THEN Range(Scan[k])
             ELSE f[d - 1] \cup UNION {Range(Scan[table[s].key]) : s \in {x \in f[d - 1] : table[x] # NULL}}
<1>4. CASE m = 0
  <2> DEFINE f == [d \in 0 .. 0 |-> Range(Scan[k])]
  <2>1. f = [d \in 0 .. 0 |-> Level(f, d)]
    OBVIOUS
  <2>2. Levels(f, k, m)
    BY <1>4, <2>1 DEF Levels
  <2> QED
    BY <1>3, <2>2
<1>5. CASE m # 0
  <2>1. PICK l \in Nat : m = l + 1 /\ l \notin Missing
    <3>1. m - 1 \in Nat /\ m = (m - 1) + 1 /\ ~(m <= m - 1)
      BY <1>3, <1>5
    <3> HIDE DEF Missing
    <3> QED
      BY <1>2, <3>1
  <2>2. PICK f : Levels(f, k, l)
    BY <2>1
  <2>3. f = [d \in 0 .. l |-> Level(f, d)]
    BY <2>2 DEF Levels
  <2>4. \A d \in 0 .. l : f[d] = Level(f, d)
    <3> HIDE DEF Level
    <3> QED
      BY <2>3
  <2> DEFINE g == [d \in 0 .. m |-> IF d <= l THEN f[d] ELSE Level(f, m)]
  <2>5. \A d \in 0 .. m : g[d] = IF d <= l THEN f[d] ELSE Level(f, m)
    OBVIOUS
  <2>6. ASSUME NEW d \in 0 .. m PROVE g[d] = Level(g, d)
    <3>1. d # 0 => d - 1 \in 0 .. m /\ d - 1 <= l
      BY <2>1
    <3>2. d # 0 => g[d - 1] = f[d - 1]
      <4> HIDE DEF g
      <4> QED
        BY <2>5, <3>1
    <3>3. Level(g, d) = Level(f, d)
      <4> HIDE DEF g
      <4> QED
        BY <3>2
    <3>4. CASE d <= l
      <4>1. d \in 0 .. l
        BY <2>1, <3>4
      <4> HIDE DEF g, Level
      <4> QED
        BY <2>4, <2>5, <3>3, <3>4, <4>1
    <3>5. CASE ~(d <= l)
      <4>1. d = m
        BY <2>1, <3>5
      <4> HIDE DEF g, Level
      <4> QED
        BY <2>5, <3>3, <3>5, <4>1
    <3> QED
      BY <3>4, <3>5
  <2>7. g = [d \in 0 .. m |-> Level(g, d)]
    <3>1. DOMAIN g = 0 .. m
      OBVIOUS
    <3> HIDE DEF Level
    <3> QED
      BY <2>6, <3>1
  <2>8. Levels(g, k, m)
    <3> HIDE DEF g
    <3> QED
      BY <2>7 DEF Levels
  <2> QED
    BY <1>3, <2>8
<1> QED
  BY <1>4, <1>5

\* A walk goes on to a bucket of the node it has come to.
LEMMA WalkOn ==
    ASSUME Inductive, NEW k, NEW z, Walk(z, k), table[z[Len(z)]] # NULL,
           NEW s \in Buckets(table[z[Len(z)]].key), NEW y, y = Append(z, s)
    PROVE  /\ Walk(y, k) /\ Len(z) \in Nat /\ Len(y) = Len(z) + 1 /\ y[Len(y)] = s /\ s \in Slots
           /\ y \in Seq(Slots)
<1>1. /\ z \in Seq(Slots) /\ Len(z) \in Nat /\ Len(z) >= 1
      /\ \A j \in 1 .. Len(z) : z[j] \in Slots
      /\ z[1] \in Buckets(k)
      /\ \A j \in 1 .. Len(z) - 1 : table[z[j]] # NULL /\ z[j + 1] \in Buckets(table[z[j]].key)
  BY WalkIs
<1>2. PICK L \in Nat : L = Len(z) /\ L >= 1
  BY <1>1
<1>3. PICK x \in Slots : x = z[Len(z)]
  BY <1>1, <1>2
<1>4. s \in Slots
  <2>1. table[x].key \in Keys
    BY <1>3, KeyTyped
  <2>2. s \in Buckets(table[x].key)
    BY <1>3
  <2> QED
    BY <2>1, <2>2, ScanSlots
<1>5. y \in Seq(Slots) /\ Len(y) = L + 1 /\ y[L + 1] = s /\ \A j \in 1 .. L : y[j] = z[j]
  BY ONLY <1>1, <1>2, <1>4, y = Append(z, s), AppendIs
<1>6. y[1] \in Buckets(k)
  BY <1>1, <1>2, <1>5
<1>7. ASSUME NEW j \in 1 .. L PROVE table[y[j]] # NULL /\ y[j + 1] \in Buckets(table[y[j]].key)
  <2>1. CASE j = L
    BY <1>2, <1>5, <2>1
  <2>2. CASE j # L
    <3>1. j \in 1 .. Len(z) - 1 /\ j + 1 \in 1 .. L
      BY ONLY <1>2, <2>2, j \in 1 .. L
    <3> QED
      BY <1>1, <1>5, <3>1, Zenon
  <2> QED
    BY <2>1, <2>2
<1>8. Walk(y, k)
  <2>1. \A j \in 1 .. Len(y) - 1 : j \in 1 .. L
    BY ONLY <1>2, <1>5
  <2>2. Len(y) >= 1
    BY <1>2, <1>5
  <2> QED
    BY <1>5, <1>6, <1>7, <2>1, <2>2, Zenon DEF Walk
<1> QED
  BY <1>2, <1>4, <1>5, <1>8

\* The levels one by one.
LEMMA LevelsAre ==
    ASSUME NEW k, NEW N \in Nat, NEW f, Levels(f, k, N)
    PROVE  /\ DOMAIN f = 0 .. N /\ f[0] = Buckets(k)
           /\ \A d \in Nat : d + 1 \in 0 .. N =>
                \A s : s \in f[d + 1] <=>
                         s \in f[d] \/ \E x \in f[d] : table[x] # NULL /\ s \in Buckets(table[x].key)
<1> DEFINE Level(d) ==
             IF d = 0 THEN Range(Scan[k])
             ELSE f[d - 1] \cup UNION {Range(Scan[table[s].key]) : s \in {x \in f[d - 1] : table[x] # NULL}}
<1>1. f = [d \in 0 .. N |-> Level(d)]
  BY DEF Levels
<1>2. DOMAIN f = 0 .. N /\ \A d \in 0 .. N : f[d] = Level(d)
  <2> HIDE DEF Level
  <2> QED
    BY <1>1
<1>3. f[0] = Buckets(k)
  BY <1>2 DEF Buckets
<1>4. ASSUME NEW d \in Nat, d + 1 \in 0 .. N, NEW s
      PROVE  s \in f[d + 1] <=> s \in f[d] \/ \E x \in f[d] : table[x] # NULL /\ s \in Buckets(table[x].key)
  <2>1. d + 1 # 0 /\ (d + 1) - 1 = d
    BY <1>4
  <2>2. f[d + 1] = f[d] \cup UNION {Range(Scan[table[r].key]) : r \in {x \in f[d] : table[x] # NULL}}
    BY <1>2, <1>4, <2>1
  <2>3. f[d + 1] = f[d] \cup UNION {Buckets(table[r].key) : r \in {x \in f[d] : table[x] # NULL}}
    BY <2>2 DEF Buckets
  <2> QED
    BY <2>3, Zenon
<1> QED
  BY <1>2, <1>3, <1>4

\* A walk of at most d moves from k to s.
WalkTo(k, s, d) == \E z : Walk(z, k) /\ Len(z) \in Nat /\ Len(z) <= d + 1 /\ z[Len(z)] = s

\* One more move.
LEMMA WalkFurther ==
    ASSUME Inductive, NEW k, NEW l \in Nat, NEW x, table[x] # NULL, NEW s \in Buckets(table[x].key), WalkTo(k, x, l)
    PROVE  WalkTo(k, s, l + 1)
<1>1. PICK z : Walk(z, k) /\ Len(z) \in Nat /\ Len(z) <= l + 1 /\ z[Len(z)] = x
  BY DEF WalkTo
<1>2. PICK y : y = Append(z, s)
  OBVIOUS
<1>3. Walk(z, k) /\ table[z[Len(z)]] # NULL /\ s \in Buckets(table[z[Len(z)]].key)
  BY <1>1
<1>4. Walk(y, k)
  BY <1>2, <1>3, WalkOn
<1>5. Len(y) = Len(z) + 1
  BY <1>2, <1>3, WalkOn
<1>6. y[Len(y)] = s
  BY <1>2, <1>3, WalkOn
<1>7. Len(y) \in Nat /\ Len(y) <= (l + 1) + 1
  BY <1>1, <1>5
<1> QED
  BY <1>4, <1>6, <1>7 DEF WalkTo

\* A slot of the level d is the end of a walk of at most d moves.
LEMMA LevelWalk ==
    ASSUME Inductive, NEW k \in Keys, NEW N \in Nat, NEW f, Levels(f, k, N)
    PROVE  \A d \in 0 .. N : \A s \in f[d] : WalkTo(k, s, d)
<1> DEFINE Bad == {d \in 0 .. N : ~\A s \in f[d] : WalkTo(k, s, d)}
<1>1. SUFFICES ASSUME Bad # {} PROVE FALSE
  OBVIOUS
<1>2. PICK m \in Bad : \A n \in Bad : m <= n
  <2>1. Bad \subseteq Nat
    OBVIOUS
  <2> HIDE DEF Bad
  <2> QED
    BY <1>1, <2>1, LeastNumber
<1>3. m \in 0 .. N /\ ~\A s \in f[m] : WalkTo(k, s, m)
  BY <1>2
<1>4. CASE m = 0
  <2>1. ASSUME NEW s \in f[0] PROVE WalkTo(k, s, 0)
    <3>1. s \in Buckets(k) /\ s \in Slots
      BY LevelsAre, ScanSlots
    <3>2. <<s>> \in Seq(Slots) /\ Len(<<s>>) = 1 /\ <<s>>[1] = s
      BY <3>1
    <3>3. PICK z : z \in Seq(Slots) /\ Len(z) = 1 /\ z[1] = s
      BY <3>2
    <3>4. Walk(z, k)
      <4>1. Len(z) >= 1 /\ ~\E j : j \in 1 .. Len(z) - 1
        BY ONLY <3>3
      <4> QED
        BY <3>1, <3>3, <4>1, Zenon DEF Walk
    <3>5. Len(z) \in Nat /\ Len(z) <= 0 + 1 /\ z[Len(z)] = s
      BY <3>3
    <3> QED
      BY <3>4, <3>5, Zenon DEF WalkTo
  <2> QED
    BY <1>3, <1>4, <2>1
<1>5. CASE m # 0
  <2>1. PICK l \in Nat : m = l + 1 /\ l \in 0 .. N /\ l \notin Bad
    <3>1. m - 1 \in Nat /\ m = (m - 1) + 1 /\ m - 1 \in 0 .. N /\ ~(m <= m - 1)
      BY <1>3, <1>5
    <3> HIDE DEF Bad
    <3> QED
      BY <1>2, <3>1
  <2>2. \A s \in f[l] : WalkTo(k, s, l)
    BY <2>1
  <2>3. l + 1 \in 0 .. N
    BY <1>3, <2>1
  <2> HIDE DEF Bad
  <2>4. ASSUME NEW s \in f[l + 1] PROVE WalkTo(k, s, l + 1)
    <3>1. s \in f[l] \/ \E x \in f[l] : table[x] # NULL /\ s \in Buckets(table[x].key)
      BY <2>3, LevelsAre
    <3>2. CASE s \in f[l]
      <4>1. WalkTo(k, s, l)
        BY <2>2, <3>2
      <4>2. PICK z : Walk(z, k) /\ Len(z) \in Nat /\ Len(z) <= l + 1 /\ z[Len(z)] = s
        BY <4>1 DEF WalkTo
      <4>3. Len(z) <= (l + 1) + 1
        BY <4>2
      <4> QED
        BY <4>2, <4>3 DEF WalkTo
    <3>3. CASE \E x \in f[l] : table[x] # NULL /\ s \in Buckets(table[x].key)
      <4>1. PICK x : x \in f[l] /\ table[x] # NULL /\ s \in Buckets(table[x].key)
        BY <3>3
      <4>2. WalkTo(k, x, l)
        BY <2>2, <4>1
      <4> QED
        BY <4>1, <4>2, WalkFurther
    <3> QED
      BY <3>1, <3>2, <3>3
  <2> QED
    BY <1>3, <2>1, <2>4
<1> QED
  BY <1>4, <1>5

\* And the slots of a walk are in the levels that it passes.
LEMMA WalkLevel ==
    ASSUME Inductive, NEW k \in Keys, NEW N \in Nat, NEW f, Levels(f, k, N),
           NEW z, Walk(z, k), Len(z) <= N + 1
    PROVE  \A d \in Nat : d + 1 <= Len(z) => z[d + 1] \in f[d]
<1> DEFINE Bad == {d \in Nat : d + 1 <= Len(z) /\ z[d + 1] \notin f[d]}
<1>1. SUFFICES ASSUME Bad # {} PROVE FALSE
  OBVIOUS
<1>2. PICK m \in Bad : \A n \in Bad : m <= n
  <2>1. Bad \subseteq Nat
    OBVIOUS
  <2> HIDE DEF Bad
  <2> QED
    BY <1>1, <2>1, LeastNumber
<1>3. m \in Nat /\ m + 1 <= Len(z) /\ z[m + 1] \notin f[m]
  BY <1>2
<1>4. /\ Len(z) \in Nat /\ z[1] \in Buckets(k)
      /\ \A j \in 1 .. Len(z) - 1 : table[z[j]] # NULL /\ z[j + 1] \in Buckets(table[z[j]].key)
  BY WalkIs
<1>5. m # 0
  <2>1. f[0] = Buckets(k)
    BY LevelsAre
  <2> QED
    BY <1>3, <1>4, <2>1
<1>6. PICK l \in Nat : m = l + 1 /\ l \notin Bad
  <2>1. m - 1 \in Nat /\ m = (m - 1) + 1 /\ ~(m <= m - 1)
    BY <1>3, <1>5
  <2> HIDE DEF Bad
  <2> QED
    BY <1>2, <2>1
<1>7. l + 1 <= Len(z) /\ l + 1 \in 1 .. Len(z) - 1 /\ l + 1 \in 0 .. N /\ m = l + 1
  BY <1>3, <1>4, <1>6
<1>8. z[l + 1] \in f[l]
  BY <1>6, <1>7
<1>9. table[z[l + 1]] # NULL /\ z[(l + 1) + 1] \in Buckets(table[z[l + 1]].key)
  BY <1>4, <1>7
<1>10. z[(l + 1) + 1] \in f[l + 1]
  BY <1>7, <1>8, <1>9, LevelsAre
<1> QED
  BY <1>3, <1>7, <1>10

\* Reach has the lengths of the walks that make room.
LEMMA ReachIs ==
    ASSUME Inductive, NEW k \in Keys
    PROVE  /\ Reach(k) \subseteq Nat
           /\ \A d \in Reach(k) : \E z : Room(z, k) /\ Len(z) \in Nat /\ Len(z) <= d + 1
           /\ \A z, d : Room(z, k) /\ Simple(z) /\ d \in Nat /\ Len(z) = d + 1 => d \in Reach(k)
<1>1. PICK N \in Nat : N = Cardinality(Slots)
  BY SlotsFinite
<1> DEFINE f == CHOOSE f : f = [d \in 0 .. Cardinality(Slots) |->
              IF d = 0 THEN Range(Scan[k])
              ELSE f[d - 1] \cup UNION {Range(Scan[table[s].key]) : s \in {x \in f[d - 1] : table[x] # NULL}}]
<1>2. Reach(k) = {d \in DOMAIN f : \E s \in f[d] : table[s] = NULL}
  BY DEF Reach
<1>3. Levels(f, k, N)
  <2>1. \E g : Levels(g, k, N)
    BY LevelsExist
  <2>2. \E g : g = [d \in 0 .. Cardinality(Slots) |->
              IF d = 0 THEN Range(Scan[k])
              ELSE g[d - 1] \cup UNION {Range(Scan[table[s].key]) : s \in {x \in g[d - 1] : table[x] # NULL}}]
    BY <1>1, <2>1 DEF Levels
  <2>3. f = [d \in 0 .. Cardinality(Slots) |->
              IF d = 0 THEN Range(Scan[k])
              ELSE f[d - 1] \cup UNION {Range(Scan[table[s].key]) : s \in {x \in f[d - 1] : table[x] # NULL}}]
    BY <2>2, Zenon
  <2> HIDE DEF f
  <2> QED
    BY <1>1, <2>3 DEF Levels
<1> HIDE DEF f
<1>4. DOMAIN f = 0 .. N
  BY <1>3, LevelsAre
<1>5. ASSUME NEW d \in Reach(k)
      PROVE  \E z : Room(z, k) /\ Len(z) \in Nat /\ Len(z) <= d + 1
  <2>1. d \in 0 .. N
    BY <1>2, <1>4
  <2>2. PICK s \in f[d] : table[s] = NULL
    BY <1>2
  <2>3. WalkTo(k, s, d)
    BY <1>3, <2>1, LevelWalk
  <2> QED
    BY <2>2, <2>3 DEF WalkTo, Room
<1>6. ASSUME NEW z, NEW d \in Nat, Room(z, k), Simple(z), Len(z) = d + 1
      PROVE  d \in Reach(k)
  <2>1. Walk(z, k) /\ z \in Seq(Slots) /\ table[z[Len(z)]] = NULL
    BY <1>6, WalkIs DEF Room
  <2>2. Len(z) <= N
    BY <1>1, <1>6, <2>1, SimpleIsShort
  <2>3. Len(z) <= N + 1 /\ d + 1 <= Len(z) /\ d \in 0 .. N
    BY <1>6, <2>2
  <2>4. z[d + 1] \in f[d]
    BY <1>3, <2>1, <2>3, WalkLevel
  <2> QED
    BY <1>2, <1>4, <1>6, <2>1, <2>3, <2>4
<1>7. Reach(k) \subseteq Nat
  BY <1>2, <1>4
<1> QED
  BY <1>5, <1>6, <1>7

\* The queue that covers every walk is empty only when there is none.
LEMMA NothingToReach ==
    ASSUME Inductive, NEW k \in Keys, NEW q, CompleteFor(q, k), q = <<>>
    PROVE  Reach(k) = {}
<1>1. SUFFICES ASSUME NEW d \in Reach(k) PROVE FALSE
  OBVIOUS
<1>2. PICK z : Room(z, k)
  BY ReachIs
<1>3. PICK y \in Seq(Slots) : Room(y, k) /\ Simple(y)
  BY <1>2, SimpleWalk
<1>4. \E a \in DOMAIN q : Begins(q[a].path, y)
  BY <1>3 DEF CompleteFor
<1> QED
  BY <1>4

\* The shortest path is as long as Reach says.
LEMMA ShortestIsLeast ==
    ASSUME Inductive, NEW k \in Keys, NEW p, ShortestFor(p, k), Simple(p)
    PROVE  Reach(k) # {} /\ Len(p) = Min(Reach(k)) + 1
<1>1. Room(p, k) /\ p \in Seq(Slots) /\ Len(p) \in Nat /\ Len(p) >= 1
  BY WalkIs DEF ShortestFor, Room
<1>2. PICK d \in Nat : Len(p) = d + 1
  <2>1. Len(p) - 1 \in Nat /\ Len(p) = (Len(p) - 1) + 1
    BY <1>1
  <2> QED
    BY <2>1
<1>3. d \in Reach(k)
  BY <1>1, <1>2, ReachIs
<1>4. ASSUME NEW e \in Reach(k) PROVE d <= e
  <2>1. PICK z : Room(z, k) /\ Len(z) \in Nat /\ Len(z) <= e + 1
    BY ReachIs
  <2>2. z \in Seq(Slots)
    BY <2>1, WalkIs DEF Room
  <2>3. Len(p) <= Len(z)
    BY <2>1, <2>2 DEF ShortestFor
  <2>4. e \in Nat
    BY ReachIs
  <2> QED
    BY <1>2, <2>1, <2>3, <2>4
<1>5. Reach(k) \subseteq Nat /\ Reach(k) # {}
  BY <1>3, ReachIs
<1>6. PICK m : m = Min(Reach(k))
  OBVIOUS
<1>7. m \in Reach(k) /\ \A e \in Reach(k) : m <= e
  BY <1>5, <1>6, MinIsLeast
<1>8. m = d
  BY <1>3, <1>4, <1>5, <1>7
<1> QED
  BY <1>2, <1>5, <1>6, <1>8

LEMMA LoadingIsExact ==
    ASSUME Inductive, Complete, Shortest
    PROVE  SearchIsExact
<1>1. main \in Threads
  BY DEF Threads
<1>2. CASE pc[main] = "search" /\ loc[main].que = <<>>
  <2>1. Key(main) \in Keys
    BY <1>1, <1>2, Gets DEF Putting
  <2>2. CompleteFor(loc[main].que, Key(main))
    BY <1>2 DEF Complete
  <2>3. Reach(Key(main)) = {}
    BY <1>2, <2>1, <2>2, NothingToReach
  <2> QED
    BY <1>2, <2>3 DEF SearchIsExact
<1>3. CASE pc[main] = "move" /\ loc[main].i = Len(loc[main].path)
  <2>1. Key(main) \in Keys
    BY <1>1, <1>3, Gets DEF Putting, Moving
  <2>2. ShortestFor(loc[main].path, Key(main))
    BY <1>3 DEF Shortest
  <2>3. Simple(loc[main].path)
    BY <1>1, <1>3 DEF Inductive, OnPath, Found, Moving
  <2>4. Reach(Key(main)) # {} /\ Len(loc[main].path) = Min(Reach(Key(main))) + 1
    BY <2>1, <2>2, <2>3, ShortestIsLeast
  <2> QED
    BY <1>3, <2>4 DEF SearchIsExact
<1> QED
  BY <1>2, <1>3 DEF SearchIsExact

\* What a walk is depends on the table only.
LEMMA WalkSame ==
    ASSUME UNCHANGED table, NEW k
    PROVE  /\ \A z : Walk(z, k)' <=> Walk(z, k)
           /\ \A z : Room(z, k)' <=> Room(z, k)
           /\ \A q : CompleteFor(q, k)' <=> CompleteFor(q, k)
           /\ \A p : ShortestFor(p, k)' <=> ShortestFor(p, k)
<1>1. ASSUME NEW z PROVE Walk(z, k)' <=> Walk(z, k)
  BY DEF Walk
<1>2. ASSUME NEW z PROVE Room(z, k)' <=> Room(z, k)
  BY <1>1 DEF Room
<1>3. ASSUME NEW q PROVE CompleteFor(q, k)' <=> CompleteFor(q, k)
  BY <1>1, <1>2 DEF CompleteFor
<1>4. ASSUME NEW p PROVE ShortestFor(p, k)' <=> ShortestFor(p, k)
  BY <1>2 DEF ShortestFor
<1> QED
  BY <1>1, <1>2, <1>3, <1>4

\* The first queue has every slot that a walk can begin with.
LEMMA CompleteFirst ==
    ASSUME Inductive, NEW t \in Threads, (PutScan(t) \/ Fill(t)) /\ ScanOn(t), pc'[t] = "search",
           NEW k, k = Key(t), NEW q, q = loc'[t].que
    PROVE  CompleteFor(q, k)
<1>1. /\ k \in Keys /\ DOMAIN q = 1 .. 2 * SLOTS_NUM
      /\ \A a \in 1 .. 2 * SLOTS_NUM : q[a].path = <<Queued[k][a]>>
  BY FirstQueue
<1>2. ASSUME NEW a \in DOMAIN q PROVE Walk(q[a].path, k)
  <2>1. PICK s \in Slots : s = Queued[k][a] /\ s \in Buckets(k)
    BY <1>1, QueuedIsScanned, ScanSlots
  <2>2. q[a].path = <<s>>
    BY <1>1, <2>1
  <2>3. PICK z : z = q[a].path
    OBVIOUS
  <2>4. z \in Seq(Slots) /\ Len(z) >= 1 /\ z[1] = s /\ ~\E j : j \in 1 .. Len(z) - 1
    BY ONLY <2>1, <2>2, <2>3
  <2>5. Walk(z, k)
    BY <2>1, <2>4, Zenon DEF Walk
  <2> QED
    BY <2>3, <2>5
<1>3. ASSUME NEW z \in Seq(Slots), Room(z, k) PROVE \E a \in DOMAIN q : Begins(q[a].path, z)
  <2>1. z[1] \in Buckets(k) /\ z[1] \in Slots /\ Len(z) \in Nat /\ Len(z) >= 1
    <3>1. Walk(z, k)
      BY <1>3 DEF Room
    <3>2. z[1] \in Buckets(k) /\ Len(z) \in Nat /\ Len(z) >= 1
      BY <3>1, WalkIs
    <3> QED
      BY <1>1, <3>2, ScanSlots
  <2>2. PICK a \in 1 .. 2 * SLOTS_NUM : Queued[k][a] = z[1]
    BY <1>1, <2>1, AllQueued
  <2>3. PICK y : y = q[a].path /\ y = <<z[1]>>
    BY <1>1, <2>2
  <2>4. Len(y) = 1 /\ y[1] = z[1] /\ \A j \in 1 .. Len(y) : j = 1
    BY ONLY <2>3
  <2>5. Begins(y, z)
    BY <2>1, <2>4 DEF Begins
  <2> QED
    BY <1>1, <2>3, <2>5
<1> QED
  BY <1>2, <1>3 DEF CompleteFor

\* A round of the search prolongs the first path in every way that a walk can go on.
LEMMA CompleteSearch ==
    ASSUME Inductive, NEW t \in Threads, Search(t), pc'[t] = "search", NEW k, CompleteFor(loc[t].que, k),
           NEW q, q = loc'[t].que
    PROVE  CompleteFor(q, k)
<1>1. PICK p : p = Next_Path(t)
  OBVIOUS
<1>2. PICK r : r = loc[t].que
  OBVIOUS
<1>3. /\ pc[t] = "search" /\ r \in Seq(Paths) /\ r # <<>> /\ p = r[1].path /\ 1 \in DOMAIN r
      /\ q \in Seq(Paths)
      /\ \A a \in DOMAIN q :
           IF a < Len(r) THEN a + 1 \in DOMAIN r /\ q[a] = r[a + 1]
           ELSE \E s \in Buckets(Next_Key(t)) : q[a].path = Append(p, s)
      /\ \A b \in DOMAIN r : b # 1 => b - 1 \in DOMAIN q /\ q[b - 1] = r[b]
  BY <1>1, <1>2, NewQueue
<1>4. /\ p \in Seq(Slots) /\ Len(p) \in Nat /\ Len(p) >= 1 /\ Walk(p, k)
      /\ p[Len(p)] \in Slots /\ table[p[Len(p)]] # NULL /\ Next_Key(t) = table[p[Len(p)]].key
  <2>1. /\ Tried(t, Head(loc[t].que)) /\ Head(loc[t].que) = r[1]
        /\ p \in Seq(Slots) /\ Len(p) \in Nat \ {0}
        /\ Last(p) = p[Len(p)] /\ Last(p) \in Slots
    <3>1. Head(r) = r[1]
      BY ONLY <1>3
    <3> QED
      BY <1>1, <1>2, <1>3, <3>1, NextPath
  <2>2. table[p[Len(p)]] # NULL
    <3>1. \A n \in DOMAIN p : table[p[n]] # NULL
      BY <1>3, <2>1 DEF Tried
    <3>2. Len(p) \in DOMAIN p
      BY ONLY <2>1
    <3> QED
      BY <3>1, <3>2
  <2>3. Walk(p, k)
    BY <1>2, <1>3 DEF CompleteFor
  <2>4. Next_Key(t) = table[p[Len(p)]].key
    BY <1>1, <2>1 DEF Next_Key
  <2> QED
    BY <2>1, <2>2, <2>3, <2>4
<1>5. ASSUME NEW a \in DOMAIN q PROVE Walk(q[a].path, k)
  <2>1. CASE a < Len(r)
    <3>1. a + 1 \in DOMAIN r /\ q[a] = r[a + 1]
      BY <1>3, <2>1
    <3> QED
      BY <1>2, <3>1 DEF CompleteFor
  <2>2. CASE ~(a < Len(r))
    <3>1. PICK s \in Buckets(Next_Key(t)) : q[a].path = Append(p, s)
      BY <1>3, <2>2
    <3>2. s \in Buckets(table[p[Len(p)]].key)
      BY <1>4
    <3>3. PICK y : y = Append(p, s)
      OBVIOUS
    <3>4. Walk(p, k) /\ table[p[Len(p)]] # NULL
      BY <1>4
    <3>5. Walk(y, k)
      BY <3>2, <3>3, <3>4, WalkOn
    <3> QED
      BY <3>1, <3>3, <3>5
  <2> QED
    BY <2>1, <2>2
<1>6. ASSUME NEW z \in Seq(Slots), Room(z, k), Simple(z) PROVE \E a \in DOMAIN q : Begins(q[a].path, z)
  <2>1. PICK b \in DOMAIN r : Begins(r[b].path, z)
    BY <1>2, <1>6 DEF CompleteFor
  <2>2. CASE b # 1
    <3>1. b - 1 \in DOMAIN q /\ q[b - 1] = r[b]
      BY <1>3, <2>2
    <3> QED
      BY <2>1, <3>1
  <2>3. CASE b = 1
    <3>1. Begins(p, z)
      BY <1>3, <2>1, <2>3
    <3>2. Len(z) \in Nat /\ table[z[Len(z)]] = NULL /\ Walk(z, k)
      BY <1>6, WalkIs DEF Room
    <3>3. Len(p) <= Len(z) /\ z[Len(p)] = p[Len(p)]
      BY <1>4, <3>1 DEF Begins
    <3>4. Len(p) # Len(z)
      BY <1>4, <3>2, <3>3
    <3>5. Len(p) < Len(z) /\ Len(p) \in 1 .. Len(z) - 1
      BY <1>4, <3>2, <3>3, <3>4
    <3>6. z[Len(p) + 1] \in Buckets(Next_Key(t))
      BY <1>4, <3>2, <3>3, <3>5, WalkIs
    <3>7. PICK n : n = Len(p) + 1
      OBVIOUS
    <3>8. \E a \in DOMAIN q : Len(q[a].path) = n /\ Begins(q[a].path, z)
      BY <1>1, <1>6, <3>1, <3>5, <3>6, <3>7, Prolonged
    <3> QED
      BY <3>8
  <2> QED
    BY <2>2, <2>3
<1> QED
  BY <1>5, <1>6 DEF CompleteFor

\* The path that ends the search is a shortest one: the queued path that a walk
\* begins with ends before the walk does, and is not shorter than the first.
LEMMA SearchFinds ==
    ASSUME Inductive, NEW t \in Threads, Search(t), pc'[t] = "move", Queues(t),
           NEW k, CompleteFor(loc[t].que, k), NEW p, p = loc'[t].path
    PROVE  ShortestFor(p, k)
<1>1. PICK first, r : first = Next_Path(t) /\ r = loc[t].que
  OBVIOUS
<1>2. pc[t] = "search" /\ loc[t].que # <<>>
  BY SearchEnds
<1>3. PICK end \in Buckets(Next_Key(t)) :
         /\ table[end] = NULL
         /\ loc' = [loc EXCEPT ![t] = [Blank EXCEPT
                      !.path = Append(Next_Path(t), end),
                      !.hist = Append(Next_Hist(t), key_versions[end]),
                      !.i = Len(Next_Path(t)) + 1, !.attempt = loc[t].attempt]]
  BY SearchEnds
<1>4. p = Append(first, end)
  <2>1. loc \in [Threads -> Locals]
    BY DEF Inductive, Typed
  <2>2. loc'[t].path = Append(Next_Path(t), end)
    BY <1>3, <2>1 DEF Blank
  <2> QED
    BY <1>1, <2>2
<1>5. /\ r \in Seq(Paths) /\ r # <<>> /\ Head(r) = r[1] /\ 1 \in DOMAIN r
      /\ first = r[1].path /\ Last(first) = first[Len(first)] /\ Len(first) \in Nat \ {0}
      /\ first \in Seq(Slots)
  <2>1. r \in Seq(Paths)
    BY <1>1, QueueTyped
  <2>2. r # <<>> /\ Head(r) = r[1] /\ 1 \in DOMAIN r
    BY ONLY <1>1, <1>2, <2>1
  <2> QED
    BY <1>1, <1>2, <2>1, <2>2, NextPath DEF Next_Path
<1>6. \A a \in DOMAIN r : /\ r[a].path \in Seq(Slots) /\ Len(r[a].path) \in Nat /\ Len(r[a].path) >= 1
                          /\ \A n \in DOMAIN r[a].path : table[r[a].path[n]] # NULL
                          /\ Len(first) <= Len(r[a].path)
  <2> SUFFICES ASSUME NEW a \in DOMAIN r
               PROVE  /\ r[a].path \in Seq(Slots) /\ Len(r[a].path) \in Nat /\ Len(r[a].path) >= 1
                      /\ \A n \in DOMAIN r[a].path : table[r[a].path[n]] # NULL
                      /\ Len(first) <= Len(r[a].path)
    OBVIOUS
  <2>1. Tried(t, r[a])
    BY <1>1, <1>2 DEF Inductive, TriedAll
  <2>2. r[a].path \in Seq(Slots) /\ Len(r[a].path) \in Nat
    BY <1>1, QueueTyped
  <2>3. 1 <= a
    BY ONLY <1>5, a \in DOMAIN r
  <2>4. Len(first) <= Len(r[a].path)
    BY <1>1, <1>2, <1>5, <2>3 DEF Queues
  <2> QED
    BY <2>1, <2>2, <2>4 DEF Tried
<1>7. Next_Key(t) = table[first[Len(first)]].key /\ table[first[Len(first)]] # NULL
  <2>1. Len(first) \in DOMAIN first
    BY ONLY <1>5
  <2> QED
    BY <1>1, <1>5, <1>6, <2>1 DEF Next_Key
<1>8. Room(p, k) /\ Len(p) = Len(first) + 1
  <2>1. Walk(first, k)
    BY <1>1, <1>5 DEF CompleteFor
  <2>2. end \in Buckets(table[first[Len(first)]].key)
    BY <1>7
  <2>6. table[first[Len(first)]] # NULL
    BY <1>7
  <2>3. Walk(p, k)
    BY <1>4, <2>6, <2>1, <2>2, WalkOn
  <2>4. Len(p) = Len(first) + 1
    BY <1>4, <2>6, <2>1, <2>2, WalkOn
  <2>5. p[Len(p)] = end
    BY <1>4, <2>6, <2>1, <2>2, WalkOn
  <2> QED
    BY <1>3, <2>3, <2>4, <2>5 DEF Room
<1>9. ASSUME NEW z \in Seq(Slots), Room(z, k) PROVE Len(p) <= Len(z)
  <2>1. PICK y \in Seq(Slots) : Room(y, k) /\ Simple(y) /\ Len(y) \in Nat /\ Len(y) <= Len(z)
    BY <1>9, SimpleWalk
  <2>2. PICK a \in DOMAIN r : Begins(r[a].path, y)
    BY <1>1, <2>1 DEF CompleteFor
  <2>3. PICK q : q = r[a].path
    OBVIOUS
  <2>4. q \in Seq(Slots) /\ Len(q) \in Nat /\ Len(q) >= 1 /\ Len(first) <= Len(q) /\ table[q[Len(q)]] # NULL
    <3>1. q \in Seq(Slots) /\ Len(q) \in Nat /\ Len(q) >= 1 /\ Len(first) <= Len(q)
      BY <1>6, <2>3
    <3>2. Len(q) \in DOMAIN q
      BY ONLY <3>1
    <3> QED
      BY <1>6, <2>3, <3>1, <3>2
  <2>5. Len(q) <= Len(y) /\ q[Len(q)] = y[Len(q)]
    BY <2>2, <2>3, <2>4 DEF Begins
  <2>6. Len(q) # Len(y)
    BY <2>1, <2>4, <2>5 DEF Room
  <2>7. Len(z) \in Nat
    BY <1>9
  <2> QED
    BY <1>5, <1>8, <2>1, <2>4, <2>5, <2>6, <2>7
<1> QED
  BY <1>8, <1>9 DEF ShortestFor

\* While the main thread has calls to make, no other thread moves; once it has
\* none, it does not move.
LEMMA OneMoves ==
    ASSUME Inductive, Single, NEW t \in Threads, Step(t)
    PROVE  /\ Loaded => t # main /\ Loaded'
           /\ ~Loaded => t = main
<1>1. main \in Threads /\ \A w \in Threads : w # main <=> w \in Workers
  BY OptCuckooAssumption DEF Threads, main
<1>2. \/ pc[t] # "idle"
      \/ (BeginGet(t) \/ BeginPut(t)) /\ todo[t] # <<>>
  BY GetSteps, PutSteps, BeginSteps DEF Step
<1>3. ASSUME Loaded PROVE t # main /\ Loaded'
  <2>1. t # main
    BY <1>2, <1>3 DEF Loaded
  <2>2. pc'[main] = pc[main] /\ todo'[main] = todo[main]
    BY <1>1, <2>1, OthersSame
  <2> QED
    BY <1>3, <2>1, <2>2 DEF Loaded
<1>4. ASSUME t # main PROVE Loaded
  <2>1. CASE pc[t] # "idle"
    BY <1>1, <1>4, <2>1 DEF Single, Running
  <2>2. CASE BeginGet(t) \/ BeginPut(t)
    BY <1>4, <2>2 DEF BeginGet, BeginPut, Begin
  <2> QED
    BY <1>2, <2>1, <2>2
<1> QED
  BY <1>3, <1>4

LEMMA SingleNext ==
    ASSUME Inductive, Single, NEW t \in Threads, Step(t)
    PROVE  Single'
<1>1. main \in Threads /\ \A w \in Threads : w # main <=> w \in Workers
  BY OptCuckooAssumption DEF Threads, main
<1>2. CASE Loaded
  BY <1>2, OneMoves DEF Single
<1>3. CASE ~Loaded
  <2>1. t = main
    BY <1>3, OneMoves
  <2> SUFFICES ASSUME NEW w \in Workers PROVE ~Running(w)'
    BY DEF Single
  <2>2. w \in Threads /\ w # t
    BY <1>1, <2>1 DEF Threads
  <2>3. ~Running(w) /\ pc'[w] = pc[w]
    BY <1>3, <2>2, OthersSame DEF Single
  <2> QED
    BY <2>3 DEF Running
<1> QED
  BY <1>2, <1>3

\* Those that have begun, or prolonged, the search, change nothing shared.
LEMMA CompleteNext ==
    ASSUME Inductive, Single, Complete, NEW t \in Threads, Step(t)
    PROVE  Complete'
<1>1. SUFFICES ASSUME pc'[main] = "search"
               PROVE  \A q, k : q = loc'[main].que /\ k = Key(main)' => CompleteFor(q, k)'
  BY DEF Complete
<1>2. t = main
  <2>1. Loaded => pc'[main] = "idle"
    BY OneMoves DEF Loaded
  <2> QED
    BY <1>1, <2>1, OneMoves
<1>3. Key(main)' = Key(main)
  BY <1>1, <1>2, CallStays
<1> SUFFICES ASSUME NEW q, NEW k, q = loc'[main].que, k = Key(main) PROVE CompleteFor(q, k)'
  BY <1>3
<1>4. Search(t) \/ ((PutScan(t) \/ Fill(t)) /\ ScanOn(t))
  BY <1>1, <1>2, StepTo
<1>5. CASE Search(t)
  <2>1. UNCHANGED table /\ pc[main] = "search"
    BY <1>2, <1>5 DEF Search, shared
  <2>2. CompleteFor(loc[t].que, k)
    BY <1>2, <2>1 DEF Complete
  <2>3. CompleteFor(q, k)
    BY <1>1, <1>2, <1>5, <2>2, CompleteSearch
  <2> QED
    BY <2>1, <2>3, WalkSame
<1>6. CASE (PutScan(t) \/ Fill(t)) /\ ScanOn(t)
  <2>1. UNCHANGED table
    BY <1>6 DEF PutScan, Fill, shared
  <2>2. CompleteFor(q, k)
    BY <1>1, <1>2, <1>6, CompleteFirst
  <2> QED
    BY <2>1, <2>2, WalkSame
<1> QED
  BY <1>4, <1>5, <1>6

LEMMA ShortestNext ==
    ASSUME Inductive, Single, Complete, Shortest, Queues(main), NEW t \in Threads, Step(t)
    PROVE  Shortest'
<1>1. SUFFICES ASSUME pc'[main] = "move", loc'[main].i = Len(loc'[main].path)
               PROVE  \A p, k : p = loc'[main].path /\ k = Key(main)' => ShortestFor(p, k)'
  BY DEF Shortest
<1>2. t = main
  <2>1. Loaded => pc'[main] = "idle"
    BY OneMoves DEF Loaded
  <2> QED
    BY <1>1, <2>1, OneMoves
<1>3. Key(main)' = Key(main)
  BY <1>1, <1>2, CallStays
<1> SUFFICES ASSUME NEW p, NEW k, p = loc'[main].path, k = Key(main) PROVE ShortestFor(p, k)'
  BY <1>3
<1>4. Search(t) \/ Copied(t)
  BY <1>1, <1>2, StepTo
<1>5. CASE Search(t)
  <2>1. UNCHANGED table /\ pc[main] = "search"
    BY <1>2, <1>5 DEF Search, shared
  <2>2. CompleteFor(loc[t].que, k)
    BY <1>2, <2>1 DEF Complete
  <2>3. ShortestFor(p, k)
    BY <1>1, <1>2, <1>5, <2>2, SearchFinds
  <2> QED
    BY <2>1, <2>3, WalkSame
<1>6. CASE Copied(t)
  <2>1. pc[t] = "copied" /\ loc' = [loc EXCEPT ![t].i = @ - 1]
    BY <1>6 DEF Copied
  <2>2. loc[t].i \in 2 .. Len(loc[t].path) /\ Len(loc[t].path) \in Nat
    BY <2>1, MoveSlots DEF Moving
  <2>3. loc'[t].i = loc[t].i - 1 /\ loc'[t].path = loc[t].path
    BY <2>1 DEF Inductive, Typed, Locals
  <2>4. PICK n, l : n = loc[t].i /\ l = Len(loc[t].path)
    OBVIOUS
  <2>5. n \in 2 .. l /\ l \in Nat /\ n - 1 = l
    BY <1>1, <1>2, <2>2, <2>3, <2>4
  <2> QED
    BY ONLY <2>5
<1> QED
  BY <1>4, <1>5, <1>6

LEMMA LoadingNext == Ordered /\ Loading /\ [Next]_vars => Loading'
<1> SUFFICES ASSUME Ordered, Loading, [Next]_vars PROVE Loading'
  OBVIOUS
<1>1. ASSUME NEW t \in Threads, Step(t) PROVE Loading'
  <2>1. Inductive /\ Queues(main) /\ Single /\ Complete /\ Shortest
    BY DEF Ordered, Upward, Loading, Threads
  <2> QED
    BY <1>1, <2>1, SingleNext, CompleteNext, ShortestNext DEF Loading
<1>2. CASE UNCHANGED vars
  BY <1>2 DEF Loading, Single, Complete, Shortest, CompleteFor, ShortestFor, Room, Walk, Running, Loaded,
              Key, Call, vars, shared
<1> QED
  BY <1>1, <1>2 DEF Next, Step, Finished

LEMMA LoadingInit == Init => Loading
<1> SUFFICES ASSUME Init PROVE Loading
  OBVIOUS
<1>1. \A t \in Threads : pc[t] = "idle"
  BY DEF Init
<1>2. main \in Threads /\ Workers \subseteq Threads
  BY DEF Threads
<1> QED
  BY <1>1, <1>2 DEF Loading, Single, Complete, Shortest, Running

\* A search that nobody disturbs finds a path iff moving nodes can make room,
\* and then a shortest one (put_impl and add_next_node while ecall_initDB
\* loads the table).
THEOREM SearchExact == Spec => []SearchIsExact
<1>1. Ordered /\ Loading => SearchIsExact
  BY LoadingIsExact DEF Ordered, Loading
<1> QED
  BY <1>1, OrderedAlways, LoadingInit, LoadingNext, PTL DEF Spec
-----------------------------------------------------------------------------
(* The program puts only while ecall_initDB loads the table.                *)

GetsOnly(c) == \A i \in DOMAIN c : c[i].op = "get"

\* The workers' transactions only get.
WorkersGet == \A p \in Plans : \A t \in Workers : GetsOnly(p[t])

\* So a put always finds the node it updates where it has read it.
Undisturbed ==
    /\ faults = {}
    /\ \A t \in Workers : GetsOnly(todo[t])
    /\ pc[main] = "update" => table[loc[main].slot] = loc[main].node

\* What puts is the main thread.
LEMMA MainPuts ==
    ASSUME Inductive, Undisturbed, NEW t \in Threads, todo[t] # <<>>, Call(t).op = "put"
    PROVE  t = main
<1>1. SUFFICES ASSUME t \in Workers PROVE FALSE
  BY DEF Threads
<1>2. todo[t] \in Seq(Calls) /\ todo[t] # <<>>
  BY DEF Inductive, Typed
<1>3. 1 \in DOMAIN todo[t] /\ Head(todo[t]) = todo[t][1]
  BY ONLY <1>2
<1> QED
  BY <1>1, <1>3 DEF Undisturbed, GetsOnly, Call

LEMMA UndisturbedInit == WorkersGet /\ Init => Undisturbed
<1> SUFFICES ASSUME WorkersGet, Init PROVE Undisturbed
  OBVIOUS
<1>1. main \in Threads /\ pc[main] = "idle"
  BY DEF Init, Threads
<1> QED
  BY <1>1 DEF Init, Undisturbed, WorkersGet

LEMMA UndisturbedNext ==
    ASSUME Inductive, Undisturbed, NEW t \in Threads, Step(t)
    PROVE  Undisturbed'
<1>0. main \in Threads /\ Workers \subseteq Threads
  BY DEF Threads
<1>1. \A w \in Workers : GetsOnly(todo'[w])
  <2> SUFFICES ASSUME NEW w \in Workers PROVE GetsOnly(todo'[w])
    OBVIOUS
  <2>1. todo[w] \in Seq(Calls) /\ todo \in [Threads -> Seq(Calls)] /\ w \in Threads
    BY <1>0 DEF Inductive, Typed
  <2>2. GetsOnly(todo[w])
    BY DEF Undisturbed
  <2>3. todo'[w] = todo[w] \/ (todo'[w] = Tail(todo[w]) /\ w = t)
    BY <2>1, StepGoes
  <2>4. CASE todo'[w] = Tail(todo[w]) /\ w = t /\ todo[w] # <<>>
    <3>1. PICK c, d : c = todo[w] /\ d = Tail(c)
      OBVIOUS
    <3>2. c \in Seq(Calls) /\ c # <<>> /\ \A i \in DOMAIN c : c[i].op = "get"
      BY <2>1, <2>2, <2>4, <3>1 DEF GetsOnly
    <3>3. \A i \in DOMAIN d : i + 1 \in DOMAIN c /\ d[i] = c[i + 1]
      BY ONLY <3>1, <3>2
    <3>4. GetsOnly(d)
      BY <3>2, <3>3 DEF GetsOnly
    <3> QED
      BY <2>4, <3>1, <3>4
  <2>5. CASE todo'[w] # todo[w] /\ todo[w] = <<>>
    <3>1. w = t
      BY <2>3, <2>5
    <3>2. pc[t] = "idle"
      BY <2>5, <3>1, Gets DEF Inductive, InCall
    <3>3. BeginGet(t) \/ BeginPut(t)
      BY <3>2, GetSteps, PutSteps DEF Step
    <3> QED
      BY <2>5, <3>1, <3>3 DEF BeginGet, BeginPut, Begin
  <2> QED
    BY <2>2, <2>3, <2>4, <2>5
<1>2. faults' = {}
  <2>1. CASE BeginPut(t)
    <3>1. todo[t] # <<>> /\ Call(t).op = "put" /\ ~Running(t)
      BY <2>1 DEF BeginPut, Begin
    <3>2. t = main
      BY <3>1, MainPuts
    <3>3. ASSUME NEW u \in Putters(Key(t)) PROVE FALSE
      <4>1. u \in Threads /\ pc[u] \in Putting
        BY PuttersAre
      <4>2. todo[u] # <<>> /\ Call(u).op = "put" /\ Running(u)
        BY <4>1, Gets DEF Inductive, InCall
      <4> QED
        BY <3>1, <3>2, <4>1, <4>2, MainPuts
    <3>4. Putters(Key(t)) = {}
      BY <3>3
    <3>5. faults' = faults \cup {f \in {"twins"} : Putters(Key(t)) # {} /\ ~InTable(Key(t))}
      BY <2>1 DEF BeginPut
    <3> QED
      BY <3>4, <3>5 DEF Undisturbed
  <2>2. CASE Update(t)
    <3>1. pc[t] = "update"
      BY <2>2 DEF Update
    <3>2. todo[t] # <<>> /\ Call(t).op = "put"
      BY <3>1 DEF Inductive, InCall, Putting
    <3>3. t = main
      BY <3>2, MainPuts
    <3>4. table[loc[t].slot] = loc[t].node
      BY <3>1, <3>3 DEF Undisturbed
    <3>5. faults' = faults \cup {f \in {"stray"} : table[loc[t].slot] # loc[t].node}
      BY <2>2 DEF Update
    <3> QED
      BY <3>4, <3>5 DEF Undisturbed
  <2>3. CASE ~BeginPut(t) /\ ~Update(t)
    <3>1. UNCHANGED faults
      BY <2>3 DEF Step, get, put, BeginGet, GetNode, GetVersion, GetVal, GetCheck, PutScan, Fill, SetVal, Store,
         Stored, NoPath, Search, LockLower, LockHigher, MoveFails, Copy, Copied, Take, TakeFails, hist
    <3> QED
      BY <3>1 DEF Undisturbed
  <2> QED
    BY <2>1, <2>2, <2>3
<1>3. ASSUME pc'[main] = "update" PROVE table'[loc'[main].slot] = loc'[main].node
  <2>1. CASE t = main
    <3>1. PutScan(t) /\ Matches(table[At(t)], Key(t))
      BY <1>3, <2>1, StepTo
    <3>2. UNCHANGED table /\ loc' = [loc EXCEPT ![t].node = table[At(t)], ![t].slot = At(t)]
      BY <3>1 DEF PutScan, Matches, shared
    <3>3. loc'[t].slot = At(t) /\ loc'[t].node = table[At(t)]
      BY <3>2 DEF Inductive, Typed, Locals
    <3> QED
      BY <2>1, <3>2, <3>3
  <2>2. CASE t # main
    <3>1. pc[main] = "update" /\ loc'[main] = loc[main]
      BY <1>0, <1>3, <2>2, OthersSame
    <3>2. PICK s : s = loc[main].slot
      OBVIOUS
    <3>3. s \in Slots
      <4>1. s = At(main) /\ Key(main) \in Keys
        BY <1>0, <3>1, <3>2, Gets DEF Inductive, InCall, Putting
      <4>2. loc[main].n \in 1 .. 2 * SLOTS_NUM
        BY <1>0, LocTyped DEF Inductive
      <4> QED
        BY <4>1, <4>2, ScanSlots DEF At
    <3>4. table'[s] = table[s]
      <4> SUFFICES ASSUME table'[s] # table[s] PROVE FALSE
        OBVIOUS
      <4>1. Store(t) \/ Copy(t)
        BY <3>3, Changed
      <4>2. pc[t] \in Putting
        BY <4>1 DEF Store, Copy, Putting, Moving
      <4>3. todo[t] # <<>> /\ Call(t).op = "put"
        BY <4>2 DEF Inductive, InCall
      <4> QED
        BY <2>2, <4>3, MainPuts
    <3> QED
      BY <3>1, <3>2, <3>4 DEF Undisturbed
  <2> QED
    BY <2>1, <2>2
<1> QED
  BY <1>1, <1>2, <1>3 DEF Undisturbed

\* With the program's calls no race is lost: gets see exactly the dictionary,
\* with no exception (ecall_initDB, then TxExecutor::read of every worker).
THEOREM LoadedTableIsDictionary == WorkersGet => (Spec => Dict!Spec)
<1> SUFFICES ASSUME WorkersGet PROVE Spec => Dict!Spec
  OBVIOUS
<1>1. Init => Dict!Init /\ Undisturbed
  BY InitRefines, UndisturbedInit
<1>2. Ordered /\ Undisturbed /\ [Next]_vars => Undisturbed'
  <2> SUFFICES ASSUME Ordered, Undisturbed, [Next]_vars PROVE Undisturbed'
    OBVIOUS
  <2>1. ASSUME NEW t \in Threads, Step(t) PROVE Undisturbed'
    BY <2>1, UndisturbedNext DEF Ordered
  <2>2. CASE UNCHANGED vars
    BY <2>2 DEF Undisturbed, vars, shared, hist
  <2> QED
    BY <2>1, <2>2 DEF Next, Step, Finished
<1>3. Ordered /\ Ordered' /\ Undisturbed' /\ [Next]_vars => [Dict!Next]_(Dict!dict)
  BY NextRefines DEF Undisturbed
<1> QED
  BY <1>1, <1>2, <1>3, OrderedAlways, PTL DEF Spec, Dict!Spec
=============================================================================
