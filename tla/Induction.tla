----------------------------- MODULE Induction -----------------------------
(***************************************************************************)
(* The least-number principle, and what follows from it for sequences and  *)
(* for functions that are defined by recursion.                            *)
(* With it a proof takes the least counterexample where it would otherwise *)
(* go by induction: the induction theorems of the library have an operator *)
(* for a parameter, these have a set.                                      *)
(***************************************************************************)
EXTENDS Naturals, SequencesExt, SequenceTheorems, WellFoundedInduction, TLAPS

\* A non-empty set of natural numbers has a least element.
LEMMA LeastNumber ==
    ASSUME NEW S, S \subseteq Nat, S # {}
    PROVE  \E m \in S : \A i \in S : m <= i
  <1> DEFINE R == {p \in Nat \X Nat : p[1] < p[2]}
  <1>1. IsWellFoundedOn(R, Nat)
    BY NatLessThanWellFounded, Zenon DEF OpToRel
  <1> HIDE DEF R
  <1>2. \E m \in S : \A i \in S : <<i, m>> \notin R
    BY <1>1, WFMin, Zenon
  <1>3. \A m, i \in S : <<i, m>> \notin R => m <= i
    BY DEF R
  <1> QED BY <1>2, <1>3
-----------------------------------------------------------------------------
(* FlattenSeq.                                                              *)

\* The concatenations of the first sequences of ss.
Sums(S, ss, F) ==
    /\ F \in [1 .. Len(ss) -> Seq(S)]
    /\ \A i \in 1 .. Len(ss) : F[i] = IF i = 1 THEN ss[i] ELSE F[i - 1] \o ss[i]

LEMMA SumsExist ==
    ASSUME NEW S, NEW ss \in Seq(Seq(S)) 
    PROVE  \E F : Sums(S, ss, F)
<1> DEFINE Good(n) == \E F \in [1 .. n -> Seq(S)] :
                        \A i \in 1 .. n : F[i] = IF i = 1 THEN ss[i] ELSE F[i - 1] \o ss[i]
           Bad == {n \in 0 .. Len(ss) : ~Good(n)}
<1>1. Len(ss) \in Nat /\ \A i \in 1 .. Len(ss) : ss[i] \in Seq(S)
  OBVIOUS
<1>2. SUFFICES Bad = {}
  <2>1. Len(ss) \in 0 .. Len(ss)
    BY <1>1
  <2>2. Good(Len(ss))
    BY <1>2, <2>1
  <2> QED BY <2>2 DEF Sums
<1>3. SUFFICES ASSUME Bad # {} PROVE FALSE
  OBVIOUS
<1>4. PICK n \in Bad : \A i \in Bad : n <= i
  <2> HIDE DEF Good
  <2>1. Bad \subseteq Nat
    BY <1>1
  <2> QED BY <1>3, <2>1, LeastNumber, Zenon
<1>5. n # 0
  <2>1. [i \in 1 .. 0 |-> <<>>] \in [1 .. 0 -> Seq(S)]
    OBVIOUS
  <2>2. \A i \in 1 .. 0 : FALSE
    OBVIOUS
  <2>3. Good(0)
    BY <2>1, <2>2, Zenon
  <2>4. ~ Good(n)
    BY <1>4
  <2> QED BY <2>3, <2>4, Zenon
<1>6. Good(n - 1) /\ n - 1 \in Nat /\ n \in 1 .. Len(ss)
  <2> HIDE DEF Good
  <2> QED BY <1>1, <1>4, <1>5
<1>7. PICK F \in [1 .. n - 1 -> Seq(S)] :
         \A i \in 1 .. n - 1 : F[i] = IF i = 1 THEN ss[i] ELSE F[i - 1] \o ss[i]
  BY <1>6
<1> DEFINE x == IF n = 1 THEN ss[n] ELSE F[n - 1] \o ss[n]
           G == [i \in 1 .. n |-> IF i = n THEN x ELSE F[i]]
<1>8. x \in Seq(S)
  <2>1. ss[n] \in Seq(S)
    BY <1>1, <1>6
  <2>2. n # 1 => F[n - 1] \in Seq(S)
    BY <1>6, <1>7
  <2> QED BY <2>1, <2>2
<1>9. \A i \in 1 .. n : i # n => i \in 1 .. n - 1
  BY <1>6
<1>10. G \in [1 .. n -> Seq(S)]
  BY <1>7, <1>8, <1>9
<1>11. ASSUME NEW i \in 1 .. n PROVE G[i] = IF i = 1 THEN ss[i] ELSE G[i - 1] \o ss[i]
  <2>1. CASE i = n
    <3>1. n # 1 => G[n - 1] = F[n - 1]
      BY <1>6
    <3> QED BY <2>1, <3>1
  <2>2. CASE i # n
    <3>1. i \in 1 .. n - 1 /\ G[i] = F[i]
      BY <1>9, <2>2
    <3>2. i # 1 => i - 1 \in 1 .. n /\ i - 1 # n /\ G[i - 1] = F[i - 1]
      BY <1>6, <3>1
    <3> QED BY <1>7, <3>1, <3>2
  <2> QED BY <2>1, <2>2
<1>12. Good(n)
  BY <1>10, <1>11
<1> QED BY <1>12

LEMMA FlattenIsSum ==
    ASSUME NEW S, NEW ss \in Seq(Seq(S)), ss # <<>>
    PROVE  \E F : Sums(S, ss, F) /\ FlattenSeq(ss) = F[Len(ss)]
<1>1. Len(ss) \in Nat \ {0}
  OBVIOUS
<1> DEFINE Is(F) == F = [i \in 1 .. Len(ss) |-> IF i = 1 THEN ss[i] ELSE F[i - 1] \o ss[i]]
<1>2. PICK F : Sums(S, ss, F)
  BY SumsExist
<1>3. F = [i \in 1 .. Len(ss) |-> F[i]]
  BY <1>2, Zenon DEF Sums
<1>4. Is(F)
  BY <1>2, <1>3 DEF Sums
<1> DEFINE G == CHOOSE G : Is(G)
<1>5. Is(G)
  BY <1>4
<1>6. FlattenSeq(ss) = G[Len(ss)]
  BY <1>1, Zenon DEF FlattenSeq
<1> HIDE DEF G
<1>7. \A i \in 1 .. Len(ss) : G[i] = IF i = 1 THEN ss[i] ELSE G[i - 1] \o ss[i]
  BY <1>5
<1> DEFINE Bad == {i \in 1 .. Len(ss) : G[i] # F[i]}
<1>8. ASSUME Bad # {} PROVE FALSE
  <2>0. Bad \subseteq Nat
    OBVIOUS
  <2>1. PICK n \in Bad : \A i \in Bad : n <= i
    BY <1>8, <2>0, LeastNumber, Zenon
  <2>2. n \in 1 .. Len(ss) /\ n # 1
    BY <1>2, <1>7, <2>1 DEF Sums
  <2>3. n - 1 \in 1 .. Len(ss) /\ n - 1 \notin Bad
    <3>1. n - 1 \in 1 .. Len(ss) /\ n - 1 < n
      BY <1>1, <2>2
    <3> QED BY <2>0, <2>1, <3>1
  <2>4. G[n - 1] = F[n - 1]
    BY <2>3
  <2> QED BY <1>2, <1>7, <2>1, <2>2, <2>4 DEF Sums
<1>9. G[Len(ss)] = F[Len(ss)]
  BY <1>1, <1>8
<1> QED BY <1>2, <1>6, <1>9

\* FlattenSeq, sequence by sequence.
LEMMA FlattenAppend ==
    ASSUME NEW S, NEW ss \in Seq(Seq(S)), NEW s \in Seq(S)
    PROVE  /\ FlattenSeq(<<>>) = <<>>
           /\ FlattenSeq(ss) \in Seq(S)
           /\ FlattenSeq(Append(ss, s)) = FlattenSeq(ss) \o s
<1>0. FlattenSeq(<<>>) = <<>>
  BY DEF FlattenSeq
<1> DEFINE tt == Append(ss, s)
<1>1. /\ tt \in Seq(Seq(S)) /\ tt # <<>> /\ Len(tt) = Len(ss) + 1 /\ tt[Len(ss) + 1] = s
      /\ \A i \in 1 .. Len(ss) : tt[i] = ss[i]
      /\ Len(ss) \in Nat
  <2> DEFINE T == Seq(S)
  <2>1. ss \in Seq(T) /\ s \in T
    OBVIOUS
  <2> HIDE DEF T
  <2>2. Append(ss, s) \in Seq(T) /\ Len(Append(ss, s)) = Len(ss) + 1
    BY <2>1
  <2>3. Append(ss, s) # <<>>
    BY <2>1, <2>2
  <2>4. Append(ss, s)[Len(ss) + 1] = s /\ \A i \in 1 .. Len(ss) : Append(ss, s)[i] = ss[i]
    BY <2>1
  <2>5. Len(ss) \in Nat
    BY <2>1
  <2> QED BY <2>2, <2>3, <2>4, <2>5 DEF T
<1> HIDE DEF tt
<1>2. PICK G : Sums(S, tt, G) /\ FlattenSeq(tt) = G[Len(tt)]
  BY <1>1, FlattenIsSum
<1>3. CASE ss = <<>>
  <2>1. FlattenSeq(tt) = s
    BY <1>1, <1>2, <1>3 DEF Sums
  <2>2. <<>> \o s = s
    OBVIOUS
  <2>3. FlattenSeq(ss) = <<>>
    BY <1>0, <1>3, Zenon
  <2>4. FlattenSeq(ss) \o s = s
    BY <2>2, <2>3, Zenon
  <2>5. FlattenSeq(ss) \in Seq(S)
    BY <2>3
  <2> QED BY <1>0, <2>1, <2>4, <2>5, Zenon DEF tt
<1>4. CASE ss # <<>>
  <2>1. PICK F : Sums(S, ss, F) /\ FlattenSeq(ss) = F[Len(ss)]
    BY <1>4, FlattenIsSum
  <2>2. Len(ss) # 0
    BY <1>4
  <2> DEFINE Bad == {i \in 1 .. Len(ss) : G[i] # F[i]}
  <2>3. ASSUME Bad # {} PROVE FALSE
    <3>0. Bad \subseteq Nat
      OBVIOUS
    <3>1. PICK n \in Bad : \A i \in Bad : n <= i
      BY <2>3, <3>0, LeastNumber, Zenon
    <3>2. n \in 1 .. Len(tt) /\ n \in 1 .. Len(ss) /\ tt[n] = ss[n]
      BY <1>1, <3>1
    <3>3. n # 1
      BY <1>2, <2>1, <3>1, <3>2 DEF Sums
    <3>4. n - 1 \in 1 .. Len(ss) /\ n - 1 < n
      BY <1>1, <3>2, <3>3
    <3>5. G[n - 1] = F[n - 1]
      <4>1. n \in Nat /\ ~ (n <= n - 1)
        BY <3>2
      <4>2. n - 1 \notin Bad
        BY <3>1, <4>1, Zenon
      <4> QED BY <3>4, <4>2
    <3>6. G[n] = G[n - 1] \o tt[n]
      BY <1>2, <3>2, <3>3, Zenon DEF Sums
    <3>7. F[n] = F[n - 1] \o ss[n]
      BY <2>1, <3>2, <3>3, Zenon DEF Sums
    <3> QED BY <3>1, <3>2, <3>5, <3>6, <3>7, Zenon
  <2>4. Len(ss) \in 1 .. Len(ss)
    BY <1>1, <2>2
  <2>5. G[Len(ss)] = F[Len(ss)] /\ F[Len(ss)] \in Seq(S)
    BY <2>1, <2>3, <2>4 DEF Sums
  <2>6. G[Len(ss) + 1] = G[Len(ss)] \o s
    <3>1. Len(ss) + 1 \in 1 .. Len(tt) /\ Len(ss) + 1 # 1 /\ Len(ss) + 1 - 1 = Len(ss)
      BY <1>1, <2>2
    <3> DEFINE m == Len(ss) + 1
    <3>2. m \in 1 .. Len(tt) /\ m # 1
      BY <3>1
    <3> HIDE DEF m
    <3>3. G[m] = G[m - 1] \o tt[m]
      BY <1>2, <3>2, Zenon DEF Sums
    <3>4. m = Len(ss) + 1 /\ m - 1 = Len(ss)
      BY <1>1 DEF m
    <3> QED BY <1>1, <3>3, <3>4, Zenon
  <2> QED BY <1>0, <1>1, <1>2, <2>1, <2>5, <2>6 DEF tt
<1> QED BY <1>3, <1>4

\* A set with <<>> and, with every sequence of its, that sequence and one
\* element more, has every sequence.
LEMMA AllSequences ==
    ASSUME NEW S, NEW P, <<>> \in P,
           \A s \in Seq(S) : \A x \in S : s \in P => Append(s, x) \in P
    PROVE  Seq(S) \subseteq P
<1> DEFINE Bad == {n \in Nat : \E s \in Seq(S) : Len(s) = n /\ s \notin P}
<1>1. SUFFICES ASSUME NEW r \in Seq(S), r \notin P PROVE FALSE
  OBVIOUS
<1>2. Bad # {} /\ Bad \subseteq Nat
  <2>1. Len(r) \in Nat
    OBVIOUS
  <2> QED BY <1>1, <2>1
<1>3. PICK n \in Bad : \A i \in Bad : n <= i
  BY <1>2, LeastNumber, Zenon
<1>4. PICK s \in Seq(S) : Len(s) = n /\ s \notin P
  BY <1>3
<1>5. s # <<>>
  BY <1>4
<1>6. PICK u \in Seq(S), x \in S : s = Append(u, x)
  BY <1>5, SequenceEmptyOrAppend, Zenon
<1>7. Len(s) = Len(u) + 1 /\ Len(u) \in Nat
  BY <1>6, AppendProperties
<1>8. u \in P
  <2>1. SUFFICES ASSUME u \notin P PROVE FALSE
    OBVIOUS
  <2>2. Len(u) \in Bad
    BY <1>7, <2>1
  <2>3. n <= Len(u)
    BY <1>3, <2>2
  <2> QED BY <1>4, <1>7, <2>3
<1> QED BY <1>4, <1>6, <1>8

\* FlattenSeq of two sequences of sequences, and of one sequence.
LEMMA FlattenConcat ==
    ASSUME NEW S, NEW ss \in Seq(Seq(S)), NEW tt \in Seq(Seq(S))
    PROVE  FlattenSeq(ss \o tt) = FlattenSeq(ss) \o FlattenSeq(tt)
<1> DEFINE P == {t \in Seq(Seq(S)) : FlattenSeq(ss \o t) = FlattenSeq(ss) \o FlattenSeq(t)}
<1>1. /\ ss \o <<>> = ss /\ <<>> \in Seq(Seq(S)) /\ FlattenSeq(<<>>) = <<>>
      /\ FlattenSeq(ss) \in Seq(S) /\ FlattenSeq(ss) \o <<>> = FlattenSeq(ss)
  <2>1. <<>> \in Seq(S)
    OBVIOUS
  <2>2. FlattenSeq(<<>>) = <<>> /\ FlattenSeq(ss) \in Seq(S)
    BY <2>1, FlattenAppend, Zenon
  <2>3. ss \o <<>> = ss /\ <<>> \in Seq(Seq(S))
    BY ConcatEmptySeq, EmptySeq, Zenon
  <2>4. FlattenSeq(ss) \o <<>> = FlattenSeq(ss)
    BY <2>2, ConcatEmptySeq, Zenon
  <2> QED BY <2>2, <2>3, <2>4
<1>2. <<>> \in P
  BY <1>1, Zenon
<1>3. ASSUME NEW t \in Seq(Seq(S)), NEW s \in Seq(S), t \in P PROVE Append(t, s) \in P
  <2>1. FlattenSeq(ss \o t) = FlattenSeq(ss) \o FlattenSeq(t)
    BY <1>3
  <2>2. ss \o Append(t, s) = Append(ss \o t, s) /\ ss \o t \in Seq(Seq(S)) /\ Append(t, s) \in Seq(Seq(S))
    <3> DEFINE T == Seq(S)
    <3>1. ss \in Seq(T) /\ t \in Seq(T) /\ s \in T
      OBVIOUS
    <3> HIDE DEF T
    <3>2. /\ Append(t, s) = t \o <<s>> /\ <<s>> \in Seq(T)
          /\ ss \o t \in Seq(T) /\ Append(ss \o t, s) = (ss \o t) \o <<s>> /\ Append(t, s) \in Seq(T)
      <4>1. <<s>> \in Seq(T)
        BY <3>1
      <4>2. ss \o t \in Seq(T)
        BY <3>1, ConcatProperties, Zenon
      <4> QED BY <3>1, <4>1, <4>2, AppendIsConcat, AppendProperties, Zenon
    <3>3. (ss \o t) \o <<s>> = ss \o (t \o <<s>>)
      BY <3>1, <3>2, ConcatAssociative
    <3> QED BY <3>2, <3>3, Zenon DEF T
  <2>3. FlattenSeq(Append(ss \o t, s)) = FlattenSeq(ss \o t) \o s
    BY <2>2, FlattenAppend, Zenon
  <2>4. FlattenSeq(Append(t, s)) = FlattenSeq(t) \o s /\ FlattenSeq(t) \in Seq(S)
    BY FlattenAppend, Zenon
  <2>5. (FlattenSeq(ss) \o FlattenSeq(t)) \o s = FlattenSeq(ss) \o (FlattenSeq(t) \o s)
    BY <1>1, <2>4, ConcatAssociative
  <2>6. FlattenSeq(ss \o Append(t, s)) = FlattenSeq(ss) \o FlattenSeq(Append(t, s))
    BY <2>1, <2>2, <2>3, <2>4, <2>5, Zenon
  <2> QED BY <2>2, <2>6, Zenon
<1> HIDE DEF P
<1>4. Seq(Seq(S)) \subseteq P
  BY <1>2, <1>3, AllSequences, Zenon
<1> QED BY <1>4 DEF P

LEMMA FlattenOne ==
    ASSUME NEW S, NEW s \in Seq(S)
    PROVE  FlattenSeq(<<s>>) = s
<1>1. <<>> \in Seq(Seq(S)) /\ <<>> \o s = s
  BY EmptySeq, ConcatEmptySeq, Zenon
<1>2. FlattenSeq(Append(<<>>, s)) = FlattenSeq(<<>>) \o s /\ FlattenSeq(<<>>) = <<>>
  BY <1>1, FlattenAppend, Zenon
<1>3. Append(<<>>, s) = <<s>>
  OBVIOUS
<1> QED BY <1>1, <1>2, <1>3, Zenon

\* A sequence, element by element.
Mapped(g, s) == [i \in DOMAIN s |-> g[s[i]]]

LEMMA MappedConcat ==
    ASSUME NEW S, NEW T, NEW g \in [S -> T], NEW s \in Seq(S), NEW t \in Seq(S)
    PROVE  /\ Mapped(g, s) \in Seq(T)
           /\ Mapped(g, s \o t) = Mapped(g, s) \o Mapped(g, t)
<1>1. ASSUME NEW r \in Seq(S)
      PROVE  /\ Mapped(g, r) \in Seq(T) /\ Len(Mapped(g, r)) = Len(r) /\ Len(r) \in Nat
             /\ \A i \in 1 .. Len(r) : Mapped(g, r)[i] = g[r[i]]
  <2>1. Len(r) \in Nat /\ DOMAIN r = 1 .. Len(r) /\ \A i \in 1 .. Len(r) : r[i] \in S
    OBVIOUS
  <2> DEFINE m == Mapped(g, r)
  <2>2. m = [i \in 1 .. Len(r) |-> g[r[i]]]
    BY <2>1 DEF Mapped
  <2> HIDE DEF m
  <2>3. m \in [1 .. Len(r) -> T]
    BY <2>1, <2>2
  <2>4. m \in Seq(T) /\ Len(m) = Len(r)
    BY <2>1, <2>3
  <2> QED BY <2>1, <2>2, <2>4 DEF m
<1>2. /\ s \o t \in Seq(S) /\ Len(s \o t) = Len(s) + Len(t)
      /\ \A i \in 1 .. Len(s) + Len(t) : (s \o t)[i] = IF i <= Len(s) THEN s[i] ELSE t[i - Len(s)]
  BY ConcatProperties, Zenon
<1> DEFINE a == Mapped(g, s)
           b == Mapped(g, t)
           c == Mapped(g, s \o t)
<1>3. /\ a \in Seq(T) /\ b \in Seq(T) /\ c \in Seq(T)
      /\ Len(a) = Len(s) /\ Len(b) = Len(t) /\ Len(c) = Len(s) + Len(t)
      /\ Len(s) \in Nat /\ Len(t) \in Nat
      /\ \A i \in 1 .. Len(s) : a[i] = g[s[i]]
      /\ \A i \in 1 .. Len(t) : b[i] = g[t[i]]
      /\ \A i \in 1 .. Len(s) + Len(t) : c[i] = g[(s \o t)[i]]
  BY <1>1, <1>2
<1> HIDE DEF a, b, c
<1>4. /\ a \o b \in Seq(T) /\ Len(a \o b) = Len(s) + Len(t)
      /\ \A i \in 1 .. Len(s) + Len(t) : (a \o b)[i] = IF i <= Len(s) THEN a[i] ELSE b[i - Len(s)]
  <2>1. /\ a \o b \in Seq(T) /\ Len(a \o b) = Len(a) + Len(b)
        /\ \A i \in 1 .. Len(a) + Len(b) : (a \o b)[i] = IF i <= Len(a) THEN a[i] ELSE b[i - Len(a)]
    <3>1. a \in Seq(T) /\ b \in Seq(T)
      BY <1>3
    <3> QED BY ONLY <3>1, ConcatProperties
  <2>2. Len(a) = Len(s) /\ Len(b) = Len(t)
    BY <1>3
  <2> QED BY <2>1, <2>2
<1>5. ASSUME NEW i \in 1 .. Len(s) + Len(t) PROVE c[i] = (a \o b)[i]
  <2>1. CASE i <= Len(s)
    <3>1. i \in 1 .. Len(s)
      BY <1>3, <2>1
    <3> QED BY <1>2, <1>3, <1>4, <2>1, <3>1
  <2>2. CASE ~ (i <= Len(s))
    <3>1. i - Len(s) \in 1 .. Len(t)
      BY <1>3, <2>2
    <3>2. c[i] = g[t[i - Len(s)]]
      BY <1>2, <1>3, <2>2
    <3>3. (a \o b)[i] = g[t[i - Len(s)]]
      BY <1>3, <1>4, <2>2, <3>1
    <3> QED BY <3>2, <3>3
  <2> QED BY <2>1, <2>2
<1>6. c = a \o b
  BY <1>3, <1>4, <1>5, SeqEqual
<1> QED BY <1>3, <1>6 DEF a, b, c
-----------------------------------------------------------------------------
(* Functions that follow steps until they stop.                             *)

\* From the elements of C the function f follows step, which makes mu smaller;
\* elsewhere it is what stop says.
Follows(f, S, C, step, stop) == f = [n \in S |-> IF n \in C THEN f[step[n]] ELSE stop[n]]

Falls(mu, S, C, step) ==
    /\ mu \in [S -> Nat] /\ C \subseteq S
    /\ \A n \in C : step[n] \in S /\ mu[step[n]] < mu[n]

\* The steps do not leave A, and where they stop, stop is in T.
Closes(A, T, C, step, stop) ==
    \A n \in A : (n \in C => step[n] \in A) /\ (n \notin C => stop[n] \in T)

\* If mu is bounded, there is such a function.
LEMMA FollowsExists ==
    ASSUME NEW S, NEW C, NEW step, NEW stop, NEW mu, Falls(mu, S, C, step),
           NEW B \in Nat, \A n \in S : mu[n] < B
    PROVE  \E f : Follows(f, S, C, step, stop)
<1> DEFINE At(b) == {n \in S : mu[n] < b}
           Good(b) == \E f : f = [n \in At(b) |-> IF n \in C THEN f[step[n]] ELSE stop[n]]
           Bad == {b \in 0 .. B : ~Good(b)}
<1>0. mu \in [S -> Nat] /\ \A n \in C : n \in S /\ step[n] \in S /\ mu[step[n]] < mu[n]
  BY DEF Falls
<1>1. Good(0)
  <2>1. At(0) = {}
    BY <1>0
  <2> HIDE DEF At
  <2>2. PICK e : e = [n \in {} |-> n]
    OBVIOUS
  <2>3. e = [n \in At(0) |-> IF n \in C THEN e[step[n]] ELSE stop[n]]
    BY <2>1, <2>2
  <2> QED
    BY <2>3
<1>2. ASSUME NEW b \in Nat, Good(b) PROVE Good(b + 1)
  <2>1. PICK f : f = [n \in At(b) |-> IF n \in C THEN f[step[n]] ELSE stop[n]]
    BY <1>2
  <2>2. PICK e : e = [n \in At(b + 1) |-> IF n \in C THEN f[step[n]] ELSE stop[n]]
    OBVIOUS
  <2>3. ASSUME NEW n \in At(b) PROVE e[n] = f[n]
    <3>1. n \in At(b + 1)
      BY <1>0
    <3>2. e[n] = IF n \in C THEN f[step[n]] ELSE stop[n]
      BY <2>2, <3>1, Zenon
    <3>3. f[n] = IF n \in C THEN f[step[n]] ELSE stop[n]
      BY <2>1, Zenon
    <3>4. CASE n \in C
      BY <3>2, <3>3, <3>4
    <3>5. CASE n \notin C
      BY <3>2, <3>3, <3>5
    <3> QED
      BY <3>4, <3>5
  <2>4. ASSUME NEW n \in At(b + 1), n \in C PROVE step[n] \in At(b)
    BY <1>0, <2>4
  <2>5. \A n \in At(b + 1) : n \in C => f[step[n]] = e[step[n]]
    <3> HIDE DEF At
    <3> QED BY <2>3, <2>4, Zenon
  <2>6. e = [n \in At(b + 1) |-> IF n \in C THEN e[step[n]] ELSE stop[n]]
    <3> HIDE DEF At
    <3> DEFINE u == [n \in At(b + 1) |-> IF n \in C THEN f[step[n]] ELSE stop[n]]
               w == [n \in At(b + 1) |-> IF n \in C THEN e[step[n]] ELSE stop[n]]
    <3>1. \A n \in At(b + 1) : u[n] = w[n]
      BY <2>5
    <3>2. u = w
      BY <3>1
    <3> QED BY <2>2, <3>2
  <2> QED
    BY <2>6
<1>3. Good(B)
  <2> HIDE DEF Good
  <2>1. SUFFICES ASSUME Bad # {} PROVE FALSE
    OBVIOUS
  <2>2. Bad \subseteq Nat
    OBVIOUS
  <2>3. PICK b \in Bad : \A i \in Bad : b <= i
    BY <2>1, <2>2, LeastNumber, Zenon
  <2>4. b # 0
    BY <1>1, <2>3
  <2>5. b - 1 \in Nat /\ b - 1 \in 0 .. B /\ b - 1 \notin Bad
    BY <2>3, <2>4
  <2>6. Good(b - 1)
    BY <2>5
  <2>7. Good((b - 1) + 1)
    BY <1>2, <2>5, <2>6
  <2>8. (b - 1) + 1 = b
    BY <2>3
  <2> QED
    BY <2>3, <2>7, <2>8
<1>4. At(B) = S
  OBVIOUS
<1> HIDE DEF At
<1> QED
  BY <1>3, <1>4 DEF Follows

\* What the steps do not leave, they end in.
LEMMA FollowsEnds ==
    ASSUME NEW S, NEW C, NEW step, NEW stop, NEW mu, Falls(mu, S, C, step),
           NEW f, Follows(f, S, C, step, stop),
           NEW A, A \subseteq S, NEW T, Closes(A, T, C, step, stop)
    PROVE  \A n \in A : f[n] \in T
<1> DEFINE Bad == {n \in A : f[n] \notin T}
           Mus == {mu[n] : n \in Bad}
<1>0. mu \in [S -> Nat] /\ \A n \in C : n \in S /\ step[n] \in S /\ mu[step[n]] < mu[n]
  BY DEF Falls
<1>1. SUFFICES ASSUME Bad # {} PROVE FALSE
  OBVIOUS
<1>2. Mus \subseteq Nat /\ Mus # {}
  BY <1>0, <1>1
<1>3. PICK m \in Mus : \A i \in Mus : m <= i
  <2> HIDE DEF Mus
  <2> QED BY <1>2, LeastNumber, Zenon
<1>4. PICK n \in Bad : mu[n] = m
  OBVIOUS
<1>5. f[n] = IF n \in C THEN f[step[n]] ELSE stop[n]
  BY Zenon DEF Follows
<1>6. n \in C /\ step[n] \in Bad
  BY <1>5 DEF Closes
<1>7. mu[step[n]] \in Mus
  BY <1>6
<1>8. mu[step[n]] < m /\ m <= mu[step[n]] /\ m \in Nat /\ mu[step[n]] \in Nat
  BY <1>0, <1>2, <1>3, <1>4, <1>6, <1>7
<1> QED
  BY <1>8

\* Finitely many numbers have a bound.
LEMMA Bounded ==
    ASSUME NEW N \in Nat, NEW m \in [1 .. N -> Nat]
    PROVE  \E B \in Nat : \A n \in 1 .. N : m[n] < B
<1> DEFINE Good(i) == \E B \in Nat : \A n \in 1 .. i : m[n] < B
           Bad == {i \in 0 .. N : ~Good(i)}
<1>1. Good(0)
  <2>1. \A n \in 1 .. 0 : m[n] < 0
    OBVIOUS
  <2> QED BY <2>1
<1>2. ASSUME NEW i \in 0 .. N - 1, Good(i) PROVE Good(i + 1)
  <2>1. PICK B \in Nat : \A n \in 1 .. i : m[n] < B
    BY <1>2
  <2>2. m[i + 1] \in Nat
    OBVIOUS
  <2>3. PICK D : D = B + m[i + 1] + 1
    OBVIOUS
  <2>4. D \in Nat /\ \A n \in 1 .. i + 1 : m[n] < D
    BY <2>1, <2>2, <2>3
  <2> QED BY <2>4
<1> HIDE DEF Good
<1>3. Good(N)
  <2>1. SUFFICES ASSUME Bad # {} PROVE FALSE
    OBVIOUS
  <2>2. Bad \subseteq Nat
    OBVIOUS
  <2>3. PICK b \in Bad : \A i \in Bad : b <= i
    BY <2>1, <2>2, LeastNumber, Zenon
  <2>4. b # 0
    BY <1>1, <2>3
  <2>5. b - 1 \in 0 .. N - 1 /\ b - 1 \notin Bad
    BY <2>3, <2>4
  <2>6. Good(b - 1)
    BY <2>5
  <2>7. Good((b - 1) + 1)
    BY <1>2, <2>5, <2>6
  <2>8. (b - 1) + 1 = b
    BY <2>3
  <2> QED
    BY <2>3, <2>7, <2>8
<1> QED
  BY <1>3 DEF Good
=============================================================================
