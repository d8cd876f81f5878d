-------------------------- MODULE MasstreeProofs --------------------------
(***************************************************************************)
(* Proofs about Masstree: the type invariant with the shape of the tree,   *)
(* the node locks through the hand-overs of split(), and the marks of the  *)
(* nodes that are being rewritten.                                         *)
(***************************************************************************)
EXTENDS Masstree, SequenceTheorems, FiniteSetTheorems, Induction
-----------------------------------------------------------------------------
(* The inductive invariant.                                                 *)

Node == [border : BOOLEAN, version : Version, slots : SUBSET Keys, next : Nat \cup {NULL},
         parent : Nat \cup {NULL}, seps : Seq(Keys), children : Seq(Nat), torn : BOOLEAN]

\* A thread in findBorder; one that has a node of its own; one at a border node.
Finding  == {"findRoot", "descend", "childVersion", "check", "revalidate"}
Getting  == {"search", "found", "notFound", "forward", "walk"}
OnBorder == {"lock", "locked", "unlock", "splitKeys"} \cup Getting

\* A thread in split(): with the new node, with the parent that takes it, and
\* with the pair of nodes that the parent does not know as two.
WithSib == {"splitKeys", "ascend", "leaveRoot", "leaveSibling", "shiftParent", "intoParent",
            "leaveNode", "leaveNode1", "splitParent", "tearParent", "fillParent", "ascendParent"}
WithPar == {"leaveRoot", "leaveSibling", "storeRoot", "shiftParent", "intoParent", "leaveNode",
            "leaveNode1", "leaveParent", "splitParent", "tearParent", "fillParent", "ascendParent"}
Halfway == {"splitKeys", "ascend", "shiftParent", "intoParent", "splitParent", "tearParent",
            "fillParent", "ascendParent"}

WithNode == (Finding \ {"findRoot"}) \cup OnBorder \cup
            (Halfway \ {"ascendParent"}) \cup {"leaveRoot", "leaveNode"}

\* The variables have their types.
Typed ==
    /\ nodes \in Seq(Node)
    /\ root \in DOMAIN nodes \cup {NULL}
    /\ pc \in [Threads -> PCs]
    /\ op \in [Threads -> {"insert", "get"}] /\ key \in [Threads -> Keys \cup {0}]
    /\ {top, cur, node, child, sib, par, par1} \subseteq [Threads -> DOMAIN nodes \cup {NULL}]
    /\ ver \in [Threads -> Version] /\ cver \in [Threads -> Version]
    /\ up \in [Threads -> Keys \cup {0}]
    /\ todo \in [Threads -> Seq(Calls)]
    /\ returned \in [Keys -> Nat] /\ seen \in [Threads -> SUBSET Keys]
    /\ DOMAIN got = Threads
    /\ faults \subseteq Faults

\* A thread has the nodes and the keys its next step is about.
Places(t) ==
    /\ pc[t] \in Finding => cur[t] \in DOMAIN nodes
    /\ pc[t] \in WithNode => node[t] \in DOMAIN nodes
    /\ pc[t] \in OnBorder => nodes[node[t]].border
    /\ pc[t] \in {"childVersion", "check"} => child[t] \in DOMAIN nodes
    /\ pc[t] \in WithSib => sib[t] \in DOMAIN nodes
    /\ pc[t] = "splitKeys" => nodes[sib[t]].border
    /\ pc[t] \in WithPar => par[t] \in DOMAIN nodes
    /\ pc[t] = "ascendParent" => par1[t] \in DOMAIN nodes
    /\ pc[t] # "idle" => key[t] \in Keys
    /\ pc[t] \in WithSib \ {"splitKeys"} => up[t] \in Keys

Kids(n) == ToSet(nodes[n].children)

\* The shape of node n.
Shape(n) ==
    /\ {nodes[n].next, nodes[n].parent} \subseteq DOMAIN nodes \cup {NULL}
    /\ nodes[n].next # NULL => nodes[nodes[n].next].border
    /\ Kids(n) \subseteq DOMAIN nodes
    /\ IsFiniteSet(nodes[n].slots) /\ Cardinality(nodes[n].slots) < ORDER
    /\ IF nodes[n].border THEN nodes[n].children = <<>>
       ELSE /\ nodes[n].slots = {}
            /\ Len(nodes[n].children) = Len(nodes[n].seps) + 1
            /\ Len(nodes[n].children) <= ORDER

\* Parents and children know each other, and no child is there twice.
Family ==
    /\ \A p \in DOMAIN nodes : \A n \in Kids(p) : nodes[n].parent = p
    /\ \A n \in DOMAIN nodes : nodes[n].parent # NULL => n \in Kids(nodes[n].parent)
    /\ \A p \in DOMAIN nodes : \A i, j \in DOMAIN nodes[p].children :
          nodes[p].children[i] = nodes[p].children[j] => i = j

\* The nodes that t's split is rewriting, and those it has marked.
Tearing(t) ==
    CASE pc[t] = "splitKeys" -> {node[t]}
      [] pc[t] \in {"intoParent", "fillParent"} -> {par[t]}
      [] OTHER -> {}

Inserting(t) ==
    IF pc[t] \in {"intoParent", "leaveNode", "leaveNode1", "leaveParent"} THEN {par[t]} ELSE {}

Splitting(t) ==
    CASE pc[t] \in {"splitKeys", "ascend", "leaveRoot", "shiftParent", "intoParent", "leaveNode",
                    "splitParent"} -> {node[t], sib[t]}
      [] pc[t] \in {"leaveSibling", "leaveNode1"} -> {sib[t]}
      [] pc[t] = "tearParent" -> {node[t], sib[t], par[t]}
      [] pc[t] = "fillParent" -> {sib[t], par[t]}
      [] pc[t] = "ascendParent" -> {sib[t], par[t], par1[t]}
      [] OTHER -> {}

\* A node is torn, or marked, exactly while some thread's split has it so.
Marked ==
    \A n \in DOMAIN nodes :
        /\ V(n).splitting <=> \E t \in Threads : n \in Splitting(t)
        /\ V(n).inserting <=> \E t \in Threads : n \in Inserting(t)
        /\ nodes[n].torn  <=> \E t \in Threads : n \in Tearing(t)

\* The nodes t holds are different nodes.
Apart(t) ==
    /\ pc[t] \in WithSib \ {"leaveSibling", "leaveNode1", "fillParent", "ascendParent"} =>
         node[t] # sib[t]
    /\ pc[t] \in {"shiftParent", "intoParent", "leaveNode", "splitParent", "tearParent"} =>
         node[t] # par[t]
    /\ pc[t] \in WithSib \ {"splitKeys", "ascend", "leaveRoot", "leaveSibling"} =>
         sib[t] # par[t]
    /\ pc[t] = "ascendParent" => sib[t] # par1[t] /\ par[t] # par1[t]

\* The node that t has made and linked to no parent yet.
Right(t) == IF pc[t] = "ascendParent" THEN par1[t] ELSE sib[t]

Unlinked(n) == \E t \in Threads : pc[t] \in Halfway /\ n = Right(t)

\* A node is the root or has a parent, unless it is new.
Rooted ==
    /\ \A n \in DOMAIN nodes : V(n).is_root \/ nodes[n].parent # NULL \/ Unlinked(n)
    /\ \A n \in DOMAIN nodes : Unlinked(n) => nodes[n].parent = NULL

\* What a split knows of the node it splits and of the parent it holds.
Splits(t) ==
    /\ pc[t] = "splitKeys" => key[t] \notin nodes[node[t]].slots /\ nodes[node[t]].slots # {}
    /\ pc[t] \in {"shiftParent", "intoParent", "splitParent", "tearParent", "fillParent"} =>
         nodes[node[t]].parent = par[t]
    /\ pc[t] \in {"shiftParent", "intoParent"} => Len(nodes[par[t]].seps) < ORDER - 1
    /\ pc[t] \in {"splitParent", "tearParent", "fillParent"} =>
         Len(nodes[par[t]].seps) = ORDER - 1
    /\ pc[t] \in {"leaveRoot", "leaveNode"} => nodes[node[t]].parent # NULL
    /\ pc[t] \in {"leaveRoot", "leaveSibling", "leaveNode", "leaveNode1"} =>
         nodes[sib[t]].parent # NULL

Inductive ==
    /\ Typed /\ LocksHeld /\ Marked /\ Family /\ Rooted
    /\ \A n \in DOMAIN nodes : Shape(n)
    /\ \A t \in Threads : Places(t) /\ Apart(t) /\ Splits(t)


-----------------------------------------------------------------------------
(* The operators the nodes are changed with.                                *)

\* What is assumed of the constants, one fact at a time.
LEMMA Constants ==
    /\ ORDER \in Nat /\ ORDER >= 3
    /\ Keys \subseteq Nat /\ 0 \notin Keys
    /\ Plans \subseteq [Threads -> Seq(Calls)]
    /\ NULL \notin Nat
BY MasstreeAssumption

\* Two versions of a node that differ in its marks and its counters only.
Alike(x, y) ==
    /\ x.border = y.border /\ x.slots = y.slots /\ x.next = y.next /\ x.parent = y.parent
    /\ x.seps = y.seps /\ x.children = y.children
    /\ x.version.is_root = y.version.is_root

LEMMA AddNode ==
    ASSUME NEW ns \in Seq(Node), NEW x \in Node
    PROVE  /\ Append(ns, x) \in Seq(Node)
           /\ Len(ns) + 1 \notin DOMAIN ns /\ Len(ns) + 1 \in Nat
           /\ DOMAIN Append(ns, x) = DOMAIN ns \cup {Len(ns) + 1}
           /\ Len(Append(ns, x)) = Len(ns) + 1
           /\ Append(ns, x)[Len(ns) + 1] = x
           /\ \A n \in DOMAIN ns : Append(ns, x)[n] = ns[n]
BY AppendProperties

\* Changing a node makes another node of it, and none of the others.
LEMMA SetNode ==
    ASSUME NEW ns \in Seq(Node), NEW i \in DOMAIN ns, NEW x \in Node
    PROVE  /\ [ns EXCEPT ![i] = x] \in Seq(Node)
           /\ DOMAIN [ns EXCEPT ![i] = x] = DOMAIN ns
           /\ Len([ns EXCEPT ![i] = x]) = Len(ns)
           /\ [ns EXCEPT ![i] = x][i] = x
           /\ \A n \in DOMAIN ns : n # i => [ns EXCEPT ![i] = x][n] = ns[n]
BY ExceptSeq

LEMMA LockNodeIs ==
    ASSUME NEW ns \in Seq(Node), NEW i \in DOMAIN ns
    PROVE  /\ LockNode(ns, i) \in Seq(Node)
           /\ DOMAIN LockNode(ns, i) = DOMAIN ns
           /\ \A n \in DOMAIN ns : n # i => LockNode(ns, i)[n] = ns[n]
           /\ Alike(LockNode(ns, i)[i], ns[i])
           /\ LockNode(ns, i)[i].torn = ns[i].torn
           /\ LockNode(ns, i)[i].version = [ns[i].version EXCEPT !.locked = TRUE]
<1> DEFINE x == [ns[i] EXCEPT !.version.locked = TRUE]
<1>1. ns[i] \in Node
  BY ElementOfSeq
<1>2. x \in Node /\ x.version = [ns[i].version EXCEPT !.locked = TRUE]
      /\ Alike(x, ns[i]) /\ x.torn = ns[i].torn
  BY <1>1 DEF Node, Version, Alike
<1>3. LockNode(ns, i) = [ns EXCEPT ![i] = x]
  BY DEF LockNode
<1> HIDE DEF x
<1>5. /\ [ns EXCEPT ![i] = x] \in Seq(Node)
      /\ DOMAIN [ns EXCEPT ![i] = x] = DOMAIN ns
      /\ [ns EXCEPT ![i] = x][i] = x
      /\ \A n \in DOMAIN ns : n # i => [ns EXCEPT ![i] = x][n] = ns[n]
  BY <1>2, SetNode
<1> QED
  BY <1>2, <1>3, <1>5

Unlocked(v) == [v EXCEPT !.v_insert  = IF v.inserting THEN @ + 1 ELSE @,
                         !.v_split   = IF ~v.inserting /\ v.splitting THEN @ + 1 ELSE @,
                         !.locked    = FALSE,
                         !.inserting = FALSE,
                         !.splitting = FALSE]

LEMMA UnlockedIs ==
    ASSUME NEW v \in Version
    PROVE  /\ Unlocked(v) \in Version
           /\ ~Unlocked(v).locked /\ ~Unlocked(v).inserting /\ ~Unlocked(v).splitting
           /\ Unlocked(v).is_root = v.is_root
           /\ Unlocked(v).v_insert = IF v.inserting THEN v.v_insert + 1 ELSE v.v_insert
           /\ Unlocked(v).v_split = IF ~v.inserting /\ v.splitting THEN v.v_split + 1 ELSE v.v_split
<1> DEFINE a == IF v.inserting THEN v.v_insert + 1 ELSE v.v_insert
           b == IF ~v.inserting /\ v.splitting THEN v.v_split + 1 ELSE v.v_split
<1>1. a \in Nat /\ b \in Nat
  BY DEF Version
<1>2. Unlocked(v) = [v EXCEPT !.v_insert = a, !.v_split = b, !.locked = FALSE,
                              !.inserting = FALSE, !.splitting = FALSE]
  BY DEF Unlocked
<1> HIDE DEF a, b
<1> DEFINE w == [v EXCEPT !.v_insert = a, !.v_split = b, !.locked = FALSE,
                          !.inserting = FALSE, !.splitting = FALSE]
<1>3. w \in Version
  BY <1>1 DEF Version
<1>4. /\ ~w.locked /\ ~w.inserting /\ ~w.splitting
      /\ w.is_root = v.is_root /\ w.v_insert = a /\ w.v_split = b
  BY DEF Version
<1> HIDE DEF w
<1> QED
  BY <1>2, <1>3, <1>4 DEF a, b, w

LEMMA UnlockNodeIs ==
    ASSUME NEW ns \in Seq(Node), NEW i \in DOMAIN ns
    PROVE  /\ UnlockNode(ns, i) \in Seq(Node)
           /\ DOMAIN UnlockNode(ns, i) = DOMAIN ns
           /\ \A n \in DOMAIN ns : n # i => UnlockNode(ns, i)[n] = ns[n]
           /\ Alike(UnlockNode(ns, i)[i], ns[i])
           /\ UnlockNode(ns, i)[i].torn = ns[i].torn
           /\ UnlockNode(ns, i)[i].version = Unlocked(ns[i].version)
<1> DEFINE x == [ns[i] EXCEPT !.version = Unlocked(ns[i].version)]
<1>1. ns[i] \in Node
  BY ElementOfSeq
<1>2. Unlocked(ns[i].version) \in Version
      /\ Unlocked(ns[i].version).is_root = ns[i].version.is_root
  BY <1>1, UnlockedIs DEF Node
<1>3. x \in Node /\ x.version = Unlocked(ns[i].version)
      /\ Alike(x, ns[i]) /\ x.torn = ns[i].torn
  BY <1>1, <1>2 DEF Node, Alike
<1>4. UnlockNode(ns, i) = [ns EXCEPT ![i] = x]
  BY DEF UnlockNode, SetVersion, Unlocked
<1> HIDE DEF x
<1>5. /\ [ns EXCEPT ![i] = x] \in Seq(Node)
      /\ DOMAIN [ns EXCEPT ![i] = x] = DOMAIN ns
      /\ [ns EXCEPT ![i] = x][i] = x
      /\ \A n \in DOMAIN ns : n # i => [ns EXCEPT ![i] = x][n] = ns[n]
  BY <1>3, SetNode
<1> QED
  BY <1>3, <1>4, <1>5


-----------------------------------------------------------------------------
(* Steps, and what they leave alone.                                        *)

Step(t) == Call(t) \/ LoadRoot(t) \/ CasRoot(t) \/ findBorder(t) \/ masstree_insert(t)
           \/ masstree_get(t)

LEMMA NextIsStep ==
    ASSUME Next
    PROVE  UNCHANGED vars \/ \E t \in Threads : Step(t)
BY DEF Next, Thread, Finished, Step

\* What other threads are at is theirs.
Local(u) == <<pc[u], op[u], key[u], todo[u], seen[u], got[u], top[u], cur[u], node[u], ver[u],
              child[u], cver[u], sib[u], par[u], par1[u], up[u]>>

LEMMA OthersSame ==
    ASSUME Typed, NEW t \in Threads, Step(t), NEW u \in Threads, u # t
    PROVE  Local(u)' = Local(u)
<1> USE DEF Typed, Local, loc, call, hist, Goto, Return
<1>1. CASE Call(t)
  BY <1>1 DEF Call
<1>2. CASE LoadRoot(t)
  BY <1>2 DEF LoadRoot
<1>3. CASE CasRoot(t)
  BY <1>3 DEF CasRoot
<1>4. CASE FindRoot(t)
  BY <1>4 DEF FindRoot
<1>5. CASE AtBorder(t)
  BY <1>5 DEF AtBorder
<1>6. CASE Descend(t)
  BY <1>6 DEF Descend
<1>7. CASE ChildVersion(t)
  BY <1>7 DEF ChildVersion
<1>8. CASE Check(t)
  BY <1>8 DEF Check
<1>9. CASE Revalidate(t)
  BY <1>9 DEF Revalidate
<1>10. CASE LockBorder(t)
  BY <1>10 DEF LockBorder
<1>11. CASE AlreadyExists(t)
  BY <1>11 DEF AlreadyExists
<1>12. CASE InsertToBorder(t)
  BY <1>12 DEF InsertToBorder
<1>13. CASE Unlock(t)
  BY <1>13 DEF Unlock
<1>14. CASE Split(t)
  BY <1>14 DEF Split
<1>15. CASE SplitKeys(t)
  BY <1>15 DEF SplitKeys
<1>16. CASE NewRoot(t)
  BY <1>16 DEF NewRoot
<1>17. CASE LeaveRoot(t)
  BY <1>17 DEF LeaveRoot
<1>18. CASE LeaveSibling(t)
  BY <1>18 DEF LeaveSibling
<1>19. CASE StoreRoot(t)
  BY <1>19 DEF StoreRoot
<1>20. CASE LockParent(t)
  BY <1>20 DEF LockParent
<1>21. CASE ShiftParent(t)
  BY <1>21 DEF ShiftParent
<1>22. CASE IntoParent(t)
  BY <1>22 DEF IntoParent
<1>23. CASE LeaveNode(t)
  BY <1>23 DEF LeaveNode
<1>24. CASE LeaveNode1(t)
  BY <1>24 DEF LeaveNode1
<1>25. CASE LeaveParent(t)
  BY <1>25 DEF LeaveParent
<1>26. CASE SplitParent(t)
  BY <1>26 DEF SplitParent
<1>27. CASE TearParent(t)
  BY <1>27 DEF TearParent
<1>28. CASE FillParent(t)
  BY <1>28 DEF FillParent
<1>29. CASE AscendParent(t)
  BY <1>29 DEF AscendParent
<1>30. CASE Search(t)
  BY <1>30 DEF Search
<1>31. CASE Verify(t)
  BY <1>31 DEF Verify
<1>32. CASE Forward(t)
  BY <1>32 DEF Forward
<1>33. CASE Walk(t)
  BY <1>33 DEF Walk
<1> QED
  BY <1>1, <1>2, <1>3, <1>4, <1>5, <1>6, <1>7, <1>8, <1>9, <1>10, <1>11, <1>12, <1>13, <1>14, <1>15, <1>16, <1>17, <1>18, <1>19, <1>20, <1>21, <1>22, <1>23, <1>24, <1>25, <1>26, <1>27, <1>28, <1>29, <1>30, <1>31, <1>32, <1>33 DEF Step, findBorder, masstree_insert, masstree_get


LEMMA OthersHold ==
    ASSUME Typed, NEW t \in Threads, Step(t), NEW u \in Threads, u # t
    PROVE  /\ Held(u)' = Held(u) /\ Tearing(u)' = Tearing(u)
           /\ Inserting(u)' = Inserting(u) /\ Splitting(u)' = Splitting(u)
           /\ Right(u)' = Right(u)
BY OthersSame DEF Local, Held, Tearing, Inserting, Splitting, Right

LEMMA IsNodes ==
    ASSUME NEW ns \in Seq(Node), NEW ms, DOMAIN ms = DOMAIN ns,
           ms = [n \in DOMAIN ms |-> ms[n]], \A n \in DOMAIN ns : ms[n] \in Node
    PROVE  ms \in Seq(Node)
<1>1. DOMAIN ns = 1 .. Len(ns) /\ Len(ns) \in Nat
  BY LenProperties
<1>2. ms \in [1 .. Len(ns) -> Node]
  BY <1>1
<1> QED
  BY <1>1, <1>2, IsASeq

\* Nodes are numbers, and what is in them is what it should be.
LEMMA NodeIs ==
    ASSUME Typed, NEW n \in DOMAIN nodes
    PROVE  /\ n \in Nat /\ nodes[n] \in Node /\ V(n) \in Version
           /\ nodes[n].slots \subseteq Keys /\ nodes[n].seps \in Seq(Keys)
           /\ nodes[n].children \in Seq(Nat)
           /\ DOMAIN nodes = 1 .. Len(nodes) /\ Len(nodes) \in Nat
<1>1. nodes \in Seq(Node)
  BY DEF Typed
<1>2. nodes[n] \in Node
  BY <1>1, ElementOfSeq
<1> QED
  BY <1>1, <1>2, LenProperties DEF Node, V

LEMMA NewNodes ==
    ASSUME NEW v \in Version, NEW S \in SUBSET Keys, NEW s \in Seq(Keys), NEW c \in Seq(Nat)
    PROVE  Border(v, S) \in Node /\ Interior(v, s, c) \in Node
BY DEF Node, Border, Interior

LEMMA SplitGoes ==
    ASSUME Inductive, NEW t \in Threads, Split(t)
    PROVE  LET b == node[t]
               q == Len(nodes) + 1
               v == [V(b) EXCEPT !.splitting = TRUE]
           IN  /\ b \in DOMAIN nodes /\ q \notin DOMAIN nodes /\ sib'[t] = q
               /\ nodes' \in Seq(Node) /\ DOMAIN nodes' = DOMAIN nodes \cup {q}
               /\ \A n \in DOMAIN nodes : n # b => nodes'[n] = nodes[n]
               /\ nodes'[b] = [nodes[b] EXCEPT !.version = v, !.torn = TRUE]
               /\ nodes'[q] = Border(v, {})
<1> DEFINE b == node[t]
           q == Len(nodes) + 1
           v == [V(b) EXCEPT !.splitting = TRUE]
           x == [nodes[b] EXCEPT !.version = v, !.torn = TRUE]
           ns == [nodes EXCEPT ![b] = x]
<1>1. b \in DOMAIN nodes /\ nodes \in Seq(Node) /\ nodes[b] \in Node /\ V(b) \in Version
      /\ sib \in [Threads -> DOMAIN nodes \cup {NULL}]
  BY NodeIs DEF Inductive, Typed, Places, WithNode, OnBorder, Split
<1>2. v \in Version
  BY <1>1 DEF Version
<1>3. x \in Node /\ Border(v, {}) \in Node
  <2> HIDE DEF v, b
  <2> QED
    BY <1>1, <1>2, NewNodes DEF Node
<1>4. nodes' = Append(ns, Border(v, {})) /\ sib' = [sib EXCEPT ![t] = Len(nodes')]
  BY DEF Split
<1> HIDE DEF b, v, x
<1>5. /\ ns \in Seq(Node) /\ DOMAIN ns = DOMAIN nodes /\ Len(ns) = Len(nodes) /\ ns[b] = x
      /\ \A n \in DOMAIN nodes : n # b => ns[n] = nodes[n]
  BY <1>1, <1>3, SetNode
<1> HIDE DEF ns
<1>6. /\ nodes' \in Seq(Node) /\ q \notin DOMAIN ns
      /\ DOMAIN nodes' = DOMAIN ns \cup {q} /\ Len(nodes') = q
      /\ nodes'[q] = Border(v, {})
      /\ \A n \in DOMAIN ns : nodes'[n] = ns[n]
  BY <1>3, <1>4, <1>5, AddNode
<1>7. sib'[t] = q
  BY <1>1, <1>4, <1>6
<1> QED
  BY <1>1, <1>5, <1>6, <1>7 DEF b, v, x


\* Min is what its name says, on sets of numbers that are not empty.
LEMMA MinIs ==
    ASSUME NEW S, S \subseteq Nat, S # {}
    PROVE  Min(S) \in S /\ \A x \in S : Min(S) <= x
BY LeastNumber DEF Min

\* The keys of a full border node and a new one: two sets, of which the right
\* one is above the left one, and none too large.
LEMMA LeftOfIs ==
    ASSUME NEW S, S \subseteq Keys, IsFiniteSet(S), Cardinality(S) < ORDER,
           NEW k \in Keys, k \notin S,
           NEW left, left = LeftOf(S, k), NEW right, right = (S \cup {k}) \ left
    PROVE  /\ left \cup right = S \cup {k}
           /\ left \subseteq Keys /\ IsFiniteSet(left) /\ Cardinality(left) < ORDER
           /\ right \subseteq Keys /\ IsFiniteSet(right) /\ Cardinality(right) < ORDER
           /\ Min(right) \in right /\ \A x \in right : Min(right) <= x
           /\ \A x \in left : x < Min(right)
           /\ S # {} => left # {}
<1>1. S \subseteq Nat /\ k \in Nat /\ ORDER \in Nat /\ ORDER >= 3 /\ Cardinality(S) \in Nat
  BY Constants, FS_CardinalityType
<1>2. CASE \E x \in S : x > k
  <2>1. PICK y \in S : y > k
    BY <1>2
  <2>2. left = {x \in S : x < k} \cup {k} /\ right = {x \in S : x > k}
    <3>1. left = {x \in S : x < k} \cup {k}
      BY <1>2 DEF LeftOf
    <3>2. \A x \in S : x \in Nat /\ (x < k \/ x > k) /\ ~(x < k /\ x > k) /\ x # k
      BY <1>1
    <3> QED
      BY <3>1, <3>2
  <2>3. IsFiniteSet(right) /\ Cardinality(right) < ORDER
    <3>1. right \subseteq S
      BY <2>2
    <3>2. IsFiniteSet(right) /\ Cardinality(right) <= Cardinality(S) /\ Cardinality(right) \in Nat
      BY <3>1, FS_Subset, FS_CardinalityType
    <3> QED
      BY <1>1, <3>2
  <2>4. IsFiniteSet(left) /\ Cardinality(left) < ORDER
    <3> DEFINE T == S \ {y}
               L == {x \in S : x < k}
    <3>1. IsFiniteSet(T) /\ Cardinality(T) = Cardinality(S) - 1
      BY <2>1, FS_RemoveElement
    <3>2. L \subseteq T /\ k \notin L
      BY <1>1, <2>1
    <3>3. IsFiniteSet(L) /\ Cardinality(L) <= Cardinality(T) /\ Cardinality(L) \in Nat
      BY <3>1, <3>2, FS_Subset, FS_CardinalityType
    <3>4. IsFiniteSet(L \cup {k}) /\ Cardinality(L \cup {k}) = Cardinality(L) + 1
      BY <3>2, <3>3, FS_AddElement
    <3> QED
      BY <1>1, <2>2, <3>1, <3>3, <3>4
  <2>5. right # {} /\ right \subseteq Nat
    BY <1>1, <2>1, <2>2
  <2>6. Min(right) \in right /\ \A x \in right : Min(right) <= x
    BY <2>5, MinIs
  <2>7. \A x \in left : x < Min(right)
    <3>1. Min(right) \in Nat /\ Min(right) > k
      BY <1>1, <2>2, <2>6
    <3> QED
      BY <1>1, <2>2, <3>1
  <2>8. left \cup right = S \cup {k} /\ left \subseteq Keys /\ right \subseteq Keys /\ left # {}
    <3>1. \A x \in S : x \in Nat /\ (x < k \/ x > k)
      BY <1>1
    <3> QED
      BY <2>2, <3>1
  <2> QED
    BY <2>3, <2>4, <2>6, <2>7, <2>8
<1>3. CASE ~\E x \in S : x > k
  <2>1. left = S /\ right = {k}
    BY <1>3 DEF LeftOf
  <2>2. IsFiniteSet(right) /\ Cardinality(right) = 1
    BY <2>1, FS_Singleton
  <2>3. right # {} /\ right \subseteq Nat
    BY <1>1, <2>1
  <2>4. Min(right) \in right /\ \A x \in right : Min(right) <= x
    BY <2>3, MinIs
  <2>5. Min(right) = k
    BY <2>1, <2>4
  <2>6. \A x \in left : x < Min(right)
    BY <1>1, <1>3, <2>1, <2>5
  <2> QED
    BY <1>1, <2>1, <2>2, <2>4, <2>6
<1> QED
  BY <1>2, <1>3

LEMMA SplitKeysGoes ==
    ASSUME Inductive, NEW t \in Threads, SplitKeys(t)
    PROVE  LET b == node[t]
               q == sib[t]
               S == nodes[b].slots
               left == LeftOf(S, key[t])
               right == (S \cup {key[t]}) \ left
           IN  /\ b \in DOMAIN nodes /\ q \in DOMAIN nodes /\ b # q
               /\ key[t] \in Keys /\ key[t] \notin S /\ S # {}
               /\ IsFiniteSet(S) /\ Cardinality(S) < ORDER
               /\ nodes' \in Seq(Node) /\ DOMAIN nodes' = DOMAIN nodes
               /\ \A n \in DOMAIN nodes : n # b /\ n # q => nodes'[n] = nodes[n]
               /\ nodes'[b] = [nodes[b] EXCEPT !.slots = left, !.torn = FALSE, !.next = q]
               /\ nodes'[q] = [nodes[q] EXCEPT !.slots = right, !.next = nodes[b].next]
               /\ up' = [up EXCEPT ![t] = Min(right)]
<1> DEFINE b == node[t]
           q == sib[t]
           S == nodes[b].slots
           left == LeftOf(S, key[t])
           right == (S \cup {key[t]}) \ left
           x == [nodes[b] EXCEPT !.slots = left, !.torn = FALSE, !.next = q]
           y == [nodes[q] EXCEPT !.slots = right, !.next = nodes[b].next]
<1>1. /\ b \in DOMAIN nodes /\ q \in DOMAIN nodes /\ b # q
      /\ key[t] \in Keys /\ key[t] \notin S /\ S # {}
      /\ IsFiniteSet(S) /\ Cardinality(S) < ORDER
  BY DEF Inductive, Places, Apart, Splits, Shape, WithNode, OnBorder, WithSib, SplitKeys
<1>2. nodes[b] \in Node /\ nodes[q] \in Node /\ S \subseteq Keys /\ q \in Nat
      /\ nodes[b].next \in Nat \cup {NULL}
  BY <1>1, NodeIs DEF Inductive, Node
<1>3. left \subseteq Keys /\ right \subseteq Keys
  <2> HIDE DEF S
  <2>1. left = LeftOf(S, key[t]) /\ right = (S \cup {key[t]}) \ left
    OBVIOUS
  <2> HIDE DEF left, right
  <2> QED
    BY <1>1, <1>2, <2>1, LeftOfIs
<1>4. nodes' = [nodes EXCEPT ![b].slots = left, ![b].torn = FALSE, ![b].next = q,
                             ![q].slots = right, ![q].next = nodes[b].next]
      /\ up' = [up EXCEPT ![t] = Min(right)]
  BY DEF SplitKeys
<1>5. x \in Node /\ y \in Node
  <2> HIDE DEF left, right, b, q
  <2> QED
    BY <1>2, <1>3 DEF Node
<1> HIDE DEF left, right, b, q
<1>6. /\ DOMAIN nodes' = DOMAIN nodes
      /\ nodes' = [n \in DOMAIN nodes' |-> nodes'[n]]
      /\ nodes'[b] = x /\ nodes'[q] = y
      /\ \A n \in DOMAIN nodes : n # b /\ n # q => nodes'[n] = nodes[n]
  BY <1>1, <1>4
<1> HIDE DEF x, y
<1>7. \A n \in DOMAIN nodes : nodes'[n] \in Node
  BY <1>1, <1>5, <1>6, NodeIs DEF Inductive
<1>8. nodes' \in Seq(Node)
  BY <1>6, <1>7, IsNodes DEF Inductive, Typed
<1> QED
  BY <1>1, <1>4, <1>6, <1>8 DEF left, right, b, q, x, y


LEMMA NewRootGoes ==
    ASSUME Inductive, NEW t \in Threads, NewRoot(t)
    PROVE  LET b == node[t]
               q == sib[t]
               r == Len(nodes) + 1
           IN  /\ b \in DOMAIN nodes /\ q \in DOMAIN nodes /\ b # q /\ r \notin DOMAIN nodes
               /\ up[t] \in Keys /\ nodes[b].parent = NULL
               /\ nodes' \in Seq(Node) /\ DOMAIN nodes' = DOMAIN nodes \cup {r} /\ par'[t] = r
               /\ \A n \in DOMAIN nodes : n # b /\ n # q => nodes'[n] = nodes[n]
               /\ nodes'[b] = [nodes[b] EXCEPT !.parent = r, !.version.is_root = FALSE]
               /\ nodes'[q] = [nodes[q] EXCEPT !.parent = r, !.version.is_root = FALSE]
               /\ nodes'[r] = Interior([NewVersion EXCEPT !.is_root = TRUE], <<up[t]>>, <<b, q>>)
<1> DEFINE b == node[t]
           q == sib[t]
           r == Len(nodes) + 1
           x == [nodes[b] EXCEPT !.parent = r, !.version.is_root = FALSE]
           y == [nodes[q] EXCEPT !.parent = r, !.version.is_root = FALSE]
           z == Interior([NewVersion EXCEPT !.is_root = TRUE], <<up[t]>>, <<b, q>>)
           ns == [nodes EXCEPT ![b].parent = r, ![b].version.is_root = FALSE,
                               ![q].parent = r, ![q].version.is_root = FALSE]
<1>1. /\ b \in DOMAIN nodes /\ q \in DOMAIN nodes /\ b # q
      /\ up[t] \in Keys /\ nodes[b].parent = NULL
      /\ nodes \in Seq(Node) /\ par \in [Threads -> DOMAIN nodes \cup {NULL}]
  BY DEF Inductive, Typed, Places, Apart, WithNode, OnBorder, WithSib, Halfway, NewRoot
<1>2. nodes[b] \in Node /\ nodes[q] \in Node /\ b \in Nat /\ q \in Nat /\ r \in Nat
      /\ Len(nodes) \in Nat /\ DOMAIN nodes = 1 .. Len(nodes)
  BY <1>1, NodeIs DEF Inductive
<1>3. nodes' = Append(ns, z) /\ par' = [par EXCEPT ![t] = r]
  BY DEF NewRoot
<1>4. x \in Node /\ y \in Node
  <2> HIDE DEF r, b, q
  <2> QED
    BY <1>2 DEF Node, Version
<1>5. z \in Node
  <2>1. [NewVersion EXCEPT !.is_root = TRUE] \in Version
    BY DEF NewVersion, Version
  <2>2. <<up[t]>> \in Seq(Keys) /\ <<b, q>> \in Seq(Nat)
    BY <1>1, <1>2
  <2> QED
    BY <2>1, <2>2, NewNodes
<1> HIDE DEF r, b, q, z
<1>6. /\ DOMAIN ns = DOMAIN nodes
      /\ ns = [n \in DOMAIN ns |-> ns[n]]
      /\ ns[b] = x /\ ns[q] = y
      /\ \A n \in DOMAIN nodes : n # b /\ n # q => ns[n] = nodes[n]
  BY <1>1
<1> HIDE DEF x, y, ns
<1>7. \A n \in DOMAIN nodes : ns[n] \in Node
  BY <1>4, <1>6, NodeIs DEF Inductive
<1>8. ns \in Seq(Node)
  BY <1>1, <1>6, <1>7, IsNodes
<1>9. Len(ns) = Len(nodes)
  BY <1>2, <1>6, <1>8, LenProperties
<1>10. /\ nodes' \in Seq(Node) /\ r \notin DOMAIN nodes /\ DOMAIN nodes' = DOMAIN nodes \cup {r}
       /\ nodes'[r] = z /\ \A n \in DOMAIN nodes : nodes'[n] = ns[n]
  BY <1>3, <1>5, <1>6, <1>8, <1>9, AddNode DEF r
<1>11. par'[t] = r
  BY <1>1, <1>3
<1> QED
  BY <1>1, <1>6, <1>10, <1>11 DEF b, q, r, x, y, z

LEMMA InsertAtIs ==
    ASSUME NEW S, NEW s \in Seq(S), NEW i \in 1 .. Len(s) + 1, NEW e \in S
    PROVE  /\ InsertAt(s, i, e) \in Seq(S)
           /\ Len(InsertAt(s, i, e)) = Len(s) + 1
           /\ InsertAt(s, i, e)[i] = e
           /\ \A j \in 1 .. Len(s) : j < i => InsertAt(s, i, e)[j] = s[j]
           /\ \A j \in 1 .. Len(s) : j >= i => InsertAt(s, i, e)[j + 1] = s[j]
           /\ ToSet(InsertAt(s, i, e)) = ToSet(s) \cup {e}
<1> DEFINE a == SubSeq(s, 1, i - 1)
           c == SubSeq(s, i, Len(s))
           ae == a \o <<e>>
           r == InsertAt(s, i, e)
<1>1. Len(s) \in Nat /\ DOMAIN s = 1 .. Len(s) /\ \A j \in 1 .. Len(s) : s[j] \in S
  BY LenProperties
<1>2. /\ a \in Seq(S) /\ Len(a) = i - 1
      /\ \A j \in 1 .. i - 1 : a[j] = s[j]
  <2>1. i - 1 \in Int /\ 1 \in Int /\ \A j \in 1 .. i - 1 : s[j] \in S
    BY <1>1
  <2>2. /\ a \in Seq(S) /\ Len(a) = IF 1 <= i - 1 THEN i - 1 - 1 + 1 ELSE 0
        /\ \A j \in 1 .. i - 1 - 1 + 1 : a[j] = s[1 + j - 1]
    BY <2>1, SubSeqProperties
  <2> QED
    BY <1>1, <2>2
<1>3. /\ c \in Seq(S) /\ Len(c) = Len(s) - i + 1
      /\ \A j \in 1 .. Len(s) - i + 1 : c[j] = s[i + j - 1]
  <2>1. i \in Int /\ Len(s) \in Int /\ \A j \in i .. Len(s) : s[j] \in S
    BY <1>1
  <2>2. /\ c \in Seq(S) /\ Len(c) = IF i <= Len(s) THEN Len(s) - i + 1 ELSE 0
        /\ \A j \in 1 .. Len(s) - i + 1 : c[j] = s[i + j - 1]
    BY <2>1, SubSeqProperties
  <2> QED
    BY <1>1, <2>2
<1>4. <<e>> \in Seq(S) /\ Len(<<e>>) = 1 /\ <<e>>[1] = e
  OBVIOUS
<1> HIDE DEF a, c
<1>5. /\ ae \in Seq(S) /\ Len(ae) = i /\ ae[i] = e
      /\ \A j \in 1 .. i - 1 : ae[j] = s[j]
  <2>1. /\ ae \in Seq(S) /\ Len(ae) = Len(a) + 1
        /\ \A j \in 1 .. Len(a) + 1 : ae[j] = IF j <= Len(a) THEN a[j] ELSE <<e>>[j - Len(a)]
    BY <1>2, <1>4, ConcatProperties
  <2> QED
    BY <1>1, <1>2, <1>4, <2>1
<1> HIDE DEF ae
<1>6. r = ae \o c
  BY DEF InsertAt, ae, a, c
<1> HIDE DEF r
<1>7. /\ r \in Seq(S) /\ Len(r) = Len(s) + 1
      /\ \A j \in 1 .. Len(s) + 1 : r[j] = IF j <= i THEN ae[j] ELSE c[j - i]
  <2>1. /\ r \in Seq(S) /\ Len(r) = Len(ae) + Len(c)
        /\ \A j \in 1 .. Len(ae) + Len(c) : r[j] = IF j <= Len(ae) THEN ae[j] ELSE c[j - Len(ae)]
    BY <1>3, <1>5, <1>6, ConcatProperties
  <2> QED
    BY <1>1, <1>3, <1>5, <2>1
<1>8. r[i] = e
  BY <1>1, <1>5, <1>7
<1>9. \A j \in 1 .. Len(s) : j < i => r[j] = s[j]
  BY <1>1, <1>5, <1>7
<1>10. \A j \in 1 .. Len(s) : j >= i => r[j + 1] = s[j]
  <2> SUFFICES ASSUME NEW j \in 1 .. Len(s), j >= i PROVE r[j + 1] = s[j]
    OBVIOUS
  <2>1. j + 1 \in 1 .. Len(s) + 1 /\ ~(j + 1 <= i) /\ j + 1 - i \in 1 .. Len(s) - i + 1
        /\ i + (j + 1 - i) - 1 = j
    BY <1>1
  <2> QED
    BY <1>3, <1>7, <2>1
<1>11. ToSet(r) = ToSet(s) \cup {e}
  <2>1. DOMAIN r = 1 .. Len(s) + 1
    BY <1>7, LenProperties
  <2>2. ASSUME NEW j \in DOMAIN r PROVE r[j] \in ToSet(s) \cup {e}
    <3>1. j = i \/ (j < i /\ j \in 1 .. Len(s)) \/ (j - 1 \in 1 .. Len(s) /\ j - 1 >= i /\ j - 1 + 1 = j)
      BY <1>1, <2>1
    <3> QED
      BY <1>1, <1>8, <1>9, <1>10, <3>1 DEF ToSet
  <2>3. ASSUME NEW j \in DOMAIN s PROVE \E m \in DOMAIN r : r[m] = s[j]
    <3>1. (j < i /\ j \in DOMAIN r) \/ (j >= i /\ j + 1 \in DOMAIN r)
      BY <1>1, <2>1
    <3> QED
      BY <1>1, <1>9, <1>10, <3>1
  <2>4. i \in DOMAIN r
    BY <2>1
  <2> QED
    BY <1>8, <2>2, <2>3, <2>4 DEF ToSet
<1> QED
  BY <1>7, <1>8, <1>9, <1>10, <1>11 DEF r


\* The place of a child among those of its parent.
LEMMA ChildIndexIs ==
    ASSUME NEW p, NEW c \in Kids(p)
    PROVE  ChildIndex(p, c) \in DOMAIN nodes[p].children
           /\ nodes[p].children[ChildIndex(p, c)] = c
BY DEF ChildIndex, Kids, ToSet

\* What a split that holds the parent knows of it.
LEMMA HasParent ==
    ASSUME Inductive, NEW t \in Threads,
           pc[t] \in {"shiftParent", "intoParent", "splitParent", "tearParent", "fillParent"}
    PROVE  LET b == node[t]
               q == sib[t]
               p == par[t]
               i == ChildIndex(p, b)
           IN  /\ b \in DOMAIN nodes /\ q \in DOMAIN nodes /\ p \in DOMAIN nodes
               /\ p # q /\ up[t] \in Keys
               /\ nodes[b].parent = p /\ nodes[q].parent = NULL /\ b \in Kids(p) /\ b # q
               /\ ~nodes[p].border
               /\ nodes[p].seps \in Seq(Keys) /\ nodes[p].children \in Seq(Nat)
               /\ Len(nodes[p].children) = Len(nodes[p].seps) + 1
               /\ i \in 1 .. Len(nodes[p].children) /\ nodes[p].children[i] = b
               /\ Len(nodes[p].seps) \in Nat
<1> DEFINE b == node[t]
           q == sib[t]
           p == par[t]
           i == ChildIndex(p, b)
<1>1. /\ b \in DOMAIN nodes /\ q \in DOMAIN nodes /\ p \in DOMAIN nodes
      /\ up[t] \in Keys
  BY DEF Inductive, Places, WithNode, OnBorder, Halfway, WithSib, WithPar
<1>2. p # q /\ nodes[b].parent = p
  BY DEF Inductive, Apart, Splits, WithSib
<1>3. NULL \notin DOMAIN nodes
  BY <1>1, NodeIs, Constants DEF Inductive
<1>4. nodes[q].parent = NULL
  BY <1>1 DEF Inductive, Rooted, Unlinked, Right, Halfway
<1>5. b \in Kids(p)
  BY <1>1, <1>2, <1>3 DEF Inductive, Family
<1>6. nodes[p].seps \in Seq(Keys) /\ nodes[p].children \in Seq(Nat)
  BY <1>1, NodeIs DEF Inductive
<1>7. ~nodes[p].border
  <2>1. nodes[p].border => nodes[p].children = <<>>
    BY <1>1 DEF Inductive, Shape
  <2> QED
    BY <1>5, <2>1 DEF Kids, ToSet
<1>8. Len(nodes[p].children) = Len(nodes[p].seps) + 1
  BY <1>1, <1>7 DEF Inductive, Shape
<1>9. i \in 1 .. Len(nodes[p].children) /\ nodes[p].children[i] = b
  BY <1>5, <1>6, ChildIndexIs, LenProperties
<1>10. b # q
  BY <1>1, <1>2, <1>3, <1>4
<1> QED
  BY <1>1, <1>2, <1>4, <1>5, <1>6, <1>7, <1>8, <1>9, <1>10, LenProperties

LEMMA IntoParentGoes ==
    ASSUME Inductive, NEW t \in Threads, IntoParent(t)
    PROVE  LET b == node[t]
               q == sib[t]
               p == par[t]
               i == ChildIndex(p, b)
           IN  /\ Len(nodes[p].seps) < ORDER - 1
               /\ nodes' \in Seq(Node) /\ DOMAIN nodes' = DOMAIN nodes
               /\ \A n \in DOMAIN nodes : n # p /\ n # q => nodes'[n] = nodes[n]
               /\ nodes'[q] = [nodes[q] EXCEPT !.parent = p]
               /\ nodes'[p] = [nodes[p] EXCEPT !.torn = FALSE,
                                               !.seps = InsertAt(nodes[p].seps, i, up[t]),
                                               !.children = InsertAt(nodes[p].children, i + 1, q)]
<1> DEFINE b == node[t]
           q == sib[t]
           p == par[t]
           i == ChildIndex(p, b)
           s == InsertAt(nodes[p].seps, i, up[t])
           c == InsertAt(nodes[p].children, i + 1, q)
           x == [nodes[p] EXCEPT !.torn = FALSE, !.seps = s, !.children = c]
           y == [nodes[q] EXCEPT !.parent = p]
<1>1. /\ b \in DOMAIN nodes /\ q \in DOMAIN nodes /\ p \in DOMAIN nodes /\ p # q
      /\ up[t] \in Keys
      /\ nodes[p].seps \in Seq(Keys) /\ nodes[p].children \in Seq(Nat)
      /\ Len(nodes[p].children) = Len(nodes[p].seps) + 1
      /\ i \in 1 .. Len(nodes[p].children) /\ Len(nodes[p].seps) \in Nat
  <2>1. pc[t] \in {"shiftParent", "intoParent", "splitParent", "tearParent", "fillParent"}
    BY DEF IntoParent
  <2> QED
    BY <2>1, HasParent
<1>2. Len(nodes[p].seps) < ORDER - 1
  BY DEF Inductive, Splits, IntoParent
<1>3. nodes[p] \in Node /\ nodes[q] \in Node /\ p \in Nat /\ q \in Nat
  BY <1>1, NodeIs DEF Inductive
<1>4. s \in Seq(Keys) /\ c \in Seq(Nat)
  <2>1. i \in 1 .. Len(nodes[p].seps) + 1
    BY <1>1
  <2>2. i + 1 \in 1 .. Len(nodes[p].children) + 1
    BY <1>1
  <2>3. s \in Seq(Keys)
    BY <1>1, <2>1, InsertAtIs
  <2>4. c \in Seq(Nat)
    BY <1>1, <1>3, <2>2, InsertAtIs
  <2> QED
    BY <2>3, <2>4
<1>5. nodes' = [nodes EXCEPT ![p].torn = FALSE,
                             ![p].seps = s, ![p].children = c, ![q].parent = p]
  BY DEF IntoParent
<1> HIDE DEF p, q, i, s, c
<1>6. x \in Node /\ y \in Node
  BY <1>3, <1>4 DEF Node
<1>7. /\ DOMAIN nodes' = DOMAIN nodes
      /\ nodes' = [n \in DOMAIN nodes' |-> nodes'[n]]
      /\ nodes'[p] = x /\ nodes'[q] = y
      /\ \A n \in DOMAIN nodes : n # p /\ n # q => nodes'[n] = nodes[n]
  BY <1>1, <1>5
<1> HIDE DEF x, y
<1>8. \A n \in DOMAIN nodes : nodes'[n] \in Node
  BY <1>6, <1>7, NodeIs DEF Inductive
<1>9. nodes' \in Seq(Node)
  BY <1>7, <1>8, IsNodes DEF Inductive, Typed
<1> QED
  BY <1>1, <1>2, <1>7, <1>9 DEF p, q, i, s, c, x, y

\* The parent with the new child, before its children are shared out.
Seps(t) == InsertAt(nodes[par[t]].seps, ChildIndex(par[t], node[t]), up[t])
Shared(t) == InsertAt(nodes[par[t]].children, ChildIndex(par[t], node[t]) + 1, sib[t])
Middle == (ORDER + 1) \div 2
Moved(t) == {Shared(t)[j] : j \in Middle + 1 .. ORDER + 1}
Stay(t) == {Shared(t)[j] : j \in 1 .. Middle}

LEMMA SharedIs ==
    ASSUME Inductive, NEW t \in Threads, pc[t] = "fillParent"
    PROVE  /\ Middle \in Nat /\ 2 <= Middle /\ Middle <= ORDER - 1
           /\ Seps(t) \in Seq(Keys) /\ Len(Seps(t)) = ORDER
           /\ Shared(t) \in Seq(Nat) /\ Len(Shared(t)) = ORDER + 1
           /\ \A j \in 1 .. ORDER : Seps(t)[j] \in Keys
           /\ ToSet(Shared(t)) = Kids(par[t]) \cup {sib[t]}
           /\ Moved(t) \cup Stay(t) = Kids(par[t]) \cup {sib[t]}
           /\ Kids(par[t]) \cup {sib[t]} \subseteq DOMAIN nodes
<1> DEFINE b == node[t]
           q == sib[t]
           p == par[t]
           i == ChildIndex(p, b)
<1>0. ORDER \in Nat /\ ORDER >= 3 /\ Middle \in Nat /\ 2 <= Middle /\ Middle <= ORDER - 1
  BY Constants DEF Middle
<1>1. /\ b \in DOMAIN nodes /\ q \in DOMAIN nodes /\ p \in DOMAIN nodes
      /\ up[t] \in Keys
      /\ nodes[p].seps \in Seq(Keys) /\ nodes[p].children \in Seq(Nat)
      /\ Len(nodes[p].children) = Len(nodes[p].seps) + 1
      /\ i \in 1 .. Len(nodes[p].children)
  BY HasParent
<1>2. Len(nodes[p].seps) = ORDER - 1 /\ q \in Nat
  BY <1>1, NodeIs DEF Inductive, Splits
<1>3. i \in 1 .. Len(nodes[p].seps) + 1 /\ i + 1 \in 1 .. Len(nodes[p].children) + 1
  BY <1>0, <1>1, <1>2
<1>4. Seps(t) \in Seq(Keys) /\ Len(Seps(t)) = ORDER
  <2>0. Seps(t) = InsertAt(nodes[p].seps, i, up[t])
    BY DEF Seps
  <2> DEFINE s == nodes[p].seps
             u == up[t]
  <2>1. s \in Seq(Keys) /\ u \in Keys /\ i \in 1 .. Len(s) + 1 /\ Seps(t) = InsertAt(s, i, u)
        /\ Len(s) = ORDER - 1
    BY <1>1, <1>2, <1>3, <2>0
  <2> HIDE DEF i, p, q, s, u
  <2>2. InsertAt(s, i, u) \in Seq(Keys) /\ Len(InsertAt(s, i, u)) = Len(s) + 1
    BY <2>1, InsertAtIs
  <2> QED
    BY <1>0, <2>1, <2>2
<1>5. Shared(t) \in Seq(Nat) /\ Len(Shared(t)) = ORDER + 1
      /\ ToSet(Shared(t)) = Kids(p) \cup {q}
  <2>0. Shared(t) = InsertAt(nodes[p].children, i + 1, q)
    BY DEF Shared
  <2> HIDE DEF i, p, q
  <2> DEFINE c == nodes[p].children
             k == i + 1
  <2>1. c \in Seq(Nat) /\ k \in 1 .. Len(c) + 1 /\ q \in Nat
    BY <1>1, <1>2, <1>3
  <2>2. Kids(p) = ToSet(c) /\ Shared(t) = InsertAt(c, k, q)
    BY <2>0 DEF Kids
  <2> HIDE DEF c, k
  <2>3. /\ Shared(t) \in Seq(Nat) /\ Len(Shared(t)) = Len(c) + 1
        /\ ToSet(Shared(t)) = ToSet(c) \cup {q}
    BY <2>1, <2>2, InsertAtIs
  <2>4. Len(c) = ORDER
    BY <1>0, <1>1, <1>2 DEF c
  <2> QED
    BY <2>2, <2>3, <2>4
<1>6. Moved(t) \cup Stay(t) = ToSet(Shared(t))
  <2>1. DOMAIN Shared(t) = 1 .. ORDER + 1
    BY <1>5, LenProperties
  <2>2. \A j \in 1 .. ORDER + 1 : j \in Middle + 1 .. ORDER + 1 \/ j \in 1 .. Middle
    BY <1>0
  <2>3. \A j : j \in Middle + 1 .. ORDER + 1 \/ j \in 1 .. Middle => j \in 1 .. ORDER + 1
    BY <1>0
  <2> QED
    BY <2>1, <2>2, <2>3, Zenon DEF Moved, Stay, ToSet
<1>7. Kids(p) \cup {q} \subseteq DOMAIN nodes
  BY <1>1 DEF Inductive, Shape
<1>8. \A j \in 1 .. ORDER : Seps(t)[j] \in Keys
  BY <1>4, LenProperties
<1> QED
  BY <1>0, <1>4, <1>5, <1>6, <1>7, <1>8

LEMMA FillParentGoes ==
    ASSUME Inductive, NEW t \in Threads, FillParent(t)
    PROVE  LET p == par[t]
               r == Len(nodes) + 1
               Placed(n) == IF n \in Moved(t) THEN r ELSE IF n \in Stay(t) THEN p
                            ELSE nodes[n].parent
           IN  /\ p \in DOMAIN nodes /\ r \notin DOMAIN nodes
               /\ nodes' \in Seq(Node) /\ DOMAIN nodes' = DOMAIN nodes \cup {r}
               /\ par1' = [par1 EXCEPT ![t] = r] /\ up' = [up EXCEPT ![t] = Seps(t)[Middle]]
               /\ \A n \in DOMAIN nodes : n # p =>
                    nodes'[n] = [nodes[n] EXCEPT !.parent = Placed(n)]
               /\ nodes'[p] = [nodes[p] EXCEPT !.parent = Placed(p),
                                               !.seps = SubSeq(Seps(t), 1, Middle - 1),
                                               !.children = SubSeq(Shared(t), 1, Middle),
                                               !.torn = FALSE]
               /\ nodes'[r] = Interior(V(p), SubSeq(Seps(t), Middle + 1, ORDER),
                                             SubSeq(Shared(t), Middle + 1, ORDER + 1))
<1> DEFINE p == par[t]
           r == Len(nodes) + 1
           Placed(n) == IF n \in Moved(t) THEN r ELSE IF n \in Stay(t) THEN p
                        ELSE nodes[n].parent
           y(n) == [nodes[n] EXCEPT !.parent = Placed(n)]
           s == SubSeq(Seps(t), 1, Middle - 1)
           c == SubSeq(Shared(t), 1, Middle)
           s1 == SubSeq(Seps(t), Middle + 1, ORDER)
           c1 == SubSeq(Shared(t), Middle + 1, ORDER + 1)
           x == [nodes[p] EXCEPT !.parent = Placed(p), !.seps = s, !.children = c, !.torn = FALSE]
           z == Interior(V(p), s1, c1)
           ns == [n \in DOMAIN nodes |-> IF n = p THEN x ELSE y(n)]
<1>1. /\ pc[t] = "fillParent" /\ p \in DOMAIN nodes /\ nodes \in Seq(Node)
      /\ Len(nodes) \in Nat /\ DOMAIN nodes = 1 .. Len(nodes) /\ p \in Nat /\ r \in Nat
      /\ V(p) \in Version
  <2>1. pc[t] = "fillParent"
    BY DEF FillParent
  <2>2. p \in DOMAIN nodes
    BY <2>1 DEF Inductive, Places, WithPar
  <2>3. Typed /\ nodes \in Seq(Node)
    BY DEF Inductive, Typed
  <2> HIDE DEF p
  <2> QED
    BY <2>1, <2>2, <2>3, NodeIs
<1>2. /\ Seps(t) \in Seq(Keys) /\ Len(Seps(t)) = ORDER
      /\ Shared(t) \in Seq(Nat) /\ Len(Shared(t)) = ORDER + 1
      /\ Middle \in Nat /\ 2 <= Middle /\ Middle <= ORDER - 1 /\ ORDER \in Nat
  BY <1>1, SharedIs, Constants
<1>3. s \in Seq(Keys) /\ s1 \in Seq(Keys) /\ c \in Seq(Nat) /\ c1 \in Seq(Nat)
  <2>1. /\ \A j \in 1 .. ORDER : Seps(t)[j] \in Keys
        /\ \A j \in 1 .. ORDER + 1 : Shared(t)[j] \in Nat
    BY <1>2, LenProperties
  <2>2. /\ \A j \in 1 .. Middle - 1 : Seps(t)[j] \in Keys
        /\ \A j \in Middle + 1 .. ORDER : Seps(t)[j] \in Keys
        /\ \A j \in 1 .. Middle : Shared(t)[j] \in Nat
        /\ \A j \in Middle + 1 .. ORDER + 1 : Shared(t)[j] \in Nat
    BY <1>2, <2>1
  <2>3. 1 \in Int /\ Middle \in Int /\ Middle - 1 \in Int /\ Middle + 1 \in Int
        /\ ORDER \in Int /\ ORDER + 1 \in Int
    BY <1>2
  <2> QED
    BY <2>2, <2>3, SubSeqProperties, Zenon
<1>4. z \in Node
  BY <1>1, <1>3, NewNodes
<1>5. ASSUME NEW n \in DOMAIN nodes PROVE y(n) \in Node /\ x \in Node
  <2>1. nodes[n] \in Node /\ nodes[p] \in Node
    BY <1>1, NodeIs DEF Inductive
  <2>2. Placed(n) \in Nat \cup {NULL} /\ Placed(p) \in Nat \cup {NULL}
    BY <1>1, <2>1 DEF Node
  <2> HIDE DEF Placed, p, s, c
  <2> QED
    BY <1>3, <2>1, <2>2 DEF Node
<1>6. nodes' = Append(ns, z) /\ par1' = [par1 EXCEPT ![t] = r]
      /\ up' = [up EXCEPT ![t] = Seps(t)[Middle]]
  <2> DEFINE m == [[n \in DOMAIN nodes |-> y(n)] EXCEPT ![p].seps = s, ![p].children = c,
                                                        ![p].torn = FALSE]
  <2>1. nodes' = Append(m, z) /\ par1' = [par1 EXCEPT ![t] = r]
        /\ up' = [up EXCEPT ![t] = Seps(t)[Middle]]
    BY DEF FillParent, Seps, Shared, Middle, Moved, Stay
  <2>2. m = ns
    <3>1. [y(p) EXCEPT !.seps = s, !.children = c, !.torn = FALSE] = x
      BY <1>1, NodeIs DEF Inductive, Node
    <3> HIDE DEF Placed, p, s, c, x
    <3> QED
      BY <1>1, <3>1
  <2> QED
    BY <2>1, <2>2
<1> HIDE DEF z, x, p, r
<1>7. /\ DOMAIN ns = DOMAIN nodes /\ ns = [n \in DOMAIN ns |-> ns[n]] /\ ns[p] = x
      /\ \A n \in DOMAIN nodes : n # p => ns[n] = y(n)
  BY <1>1
<1> HIDE DEF y
<1>8. \A n \in DOMAIN nodes : ns[n] \in Node
  BY <1>5
<1> HIDE DEF ns
<1>9. ns \in Seq(Node) /\ Len(ns) = Len(nodes)
  BY <1>1, <1>7, <1>8, IsNodes, LenProperties
<1>10. /\ nodes' \in Seq(Node) /\ r \notin DOMAIN nodes /\ DOMAIN nodes' = DOMAIN nodes \cup {r}
       /\ nodes'[r] = z /\ \A n \in DOMAIN nodes : nodes'[n] = ns[n]
  BY <1>4, <1>6, <1>7, <1>9, AddNode DEF r
<1> QED
  BY <1>1, <1>6, <1>7, <1>10 DEF p, r, x, y, z

-----------------------------------------------------------------------------
(* What a thread does with its locks and marks.                             *)

\* Threads that hold nodes hold nodes that are there, and mark those only.
LEMMA HeldNodes ==
    ASSUME NEW t \in Threads, Places(t)
    PROVE  /\ Held(t) \subseteq DOMAIN nodes
           /\ Splitting(t) \subseteq Held(t) /\ Inserting(t) \subseteq Held(t)
           /\ Tearing(t) \subseteq Held(t)
BY DEF Places, Held, Splitting, Inserting, Tearing, WithNode, WithSib, WithPar, OnBorder, Halfway

\* A step of t moves a node into t's hands if it is new or its lock was free;
\* what other threads have locked and marked stays so.
Handed(t) ==
    /\ \A n \in Held(t)' : n \in DOMAIN nodes' /\
                           (n \in Held(t) \/ n \notin DOMAIN nodes \/ ~V(n).locked)
    /\ Splitting(t)' \subseteq Held(t)' /\ Inserting(t)' \subseteq Held(t)'
    /\ Tearing(t)' \subseteq Held(t)'
    /\ \A n \in DOMAIN nodes' :
         /\ nodes'[n].version.locked <=>
              n \in Held(t)' \/ (n \in DOMAIN nodes /\ n \notin Held(t) /\ V(n).locked)
         /\ nodes'[n].version.splitting <=>
              n \in Splitting(t)' \/ (n \in DOMAIN nodes /\ n \notin Splitting(t) /\ V(n).splitting)
         /\ nodes'[n].version.inserting <=>
              n \in Inserting(t)' \/ (n \in DOMAIN nodes /\ n \notin Inserting(t) /\ V(n).inserting)
         /\ nodes'[n].torn <=>
              n \in Tearing(t)' \/ (n \in DOMAIN nodes /\ n \notin Tearing(t) /\ nodes[n].torn)

LEMMA LocksGo ==
    ASSUME Inductive, NEW t \in Threads, Step(t), Handed(t), DOMAIN nodes \subseteq DOMAIN nodes'
    PROVE  LocksHeld' /\ Marked'
<1>1. ASSUME NEW u \in Threads, u # t
      PROVE  /\ Held(u)' = Held(u) /\ Tearing(u)' = Tearing(u)
             /\ Inserting(u)' = Inserting(u) /\ Splitting(u)' = Splitting(u)
  BY <1>1, OthersHold DEF Inductive
<1>2. ASSUME NEW u \in Threads
      PROVE  /\ Held(u) \subseteq DOMAIN nodes
             /\ Splitting(u) \subseteq Held(u) /\ Inserting(u) \subseteq Held(u)
             /\ Tearing(u) \subseteq Held(u)
             /\ \A n \in Held(u) : V(n).locked
  BY HeldNodes DEF Inductive, LocksHeld
<1>3. \A u, w \in Threads : u # w => Held(u) \cap Held(w) = {}
  BY DEF Inductive, LocksHeld
<1>4. ASSUME NEW n \in DOMAIN nodes
      PROVE  /\ V(n).locked => \E u \in Threads : n \in Held(u)
             /\ V(n).splitting <=> \E u \in Threads : n \in Splitting(u)
             /\ V(n).inserting <=> \E u \in Threads : n \in Inserting(u)
             /\ nodes[n].torn  <=> \E u \in Threads : n \in Tearing(u)
  BY DEF Inductive, LocksHeld, Marked
<1>5. ASSUME NEW u \in Threads, NEW n \in Held(u)' PROVE n \in DOMAIN nodes' /\ V(n)'.locked
  BY <1>1, <1>2, <1>3, <1>5 DEF Handed, V
<1>6. ASSUME NEW u \in Threads, NEW w \in Threads, u # w PROVE Held(u)' \cap Held(w)' = {}
  <2>1. CASE u # t /\ w # t
    BY <1>1, <1>3, <1>6, <2>1
  <2>2. ASSUME NEW x \in Threads, x # t PROVE Held(x) \cap Held(t)' = {}
    BY <1>2, <1>3, <2>2 DEF Handed
  <2> QED
    BY <1>1, <1>6, <2>1, <2>2
<1>7. ASSUME NEW n \in DOMAIN nodes', V(n)'.locked PROVE \E u \in Threads : n \in Held(u)'
  BY <1>1, <1>4, <1>7 DEF Handed, V
<1>8. ASSUME NEW n \in DOMAIN nodes'
      PROVE  V(n)'.splitting <=> \E u \in Threads : n \in Splitting(u)'
  <2>1. ASSUME NEW u \in Threads, u # t, n \in Splitting(u)
        PROVE  n \in DOMAIN nodes /\ n \notin Splitting(t) /\ V(n).splitting
    BY <1>2, <1>3, <1>4, <2>1
  <2> QED
    BY <1>1, <1>4, <2>1 DEF Handed, V
<1>9. ASSUME NEW n \in DOMAIN nodes'
      PROVE  V(n)'.inserting <=> \E u \in Threads : n \in Inserting(u)'
  <2>1. ASSUME NEW u \in Threads, u # t, n \in Inserting(u)
        PROVE  n \in DOMAIN nodes /\ n \notin Inserting(t) /\ V(n).inserting
    BY <1>2, <1>3, <1>4, <2>1
  <2> QED
    BY <1>1, <1>4, <2>1 DEF Handed, V
<1>10. ASSUME NEW n \in DOMAIN nodes'
       PROVE  nodes'[n].torn <=> \E u \in Threads : n \in Tearing(u)'
  <2>1. ASSUME NEW u \in Threads, u # t, n \in Tearing(u)
        PROVE  n \in DOMAIN nodes /\ n \notin Tearing(t) /\ nodes[n].torn
    BY <1>2, <1>3, <1>4, <2>1
  <2> QED
    BY <1>1, <1>4, <2>1 DEF Handed
<1>11. LocksHeld'
  BY <1>5, <1>6, <1>7 DEF LocksHeld
<1>12. Marked'
  BY <1>8, <1>9, <1>10 DEF Marked
<1> QED
  BY <1>11, <1>12

\* What t has marked of its nodes, and what it has not.
LEMMA OwnMarks ==
    ASSUME Inductive, NEW t \in Threads
    PROVE  /\ Held(t) \subseteq DOMAIN nodes
           /\ Splitting(t) \subseteq Held(t) /\ Inserting(t) \subseteq Held(t)
           /\ Tearing(t) \subseteq Held(t)
           /\ \A n \in DOMAIN nodes :
                /\ n \in Held(t) => V(n).locked
                /\ n \in Splitting(t) => V(n).splitting
                /\ n \in Inserting(t) => V(n).inserting
                /\ n \in Tearing(t) => nodes[n].torn
                /\ n \in Held(t) \/ ~V(n).locked =>
                     /\ V(n).splitting <=> n \in Splitting(t)
                     /\ V(n).inserting <=> n \in Inserting(t)
                     /\ nodes[n].torn  <=> n \in Tearing(t)
<1>1. \A u \in Threads :
          /\ Held(u) \subseteq DOMAIN nodes
          /\ Splitting(u) \subseteq Held(u) /\ Inserting(u) \subseteq Held(u)
          /\ Tearing(u) \subseteq Held(u)
          /\ \A n \in Held(u) : V(n).locked
          /\ u # t => Held(u) \cap Held(t) = {}
  BY HeldNodes DEF Inductive, LocksHeld
<1>2. ASSUME NEW n \in DOMAIN nodes
      PROVE  /\ V(n).splitting <=> \E u \in Threads : n \in Splitting(u)
             /\ V(n).inserting <=> \E u \in Threads : n \in Inserting(u)
             /\ nodes[n].torn  <=> \E u \in Threads : n \in Tearing(u)
  BY DEF Inductive, Marked
<1> QED
  BY <1>1, <1>2, Zenon

LEMMA UnlockHands ==
    ASSUME Inductive, NEW t \in Threads, NEW i \in Held(t), nodes' = UnlockNode(nodes, i),
           Held(t)' = Held(t) \ {i}, Splitting(t)' = Splitting(t) \ {i},
           Inserting(t)' = Inserting(t) \ {i}, Tearing(t)' = Tearing(t), i \notin Tearing(t)
    PROVE  /\ nodes' \in Seq(Node) /\ DOMAIN nodes' = DOMAIN nodes
           /\ \A n \in DOMAIN nodes : Alike(nodes'[n], nodes[n])
           /\ Handed(t)
<1>1. i \in DOMAIN nodes /\ nodes \in Seq(Node) /\ V(i) \in Version
  BY OwnMarks, NodeIs DEF Inductive, Typed
<1>2. /\ nodes' \in Seq(Node) /\ DOMAIN nodes' = DOMAIN nodes
      /\ \A n \in DOMAIN nodes : n # i => nodes'[n] = nodes[n]
      /\ Alike(nodes'[i], nodes[i]) /\ nodes'[i].torn = nodes[i].torn
      /\ nodes'[i].version = Unlocked(V(i))
  BY <1>1, UnlockNodeIs DEF V
<1>3. ~nodes'[i].version.locked /\ ~nodes'[i].version.splitting /\ ~nodes'[i].version.inserting
  BY <1>1, <1>2, UnlockedIs
<1>4. \A n \in DOMAIN nodes : Alike(nodes'[n], nodes[n])
  BY <1>2 DEF Alike
<1>5. Handed(t)
  BY <1>2, <1>3, OwnMarks DEF Handed, V
<1> QED
  BY <1>2, <1>4, <1>5

LEMMA LockHands ==
    ASSUME Inductive, NEW t \in Threads, NEW i \in DOMAIN nodes, ~V(i).locked,
           nodes' = LockNode(nodes, i),
           Held(t)' = Held(t) \cup {i}, Splitting(t)' = Splitting(t),
           Inserting(t)' = Inserting(t), Tearing(t)' = Tearing(t)
    PROVE  /\ nodes' \in Seq(Node) /\ DOMAIN nodes' = DOMAIN nodes
           /\ \A n \in DOMAIN nodes : Alike(nodes'[n], nodes[n])
           /\ Handed(t)
<1>1. nodes \in Seq(Node) /\ V(i) \in Version
  BY NodeIs DEF Inductive, Typed
<1>2. /\ nodes' \in Seq(Node) /\ DOMAIN nodes' = DOMAIN nodes
      /\ \A n \in DOMAIN nodes : n # i => nodes'[n] = nodes[n]
      /\ Alike(nodes'[i], nodes[i]) /\ nodes'[i].torn = nodes[i].torn
      /\ nodes'[i].version = [V(i) EXCEPT !.locked = TRUE]
  BY <1>1, LockNodeIs DEF V
<1>3. /\ nodes'[i].version.locked
      /\ nodes'[i].version.splitting = V(i).splitting
      /\ nodes'[i].version.inserting = V(i).inserting
  BY <1>1, <1>2 DEF Version
<1>4. \A n \in DOMAIN nodes : Alike(nodes'[n], nodes[n])
  BY <1>2 DEF Alike
<1>5. i \notin Held(t) /\ Held(t) \subseteq DOMAIN nodes /\ i \notin Splitting(t)
      /\ i \notin Inserting(t) /\ i \notin Tearing(t)
  BY OwnMarks
<1>6. \A n \in Held(t)' : n \in DOMAIN nodes' /\
                           (n \in Held(t) \/ n \notin DOMAIN nodes \/ ~V(n).locked)
  BY <1>2, <1>5
<1>7. /\ Splitting(t)' \subseteq Held(t)' /\ Inserting(t)' \subseteq Held(t)'
      /\ Tearing(t)' \subseteq Held(t)'
  BY OwnMarks
<1>8. ASSUME NEW n \in DOMAIN nodes, n # i
      PROVE  /\ nodes'[n] = nodes[n] /\ V(n) = nodes[n].version
             /\ n \in Held(t)' <=> n \in Held(t)
             /\ n \in Held(t) => V(n).locked
             /\ n \in Splitting(t) => V(n).splitting
             /\ n \in Inserting(t) => V(n).inserting
             /\ n \in Tearing(t) => nodes[n].torn
  BY <1>2, <1>8, OwnMarks DEF V
<1>9. Handed(t)
  <2>1. ASSUME NEW n \in DOMAIN nodes', n # i
        PROVE  /\ nodes'[n].version.locked <=> n \in Held(t)' \/ (n \in DOMAIN nodes /\ n \notin Held(t) /\ V(n).locked)
               /\ nodes'[n].version.splitting <=>
                    n \in Splitting(t)' \/ (n \in DOMAIN nodes /\ n \notin Splitting(t) /\ V(n).splitting)
               /\ nodes'[n].version.inserting <=>
                    n \in Inserting(t)' \/ (n \in DOMAIN nodes /\ n \notin Inserting(t) /\ V(n).inserting)
               /\ nodes'[n].torn <=>
                    n \in Tearing(t)' \/ (n \in DOMAIN nodes /\ n \notin Tearing(t) /\ nodes[n].torn)
    BY <1>2, <1>8, <2>1
  <2>2. /\ nodes'[i].version.locked
        /\ i \in Held(t)' /\ i \notin Splitting(t)' /\ i \notin Inserting(t)' /\ i \notin Tearing(t)'
        /\ nodes'[i].version.splitting <=> V(i).splitting
        /\ nodes'[i].version.inserting <=> V(i).inserting
        /\ nodes'[i].torn <=> nodes[i].torn
    BY <1>2, <1>3, <1>5
  <2> QED
    BY <1>2, <1>5, <1>6, <1>7, <2>1, <2>2 DEF Handed
<1> QED
  BY <1>2, <1>4, <1>9

\* A node that t holds gets marks, and nothing else about it changes.
LEMMA MarkHands ==
    ASSUME Inductive, NEW t \in Threads, NEW i \in Held(t),
           NEW a \in BOOLEAN, NEW b \in BOOLEAN, NEW c \in BOOLEAN,
           nodes' = [nodes EXCEPT ![i] = [nodes[i] EXCEPT !.version =
                        [V(i) EXCEPT !.splitting = a, !.inserting = b], !.torn = c]],
           Held(t)' = Held(t),
           Splitting(t)' = IF a THEN Splitting(t) \cup {i} ELSE Splitting(t) \ {i},
           Inserting(t)' = IF b THEN Inserting(t) \cup {i} ELSE Inserting(t) \ {i},
           Tearing(t)' = IF c THEN Tearing(t) \cup {i} ELSE Tearing(t) \ {i}
    PROVE  /\ nodes' \in Seq(Node) /\ DOMAIN nodes' = DOMAIN nodes
           /\ \A n \in DOMAIN nodes : Alike(nodes'[n], nodes[n])
           /\ Handed(t)
<1> DEFINE v == [V(i) EXCEPT !.splitting = a, !.inserting = b]
           x == [nodes[i] EXCEPT !.version = v, !.torn = c]
<1>1. i \in DOMAIN nodes /\ nodes \in Seq(Node) /\ V(i) \in Version /\ nodes[i] \in Node
  BY OwnMarks, NodeIs DEF Inductive, Typed
<1>2. v \in Version /\ v.splitting = a /\ v.inserting = b /\ v.locked = V(i).locked
      /\ v.is_root = V(i).is_root
  BY <1>1 DEF Version
<1> HIDE DEF v
<1>3. x \in Node /\ Alike(x, nodes[i]) /\ x.version = v /\ x.torn = c
  BY <1>1, <1>2 DEF Node, Alike, V
<1>4. nodes' = [nodes EXCEPT ![i] = x]
  BY DEF v
<1> HIDE DEF x
<1>5. /\ nodes' \in Seq(Node) /\ DOMAIN nodes' = DOMAIN nodes /\ nodes'[i] = x
      /\ \A n \in DOMAIN nodes : n # i => nodes'[n] = nodes[n]
  BY <1>1, <1>3, <1>4, SetNode
<1>6. \A n \in DOMAIN nodes : Alike(nodes'[n], nodes[n])
  BY <1>3, <1>5 DEF Alike
<1>7. Handed(t)
  BY <1>2, <1>3, <1>5, OwnMarks DEF Handed, V
<1> QED
  BY <1>5, <1>6, <1>7

\* The steps that change nothing in the nodes but locks, marks and counters.
MarkStep(t) ==
    \/ LockBorder(t) \/ AlreadyExists(t) \/ Unlock(t) \/ LeaveRoot(t) \/ LeaveSibling(t)
    \/ LockParent(t) \/ ShiftParent(t) \/ LeaveNode(t) \/ LeaveNode1(t) \/ LeaveParent(t)
    \/ SplitParent(t) \/ TearParent(t) \/ AscendParent(t)

LEMMA MarkStepGoes ==
    ASSUME Inductive, NEW t \in Threads, MarkStep(t)
    PROVE  /\ nodes' \in Seq(Node) /\ DOMAIN nodes' = DOMAIN nodes
           /\ \A n \in DOMAIN nodes : Alike(nodes'[n], nodes[n])
           /\ Handed(t)
<1> DEFINE b == node[t]
           q == sib[t]
           p == par[t]
           Goal == /\ nodes' \in Seq(Node) /\ DOMAIN nodes' = DOMAIN nodes
                   /\ \A n \in DOMAIN nodes : Alike(nodes'[n], nodes[n])
                   /\ Handed(t)
<1>0. /\ pc \in [Threads -> PCs] /\ Places(t) /\ Apart(t) /\ Splits(t) /\ nodes \in Seq(Node)
      /\ par \in [Threads -> DOMAIN nodes \cup {NULL}]
      /\ sib \in [Threads -> DOMAIN nodes \cup {NULL}]
      /\ node \in [Threads -> DOMAIN nodes \cup {NULL}]
  BY DEF Inductive, Typed
<1>1. CASE LockBorder(t)
  <2>1. /\ Held(t) = {} /\ Held(t)' = {b} /\ Splitting(t) = {} /\ Splitting(t)' = {}
        /\ Inserting(t) = {} /\ Inserting(t)' = {} /\ Tearing(t) = {} /\ Tearing(t)' = {}
    BY <1>0, <1>1 DEF LockBorder, Goto, Held, Splitting, Inserting, Tearing
  <2>2. b \in DOMAIN nodes /\ ~V(b).locked /\ nodes' = LockNode(nodes, b)
    BY <1>0, <1>1 DEF LockBorder, Places, WithNode, OnBorder
  <2> QED
    BY <2>1, <2>2, LockHands
<1>2. CASE AlreadyExists(t)
  <2>1. /\ Held(t) = {b} /\ Held(t)' = {} /\ Splitting(t) = {} /\ Splitting(t)' = {}
        /\ Inserting(t) = {} /\ Inserting(t)' = {} /\ Tearing(t) = {} /\ Tearing(t)' = {}
    BY <1>0, <1>2 DEF AlreadyExists, Return, Goto, Held, Splitting, Inserting, Tearing
  <2>2. nodes' = UnlockNode(nodes, b)
    BY <1>2 DEF AlreadyExists
  <2> QED
    BY <2>1, <2>2, UnlockHands
<1>3. CASE Unlock(t)
  <2>1. /\ Held(t) = {b} /\ Held(t)' = {} /\ Splitting(t) = {} /\ Splitting(t)' = {}
        /\ Inserting(t) = {} /\ Inserting(t)' = {} /\ Tearing(t) = {} /\ Tearing(t)' = {}
    BY <1>0, <1>3 DEF Unlock, Return, Goto, Held, Splitting, Inserting, Tearing
  <2>2. nodes' = UnlockNode(nodes, b)
    BY <1>3 DEF Unlock
  <2> QED
    BY <2>1, <2>2, UnlockHands
<1>4. CASE LeaveRoot(t)
  <2>1. /\ Held(t) = {b, q} /\ Held(t)' = {q} /\ Splitting(t) = {b, q} /\ Splitting(t)' = {q}
        /\ Inserting(t) = {} /\ Inserting(t)' = {} /\ Tearing(t) = {} /\ Tearing(t)' = {}
    BY <1>0, <1>4 DEF LeaveRoot, loc, Goto, Held, Splitting, Inserting, Tearing
  <2>2. nodes' = UnlockNode(nodes, b) /\ b # q
    BY <1>0, <1>4 DEF LeaveRoot, Apart, WithSib
  <2> QED
    BY <2>1, <2>2, UnlockHands
<1>5. CASE LeaveSibling(t)
  <2>1. /\ Held(t) = {q} /\ Held(t)' = {} /\ Splitting(t) = {q} /\ Splitting(t)' = {}
        /\ Inserting(t) = {} /\ Inserting(t)' = {} /\ Tearing(t) = {} /\ Tearing(t)' = {}
    BY <1>0, <1>5 DEF LeaveSibling, loc, Goto, Held, Splitting, Inserting, Tearing
  <2>2. nodes' = UnlockNode(nodes, q)
    BY <1>5 DEF LeaveSibling
  <2> QED
    BY <2>1, <2>2, UnlockHands
<1>6. CASE LockParent(t)
  <2> DEFINE r == nodes[b].parent
  <2>1. /\ Held(t) = {b, q} /\ Held(t)' = {b, q, r} /\ Splitting(t) = {b, q}
        /\ Splitting(t)' = {b, q}
        /\ Inserting(t) = {} /\ Inserting(t)' = {} /\ Tearing(t) = {} /\ Tearing(t)' = {}
    BY <1>0, <1>6 DEF LockParent, loc, Goto, Held, Splitting, Inserting, Tearing
  <2>2. b \in DOMAIN nodes
    BY <1>0, <1>6 DEF LockParent, Places, WithNode, Halfway
  <2>3. r \in DOMAIN nodes
    BY <1>6, <2>2 DEF Inductive, Shape, LockParent
  <2>4. ~V(r).locked /\ nodes' = LockNode(nodes, r)
    BY <1>6 DEF LockParent
  <2> HIDE DEF r
  <2> QED
    BY <2>1, <2>3, <2>4, LockHands
<1>7. CASE ShiftParent(t)
  <2>1. /\ Held(t) = {b, q, p} /\ Held(t)' = {b, q, p}
        /\ Splitting(t) = {b, q} /\ Splitting(t)' = {b, q}
        /\ Inserting(t) = {} /\ Inserting(t)' = {p} /\ Tearing(t) = {} /\ Tearing(t)' = {p}
    BY <1>0, <1>7 DEF ShiftParent, loc, Goto, Held, Splitting, Inserting, Tearing
  <2>2. p # b /\ p # q
    BY <1>0, <1>7 DEF ShiftParent, Apart, WithSib
  <2>3. p \in DOMAIN nodes /\ nodes[p] \in Node /\ V(p) \in Version /\ V(p).splitting = FALSE
    <3>1. p \in DOMAIN nodes /\ ~V(p).splitting
      BY <2>1, <2>2, OwnMarks
    <3>2. nodes[p] \in Node /\ V(p) \in Version
      BY <3>1, NodeIs DEF Inductive
    <3> QED
      BY <3>1, <3>2 DEF Version
  <2>4. nodes' = [nodes EXCEPT ![p] = [nodes[p] EXCEPT !.version =
                     [V(p) EXCEPT !.splitting = FALSE, !.inserting = TRUE], !.torn = TRUE]]
    <3>1. nodes' = [nodes EXCEPT ![p] = [nodes[p] EXCEPT !.version =
                       [V(p) EXCEPT !.inserting = TRUE], !.torn = TRUE]]
      BY <1>7, <2>3 DEF ShiftParent, V
    <3>2. [V(p) EXCEPT !.splitting = FALSE, !.inserting = TRUE] = [V(p) EXCEPT !.inserting = TRUE]
      BY <2>3 DEF Version
    <3> QED
      BY <3>1, <3>2
  <2> HIDE DEF b, q, p
  <2>5. p \in Held(t) /\ Held(t)' = Held(t) /\ Splitting(t)' = Splitting(t) \ {p}
        /\ Inserting(t)' = Inserting(t) \cup {p} /\ Tearing(t)' = Tearing(t) \cup {p}
    BY <2>1, <2>2
  <2> QED
    BY <2>4, <2>5, MarkHands
<1>8. CASE LeaveNode(t)
  <2>1. /\ Held(t) = {b, q, p} /\ Held(t)' = {q, p}
        /\ Splitting(t) = {b, q} /\ Splitting(t)' = {q}
        /\ Inserting(t) = {p} /\ Inserting(t)' = {p} /\ Tearing(t) = {} /\ Tearing(t)' = {}
    BY <1>0, <1>8 DEF LeaveNode, loc, Goto, Held, Splitting, Inserting, Tearing
  <2>2. nodes' = UnlockNode(nodes, b) /\ b # q /\ b # p
    BY <1>0, <1>8 DEF LeaveNode, Apart, WithSib
  <2> QED
    BY <2>1, <2>2, UnlockHands
<1>9. CASE LeaveNode1(t)
  <2>1. /\ Held(t) = {q, p} /\ Held(t)' = {p}
        /\ Splitting(t) = {q} /\ Splitting(t)' = {}
        /\ Inserting(t) = {p} /\ Inserting(t)' = {p} /\ Tearing(t) = {} /\ Tearing(t)' = {}
    BY <1>0, <1>9 DEF LeaveNode1, loc, Goto, Held, Splitting, Inserting, Tearing
  <2>2. nodes' = UnlockNode(nodes, q) /\ q # p
    BY <1>0, <1>9 DEF LeaveNode1, Apart, WithSib
  <2> QED
    BY <2>1, <2>2, UnlockHands
<1>10. CASE LeaveParent(t)
  <2>1. /\ Held(t) = {p} /\ Held(t)' = {} /\ Splitting(t) = {} /\ Splitting(t)' = {}
        /\ Inserting(t) = {p} /\ Inserting(t)' = {} /\ Tearing(t) = {} /\ Tearing(t)' = {}
    BY <1>0, <1>10 DEF LeaveParent, loc, Return, Goto, Held, Splitting, Inserting, Tearing
  <2>2. nodes' = UnlockNode(nodes, p)
    BY <1>10 DEF LeaveParent
  <2> QED
    BY <2>1, <2>2, UnlockHands
<1>11. CASE SplitParent(t)
  <2>1. /\ Held(t) = {b, q, p} /\ Held(t)' = {b, q, p}
        /\ Splitting(t) = {b, q} /\ Splitting(t)' = {b, q, p}
        /\ Inserting(t) = {} /\ Inserting(t)' = {} /\ Tearing(t) = {} /\ Tearing(t)' = {}
    BY <1>0, <1>11 DEF SplitParent, loc, Goto, Held, Splitting, Inserting, Tearing
  <2>2. p # b /\ p # q
    BY <1>0, <1>11 DEF SplitParent, Apart, WithSib
  <2>3. p \in DOMAIN nodes /\ nodes[p] \in Node /\ V(p) \in Version /\ V(p).inserting = FALSE
        /\ nodes[p].torn = FALSE
    <3>1. p \in DOMAIN nodes /\ ~V(p).inserting /\ ~nodes[p].torn
      BY <2>1, <2>2, OwnMarks
    <3>2. nodes[p] \in Node /\ V(p) \in Version
      BY <3>1, NodeIs DEF Inductive
    <3> QED
      BY <3>1, <3>2 DEF Version, Node
  <2>4. nodes' = [nodes EXCEPT ![p] = [nodes[p] EXCEPT !.version =
                     [V(p) EXCEPT !.splitting = TRUE, !.inserting = FALSE], !.torn = FALSE]]
    <3>1. nodes' = [nodes EXCEPT ![p] = [nodes[p] EXCEPT !.version =
                       [V(p) EXCEPT !.splitting = TRUE]]]
      BY <1>11, <2>3 DEF SplitParent, V
    <3> DEFINE v == [V(p) EXCEPT !.splitting = TRUE]
    <3>2. [V(p) EXCEPT !.splitting = TRUE, !.inserting = FALSE] = v
      BY <2>3 DEF Version
    <3>3. [nodes[p] EXCEPT !.version = v, !.torn = FALSE] = [nodes[p] EXCEPT !.version = v]
      <4> HIDE DEF v
      <4> QED
        BY <2>3 DEF Node
    <3> QED
      BY <3>1, <3>2, <3>3
  <2> HIDE DEF b, q, p
  <2>5. p \in Held(t) /\ Held(t)' = Held(t) /\ Splitting(t)' = Splitting(t) \cup {p}
        /\ Inserting(t)' = Inserting(t) \ {p} /\ Tearing(t)' = Tearing(t) \ {p}
    BY <2>1, <2>2
  <2> QED
    BY <2>4, <2>5, MarkHands
<1>12. CASE AscendParent(t)
  <2> DEFINE r == par1[t]
  <2>1. /\ Held(t) = {q, p, r} /\ Held(t)' = {p, r}
        /\ Splitting(t) = {q, p, r} /\ Splitting(t)' = {p, r}
        /\ Inserting(t) = {} /\ Inserting(t)' = {} /\ Tearing(t) = {} /\ Tearing(t)' = {}
    BY <1>0, <1>12 DEF AscendParent, Goto, Held, Splitting, Inserting, Tearing
  <2>2. nodes' = UnlockNode(nodes, q) /\ q # p /\ q # r
    BY <1>0, <1>12 DEF AscendParent, Apart, WithSib
  <2> QED
    BY <2>1, <2>2, UnlockHands
<1>13. CASE TearParent(t)
  <2>1. /\ Held(t) = {b, q, p} /\ Held(t)' = {q, p}
        /\ Splitting(t) = {b, q, p} /\ Splitting(t)' = {q, p}
        /\ Inserting(t) = {} /\ Inserting(t)' = {} /\ Tearing(t) = {} /\ Tearing(t)' = {p}
    BY <1>0, <1>13 DEF TearParent, loc, Goto, Held, Splitting, Inserting, Tearing
  <2>2. b # q /\ b # p /\ q # p
    BY <1>0, <1>13 DEF TearParent, Apart, WithSib
  <2> DEFINE ns == UnlockNode(nodes, b)
  <2>3. nodes' = [ns EXCEPT ![p].torn = TRUE]
    BY <1>13 DEF TearParent
  <2>4. b \in DOMAIN nodes /\ p \in DOMAIN nodes /\ V(b) \in Version
    BY <2>1, OwnMarks, NodeIs DEF Inductive
  <2>5. /\ ns \in Seq(Node) /\ DOMAIN ns = DOMAIN nodes
        /\ \A n \in DOMAIN nodes : n # b => ns[n] = nodes[n]
        /\ Alike(ns[b], nodes[b]) /\ ns[b].torn = nodes[b].torn
        /\ ns[b].version = Unlocked(V(b))
    BY <1>0, <2>4, UnlockNodeIs DEF V
  <2>6. ~ns[b].version.locked /\ ~ns[b].version.splitting /\ ~ns[b].version.inserting
    BY <2>4, <2>5, UnlockedIs
  <2> HIDE DEF ns, b, q, p
  <2> DEFINE x == [ns[p] EXCEPT !.torn = TRUE]
  <2>7. x \in Node /\ Alike(x, nodes[p]) /\ x.version = V(p) /\ x.torn = TRUE
    <3>1. ns[p] = nodes[p] /\ nodes[p] \in Node
      BY <2>2, <2>4, <2>5, NodeIs DEF Inductive
    <3> QED
      BY <3>1 DEF Node, Alike, V
  <2>8. nodes' = [ns EXCEPT ![p] = x]
    BY <2>3
  <2> HIDE DEF x
  <2>9. /\ nodes' \in Seq(Node) /\ DOMAIN nodes' = DOMAIN ns /\ nodes'[p] = x
        /\ \A n \in DOMAIN ns : n # p => nodes'[n] = ns[n]
    BY <2>4, <2>5, <2>7, <2>8, SetNode
  <2>10. \A n \in DOMAIN nodes : Alike(nodes'[n], nodes[n])
    BY <2>2, <2>4, <2>5, <2>7, <2>9 DEF Alike
  <2>11. Handed(t)
    BY <2>1, <2>2, <2>5, <2>6, <2>7, <2>9, OwnMarks DEF Handed, V
  <2> QED
    BY <2>5, <2>9, <2>10, <2>11
<1> QED
  BY <1>1, <1>2, <1>3, <1>4, <1>5, <1>6, <1>7, <1>8, <1>9, <1>10, <1>11, <1>12, <1>13 DEF MarkStep

\* The steps that change no node, which are those without a lock.
QuietStep(t) ==
    Call(t) \/ LoadRoot(t) \/ findBorder(t) \/ StoreRoot(t) \/ masstree_get(t)

Unmarked(t) == Held(t) = {} /\ Splitting(t) = {} /\ Inserting(t) = {} /\ Tearing(t) = {}

LEMMA QuietStepGoes ==
    ASSUME Inductive, NEW t \in Threads, QuietStep(t)
    PROVE  /\ nodes' = nodes /\ Handed(t)
           /\ pc[t] \notin Halfway /\ pc'[t] \notin Halfway
           /\ pc'[t] \in {"idle", "loadRoot", "casRoot", "lock", "crashed"} \cup Finding \cup Getting
<1>1. pc \in [Threads -> PCs]
  BY DEF Inductive, Typed
<1>2. /\ nodes' = nodes
      /\ pc[t] \in {"idle", "loadRoot", "storeRoot"} \cup Finding \cup Getting
      /\ pc'[t] \in {"idle", "loadRoot", "casRoot", "lock", "crashed"} \cup Finding \cup Getting
  <2> USE <1>1 DEF Goto, Return, Finding, Getting
  <2>1. CASE Call(t)
    BY <2>1 DEF Call
  <2>2. CASE LoadRoot(t)
    BY <2>2 DEF LoadRoot
  <2>3. CASE FindRoot(t)
    BY <2>3 DEF FindRoot
  <2>4. CASE AtBorder(t)
    BY <2>4 DEF AtBorder
  <2>5. CASE Descend(t)
    BY <2>5 DEF Descend
  <2>6. CASE ChildVersion(t)
    BY <2>6 DEF ChildVersion
  <2>7. CASE Check(t)
    BY <2>7 DEF Check
  <2>8. CASE Revalidate(t)
    BY <2>8 DEF Revalidate
  <2>9. CASE StoreRoot(t)
    BY <2>9 DEF StoreRoot
  <2>10. CASE Search(t)
    BY <2>10 DEF Search
  <2>11. CASE Verify(t)
    BY <2>11 DEF Verify
  <2>12. CASE Forward(t)
    BY <2>12 DEF Forward
  <2>13. CASE Walk(t)
    BY <2>13 DEF Walk
  <2> QED
    BY <2>1, <2>2, <2>3, <2>4, <2>5, <2>6, <2>7, <2>8, <2>9, <2>10, <2>11, <2>12, <2>13
       DEF QuietStep, findBorder, masstree_get
<1>3. Unmarked(t) /\ pc[t] \notin Halfway
  BY <1>2 DEF Unmarked, Held, Splitting, Inserting, Tearing, Finding, Getting, Halfway
<1>4. Unmarked(t)' /\ pc'[t] \notin Halfway
  BY <1>2 DEF Unmarked, Held, Splitting, Inserting, Tearing, Finding, Getting, Halfway
<1>5. Handed(t)
  BY <1>2, <1>3, <1>4 DEF Handed, Unmarked, V
<1> QED
  BY <1>2, <1>3, <1>4, <1>5

\* The steps that change the tree.
LEMMA CasRootGoes ==
    ASSUME Inductive, NEW t \in Threads, CasRoot(t)
    PROVE  \/ nodes' = nodes /\ root' = root
           \/ LET q == Len(nodes) + 1 IN
              /\ root = NULL /\ q \notin DOMAIN nodes /\ root' = q
              /\ nodes' \in Seq(Node) /\ DOMAIN nodes' = DOMAIN nodes \cup {q}
              /\ \A n \in DOMAIN nodes : nodes'[n] = nodes[n]
              /\ nodes'[q] = Border([NewVersion EXCEPT !.is_root = TRUE], {key[t]})
              /\ key[t] \in Keys
<1>1. CASE root # NULL
  BY <1>1 DEF CasRoot
<1>2. CASE root = NULL
  <2> DEFINE x == Border([NewVersion EXCEPT !.is_root = TRUE], {key[t]})
  <2>1. nodes' = Append(nodes, x) /\ root' = Len(nodes') /\ nodes \in Seq(Node)
    BY <1>2 DEF CasRoot, Inductive, Typed
  <2>2. key[t] \in Keys
    BY DEF Inductive, Places, CasRoot
  <2>3. x \in Node
    <3>1. [NewVersion EXCEPT !.is_root = TRUE] \in Version
      BY DEF NewVersion, Version
    <3>2. {key[t]} \subseteq Keys
      BY <2>2
    <3>3. <<>> \in Seq(Keys) /\ <<>> \in Seq(Nat)
      OBVIOUS
    <3> QED
      BY <3>1, <3>2, <3>3, NewNodes
  <2> HIDE DEF x
  <2> QED
    BY <1>2, <2>1, <2>2, <2>3, AddNode DEF x
<1> QED
  BY <1>1, <1>2

LEMMA InsertToBorderGoes ==
    ASSUME Inductive, NEW t \in Threads, InsertToBorder(t)
    PROVE  LET b == node[t]
               S == nodes[b].slots
           IN  /\ b \in DOMAIN nodes /\ key[t] \in Keys /\ key[t] \notin S
               /\ nodes' \in Seq(Node) /\ DOMAIN nodes' = DOMAIN nodes
               /\ \A n \in DOMAIN nodes : n # b => nodes'[n] = nodes[n]
               /\ nodes'[b] = [nodes[b] EXCEPT !.slots = S \cup {key[t]}]
               /\ IsFiniteSet(S) /\ Cardinality(S) # ORDER - 1
<1> DEFINE b == node[t]
           S == nodes[b].slots
           x == [nodes[b] EXCEPT !.slots = S \cup {key[t]}]
<1>1. b \in DOMAIN nodes /\ key[t] \in Keys /\ key[t] \notin S /\ nodes \in Seq(Node)
  BY DEF Inductive, Typed, Places, InsertToBorder, WithNode, OnBorder
<1>2. IsFiniteSet(S) /\ Cardinality(S) # ORDER - 1
  BY <1>1 DEF Inductive, Shape, InsertToBorder, isFull
<1>3. nodes' = [nodes EXCEPT ![b] = x]
  BY DEF InsertToBorder
<1>4. x \in Node
  <2>1. nodes[b] \in Node /\ S \subseteq Keys
    BY <1>1, NodeIs DEF Inductive
  <2> HIDE DEF b
  <2> QED
    BY <1>1, <2>1 DEF Node
<1> HIDE DEF x, b
<1> QED
  BY <1>1, <1>2, <1>3, <1>4, SetNode DEF x, b

\* What is to be shown of a step that lets go of no node.
LEMMA HandedIf ==
    ASSUME Inductive, NEW t \in Threads,
           Held(t) \subseteq Held(t)', Held(t)' \subseteq DOMAIN nodes',
           Splitting(t)' \subseteq Held(t)', Inserting(t)' \subseteq Held(t)',
           Tearing(t)' \subseteq Held(t)',
           \A n \in Held(t)' : n \in Held(t) \/ n \notin DOMAIN nodes,
           \A n \in DOMAIN nodes' : n \in DOMAIN nodes \/ n \in Held(t)',
           \A n \in DOMAIN nodes \ Held(t) :
              nodes'[n].version = V(n) /\ nodes'[n].torn = nodes[n].torn,
           \A n \in Held(t)' : /\ nodes'[n].version.locked
                               /\ nodes'[n].version.splitting <=> n \in Splitting(t)'
                               /\ nodes'[n].version.inserting <=> n \in Inserting(t)'
                               /\ nodes'[n].torn <=> n \in Tearing(t)'
    PROVE  Handed(t)
<1>1. \A n \in Held(t)' : n \in DOMAIN nodes' /\
                           (n \in Held(t) \/ n \notin DOMAIN nodes \/ ~V(n).locked)
  OBVIOUS
<1>2. ASSUME NEW n \in DOMAIN nodes', n \in Held(t)'
      PROVE  /\ nodes'[n].version.locked
             /\ nodes'[n].version.splitting <=>
                  n \in Splitting(t)' \/ (n \in DOMAIN nodes /\ n \notin Splitting(t) /\ V(n).splitting)
             /\ nodes'[n].version.inserting <=>
                  n \in Inserting(t)' \/ (n \in DOMAIN nodes /\ n \notin Inserting(t) /\ V(n).inserting)
             /\ nodes'[n].torn <=>
                  n \in Tearing(t)' \/ (n \in DOMAIN nodes /\ n \notin Tearing(t) /\ nodes[n].torn)
  BY <1>2, OwnMarks
<1>3. ASSUME NEW n \in DOMAIN nodes', n \notin Held(t)'
      PROVE  /\ n \in DOMAIN nodes /\ n \notin Held(t) /\ n \notin Splitting(t) /\ n \notin Inserting(t)
             /\ n \notin Tearing(t) /\ n \notin Splitting(t)' /\ n \notin Inserting(t)'
             /\ n \notin Tearing(t)'
             /\ nodes'[n].version = V(n) /\ nodes'[n].torn = nodes[n].torn
  BY <1>3, OwnMarks
<1> QED
  BY <1>1, <1>2, <1>3 DEF Handed

TreeStep(t) == CasRoot(t) \/ InsertToBorder(t) \/ Split(t) \/ SplitKeys(t) \/ NewRoot(t)
               \/ IntoParent(t) \/ FillParent(t)

LEMMA StepIs ==
    ASSUME NEW t, Step(t)
    PROVE  QuietStep(t) \/ MarkStep(t) \/ TreeStep(t)
BY DEF Step, QuietStep, MarkStep, TreeStep, masstree_insert

LEMMA TreeStepHands ==
    ASSUME Inductive, NEW t \in Threads, TreeStep(t)
    PROVE  Handed(t) /\ nodes' \in Seq(Node) /\ DOMAIN nodes \subseteq DOMAIN nodes'
<1> DEFINE b == node[t]
           q == sib[t]
           p == par[t]
           Goal == Handed(t) /\ nodes' \in Seq(Node) /\ DOMAIN nodes \subseteq DOMAIN nodes'
<1>0. /\ pc \in [Threads -> PCs] /\ nodes \in Seq(Node)
      /\ \A n \in DOMAIN nodes : nodes[n] \in Node /\ V(n) \in Version
  BY NodeIs DEF Inductive, Typed
<1>1. CASE CasRoot(t)
  <2>1. Unmarked(t) /\ Unmarked(t)'
    BY <1>0, <1>1 DEF CasRoot, Return, Goto, Unmarked, Held, Splitting, Inserting, Tearing
  <2>2. CASE nodes' = nodes
    BY <1>0, <2>1, <2>2 DEF Handed, Unmarked, V
  <2>3. CASE nodes' # nodes
    <3> DEFINE r == Len(nodes) + 1
               x == Border([NewVersion EXCEPT !.is_root = TRUE], {key[t]})
    <3>1. /\ r \notin DOMAIN nodes
          /\ nodes' \in Seq(Node) /\ DOMAIN nodes' = DOMAIN nodes \cup {r}
          /\ \A n \in DOMAIN nodes : nodes'[n] = nodes[n]
          /\ nodes'[r] = x
      BY <1>1, <2>3, CasRootGoes
    <3>2. ~x.version.locked /\ ~x.version.splitting /\ ~x.version.inserting /\ ~x.torn
      BY DEF Border, NewVersion
    <3> HIDE DEF x, r
    <3> QED
      BY <2>1, <3>1, <3>2 DEF Handed, Unmarked, V
  <2> QED
    BY <2>2, <2>3
<1>2. CASE InsertToBorder(t)
  <2>1. /\ Held(t) = {b} /\ Held(t)' = {b} /\ Splitting(t) = {} /\ Splitting(t)' = {}
        /\ Inserting(t) = {} /\ Inserting(t)' = {} /\ Tearing(t) = {} /\ Tearing(t)' = {}
    BY <1>0, <1>2 DEF InsertToBorder, loc, Goto, Held, Splitting, Inserting, Tearing
  <2>2. /\ b \in DOMAIN nodes
        /\ nodes' \in Seq(Node) /\ DOMAIN nodes' = DOMAIN nodes
        /\ \A n \in DOMAIN nodes : n # b => nodes'[n] = nodes[n]
        /\ nodes'[b] = [nodes[b] EXCEPT !.slots = @ \cup {key[t]}]
    BY <1>2, InsertToBorderGoes
  <2>3. nodes'[b].version = V(b) /\ nodes'[b].torn = nodes[b].torn
    BY <1>0, <2>2 DEF Node, V
  <2>4. \A n \in DOMAIN nodes : nodes'[n].version = V(n) /\ nodes'[n].torn = nodes[n].torn
    BY <2>2, <2>3 DEF V
  <2> QED
    BY <2>1, <2>2, <2>4, OwnMarks DEF Handed
<1>3. CASE Split(t)
  <2> DEFINE r == Len(nodes) + 1
             v == [V(b) EXCEPT !.splitting = TRUE]
  <2>1. /\ b \in DOMAIN nodes /\ r \notin DOMAIN nodes /\ sib'[t] = r
        /\ nodes' \in Seq(Node) /\ DOMAIN nodes' = DOMAIN nodes \cup {r}
        /\ \A n \in DOMAIN nodes : n # b => nodes'[n] = nodes[n]
        /\ nodes'[b] = [nodes[b] EXCEPT !.version = v, !.torn = TRUE]
        /\ nodes'[r] = Border(v, {})
    BY <1>3, SplitGoes
  <2>2. /\ Held(t) = {b} /\ Held(t)' = {b, r} /\ Splitting(t) = {} /\ Splitting(t)' = {b, r}
        /\ Inserting(t) = {} /\ Inserting(t)' = {} /\ Tearing(t) = {} /\ Tearing(t)' = {b}
    BY <1>0, <1>3, <2>1 DEF Split, Goto, Held, Splitting, Inserting, Tearing
  <2>3. V(b).locked /\ ~V(b).inserting
    BY <2>1, <2>2, OwnMarks
  <2>4. v.locked /\ ~v.inserting /\ v.splitting
    BY <1>0, <2>1, <2>3 DEF Version
  <2> HIDE DEF v
  <2>5. nodes'[b].version = v /\ nodes'[b].torn /\ nodes'[r].version = v /\ ~nodes'[r].torn
    BY <1>0, <2>1 DEF Node, Border
  <2> HIDE DEF r, b
  <2>6. ASSUME NEW n \in {b, r}
        PROVE  /\ nodes'[n].version.locked
               /\ nodes'[n].version.splitting <=> n \in {b, r}
               /\ nodes'[n].version.inserting <=> n \in {}
               /\ nodes'[n].torn <=> n \in {b}
    BY <2>1, <2>4, <2>5
  <2>7. \A n \in DOMAIN nodes \ {b} :
           nodes'[n].version = V(n) /\ nodes'[n].torn = nodes[n].torn
    BY <2>1 DEF V
  <2>8. Handed(t)
    BY <2>1, <2>2, <2>6, <2>7, HandedIf
  <2> QED
    BY <2>1, <2>8
<1>4. CASE SplitKeys(t)
  <2>1. /\ b \in DOMAIN nodes /\ q \in DOMAIN nodes /\ b # q
        /\ nodes' \in Seq(Node) /\ DOMAIN nodes' = DOMAIN nodes
        /\ \A n \in DOMAIN nodes : n # b /\ n # q => nodes'[n] = nodes[n]
        /\ nodes'[b] = [nodes[b] EXCEPT !.slots = LeftOf(@, key[t]), !.torn = FALSE, !.next = q]
        /\ nodes'[q] = [nodes[q] EXCEPT !.slots = (nodes[b].slots \cup {key[t]}) \ LeftOf(nodes[b].slots, key[t]), !.next = nodes[b].next]
    BY <1>4, SplitKeysGoes
  <2>2. /\ Held(t) = {b, q} /\ Held(t)' = {b, q} /\ Splitting(t) = {b, q} /\ Splitting(t)' = {b, q}
        /\ Inserting(t) = {} /\ Inserting(t)' = {} /\ Tearing(t) = {b} /\ Tearing(t)' = {}
    BY <1>0, <1>4 DEF SplitKeys, Goto, Held, Splitting, Inserting, Tearing
  <2>3. nodes'[b].version = V(b) /\ ~nodes'[b].torn
        /\ nodes'[q].version = V(q) /\ nodes'[q].torn = nodes[q].torn
    BY <1>0, <2>1 DEF Node, V
  <2>4. \A n \in DOMAIN nodes : nodes'[n].version = V(n) /\ (n # b => nodes'[n].torn = nodes[n].torn)
    BY <2>1, <2>3 DEF V
  <2> QED
    BY <2>1, <2>2, <2>3, <2>4, OwnMarks DEF Handed
<1>5. CASE NewRoot(t)
  <2> DEFINE r == Len(nodes) + 1
             z == Interior([NewVersion EXCEPT !.is_root = TRUE], <<up[t]>>, <<b, q>>)
  <2>1. /\ b \in DOMAIN nodes /\ q \in DOMAIN nodes /\ b # q /\ r \notin DOMAIN nodes
        /\ nodes' \in Seq(Node) /\ DOMAIN nodes' = DOMAIN nodes \cup {r}
        /\ \A n \in DOMAIN nodes : n # b /\ n # q => nodes'[n] = nodes[n]
        /\ nodes'[b] = [nodes[b] EXCEPT !.parent = r, !.version.is_root = FALSE]
        /\ nodes'[q] = [nodes[q] EXCEPT !.parent = r, !.version.is_root = FALSE]
        /\ nodes'[r] = z
    BY <1>5, NewRootGoes
  <2>2. /\ Held(t) = {b, q} /\ Held(t)' = {b, q} /\ Splitting(t) = {b, q} /\ Splitting(t)' = {b, q}
        /\ Inserting(t) = {} /\ Inserting(t)' = {} /\ Tearing(t) = {} /\ Tearing(t)' = {}
    BY <1>0, <1>5 DEF NewRoot, Goto, Held, Splitting, Inserting, Tearing
  <2>3. ~z.version.locked /\ ~z.version.splitting /\ ~z.version.inserting /\ ~z.torn
    BY DEF Interior, NewVersion
  <2> HIDE DEF r, b, q, z
  <2>4. ASSUME NEW n \in DOMAIN nodes,
               nodes'[n] = [nodes[n] EXCEPT !.parent = r, !.version.is_root = FALSE]
        PROVE  /\ nodes'[n].version.locked = V(n).locked
               /\ nodes'[n].version.splitting = V(n).splitting
               /\ nodes'[n].version.inserting = V(n).inserting /\ nodes'[n].torn = nodes[n].torn
    BY <1>0, <2>4 DEF Node, Version, V
  <2>5. \A n \in DOMAIN nodes :
           /\ nodes'[n].version.locked = V(n).locked
           /\ nodes'[n].version.splitting = V(n).splitting
           /\ nodes'[n].version.inserting = V(n).inserting /\ nodes'[n].torn = nodes[n].torn
    BY <2>1, <2>4 DEF V
  <2> QED
    BY <2>1, <2>2, <2>3, <2>5, OwnMarks DEF Handed
<1>6. CASE IntoParent(t)
  <2> DEFINE i == ChildIndex(p, b)
  <2>1. /\ nodes' \in Seq(Node) /\ DOMAIN nodes' = DOMAIN nodes
        /\ \A n \in DOMAIN nodes : n # p /\ n # q => nodes'[n] = nodes[n]
        /\ nodes'[q] = [nodes[q] EXCEPT !.parent = p]
        /\ nodes'[p] = [nodes[p] EXCEPT !.torn = FALSE,
                                        !.seps = InsertAt(nodes[p].seps, i, up[t]),
                                        !.children = InsertAt(nodes[p].children, i + 1, q)]
    BY <1>6, IntoParentGoes
  <2>2. /\ Held(t) = {b, q, p} /\ Held(t)' = {b, q, p}
        /\ Splitting(t) = {b, q} /\ Splitting(t)' = {b, q}
        /\ Inserting(t) = {p} /\ Inserting(t)' = {p} /\ Tearing(t) = {p} /\ Tearing(t)' = {}
    BY <1>0, <1>6 DEF IntoParent, loc, Goto, Held, Splitting, Inserting, Tearing
  <2>3. p # q /\ p \in DOMAIN nodes /\ q \in DOMAIN nodes
    BY <1>6, <2>2, OwnMarks DEF Inductive, Apart, IntoParent, WithSib
  <2>4. nodes'[p].version = V(p) /\ ~nodes'[p].torn
        /\ nodes'[q].version = V(q) /\ nodes'[q].torn = nodes[q].torn
    BY <1>0, <2>1, <2>3 DEF Node, V
  <2>5. \A n \in DOMAIN nodes : nodes'[n].version = V(n) /\ (n # p => nodes'[n].torn = nodes[n].torn)
    BY <2>1, <2>4 DEF V
  <2>6. ASSUME NEW n \in Held(t)
        PROVE  /\ V(n).locked
               /\ V(n).splitting <=> n \in Splitting(t)
               /\ V(n).inserting <=> n \in Inserting(t)
               /\ nodes[n].torn <=> n \in Tearing(t)
    BY OwnMarks
  <2> HIDE DEF b, p, q, i
  <2>7. Held(t) \subseteq DOMAIN nodes
    BY OwnMarks
  <2>8. ASSUME NEW n \in {b, q, p}
        PROVE  /\ nodes'[n].version.locked
               /\ nodes'[n].version.splitting <=> n \in {b, q}
               /\ nodes'[n].version.inserting <=> n \in {p}
               /\ nodes'[n].torn <=> n \in {}
    BY <2>2, <2>3, <2>4, <2>5, <2>6, <2>7
  <2>9. Handed(t)
    BY <2>1, <2>2, <2>5, <2>7, <2>8, HandedIf
  <2> QED
    BY <2>1, <2>9
<1>7. CASE FillParent(t)
  <2> DEFINE r == Len(nodes) + 1
             Placed(n) == IF n \in Moved(t) THEN r ELSE IF n \in Stay(t) THEN p
                          ELSE nodes[n].parent
             s == SubSeq(Seps(t), 1, Middle - 1)
             c == SubSeq(Shared(t), 1, Middle)
             s1 == SubSeq(Seps(t), Middle + 1, ORDER)
             c1 == SubSeq(Shared(t), Middle + 1, ORDER + 1)
  <2>1. /\ p \in DOMAIN nodes /\ r \notin DOMAIN nodes
        /\ nodes' \in Seq(Node) /\ DOMAIN nodes' = DOMAIN nodes \cup {r}
        /\ par1' = [par1 EXCEPT ![t] = r]
        /\ \A n \in DOMAIN nodes : n # p => nodes'[n] = [nodes[n] EXCEPT !.parent = Placed(n)]
        /\ nodes'[p] = [nodes[p] EXCEPT !.parent = Placed(p), !.seps = s, !.children = c,
                                        !.torn = FALSE]
        /\ nodes'[r] = Interior(V(p), s1, c1)
    BY <1>7, FillParentGoes
  <2>2. par1'[t] = r
    BY <2>1 DEF Inductive, Typed
  <2>3. /\ Held(t) = {q, p} /\ Held(t)' = {q, p, r} /\ Splitting(t) = {q, p}
        /\ Splitting(t)' = {q, p, r}
        /\ Inserting(t) = {} /\ Inserting(t)' = {} /\ Tearing(t) = {p} /\ Tearing(t)' = {}
    <3> HIDE DEF r
    <3> QED
      BY <1>0, <1>7, <2>2 DEF FillParent, Goto, Held, Splitting, Inserting, Tearing
  <2> HIDE DEF Placed, s, c, s1, c1
  <2>4. ASSUME NEW n \in DOMAIN nodes
        PROVE  nodes'[n].version = V(n) /\ (n # p => nodes'[n].torn = nodes[n].torn)
    <3>1. CASE n = p
      BY <1>0, <2>1, <3>1 DEF Node, V
    <3>2. CASE n # p
      <4> HIDE DEF r, p
      <4> QED
        BY <1>0, <2>1, <3>2 DEF Node, V
    <3> QED
      BY <3>1, <3>2
  <2>5. ~nodes'[p].torn /\ nodes'[r].version = V(p) /\ ~nodes'[r].torn
    BY <1>0, <2>1 DEF Node, Interior
  <2>6. q \in DOMAIN nodes /\ p # q /\ V(p).locked /\ V(p).splitting /\ ~V(p).inserting
    BY <1>7, <2>1, <2>3, OwnMarks DEF Inductive, Apart, FillParent, WithSib
  <2> HIDE DEF r, p, q, b
  <2> QED
    <3>1. V(q).locked /\ V(q).splitting /\ ~V(q).inserting /\ ~nodes[q].torn
      BY <2>3, <2>6, OwnMarks
    <3>2. ASSUME NEW n \in {q, p, r}
          PROVE  /\ nodes'[n].version.locked
                 /\ nodes'[n].version.splitting <=> n \in {q, p, r}
                 /\ nodes'[n].version.inserting <=> n \in {}
                 /\ nodes'[n].torn <=> n \in {}
      <4>1. CASE n = q
        BY <2>4, <2>6, <3>1, <4>1
      <4>2. CASE n = p
        BY <2>1, <2>4, <2>5, <2>6, <4>2
      <4>3. CASE n = r
        BY <2>5, <2>6, <4>3
      <4> QED
        BY <3>2, <4>1, <4>2, <4>3
    <3>3. Handed(t)
      BY <2>1, <2>3, <2>4, <2>6, <3>2, HandedIf
    <3> QED
      BY <2>1, <3>3
<1> QED
  BY <1>1, <1>2, <1>3, <1>4, <1>5, <1>6, <1>7 DEF TreeStep

-----------------------------------------------------------------------------
(* Types.                                                                   *)

\* No node disappears.
LEMMA NodesGo ==
    ASSUME Inductive, NEW t \in Threads, Step(t)
    PROVE  nodes' \in Seq(Node) /\ DOMAIN nodes \subseteq DOMAIN nodes' /\ Handed(t)
BY StepIs, QuietStepGoes, MarkStepGoes, TreeStepHands DEF Inductive, Typed

\* A child that is searched for is one of the children.
LEMMA findChildIs ==
    ASSUME Typed, NEW n \in DOMAIN nodes, Shape(n), ~nodes[n].border, NEW k \in Nat
    PROVE  findChild(n, k) \in Kids(n)
<1> DEFINE s == nodes[n].seps
           I == {i \in DOMAIN s : s[i] <= k}
<1>1. s \in Seq(Keys) /\ nodes[n].children \in Seq(Nat)
      /\ Len(nodes[n].children) = Len(s) + 1
  BY NodeIs DEF Shape
<1>2. Len(s) \in Nat /\ DOMAIN s = 1 .. Len(s)
      /\ DOMAIN nodes[n].children = 1 .. Len(nodes[n].children)
  BY <1>1, LenProperties
<1>3. IsFiniteSet(1 .. Len(s)) /\ Cardinality(1 .. Len(s)) = Len(s)
  BY <1>2, FS_Interval
<1>4. Cardinality(I) \in Nat /\ Cardinality(I) <= Len(s)
  BY <1>2, <1>3, FS_Subset, FS_CardinalityType
<1>5. findChild(n, k) = nodes[n].children[Cardinality(I) + 1]
  BY DEF findChild
<1> HIDE DEF I, s
<1>6. Cardinality(I) + 1 \in DOMAIN nodes[n].children
  BY <1>1, <1>2, <1>4
<1> QED
  BY <1>5, <1>6 DEF Kids, ToSet

LEMMA SplitKeysUp ==
    ASSUME Inductive, NEW t \in Threads, SplitKeys(t)
    PROVE  up' \in [Threads -> Keys \cup {0}] /\ up'[t] \in Keys
<1> DEFINE S == nodes[node[t]].slots
           left == LeftOf(S, key[t])
           right == (S \cup {key[t]}) \ left
<1>1. /\ node[t] \in DOMAIN nodes /\ key[t] \in Keys /\ key[t] \notin S
      /\ IsFiniteSet(S) /\ Cardinality(S) < ORDER
      /\ up' = [up EXCEPT ![t] = Min(right)]
  BY SplitKeysGoes
<1>2. S \subseteq Keys /\ up \in [Threads -> Keys \cup {0}]
  BY <1>1, NodeIs DEF Inductive, Typed
<1>3. right \subseteq Keys /\ Min(right) \in right
  <2> HIDE DEF S
  <2>1. left = LeftOf(S, key[t]) /\ right = (S \cup {key[t]}) \ left
    OBVIOUS
  <2> HIDE DEF left, right
  <2> QED
    BY <1>1, <1>2, <2>1, LeftOfIs
<1> HIDE DEF right
<1> QED
  BY <1>1, <1>2, <1>3

LEMMA ChildrenAre ==
    ASSUME Inductive, NEW n \in DOMAIN nodes, ~nodes[n].border, NEW k
    PROVE  Children(n, k) \subseteq Kids(n) \cup {NULL, findChild(n, k)} \cup DOMAIN nodes
<1>1. Arriving(n) \subseteq DOMAIN nodes
  BY DEF Arriving, Inductive, Places, WithSib
<1> QED
  BY <1>1 DEF Children, Kids

\* Functions on the threads, with the types they have after a step that may
\* have added nodes.
LEMMA TypedStep ==
    ASSUME Inductive, NEW t \in Threads, Step(t)
    PROVE  Typed'
<1> DEFINE D == DOMAIN nodes'
           L == D \cup {NULL}
           Rest == <<todo, seen, op, key>>
<1>0. /\ pc \in [Threads -> PCs]
      /\ op \in [Threads -> {"insert", "get"}] /\ key \in [Threads -> Keys \cup {0}]
      /\ ver \in [Threads -> Version] /\ cver \in [Threads -> Version]
      /\ up \in [Threads -> Keys \cup {0}]
      /\ todo \in [Threads -> Seq(Calls)]
      /\ returned \in [Keys -> Nat] /\ seen \in [Threads -> SUBSET Keys]
      /\ DOMAIN got = Threads
      /\ faults \subseteq Faults
      /\ Places(t)
  BY DEF Inductive, Typed
<1>1. /\ root \in L /\ top \in [Threads -> L] /\ cur \in [Threads -> L]
      /\ node \in [Threads -> L] /\ child \in [Threads -> L] /\ sib \in [Threads -> L]
      /\ par \in [Threads -> L] /\ par1 \in [Threads -> L]
  BY NodesGo DEF Inductive, Typed
<1>2. nodes' \in Seq(Node) /\ DOMAIN nodes \subseteq D
  BY NodesGo
<1>3. \A n \in DOMAIN nodes : /\ V(n) \in Version /\ Kids(n) \subseteq D
                              /\ nodes[n].next \in L /\ nodes[n].parent \in L
  BY <1>2, NodeIs DEF Inductive, Shape
<1>4. SUFFICES /\ root' \in L
               /\ pc' \in [Threads -> PCs]
               /\ op' \in [Threads -> {"insert", "get"}] /\ key' \in [Threads -> Keys \cup {0}]
               /\ top' \in [Threads -> L] /\ cur' \in [Threads -> L]
               /\ node' \in [Threads -> L] /\ child' \in [Threads -> L]
               /\ sib' \in [Threads -> L] /\ par' \in [Threads -> L] /\ par1' \in [Threads -> L]
               /\ ver' \in [Threads -> Version] /\ cver' \in [Threads -> Version]
               /\ up' \in [Threads -> Keys \cup {0}]
               /\ todo' \in [Threads -> Seq(Calls)]
               /\ returned' \in [Keys -> Nat] /\ seen' \in [Threads -> SUBSET Keys]
               /\ DOMAIN got' = Threads
               /\ faults' \subseteq Faults
  BY <1>2 DEF Typed
<1> HIDE DEF L
<1> USE <1>0, <1>1 DEF Goto, Return, loc, call, hist, PCs, Faults
<1>5. CASE Call(t)
  <2>1. todo[t] \in Seq(Calls) /\ todo[t] # <<>>
    BY <1>5 DEF Call
  <2>2. Head(todo[t]) \in Calls /\ Tail(todo[t]) \in Seq(Calls)
    BY <2>1, HeadTailProperties
  <2>3. Head(todo[t])[1] \in {"insert", "get"} /\ Head(todo[t])[2] \in Keys
    BY <2>2 DEF Calls
  <2>4. Done \subseteq Keys
    BY DEF Done
  <2> QED
    BY <1>5, <2>2, <2>3, <2>4 DEF Call
<1>6. CASE LoadRoot(t)
  BY <1>6 DEF LoadRoot
<1>7. CASE CasRoot(t)
  <2>1. key[t] \in Keys
    BY <1>7 DEF Places, CasRoot
  <2>2. root' \in L
    BY <1>7, CasRootGoes DEF L
  <2>3. CASE root = NULL
    <3>1. returned' = [returned EXCEPT ![key[t]] = @ + 1] /\ pc' = [pc EXCEPT ![t] = "idle"]
          /\ got' = [got EXCEPT ![t] = "OK"] /\ faults' = faults
      BY <1>7, <2>3 DEF CasRoot
    <3>2. returned' \in [Keys -> Nat]
      BY <2>1, <3>1
    <3>3. UNCHANGED <<call, loc>>
      BY <1>7 DEF CasRoot
    <3> QED
      BY <2>2, <3>1, <3>2, <3>3
  <2>4. CASE root # NULL
    BY <1>7, <2>4 DEF CasRoot
  <2> QED
    BY <2>3, <2>4
<1>8. CASE FindRoot(t)
  <2>1. cur[t] \in DOMAIN nodes
    BY <1>8 DEF Places, FindRoot, Finding
  <2>2. V(cur[t]) \in Version /\ nodes[cur[t]].parent \in L /\ cur[t] \in L
    BY <1>3, <2>1
  <2>3. CASE V(cur[t]).is_root
    <3>1. node' = [node EXCEPT ![t] = cur[t]] /\ ver' = [ver EXCEPT ![t] = V(cur[t])]
          /\ pc' = [pc EXCEPT ![t] = "descend"] /\ cur' = cur
      BY <1>8, <2>3 DEF FindRoot
    <3>2. UNCHANGED <<root, nodes, call, top, child, cver, sib, par, par1, up, hist>>
      BY <1>8 DEF FindRoot
    <3> QED
      BY <2>2, <3>1, <3>2
  <2>4. CASE ~V(cur[t]).is_root
    <3>1. cur' = [cur EXCEPT ![t] = nodes[cur[t]].parent] /\ UNCHANGED <<node, ver, pc>>
      BY <1>8, <2>4 DEF FindRoot
    <3>2. UNCHANGED <<root, nodes, call, top, child, cver, sib, par, par1, up, hist>>
      BY <1>8 DEF FindRoot
    <3> QED
      BY <2>2, <3>1, <3>2
  <2> QED
    BY <2>3, <2>4
<1>9. CASE AtBorder(t)
  BY <1>9 DEF AtBorder
<1>10. CASE Descend(t)
  <2>1. node[t] \in DOMAIN nodes /\ ~nodes[node[t]].border
    BY <1>10 DEF Places, Descend, WithNode, Finding
  <2>2. Children(node[t], key[t]) \subseteq L
    <3>1. key[t] \in Keys
      BY <1>10 DEF Places, Descend
    <3>2. findChild(node[t], key[t]) \in Kids(node[t])
      BY <2>1, <3>1, findChildIs, Constants DEF Inductive
    <3> QED
      BY <1>2, <1>3, <2>1, <3>2, ChildrenAre DEF L
  <2>3. PICK c \in L : child' = [child EXCEPT ![t] = c]
    BY <1>10, <2>2 DEF Descend
  <2>4. /\ pc' \in [Threads -> PCs] /\ faults' \subseteq Faults
        /\ UNCHANGED <<root, nodes, call, top, cur, node, ver, cver, sib, par, par1, up, returned, got>>
    BY <1>10 DEF Descend
  <2> QED
    BY <2>3, <2>4
<1>11. CASE ChildVersion(t)
  <2>1. child[t] \in DOMAIN nodes
    BY <1>11 DEF Places, ChildVersion
  <2>2. V(child[t]) \in Version
    BY <1>3, <2>1
  <2> QED
    BY <1>11, <2>2 DEF ChildVersion
<1>12. CASE Check(t)
  <2>1. child[t] \in L /\ cver[t] \in Version
    OBVIOUS
  <2> QED
    BY <1>12, <2>1, Zenon DEF Check
<1>13. CASE Revalidate(t)
  <2>1. node[t] \in DOMAIN nodes
    BY <1>13 DEF Places, Revalidate, WithNode, Finding
  <2>2. V(node[t]) \in Version
    BY <1>3, <2>1
  <2> QED
    BY <1>13, <2>2 DEF Revalidate
<1>14. CASE LockBorder(t)
  <2>1. node[t] \in DOMAIN nodes
    BY <1>14 DEF Places, LockBorder, WithNode, OnBorder
  <2>2. V(node[t]) \in Version
    BY <1>3, <2>1
  <2> QED
    BY <1>14, <2>2 DEF LockBorder
<1>15. CASE AlreadyExists(t)
  BY <1>15 DEF AlreadyExists
<1>16. CASE InsertToBorder(t)
  BY <1>16 DEF InsertToBorder
<1>17. CASE Unlock(t)
  <2>1. key[t] \in Keys
    BY <1>17 DEF Places, Unlock
  <2> QED
    BY <1>17, <2>1 DEF Unlock
<1>18. CASE Split(t)
  <2>1. sib'[t] \in L
    BY <1>18, SplitGoes DEF L
  <2>2. Len(nodes') \in L
    BY <1>18, <2>1 DEF Split
  <2> QED
    BY <1>18, <2>2 DEF Split
<1>19. CASE SplitKeys(t)
  <2>1. up' \in [Threads -> Keys \cup {0}]
    BY <1>19, SplitKeysUp
  <2> QED
    BY <1>19, <2>1 DEF SplitKeys
<1>20. CASE NewRoot(t)
  <2>1. Len(nodes) + 1 \in L
    BY <1>20, NewRootGoes DEF L
  <2> QED
    BY <1>20, <2>1 DEF NewRoot
<1>21. CASE LeaveRoot(t)
  BY <1>21 DEF LeaveRoot
<1>22. CASE LeaveSibling(t)
  BY <1>22 DEF LeaveSibling
<1>23. CASE StoreRoot(t)
  <2>1. key[t] \in Keys
    BY <1>23 DEF Places, StoreRoot
  <2> QED
    BY <1>23, <2>1 DEF StoreRoot
<1>24. CASE LockParent(t)
  <2>1. node[t] \in DOMAIN nodes
    BY <1>24 DEF Places, LockParent, WithNode, Halfway
  <2>2. nodes[node[t]].parent \in L
    BY <1>3, <2>1
  <2> QED
    BY <1>24, <2>2 DEF LockParent
<1>25. CASE ShiftParent(t)
  BY <1>25 DEF ShiftParent
<1>26. CASE IntoParent(t)
  BY <1>26 DEF IntoParent
<1>27. CASE LeaveNode(t)
  BY <1>27 DEF LeaveNode
<1>28. CASE LeaveNode1(t)
  BY <1>28 DEF LeaveNode1
<1>29. CASE LeaveParent(t)
  <2>1. key[t] \in Keys
    BY <1>29 DEF Places, LeaveParent
  <2> QED
    BY <1>29, <2>1 DEF LeaveParent
<1>30. CASE SplitParent(t)
  BY <1>30 DEF SplitParent
<1>31. CASE TearParent(t)
  BY <1>31 DEF TearParent
<1>32. CASE FillParent(t)
  <2>1. /\ Len(nodes) + 1 \in L
        /\ par1' = [par1 EXCEPT ![t] = Len(nodes) + 1] /\ up' = [up EXCEPT ![t] = Seps(t)[Middle]]
    BY <1>32, FillParentGoes DEF L
  <2>2. Seps(t)[Middle] \in Keys
    <3>1. /\ Middle \in Nat /\ 2 <= Middle /\ Middle <= ORDER - 1 /\ ORDER \in Nat
          /\ \A j \in 1 .. ORDER : Seps(t)[j] \in Keys
      BY <1>32, SharedIs, Constants DEF FillParent
    <3> QED
      BY <3>1
  <2>3. pc' \in [Threads -> PCs]
        /\ UNCHANGED <<root, call, top, cur, node, ver, child, cver, sib, par, hist>>
    BY <1>32 DEF FillParent
  <2> QED
    BY <2>1, <2>2, <2>3
<1>33. CASE AscendParent(t)
  BY <1>33 DEF AscendParent
<1>34. CASE Search(t)
  <2>1. PICK p \in {"found", "notFound"} : pc' = [pc EXCEPT ![t] = p]
    BY <1>34 DEF Search
  <2>2. UNCHANGED <<root, nodes, call, loc, hist>>
    BY <1>34 DEF Search
  <2> QED
    BY <2>1, <2>2
<1>35. CASE Verify(t)
  <2>1. key[t] \in Keys
    BY <1>35 DEF Places, Verify
  <2>2. returned' \in [Keys -> Nat] /\ DOMAIN got' = Threads /\ faults' \subseteq Faults
    <3>1. returned' = returned
      BY <1>35 DEF Verify
    <3>2. DOMAIN got' = Threads
      BY <1>35 DEF Verify
    <3>3. faults' \subseteq Faults
      <4>1. faults' = faults \/ faults' = faults \cup {"unseenSplit"}
        BY <1>35, Zenon DEF Verify
      <4> QED
        BY <4>1
    <3> QED
      BY <3>1, <3>2, <3>3
  <2>3. pc' \in [Threads -> PCs]
    BY <1>35 DEF Verify
  <2>4. UNCHANGED <<root, nodes, call, loc>>
    BY <1>35 DEF Verify
  <2> QED
    BY <2>2, <2>3, <2>4
<1>36. CASE Forward(t)
  <2>1. node[t] \in DOMAIN nodes
    BY <1>36 DEF Places, Forward, WithNode, OnBorder, Getting
  <2>2. V(node[t]) \in Version
    BY <1>3, <2>1
  <2> QED
    BY <1>36, <2>2 DEF Forward
<1>37. CASE Walk(t)
  <2>1. node[t] \in DOMAIN nodes
    BY <1>37 DEF Places, Walk, WithNode, OnBorder, Getting
  <2>2. nodes[node[t]].next \in L
    BY <1>3, <2>1
  <2> QED
    BY <1>37, <2>2 DEF Walk
<1> QED
  BY <1>5, <1>6, <1>7, <1>8, <1>9, <1>10, <1>11, <1>12, <1>13, <1>14, <1>15, <1>16, <1>17, <1>18, <1>19, <1>20, <1>21, <1>22, <1>23, <1>24, <1>25, <1>26, <1>27, <1>28, <1>29, <1>30, <1>31, <1>32, <1>33, <1>34, <1>35, <1>36, <1>37
     DEF Step, findBorder, masstree_insert, masstree_get

-----------------------------------------------------------------------------
(* The tree.                                                                *)

\* What a step leaves as it is: a node t does not hold keeps its keys and its
\* separators, and a node keeps its parent while another thread holds that.
Touched(t) ==
    \A n \in DOMAIN nodes :
        /\ nodes'[n].border = nodes[n].border
        /\ n \notin Held(t) => nodes'[n].slots = nodes[n].slots /\ nodes'[n].seps = nodes[n].seps
        /\ \/ nodes'[n].parent = nodes[n].parent
           \/ nodes[n].parent = NULL /\ nodes'[n].parent # NULL
           \/ nodes[n].parent \in Held(t) /\ nodes'[n].parent # NULL

Treeish == /\ \A n \in DOMAIN nodes : Shape(n)
           /\ Family

LEMMA FamilyKeeps ==
    ASSUME Treeish, DOMAIN nodes' = DOMAIN nodes,
           \A n \in DOMAIN nodes : nodes'[n].parent = nodes[n].parent
                                   /\ nodes'[n].children = nodes[n].children
    PROVE  Family'
<1>1. \A n \in DOMAIN nodes : Kids(n)' = Kids(n)
  BY DEF Kids
<1>2. Family /\ \A n \in DOMAIN nodes : Kids(n) \subseteq DOMAIN nodes /\ nodes[n].parent \in DOMAIN nodes \cup {NULL}
  BY DEF Treeish, Shape
<1>3. ASSUME NEW p \in DOMAIN nodes', NEW n \in Kids(p)' PROVE nodes'[n].parent = p
  <2>1. p \in DOMAIN nodes /\ n \in Kids(p) /\ n \in DOMAIN nodes
    BY <1>1, <1>2
  <2> QED
    BY <1>1, <1>2, <2>1 DEF Family
<1>4. ASSUME NEW n \in DOMAIN nodes', nodes'[n].parent # NULL
      PROVE  n \in ToSet(nodes'[nodes'[n].parent].children)
  <2>1. nodes'[n].parent = nodes[n].parent /\ nodes[n].parent \in DOMAIN nodes
    BY <1>1, <1>2, <1>4
  <2>2. n \in Kids(nodes[n].parent)
    BY <1>2, <1>4, <2>1 DEF Family
  <2> QED
    BY <1>1, <2>1, <2>2 DEF Kids
<1>5. \A p \in DOMAIN nodes' : \A i, j \in DOMAIN nodes'[p].children :
        nodes'[p].children[i] = nodes'[p].children[j] => i = j
  BY <1>1, <1>2 DEF Family
<1> QED
  BY <1>3, <1>4, <1>5 DEF Family, Kids

LEMMA AlikeKeeps ==
    ASSUME Treeish, DOMAIN nodes' = DOMAIN nodes,
           \A n \in DOMAIN nodes : Alike(nodes'[n], nodes[n]), NEW t
    PROVE  Treeish' /\ Touched(t)
<1>1. ASSUME NEW n \in DOMAIN nodes
      PROVE  /\ nodes'[n].border = nodes[n].border /\ nodes'[n].slots = nodes[n].slots
             /\ nodes'[n].next = nodes[n].next /\ nodes'[n].parent = nodes[n].parent
             /\ nodes'[n].seps = nodes[n].seps /\ nodes'[n].children = nodes[n].children
             /\ Kids(n)' = Kids(n)
  BY DEF Alike, Kids
<1>2. Touched(t)
  BY <1>1 DEF Touched
<1>3. ASSUME NEW n \in DOMAIN nodes PROVE Shape(n)'
  <2>1. Shape(n) /\ (nodes[n].next # NULL => nodes[n].next \in DOMAIN nodes)
    BY DEF Treeish, Shape
  <2> QED
    BY <1>1, <2>1 DEF Shape
<1>4. Family'
  BY <1>1, FamilyKeeps
<1> QED
  BY <1>2, <1>3, <1>4 DEF Treeish

-----------------------------------------------------------------------------
(* Sequences without repetitions, and the families of nodes.                *)

LEMMA InsertAtInjective ==
    ASSUME NEW S, NEW s \in Seq(S), NEW i \in 1 .. Len(s) + 1, NEW e \in S,
           IsInjective(s), e \notin ToSet(s)
    PROVE  IsInjective(InsertAt(s, i, e))
<1> DEFINE r == InsertAt(s, i, e)
<1>1. /\ r \in Seq(S) /\ Len(r) = Len(s) + 1 /\ r[i] = e
      /\ \A j \in 1 .. Len(s) : j < i => r[j] = s[j]
      /\ \A j \in 1 .. Len(s) : j >= i => r[j + 1] = s[j]
  BY InsertAtIs
<1> HIDE DEF r
<1>2. Len(s) \in Nat /\ DOMAIN s = 1 .. Len(s) /\ DOMAIN r = 1 .. Len(s) + 1
  BY <1>1, LenProperties
<1>3. ASSUME NEW j \in DOMAIN r, j # i
      PROVE  \/ j < i /\ j \in DOMAIN s /\ r[j] = s[j]
             \/ j > i /\ j - 1 \in DOMAIN s /\ r[j] = s[j - 1]
  <2>1. CASE j < i
    BY <1>1, <1>2, <2>1
  <2>2. CASE j > i
    <3>1. j - 1 \in 1 .. Len(s) /\ j - 1 >= i /\ (j - 1) + 1 = j
      BY <1>2, <2>2
    <3> QED
      BY <1>1, <1>2, <2>2, <3>1
  <2> QED
    BY <1>2, <1>3, <2>1, <2>2
<1>4. \A j \in DOMAIN s : s[j] # e
  BY DEF ToSet
<1>5. ASSUME NEW j \in DOMAIN r, NEW m \in DOMAIN r, r[j] = r[m] PROVE j = m
  <2>1. CASE j = i /\ m # i
    BY <1>1, <1>3, <1>4, <1>5, <2>1
  <2>2. CASE j # i /\ m = i
    BY <1>1, <1>3, <1>4, <1>5, <2>2
  <2>3. CASE j # i /\ m # i
    <3>1. j \in Int /\ m \in Int /\ i \in Int
      BY <1>2
    <3>2. \A x, y \in DOMAIN s : s[x] = s[y] => x = y
      BY DEF IsInjective
    <3>3. CASE j < i /\ m < i
      BY <1>3, <1>5, <2>3, <3>1, <3>2, <3>3
    <3>4. CASE j > i /\ m > i
      <4>1. j - 1 = m - 1
        BY <1>3, <1>5, <2>3, <3>1, <3>2, <3>4
      <4> QED
        BY <3>1, <4>1
    <3>5. CASE j < i /\ m > i
      <4>1. j = m - 1
        BY <1>3, <1>5, <2>3, <3>1, <3>2, <3>5
      <4> QED
        BY <3>1, <3>5, <4>1
    <3>6. CASE j > i /\ m < i
      <4>1. j - 1 = m
        BY <1>3, <1>5, <2>3, <3>1, <3>2, <3>6
      <4> QED
        BY <3>1, <3>6, <4>1
    <3> QED
      BY <2>3, <3>1, <3>3, <3>4, <3>5, <3>6
  <2> QED
    BY <2>1, <2>2, <2>3
<1> QED
  BY <1>5 DEF IsInjective, r

LEMMA SubSeqIs ==
    ASSUME NEW S, NEW s \in Seq(S), NEW a \in Nat, NEW b \in Nat, 1 <= a, b <= Len(s), a <= b
    PROVE  /\ SubSeq(s, a, b) \in Seq(S) /\ Len(SubSeq(s, a, b)) = b - a + 1
           /\ \A j \in 1 .. b - a + 1 : SubSeq(s, a, b)[j] = s[a + j - 1]
           /\ ToSet(SubSeq(s, a, b)) = {s[j] : j \in a .. b}
           /\ IsInjective(s) => IsInjective(SubSeq(s, a, b))
<1> DEFINE r == SubSeq(s, a, b)
<1>1. Len(s) \in Nat /\ DOMAIN s = 1 .. Len(s) /\ \A j \in 1 .. Len(s) : s[j] \in S
  BY LenProperties
<1>2. /\ r \in Seq(S) /\ Len(r) = b - a + 1
      /\ \A j \in 1 .. b - a + 1 : r[j] = s[a + j - 1]
  <2>1. a \in Int /\ b \in Int /\ \A j \in a .. b : s[j] \in S
    BY <1>1
  <2>2. /\ r \in Seq(S) /\ Len(r) = IF a <= b THEN b - a + 1 ELSE 0
        /\ \A j \in 1 .. b - a + 1 : r[j] = s[a + j - 1]
    BY <2>1, SubSeqProperties
  <2> QED
    BY <2>2
<1> HIDE DEF r
<1>3. DOMAIN r = 1 .. b - a + 1
  BY <1>2, LenProperties
<1>4. ToSet(r) = {s[j] : j \in a .. b}
  <2>1. ASSUME NEW j \in DOMAIN r PROVE a + j - 1 \in a .. b /\ r[j] = s[a + j - 1]
    BY <1>2, <1>3
  <2>2. ASSUME NEW m \in a .. b PROVE \E j \in DOMAIN r : r[j] = s[m]
    <3>1. m - a + 1 \in DOMAIN r /\ a + (m - a + 1) - 1 = m
      BY <1>3
    <3> QED
      BY <2>1, <3>1
  <2>3. ToSet(r) = {r[j] : j \in DOMAIN r}
    BY DEF ToSet
  <2> QED
    BY <2>1, <2>2, <2>3
<1>5. ASSUME IsInjective(s) PROVE IsInjective(r)
  <2>1. ASSUME NEW j \in DOMAIN r, NEW m \in DOMAIN r, r[j] = r[m] PROVE j = m
    <3>1. a + j - 1 \in DOMAIN s /\ a + m - 1 \in DOMAIN s /\ j \in Int /\ m \in Int
      BY <1>1, <1>3
    <3>2. s[a + j - 1] = s[a + m - 1]
      BY <1>2, <1>3, <2>1
    <3>3. a + j - 1 = a + m - 1
      BY <1>5, <3>1, <3>2 DEF IsInjective
    <3> QED
      BY <3>1, <3>3
  <2> QED
    BY <2>1 DEF IsInjective
<1> QED
  BY <1>2, <1>4, <1>5 DEF r

\* A child is found among its own parent's children only.
LEMMA NoParent ==
    ASSUME Inductive, NEW n \in DOMAIN nodes, nodes[n].parent = NULL
    PROVE  \A p \in DOMAIN nodes : n \notin Kids(p)
BY NodeIs, Constants DEF Inductive, Family

\* The node a split has made is its own.
LEMMA RightIs ==
    ASSUME Inductive, NEW t \in Threads, pc[t] \in Halfway
    PROVE  /\ Right(t) \in Held(t) /\ Right(t) \in DOMAIN nodes
           /\ nodes[Right(t)].parent = NULL
<1>1. Right(t) \in Held(t)
  BY DEF Right, Held, Halfway
<1>2. Right(t) \in DOMAIN nodes
  BY <1>1, OwnMarks
<1> QED
  BY <1>1, <1>2 DEF Inductive, Rooted, Unlinked

\* A new node that nobody knows yet does not disturb the others.
LEMMA AddKeeps ==
    ASSUME Inductive, NEW t, NEW q, q \notin DOMAIN nodes, q # NULL,
           DOMAIN nodes' = DOMAIN nodes \cup {q},
           \A n \in DOMAIN nodes :
              /\ nodes'[n].border = nodes[n].border /\ nodes'[n].slots = nodes[n].slots
              /\ nodes'[n].next = nodes[n].next /\ nodes'[n].parent = nodes[n].parent
              /\ nodes'[n].seps = nodes[n].seps /\ nodes'[n].children = nodes[n].children,
           nodes'[q].border, nodes'[q].children = <<>>, nodes'[q].next = NULL,
           nodes'[q].parent = NULL,
           IsFiniteSet(nodes'[q].slots), Cardinality(nodes'[q].slots) < ORDER
    PROVE  Treeish' /\ Touched(t)
<1>1. \A n \in DOMAIN nodes : Shape(n) /\ Kids(n)' = Kids(n)
  BY DEF Inductive, Kids
<1>2. Kids(q)' = {}
  BY DEF Kids, ToSet
<1>3. Touched(t)
  BY DEF Touched
<1>4. ASSUME NEW n \in DOMAIN nodes' PROVE Shape(n)'
  <2>1. CASE n = q
    BY <1>2, <2>1 DEF Shape
  <2>2. CASE n \in DOMAIN nodes
    <3>1. nodes[n].next # NULL => nodes[n].next \in DOMAIN nodes
      BY <1>1, <2>2 DEF Shape
    <3> QED
      BY <1>1, <2>2, <3>1 DEF Shape
  <2> QED
    BY <2>1, <2>2
<1>5. Family'
  <2>1. ASSUME NEW p \in DOMAIN nodes', NEW n \in Kids(p)' PROVE nodes'[n].parent = p
    <3>1. p \in DOMAIN nodes /\ n \in Kids(p) /\ n \in DOMAIN nodes
      BY <1>1, <1>2, <2>1 DEF Shape
    <3> QED
      BY <2>1, <3>1 DEF Inductive, Family
  <2>2. ASSUME NEW n \in DOMAIN nodes', nodes'[n].parent # NULL
        PROVE  n \in ToSet(nodes'[nodes'[n].parent].children)
    <3>1. n \in DOMAIN nodes
      BY <2>2
    <3>2. nodes'[n].parent = nodes[n].parent /\ nodes[n].parent \in DOMAIN nodes
      BY <1>1, <2>2, <3>1 DEF Shape
    <3>3. n \in Kids(nodes[n].parent)
      BY <2>2, <3>1, <3>2 DEF Inductive, Family
    <3> QED
      BY <3>2, <3>3 DEF Kids
  <2>3. \A p \in DOMAIN nodes' : \A i, j \in DOMAIN nodes'[p].children :
          nodes'[p].children[i] = nodes'[p].children[j] => i = j
    BY DEF Inductive, Family
  <2> QED
    BY <2>1, <2>2, <2>3 DEF Family, Kids
<1> QED
  BY <1>3, <1>4, <1>5 DEF Treeish

LEMMA CasRootKeeps ==
    ASSUME Inductive, NEW t \in Threads, CasRoot(t)
    PROVE  Treeish' /\ Touched(t)
<1> DEFINE q == Len(nodes) + 1
           x == Border([NewVersion EXCEPT !.is_root = TRUE], {key[t]})
<1>1. CASE nodes' = nodes
  BY <1>1, AlikeKeeps DEF Alike, Inductive, Treeish
<1>2. CASE nodes' # nodes
  <2>1. /\ q \notin DOMAIN nodes
        /\ nodes' \in Seq(Node) /\ DOMAIN nodes' = DOMAIN nodes \cup {q}
        /\ \A n \in DOMAIN nodes : nodes'[n] = nodes[n]
        /\ nodes'[q] = x
    BY <1>2, CasRootGoes
  <2>2. q # NULL
    BY <2>1, LenProperties, Constants
  <2>3. x.border /\ x.children = <<>> /\ x.next = NULL /\ x.parent = NULL /\ x.slots = {key[t]}
    BY DEF Border
  <2>4. IsFiniteSet({key[t]}) /\ Cardinality({key[t]}) = 1
    BY FS_Singleton
  <2>5. 1 < ORDER
    BY Constants
  <2> HIDE DEF q, x
  <2> QED
    BY <2>1, <2>2, <2>3, <2>4, <2>5, AddKeeps
<1> QED
  BY <1>1, <1>2

LEMMA SplitKeeps ==
    ASSUME Inductive, NEW t \in Threads, Split(t)
    PROVE  Treeish' /\ Touched(t)
<1> DEFINE b == node[t]
           q == Len(nodes) + 1
           v == [V(b) EXCEPT !.splitting = TRUE]
           x == Border(v, {})
<1>1. /\ b \in DOMAIN nodes /\ q \notin DOMAIN nodes
      /\ nodes' \in Seq(Node) /\ DOMAIN nodes' = DOMAIN nodes \cup {q}
      /\ \A n \in DOMAIN nodes : n # b => nodes'[n] = nodes[n]
      /\ nodes'[b] = [nodes[b] EXCEPT !.version = v, !.torn = TRUE]
      /\ nodes'[q] = x
  BY SplitGoes
<1>2. q # NULL
  BY <1>1, LenProperties, Constants
<1>3. x.border /\ x.children = <<>> /\ x.next = NULL /\ x.parent = NULL /\ x.slots = {}
  BY DEF Border
<1>4. IsFiniteSet({}) /\ Cardinality({}) < ORDER
  BY FS_EmptySet, Constants
<1> HIDE DEF q, x, v
<1>5. nodes[b] \in Node
  BY <1>1, NodeIs DEF Inductive
<1>6. \A n \in DOMAIN nodes :
              /\ nodes'[n].border = nodes[n].border /\ nodes'[n].slots = nodes[n].slots
              /\ nodes'[n].next = nodes[n].next /\ nodes'[n].parent = nodes[n].parent
              /\ nodes'[n].seps = nodes[n].seps /\ nodes'[n].children = nodes[n].children
  BY <1>1, <1>5 DEF Node
<1> QED
  BY <1>1, <1>2, <1>3, <1>4, <1>6, AddKeeps

LEMMA InsertToBorderKeeps ==
    ASSUME Inductive, NEW t \in Threads, InsertToBorder(t)
    PROVE  Treeish' /\ Touched(t)
<1> DEFINE b == node[t]
           S == nodes[b].slots
<1>1. /\ b \in DOMAIN nodes /\ key[t] \in Keys /\ key[t] \notin S
      /\ DOMAIN nodes' = DOMAIN nodes
      /\ \A n \in DOMAIN nodes : n # b => nodes'[n] = nodes[n]
      /\ nodes'[b] = [nodes[b] EXCEPT !.slots = S \cup {key[t]}]
      /\ IsFiniteSet(S) /\ Cardinality(S) # ORDER - 1
  BY InsertToBorderGoes
<1>2. nodes[b] \in Node /\ b \in Held(t) /\ nodes[b].border
  BY <1>1, NodeIs DEF Inductive, InsertToBorder, Held, Places, OnBorder
<1>3. IsFiniteSet(S \cup {key[t]}) /\ Cardinality(S \cup {key[t]}) < ORDER
  <2>1. Cardinality(S) < ORDER
    BY <1>1 DEF Inductive, Shape
  <2>2. Cardinality(S) \in Nat /\ Cardinality(S \cup {key[t]}) = Cardinality(S) + 1
        /\ IsFiniteSet(S \cup {key[t]})
    BY <1>1, FS_AddElement, FS_CardinalityType
  <2> QED
    BY <1>1, <2>1, <2>2, Constants
<1> HIDE DEF b
<1>4. ASSUME NEW n \in DOMAIN nodes
      PROVE  /\ nodes'[n].border = nodes[n].border
             /\ nodes'[n].next = nodes[n].next /\ nodes'[n].parent = nodes[n].parent
             /\ nodes'[n].seps = nodes[n].seps /\ nodes'[n].children = nodes[n].children
             /\ n # b => nodes'[n].slots = nodes[n].slots
  BY <1>1, <1>2 DEF Node
<1>5. nodes'[b].slots = S \cup {key[t]}
  BY <1>1, <1>2 DEF Node
<1>6. Touched(t)
  BY <1>2, <1>4 DEF Touched
<1>7. Family'
  BY <1>1, <1>4, FamilyKeeps DEF Inductive, Treeish
<1>8. ASSUME NEW n \in DOMAIN nodes' PROVE Shape(n)'
  <2>1. Shape(n) /\ n \in DOMAIN nodes /\ Kids(n)' = Kids(n)
    BY <1>1, <1>4 DEF Inductive, Kids
  <2>2. nodes[n].next # NULL => nodes[n].next \in DOMAIN nodes
    BY <2>1 DEF Shape
  <2>3. IsFiniteSet(nodes'[n].slots) /\ Cardinality(nodes'[n].slots) < ORDER
    BY <1>3, <1>4, <1>5, <2>1 DEF Shape
  <2>4. ~nodes[n].border => n # b
    BY <1>2
  <2> QED
    BY <1>1, <1>4, <2>1, <2>2, <2>3, <2>4 DEF Shape
<1> QED
  BY <1>6, <1>7, <1>8 DEF Treeish

LEMMA SplitKeysKeeps ==
    ASSUME Inductive, NEW t \in Threads, SplitKeys(t)
    PROVE  Treeish' /\ Touched(t)
<1> DEFINE b == node[t]
           q == sib[t]
           S == nodes[b].slots
           left == LeftOf(S, key[t])
           right == (S \cup {key[t]}) \ left
<1>1. /\ b \in DOMAIN nodes /\ q \in DOMAIN nodes /\ b # q
      /\ key[t] \in Keys /\ key[t] \notin S
      /\ IsFiniteSet(S) /\ Cardinality(S) < ORDER
      /\ DOMAIN nodes' = DOMAIN nodes
      /\ \A n \in DOMAIN nodes : n # b /\ n # q => nodes'[n] = nodes[n]
      /\ nodes'[b] = [nodes[b] EXCEPT !.slots = left, !.torn = FALSE, !.next = q]
      /\ nodes'[q] = [nodes[q] EXCEPT !.slots = right, !.next = nodes[b].next]
  BY SplitKeysGoes
<1>2. /\ nodes[b] \in Node /\ nodes[q] \in Node /\ b \in Held(t) /\ q \in Held(t)
      /\ nodes[b].border /\ nodes[q].border /\ S \subseteq Keys
  BY <1>1, NodeIs DEF Inductive, SplitKeys, Held, Places, OnBorder
<1>3. /\ IsFiniteSet(left) /\ Cardinality(left) < ORDER
      /\ IsFiniteSet(right) /\ Cardinality(right) < ORDER
  <2> HIDE DEF S
  <2>1. left = LeftOf(S, key[t]) /\ right = (S \cup {key[t]}) \ left
    OBVIOUS
  <2> HIDE DEF left, right
  <2> QED
    BY <1>1, <1>2, <2>1, LeftOfIs
<1> HIDE DEF b, q, left, right
<1>4. ASSUME NEW n \in DOMAIN nodes
      PROVE  /\ nodes'[n].border = nodes[n].border
             /\ nodes'[n].parent = nodes[n].parent
             /\ nodes'[n].seps = nodes[n].seps /\ nodes'[n].children = nodes[n].children
             /\ n # b /\ n # q => nodes'[n].slots = nodes[n].slots /\ nodes'[n].next = nodes[n].next
  <2>1. CASE n = b
    BY <1>1, <1>2, <2>1 DEF Node
  <2>2. CASE n = q
    BY <1>1, <1>2, <2>2 DEF Node
  <2>3. CASE n # b /\ n # q
    BY <1>1, <2>3
  <2> QED
    BY <2>1, <2>2, <2>3
<1>5. /\ nodes'[b].slots = left /\ nodes'[b].next = q
      /\ nodes'[q].slots = right /\ nodes'[q].next = nodes[b].next
  BY <1>1, <1>2 DEF Node
<1>6. Touched(t)
  BY <1>2, <1>4 DEF Touched
<1>7. Family'
  BY <1>1, <1>4, FamilyKeeps DEF Inductive, Treeish
<1>8. ASSUME NEW n \in DOMAIN nodes' PROVE Shape(n)'
  <2>1. Shape(n) /\ Shape(b) /\ n \in DOMAIN nodes /\ Kids(n)' = Kids(n)
    BY <1>1, <1>4 DEF Inductive, Kids
  <2>2. /\ nodes'[n].next \in DOMAIN nodes \cup {NULL}
        /\ nodes'[n].next # NULL => nodes[nodes'[n].next].border
    BY <1>1, <1>2, <1>4, <1>5, <2>1 DEF Shape
  <2>3. IsFiniteSet(nodes'[n].slots) /\ Cardinality(nodes'[n].slots) < ORDER
    BY <1>3, <1>4, <1>5, <2>1 DEF Shape
  <2>4. ~nodes[n].border => n # b /\ n # q
    BY <1>2
  <2> QED
    BY <1>1, <1>4, <2>1, <2>2, <2>3, <2>4 DEF Shape
<1> QED
  BY <1>6, <1>7, <1>8 DEF Treeish

LEMMA NewRootKeeps ==
    ASSUME Inductive, NEW t \in Threads, NewRoot(t)
    PROVE  Treeish' /\ Touched(t)
<1> DEFINE b == node[t]
           q == sib[t]
           r == Len(nodes) + 1
           z == Interior([NewVersion EXCEPT !.is_root = TRUE], <<up[t]>>, <<b, q>>)
<1>1. /\ b \in DOMAIN nodes /\ q \in DOMAIN nodes /\ b # q /\ r \notin DOMAIN nodes
      /\ nodes[b].parent = NULL
      /\ nodes' \in Seq(Node) /\ DOMAIN nodes' = DOMAIN nodes \cup {r}
      /\ \A n \in DOMAIN nodes : n # b /\ n # q => nodes'[n] = nodes[n]
      /\ nodes'[b] = [nodes[b] EXCEPT !.parent = r, !.version.is_root = FALSE]
      /\ nodes'[q] = [nodes[q] EXCEPT !.parent = r, !.version.is_root = FALSE]
      /\ nodes'[r] = z
  BY NewRootGoes
<1>2. nodes[q].parent = NULL
  BY RightIs DEF NewRoot, Halfway, Right
<1>3. \A p \in DOMAIN nodes : b \notin Kids(p) /\ q \notin Kids(p)
  BY <1>1, <1>2, NoParent
<1>4. r # NULL /\ NULL \notin DOMAIN nodes
  BY <1>1, LenProperties, NodeIs, Constants DEF Inductive
<1>5. /\ ~z.border /\ z.slots = {} /\ z.next = NULL /\ z.parent = NULL
      /\ z.seps = <<up[t]>> /\ z.children = <<b, q>>
  BY DEF Interior
<1>6. ToSet(<<b, q>>) = {b, q} /\ Len(<<b, q>>) = 2 /\ Len(<<up[t]>>) = 1
      /\ \A i, j \in DOMAIN <<b, q>> : <<b, q>>[i] = <<b, q>>[j] => i = j
  BY <1>1 DEF ToSet
<1>7. nodes[b] \in Node /\ nodes[q] \in Node
  BY <1>1, NodeIs DEF Inductive
<1> HIDE DEF r, b, q, z
<1>8. ASSUME NEW n \in DOMAIN nodes
      PROVE  /\ nodes'[n].border = nodes[n].border /\ nodes'[n].slots = nodes[n].slots
             /\ nodes'[n].next = nodes[n].next
             /\ nodes'[n].seps = nodes[n].seps /\ nodes'[n].children = nodes[n].children
             /\ nodes'[n].parent = IF n \in {b, q} THEN r ELSE nodes[n].parent
             /\ Kids(n)' = Kids(n)
  <2>1. CASE n = b
    BY <1>1, <1>7, <2>1 DEF Node, Kids
  <2>2. CASE n = q
    BY <1>1, <1>7, <2>2 DEF Node, Kids
  <2>3. CASE n # b /\ n # q
    BY <1>1, <2>3 DEF Kids
  <2> QED
    BY <2>1, <2>2, <2>3
<1>9. ToSet(nodes'[r].children) = {b, q}
  BY <1>1, <1>5, <1>6
<1>10. Touched(t)
  BY <1>1, <1>2, <1>4, <1>8 DEF Touched
<1>11. ASSUME NEW n \in DOMAIN nodes' PROVE Shape(n)'
  <2>1. CASE n \in DOMAIN nodes
    <3>1. Shape(n) /\ (nodes[n].next # NULL => nodes[n].next \in DOMAIN nodes)
      BY <2>1 DEF Inductive, Shape
    <3> QED
      BY <1>1, <1>8, <2>1, <3>1 DEF Shape
  <2>2. CASE n = r
    <3>1. IsFiniteSet({}) /\ Cardinality({}) < ORDER /\ 2 <= ORDER /\ 2 = 1 + 1
      BY FS_EmptySet, Constants
    <3> QED
      BY <1>1, <1>5, <1>6, <1>9, <2>2, <3>1 DEF Shape, Kids
  <2> QED
    BY <1>1, <2>1, <2>2
<1>12. Family'
  <2>1. ASSUME NEW p \in DOMAIN nodes', NEW n \in Kids(p)' PROVE nodes'[n].parent = p
    <3>1. CASE p = r
      BY <1>1, <1>8, <1>9, <2>1, <3>1 DEF Kids
    <3>2. CASE p \in DOMAIN nodes
      <4>1. n \in Kids(p) /\ n \in DOMAIN nodes /\ n \notin {b, q}
        BY <1>3, <1>8, <2>1, <3>2 DEF Inductive, Shape
      <4> QED
        BY <1>8, <3>2, <4>1 DEF Inductive, Family
    <3> QED
      BY <1>1, <3>1, <3>2
  <2>2. ASSUME NEW n \in DOMAIN nodes', nodes'[n].parent # NULL
        PROVE  n \in ToSet(nodes'[nodes'[n].parent].children)
    <3>1. CASE n \in {b, q}
      BY <1>1, <1>8, <1>9, <3>1
    <3>2. CASE n \notin {b, q}
      <4>1. n \in DOMAIN nodes /\ nodes'[n].parent = nodes[n].parent
        BY <1>1, <1>5, <1>8, <2>2, <3>2
      <4>2. nodes[n].parent \in DOMAIN nodes /\ n \in Kids(nodes[n].parent)
        BY <2>2, <4>1 DEF Inductive, Family, Shape
      <4> QED
        BY <1>8, <4>1, <4>2 DEF Kids
    <3> QED
      BY <3>1, <3>2
  <2>3. ASSUME NEW p \in DOMAIN nodes'
        PROVE  \A i, j \in DOMAIN nodes'[p].children :
                  nodes'[p].children[i] = nodes'[p].children[j] => i = j
    <3>1. CASE p = r
      BY <1>1, <1>5, <1>6, <3>1
    <3>2. CASE p \in DOMAIN nodes
      BY <1>8, <3>2 DEF Inductive, Family
    <3> QED
      BY <1>1, <3>1, <3>2
  <2> QED
    BY <2>1, <2>2, <2>3 DEF Family, Kids
<1> QED
  BY <1>10, <1>11, <1>12 DEF Treeish

LEMMA IntoParentKeeps ==
    ASSUME Inductive, NEW t \in Threads, IntoParent(t)
    PROVE  Treeish' /\ Touched(t) /\ nodes'[sib[t]].parent # NULL
<1> DEFINE b == node[t]
           q == sib[t]
           p == par[t]
           i == ChildIndex(p, b)
           s == InsertAt(nodes[p].seps, i, up[t])
           c == InsertAt(nodes[p].children, i + 1, q)
<1>1. /\ Len(nodes[p].seps) < ORDER - 1
      /\ nodes' \in Seq(Node) /\ DOMAIN nodes' = DOMAIN nodes
      /\ \A n \in DOMAIN nodes : n # p /\ n # q => nodes'[n] = nodes[n]
      /\ nodes'[q] = [nodes[q] EXCEPT !.parent = p]
      /\ nodes'[p] = [nodes[p] EXCEPT !.torn = FALSE, !.seps = s, !.children = c]
  BY IntoParentGoes
<1>2. pc[t] = "intoParent"
  BY DEF IntoParent
<1>3. /\ b \in DOMAIN nodes /\ q \in DOMAIN nodes /\ p \in DOMAIN nodes
      /\ p # q /\ up[t] \in Keys
      /\ nodes[b].parent = p /\ nodes[q].parent = NULL /\ b \in Kids(p) /\ b # q
      /\ ~nodes[p].border
      /\ nodes[p].seps \in Seq(Keys) /\ nodes[p].children \in Seq(Nat)
      /\ Len(nodes[p].children) = Len(nodes[p].seps) + 1
      /\ i \in 1 .. Len(nodes[p].children)
      /\ Len(nodes[p].seps) \in Nat
  BY <1>2, HasParent
<1>4. /\ nodes[p] \in Node /\ nodes[q] \in Node /\ p \in Nat /\ q \in Nat
      /\ NULL \notin DOMAIN nodes
  BY <1>3, NodeIs, Constants DEF Inductive
<1>5. p \in Held(t) /\ q \in Held(t)
  BY <1>2 DEF Held
<1>6. \A n \in DOMAIN nodes : q \notin Kids(n)
  BY <1>3, NoParent
<1>7. /\ Len(s) = Len(nodes[p].seps) + 1 /\ Len(c) = Len(s) + 1 /\ Len(c) <= ORDER
      /\ ToSet(c) = Kids(p) \cup {q}
      /\ \A j, m \in DOMAIN c : c[j] = c[m] => j = m
  <2> DEFINE a == nodes[p].children
             k == i + 1
  <2>1. a \in Seq(Nat) /\ k \in 1 .. Len(a) + 1 /\ ToSet(a) = Kids(p) /\ IsInjective(a)
    BY <1>3 DEF Kids, Inductive, Family, IsInjective
  <2>2. i \in 1 .. Len(nodes[p].seps) + 1
    BY <1>3
  <2>3. Len(s) = Len(nodes[p].seps) + 1
    <3> HIDE DEF i, p
    <3> QED
      BY <1>3, <2>2, InsertAtIs
  <2>4. q \notin ToSet(a)
    BY <1>3, <1>6, <2>1
  <2>5. c = InsertAt(a, k, q)
    OBVIOUS
  <2>6. Len(a) = Len(nodes[p].seps) + 1
    BY <1>3
  <2> HIDE DEF a, k, s, c, q, p, i
  <2>7. Len(c) = Len(a) + 1 /\ ToSet(c) = ToSet(a) \cup {q}
    BY <1>4, <2>1, <2>5, InsertAtIs
  <2>8. IsInjective(c)
    BY <1>4, <2>1, <2>4, <2>5, InsertAtInjective
  <2>9. Len(c) = Len(s) + 1 /\ Len(c) <= ORDER
    BY <1>1, <1>3, <2>3, <2>6, <2>7, Constants
  <2> QED
    BY <2>1, <2>3, <2>7, <2>8, <2>9 DEF IsInjective
<1> HIDE DEF b, p, q, i, s, c
<1>8. ASSUME NEW n \in DOMAIN nodes
      PROVE  /\ nodes'[n].border = nodes[n].border /\ nodes'[n].slots = nodes[n].slots
             /\ nodes'[n].next = nodes[n].next
             /\ n # p => nodes'[n].seps = nodes[n].seps /\ nodes'[n].children = nodes[n].children
                         /\ Kids(n)' = Kids(n)
             /\ nodes'[n].parent = IF n = q THEN p ELSE nodes[n].parent
  <2>1. CASE n = p
    BY <1>1, <1>3, <1>4, <2>1 DEF Node
  <2>2. CASE n = q
    BY <1>1, <1>3, <1>4, <2>2 DEF Node, Kids
  <2>3. CASE n # p /\ n # q
    BY <1>1, <2>3 DEF Kids
  <2> QED
    BY <2>1, <2>2, <2>3
<1>9. /\ nodes'[p].seps = s /\ nodes'[p].children = c 
      /\ ToSet(nodes'[p].children) = Kids(p) \cup {q}
  BY <1>1, <1>4, <1>7 DEF Node
<1>10. Touched(t)
  BY <1>3, <1>4, <1>5, <1>8 DEF Touched
<1>11. ASSUME NEW n \in DOMAIN nodes' PROVE Shape(n)'
  <2>1. Shape(n) /\ n \in DOMAIN nodes /\ (nodes[n].next # NULL => nodes[n].next \in DOMAIN nodes)
        /\ nodes'[n].parent \in DOMAIN nodes' \cup {NULL}
    BY <1>1, <1>3, <1>8 DEF Inductive, Shape
  <2>2. CASE n = p
    <3>1. Kids(n)' \subseteq DOMAIN nodes'
      BY <1>1, <1>3, <1>9, <2>1, <2>2 DEF Shape, Kids
    <3>2. /\ ~nodes'[n].border /\ nodes'[n].slots = nodes[n].slots /\ nodes[n].slots = {}
          /\ nodes'[n].next = nodes[n].next
          /\ nodes[n].next \in DOMAIN nodes' \cup {NULL}
          /\ IsFiniteSet(nodes[n].slots) /\ Cardinality(nodes[n].slots) < ORDER
          /\ nodes[n].next # NULL => nodes'[nodes[n].next].border
      BY <1>1, <1>3, <1>8, <2>1, <2>2 DEF Shape
    <3>3. Len(nodes'[n].children) = Len(nodes'[n].seps) + 1 /\ Len(nodes'[n].children) <= ORDER
      BY <1>7, <1>9, <2>2
    <3> QED
      BY <2>1, <3>1, <3>2, <3>3 DEF Shape
  <2>3. CASE n # p
    BY <1>1, <1>8, <2>1, <2>3 DEF Shape
  <2> QED
    BY <2>2, <2>3
<1>12. Family'
  <2>1. ASSUME NEW m \in DOMAIN nodes', NEW n \in Kids(m)' PROVE nodes'[n].parent = m
    <3>1. CASE m = p
      <4>1. n = q \/ (n \in Kids(p) /\ n \in DOMAIN nodes)
        BY <1>3, <1>9, <2>1, <3>1 DEF Inductive, Shape, Kids
      <4> QED
        BY <1>3, <1>8, <3>1, <4>1 DEF Inductive, Family
    <3>2. CASE m # p
      <4>1. n \in Kids(m) /\ n \in DOMAIN nodes /\ n # q
        BY <1>1, <1>6, <1>8, <2>1, <3>2 DEF Inductive, Shape
      <4> QED
        BY <1>1, <1>8, <4>1 DEF Inductive, Family
    <3> QED
      BY <3>1, <3>2
  <2>2. ASSUME NEW n \in DOMAIN nodes', nodes'[n].parent # NULL
        PROVE  n \in ToSet(nodes'[nodes'[n].parent].children)
    <3>1. CASE n = q
      BY <1>3, <1>8, <1>9, <3>1
    <3>2. CASE n # q
      <4>1. n \in DOMAIN nodes /\ nodes'[n].parent = nodes[n].parent
        BY <1>1, <1>8, <3>2
      <4>2. nodes[n].parent \in DOMAIN nodes /\ n \in Kids(nodes[n].parent)
        BY <2>2, <4>1 DEF Inductive, Family, Shape
      <4> QED
        BY <1>8, <1>9, <4>1, <4>2 DEF Kids
    <3> QED
      BY <3>1, <3>2
  <2>3. ASSUME NEW m \in DOMAIN nodes'
        PROVE  \A j, k \in DOMAIN nodes'[m].children :
                  nodes'[m].children[j] = nodes'[m].children[k] => j = k
    <3>1. CASE m = p
      BY <1>7, <1>9, <3>1
    <3>2. CASE m # p
      BY <1>1, <1>8, <3>2 DEF Inductive, Family
    <3> QED
      BY <3>1, <3>2
  <2> QED
    BY <2>1, <2>2, <2>3 DEF Family, Kids
<1>13. nodes'[q].parent # NULL
  BY <1>3, <1>4, <1>8
<1> QED
  BY <1>10, <1>11, <1>12, <1>13 DEF Treeish, q

\* The children of a node that is split are shared out.
LEMMA SharesAre ==
    ASSUME Inductive, NEW t \in Threads, pc[t] = "fillParent"
    PROVE  /\ IsInjective(Shared(t)) /\ Moved(t) \cap Stay(t) = {}
           /\ Len(SubSeq(Seps(t), 1, Middle - 1)) = Middle - 1
           /\ Len(SubSeq(Seps(t), Middle + 1, ORDER)) = ORDER - Middle
           /\ Len(SubSeq(Shared(t), 1, Middle)) = Middle
           /\ Len(SubSeq(Shared(t), Middle + 1, ORDER + 1)) = ORDER + 1 - Middle
           /\ ToSet(SubSeq(Shared(t), 1, Middle)) = Stay(t)
           /\ ToSet(SubSeq(Shared(t), Middle + 1, ORDER + 1)) = Moved(t)
           /\ IsInjective(SubSeq(Shared(t), 1, Middle))
           /\ IsInjective(SubSeq(Shared(t), Middle + 1, ORDER + 1))
<1> DEFINE b == node[t]
           q == sib[t]
           p == par[t]
           i == ChildIndex(p, b)
           a == nodes[p].children
           k == i + 1
<1>1. /\ Middle \in Nat /\ 2 <= Middle /\ Middle <= ORDER - 1 /\ ORDER \in Nat
      /\ Seps(t) \in Seq(Keys) /\ Len(Seps(t)) = ORDER
      /\ Shared(t) \in Seq(Nat) /\ Len(Shared(t)) = ORDER + 1
  BY SharedIs, Constants
<1>2. /\ q \in DOMAIN nodes /\ p \in DOMAIN nodes /\ nodes[q].parent = NULL
      /\ a \in Seq(Nat) /\ i \in 1 .. Len(a)
  BY HasParent
<1>3. q \in Nat /\ q \notin Kids(p) /\ IsInjective(a)
  BY <1>2, NoParent, NodeIs DEF Inductive, Family, IsInjective
<1>4. k \in 1 .. Len(a) + 1 /\ q \notin ToSet(a)
  BY <1>2, <1>3 DEF Kids
<1>5. Shared(t) = InsertAt(a, k, q)
  BY DEF Shared
<1> HIDE DEF a, k, q
<1>6. IsInjective(Shared(t))
  BY <1>2, <1>3, <1>4, <1>5, InsertAtInjective
<1>7. Moved(t) \cap Stay(t) = {}
  <2>1. DOMAIN Shared(t) = 1 .. ORDER + 1
    BY <1>1, LenProperties
  <2>2. ASSUME NEW j \in Middle + 1 .. ORDER + 1, NEW m \in 1 .. Middle
        PROVE  Shared(t)[j] # Shared(t)[m]
    BY <1>1, <1>6, <2>1 DEF IsInjective
  <2> QED
    BY <2>2 DEF Moved, Stay
<1>8. /\ Len(SubSeq(Seps(t), 1, Middle - 1)) = Middle - 1
      /\ Len(SubSeq(Seps(t), Middle + 1, ORDER)) = ORDER - Middle
  <2>1. /\ 1 \in Nat /\ Middle - 1 \in Nat /\ 1 <= Middle - 1 /\ Middle - 1 <= Len(Seps(t))
        /\ Middle + 1 \in Nat /\ ORDER \in Nat /\ 1 <= Middle + 1 /\ Middle + 1 <= ORDER
        /\ ORDER <= Len(Seps(t)) /\ 1 <= 1
    BY <1>1
  <2>2. Len(SubSeq(Seps(t), 1, Middle - 1)) = (Middle - 1) - 1 + 1
    BY <1>1, <2>1, SubSeqIs
  <2>3. Len(SubSeq(Seps(t), Middle + 1, ORDER)) = ORDER - (Middle + 1) + 1
    BY <1>1, <2>1, SubSeqIs
  <2> QED
    BY <1>1, <2>2, <2>3
<1>9. /\ Len(SubSeq(Shared(t), 1, Middle)) = Middle
      /\ Len(SubSeq(Shared(t), Middle + 1, ORDER + 1)) = ORDER + 1 - Middle
      /\ ToSet(SubSeq(Shared(t), 1, Middle)) = Stay(t)
      /\ ToSet(SubSeq(Shared(t), Middle + 1, ORDER + 1)) = Moved(t)
      /\ IsInjective(SubSeq(Shared(t), 1, Middle))
      /\ IsInjective(SubSeq(Shared(t), Middle + 1, ORDER + 1))
  <2>1. /\ 1 \in Nat /\ 1 <= 1 /\ 1 <= Middle /\ Middle <= Len(Shared(t))
        /\ Middle + 1 \in Nat /\ ORDER + 1 \in Nat /\ 1 <= Middle + 1 /\ Middle + 1 <= ORDER + 1
        /\ ORDER + 1 <= Len(Shared(t))
    BY <1>1
  <2>2. /\ Len(SubSeq(Shared(t), 1, Middle)) = Middle - 1 + 1
        /\ ToSet(SubSeq(Shared(t), 1, Middle)) = {Shared(t)[j] : j \in 1 .. Middle}
        /\ IsInjective(SubSeq(Shared(t), 1, Middle))
    BY <1>1, <1>6, <2>1, SubSeqIs
  <2>3. /\ Len(SubSeq(Shared(t), Middle + 1, ORDER + 1)) = ORDER + 1 - (Middle + 1) + 1
        /\ ToSet(SubSeq(Shared(t), Middle + 1, ORDER + 1)) = {Shared(t)[j] : j \in Middle + 1 .. ORDER + 1}
        /\ IsInjective(SubSeq(Shared(t), Middle + 1, ORDER + 1))
    BY <1>1, <1>6, <2>1, SubSeqIs
  <2> QED
    BY <1>1, <2>2, <2>3 DEF Stay, Moved
<1> QED
  BY <1>6, <1>7, <1>8, <1>9

LEMMA FillParentKeeps ==
    ASSUME Inductive, NEW t \in Threads, FillParent(t)
    PROVE  Treeish' /\ Touched(t) /\ nodes'[sib[t]].parent # NULL
<1> DEFINE q == sib[t]
           p == par[t]
           r == Len(nodes) + 1
           Placed(n) == IF n \in Moved(t) THEN r ELSE IF n \in Stay(t) THEN p
                        ELSE nodes[n].parent
           s == SubSeq(Seps(t), 1, Middle - 1)
           c == SubSeq(Shared(t), 1, Middle)
           s1 == SubSeq(Seps(t), Middle + 1, ORDER)
           c1 == SubSeq(Shared(t), Middle + 1, ORDER + 1)
           z == Interior(V(p), s1, c1)
<1>1. /\ p \in DOMAIN nodes /\ r \notin DOMAIN nodes
      /\ nodes' \in Seq(Node) /\ DOMAIN nodes' = DOMAIN nodes \cup {r}
      /\ \A n \in DOMAIN nodes : n # p => nodes'[n] = [nodes[n] EXCEPT !.parent = Placed(n)]
      /\ nodes'[p] = [nodes[p] EXCEPT !.parent = Placed(p), !.seps = s, !.children = c,
                                      !.torn = FALSE]
      /\ nodes'[r] = z
  BY FillParentGoes
<1>2. pc[t] = "fillParent"
  BY DEF FillParent
<1>3. /\ q \in DOMAIN nodes /\ p # q /\ nodes[q].parent = NULL /\ ~nodes[p].border
  BY <1>2, HasParent
<1>4. r # NULL /\ NULL \notin DOMAIN nodes
  BY <1>1, LenProperties, NodeIs, Constants DEF Inductive
<1>5. p \in Held(t) /\ q \in Held(t)
  BY <1>2 DEF Held
<1>6. \A n \in DOMAIN nodes : q \notin Kids(n)
  BY <1>3, NoParent
<1>7. /\ Moved(t) \cup Stay(t) = Kids(p) \cup {q} /\ Moved(t) \cap Stay(t) = {}
      /\ Kids(p) \cup {q} \subseteq DOMAIN nodes
      /\ Len(c) = Len(s) + 1 /\ Len(c) <= ORDER /\ Len(c1) = Len(s1) + 1 /\ Len(c1) <= ORDER
      /\ ToSet(c) = Stay(t) /\ ToSet(c1) = Moved(t)
      /\ IsInjective(c) /\ IsInjective(c1)
  <2>1. /\ Len(s) = Middle - 1 /\ Len(s1) = ORDER - Middle
        /\ Len(c) = Middle /\ Len(c1) = ORDER + 1 - Middle
        /\ ToSet(c) = Stay(t) /\ ToSet(c1) = Moved(t)
        /\ IsInjective(c) /\ IsInjective(c1) /\ Moved(t) \cap Stay(t) = {}
    BY <1>2, SharesAre
  <2>2. /\ Middle \in Nat /\ 2 <= Middle /\ Middle <= ORDER - 1 /\ ORDER \in Nat
        /\ Moved(t) \cup Stay(t) = Kids(p) \cup {q} /\ Kids(p) \cup {q} \subseteq DOMAIN nodes
    BY <1>2, SharedIs, Constants
  <2> HIDE DEF p, q, s, c, s1, c1
  <2>3. Len(c) = Len(s) + 1 /\ Len(c) <= ORDER /\ Len(c1) = Len(s1) + 1 /\ Len(c1) <= ORDER
    BY <2>1, <2>2
  <2> QED
    BY <2>1, <2>2, <2>3
<1>8. /\ ~z.border /\ z.slots = {} /\ z.next = NULL /\ z.parent = NULL
      /\ z.seps = s1 /\ z.children = c1
  BY DEF Interior
<1>9. \A n \in DOMAIN nodes : nodes[n] \in Node
  BY NodeIs DEF Inductive
<1> HIDE DEF p, q, r, s, c, s1, c1, z
<1>10. ASSUME NEW n \in DOMAIN nodes
       PROVE  /\ nodes'[n].border = nodes[n].border /\ nodes'[n].slots = nodes[n].slots
              /\ nodes'[n].next = nodes[n].next
              /\ n # p => nodes'[n].seps = nodes[n].seps /\ nodes'[n].children = nodes[n].children
              /\ nodes'[n].parent = Placed(n)
  <2> HIDE DEF Placed
  <2>1. CASE n = p
    BY <1>1, <1>9, <2>1 DEF Node
  <2>2. CASE n # p
    BY <1>1, <1>9, <2>2 DEF Node
  <2> QED
    BY <2>1, <2>2
<1>11. /\ nodes'[p].seps = s /\ nodes'[p].children = c
       /\ nodes'[r].seps = s1 /\ nodes'[r].children = c1
       /\ ToSet(nodes'[p].children) = Stay(t) /\ ToSet(nodes'[r].children) = Moved(t)
  <2> HIDE DEF Placed
  <2>1. nodes'[p].seps = s /\ nodes'[p].children = c
    BY <1>1, <1>9 DEF Node
  <2> QED
    BY <1>1, <1>7, <1>8, <2>1
<1>12. ASSUME NEW n \in DOMAIN nodes
       PROVE  \/ n \in Moved(t) /\ n \in Kids(p) \cup {q} /\ nodes'[n].parent = r
              \/ n \in Stay(t) /\ n \in Kids(p) \cup {q} /\ nodes'[n].parent = p
              \/ n \notin Kids(p) \cup {q} /\ nodes'[n].parent = nodes[n].parent
  BY <1>7, <1>10
<1>13. ASSUME NEW n \in Kids(p) PROVE nodes[n].parent = p
  BY <1>1 DEF Inductive, Family
<1>14. Touched(t)
  <2>1. ASSUME NEW n \in DOMAIN nodes, nodes'[n].parent # nodes[n].parent
        PROVE  nodes'[n].parent # NULL /\ (nodes[n].parent = NULL \/ nodes[n].parent \in Held(t))
    BY <1>1, <1>3, <1>4, <1>5, <1>12, <1>13, <2>1
  <2> QED
    BY <1>5, <1>10, <2>1 DEF Touched
<1>15. ASSUME NEW n \in DOMAIN nodes' PROVE Shape(n)'
  <2>1. CASE n = r
    <3>1. IsFiniteSet({}) /\ Cardinality({}) < ORDER
      BY FS_EmptySet, Constants
    <3>2. Kids(n)' \subseteq DOMAIN nodes'
      BY <1>1, <1>7, <1>11, <2>1 DEF Kids
    <3> QED
      BY <1>1, <1>7, <1>8, <1>11, <2>1, <3>1, <3>2 DEF Shape
  <2>2. CASE n \in DOMAIN nodes
    <3>1. /\ Shape(n) /\ (nodes[n].next # NULL => nodes[n].next \in DOMAIN nodes)
          /\ nodes'[n].parent \in DOMAIN nodes' \cup {NULL}
      BY <1>1, <1>12, <2>2 DEF Inductive, Shape
    <3>2. CASE n # p
      <4>1. Kids(n)' = Kids(n)
        BY <1>10, <2>2, <3>2 DEF Kids
      <4> QED
        BY <1>1, <1>10, <2>2, <3>1, <3>2, <4>1 DEF Shape
    <3>3. CASE n = p
      <4>1. Kids(n)' \subseteq DOMAIN nodes'
        BY <1>1, <1>7, <1>11, <3>3 DEF Kids
      <4>2. /\ ~nodes'[n].border /\ nodes'[n].slots = nodes[n].slots /\ nodes[n].slots = {}
            /\ nodes'[n].next = nodes[n].next
            /\ nodes[n].next \in DOMAIN nodes' \cup {NULL}
            /\ IsFiniteSet(nodes[n].slots) /\ Cardinality(nodes[n].slots) < ORDER
            /\ nodes[n].next # NULL => nodes'[nodes[n].next].border
        BY <1>1, <1>3, <1>10, <3>1, <3>3 DEF Shape
      <4>3. Len(nodes'[n].children) = Len(nodes'[n].seps) + 1 /\ Len(nodes'[n].children) <= ORDER
        BY <1>7, <1>11, <3>3
      <4> QED
        BY <3>1, <4>1, <4>2, <4>3 DEF Shape
    <3> QED
      BY <3>2, <3>3
  <2> QED
    BY <1>1, <2>1, <2>2
<1>16. Family'
  <2>1. ASSUME NEW m \in DOMAIN nodes', NEW n \in Kids(m)' PROVE nodes'[n].parent = m
    <3>1. CASE m = p
      <4>1. n \in Stay(t) /\ n \in DOMAIN nodes /\ n \in Kids(p) \cup {q} /\ n \notin Moved(t)
        BY <1>7, <1>11, <2>1, <3>1 DEF Kids
      <4> QED
        BY <1>12, <3>1, <4>1
    <3>2. CASE m = r
      <4>1. n \in Moved(t) /\ n \in DOMAIN nodes /\ n \in Kids(p) \cup {q} /\ n \notin Stay(t)
        BY <1>7, <1>11, <2>1, <3>2 DEF Kids
      <4> QED
        BY <1>12, <3>2, <4>1
    <3>3. CASE m \in DOMAIN nodes /\ m # p
      <4>1. n \in Kids(m) /\ n \in DOMAIN nodes /\ n # q
        BY <1>6, <1>10, <2>1, <3>3 DEF Kids, Inductive, Shape
      <4>2. nodes[n].parent = m
        BY <3>3, <4>1 DEF Inductive, Family
      <4>3. n \notin Kids(p)
        BY <1>13, <3>3, <4>2
      <4> QED
        BY <1>12, <4>1, <4>2, <4>3
    <3> QED
      BY <1>1, <3>1, <3>2, <3>3
  <2>2. ASSUME NEW n \in DOMAIN nodes', nodes'[n].parent # NULL
        PROVE  n \in ToSet(nodes'[nodes'[n].parent].children)
    <3>1. n \in DOMAIN nodes
      BY <1>1, <1>8, <2>2
    <3>2. CASE n \in Moved(t) \/ n \in Stay(t)
      <4>1. \/ n \in Moved(t) /\ nodes'[n].parent = r
            \/ n \in Stay(t) /\ nodes'[n].parent = p
        BY <1>7, <1>12, <3>1, <3>2
      <4> QED
        BY <1>11, <4>1
    <3>3. CASE n \notin Moved(t) /\ n \notin Stay(t)
      <4>1. n \notin Kids(p) /\ nodes'[n].parent = nodes[n].parent
        BY <1>7, <1>12, <3>1, <3>3
      <4>2. nodes[n].parent \in DOMAIN nodes /\ n \in Kids(nodes[n].parent)
        BY <2>2, <3>1, <4>1 DEF Inductive, Family, Shape
      <4> QED
        BY <1>10, <4>1, <4>2 DEF Kids
    <3> QED
      BY <3>2, <3>3
  <2>3. ASSUME NEW m \in DOMAIN nodes'
        PROVE  \A j, k \in DOMAIN nodes'[m].children :
                  nodes'[m].children[j] = nodes'[m].children[k] => j = k
    <3>1. CASE m = p
      BY <1>7, <1>11, <3>1 DEF IsInjective
    <3>2. CASE m = r
      BY <1>7, <1>11, <3>2 DEF IsInjective
    <3>3. CASE m \in DOMAIN nodes /\ m # p
      BY <1>10, <3>3 DEF Inductive, Family
    <3> QED
      BY <1>1, <3>1, <3>2, <3>3
  <2> QED
    BY <2>1, <2>2, <2>3 DEF Family, Kids
<1>17. nodes'[q].parent # NULL
  BY <1>1, <1>3, <1>4, <1>12
<1> QED
  BY <1>14, <1>15, <1>16, <1>17 DEF Treeish, q

LEMMA TreeKeeps ==
    ASSUME Inductive, NEW t \in Threads, Step(t)
    PROVE  Treeish' /\ Touched(t)
<1>1. CASE QuietStep(t)
  <2>1. DOMAIN nodes' = DOMAIN nodes /\ \A n \in DOMAIN nodes : Alike(nodes'[n], nodes[n])
    BY <1>1, QuietStepGoes DEF Alike
  <2> QED
    BY <2>1, AlikeKeeps DEF Inductive, Treeish
<1>2. CASE MarkStep(t)
  BY <1>2, MarkStepGoes, AlikeKeeps DEF Inductive, Treeish
<1>3. CASE TreeStep(t)
  BY <1>3, CasRootKeeps, InsertToBorderKeeps, SplitKeeps, SplitKeysKeeps, NewRootKeeps,
     IntoParentKeeps, FillParentKeeps DEF TreeStep
<1> QED
  BY <1>1, <1>2, <1>3, StepIs

\* A thread that waits for a marked node waits for its holder.
LEMMA StableIs ==
    ASSUME Inductive, NEW n \in DOMAIN nodes, Stable(V(n))
    PROVE  ~Unlinked(n) /\ (V(n).is_root \/ nodes[n].parent \in DOMAIN nodes)
<1>1. ASSUME NEW u \in Threads, pc[u] \in Halfway, n = Right(u) PROVE FALSE
  <2>1. n \in Splitting(u)
    BY <1>1 DEF Right, Splitting, Halfway
  <2>2. V(n).splitting
    BY <2>1, OwnMarks
  <2> QED
    BY <2>2 DEF Stable
<1>2. ~Unlinked(n)
  BY <1>1 DEF Unlinked
<1> QED
  BY <1>2 DEF Inductive, Rooted, Shape

\* What other threads know stays true.
LEMMA OthersKeep ==
    ASSUME Inductive, NEW t \in Threads, Step(t), NEW u \in Threads, u # t
    PROVE  Places(u)' /\ Apart(u)' /\ Splits(u)'
<1>1. /\ pc'[u] = pc[u] /\ key'[u] = key[u] /\ cur'[u] = cur[u] /\ node'[u] = node[u]
      /\ child'[u] = child[u] /\ sib'[u] = sib[u] /\ par'[u] = par[u] /\ par1'[u] = par1[u]
      /\ up'[u] = up[u]
  BY OthersSame DEF Inductive, Local
<1>2. /\ DOMAIN nodes \subseteq DOMAIN nodes' /\ Touched(t)
      /\ \A n \in DOMAIN nodes : nodes'[n].border = nodes[n].border
  BY NodesGo, TreeKeeps DEF Touched
<1>3. Places(u) /\ Apart(u) /\ Splits(u)
  BY DEF Inductive
<1>4. Places(u)'
  BY <1>1, <1>2, <1>3 DEF Places, WithNode, OnBorder, Halfway, WithSib, Finding
<1>5. Apart(u)'
  BY <1>1, <1>3 DEF Apart
<1>6. Held(u) \subseteq DOMAIN nodes /\ Held(u) \cap Held(t) = {} /\ NULL \notin DOMAIN nodes
  BY OwnMarks, NodeIs, Constants DEF Inductive, LocksHeld
<1>7. Splits(u)'
  <2>1. ASSUME pc[u] = "splitKeys"
        PROVE  key[u] \notin nodes'[node[u]].slots /\ nodes'[node[u]].slots # {}
    <3>1. node[u] \in Held(u)
      BY <2>1 DEF Held
    <3> QED
      BY <1>2, <1>3, <1>6, <2>1, <3>1 DEF Touched, Splits
  <2>2. ASSUME pc[u] \in {"shiftParent", "intoParent", "splitParent", "tearParent", "fillParent"}
        PROVE  /\ nodes'[node[u]].parent = par[u]
               /\ nodes'[par[u]].seps = nodes[par[u]].seps
    <3>1. par[u] \in Held(u) /\ node[u] \in DOMAIN nodes
      BY <1>3, <2>2 DEF Held, Places, WithNode, Halfway
    <3> QED
      BY <1>2, <1>3, <1>6, <2>2, <3>1 DEF Touched, Splits
  <2>3. ASSUME NEW n \in DOMAIN nodes, nodes[n].parent # NULL PROVE nodes'[n].parent # NULL
    BY <1>2, <2>3 DEF Touched
  <2>4. ASSUME pc[u] \in {"leaveRoot", "leaveNode"} PROVE nodes'[node[u]].parent # NULL
    BY <1>3, <2>3, <2>4 DEF Places, WithNode, Splits
  <2>5. ASSUME pc[u] \in {"leaveRoot", "leaveSibling", "leaveNode", "leaveNode1"}
        PROVE  nodes'[sib[u]].parent # NULL
    BY <1>3, <2>3, <2>5 DEF Places, WithSib, Splits
  <2> QED
    BY <1>1, <1>3, <2>1, <2>2, <2>4, <2>5 DEF Splits
<1> QED
  BY <1>4, <1>5, <1>7

LEMMA PlacesStep ==
    ASSUME Inductive, NEW t \in Threads, Step(t)
    PROVE  Places(t)' /\ Apart(t)'
<1>0. /\ pc \in [Threads -> PCs]
      /\ Places(t) /\ Apart(t)
      /\ cur \in [Threads -> DOMAIN nodes \cup {NULL}]
      /\ node \in [Threads -> DOMAIN nodes \cup {NULL}]
      /\ child \in [Threads -> DOMAIN nodes \cup {NULL}]
      /\ sib \in [Threads -> DOMAIN nodes \cup {NULL}]
      /\ par \in [Threads -> DOMAIN nodes \cup {NULL}]
      /\ par1 \in [Threads -> DOMAIN nodes \cup {NULL}]
      /\ key \in [Threads -> Keys \cup {0}] /\ up \in [Threads -> Keys \cup {0}]
  BY DEF Inductive, Typed
<1>1. /\ DOMAIN nodes \subseteq DOMAIN nodes'
      /\ \A n \in DOMAIN nodes : nodes'[n].border = nodes[n].border
  BY NodesGo, TreeKeeps DEF Touched
<1>2. ASSUME NEW n \in DOMAIN nodes
      PROVE  nodes[n].next # NULL => nodes[n].next \in DOMAIN nodes /\ nodes[nodes[n].next].border
  BY DEF Inductive, Shape
<1> USE <1>0, <1>1 DEF Goto, Return, Places, Apart, loc, call, WithNode, OnBorder, Halfway, WithSib,
                       WithPar, Finding, Getting
<1>3. CASE Call(t)
  <2>1. Head(todo[t]) \in Calls
    <3>1. todo[t] \in Seq(Calls) /\ todo[t] # <<>>
      BY <1>3 DEF Call, Inductive, Typed
    <3> QED
      BY <3>1, HeadTailProperties
  <2>2. Head(todo[t])[2] \in Keys
    BY <2>1 DEF Calls
  <2> QED
    BY <1>3, <2>2 DEF Call
<1>4. CASE LoadRoot(t)
  <2>1. root \in DOMAIN nodes \cup {NULL}
    BY DEF Inductive, Typed
  <2> QED
    BY <1>4, <2>1 DEF LoadRoot
<1>5. CASE CasRoot(t)
  BY <1>5 DEF CasRoot
<1>6. CASE FindRoot(t)
  <2>1. V(cur[t]).is_root \/ nodes[cur[t]].parent \in DOMAIN nodes
    BY <1>6, StableIs DEF FindRoot
  <2> QED
    BY <1>6, <2>1 DEF FindRoot
<1>7. CASE AtBorder(t)
  BY <1>7 DEF AtBorder
<1>8. CASE Descend(t)
  <2>1. node[t] \in DOMAIN nodes /\ ~nodes[node[t]].border /\ key[t] \in Keys
    BY <1>8 DEF Descend
  <2>2. findChild(node[t], key[t]) \in Kids(node[t])
    BY <2>1, findChildIs, Constants DEF Inductive
  <2>3. Children(node[t], key[t]) \subseteq DOMAIN nodes \cup {NULL}
    BY <2>1, <2>2, ChildrenAre DEF Inductive, Shape
  <2> QED
    BY <1>8, <2>3 DEF Descend
<1>9. CASE ChildVersion(t)
  BY <1>9 DEF ChildVersion
<1>10. CASE Check(t)
  BY <1>10 DEF Check
<1>11. CASE Revalidate(t)
  BY <1>11 DEF Revalidate
<1>12. CASE LockBorder(t)
  BY <1>12 DEF LockBorder
<1>13. CASE AlreadyExists(t)
  BY <1>13 DEF AlreadyExists
<1>14. CASE InsertToBorder(t)
  BY <1>14 DEF InsertToBorder
<1>15. CASE Unlock(t)
  BY <1>15 DEF Unlock
<1>16. CASE Split(t)
  <2> DEFINE q == Len(nodes) + 1
  <2>0. /\ q \notin DOMAIN nodes /\ sib'[t] = q /\ q \in DOMAIN nodes'
        /\ nodes'[q] = Border([V(node[t]) EXCEPT !.splitting = TRUE], {})
    BY <1>16, SplitGoes, Zenon
  <2>1. q \notin DOMAIN nodes /\ sib'[t] = q /\ q \in DOMAIN nodes' /\ nodes'[q].border
    BY <2>0 DEF Border
  <2> HIDE DEF q
  <2> QED
    BY <1>16, <2>1 DEF Split
<1>17. CASE SplitKeys(t)
  <2>1. up'[t] \in Keys
    BY <1>17, SplitKeysUp
  <2> QED
    BY <1>17, <2>1 DEF SplitKeys
<1>18. CASE NewRoot(t)
  <2> DEFINE r == Len(nodes) + 1
  <2>1. r \notin DOMAIN nodes /\ par'[t] = r /\ r \in DOMAIN nodes'
    BY <1>18, NewRootGoes
  <2> HIDE DEF r
  <2> QED
    BY <1>18, <2>1 DEF NewRoot
<1>19. CASE LeaveRoot(t)
  BY <1>19 DEF LeaveRoot
<1>20. CASE LeaveSibling(t)
  BY <1>20 DEF LeaveSibling
<1>21. CASE StoreRoot(t)
  BY <1>21 DEF StoreRoot
<1>22. CASE LockParent(t)
  <2> DEFINE p == nodes[node[t]].parent
  <2>1. node[t] \in DOMAIN nodes /\ sib[t] \in DOMAIN nodes
    BY <1>22 DEF LockParent
  <2>2. p \in DOMAIN nodes
    BY <1>22, <2>1 DEF LockParent, Inductive, Shape
  <2>3. node[t] \in Held(t) /\ sib[t] \in Held(t)
    BY <1>22 DEF LockParent, Held
  <2>4. V(node[t]).locked /\ V(sib[t]).locked /\ ~V(p).locked
    BY <1>22, <2>1, <2>3, OwnMarks DEF LockParent
  <2>5. p # node[t] /\ p # sib[t]
    BY <2>4
  <2>6. par' = [par EXCEPT ![t] = p]
    BY <1>22 DEF LockParent
  <2> HIDE DEF p
  <2> QED
    BY <1>22, <2>2, <2>5, <2>6 DEF LockParent
<1>23. CASE ShiftParent(t)
  BY <1>23 DEF ShiftParent
<1>24. CASE IntoParent(t)
  BY <1>24 DEF IntoParent
<1>25. CASE LeaveNode(t)
  BY <1>25 DEF LeaveNode
<1>26. CASE LeaveNode1(t)
  BY <1>26 DEF LeaveNode1
<1>27. CASE LeaveParent(t)
  BY <1>27 DEF LeaveParent
<1>28. CASE SplitParent(t)
  BY <1>28 DEF SplitParent
<1>29. CASE TearParent(t)
  BY <1>29 DEF TearParent
<1>30. CASE FillParent(t)
  <2> DEFINE r == Len(nodes) + 1
  <2>1. r \notin DOMAIN nodes /\ par1' = [par1 EXCEPT ![t] = r] /\ r \in DOMAIN nodes'
        /\ up' = [up EXCEPT ![t] = Seps(t)[Middle]]
    BY <1>30, FillParentGoes
  <2>2. Seps(t)[Middle] \in Keys
    <3>1. /\ Middle \in Nat /\ 2 <= Middle /\ Middle <= ORDER - 1 /\ ORDER \in Nat
          /\ \A j \in 1 .. ORDER : Seps(t)[j] \in Keys
      BY <1>30, SharedIs, Constants DEF FillParent
    <3> QED
      BY <3>1
  <2>3. pc[t] = "fillParent" /\ pc' = [pc EXCEPT ![t] = "ascendParent"]
        /\ UNCHANGED <<call, cur, node, child, sib, par>>
    BY <1>30 DEF FillParent
  <2> HIDE DEF r
  <2> QED
    BY <2>1, <2>2, <2>3
<1>31. CASE AscendParent(t)
  BY <1>31 DEF AscendParent
<1>32. CASE Search(t)
  BY <1>32 DEF Search
<1>33. CASE Verify(t)
  BY <1>33 DEF Verify
<1>34. CASE Forward(t)
  BY <1>34 DEF Forward
<1>35. CASE Walk(t)
  <2>1. node[t] \in DOMAIN nodes
    BY <1>35 DEF Walk
  <2> QED
    BY <1>2, <1>35, <2>1 DEF Walk
<1> QED
  BY <1>3, <1>4, <1>5, <1>6, <1>7, <1>8, <1>9, <1>10, <1>11, <1>12, <1>13, <1>14, <1>15, <1>16, <1>17, <1>18, <1>19, <1>20, <1>21, <1>22, <1>23, <1>24, <1>25, <1>26, <1>27, <1>28, <1>29, <1>30, <1>31, <1>32, <1>33, <1>34, <1>35
     DEF Step, findBorder, masstree_insert, masstree_get

LEMMA RootedIf ==
    ASSUME Inductive, NEW t \in Threads, Step(t),
           \A n \in DOMAIN nodes' :
              \/ nodes'[n].version.is_root \/ nodes'[n].parent # NULL
              \/ pc'[t] \in Halfway /\ n = Right(t)'
              \/ /\ n \in DOMAIN nodes /\ ~(pc[t] \in Halfway /\ n = Right(t))
                 /\ nodes'[n].version.is_root = V(n).is_root
                 /\ nodes'[n].parent = nodes[n].parent,
           \A n \in DOMAIN nodes' : pc'[t] \in Halfway /\ n = Right(t)' => nodes'[n].parent = NULL,
           \A n \in DOMAIN nodes : nodes[n].parent = NULL /\ nodes'[n].parent # NULL => n \in Held(t)
    PROVE  Rooted'
<1>1. \A u \in Threads : u # t => pc'[u] = pc[u] /\ Right(u)' = Right(u)
  BY OthersHold, OthersSame DEF Inductive, Local
<1>2. ASSUME NEW n \in DOMAIN nodes', Unlinked(n)'
      PROVE  nodes'[n].parent = NULL
  <2>1. PICK u \in Threads : pc'[u] \in Halfway /\ n = Right(u)'
    BY <1>2 DEF Unlinked
  <2>2. CASE u = t
    BY <2>1, <2>2
  <2>3. CASE u # t
    <3>1. pc[u] \in Halfway /\ n = Right(u)
      BY <1>1, <2>1, <2>3
    <3>2. n \in Held(u) /\ n \in DOMAIN nodes /\ nodes[n].parent = NULL
      BY <3>1, RightIs
    <3>3. n \notin Held(t)
      BY <2>3, <3>2 DEF Inductive, LocksHeld
    <3> QED
      BY <3>2, <3>3
  <2> QED
    BY <2>2, <2>3
<1>3. ASSUME NEW n \in DOMAIN nodes'
      PROVE  nodes'[n].version.is_root \/ nodes'[n].parent # NULL \/ Unlinked(n)'
  <2>1. CASE pc'[t] \in Halfway /\ n = Right(t)'
    BY <2>1 DEF Unlinked
  <2>2. CASE /\ n \in DOMAIN nodes /\ ~(pc[t] \in Halfway /\ n = Right(t))
             /\ nodes'[n].version.is_root = V(n).is_root
             /\ nodes'[n].parent = nodes[n].parent
    <3>1. V(n).is_root \/ nodes[n].parent # NULL \/ Unlinked(n)
      BY <2>2 DEF Inductive, Rooted
    <3>2. ASSUME Unlinked(n) PROVE Unlinked(n)'
      <4>1. PICK u \in Threads : pc[u] \in Halfway /\ n = Right(u)
        BY <3>2 DEF Unlinked
      <4>2. u # t
        BY <2>2, <4>1
      <4> QED
        BY <1>1, <4>1, <4>2 DEF Unlinked
    <3> QED
      BY <2>2, <3>1, <3>2
  <2> QED
    BY <2>1, <2>2
<1> QED
  BY <1>2, <1>3 DEF Rooted, V

LEMMA RootedStep ==
    ASSUME Inductive, NEW t \in Threads, Step(t)
    PROVE  Rooted'
<1>0. /\ pc \in [Threads -> PCs] /\ \A n \in DOMAIN nodes : nodes[n] \in Node
      /\ sib \in [Threads -> DOMAIN nodes \cup {NULL}]
      /\ par \in [Threads -> DOMAIN nodes \cup {NULL}]
  BY NodeIs DEF Inductive, Typed
<1>1. \A n \in DOMAIN nodes : pc[t] \in Halfway /\ n = Right(t) => nodes[n].parent = NULL
  BY RightIs
<1>2. CASE QuietStep(t)
  <2>1. nodes' = nodes /\ pc[t] \notin Halfway /\ pc'[t] \notin Halfway
    BY <1>2, QuietStepGoes
  <2> QED
    BY <2>1, RootedIf DEF V
<1>3. CASE MarkStep(t)
  <2>1. DOMAIN nodes' = DOMAIN nodes /\ \A n \in DOMAIN nodes : Alike(nodes'[n], nodes[n])
    BY <1>3, MarkStepGoes
  <2>2. \A n \in DOMAIN nodes : /\ nodes'[n].parent = nodes[n].parent
                                /\ nodes'[n].version.is_root = V(n).is_root
    BY <2>1 DEF Alike, V
  <2>3. /\ pc'[t] \in Halfway <=> pc[t] \in Halfway
        /\ pc[t] \in Halfway => Right(t)' = Right(t)
    <3> USE <1>0 DEF Halfway, Right, Goto, Return, loc
    <3>1. CASE LockBorder(t)
      BY <3>1 DEF LockBorder
    <3>2. CASE AlreadyExists(t)
      BY <3>2 DEF AlreadyExists
    <3>3. CASE Unlock(t)
      BY <3>3 DEF Unlock
    <3>4. CASE LeaveRoot(t)
      BY <3>4 DEF LeaveRoot
    <3>5. CASE LeaveSibling(t)
      BY <3>5 DEF LeaveSibling
    <3>6. CASE LockParent(t)
      BY <3>6 DEF LockParent
    <3>7. CASE ShiftParent(t)
      BY <3>7 DEF ShiftParent
    <3>8. CASE LeaveNode(t)
      BY <3>8 DEF LeaveNode
    <3>9. CASE LeaveNode1(t)
      BY <3>9 DEF LeaveNode1
    <3>10. CASE LeaveParent(t)
      BY <3>10 DEF LeaveParent
    <3>11. CASE SplitParent(t)
      BY <3>11 DEF SplitParent
    <3>12. CASE TearParent(t)
      BY <3>12 DEF TearParent
    <3>13. CASE AscendParent(t)
      BY <3>13 DEF AscendParent
    <3> QED
      BY <1>3, <3>1, <3>2, <3>3, <3>4, <3>5, <3>6, <3>7, <3>8, <3>9, <3>10, <3>11, <3>12, <3>13
         DEF MarkStep
  <2> QED
    BY <1>1, <2>1, <2>2, <2>3, RootedIf
<1>4. CASE CasRoot(t)
  <2>1. pc[t] \notin Halfway /\ pc'[t] \notin Halfway
    BY <1>0, <1>4 DEF CasRoot, Return, Goto, Halfway
  <2>2. CASE nodes' = nodes
    BY <2>1, <2>2, RootedIf DEF V
  <2>3. CASE nodes' # nodes
    <3> DEFINE q == Len(nodes) + 1
    <3>1. /\ DOMAIN nodes' = DOMAIN nodes \cup {q}
          /\ \A n \in DOMAIN nodes : nodes'[n] = nodes[n]
          /\ nodes'[q] = Border([NewVersion EXCEPT !.is_root = TRUE], {key[t]})
      BY <1>4, <2>3, CasRootGoes
    <3>2. nodes'[q].version.is_root
      BY <3>1 DEF Border, NewVersion
    <3> HIDE DEF q
    <3> QED
      BY <2>1, <3>1, <3>2, RootedIf DEF V
  <2> QED
    BY <2>2, <2>3
<1>5. CASE InsertToBorder(t)
  <2>1. pc[t] \notin Halfway /\ pc'[t] \notin Halfway
    BY <1>0, <1>5 DEF InsertToBorder, Goto, Halfway
  <2>2. /\ DOMAIN nodes' = DOMAIN nodes
        /\ \A n \in DOMAIN nodes : n # node[t] => nodes'[n] = nodes[n]
        /\ nodes'[node[t]] = [nodes[node[t]] EXCEPT !.slots = @ \cup {key[t]}]
    BY <1>5, InsertToBorderGoes
  <2>3. \A n \in DOMAIN nodes : /\ nodes'[n].parent = nodes[n].parent
                                /\ nodes'[n].version.is_root = V(n).is_root
    BY <1>0, <2>2 DEF Node, V
  <2> QED
    BY <2>1, <2>2, <2>3, RootedIf
<1>6. CASE Split(t)
  <2> DEFINE b == node[t]
             q == Len(nodes) + 1
             v == [V(b) EXCEPT !.splitting = TRUE]
  <2>1. /\ b \in DOMAIN nodes /\ sib'[t] = q /\ DOMAIN nodes' = DOMAIN nodes \cup {q}
        /\ \A n \in DOMAIN nodes : n # b => nodes'[n] = nodes[n]
        /\ nodes'[b] = [nodes[b] EXCEPT !.version = v, !.torn = TRUE]
        /\ nodes'[q] = Border(v, {})
    BY <1>6, SplitGoes
  <2>2. pc[t] \notin Halfway /\ pc'[t] \in Halfway /\ Right(t)' = q
    BY <1>0, <1>6, <2>1 DEF Split, Goto, Halfway, Right
  <2>3. v.is_root = V(b).is_root
    BY <2>1, NodeIs DEF Inductive, Version
  <2>4. nodes'[q].parent = NULL
    BY <2>1 DEF Border
  <2> HIDE DEF q, v
  <2>5. ASSUME NEW n \in DOMAIN nodes
        PROVE  /\ nodes'[n].parent = nodes[n].parent
               /\ nodes'[n].version.is_root = V(n).is_root
    <3>1. CASE n = b
      BY <1>0, <2>1, <2>3, <3>1 DEF Node, V
    <3>2. CASE n # b
      BY <2>1, <3>2 DEF V
    <3> QED
      BY <3>1, <3>2
  <2> QED
    BY <2>1, <2>2, <2>4, <2>5, RootedIf
<1>7. CASE SplitKeys(t)
  <2> DEFINE b == node[t]
             q == sib[t]
             left == LeftOf(nodes[b].slots, key[t])
             right == (nodes[b].slots \cup {key[t]}) \ left
  <2>1. /\ b \in DOMAIN nodes /\ q \in DOMAIN nodes /\ b # q
        /\ DOMAIN nodes' = DOMAIN nodes
        /\ \A n \in DOMAIN nodes : n # b /\ n # q => nodes'[n] = nodes[n]
        /\ nodes'[b] = [nodes[b] EXCEPT !.slots = left, !.torn = FALSE, !.next = q]
        /\ nodes'[q] = [nodes[q] EXCEPT !.slots = right, !.next = nodes[b].next]
    BY <1>7, SplitKeysGoes
  <2>2. pc[t] \in Halfway /\ pc'[t] \in Halfway /\ Right(t)' = q /\ Right(t) = q
    BY <1>0, <1>7 DEF SplitKeys, Goto, Halfway, Right
  <2> HIDE DEF left, right, b, q
  <2>3. ASSUME NEW n \in DOMAIN nodes
        PROVE  /\ nodes'[n].parent = nodes[n].parent
               /\ nodes'[n].version.is_root = V(n).is_root
    <3>1. nodes[n] \in Node
      BY <1>0
    <3>2. CASE n = b
      BY <2>1, <3>1, <3>2 DEF Node, V
    <3>3. CASE n = q
      BY <2>1, <3>1, <3>3 DEF Node, V
    <3>4. CASE n # b /\ n # q
      BY <2>1, <3>4 DEF V
    <3> QED
      BY <3>2, <3>3, <3>4
  <2> QED
    BY <1>1, <2>1, <2>2, <2>3, RootedIf
<1>8. CASE NewRoot(t)
  <2> DEFINE b == node[t]
             q == sib[t]
             r == Len(nodes) + 1
             z == Interior([NewVersion EXCEPT !.is_root = TRUE], <<up[t]>>, <<b, q>>)
  <2>1. /\ b \in DOMAIN nodes /\ q \in DOMAIN nodes /\ b # q /\ r \notin DOMAIN nodes
        /\ DOMAIN nodes' = DOMAIN nodes \cup {r}
        /\ \A n \in DOMAIN nodes : n # b /\ n # q => nodes'[n] = nodes[n]
        /\ nodes'[b] = [nodes[b] EXCEPT !.parent = r, !.version.is_root = FALSE]
        /\ nodes'[q] = [nodes[q] EXCEPT !.parent = r, !.version.is_root = FALSE]
        /\ nodes'[r] = z
    BY <1>8, NewRootGoes
  <2>2. pc'[t] \notin Halfway /\ Right(t) = q /\ b \in Held(t) /\ q \in Held(t)
    BY <1>0, <1>8 DEF NewRoot, Goto, Halfway, Right, Held
  <2>3. r # NULL
    BY <2>1, LenProperties, Constants DEF Inductive, Typed
  <2>4. z.version.is_root
    BY DEF Interior, NewVersion
  <2> HIDE DEF r, b, q, z
  <2>5. nodes'[b].parent # NULL /\ nodes'[q].parent # NULL
    BY <1>0, <2>1, <2>3 DEF Node
  <2>6. \A n \in DOMAIN nodes : n # b /\ n # q => nodes'[n].parent = nodes[n].parent
                                                  /\ nodes'[n].version.is_root = V(n).is_root
    BY <2>1 DEF V
  <2> QED
    BY <2>1, <2>2, <2>4, <2>5, <2>6, RootedIf
<1>9. CASE IntoParent(t)
  <2> DEFINE q == sib[t]
             p == par[t]
             s == InsertAt(nodes[p].seps, ChildIndex(p, node[t]), up[t])
             c == InsertAt(nodes[p].children, ChildIndex(p, node[t]) + 1, q)
  <2>1. /\ DOMAIN nodes' = DOMAIN nodes
        /\ \A n \in DOMAIN nodes : n # p /\ n # q => nodes'[n] = nodes[n]
        /\ nodes'[q] = [nodes[q] EXCEPT !.parent = p]
        /\ nodes'[p] = [nodes[p] EXCEPT !.torn = FALSE, !.seps = s, !.children = c]
    BY <1>9, IntoParentGoes
  <2>2. pc'[t] \notin Halfway /\ Right(t) = q /\ q \in Held(t) /\ p \in Held(t)
    BY <1>0, <1>9 DEF IntoParent, Goto, Halfway, Right, Held
  <2>3. nodes'[q].parent # NULL
    BY <1>9, IntoParentKeeps
  <2>4. p \in DOMAIN nodes /\ p # q
    BY <1>9, <2>2, OwnMarks DEF Inductive, Apart, IntoParent, WithSib
  <2> HIDE DEF s, c, p, q
  <2>5. ASSUME NEW n \in DOMAIN nodes, n # q
        PROVE  /\ nodes'[n].parent = nodes[n].parent
               /\ nodes'[n].version.is_root = V(n).is_root
    <3>1. CASE n = p
      BY <1>0, <2>1, <2>4, <2>5, <3>1 DEF Node, V
    <3>2. CASE n # p
      BY <2>1, <2>5, <3>2 DEF V
    <3> QED
      BY <3>1, <3>2
  <2> QED
    BY <2>1, <2>2, <2>3, <2>5, RootedIf
<1>10. CASE FillParent(t)
  <2> DEFINE q == sib[t]
             p == par[t]
             r == Len(nodes) + 1
             Placed(n) == IF n \in Moved(t) THEN r ELSE IF n \in Stay(t) THEN p
                          ELSE nodes[n].parent
             s == SubSeq(Seps(t), 1, Middle - 1)
             c == SubSeq(Shared(t), 1, Middle)
             s1 == SubSeq(Seps(t), Middle + 1, ORDER)
             c1 == SubSeq(Shared(t), Middle + 1, ORDER + 1)
  <2>1. /\ p \in DOMAIN nodes /\ DOMAIN nodes' = DOMAIN nodes \cup {r}
        /\ par1' = [par1 EXCEPT ![t] = r]
        /\ \A n \in DOMAIN nodes : n # p => nodes'[n] = [nodes[n] EXCEPT !.parent = Placed(n)]
        /\ nodes'[p] = [nodes[p] EXCEPT !.parent = Placed(p), !.seps = s, !.children = c,
                                        !.torn = FALSE]
        /\ nodes'[r] = Interior(V(p), s1, c1)
    BY <1>10, FillParentGoes
  <2>2. nodes'[q].parent # NULL /\ Touched(t)
    BY <1>10, FillParentKeeps
  <2>3. pc[t] = "fillParent" /\ pc'[t] = "ascendParent" /\ par1'[t] = r
    BY <1>0, <1>10, <2>1 DEF FillParent, Goto, Inductive, Typed
  <2>4. pc[t] \in Halfway /\ pc'[t] \in Halfway /\ Right(t) = q /\ Right(t)' = r /\ q \in Held(t)
    BY <2>3 DEF Halfway, Right, Held
  <2>5. nodes'[r].parent = NULL
    BY <2>1 DEF Interior
  <2>6. Moved(t) \cup Stay(t) = Kids(p) \cup {q}
    BY <2>3, SharedIs
  <2>7. \A n \in Kids(p) : nodes[n].parent = p /\ p # NULL
    BY <2>1, NodeIs, Constants DEF Inductive, Family
  <2> HIDE DEF p, q, r, s, c, s1, c1
  <2>8. ASSUME NEW n \in DOMAIN nodes
        PROVE  /\ nodes'[n].version.is_root = V(n).is_root
               /\ nodes'[n].parent = nodes[n].parent \/ nodes'[n].parent # NULL
               /\ nodes[n].parent = NULL /\ nodes'[n].parent # NULL => n = q
    <3>1. nodes'[n].version = V(n) /\ nodes'[n].parent = Placed(n)
      <4> HIDE DEF Placed
      <4>1. CASE n = p
        BY <1>0, <2>1, <4>1 DEF Node, V
      <4>2. CASE n # p
        BY <1>0, <2>1, <4>2 DEF Node, V
      <4> QED
        BY <4>1, <4>2
    <3>2. nodes'[n].parent = nodes[n].parent \/ nodes'[n].parent # NULL
      BY <2>2 DEF Touched
    <3>3. ASSUME nodes[n].parent = NULL, nodes'[n].parent # NULL PROVE n = q
      BY <2>6, <2>7, <3>1, <3>3
    <3> QED
      BY <3>1, <3>2, <3>3
  <2> QED
    BY <2>1, <2>2, <2>4, <2>5, <2>8, RootedIf
<1> QED
  BY <1>2, <1>3, <1>4, <1>5, <1>6, <1>7, <1>8, <1>9, <1>10, StepIs DEF TreeStep

LEMMA SplitsStep ==
    ASSUME Inductive, NEW t \in Threads, Step(t)
    PROVE  Splits(t)'
<1>0. /\ pc \in [Threads -> PCs] /\ \A n \in DOMAIN nodes : nodes[n] \in Node
      /\ sib \in [Threads -> DOMAIN nodes \cup {NULL}]
      /\ par \in [Threads -> DOMAIN nodes \cup {NULL}]
      /\ node \in [Threads -> DOMAIN nodes \cup {NULL}]
      /\ Splits(t) /\ Places(t)
  BY NodeIs DEF Inductive, Typed
<1> DEFINE Aware == {"splitKeys", "shiftParent", "intoParent", "splitParent", "tearParent",
                     "fillParent", "leaveRoot", "leaveSibling", "leaveNode", "leaveNode1"}
<1>1. CASE pc'[t] \notin Aware
  BY <1>1 DEF Splits
<1>2. CASE Split(t)
  <2>1. /\ node[t] \in DOMAIN nodes /\ key[t] \notin nodes[node[t]].slots
        /\ Cardinality(nodes[node[t]].slots) = ORDER - 1
        /\ nodes'[node[t]] = [nodes[node[t]] EXCEPT !.version = [V(node[t]) EXCEPT !.splitting = TRUE],
                                                    !.torn = TRUE]
    BY <1>2, SplitGoes DEF Split, isFull
  <2>2. nodes[node[t]].slots # {}
    <3>1. ORDER - 1 # 0 /\ Cardinality({}) = 0
      BY FS_EmptySet, Constants
    <3> QED
      BY <2>1, <3>1
  <2>3. nodes'[node[t]].slots = nodes[node[t]].slots
    BY <1>0, <2>1 DEF Node
  <2>4. pc'[t] = "splitKeys" /\ node' = node /\ key' = key
    BY <1>0, <1>2 DEF Split, Goto, call
  <2> QED
    BY <2>1, <2>2, <2>3, <2>4 DEF Splits
<1>3. CASE NewRoot(t)
  <2> DEFINE b == node[t]
             q == sib[t]
             r == Len(nodes) + 1
  <2>1. /\ b \in DOMAIN nodes /\ q \in DOMAIN nodes
        /\ nodes'[b] = [nodes[b] EXCEPT !.parent = r, !.version.is_root = FALSE]
        /\ nodes'[q] = [nodes[q] EXCEPT !.parent = r, !.version.is_root = FALSE]
    BY <1>3, NewRootGoes
  <2>2. r # NULL
    BY LenProperties, Constants DEF Inductive, Typed
  <2> HIDE DEF r
  <2>3. nodes'[b].parent # NULL /\ nodes'[q].parent # NULL
    BY <1>0, <2>1, <2>2 DEF Node
  <2>4. pc'[t] = "leaveRoot" /\ node' = node /\ sib' = sib
    BY <1>0, <1>3 DEF NewRoot, Goto
  <2> QED
    BY <2>3, <2>4 DEF Splits
<1>4. CASE IntoParent(t)
  <2>1. pc[t] = "intoParent" /\ pc'[t] = "leaveNode" /\ node' = node /\ sib' = sib
    BY <1>0, <1>4 DEF IntoParent, Goto, loc
  <2>2. nodes'[sib[t]].parent # NULL /\ Touched(t)
    BY <1>4, IntoParentKeeps
  <2>3. nodes[node[t]].parent # NULL /\ node[t] \in DOMAIN nodes
    <3>1. /\ node[t] \in DOMAIN nodes /\ par[t] \in DOMAIN nodes /\ nodes[node[t]].parent = par[t]
      BY <2>1, HasParent
    <3> QED
      BY <3>1, NodeIs, Constants DEF Inductive
  <2>4. nodes'[node[t]].parent # NULL
    BY <2>2, <2>3 DEF Touched
  <2> QED
    BY <2>1, <2>2, <2>4 DEF Splits
<1>5. CASE MarkStep(t)
  <2>1. DOMAIN nodes' = DOMAIN nodes /\ \A n \in DOMAIN nodes : Alike(nodes'[n], nodes[n])
    BY <1>5, MarkStepGoes
  <2>2. \A n \in DOMAIN nodes : nodes'[n].parent = nodes[n].parent /\ nodes'[n].seps = nodes[n].seps
    BY <2>1 DEF Alike
  <2>3. CASE LockParent(t)
    <3> DEFINE p == nodes[node[t]].parent
    <3>1. node[t] \in DOMAIN nodes /\ p # NULL
      BY <1>0, <2>3 DEF LockParent, Places, WithNode, Halfway
    <3>2. p \in DOMAIN nodes /\ node[t] \in Kids(p)
      BY <3>1 DEF Inductive, Shape, Family
    <3>3. nodes[p].seps \in Seq(Keys) /\ Len(nodes[p].seps) <= ORDER - 1
      <4>1. ~nodes[p].border
        <5>1. nodes[p].border => nodes[p].children = <<>>
          BY <3>2 DEF Inductive, Shape
        <5> QED
          BY <3>2, <5>1 DEF Kids, ToSet
      <4>2. /\ nodes[p].seps \in Seq(Keys) /\ Len(nodes[p].children) = Len(nodes[p].seps) + 1
            /\ Len(nodes[p].children) <= ORDER
        BY <3>2, <4>1, NodeIs DEF Inductive, Shape
      <4>3. Len(nodes[p].seps) \in Nat
        BY <4>2, LenProperties
      <4> QED
        BY <4>2, <4>3, Constants
    <3>4. /\ par'[t] = p /\ node' = node /\ sib' = sib
          /\ pc'[t] = IF Len(nodes[p].seps) < ORDER - 1 THEN "shiftParent" ELSE "splitParent"
      BY <1>0, <2>3 DEF LockParent, Goto
    <3>5. nodes'[node[t]].parent = p /\ nodes'[p].seps = nodes[p].seps
      BY <2>2, <3>1, <3>2
    <3> HIDE DEF p
    <3>6. Len(nodes[p].seps) \in Nat
      BY <3>3, LenProperties
    <3>7. ~(Len(nodes[p].seps) < ORDER - 1) => Len(nodes[p].seps) = ORDER - 1
      BY <3>3, <3>6, Constants
    <3> QED
      BY <3>4, <3>5, <3>7 DEF Splits
  <2>4. ASSUME /\ node' = node /\ sib' = sib /\ par' = par,
               \/ pc[t] = "shiftParent" /\ pc'[t] = "intoParent"
               \/ pc[t] = "splitParent" /\ pc'[t] = "tearParent"
               \/ pc[t] = "tearParent" /\ pc'[t] = "fillParent"
               \/ pc[t] = "leaveRoot" /\ pc'[t] = "leaveSibling"
               \/ pc[t] = "leaveNode" /\ pc'[t] = "leaveNode1"
        PROVE  Splits(t)'
    <3>1. /\ pc[t] \in {"leaveRoot", "leaveNode"} => sib[t] \in DOMAIN nodes
          /\ pc[t] \in {"shiftParent", "splitParent", "tearParent"} =>
               node[t] \in DOMAIN nodes /\ par[t] \in DOMAIN nodes
      BY <1>0 DEF Places, WithNode, WithSib, WithPar, Halfway
    <3> QED
      BY <1>0, <2>2, <2>4, <3>1 DEF Splits
  <2> USE <1>0 DEF Goto, Return, loc
  <2>5. CASE ShiftParent(t)
    BY <2>4, <2>5 DEF ShiftParent
  <2>6. CASE SplitParent(t)
    BY <2>4, <2>6 DEF SplitParent
  <2>7. CASE TearParent(t)
    BY <2>4, <2>7 DEF TearParent
  <2>8. CASE LeaveRoot(t)
    BY <2>4, <2>8 DEF LeaveRoot
  <2>9. CASE LeaveNode(t)
    BY <2>4, <2>9 DEF LeaveNode
  <2>10. CASE LockBorder(t)
    BY <1>1, <2>10 DEF LockBorder
  <2>11. CASE AlreadyExists(t)
    BY <1>1, <2>11 DEF AlreadyExists
  <2>12. CASE Unlock(t)
    BY <1>1, <2>12 DEF Unlock
  <2>13. CASE LeaveSibling(t)
    BY <1>1, <2>13 DEF LeaveSibling
  <2>14. CASE LeaveNode1(t)
    BY <1>1, <2>14 DEF LeaveNode1
  <2>15. CASE LeaveParent(t)
    BY <1>1, <2>15 DEF LeaveParent
  <2>16. CASE AscendParent(t)
    BY <1>1, <2>16 DEF AscendParent
  <2> QED
    BY <1>5, <2>3, <2>5, <2>6, <2>7, <2>8, <2>9, <2>10, <2>11, <2>12, <2>13, <2>14, <2>15, <2>16
       DEF MarkStep
<1>6. CASE CasRoot(t)
  BY <1>0, <1>1, <1>6 DEF CasRoot, Return, Goto
<1>7. CASE InsertToBorder(t)
  BY <1>0, <1>1, <1>7 DEF InsertToBorder, Goto
<1>8. CASE SplitKeys(t)
  BY <1>0, <1>1, <1>8 DEF SplitKeys, Goto
<1>9. CASE FillParent(t)
  BY <1>0, <1>1, <1>9 DEF FillParent, Goto
<1>10. CASE QuietStep(t)
  BY <1>1, <1>10, QuietStepGoes DEF Finding, Getting
<1> QED
  BY <1>2, <1>3, <1>4, <1>5, <1>6, <1>7, <1>8, <1>9, <1>10, StepIs DEF TreeStep

-----------------------------------------------------------------------------
(* The invariant holds, and the properties follow from it.                  *)

LEMMA Starts ==
    ASSUME Init
    PROVE  Inductive
<1>1. nodes = <<>> /\ DOMAIN nodes = {}
  BY DEF Init
<1>2. pc = [t \in Threads |-> "idle"]
  BY DEF Init
<1>3. Typed
  <2>1. nodes \in Seq(Node) /\ root \in DOMAIN nodes \cup {NULL}
    BY <1>1 DEF Init
  <2>2. todo \in [Threads -> Seq(Calls)]
    BY Constants DEF Init
  <2>3. NewVersion \in Version
    BY DEF NewVersion, Version
  <2>4. {top, cur, node, child, sib, par, par1} \subseteq [Threads -> DOMAIN nodes \cup {NULL}]
    BY DEF Init
  <2>5. ver \in [Threads -> Version] /\ cver \in [Threads -> Version]
    BY <2>3 DEF Init
  <2>6. pc \in [Threads -> PCs] /\ faults \subseteq Faults
    BY DEF Init, PCs
  <2> QED
    BY <2>1, <2>2, <2>4, <2>5, <2>6 DEF Init, Typed
<1>4. LocksHeld
  BY <1>1, <1>2 DEF LocksHeld, Held
<1>5. Marked /\ Rooted /\ \A n \in DOMAIN nodes : Shape(n)
  BY <1>1, <1>2 DEF Marked, Rooted, Unlinked, Halfway
<1>6. Family
  BY <1>1 DEF Family
<1>7. ASSUME NEW t \in Threads
      PROVE  Places(t) /\ Apart(t) /\ Splits(t)
  <2>1. pc[t] = "idle"
    BY <1>2
  <2>2. Places(t)
    BY <2>1 DEF Places, Finding, WithNode, OnBorder, Getting, WithSib, WithPar, Halfway
  <2>3. Apart(t) /\ Splits(t)
    BY <2>1 DEF Apart, Splits, WithSib
  <2> QED
    BY <2>2, <2>3
<1> QED
  BY <1>3, <1>4, <1>5, <1>6, <1>7 DEF Inductive

LEMMA StepKeeps ==
    ASSUME Inductive, NEW t \in Threads, Step(t)
    PROVE  Inductive'
<1>1. Typed'
  BY TypedStep
<1>2. LocksHeld' /\ Marked'
  BY NodesGo, LocksGo
<1>3. Family' /\ \A n \in DOMAIN nodes' : Shape(n)'
  BY TreeKeeps DEF Treeish
<1>4. Rooted'
  BY RootedStep
<1>5. ASSUME NEW u \in Threads
      PROVE  Places(u)' /\ Apart(u)' /\ Splits(u)'
  <2>1. CASE u = t
    BY <2>1, PlacesStep, SplitsStep
  <2>2. CASE u # t
    BY <2>2, OthersKeep
  <2> QED
    BY <2>1, <2>2
<1> QED
  BY <1>1, <1>2, <1>3, <1>4, <1>5 DEF Inductive

LEMMA IdleKeeps ==
    ASSUME Inductive, UNCHANGED vars
    PROVE  Inductive'
<1>1. /\ root' = root /\ nodes' = nodes /\ pc' = pc /\ op' = op /\ key' = key
      /\ todo' = todo /\ seen' = seen
  BY DEF vars, call
<1>2. /\ top' = top /\ cur' = cur /\ node' = node /\ ver' = ver /\ child' = child /\ cver' = cver
      /\ sib' = sib /\ par' = par /\ par1' = par1 /\ up' = up
  BY DEF vars, loc
<1>3. returned' = returned /\ got' = got /\ faults' = faults
  BY DEF vars, hist
<1>4. Typed'
  BY <1>1, <1>2, <1>3 DEF Inductive, Typed
<1>5. LocksHeld'
  <2>1. \A t \in Threads : Held(t)' = Held(t)
    BY <1>1, <1>2 DEF Held
  <2>2. \A n : V(n)' = V(n)
    BY <1>1 DEF V
  <2> QED
    BY <1>1, <2>1, <2>2 DEF Inductive, LocksHeld
<1>6. Marked'
  BY <1>1, <1>2 DEF Inductive, Marked, Splitting, Inserting, Tearing, V
<1>7. Family' /\ \A n \in DOMAIN nodes' : Shape(n)'
  BY <1>1 DEF Inductive, Family, Shape, Kids
<1>8. Rooted'
  BY <1>1, <1>2 DEF Inductive, Rooted, Unlinked, Right, V
<1>9. \A t \in Threads : Places(t)' /\ Apart(t)' /\ Splits(t)'
  BY <1>1, <1>2 DEF Inductive, Places, Apart, Splits
<1> QED
  BY <1>4, <1>5, <1>6, <1>7, <1>8, <1>9 DEF Inductive

\* The invariant is one: whatever the plans, the keys and the number of
\* threads, every reachable state of the index has it.
THEOREM Invariance == Spec => []Inductive
<1>1. Inductive /\ [Next]_vars => Inductive'
  BY NextIsStep, StepKeeps, IdleKeeps
<1> QED
  BY <1>1, Starts, PTL DEF Spec

\* Every variable has its type, every border node fewer than ORDER keys and
\* every interior node one child more than separators, at most ORDER of them:
\* through every split no array of a node overflows (TypeOK).
THEOREM NodesHaveShape == Spec => []TypeOK
<1>1. Inductive => TypeOK
  <2> SUFFICES ASSUME Inductive PROVE TypeOK
    OBVIOUS
  <2>1. ASSUME NEW n \in DOMAIN nodes
        PROVE  NodeOK(nodes[n])
    <3>1. /\ nodes[n].slots \subseteq Keys /\ V(n) \in Version
          /\ nodes[n].seps \in Seq(Keys) /\ nodes[n].children \in Seq(Nat)
      BY NodeIs DEF Inductive
    <3>2. Shape(n)
      BY DEF Inductive
    <3>3. nodes[n].children \in Seq(DOMAIN nodes)
      <4> DEFINE c == nodes[n].children
      <4>1. \A i \in 1 .. Len(c) : c[i] \in DOMAIN nodes
        BY <3>1, <3>2, LenProperties DEF Shape, Kids, ToSet
      <4>2. c = [i \in 1 .. Len(c) |-> c[i]] /\ Len(c) \in Nat
        BY <3>1, LenProperties
      <4> QED
        BY <4>1, <4>2, IsASeq
    <3>4. nodes[n].border => nodes[n].children = <<>>
      BY <3>2 DEF Shape
    <3>5. ~nodes[n].border => /\ Len(nodes[n].children) = Len(nodes[n].seps) + 1
                              /\ Len(nodes[n].children) <= ORDER
      BY <3>2 DEF Shape
    <3> QED
      BY <3>1, <3>2, <3>3, <3>4, <3>5 DEF NodeOK, Shape, V
  <2>2. \A t \in Threads : {top[t], cur[t], node[t], child[t], sib[t], par[t], par1[t]}
                              \subseteq DOMAIN nodes \cup {NULL}
    BY DEF Inductive, Typed
  <2>3. \A t \in Threads : ver[t] \in Version /\ cver[t] \in Version
    BY DEF Inductive, Typed
  <2> QED
    BY <2>1, <2>2, <2>3 DEF Inductive, Typed, TypeOK
<1> QED
  BY <1>1, Invariance, PTL

\* A node's lock has one holder and a lock that is set has a holder, through
\* split()'s hand-overs from a node to its parent (LocksHeld).
THEOREM NodeLocksHeld == Spec => []LocksHeld
<1>1. Inductive => LocksHeld
  BY DEF Inductive
<1> QED
  BY <1>1, Invariance, PTL

\* A node whose arrays are being moved is marked, and a marked node is locked,
\* by a thread that will clear the marks (TornIsMarked).
THEOREM TornNodesMarked == Spec => []TornIsMarked
<1>1. Inductive => TornIsMarked
  <2> SUFFICES ASSUME Inductive, NEW n \in DOMAIN nodes
               PROVE  /\ nodes[n].torn => ~Stable(V(n))
                      /\ ~Stable(V(n)) => V(n).locked
    BY DEF TornIsMarked
  <2>1. nodes[n].torn => ~Stable(V(n))
    <3>1. \A t \in Threads : Tearing(t) \subseteq Splitting(t) \cup Inserting(t)
      BY DEF Tearing, Splitting, Inserting
    <3> QED
      BY <3>1 DEF Inductive, Marked, Stable
  <2>2. ~Stable(V(n)) => V(n).locked
    BY OwnMarks DEF Inductive, Marked, Stable
  <2> QED
    BY <2>1, <2>2
<1> QED
  BY <1>1, Invariance, PTL

\* Parents and children know each other, no child is in the tree twice, and a
\* node that has no parent is a root or one that a split has still to link:
\* what findBorder relies on when it climbs from a node that has lost the root.
THEOREM TreeIsLinked == Spec => [](Family /\ Rooted)
<1>1. Inductive => Family /\ Rooted
  BY DEF Inductive
<1> QED
  BY <1>1, Invariance, PTL

-----------------------------------------------------------------------------
(* The levels of the tree: border nodes are at level 0, a parent is one     *)
(* level above its child, and the two nodes of a pair are level.            *)

Left(t) == IF pc[t] = "ascendParent" THEN par[t] ELSE node[t]

Levels(h) ==
    /\ h \in [DOMAIN nodes -> Nat]
    /\ \A n \in DOMAIN nodes : nodes[n].border => h[n] = 0
    /\ \A n \in DOMAIN nodes : nodes[n].parent # NULL => h[nodes[n].parent] = h[n] + 1
    /\ \A t \in Threads : pc[t] \in Halfway => h[Left(t)] = h[Right(t)]

\* All keys are equally deep, through every split and every new root.
Balanced == \E h : Levels(h)

\* Where a thread waits for a node's lock, that node is above all it holds.
LocksGoUp ==
    \E h \in [DOMAIN nodes -> Nat] :
        \A t \in Threads :
            /\ pc[t] = "lock" => Held(t) = {}
            /\ pc[t] = "ascend" /\ nodes[node[t]].parent # NULL =>
                 \A n \in Held(t) : h[n] < h[nodes[node[t]].parent]

LEMMA LevelsIf ==
    ASSUME Inductive, NEW t \in Threads, Step(t), NEW h, Levels(h),
           NEW g, g \in [DOMAIN nodes' -> Nat],
           \A n \in DOMAIN nodes : g[n] = h[n],
           \A n \in DOMAIN nodes' \ DOMAIN nodes :
               nodes'[n].parent = NULL /\ (nodes'[n].border => g[n] = 0),
           \A n \in DOMAIN nodes : \/ nodes'[n].parent = nodes[n].parent
                                   \/ g[nodes'[n].parent] = h[n] + 1,
           pc'[t] \in Halfway => g[Left(t)'] = g[Right(t)']
    PROVE  Levels(g)'
<1>1. DOMAIN nodes \subseteq DOMAIN nodes' /\ \A n \in DOMAIN nodes : nodes'[n].border = nodes[n].border
  BY NodesGo, TreeKeeps DEF Touched
<1>2. ASSUME NEW n \in DOMAIN nodes'
      PROVE  /\ nodes'[n].border => g[n] = 0
             /\ nodes'[n].parent # NULL => g[nodes'[n].parent] = g[n] + 1
  <2>1. CASE n \in DOMAIN nodes
    <3>1. nodes[n].parent \in DOMAIN nodes \cup {NULL}
      BY <2>1 DEF Inductive, Shape
    <3> QED
      BY <1>1, <2>1, <3>1 DEF Levels
  <2>2. CASE n \notin DOMAIN nodes
    BY <2>2
  <2> QED
    BY <2>1, <2>2
<1>3. ASSUME NEW u \in Threads, pc'[u] \in Halfway
      PROVE  g[Left(u)'] = g[Right(u)']
  <2>1. CASE u = t
    BY <1>3, <2>1
  <2>2. CASE u # t
    <3>1. pc'[u] = pc[u] /\ Left(u)' = Left(u) /\ Right(u)' = Right(u)
      BY <2>2, OthersSame DEF Inductive, Local, Left, Right
    <3>2. Left(u) \in DOMAIN nodes /\ Right(u) \in DOMAIN nodes
      BY <1>3, <3>1 DEF Inductive, Places, Left, Right, Halfway, WithNode, WithSib, WithPar
    <3> QED
      BY <1>3, <3>1, <3>2 DEF Levels
  <2> QED
    BY <2>1, <2>2
<1> QED
  BY <1>2, <1>3 DEF Levels

\* A step that moves no node's parent keeps the levels.
LEMMA LevelsStay ==
    ASSUME Inductive, NEW t \in Threads, Step(t), NEW h, Levels(h),
           DOMAIN nodes' = DOMAIN nodes,
           \A n \in DOMAIN nodes : nodes'[n].parent = nodes[n].parent,
           pc'[t] \in Halfway => h[Left(t)'] = h[Right(t)']
    PROVE  Levels(h)'
BY LevelsIf DEF Levels

LEMMA LevelsStep ==
    ASSUME Inductive, NEW t \in Threads, Step(t), NEW h, Levels(h)
    PROVE  \E g : Levels(g)'
<1>0. /\ pc \in [Threads -> PCs] /\ \A n \in DOMAIN nodes : nodes[n] \in Node
      /\ sib \in [Threads -> DOMAIN nodes \cup {NULL}]
      /\ par \in [Threads -> DOMAIN nodes \cup {NULL}]
      /\ par1 \in [Threads -> DOMAIN nodes \cup {NULL}]
      /\ node \in [Threads -> DOMAIN nodes \cup {NULL}]
      /\ h \in [DOMAIN nodes -> Nat]
  BY NodeIs DEF Inductive, Typed, Levels
<1>1. pc[t] \in Halfway => h[Left(t)] = h[Right(t)]
  BY DEF Levels
<1>2. CASE QuietStep(t)
  <2>1. nodes' = nodes /\ pc'[t] \notin Halfway
    BY <1>2, QuietStepGoes
  <2> QED
    BY <2>1, LevelsStay
<1>3. CASE MarkStep(t)
  <2>1. /\ DOMAIN nodes' = DOMAIN nodes
        /\ \A n \in DOMAIN nodes : nodes'[n].parent = nodes[n].parent
    BY <1>3, MarkStepGoes DEF Alike
  <2>2. ASSUME pc'[t] \in Halfway
        PROVE  h[Left(t)'] = h[Right(t)']
    <3> USE <1>0, <2>2 DEF Goto, Return, Halfway, Left, Right
    <3>1. CASE LockBorder(t) \/ AlreadyExists(t) \/ Unlock(t)
      BY <3>1 DEF LockBorder, AlreadyExists, Unlock
    <3>2. CASE LeaveRoot(t) \/ LeaveSibling(t) \/ LeaveNode(t) \/ LeaveNode1(t) \/ LeaveParent(t)
      BY <3>2 DEF LeaveRoot, LeaveSibling, LeaveNode, LeaveNode1, LeaveParent
    <3>3. CASE LockParent(t)
      BY <1>1, <3>3 DEF LockParent
    <3>4. CASE ShiftParent(t)
      BY <1>1, <3>4 DEF ShiftParent, loc
    <3>5. CASE SplitParent(t)
      BY <1>1, <3>5 DEF SplitParent, loc
    <3>6. CASE TearParent(t)
      BY <1>1, <3>6 DEF TearParent, loc
    <3>7. CASE AscendParent(t)
      BY <1>1, <3>7 DEF AscendParent
    <3> QED
      BY <1>3, <3>1, <3>2, <3>3, <3>4, <3>5, <3>6, <3>7 DEF MarkStep
  <2> QED
    BY <2>1, <2>2, LevelsStay
<1>4. CASE CasRoot(t)
  <2> DEFINE q == Len(nodes) + 1
  <2>1. pc'[t] \notin Halfway
    BY <1>0, <1>4 DEF CasRoot, Goto, Return, Halfway
  <2>2. CASE nodes' = nodes
    BY <2>1, <2>2, LevelsStay
  <2>3. CASE nodes' # nodes
    <3>1. /\ q \notin DOMAIN nodes /\ DOMAIN nodes' = DOMAIN nodes \cup {q}
          /\ \A n \in DOMAIN nodes : nodes'[n] = nodes[n]
          /\ nodes'[q] = Border([NewVersion EXCEPT !.is_root = TRUE], {key[t]})
      BY <1>4, <2>3, CasRootGoes
    <3>2. nodes'[q].parent = NULL
      BY <3>1 DEF Border
    <3> HIDE DEF q
    <3>3. PICK g : g = [n \in DOMAIN nodes' |-> IF n = q THEN 0 ELSE h[n]]
      OBVIOUS
    <3>4. g \in [DOMAIN nodes' -> Nat] /\ g[q] = 0 /\ \A n \in DOMAIN nodes : g[n] = h[n]
      BY <1>0, <3>1, <3>3
    <3> QED
      BY <2>1, <3>1, <3>2, <3>4, LevelsIf
  <2> QED
    BY <2>2, <2>3
<1>5. CASE InsertToBorder(t)
  <2>1. pc'[t] \notin Halfway
    BY <1>0, <1>5 DEF InsertToBorder, Goto, Halfway
  <2>2. /\ DOMAIN nodes' = DOMAIN nodes
        /\ \A n \in DOMAIN nodes : n # node[t] => nodes'[n] = nodes[n]
        /\ nodes'[node[t]] = [nodes[node[t]] EXCEPT !.slots = @ \cup {key[t]}]
    BY <1>5, InsertToBorderGoes
  <2>3. \A n \in DOMAIN nodes : nodes'[n].parent = nodes[n].parent
    BY <1>0, <2>2 DEF Node
  <2> QED
    BY <2>1, <2>2, <2>3, LevelsStay
<1>6. CASE Split(t)
  <2> DEFINE b == node[t]
             q == Len(nodes) + 1
             v == [V(b) EXCEPT !.splitting = TRUE]
  <2>1. /\ b \in DOMAIN nodes /\ q \notin DOMAIN nodes /\ sib'[t] = q
        /\ DOMAIN nodes' = DOMAIN nodes \cup {q}
        /\ \A n \in DOMAIN nodes : n # b => nodes'[n] = nodes[n]
        /\ nodes'[b] = [nodes[b] EXCEPT !.version = v, !.torn = TRUE]
        /\ nodes'[q] = Border(v, {})
    BY <1>6, SplitGoes
  <2>2. pc'[t] = "splitKeys" /\ node'[t] = b /\ nodes[b].border
    BY <1>0, <1>6 DEF Split, Goto, Inductive, Places, OnBorder
  <2>3. nodes'[q].parent = NULL
    BY <2>1 DEF Border
  <2> HIDE DEF q, v, b
  <2>4. \A n \in DOMAIN nodes : nodes'[n].parent = nodes[n].parent
    BY <1>0, <2>1 DEF Node
  <2>5. PICK g : g = [n \in DOMAIN nodes' |-> IF n = q THEN 0 ELSE h[n]]
    OBVIOUS
  <2>6. g \in [DOMAIN nodes' -> Nat] /\ g[q] = 0 /\ \A n \in DOMAIN nodes : g[n] = h[n]
    BY <1>0, <2>1, <2>5
  <2>7. g[Left(t)'] = g[Right(t)']
    BY <2>1, <2>2, <2>6 DEF Left, Right, Levels
  <2>8. \A n \in DOMAIN nodes' \ DOMAIN nodes :
          nodes'[n].parent = NULL /\ (nodes'[n].border => g[n] = 0)
    BY <2>1, <2>3, <2>6
  <2> QED
    BY <2>4, <2>6, <2>7, <2>8, LevelsIf
<1>7. CASE SplitKeys(t)
  <2> DEFINE b == node[t]
             q == sib[t]
             left == LeftOf(nodes[b].slots, key[t])
             right == (nodes[b].slots \cup {key[t]}) \ left
  <2>1. /\ b \in DOMAIN nodes /\ q \in DOMAIN nodes /\ b # q
        /\ DOMAIN nodes' = DOMAIN nodes
        /\ \A n \in DOMAIN nodes : n # b /\ n # q => nodes'[n] = nodes[n]
        /\ nodes'[b] = [nodes[b] EXCEPT !.slots = left, !.torn = FALSE, !.next = q]
        /\ nodes'[q] = [nodes[q] EXCEPT !.slots = right, !.next = nodes[b].next]
    BY <1>7, SplitKeysGoes
  <2>2. pc[t] \in Halfway /\ Left(t)' = Left(t) /\ Right(t)' = Right(t)
    BY <1>0, <1>7 DEF SplitKeys, Goto, Halfway, Left, Right
  <2> HIDE DEF left, right, b, q
  <2>3. ASSUME NEW n \in DOMAIN nodes
        PROVE  nodes'[n].parent = nodes[n].parent
    <3>1. CASE n = b
      BY <1>0, <2>1, <3>1 DEF Node
    <3>2. CASE n = q
      BY <1>0, <2>1, <3>2 DEF Node
    <3>3. CASE n # b /\ n # q
      BY <2>1, <3>3
    <3> QED
      BY <3>1, <3>2, <3>3
  <2> QED
    BY <1>1, <2>1, <2>2, <2>3, LevelsStay
<1>8. CASE NewRoot(t)
  <2> DEFINE b == node[t]
             q == sib[t]
             r == Len(nodes) + 1
             z == Interior([NewVersion EXCEPT !.is_root = TRUE], <<up[t]>>, <<b, q>>)
  <2>1. /\ b \in DOMAIN nodes /\ q \in DOMAIN nodes /\ b # q /\ r \notin DOMAIN nodes
        /\ DOMAIN nodes' = DOMAIN nodes \cup {r}
        /\ \A n \in DOMAIN nodes : n # b /\ n # q => nodes'[n] = nodes[n]
        /\ nodes'[b] = [nodes[b] EXCEPT !.parent = r, !.version.is_root = FALSE]
        /\ nodes'[q] = [nodes[q] EXCEPT !.parent = r, !.version.is_root = FALSE]
        /\ nodes'[r] = z
    BY <1>8, NewRootGoes
  <2>2. pc'[t] \notin Halfway /\ h[b] = h[q]
    BY <1>0, <1>1, <1>8 DEF NewRoot, Goto, Halfway, Left, Right
  <2>3. ~z.border /\ z.parent = NULL
    BY DEF Interior
  <2> HIDE DEF q, b, r, z
  <2>4. \A n \in DOMAIN nodes : nodes'[n].parent = IF n \in {b, q} THEN r ELSE nodes[n].parent
    BY <1>0, <2>1 DEF Node
  <2>5. PICK g : g = [n \in DOMAIN nodes' |-> IF n = r THEN h[b] + 1 ELSE h[n]]
    OBVIOUS
  <2>6. h[b] \in Nat
    BY <1>0, <2>1
  <2>7. g \in [DOMAIN nodes' -> Nat] /\ g[r] = h[b] + 1 /\ \A n \in DOMAIN nodes : g[n] = h[n]
    BY <1>0, <2>1, <2>5, <2>6
  <2>8. \A n \in DOMAIN nodes : nodes'[n].parent = nodes[n].parent \/ g[nodes'[n].parent] = h[n] + 1
    BY <2>2, <2>4, <2>7
  <2>9. \A n \in DOMAIN nodes' \ DOMAIN nodes :
          nodes'[n].parent = NULL /\ (nodes'[n].border => g[n] = 0)
    BY <2>1, <2>3
  <2> QED
    BY <2>2, <2>7, <2>8, <2>9, LevelsIf
<1>9. CASE IntoParent(t)
  <2> DEFINE b == node[t]
             q == sib[t]
             p == par[t]
             i == ChildIndex(p, b)
             s == InsertAt(nodes[p].seps, i, up[t])
             c == InsertAt(nodes[p].children, i + 1, q)
  <2>1. /\ DOMAIN nodes' = DOMAIN nodes
        /\ \A n \in DOMAIN nodes : n # p /\ n # q => nodes'[n] = nodes[n]
        /\ nodes'[q] = [nodes[q] EXCEPT !.parent = p]
        /\ nodes'[p] = [nodes[p] EXCEPT !.torn = FALSE, !.seps = s, !.children = c]
    BY <1>9, IntoParentGoes
  <2>2. pc[t] = "intoParent" /\ pc'[t] \notin Halfway /\ h[b] = h[q]
    BY <1>0, <1>1, <1>9 DEF IntoParent, Goto, Halfway, Left, Right
  <2>3. b \in DOMAIN nodes /\ nodes[b].parent = p /\ p # NULL /\ p \in DOMAIN nodes /\ p # q
    BY <2>2, HasParent, NodeIs, Constants DEF Inductive
  <2>4. h[p] = h[q] + 1
    BY <2>2, <2>3 DEF Levels
  <2> HIDE DEF q, b, p, s, c
  <2>5. ASSUME NEW n \in DOMAIN nodes
        PROVE  nodes'[n].parent = IF n = q THEN p ELSE nodes[n].parent
    <3>1. CASE n = p
      BY <1>0, <2>1, <2>3, <3>1 DEF Node
    <3>2. CASE n = q
      BY <1>0, <2>1, <3>2 DEF Node
    <3>3. CASE n # p /\ n # q
      BY <2>1, <3>3
    <3> QED
      BY <3>1, <3>2, <3>3
  <2>6. \A n \in DOMAIN nodes : nodes'[n].parent = nodes[n].parent \/ h[nodes'[n].parent] = h[n] + 1
    BY <2>4, <2>5
  <2> QED
    BY <1>0, <2>1, <2>2, <2>6, LevelsIf
<1>10. CASE FillParent(t)
  <2> DEFINE q == sib[t]
             p == par[t]
             r == Len(nodes) + 1
             Placed(n) == IF n \in Moved(t) THEN r ELSE IF n \in Stay(t) THEN p
                          ELSE nodes[n].parent
             s == SubSeq(Seps(t), 1, Middle - 1)
             c == SubSeq(Shared(t), 1, Middle)
             s1 == SubSeq(Seps(t), Middle + 1, ORDER)
             c1 == SubSeq(Shared(t), Middle + 1, ORDER + 1)
  <2>1. /\ p \in DOMAIN nodes /\ r \notin DOMAIN nodes /\ DOMAIN nodes' = DOMAIN nodes \cup {r}
        /\ par1' = [par1 EXCEPT ![t] = r]
        /\ \A n \in DOMAIN nodes : n # p => nodes'[n] = [nodes[n] EXCEPT !.parent = Placed(n)]
        /\ nodes'[p] = [nodes[p] EXCEPT !.parent = Placed(p), !.seps = s, !.children = c,
                                        !.torn = FALSE]
        /\ nodes'[r] = Interior(V(p), s1, c1)
    BY <1>10, FillParentGoes
  <2>2. /\ pc[t] = "fillParent" /\ pc'[t] = "ascendParent" /\ par1'[t] = r /\ par'[t] = p
        /\ h[node[t]] = h[q]
    BY <1>0, <1>1, <1>10, <2>1 DEF FillParent, Goto, Halfway, Left, Right
  <2>3. nodes'[r].parent = NULL /\ ~nodes'[r].border
    BY <2>1 DEF Interior
  <2>4. /\ Moved(t) \cup Stay(t) = Kids(p) \cup {q}
        /\ \A n \in Kids(p) : n \in DOMAIN nodes /\ nodes[n].parent = p
    <3>1. Moved(t) \cup Stay(t) = Kids(p) \cup {q} /\ Kids(p) \subseteq DOMAIN nodes
      BY <2>2, SharedIs
    <3> QED
      BY <2>1, <3>1 DEF Inductive, Family
  <2>5. node[t] \in DOMAIN nodes /\ nodes[node[t]].parent = p /\ p # NULL
    BY <2>2, HasParent, NodeIs, Constants DEF Inductive
  <2>6. h[p] = h[q] + 1 /\ \A n \in Kids(p) : h[p] = h[n] + 1
    BY <2>2, <2>4, <2>5 DEF Levels
  <2> HIDE DEF q, p, r, s, c, s1, c1, Placed
  <2>7. \A n \in DOMAIN nodes : nodes'[n].parent = Placed(n)
    BY <1>0, <2>1 DEF Node
  <2>8. PICK g : g = [n \in DOMAIN nodes' |-> IF n = r THEN h[p] ELSE h[n]]
    OBVIOUS
  <2>9. h[p] \in Nat
    BY <1>0, <2>1
  <2>10. g \in [DOMAIN nodes' -> Nat] /\ g[r] = h[p] /\ \A n \in DOMAIN nodes : g[n] = h[n]
    BY <1>0, <2>1, <2>8, <2>9
  <2>11. ASSUME NEW n \in DOMAIN nodes
         PROVE  nodes'[n].parent = nodes[n].parent \/ g[nodes'[n].parent] = h[n] + 1
    BY <2>1, <2>4, <2>6, <2>7, <2>10 DEF Placed
  <2>12. g[Left(t)'] = g[Right(t)']
    BY <2>1, <2>2, <2>10 DEF Left, Right
  <2>13. \A n \in DOMAIN nodes' \ DOMAIN nodes :
           nodes'[n].parent = NULL /\ (nodes'[n].border => g[n] = 0)
    BY <2>1, <2>3
  <2> QED
    BY <2>10, <2>11, <2>12, <2>13, LevelsIf
<1> QED
  BY <1>2, <1>3, <1>4, <1>5, <1>6, <1>7, <1>8, <1>9, <1>10, StepIs DEF TreeStep

\* All border nodes are equally far below the root and a parent is one level
\* above its child, through every split and every new root, whichever splits
\* are in progress: create_root_with_children and split() raise the tree evenly.
THEOREM TreeIsBalanced == Spec => []Balanced
<1>1. Init => Balanced
  <2> SUFFICES ASSUME Init PROVE Balanced
    OBVIOUS
  <2>1. DOMAIN nodes = {} /\ \A t \in Threads : pc[t] \notin Halfway
    BY DEF Init, Halfway
  <2>2. PICK h : h = [n \in DOMAIN nodes |-> 0]
    OBVIOUS
  <2>3. Levels(h)
    BY <2>1, <2>2 DEF Levels
  <2> QED
    BY <2>3 DEF Balanced
<1>2. Inductive /\ Balanced /\ [Next]_vars => Balanced'
  <2> SUFFICES ASSUME Inductive, Balanced, [Next]_vars PROVE Balanced'
    OBVIOUS
  <2>1. PICK h : Levels(h)
    BY DEF Balanced
  <2>2. ASSUME NEW t \in Threads, Step(t) PROVE Balanced'
    BY <2>1, <2>2, LevelsStep DEF Balanced
  <2>3. CASE UNCHANGED vars
    <3>1. nodes' = nodes /\ pc' = pc /\ node' = node /\ sib' = sib /\ par' = par /\ par1' = par1
      BY <2>3 DEF vars, loc
    <3>2. Levels(h)'
      BY <2>1, <3>1 DEF Levels, Left, Right
    <3> QED
      BY <3>2 DEF Balanced
  <2> QED
    BY <2>2, <2>3, NextIsStep
<1> QED
  BY <1>1, <1>2, Invariance, PTL DEF Spec

\* split() locks a parent while it holds the two nodes below it: the locks are
\* taken bottom up, a level at a time, and lock() of a border node is called
\* with none held, so no threads can wait for each other's node locks in a ring.
THEOREM NoCircularWait == Spec => []LocksGoUp
<1>1. Inductive /\ Balanced => LocksGoUp
  <2> SUFFICES ASSUME Inductive, NEW h, Levels(h) PROVE LocksGoUp
    BY DEF Balanced
  <2>1. ASSUME NEW t \in Threads
        PROVE  /\ pc[t] = "lock" => Held(t) = {}
               /\ pc[t] = "ascend" /\ nodes[node[t]].parent # NULL =>
                    \A n \in Held(t) : h[n] < h[nodes[node[t]].parent]
    <3>1. pc[t] = "lock" => Held(t) = {}
      BY DEF Held
    <3>2. ASSUME pc[t] = "ascend", nodes[node[t]].parent # NULL, NEW n \in Held(t)
          PROVE  h[n] < h[nodes[node[t]].parent]
      <4>1. n = node[t] \/ n = sib[t]
        BY <3>2 DEF Held
      <4>2. node[t] \in DOMAIN nodes
        BY <3>2 DEF Inductive, Places, WithNode, Halfway
      <4>3. h[node[t]] = h[sib[t]] /\ h[node[t]] \in Nat
        BY <3>2, <4>2 DEF Levels, Left, Right, Halfway
      <4>4. h[nodes[node[t]].parent] = h[node[t]] + 1
        BY <3>2, <4>2 DEF Levels
      <4> QED
        BY <4>1, <4>3, <4>4
    <3> QED
      BY <3>1, <3>2
  <2> QED
    BY <2>1 DEF Levels, LocksGoUp
<1> QED
  BY <1>1, Invariance, TreeIsBalanced, PTL
=============================================================================
