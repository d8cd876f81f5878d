------------------------ MODULE MasstreeRangeProofs ------------------------
(***************************************************************************)
(* Proofs about what Masstree promises to its callers: a key is inserted   *)
(* once, and a get finds the keys inserted before it, as long as none of   *)
(* the races that "faults" names has been lost.                            *)
(*                                                                         *)
(* Every node has a range of keys.  The nodes do not record it: a range is *)
(* something that exists, and that every step extends or narrows.  A split *)
(* narrows the range of the left node and gives the rest to the right one; *)
(* the parent goes on counting both as the left one's ("end") until it     *)
(* learns of the right one.  Whoever read a node's version when the key    *)
(* was in its range, and finds that version unchanged, has the key in its  *)
(* range still.                                                            *)
(***************************************************************************)
EXTENDS MasstreeProofs
-----------------------------------------------------------------------------
(* The invariant.                                                           *)

\* No insert has gone to a border node that a split has moved its key out of.
Trusted == faults \cap {"missedSplit", "staleDescent"} = {}

\* x is below e, which is a key, or NULL when there is no bound.
Under(x, e) == e = NULL \/ x < e

\* The keys of a node are those from "from" up to "to"; its parent knows them,
\* with those of a right node that has still to be linked, as up to "end".
Range0 == [from : Nat, to : Nat \cup {NULL}, end : Nat \cup {NULL}]

\* The pair of a split that the parent knows as one; the sibling that has no
\* keys yet; a parent whose children are being moved.
Paired == Halfway \ {"splitKeys", "fillParent"}

Fresh(n)   == \E t \in Threads : pc[t] = "splitKeys" /\ n = sib[t]
Filling(p) == \E t \in Threads : pc[t] = "fillParent" /\ p = par[t]

\* The separators s and the children c divide the range of p.
Rises(s)       == \A i, j \in DOMAIN s : i < j => s[i] < s[j]
Meets(s, c, g) == \A i \in DOMAIN s : g[c[i]].end = s[i] /\ g[c[i + 1]].from = s[i]

Fits(s, c, p, g) ==
    /\ Rises(s) /\ Meets(s, c, g)
    /\ g[c[1]].from = g[p].from /\ g[c[Len(c)]].end = g[p].to

\* Ranges are not empty, and a border node keeps its keys in its range.
Filled(n, g) ==
    /\ Under(g[n].from, g[n].to)
    /\ nodes[n].border => \A x \in nodes[n].slots : g[n].from <= x /\ Under(x, g[n].to)

\* The next border node begins where this one ends, with a key of its own.
Chained(n, g) ==
    nodes[n].border /\ ~Fresh(n) =>
        LET m == nodes[n].next IN
        IF m = NULL THEN g[n].to = NULL ELSE g[n].to = g[m].from /\ g[m].from \in nodes[m].slots

\* A root covers all keys, and a parent's children what it covers.
Topmost(n, g) == nodes[n].parent = NULL /\ ~Unlinked(n) => g[n].from = 0 /\ g[n].end = NULL

Divided(n, g) ==
    ~nodes[n].border /\ ~Filling(n) => Fits(nodes[n].seps, nodes[n].children, n, g)

\* The parent knows a node's range, unless the node is the left one of a pair.
Known(n, g) == (\A t \in Threads : pc[t] \in Paired => n # Left(t)) => g[n].to = g[n].end

Ranged(n, g) ==
    Filled(n, g) /\ Chained(n, g) /\ Topmost(n, g) /\ Divided(n, g) /\ Known(n, g)

\* Two border nodes have no key in common.
Before(g, n, m) == g[n].to # NULL /\ g[n].to <= g[m].from

Disjoint(g) ==
    \A n, m \in DOMAIN nodes :
        n # m /\ nodes[n].border /\ nodes[m].border /\ ~Fresh(n) /\ ~Fresh(m) =>
            Before(g, n, m) \/ Before(g, m, n)

\* What the sibling is going to be; the two nodes of a pair; the children that
\* are being moved.
RightKeys(t) ==
    LET S == nodes[node[t]].slots IN (S \cup {key[t]}) \ LeftOf(S, key[t])

Born(t, g) ==
    pc[t] = "splitKeys" =>
        /\ g[sib[t]].from = Min(RightKeys(t)) /\ g[sib[t]].to = g[node[t]].to
        /\ nodes[sib[t]].slots = {} /\ nodes[sib[t]].next = NULL

Joined(t, g) ==
    pc[t] \in Paired =>
        /\ g[Left(t)].to = up[t] /\ g[Right(t)].from = up[t]
        /\ g[Right(t)].to = g[Left(t)].end

Moving(t, g) == pc[t] = "fillParent" => Fits(Seps(t), Shared(t), par[t], g)

Ranges(g) ==
    /\ g \in [DOMAIN nodes -> Range0]
    /\ \A n \in DOMAIN nodes : Ranged(n, g)
    /\ Disjoint(g)
    /\ \A t \in Threads : Born(t, g) /\ Joined(t, g) /\ Moving(t, g)

\* t's node has not been split, or has not changed, since t read its version.
SameSplit(t) == V(node[t]).v_split = ver[t].v_split /\ ~V(node[t]).splitting
Unmoved(t)   == /\ SameSplit(t)
                /\ V(node[t]).v_insert = ver[t].v_insert /\ ~V(node[t]).inserting

Descending == {"descend", "childVersion", "check", "revalidate", "lock"}
HasVersion == Descending \cup {"search", "found", "notFound", "walk"}

\* A version was stable when it was read, and counters only grow.
NotAhead(v, w) == Stable(v) /\ v.v_split <= w.v_split /\ v.v_insert <= w.v_insert

Behind(t) ==
    /\ pc[t] \in HasVersion => NotAhead(ver[t], V(node[t]))
    /\ pc[t] = "check" => NotAhead(cver[t], V(child[t]))

\* The key t looks for is in the range of the node it is at, or that node has
\* been split since t read its version.
Searches(t, g) ==
    /\ pc[t] \in Descending => /\ g[node[t]].from <= key[t]
                               /\ SameSplit(t) => Under(key[t], g[node[t]].to)
    /\ pc[t] \in {"childVersion", "check"} =>
         /\ ~nodes[node[t]].border
         /\ Unmoved(t) => child[t] = findChild(node[t], key[t])
    /\ pc[t] \in {"locked", "splitKeys"} =>
         g[node[t]].from <= key[t] /\ Under(key[t], g[node[t]].to)

\* The same of a get, unless it has read the lowest key of a torn node.
Gets(t, g) ==
    /\ pc[t] \in Getting => g[node[t]].from <= key[t]
    /\ pc[t] = "search" /\ SameSplit(t) => Under(key[t], g[node[t]].to)
    /\ pc[t] = "notFound" /\ SameSplit(t) => key[t] \notin seen[t]

Guided(g) ==
    \A t \in Threads : Searches(t, g) /\ ("tornNext" \notin faults => Gets(t, g))

\* Keys that have been inserted, by calls that have returned and that have not.
Stored(k) == \E n \in DOMAIN nodes : k \in nodes[n].slots

Adding == {"unlock", "ascend", "leaveRoot", "leaveSibling", "storeRoot", "shiftParent",
           "intoParent", "leaveNode", "leaveNode1", "leaveParent", "splitParent", "tearParent",
           "fillParent", "ascendParent"}

Counted ==
    /\ \A t \in Threads : seen[t] \subseteq Done
    /\ \A k \in Done : Stored(k) /\ returned[k] = 1
    /\ \A t \in Threads : pc[t] \in Adding => Stored(key[t]) /\ returned[key[t]] = 0
    /\ \A t, u \in Threads : pc[t] \in Adding /\ pc[u] \in Adding /\ t # u => key[t] # key[u]

Answered ==
    faults \cap {"unseenSplit", "tornNext"} = {} =>
        \A t \in Threads : got[t] = "null" => key[t] \notin seen[t]

\* Roots have no parent, and a split of the root makes two of them for a while.
Roots ==
    /\ root = NULL => nodes = <<>>
    /\ \A n \in DOMAIN nodes : V(n).is_root => nodes[n].parent = NULL
    /\ \A t \in Threads : pc[t] \in Halfway => (V(Left(t)).is_root <=> V(Right(t)).is_root)

\* Searches begin at a node that has the lowest keys, also when it has been
\* split, or is under a newer root, by then.
Leading(g) ==
    /\ root # NULL => g[root].from = 0
    /\ \A t \in Threads : pc[t] \in {"leaveRoot", "leaveSibling", "storeRoot"} => g[par[t]].from = 0

Promise ==
    /\ Inductive /\ Roots /\ \A t \in Threads : Behind(t)
    /\ Trusted => Counted /\ Answered /\ \E g : Ranges(g) /\ Guided(g) /\ Leading(g)

-----------------------------------------------------------------------------
(* Versions.                                                                *)

\* A node's lock has one holder.
LEMMA HeldOnce ==
    ASSUME Inductive, NEW t \in Threads, NEW u \in Threads, NEW n, n \in Held(t), n \in Held(u)
    PROVE  t = u
BY DEF Inductive, LocksHeld

\* No thread marks a node as splitting and as inserting at once.
LEMMA NotBoth ==
    ASSUME Inductive, NEW t \in Threads
    PROVE  Splitting(t) \cap Inserting(t) = {}
<1>1. Apart(t)
  BY DEF Inductive
<1> QED
  BY <1>1 DEF Apart, Splitting, Inserting, WithSib

\* From v to w a node's version has gone on: marks are cleared by counting.
Onward(v, w) ==
    /\ v.v_split <= w.v_split /\ v.v_insert <= w.v_insert
    /\ w.v_split = v.v_split /\ ~w.splitting => ~v.splitting
    /\ w.v_split = v.v_split /\ w.v_insert = v.v_insert /\ ~w.splitting /\ ~w.inserting =>
         ~v.inserting

\* Marks may be set, and unlock counts what they stood for.
LEMMA OnwardSame ==
    ASSUME NEW v \in Version, NEW w \in Version,
           w.v_split = v.v_split, w.v_insert = v.v_insert,
           v.splitting => w.splitting, v.inserting => w.inserting
    PROVE  Onward(v, w)
BY DEF Onward, Version

LEMMA OnwardUnlock ==
    ASSUME NEW v \in Version, ~(v.splitting /\ v.inserting)
    PROVE  Onward(v, Unlocked(v))
<1>1. /\ Unlocked(v).v_insert = IF v.inserting THEN v.v_insert + 1 ELSE v.v_insert
      /\ Unlocked(v).v_split = IF ~v.inserting /\ v.splitting THEN v.v_split + 1 ELSE v.v_split
  BY UnlockedIs
<1>2. v.v_split \in Nat /\ v.v_insert \in Nat /\ v.splitting \in BOOLEAN /\ v.inserting \in BOOLEAN
  BY DEF Version
<1>3. CASE v.splitting
  BY <1>1, <1>2, <1>3 DEF Onward
<1>4. CASE v.inserting
  BY <1>1, <1>2, <1>4 DEF Onward
<1>5. CASE ~v.splitting /\ ~v.inserting
  BY <1>1, <1>2, <1>5 DEF Onward
<1> QED
  BY <1>3, <1>4, <1>5

\* The holder's unlock takes a version onward, and no other.
LEMMA UnlockGoesOn ==
    ASSUME Inductive, NEW t \in Threads, NEW m \in Held(t),
           \A n \in DOMAIN nodes : n # m => nodes'[n].version = V(n),
           nodes'[m].version = Unlocked(V(m))
    PROVE  \A n \in DOMAIN nodes : Onward(V(n), nodes'[n].version)
<1>1. m \in DOMAIN nodes /\ (V(m).splitting <=> m \in Splitting(t))
      /\ (V(m).inserting <=> m \in Inserting(t))
  BY OwnMarks
<1>2. Onward(V(m), nodes'[m].version)
  BY <1>1, NotBoth, NodeIs, OnwardUnlock DEF Inductive
<1>3. ASSUME NEW n \in DOMAIN nodes, n # m PROVE Onward(V(n), nodes'[n].version)
  BY <1>3, NodeIs, OnwardSame DEF Inductive
<1> QED
  BY <1>2, <1>3

\* A reader that finds a version unchanged finds what goes with it unchanged.
Onwards(n) ==
    /\ Onward(V(n), nodes'[n].version)
    /\ \/ nodes'[n].seps = nodes[n].seps /\ nodes'[n].children = nodes[n].children
       \/ nodes'[n].version.splitting \/ nodes'[n].version.inserting

\* Nothing happens to a node; its marks are set; it is unlocked; it is locked.
LEMMA SameOnwards ==
    ASSUME Inductive, NEW n \in DOMAIN nodes, nodes'[n].version = V(n),
           nodes'[n].seps = nodes[n].seps, nodes'[n].children = nodes[n].children
    PROVE  Onwards(n)
BY NodeIs, OnwardSame DEF Inductive, Onwards

LEMMA MarkedOnwards ==
    ASSUME Inductive, NEW n \in DOMAIN nodes, NEW v \in Version, nodes'[n].version = v,
           v.v_split = V(n).v_split, v.v_insert = V(n).v_insert,
           V(n).splitting => v.splitting, V(n).inserting => v.inserting,
           \/ nodes'[n].seps = nodes[n].seps /\ nodes'[n].children = nodes[n].children
           \/ v.splitting \/ v.inserting
    PROVE  Onwards(n)
BY NodeIs, OnwardSame DEF Inductive, Onwards

LEMMA UnlockOnwards ==
    ASSUME Inductive, NEW t \in Threads, NEW m \in Held(t), nodes' = UnlockNode(nodes, m)
    PROVE  \A n \in DOMAIN nodes : Onwards(n)
<1>1. m \in DOMAIN nodes /\ nodes \in Seq(Node)
  BY OwnMarks DEF Inductive, Typed
<1>2. /\ \A n \in DOMAIN nodes : n # m => nodes'[n] = nodes[n]
      /\ Alike(nodes'[m], nodes[m]) /\ nodes'[m].version = Unlocked(V(m))
  BY <1>1, UnlockNodeIs DEF V
<1>3. \A n \in DOMAIN nodes : n # m => nodes'[n].version = V(n)
  BY <1>2 DEF V
<1>4. \A n \in DOMAIN nodes : Onward(V(n), nodes'[n].version)
  BY <1>2, <1>3, UnlockGoesOn
<1> QED
  BY <1>2, <1>4 DEF Onwards, Alike

LEMMA LockOnwards ==
    ASSUME Inductive, NEW m \in DOMAIN nodes, nodes' = LockNode(nodes, m)
    PROVE  \A n \in DOMAIN nodes : Onwards(n)
<1>1. nodes \in Seq(Node) /\ V(m) \in Version
  BY NodeIs DEF Inductive, Typed
<1>2. /\ \A n \in DOMAIN nodes : n # m => nodes'[n] = nodes[n]
      /\ Alike(nodes'[m], nodes[m]) /\ nodes'[m].version = [V(m) EXCEPT !.locked = TRUE]
  BY <1>1, LockNodeIs DEF V
<1>3. Onwards(m)
  <2> DEFINE v == [V(m) EXCEPT !.locked = TRUE]
  <2>1. /\ v \in Version /\ v.v_split = V(m).v_split /\ v.v_insert = V(m).v_insert
        /\ V(m).splitting => v.splitting
        /\ V(m).inserting => v.inserting
    BY <1>1 DEF Version
  <2>2. nodes'[m].version = v
    BY <1>2
  <2> HIDE DEF v
  <2> QED
    BY <1>2, <2>1, <2>2, MarkedOnwards DEF Alike
<1>4. \A n \in DOMAIN nodes : n # m => Onwards(n)
  BY <1>2, SameOnwards DEF V
<1> QED
  BY <1>3, <1>4

LEMMA MarkStepOnwards ==
    ASSUME Inductive, NEW t \in Threads, MarkStep(t)
    PROVE  \A n \in DOMAIN nodes : Onwards(n)
<1>0. /\ Places(t) /\ nodes \in Seq(Node) /\ Held(t) \subseteq DOMAIN nodes
      /\ \A n \in DOMAIN nodes : Shape(n)
  BY OwnMarks DEF Inductive, Typed
<1>1. CASE LockBorder(t)
  BY <1>0, <1>1, LockOnwards DEF LockBorder, Places, WithNode, OnBorder
<1>2. CASE LockParent(t)
  <2>1. node[t] \in DOMAIN nodes
    BY <1>0, <1>2 DEF LockParent, Places, WithNode, Halfway
  <2>2. nodes[node[t]].parent \in DOMAIN nodes
    BY <1>0, <1>2, <2>1 DEF LockParent, Shape
  <2>3. nodes' = LockNode(nodes, nodes[node[t]].parent)
    BY <1>2 DEF LockParent
  <2> QED
    BY <2>2, <2>3, LockOnwards
<1>3. CASE \/ AlreadyExists(t) \/ Unlock(t) \/ LeaveRoot(t) \/ LeaveSibling(t)
           \/ LeaveNode(t) \/ LeaveNode1(t) \/ LeaveParent(t) \/ AscendParent(t)
  <2>1. \E m \in Held(t) : nodes' = UnlockNode(nodes, m)
    <3>1. CASE AlreadyExists(t) \/ Unlock(t) \/ LeaveRoot(t) \/ LeaveNode(t)
      <4>1. node[t] \in Held(t) /\ nodes' = UnlockNode(nodes, node[t])
        BY <3>1 DEF AlreadyExists, Unlock, LeaveRoot, LeaveNode, Held
      <4> QED
        BY <4>1
    <3>2. CASE LeaveSibling(t) \/ LeaveNode1(t) \/ AscendParent(t)
      <4>1. sib[t] \in Held(t) /\ nodes' = UnlockNode(nodes, sib[t])
        BY <3>2 DEF LeaveSibling, LeaveNode1, AscendParent, Held
      <4> QED
        BY <4>1
    <3>3. CASE LeaveParent(t)
      <4>1. par[t] \in Held(t) /\ nodes' = UnlockNode(nodes, par[t])
        BY <3>3 DEF LeaveParent, Held
      <4> QED
        BY <4>1
    <3> QED
      BY <1>3, <3>1, <3>2, <3>3
  <2> QED
    BY <2>1, UnlockOnwards
<1>4. CASE ShiftParent(t) \/ SplitParent(t)
  <2> DEFINE p == par[t]
  <2>1. p \in DOMAIN nodes /\ nodes[p] \in Node /\ V(p) \in Version
    <3>1. p \in DOMAIN nodes
      BY <1>0, <1>4 DEF ShiftParent, SplitParent, Places, WithPar
    <3> QED
      BY <3>1, NodeIs DEF Inductive
  <2>2. \E v \in Version : \E b \in BOOLEAN :
          /\ v.v_split = V(p).v_split /\ v.v_insert = V(p).v_insert
          /\ V(p).splitting => v.splitting
          /\ V(p).inserting => v.inserting
          /\ nodes' = [nodes EXCEPT ![p] = [nodes[p] EXCEPT !.version = v, !.torn = b]]
    <3>1. CASE ShiftParent(t)
      <4> DEFINE v == [V(p) EXCEPT !.inserting = TRUE]
      <4>1. /\ v \in Version /\ v.v_split = V(p).v_split /\ v.v_insert = V(p).v_insert
            /\ V(p).splitting => v.splitting
            /\ V(p).inserting => v.inserting
        BY <2>1 DEF Version
      <4>2. nodes' = [nodes EXCEPT ![p] = [nodes[p] EXCEPT !.version = v, !.torn = TRUE]]
        BY <2>1, <3>1 DEF ShiftParent, V
      <4> HIDE DEF v
      <4> QED
        BY <4>1, <4>2
    <3>2. CASE SplitParent(t)
      <4> DEFINE v == [V(p) EXCEPT !.splitting = TRUE]
      <4>1. /\ v \in Version /\ v.v_split = V(p).v_split /\ v.v_insert = V(p).v_insert
            /\ V(p).splitting => v.splitting
            /\ V(p).inserting => v.inserting
        BY <2>1 DEF Version
      <4>2. nodes' = [nodes EXCEPT ![p] = [nodes[p] EXCEPT !.version = v]]
        BY <2>1, <3>2 DEF SplitParent, V
      <4>3. nodes[p].torn \in BOOLEAN
        BY <2>1 DEF Node
      <4>4. [nodes[p] EXCEPT !.version = v] = [nodes[p] EXCEPT !.version = v, !.torn = nodes[p].torn]
        <5> HIDE DEF v
        <5> QED
          BY <2>1 DEF Node
      <4> HIDE DEF v
      <4> QED
        BY <4>1, <4>2, <4>3, <4>4
    <3> QED
      BY <1>4, <3>1, <3>2
  <2> HIDE DEF p
  <2>3. PICK v \in Version : \E b \in BOOLEAN :
          /\ v.v_split = V(p).v_split /\ v.v_insert = V(p).v_insert
          /\ V(p).splitting => v.splitting
          /\ V(p).inserting => v.inserting
          /\ nodes' = [nodes EXCEPT ![p] = [nodes[p] EXCEPT !.version = v, !.torn = b]]
    BY <2>2
  <2>4. /\ \A n \in DOMAIN nodes : n # p => nodes'[n] = nodes[n]
        /\ nodes'[p].version = v /\ nodes'[p].seps = nodes[p].seps
        /\ nodes'[p].children = nodes[p].children
    BY <2>1, <2>3 DEF Node
  <2>5. Onwards(p)
    BY <2>1, <2>3, <2>4, MarkedOnwards
  <2>6. \A n \in DOMAIN nodes : n # p => Onwards(n)
    BY <2>4, SameOnwards DEF V
  <2> QED
    BY <2>5, <2>6
<1>5. CASE TearParent(t)
  <2> DEFINE b == node[t]
             p == par[t]
             ns == UnlockNode(nodes, b)
  <2>1. b \in Held(t) /\ b \in DOMAIN nodes /\ p \in DOMAIN nodes /\ nodes' = [ns EXCEPT ![p].torn = TRUE]
    BY <1>0, <1>5 DEF TearParent, Held
  <2>2. /\ ns \in Seq(Node) /\ DOMAIN ns = DOMAIN nodes
        /\ \A n \in DOMAIN nodes : n # b => ns[n] = nodes[n]
        /\ Alike(ns[b], nodes[b]) /\ ns[b].version = Unlocked(V(b))
    BY <1>0, <2>1, UnlockNodeIs DEF V
  <2> HIDE DEF b, p, ns
  <2>3. \A n \in DOMAIN nodes : ns[n] \in Node
    BY <2>2
  <2>4. \A n \in DOMAIN nodes : /\ nodes'[n].version = ns[n].version
                                /\ nodes'[n].seps = ns[n].seps /\ nodes'[n].children = ns[n].children
    BY <2>1, <2>2, <2>3 DEF Node
  <2>5. /\ \A n \in DOMAIN nodes : n # b => nodes'[n].version = V(n)
        /\ nodes'[b].version = Unlocked(V(b))
    BY <2>1, <2>2, <2>4 DEF V
  <2>6. \A n \in DOMAIN nodes : Onward(V(n), nodes'[n].version)
    BY <2>1, <2>5, UnlockGoesOn
  <2> QED
    BY <2>2, <2>4, <2>6 DEF Onwards, Alike
<1> QED
  BY <1>1, <1>2, <1>3, <1>4, <1>5 DEF MarkStep

LEMMA TreeStepOnwards ==
    ASSUME Inductive, NEW t \in Threads, TreeStep(t)
    PROVE  \A n \in DOMAIN nodes : Onwards(n)
<1>0. /\ Places(t) /\ nodes \in Seq(Node) /\ Held(t) \subseteq DOMAIN nodes
      /\ \A n \in DOMAIN nodes : nodes[n] \in Node /\ V(n) \in Version
  BY OwnMarks, NodeIs DEF Inductive, Typed
<1>1. CASE CasRoot(t)
  <2>1. \A n \in DOMAIN nodes : nodes'[n] = nodes[n]
    BY <1>1, CasRootGoes
  <2> QED
    BY <2>1, SameOnwards DEF V
<1>2. CASE InsertToBorder(t)
  <2> DEFINE b == node[t]
             S == nodes[b].slots \cup {key[t]}
  <2>1. /\ b \in DOMAIN nodes
        /\ \A n \in DOMAIN nodes : n # b => nodes'[n] = nodes[n]
        /\ nodes'[b] = [nodes[b] EXCEPT !.slots = S]
    BY <1>2, InsertToBorderGoes
  <2> HIDE DEF b, S
  <2>2. \A n \in DOMAIN nodes : /\ nodes'[n].version = nodes[n].version
                                /\ nodes'[n].seps = nodes[n].seps
                                /\ nodes'[n].children = nodes[n].children
    BY <1>0, <2>1 DEF Node
  <2> QED
    BY <2>2, SameOnwards DEF V
<1>3. CASE Split(t)
  <2> DEFINE b == node[t]
             v == [V(b) EXCEPT !.splitting = TRUE]
  <2>1. /\ b \in DOMAIN nodes
        /\ \A n \in DOMAIN nodes : n # b => nodes'[n] = nodes[n]
        /\ nodes'[b] = [nodes[b] EXCEPT !.version = v, !.torn = TRUE]
    BY <1>3, SplitGoes
  <2>2. /\ v \in Version /\ v.v_split = V(b).v_split /\ v.v_insert = V(b).v_insert
        /\ v.splitting /\ (V(b).inserting => v.inserting)
    BY <1>0, <2>1 DEF Version
  <2> HIDE DEF b, v
  <2>3. nodes'[b].version = v /\ nodes'[b].seps = nodes[b].seps /\ nodes'[b].children = nodes[b].children
    BY <1>0, <2>1 DEF Node
  <2>4. Onwards(b)
    BY <2>1, <2>2, <2>3, MarkedOnwards
  <2>5. \A n \in DOMAIN nodes : n # b => Onwards(n)
    BY <2>1, SameOnwards DEF V
  <2> QED
    BY <2>4, <2>5
<1>4. CASE SplitKeys(t)
  <2> DEFINE b == node[t]
             q == sib[t]
             left == LeftOf(nodes[b].slots, key[t])
             right == (nodes[b].slots \cup {key[t]}) \ left
  <2>1. /\ b \in DOMAIN nodes /\ q \in DOMAIN nodes /\ b # q
        /\ \A n \in DOMAIN nodes : n # b /\ n # q => nodes'[n] = nodes[n]
        /\ nodes'[b] = [nodes[b] EXCEPT !.slots = left, !.torn = FALSE, !.next = q]
        /\ nodes'[q] = [nodes[q] EXCEPT !.slots = right, !.next = nodes[b].next]
    BY <1>4, SplitKeysGoes
  <2> HIDE DEF b, q, left, right
  <2>2. ASSUME NEW n \in DOMAIN nodes
        PROVE  /\ nodes'[n].version = nodes[n].version
               /\ nodes'[n].seps = nodes[n].seps /\ nodes'[n].children = nodes[n].children
    <3>1. CASE n = b
      BY <1>0, <2>1, <3>1 DEF Node
    <3>2. CASE n = q
      BY <1>0, <2>1, <3>2 DEF Node
    <3>3. CASE n # b /\ n # q
      BY <2>1, <3>3
    <3> QED
      BY <3>1, <3>2, <3>3
  <2> QED
    BY <2>2, SameOnwards DEF V
<1>5. CASE NewRoot(t)
  <2> DEFINE b == node[t]
             q == sib[t]
             r == Len(nodes) + 1
  <2>1. /\ b \in DOMAIN nodes /\ q \in DOMAIN nodes /\ b # q
        /\ \A n \in DOMAIN nodes : n # b /\ n # q => nodes'[n] = nodes[n]
        /\ nodes'[b] = [nodes[b] EXCEPT !.parent = r, !.version.is_root = FALSE]
        /\ nodes'[q] = [nodes[q] EXCEPT !.parent = r, !.version.is_root = FALSE]
    BY <1>5, NewRootGoes
  <2> HIDE DEF b, q, r
  <2>2. ASSUME NEW n \in {b, q}
        PROVE  Onwards(n)
    <3>1. n \in DOMAIN nodes /\ nodes'[n] = [nodes[n] EXCEPT !.parent = r, !.version.is_root = FALSE]
      BY <2>1, <2>2
    <3> DEFINE v == [V(n) EXCEPT !.is_root = FALSE]
    <3>2. /\ v \in Version /\ v.v_split = V(n).v_split /\ v.v_insert = V(n).v_insert
          /\ V(n).splitting => v.splitting
          /\ V(n).inserting => v.inserting
      BY <1>0, <3>1 DEF Version
    <3>3. nodes'[n].version = v /\ nodes'[n].seps = nodes[n].seps
          /\ nodes'[n].children = nodes[n].children
      BY <1>0, <3>1 DEF Node, V
    <3> HIDE DEF v
    <3> QED
      BY <3>1, <3>2, <3>3, MarkedOnwards
  <2>3. \A n \in DOMAIN nodes : n # b /\ n # q => Onwards(n)
    BY <2>1, SameOnwards DEF V
  <2> QED
    BY <2>2, <2>3
<1>6. CASE IntoParent(t)
  <2> DEFINE q == sib[t]
             p == par[t]
             s == InsertAt(nodes[p].seps, ChildIndex(p, node[t]), up[t])
             c == InsertAt(nodes[p].children, ChildIndex(p, node[t]) + 1, q)
  <2>1. /\ \A n \in DOMAIN nodes : n # p /\ n # q => nodes'[n] = nodes[n]
        /\ nodes'[q] = [nodes[q] EXCEPT !.parent = p]
        /\ nodes'[p] = [nodes[p] EXCEPT !.torn = FALSE, !.seps = s, !.children = c]
    BY <1>6, IntoParentGoes
  <2>2. pc[t] = "intoParent" /\ p \in DOMAIN nodes /\ q \in DOMAIN nodes /\ p # q
    BY <1>6, HasParent DEF IntoParent
  <2>3. V(p).inserting
    BY <2>2, OwnMarks DEF Inserting
  <2> HIDE DEF q, p, s, c
  <2>4. ASSUME NEW n \in DOMAIN nodes
        PROVE  /\ nodes'[n].version = nodes[n].version
               /\ n # p => nodes'[n].seps = nodes[n].seps /\ nodes'[n].children = nodes[n].children
    <3>1. CASE n = p
      BY <1>0, <2>1, <3>1 DEF Node
    <3>2. CASE n = q
      BY <1>0, <2>1, <2>2, <3>2 DEF Node
    <3>3. CASE n # p /\ n # q
      BY <2>1, <3>3
    <3> QED
      BY <3>1, <3>2, <3>3
  <2>5. Onwards(p)
    BY <1>0, <2>2, <2>3, <2>4, OnwardSame DEF Onwards, V
  <2>6. \A n \in DOMAIN nodes : n # p => Onwards(n)
    BY <2>4, SameOnwards DEF V
  <2> QED
    BY <2>5, <2>6
<1>7. CASE FillParent(t)
  <2> DEFINE p == par[t]
             r == Len(nodes) + 1
             Placed(n) == IF n \in Moved(t) THEN r ELSE IF n \in Stay(t) THEN p
                          ELSE nodes[n].parent
             s == SubSeq(Seps(t), 1, Middle - 1)
             c == SubSeq(Shared(t), 1, Middle)
  <2>1. /\ p \in DOMAIN nodes
        /\ \A n \in DOMAIN nodes : n # p => nodes'[n] = [nodes[n] EXCEPT !.parent = Placed(n)]
        /\ nodes'[p] = [nodes[p] EXCEPT !.parent = Placed(p), !.seps = s, !.children = c,
                                        !.torn = FALSE]
    BY <1>7, FillParentGoes
  <2>2. V(p).splitting
    BY <1>7, <2>1, OwnMarks DEF Splitting, FillParent
  <2> HIDE DEF p, r, s, c, Placed
  <2>3. ASSUME NEW n \in DOMAIN nodes
        PROVE  /\ nodes'[n].version = nodes[n].version
               /\ n # p => nodes'[n].seps = nodes[n].seps /\ nodes'[n].children = nodes[n].children
    <3>1. CASE n = p
      BY <1>0, <2>1, <3>1 DEF Node
    <3>2. CASE n # p
      BY <1>0, <2>1, <3>2 DEF Node
    <3> QED
      BY <3>1, <3>2
  <2>4. Onwards(p)
    BY <1>0, <2>1, <2>2, <2>3, OnwardSame DEF Onwards, V
  <2>5. \A n \in DOMAIN nodes : n # p => Onwards(n)
    BY <2>3, SameOnwards DEF V
  <2> QED
    BY <2>4, <2>5
<1> QED
  BY <1>1, <1>2, <1>3, <1>4, <1>5, <1>6, <1>7 DEF TreeStep

\* Every step takes every version onward, and changes an interior node only
\* under a mark.
LEMMA StepOnwards ==
    ASSUME Inductive, NEW t \in Threads, Step(t)
    PROVE  \A n \in DOMAIN nodes : n \in DOMAIN nodes' /\ Onwards(n)
<1>1. CASE QuietStep(t)
  <2>1. nodes' = nodes
    BY <1>1, QuietStepGoes
  <2> QED
    BY <2>1, SameOnwards DEF V
<1>2. CASE MarkStep(t)
  BY <1>2, MarkStepOnwards, MarkStepGoes
<1>3. CASE TreeStep(t)
  BY <1>3, TreeStepOnwards, TreeStepHands
<1> QED
  BY <1>1, <1>2, <1>3, StepIs

\* A version that was read stays behind.
LEMMA NotAheadStays ==
    ASSUME NEW v \in Version, NEW w \in Version, NEW x \in Version, NotAhead(v, w), Onward(w, x)
    PROVE  NotAhead(v, x)
BY DEF NotAhead, Onward, Version

LEMMA BehindStays ==
    ASSUME Inductive, NEW t \in Threads, Step(t), NEW u \in Threads, Behind(u),
           pc'[u] \in HasVersion => node'[u] = node[u] /\ ver'[u] = ver[u] /\ pc[u] \in HasVersion,
           pc'[u] = "check" => child'[u] = child[u] /\ cver'[u] = cver[u] /\ pc[u] = "check"
    PROVE  Behind(u)'
<1>1. /\ Places(u) /\ ver[u] \in Version /\ cver[u] \in Version
      /\ \A n \in DOMAIN nodes : V(n) \in Version
  BY NodeIs DEF Inductive, Typed
<1>2. \A n \in DOMAIN nodes : Onward(V(n), nodes'[n].version) /\ nodes'[n].version \in Version
  <2>1. nodes' \in Seq(Node) /\ \A n \in DOMAIN nodes : n \in DOMAIN nodes' /\ Onwards(n)
    BY NodesGo, StepOnwards
  <2>2. \A n \in DOMAIN nodes' : nodes'[n] \in Node
    BY <2>1
  <2> QED
    BY <2>1, <2>2 DEF Onwards, Node
<1>3. ASSUME pc'[u] \in HasVersion
      PROVE  NotAhead(ver'[u], nodes'[node'[u]].version)
  <2>1. pc[u] \in HasVersion /\ ver'[u] = ver[u] /\ node'[u] = node[u] /\ node[u] \in DOMAIN nodes
    BY <1>1, <1>3 DEF Places, WithNode, HasVersion, Descending, OnBorder, Finding, Getting
  <2>2. NotAhead(ver[u], V(node[u]))
    BY <2>1 DEF Behind
  <2> QED
    BY <1>1, <1>2, <2>1, <2>2, NotAheadStays
<1>4. ASSUME pc'[u] = "check"
      PROVE  NotAhead(cver'[u], nodes'[child'[u]].version)
  <2>1. pc[u] = "check" /\ cver'[u] = cver[u] /\ child'[u] = child[u] /\ child[u] \in DOMAIN nodes
    BY <1>1, <1>4 DEF Places
  <2>2. NotAhead(cver[u], V(child[u]))
    BY <2>1 DEF Behind
  <2> QED
    BY <1>1, <1>2, <2>1, <2>2, NotAheadStays
<1> QED
  BY <1>3, <1>4 DEF Behind, V

\* What a reader holds is never ahead of the node.
LEMMA BehindStep ==
    ASSUME Inductive, NEW t \in Threads, Step(t), \A u \in Threads : Behind(u)
    PROVE  \A u \in Threads : Behind(u)'
<1>0. /\ pc \in [Threads -> PCs] /\ Places(t) /\ Behind(t)
      /\ ver \in [Threads -> Version] /\ cver \in [Threads -> Version]
      /\ node \in [Threads -> DOMAIN nodes \cup {NULL}]
      /\ child \in [Threads -> DOMAIN nodes \cup {NULL}]
      /\ \A n \in DOMAIN nodes : V(n) \in Version
  BY NodeIs DEF Inductive, Typed
<1>1. ASSUME NEW u \in Threads, u # t
      PROVE  Behind(u)'
  <2>1. Local(u)' = Local(u)
    BY <1>1, OthersSame DEF Inductive
  <2>2. pc'[u] = pc[u] /\ node'[u] = node[u] /\ ver'[u] = ver[u]
        /\ child'[u] = child[u] /\ cver'[u] = cver[u]
    BY <2>1 DEF Local
  <2> QED
    BY <2>2, BehindStays
<1>2. Behind(t)'
  <2>1. CASE QuietStep(t)
    <3>1. nodes' = nodes
      BY <2>1, QuietStepGoes
    <3> USE <1>0, <3>1 DEF Behind, HasVersion, Descending, V, Goto, Return
    <3>2. CASE Call(t) \/ LoadRoot(t) \/ StoreRoot(t)
      BY <3>2 DEF Call, LoadRoot, StoreRoot
    <3>3. CASE FindRoot(t)
      BY <3>3 DEF FindRoot, Places, Finding, NotAhead, Version
    <3>4. CASE AtBorder(t)
      BY <3>4 DEF AtBorder, loc
    <3>5. CASE Descend(t)
      BY <3>5 DEF Descend
    <3>6. CASE ChildVersion(t)
      BY <3>6 DEF ChildVersion, Places, NotAhead, Version
    <3>7. CASE Check(t)
      BY <3>7 DEF Check
    <3>8. CASE Revalidate(t)
      BY <3>8 DEF Revalidate, Places, WithNode, Finding, NotAhead, Version
    <3>9. CASE Search(t)
      BY <3>9 DEF Search, loc
    <3>10. CASE Verify(t)
      BY <3>10 DEF Verify, loc
    <3>11. CASE Forward(t)
      BY <3>11 DEF Forward, Places, WithNode, OnBorder, Getting, NotAhead, Version
    <3>12. CASE Walk(t)
      BY <3>12 DEF Walk
    <3> QED
      BY <2>1, <3>2, <3>3, <3>4, <3>5, <3>6, <3>7, <3>8, <3>9, <3>10, <3>11, <3>12
         DEF QuietStep, findBorder, masstree_get
  <2>2. CASE MarkStep(t) \/ TreeStep(t)
    <3>1. pc'[t] \notin HasVersion
      <4> USE <1>0 DEF HasVersion, Descending, Goto, Return
      <4>1. CASE \/ LockBorder(t) \/ AlreadyExists(t) \/ Unlock(t) \/ LeaveRoot(t) \/ LeaveSibling(t)
                 \/ LockParent(t) \/ ShiftParent(t)
        BY <4>1 DEF LockBorder, AlreadyExists, Unlock, LeaveRoot, LeaveSibling, LockParent, ShiftParent
      <4>2. CASE \/ LeaveNode(t) \/ LeaveNode1(t) \/ LeaveParent(t)
                 \/ SplitParent(t) \/ TearParent(t) \/ AscendParent(t)
        BY <4>2 DEF LeaveNode, LeaveNode1, LeaveParent, SplitParent, TearParent, AscendParent
      <4>3. CASE TreeStep(t)
        BY <4>3 DEF TreeStep, CasRoot, InsertToBorder, Split, SplitKeys, NewRoot, IntoParent, FillParent
      <4> QED
        BY <2>2, <4>1, <4>2, <4>3 DEF MarkStep
    <3>2. "check" \in HasVersion
      BY DEF HasVersion, Descending
    <3> QED
      BY <3>1, <3>2 DEF Behind
  <2> QED
    BY <2>1, <2>2, StepIs
<1> QED
  BY <1>1, <1>2

-----------------------------------------------------------------------------
(* Roots.                                                                   *)

\* Only a new root takes its children's place.
LEMMA IsRootStays ==
    ASSUME Inductive, NEW t \in Threads, Step(t), ~NewRoot(t)
    PROVE  \A n \in DOMAIN nodes : nodes'[n].version.is_root = V(n).is_root
<1>0. \A n \in DOMAIN nodes : nodes[n] \in Node /\ V(n) \in Version
  BY NodeIs DEF Inductive
<1>1. CASE QuietStep(t)
  BY <1>1, QuietStepGoes DEF V
<1>2. CASE MarkStep(t)
  BY <1>2, MarkStepGoes DEF V, Alike
<1>3. CASE CasRoot(t)
  BY <1>3, CasRootGoes DEF V
<1>4. CASE InsertToBorder(t)
  <2>1. /\ \A n \in DOMAIN nodes : n # node[t] => nodes'[n] = nodes[n]
        /\ node[t] \in DOMAIN nodes
        /\ nodes'[node[t]] = [nodes[node[t]] EXCEPT !.slots = @ \cup {key[t]}]
    BY <1>4, InsertToBorderGoes
  <2> QED
    BY <1>0, <2>1 DEF V, Node
<1>5. CASE Split(t)
  <2> DEFINE b == node[t]
             v == [V(b) EXCEPT !.splitting = TRUE]
  <2>1. /\ b \in DOMAIN nodes /\ \A n \in DOMAIN nodes : n # b => nodes'[n] = nodes[n]
        /\ nodes'[b] = [nodes[b] EXCEPT !.version = v, !.torn = TRUE]
    BY <1>5, SplitGoes
  <2>2. v.is_root = V(b).is_root
    BY <1>0, <2>1 DEF Version
  <2> HIDE DEF v, b
  <2>3. nodes'[b].version = v
    BY <1>0, <2>1 DEF Node
  <2> QED
    BY <2>1, <2>2, <2>3 DEF V
<1>6. CASE SplitKeys(t)
  <2> DEFINE b == node[t]
             q == sib[t]
             left == LeftOf(nodes[b].slots, key[t])
             right == (nodes[b].slots \cup {key[t]}) \ left
  <2>1. /\ b \in DOMAIN nodes /\ q \in DOMAIN nodes /\ b # q
        /\ \A n \in DOMAIN nodes : n # b /\ n # q => nodes'[n] = nodes[n]
        /\ nodes'[b] = [nodes[b] EXCEPT !.slots = left, !.torn = FALSE, !.next = q]
        /\ nodes'[q] = [nodes[q] EXCEPT !.slots = right, !.next = nodes[b].next]
    BY <1>6, SplitKeysGoes
  <2> HIDE DEF b, q, left, right
  <2>2. nodes'[b].version = nodes[b].version /\ nodes'[q].version = nodes[q].version
    BY <1>0, <2>1 DEF Node
  <2> QED
    BY <2>1, <2>2 DEF V
<1>7. CASE IntoParent(t)
  <2> DEFINE q == sib[t]
             p == par[t]
             s == InsertAt(nodes[p].seps, ChildIndex(p, node[t]), up[t])
             c == InsertAt(nodes[p].children, ChildIndex(p, node[t]) + 1, q)
  <2>1. /\ \A n \in DOMAIN nodes : n # p /\ n # q => nodes'[n] = nodes[n]
        /\ nodes'[q] = [nodes[q] EXCEPT !.parent = p]
        /\ nodes'[p] = [nodes[p] EXCEPT !.torn = FALSE, !.seps = s, !.children = c]
    BY <1>7, IntoParentGoes
  <2>2. p \in DOMAIN nodes /\ q \in DOMAIN nodes
    BY <1>7, HasParent DEF IntoParent
  <2> HIDE DEF p, q, s, c
  <2>3. nodes'[p].version = nodes[p].version /\ nodes'[q].version = nodes[q].version
    BY <1>0, <2>1, <2>2 DEF Node
  <2> QED
    BY <2>1, <2>3 DEF V
<1>8. CASE FillParent(t)
  <2> DEFINE p == par[t]
             r == Len(nodes) + 1
             Placed(n) == IF n \in Moved(t) THEN r ELSE IF n \in Stay(t) THEN p
                          ELSE nodes[n].parent
             s == SubSeq(Seps(t), 1, Middle - 1)
             c == SubSeq(Shared(t), 1, Middle)
  <2>1. /\ p \in DOMAIN nodes
        /\ \A n \in DOMAIN nodes : n # p => nodes'[n] = [nodes[n] EXCEPT !.parent = Placed(n)]
        /\ nodes'[p] = [nodes[p] EXCEPT !.parent = Placed(p), !.seps = s, !.children = c,
                                        !.torn = FALSE]
    BY <1>8, FillParentGoes
  <2> HIDE DEF p, r, Placed, s, c
  <2>2. \A n \in DOMAIN nodes : n # p => nodes'[n].version = nodes[n].version
    BY <1>0, <2>1 DEF Node
  <2>3. nodes'[p].version = nodes[p].version
    BY <1>0, <2>1 DEF Node
  <2> QED
    BY <2>2, <2>3 DEF V
<1> QED
  BY <1>1, <1>2, <1>3, <1>4, <1>5, <1>6, <1>7, <1>8, StepIs DEF TreeStep

\* The nodes get their parents from the steps that link a new node.
LEMMA ParentsStay ==
    ASSUME Inductive, NEW t \in Threads, Step(t)
    PROVE  \A n \in DOMAIN nodes :
             \/ nodes'[n].parent = nodes[n].parent
             \/ NewRoot(t) /\ n \in {node[t], sib[t]}
             \/ IntoParent(t) /\ n = sib[t]
             \/ FillParent(t) /\ n \in Kids(par[t]) \cup {sib[t]}
<1>0. \A n \in DOMAIN nodes : nodes[n] \in Node
  BY NodeIs DEF Inductive
<1>1. CASE QuietStep(t)
  BY <1>1, QuietStepGoes
<1>2. CASE MarkStep(t)
  BY <1>2, MarkStepGoes DEF Alike
<1>3. CASE CasRoot(t)
  BY <1>3, CasRootGoes
<1>4. CASE InsertToBorder(t)
  <2>1. /\ \A n \in DOMAIN nodes : n # node[t] => nodes'[n] = nodes[n]
        /\ node[t] \in DOMAIN nodes
        /\ nodes'[node[t]] = [nodes[node[t]] EXCEPT !.slots = @ \cup {key[t]}]
    BY <1>4, InsertToBorderGoes
  <2> QED
    BY <1>0, <2>1 DEF Node
<1>5. CASE Split(t)
  <2> DEFINE b == node[t]
             v == [V(b) EXCEPT !.splitting = TRUE]
  <2>1. /\ b \in DOMAIN nodes /\ \A n \in DOMAIN nodes : n # b => nodes'[n] = nodes[n]
        /\ nodes'[b] = [nodes[b] EXCEPT !.version = v, !.torn = TRUE]
    BY <1>5, SplitGoes
  <2> HIDE DEF v, b
  <2> QED
    BY <1>0, <2>1 DEF Node
<1>6. CASE SplitKeys(t)
  <2> DEFINE b == node[t]
             q == sib[t]
             left == LeftOf(nodes[b].slots, key[t])
             right == (nodes[b].slots \cup {key[t]}) \ left
  <2>1. /\ b \in DOMAIN nodes /\ q \in DOMAIN nodes /\ b # q
        /\ \A n \in DOMAIN nodes : n # b /\ n # q => nodes'[n] = nodes[n]
        /\ nodes'[b] = [nodes[b] EXCEPT !.slots = left, !.torn = FALSE, !.next = q]
        /\ nodes'[q] = [nodes[q] EXCEPT !.slots = right, !.next = nodes[b].next]
    BY <1>6, SplitKeysGoes
  <2> HIDE DEF b, q, left, right
  <2>2. nodes'[b].parent = nodes[b].parent /\ nodes'[q].parent = nodes[q].parent
    BY <1>0, <2>1 DEF Node
  <2> QED
    BY <2>1, <2>2
<1>7. CASE NewRoot(t)
  <2>1. \A n \in DOMAIN nodes : n # node[t] /\ n # sib[t] => nodes'[n] = nodes[n]
    BY <1>7, NewRootGoes
  <2> QED
    BY <1>7, <2>1
<1>8. CASE IntoParent(t)
  <2> DEFINE q == sib[t]
             p == par[t]
             s == InsertAt(nodes[p].seps, ChildIndex(p, node[t]), up[t])
             c == InsertAt(nodes[p].children, ChildIndex(p, node[t]) + 1, q)
  <2>1. /\ \A n \in DOMAIN nodes : n # p /\ n # q => nodes'[n] = nodes[n]
        /\ nodes'[p] = [nodes[p] EXCEPT !.torn = FALSE, !.seps = s, !.children = c]
    BY <1>8, IntoParentGoes
  <2>2. p \in DOMAIN nodes
    BY <1>8, HasParent DEF IntoParent
  <2> HIDE DEF p, s, c
  <2>3. nodes'[p].parent = nodes[p].parent
    BY <1>0, <2>1, <2>2 DEF Node
  <2> QED
    BY <1>8, <2>1, <2>3
<1>9. CASE FillParent(t)
  <2> DEFINE p == par[t]
             r == Len(nodes) + 1
             Placed(n) == IF n \in Moved(t) THEN r ELSE IF n \in Stay(t) THEN p
                          ELSE nodes[n].parent
             s == SubSeq(Seps(t), 1, Middle - 1)
             c == SubSeq(Shared(t), 1, Middle)
  <2>1. /\ p \in DOMAIN nodes
        /\ \A n \in DOMAIN nodes : n # p => nodes'[n] = [nodes[n] EXCEPT !.parent = Placed(n)]
        /\ nodes'[p] = [nodes[p] EXCEPT !.parent = Placed(p), !.seps = s, !.children = c,
                                        !.torn = FALSE]
    BY <1>9, FillParentGoes
  <2>2. Moved(t) \cup Stay(t) = Kids(p) \cup {sib[t]}
    BY <1>9, SharedIs DEF FillParent
  <2> HIDE DEF r, Placed, s, c, p
  <2>3. \A n \in DOMAIN nodes : nodes'[n].parent = Placed(n)
    BY <1>0, <2>1 DEF Node
  <2> QED
    BY <1>9, <2>2, <2>3 DEF Placed, p
<1> QED
  BY <1>1, <1>2, <1>3, <1>4, <1>5, <1>6, <1>7, <1>8, <1>9, StepIs DEF TreeStep

\* A node is allocated without a parent.
LEMMA NewNodesAre ==
    ASSUME Inductive, NEW t \in Threads, Step(t)
    PROVE  \A n \in DOMAIN nodes' : n \notin DOMAIN nodes => nodes'[n].parent = NULL
<1>1. CASE QuietStep(t)
  BY <1>1, QuietStepGoes
<1>2. CASE MarkStep(t)
  BY <1>2, MarkStepGoes
<1>3. CASE CasRoot(t)
  <2> DEFINE q == Len(nodes) + 1
             v == [NewVersion EXCEPT !.is_root = TRUE]
  <2>1. nodes' = nodes \/ (DOMAIN nodes' = DOMAIN nodes \cup {q} /\ nodes'[q] = Border(v, {key[t]}))
    BY <1>3, CasRootGoes
  <2>2. Border(v, {key[t]}).parent = NULL
    BY DEF Border
  <2> HIDE DEF q, v
  <2> QED
    BY <2>1, <2>2
<1>4. CASE InsertToBorder(t)
  BY <1>4, InsertToBorderGoes
<1>5. CASE Split(t)
  <2> DEFINE q == Len(nodes) + 1
             v == [V(node[t]) EXCEPT !.splitting = TRUE]
  <2>1. DOMAIN nodes' = DOMAIN nodes \cup {q} /\ nodes'[q] = Border(v, {})
    BY <1>5, SplitGoes
  <2>2. Border(v, {}).parent = NULL
    BY DEF Border
  <2> HIDE DEF q, v
  <2> QED
    BY <2>1, <2>2
<1>6. CASE SplitKeys(t)
  BY <1>6, SplitKeysGoes
<1>7. CASE NewRoot(t)
  <2> DEFINE r == Len(nodes) + 1
             x == Interior([NewVersion EXCEPT !.is_root = TRUE], <<up[t]>>, <<node[t], sib[t]>>)
  <2>1. DOMAIN nodes' = DOMAIN nodes \cup {r} /\ nodes'[r] = x
    BY <1>7, NewRootGoes
  <2>2. x.parent = NULL
    BY DEF Interior
  <2> HIDE DEF r, x
  <2> QED
    BY <2>1, <2>2
<1>8. CASE IntoParent(t)
  BY <1>8, IntoParentGoes
<1>9. CASE FillParent(t)
  <2> DEFINE r == Len(nodes) + 1
             x == Interior(V(par[t]), SubSeq(Seps(t), Middle + 1, ORDER),
                           SubSeq(Shared(t), Middle + 1, ORDER + 1))
  <2>1. DOMAIN nodes' = DOMAIN nodes \cup {r} /\ nodes'[r] = x
    BY <1>9, FillParentGoes
  <2>2. x.parent = NULL
    BY DEF Interior
  <2> HIDE DEF r, x
  <2> QED
    BY <2>1, <2>2
<1> QED
  BY <1>1, <1>2, <1>3, <1>4, <1>5, <1>6, <1>7, <1>8, <1>9, StepIs DEF TreeStep

\* The left node of a pair, which fillParent alone has unlocked.
LEMMA LeftIs ==
    ASSUME Inductive, NEW t \in Threads, pc[t] \in Halfway
    PROVE  /\ Left(t) \in DOMAIN nodes /\ Left(t) # Right(t)
           /\ pc[t] # "fillParent" => Left(t) \in Held(t)
           /\ pc[t] = "fillParent" => nodes[Left(t)].parent # NULL /\ nodes[Left(t)].parent = par[t]
<1>1. Places(t) /\ Apart(t) /\ Splits(t)
  BY DEF Inductive
<1>2. pc[t] # "fillParent" => Left(t) \in Held(t)
  BY DEF Halfway, Left, Held
<1>3. ASSUME pc[t] = "fillParent"
      PROVE  /\ Left(t) \in DOMAIN nodes /\ nodes[Left(t)].parent # NULL
             /\ nodes[Left(t)].parent = par[t] /\ Left(t) # Right(t)
  BY <1>3, HasParent, NodeIs, Constants DEF Left, Right, Inductive
<1>4. pc[t] # "fillParent" => Left(t) \in DOMAIN nodes /\ Left(t) # Right(t)
  BY <1>1, <1>2, OwnMarks DEF Apart, Left, Right, Halfway, WithSib
<1> QED
  BY <1>2, <1>3, <1>4

\* The roots: a step keeps what is known of them.
LEMMA RootsStep ==
    ASSUME Inductive, Roots, NEW t \in Threads, Step(t)
    PROVE  Roots'
<1>0. /\ pc \in [Threads -> PCs] /\ \A n \in DOMAIN nodes : nodes[n] \in Node /\ V(n) \in Version
      /\ root \in DOMAIN nodes \cup {NULL} /\ nodes \in Seq(Node) /\ Places(t)
      /\ par \in [Threads -> DOMAIN nodes \cup {NULL}]
      /\ sib \in [Threads -> DOMAIN nodes \cup {NULL}]
      /\ par1 \in [Threads -> DOMAIN nodes \cup {NULL}]
      /\ node \in [Threads -> DOMAIN nodes \cup {NULL}]
      /\ NULL \notin DOMAIN nodes
  BY NodeIs, Constants DEF Inductive, Typed
<1>1. root' = NULL => nodes' = <<>>
  <2> SUFFICES ASSUME root' = NULL PROVE nodes' = <<>>
    OBVIOUS
  <2>1. ~StoreRoot(t)
    BY <1>0 DEF StoreRoot, Places, WithPar
  <2>2. CASE QuietStep(t)
    <3>1. root' = root
      BY <2>1, <2>2 DEF QuietStep, Call, LoadRoot, findBorder, masstree_get, FindRoot, AtBorder, Descend,
            ChildVersion, Check, Revalidate, Search, Verify, Forward, Walk
    <3> QED
      BY <2>2, <3>1, QuietStepGoes DEF Roots
  <2>3. CASE MarkStep(t)
    <3>1. root' = root
      BY <2>3 DEF MarkStep, LockBorder, AlreadyExists, Unlock, LeaveRoot, LeaveSibling, LockParent,
            ShiftParent, LeaveNode, LeaveNode1, LeaveParent, SplitParent, TearParent, AscendParent
    <3>2. nodes = <<>>
      BY <3>1 DEF Roots
    <3>3. nodes' \in Seq(Node) /\ DOMAIN nodes' = DOMAIN nodes
      BY <2>3, MarkStepGoes
    <3> QED
      BY <3>2, <3>3
  <2>4. CASE TreeStep(t)
    <3>1. CASE CasRoot(t)
      <4>1. nodes' = nodes /\ root' = root
        <5>1. Len(nodes) + 1 # NULL
          BY <1>0, Constants
        <5> QED
          BY <3>1, <5>1, CasRootGoes
      <4> QED
        BY <4>1 DEF Roots
    <3>2. CASE ~CasRoot(t)
      <4>1. root' = root
        BY <2>4, <3>2 DEF TreeStep, InsertToBorder, Split, SplitKeys, NewRoot, IntoParent, FillParent
      <4>2. DOMAIN nodes = {}
        BY <4>1 DEF Roots
      <4>3. node[t] \notin DOMAIN nodes
        BY <4>2
      <4>4. ~InsertToBorder(t) /\ ~Split(t) /\ ~SplitKeys(t) /\ ~NewRoot(t)
        BY <4>3, InsertToBorderGoes, SplitGoes, SplitKeysGoes, NewRootGoes
      <4>5. ~IntoParent(t) /\ ~FillParent(t)
        BY <4>3, HasParent DEF IntoParent, FillParent
      <4> QED
        BY <2>4, <3>2, <4>4, <4>5 DEF TreeStep
    <3> QED
      BY <3>1, <3>2
  <2> QED
    BY <2>2, <2>3, <2>4, StepIs
<1>2. ASSUME NEW n \in DOMAIN nodes, V(n).is_root
      PROVE  nodes[n].parent = NULL
  BY <1>2 DEF Roots
<1>3. ASSUME NEW n \in DOMAIN nodes', nodes'[n].version.is_root
      PROVE  nodes'[n].parent = NULL
  <2>1. CASE n \notin DOMAIN nodes
    BY <2>1, NewNodesAre
  <2>2. CASE n \in DOMAIN nodes /\ NewRoot(t)
    <3> DEFINE b == node[t]
               q == sib[t]
               r == Len(nodes) + 1
    <3>1. /\ b \in DOMAIN nodes /\ q \in DOMAIN nodes /\ b # q
          /\ \A m \in DOMAIN nodes : m # b /\ m # q => nodes'[m] = nodes[m]
          /\ nodes'[b] = [nodes[b] EXCEPT !.parent = r, !.version.is_root = FALSE]
          /\ nodes'[q] = [nodes[q] EXCEPT !.parent = r, !.version.is_root = FALSE]
      BY <2>2, NewRootGoes
    <3>2. ~nodes'[b].version.is_root /\ ~nodes'[q].version.is_root
      <4> HIDE DEF b, q, r
      <4>1. V(b) \in Version /\ V(q) \in Version /\ nodes[b] \in Node /\ nodes[q] \in Node
        BY <1>0, <3>1
      <4>2. nodes'[b].version = [V(b) EXCEPT !.is_root = FALSE]
            /\ nodes'[q].version = [V(q) EXCEPT !.is_root = FALSE]
        BY <3>1, <4>1 DEF Node, V
      <4> QED
        BY <4>1, <4>2 DEF Version
    <3> HIDE DEF b, q, r
    <3> QED
      BY <1>2, <1>3, <2>2, <3>1, <3>2 DEF V
  <2>3. CASE n \in DOMAIN nodes /\ ~NewRoot(t)
    <3>1. V(n).is_root /\ nodes[n].parent = NULL
      BY <1>2, <1>3, <2>3, IsRootStays
    <3>2. CASE nodes'[n].parent # NULL
      <4>1. \/ IntoParent(t) /\ n = sib[t]
            \/ FillParent(t) /\ n \in Kids(par[t]) \cup {sib[t]}
        BY <2>3, <3>1, <3>2, ParentsStay
      <4>2. pc[t] \in {"intoParent", "fillParent"}
        BY <4>1 DEF IntoParent, FillParent
      <4>3. /\ node[t] \in DOMAIN nodes /\ nodes[node[t]].parent = par[t] /\ par[t] \in DOMAIN nodes
        BY <4>2, HasParent
      <4>4. n # sib[t]
        <5>1. V(Left(t)).is_root <=> V(Right(t)).is_root
          BY <4>2 DEF Roots, Halfway
        <5>2. Left(t) = node[t] /\ Right(t) = sib[t]
          BY <4>2 DEF Left, Right
        <5>3. ~V(node[t]).is_root
          BY <1>0, <1>2, <4>3
        <5> QED
          BY <3>1, <5>1, <5>2, <5>3
      <4>5. n \in Kids(par[t])
        BY <4>1, <4>4
      <4> QED
        BY <3>1, <4>3, <4>5, NoParent, <2>3
    <3> QED
      BY <3>2
  <2> QED
    BY <2>1, <2>2, <2>3
<1>4. ASSUME NEW u \in Threads, u # t, pc'[u] \in Halfway
      PROVE  nodes'[Left(u)'].version.is_root <=> nodes'[Right(u)'].version.is_root
  <2>1. pc[u] \in Halfway /\ Left(u)' = Left(u) /\ Right(u)' = Right(u)
    <3>1. Local(u)' = Local(u)
      BY <1>4, OthersSame DEF Inductive
    <3>2. pc'[u] = pc[u] /\ par'[u] = par[u] /\ node'[u] = node[u] /\ sib'[u] = sib[u]
          /\ par1'[u] = par1[u]
      BY <3>1 DEF Local
    <3> QED
      BY <1>4, <3>2 DEF Left, Right
  <2>2. Left(u) \in DOMAIN nodes /\ Right(u) \in DOMAIN nodes
    BY <2>1, LeftIs, RightIs
  <2>3. V(Left(u)).is_root <=> V(Right(u)).is_root
    BY <2>1 DEF Roots
  <2>4. CASE ~NewRoot(t)
    BY <2>1, <2>2, <2>3, <2>4, IsRootStays
  <2>5. CASE NewRoot(t)
    <3>1. /\ \A m \in DOMAIN nodes : m # node[t] /\ m # sib[t] => nodes'[m] = nodes[m]
          /\ nodes[node[t]].parent = NULL
      BY <2>5, NewRootGoes
    <3>2. Held(t) = {node[t], sib[t]} /\ pc[t] \in Halfway /\ Right(t) = sib[t]
      BY <2>5 DEF NewRoot, Held, Halfway, Right
    <3>3. Right(u) \notin {node[t], sib[t]}
      BY <1>4, <2>1, <3>2, RightIs, HeldOnce
    <3>4. nodes[sib[t]].parent = NULL
      BY <3>2, RightIs
    <3>5. Left(u) \notin {node[t], sib[t]}
      BY <1>4, <2>1, <3>1, <3>2, <3>4, LeftIs, HeldOnce
    <3> QED
      BY <2>1, <2>2, <2>3, <3>1, <3>3, <3>5 DEF V
  <2> QED
    BY <2>4, <2>5
<1>5. ASSUME pc'[t] \in Halfway
      PROVE  nodes'[Left(t)'].version.is_root <=> nodes'[Right(t)'].version.is_root
  <2>1. CASE Split(t)
    <3> DEFINE b == node[t]
               q == Len(nodes) + 1
               v == [V(b) EXCEPT !.splitting = TRUE]
    <3>1. /\ b \in DOMAIN nodes /\ q \notin DOMAIN nodes /\ sib'[t] = q
          /\ nodes'[b] = [nodes[b] EXCEPT !.version = v, !.torn = TRUE]
          /\ nodes'[q] = Border(v, {})
      BY <2>1, SplitGoes
    <3>2. Left(t)' = b /\ Right(t)' = q
      BY <1>0, <2>1, <3>1 DEF Split, Goto, Left, Right
    <3>3. nodes'[q].version = v
      BY <3>1 DEF Border
    <3> HIDE DEF b, q, v
    <3>4. nodes'[b].version = v
      BY <1>0, <3>1 DEF Node
    <3> QED
      BY <3>2, <3>3, <3>4
  <2>2. CASE FillParent(t)
    <3> DEFINE p == par[t]
               r == Len(nodes) + 1
               s1 == SubSeq(Seps(t), Middle + 1, ORDER)
               c1 == SubSeq(Shared(t), Middle + 1, ORDER + 1)
    <3>1. p \in DOMAIN nodes /\ par1' = [par1 EXCEPT ![t] = r] /\ nodes'[r] = Interior(V(p), s1, c1)
      BY <2>2, FillParentGoes
    <3>2. Left(t)' = p /\ Right(t)' = r
      BY <1>0, <2>2, <3>1 DEF FillParent, Goto, Left, Right
    <3>3. nodes'[r].version = V(p)
      BY <3>1 DEF Interior
    <3>4. nodes'[p].version.is_root = V(p).is_root
      BY <2>2, <3>1, IsRootStays DEF FillParent, NewRoot
    <3> QED
      BY <3>2, <3>3, <3>4
  <2>3. CASE ~Split(t) /\ ~FillParent(t)
    <3>1. ~NewRoot(t)
      BY <1>0, <1>5 DEF NewRoot, Goto, Halfway
    <3>2. pc[t] \in Halfway /\ Left(t)' = Left(t) /\ Right(t)' = Right(t)
      <4>1. CASE QuietStep(t)
        BY <1>5, <4>1, QuietStepGoes
      <4>2. CASE MarkStep(t)
        <5> USE <1>0, <1>5 DEF Goto, Return, Halfway, Left, Right
        <5>1. CASE LockBorder(t) \/ AlreadyExists(t) \/ Unlock(t)
          BY <5>1 DEF LockBorder, AlreadyExists, Unlock
        <5>2. CASE LeaveRoot(t) \/ LeaveSibling(t) \/ LeaveNode(t) \/ LeaveNode1(t) \/ LeaveParent(t)
          BY <5>2 DEF LeaveRoot, LeaveSibling, LeaveNode, LeaveNode1, LeaveParent
        <5>3. CASE LockParent(t)
          BY <5>3 DEF LockParent
        <5>4. CASE ShiftParent(t) \/ SplitParent(t) \/ TearParent(t)
          BY <5>4 DEF ShiftParent, SplitParent, TearParent, loc
        <5>5. CASE AscendParent(t)
          BY <5>5 DEF AscendParent
        <5> QED
          BY <4>2, <5>1, <5>2, <5>3, <5>4, <5>5 DEF MarkStep
      <4>3. CASE CasRoot(t) \/ InsertToBorder(t) \/ IntoParent(t)
        BY <1>0, <1>5, <4>3 DEF CasRoot, InsertToBorder, IntoParent, Goto, Return, Halfway
      <4>4. CASE SplitKeys(t)
        BY <1>0, <4>4 DEF SplitKeys, Goto, Halfway, Left, Right
      <4> QED
        BY <2>3, <3>1, <4>1, <4>2, <4>3, <4>4, StepIs DEF TreeStep
    <3>3. Left(t) \in DOMAIN nodes /\ Right(t) \in DOMAIN nodes
      BY <3>2, LeftIs, RightIs
    <3>4. V(Left(t)).is_root <=> V(Right(t)).is_root
      BY <3>2 DEF Roots
    <3> QED
      BY <3>1, <3>2, <3>3, <3>4, IsRootStays
  <2> QED
    BY <2>1, <2>2, <2>3
<1> QED
  BY <1>1, <1>3, <1>4, <1>5 DEF Roots, V

-----------------------------------------------------------------------------
(* Separators.                                                              *)

Inserted(s1, s, i, e, m) ==
    /\ DOMAIN s = 1 .. m /\ DOMAIN s1 = 1 .. m + 1
    /\ \A j \in 1 .. m + 1 : s1[j] = IF j < i THEN s[j] ELSE IF j = i THEN e ELSE s[j - 1]

\* The separators and children of insert_into_parent, position by position.
LEMMA InsertAtInserts ==
    ASSUME NEW S, NEW s \in Seq(S), NEW i \in 1 .. Len(s) + 1, NEW e \in S
    PROVE  /\ InsertAt(s, i, e) \in Seq(S) /\ Len(InsertAt(s, i, e)) = Len(s) + 1
           /\ Inserted(InsertAt(s, i, e), s, i, e, Len(s))
<1> DEFINE m == Len(s)
           s1 == InsertAt(s, i, e)
<1>0. m \in Nat /\ DOMAIN s = 1 .. m
  OBVIOUS
<1>1. s1 \in Seq(S) /\ Len(s1) = m + 1
  BY InsertAtIs
<1>2. DOMAIN s1 = 1 .. m + 1
  BY <1>1
<1>3. ASSUME NEW j \in 1 .. m + 1
      PROVE  s1[j] = IF j < i THEN s[j] ELSE IF j = i THEN e ELSE s[j - 1]
  <2>1. /\ s1[i] = e /\ \A l \in 1 .. m : l < i => s1[l] = s[l]
        /\ \A l \in 1 .. m : l >= i => s1[l + 1] = s[l]
    BY InsertAtIs
  <2> HIDE DEF s1
  <2>2. CASE j < i
    <3>1. j \in 1 .. m
      BY <2>2
    <3> QED
      BY <2>1, <2>2, <3>1
  <2>3. CASE j = i
    BY <2>1, <2>3
  <2>4. CASE j > i
    <3>1. j - 1 \in 1 .. m /\ j - 1 >= i /\ (j - 1) + 1 = j
      BY <2>4
    <3>2. s1[(j - 1) + 1] = s[j - 1]
      BY <2>1, <3>1
    <3> QED
      BY <2>4, <3>1, <3>2
  <2> QED
    BY <2>2, <2>3, <2>4
<1> QED
  BY <1>0, <1>1, <1>2, <1>3 DEF Inserted

\* Separators stay in order when one is inserted at its place.
LEMMA InsertedRises ==
    ASSUME NEW m \in Nat, NEW i \in 1 .. m + 1, NEW x \in Nat, NEW s, NEW s1,
           Inserted(s1, s, i, x, m), \A j \in 1 .. m : s[j] \in Nat, Rises(s),
           i > 1 => s[i - 1] < x, i <= m => x < s[i]
    PROVE  Rises(s1)
<1>0. /\ \A j, k \in 1 .. m : j < k => s[j] < s[k]
      /\ DOMAIN s1 = 1 .. m + 1
      /\ \A j \in 1 .. m + 1 : s1[j] = IF j < i THEN s[j] ELSE IF j = i THEN x ELSE s[j - 1]
  BY DEF Inserted, Rises
<1>1. ASSUME NEW j \in 1 .. m, j < i PROVE s[j] < x
  <2>1. i - 1 \in 1 .. m /\ i > 1 /\ j <= i - 1
    BY <1>0, <1>1
  <2>2. CASE j = i - 1
    BY <1>0, <2>1, <2>2
  <2>3. CASE j < i - 1
    <3>1. s[j] < s[i - 1] /\ s[i - 1] < x /\ s[j] \in Nat /\ s[i - 1] \in Nat
      BY <1>0, <2>1, <2>3
    <3> QED
      BY <1>0, <3>1
  <2> QED
    BY <1>0, <2>1, <2>2, <2>3
<1>2. ASSUME NEW j \in 1 .. m, j >= i PROVE x < s[j]
  <2>1. i \in 1 .. m
    BY <1>0, <1>2
  <2>2. CASE j = i
    BY <1>0, <2>1, <2>2
  <2>3. CASE i < j
    <3>1. s[i] < s[j] /\ x < s[i] /\ s[j] \in Nat /\ s[i] \in Nat
      BY <1>0, <2>1, <2>3
    <3> QED
      BY <1>0, <3>1
  <2> QED
    BY <1>0, <1>2, <2>1, <2>2, <2>3
<1>3. ASSUME NEW j \in 1 .. m + 1, NEW k \in 1 .. m + 1, j < k
      PROVE  s1[j] < s1[k]
  <2>1. CASE k < i
    <3>1. s1[j] = s[j] /\ s1[k] = s[k] /\ j \in 1 .. m /\ k \in 1 .. m
      BY <1>0, <1>3, <2>1
    <3> QED
      BY <1>0, <1>3, <3>1
  <2>2. CASE k = i
    <3>1. s1[j] = s[j] /\ s1[k] = x /\ j \in 1 .. m /\ j < i
      BY <1>0, <1>3, <2>2
    <3> QED
      BY <1>0, <1>1, <3>1
  <2>3. CASE k > i /\ j < i
    <3>1. s1[j] = s[j] /\ s1[k] = s[k - 1] /\ j \in 1 .. m /\ k - 1 \in 1 .. m /\ j < k - 1
      BY <1>0, <1>3, <2>3
    <3> QED
      BY <1>0, <3>1
  <2>4. CASE k > i /\ j = i
    <3>1. s1[j] = x /\ s1[k] = s[k - 1] /\ k - 1 \in 1 .. m /\ k - 1 >= i
      BY <1>0, <1>3, <2>4
    <3> QED
      BY <1>0, <1>2, <3>1
  <2>5. CASE k > i /\ j > i
    <3>1. s1[j] = s[j - 1] /\ s1[k] = s[k - 1] /\ j - 1 \in 1 .. m /\ k - 1 \in 1 .. m /\ j - 1 < k - 1
      BY <1>0, <1>3, <2>5
    <3> QED
      BY <1>0, <3>1
  <2> QED
    BY <1>0, <2>1, <2>2, <2>3, <2>4, <2>5
<1> QED
  BY <1>0, <1>3 DEF Rises

\* From g to h child i of c gives what is from x on to q.
Given(c, i, x, q, g, h) ==
    /\ \A j \in DOMAIN c : h[c[j]].from = g[c[j]].from /\ (j # i => h[c[j]].end = g[c[j]].end)
    /\ h[c[i]].end = x /\ h[q].from = x /\ h[q].end = g[c[i]].end

\* The separators s and the children c become s1 and c1.
Grown(s1, c1, s, c, m, i, x, q, g, h) ==
    /\ m \in Nat /\ i \in 1 .. m + 1
    /\ Inserted(s1, s, i, x, m) /\ Inserted(c1, c, i + 1, q, m + 1)
    /\ Meets(s, c, g) /\ Given(c, i, x, q, g, h)

SameEnds(c1, c, m, g, h) ==
    h[c1[1]].from = g[c[1]].from /\ h[c1[m + 2]].end = g[c[m + 1]].end

\* Where the child that was split was, its two halves meet.
LEMMA GrownMeets ==
    ASSUME NEW s, NEW c, NEW s1, NEW c1, NEW m, NEW i, NEW x, NEW q, NEW g, NEW h,
           Grown(s1, c1, s, c, m, i, x, q, g, h)
    PROVE  Meets(s1, c1, h) /\ SameEnds(c1, c, m, g, h)
<1>m. m \in Nat /\ i \in 1 .. m + 1
  BY DEF Grown
<1> USE <1>m
<1>0. /\ DOMAIN s = 1 .. m /\ DOMAIN s1 = 1 .. m + 1 /\ DOMAIN c = 1 .. m + 1
      /\ \A j \in 1 .. m + 1 : s1[j] = IF j < i THEN s[j] ELSE IF j = i THEN x ELSE s[j - 1]
      /\ \A j \in 1 .. m + 2 : c1[j] = IF j < i + 1 THEN c[j] ELSE IF j = i + 1 THEN q ELSE c[j - 1]
      /\ \A j \in 1 .. m : g[c[j]].end = s[j] /\ g[c[j + 1]].from = s[j]
      /\ \A j \in 1 .. m + 1 : h[c[j]].from = g[c[j]].from
      /\ \A j \in 1 .. m + 1 : j # i => h[c[j]].end = g[c[j]].end
      /\ h[c[i]].end = x /\ h[q].from = x /\ h[q].end = g[c[i]].end
  <2>1. m + 1 + 1 = m + 2
    OBVIOUS
  <2> QED
    BY <2>1 DEF Grown, Inserted, Meets, Given
<1> USE <1>0
<1>1. h[c1[1]].from = g[c[1]].from
  <2>1. c1[1] = c[1]
    OBVIOUS
  <2> QED
    BY <2>1
<1>2. h[c1[m + 2]].end = g[c[m + 1]].end
  <2>1. CASE i = m + 1
    <3>1. c1[m + 2] = q
      BY <2>1
    <3> QED
      BY <2>1, <3>1
  <2>2. CASE i < m + 1
    <3>1. c1[m + 2] = c[(m + 2) - 1] /\ (m + 2) - 1 = m + 1
      BY <2>2
    <3>2. h[c[m + 1]].end = g[c[m + 1]].end
      BY <2>2
    <3> QED
      BY <3>1, <3>2
  <2> QED
    BY <2>1, <2>2
<1>3. ASSUME NEW j \in 1 .. m + 1
      PROVE  h[c1[j]].end = s1[j] /\ h[c1[j + 1]].from = s1[j]
  <2>1. CASE j < i
    <3>1. j \in 1 .. m /\ j + 1 \in 1 .. m + 1 /\ j # i
      BY <2>1
    <3>2. c1[j] = c[j] /\ c1[j + 1] = c[j + 1] /\ s1[j] = s[j]
      BY <2>1, <3>1
    <3>3. h[c[j]].end = g[c[j]].end /\ h[c[j + 1]].from = g[c[j + 1]].from
      BY <3>1
    <3> QED
      BY <3>1, <3>2, <3>3
  <2>2. CASE j = i
    <3>1. c1[j] = c[j] /\ c1[j + 1] = q /\ s1[j] = x
      BY <2>2
    <3> QED
      BY <2>2, <3>1
  <2>3. CASE j = i + 1
    <3>1. i \in 1 .. m /\ j - 1 = i /\ j \in 1 .. m + 1
      BY <2>3
    <3>2. c1[j] = q /\ c1[j + 1] = c[(j + 1) - 1] /\ (j + 1) - 1 = j /\ s1[j] = s[j - 1]
      BY <2>3, <3>1
    <3>3. h[c[j]].from = g[c[j]].from /\ g[c[i]].end = s[i] /\ g[c[i + 1]].from = s[i]
      BY <3>1
    <3> QED
      BY <2>3, <3>1, <3>2, <3>3
  <2>4. CASE j > i + 1
    <3>1. j - 1 \in 1 .. m /\ (j - 1) + 1 = j /\ j - 1 # i /\ j - 1 \in 1 .. m + 1
      BY <2>4
    <3>2. c1[j] = c[j - 1] /\ c1[j + 1] = c[(j + 1) - 1] /\ (j + 1) - 1 = j /\ s1[j] = s[j - 1]
      BY <2>4, <3>1
    <3>3. h[c[j - 1]].end = g[c[j - 1]].end /\ h[c[j]].from = g[c[j]].from
      BY <3>1
    <3>4. g[c[j - 1]].end = s[j - 1] /\ g[c[(j - 1) + 1]].from = s[j - 1]
      BY <3>1
    <3> QED
      BY <3>1, <3>2, <3>3, <3>4
  <2> QED
    BY <2>1, <2>2, <2>3, <2>4
<1> QED
  BY <1>1, <1>2, <1>3 DEF Meets, SameEnds

\* A new right node q goes after the left one, whose end it takes.
LEMMA FitsInsert ==
    ASSUME NEW s \in Seq(Nat), NEW c \in Seq(Nat), Len(c) = Len(s) + 1,
           NEW i \in 1 .. Len(c), NEW x \in Nat, NEW q \in Nat,
           NEW p, NEW g, NEW h, Fits(s, c, p, g), Given(c, i, x, q, g, h),
           g[c[i]].from \in Nat, g[c[i]].from < x, Under(x, g[c[i]].end),
           h[p].from = g[p].from, h[p].to = g[p].to
    PROVE  Fits(InsertAt(s, i, x), InsertAt(c, i + 1, q), p, h)
<1> DEFINE s1 == InsertAt(s, i, x)
           c1 == InsertAt(c, i + 1, q)
           m == Len(s)
<1>1. m \in Nat /\ DOMAIN s = 1 .. m /\ DOMAIN c = 1 .. m + 1 /\ i \in 1 .. m + 1
      /\ \A j \in 1 .. m : s[j] \in Nat
  OBVIOUS
<1>2. Inserted(s1, s, i, x, m)
  <2>1. i \in 1 .. Len(s) + 1
    OBVIOUS
  <2> QED
    BY <2>1, InsertAtInserts
<1>3. Inserted(c1, c, i + 1, q, m + 1) /\ Len(c1) = m + 2
  <2>1. i + 1 \in 1 .. Len(c) + 1
    OBVIOUS
  <2>2. Inserted(c1, c, i + 1, q, Len(c)) /\ Len(c1) = Len(c) + 1
    BY <2>1, InsertAtInserts
  <2> QED
    BY <1>1, <2>2
<1>4. /\ Rises(s) /\ Meets(s, c, g)
      /\ g[c[1]].from = g[p].from /\ g[c[m + 1]].end = g[p].to
  BY DEF Fits
<1>5. i > 1 => s[i - 1] < x
  <2> SUFFICES ASSUME i > 1 PROVE s[i - 1] < x
    OBVIOUS
  <2>1. i - 1 \in 1 .. m /\ (i - 1) + 1 = i
    BY <1>1
  <2>2. g[c[(i - 1) + 1]].from = s[i - 1]
    BY <1>1, <1>4, <2>1 DEF Meets
  <2> QED
    BY <2>1, <2>2
<1>6. i <= m => x < s[i]
  <2> SUFFICES ASSUME i <= m PROVE x < s[i]
    OBVIOUS
  <2>1. i \in 1 .. m
    BY <1>1
  <2>2. g[c[i]].end = s[i] /\ s[i] \in Nat
    BY <1>1, <1>4, <2>1 DEF Meets
  <2> QED
    BY <2>2, Constants DEF Under
<1> HIDE DEF s1, c1, m
<1>7. Rises(s1)
  BY <1>1, <1>2, <1>4, <1>5, <1>6, InsertedRises
<1>8. Meets(s1, c1, h) /\ SameEnds(c1, c, m, g, h)
  <2>1. Grown(s1, c1, s, c, m, i, x, q, g, h)
    BY <1>1, <1>2, <1>3, <1>4 DEF Grown
  <2> QED
    BY <2>1, GrownMeets
<1> QED
  BY <1>3, <1>4, <1>7, <1>8 DEF Fits, SameEnds, s1, c1

\* s1 is l entries of s, from the one at a on.
Part(s1, s, a, l) == DOMAIN s1 = 1 .. l /\ \A j \in 1 .. l : s1[j] = s[a + j - 1]

\* The children keep their ranges.
Kept(c, g, h) == \A j \in DOMAIN c : h[c[j]].from = g[c[j]].from /\ h[c[j]].end = g[c[j]].end

Parted(s1, c1, s, c, m, a, b, g, h) ==
    /\ m \in Nat /\ a \in Nat /\ b \in Nat /\ 1 <= a /\ a < b /\ b <= m + 1
    /\ DOMAIN s = 1 .. m /\ DOMAIN c = 1 .. m + 1
    /\ Rises(s) /\ Meets(s, c, g) /\ Kept(c, g, h)
    /\ Part(s1, s, a, b - a) /\ Part(c1, c, a, b - a + 1)

CutEnds(c1, c, a, b) == c1[1] = c[a] /\ c1[b - a + 1] = c[b]

\* The separators and children of a part are divided as the whole was.
LEMMA PartedMeets ==
    ASSUME NEW s, NEW c, NEW s1, NEW c1, NEW m, NEW a, NEW b, NEW g, NEW h,
           Parted(s1, c1, s, c, m, a, b, g, h)
    PROVE  Rises(s1) /\ Meets(s1, c1, h) /\ CutEnds(c1, c, a, b)
<1>0. /\ m \in Nat /\ a \in Nat /\ b \in Nat /\ 1 <= a /\ a < b /\ b <= m + 1
      /\ DOMAIN s = 1 .. m /\ DOMAIN c = 1 .. m + 1
      /\ Rises(s) /\ Meets(s, c, g) /\ Kept(c, g, h)
      /\ Part(s1, s, a, b - a) /\ Part(c1, c, a, b - a + 1)
  BY DEF Parted
<1> USE <1>0
<1> USE DEF Rises, Meets, Kept, Part
<1>1. ASSUME NEW j \in 1 .. b - a, NEW k \in 1 .. b - a, j < k
      PROVE  s1[j] < s1[k]
  <2>1. a + j - 1 \in 1 .. m /\ a + k - 1 \in 1 .. m /\ a + j - 1 < a + k - 1
    BY <1>1
  <2>2. s[a + j - 1] < s[a + k - 1]
    BY <2>1
  <2> QED
    BY <2>2
<1>2. ASSUME NEW j \in 1 .. b - a
      PROVE  h[c1[j]].end = s1[j] /\ h[c1[j + 1]].from = s1[j]
  <2> DEFINE l == a + j - 1
  <2>1. l \in 1 .. m /\ l + 1 = a + (j + 1) - 1 /\ j + 1 \in 1 .. b - a + 1 /\ j \in 1 .. b - a + 1
        /\ l \in 1 .. m + 1 /\ l + 1 \in 1 .. m + 1
    OBVIOUS
  <2>2. c1[j] = c[l] /\ c1[j + 1] = c[l + 1] /\ s1[j] = s[l]
    BY <2>1
  <2> HIDE DEF l
  <2>3. g[c[l]].end = s[l] /\ g[c[l + 1]].from = s[l]
    BY <2>1
  <2>4. h[c[l]].end = g[c[l]].end /\ h[c[l + 1]].from = g[c[l + 1]].from
    BY <2>1
  <2> QED
    BY <2>2, <2>3, <2>4
<1>3. c1[1] = c[a] /\ c1[b - a + 1] = c[b]
  <2>1. 1 \in 1 .. b - a + 1 /\ b - a + 1 \in 1 .. b - a + 1 /\ a + 1 - 1 = a /\ a + (b - a + 1) - 1 = b
    OBVIOUS
  <2>2. c1[1] = c[a + 1 - 1] /\ c1[b - a + 1] = c[a + (b - a + 1) - 1]
    BY <2>1
  <2> QED
    BY <2>1, <2>2
<1> QED
  BY <1>1, <1>2, <1>3 DEF CutEnds

\* A part of the children, with the separators between them.
LEMMA FitsPart ==
    ASSUME NEW s \in Seq(Nat), NEW c \in Seq(Nat), Len(c) = Len(s) + 1,
           NEW a \in Nat, NEW b \in Nat, 1 <= a, a < b, b <= Len(c),
           NEW p, NEW g, Fits(s, c, p, g), NEW r, NEW h, Kept(c, g, h),
           h[r].from = g[c[a]].from, h[r].to = g[c[b]].end
    PROVE  Fits(SubSeq(s, a, b - 1), SubSeq(c, a, b), r, h)
<1> DEFINE s1 == SubSeq(s, a, b - 1)
           c1 == SubSeq(c, a, b)
           m == Len(s)
<1>1. m \in Nat /\ DOMAIN s = 1 .. m /\ DOMAIN c = 1 .. m + 1 /\ b <= m + 1
  OBVIOUS
<1>2. Part(s1, s, a, b - a)
  BY <1>1 DEF Part
<1>3. Len(c1) = b - a + 1 /\ Part(c1, c, a, b - a + 1)
  BY <1>1 DEF Part
<1>4. Rises(s) /\ Meets(s, c, g)
  BY DEF Fits
<1>5. h[c[a]].from = g[c[a]].from /\ h[c[b]].end = g[c[b]].end
  <2>1. a \in DOMAIN c /\ b \in DOMAIN c
    BY <1>1
  <2> QED
    BY <2>1 DEF Kept
<1> HIDE DEF s1, c1, m
<1>6. Rises(s1) /\ Meets(s1, c1, h) /\ CutEnds(c1, c, a, b)
  <2>1. Parted(s1, c1, s, c, m, a, b, g, h)
    BY <1>1, <1>2, <1>3, <1>4 DEF Parted
  <2> QED
    BY <2>1, PartedMeets
<1> QED
  BY <1>3, <1>5, <1>6 DEF Fits, CutEnds, s1, c1

\* The separators up to k are the first ones.
LEMMA CountUpTo ==
    ASSUME NEW s \in Seq(Nat), Rises(s), NEW k \in Nat
    PROVE  \E m \in 0 .. Len(s) :
             /\ Cardinality({i \in DOMAIN s : s[i] <= k}) = m
             /\ m > 0 => s[m] <= k
             /\ m < Len(s) => k < s[m + 1]
<1> DEFINE L == Len(s)
           S == {j \in 1 .. L + 1 : j = L + 1 \/ k < s[j]}
<1>1. L \in Nat /\ DOMAIN s = 1 .. L /\ \A j \in 1 .. L : s[j] \in Nat
  OBVIOUS
<1>2. S \subseteq Nat /\ L + 1 \in S
  BY <1>1
<1>3. PICK l \in S : \A j \in S : l <= j
  BY <1>2, LeastNumber
<1> DEFINE m == l - 1
<1>4. l \in 1 .. L + 1 /\ (l = L + 1 \/ k < s[l]) /\ m \in 0 .. L /\ m + 1 = l
  BY <1>1
<1>5. \A j \in 1 .. m : s[j] <= k
  BY <1>1, <1>3, <1>4
<1>6. ASSUME NEW j \in 1 .. L, j > m PROVE ~(s[j] <= k)
  <2>1. l <= j /\ l \in 1 .. L /\ k < s[l]
    BY <1>1, <1>4, <1>6
  <2>2. CASE j = l
    BY <1>1, <2>1, <2>2
  <2>3. CASE j # l
    <3>1. l < j
      BY <1>4, <2>1, <2>3
    <3>2. s[l] < s[j]
      BY <1>1, <2>1, <3>1 DEF Rises
    <3> QED
      BY <1>1, <2>1, <3>2
  <2> QED
    BY <2>2, <2>3
<1> HIDE DEF m, S
<1>7. {i \in DOMAIN s : s[i] <= k} = 1 .. m
  BY <1>1, <1>4, <1>5, <1>6
<1>8. Cardinality(1 .. m) = m
  <2>1. m \in Int /\ 1 \in Int /\ m \in Nat
    BY <1>4
  <2> HIDE DEF L
  <2>2. Cardinality(1 .. m) = IF 1 > m THEN 0 ELSE m - 1 + 1
    BY <2>1, FS_Interval, Zenon
  <2> QED
    BY <2>1, <2>2
<1>9. m > 0 => s[m] <= k
  BY <1>4, <1>5
<1>10. m < L => k < s[m + 1]
  BY <1>1, <1>4
<1> QED
  BY <1>4, <1>7, <1>8, <1>9, <1>10

\* findChild finds the child with the key in its range.
LEMMA Route ==
    ASSUME NEW n \in DOMAIN nodes, NEW k \in Nat, NEW g,
           nodes[n].seps \in Seq(Nat), nodes[n].children \in Seq(Nat),
           Len(nodes[n].children) = Len(nodes[n].seps) + 1,
           Fits(nodes[n].seps, nodes[n].children, n, g),
           g[n].from <= k, Under(k, g[n].to)
    PROVE  /\ findChild(n, k) \in Kids(n)
           /\ g[findChild(n, k)].from <= k /\ Under(k, g[findChild(n, k)].end)
<1> DEFINE s == nodes[n].seps
           c == nodes[n].children
           L == Len(s)
<1>1. L \in Nat /\ DOMAIN s = 1 .. L /\ DOMAIN c = 1 .. L + 1 /\ \A i \in 1 .. L : s[i] \in Nat
  OBVIOUS
<1>2. /\ Rises(s)
      /\ g[c[1]].from = g[n].from /\ g[c[L + 1]].end = g[n].to
      /\ \A i \in 1 .. L : g[c[i]].end = s[i] /\ g[c[i + 1]].from = s[i]
  BY <1>1 DEF Fits, Meets
<1>3. PICK m \in 0 .. L :
         /\ Cardinality({i \in DOMAIN s : s[i] <= k}) = m
         /\ m > 0 => s[m] <= k
         /\ m < L => k < s[m + 1]
  BY <1>2, CountUpTo
<1>4. findChild(n, k) = c[m + 1]
  BY <1>3 DEF findChild
<1>5. m + 1 \in DOMAIN c
  BY <1>1
<1>6. c[m + 1] \in Kids(n)
  BY <1>5 DEF Kids, ToSet
<1> HIDE DEF s, c, L
<1>7. g[c[m + 1]].from <= k
  <2>1. CASE m = 0
    BY <1>2, <2>1
  <2>2. CASE m > 0
    BY <1>1, <1>2, <1>3, <2>2
  <2> QED
    BY <1>1, <2>1, <2>2
<1>8. Under(k, g[c[m + 1]].end)
  <2>1. CASE m = L
    BY <1>2, <2>1
  <2>2. CASE m < L
    BY <1>1, <1>2, <1>3, <2>2 DEF Under
  <2> QED
    BY <1>1, <2>1, <2>2
<1> QED
  BY <1>4, <1>6, <1>7, <1>8

-----------------------------------------------------------------------------
(* What a step leaves alone.                                                *)

\* A step changes the nodes its thread holds; of others at most the parent.
LEMMA UnheldSame ==
    ASSUME Inductive, NEW t \in Threads, Step(t)
    PROVE  \A n \in DOMAIN nodes : n \notin Held(t) =>
             /\ nodes'[n].border = nodes[n].border /\ nodes'[n].slots = nodes[n].slots
             /\ nodes'[n].next = nodes[n].next /\ nodes'[n].seps = nodes[n].seps
             /\ nodes'[n].children = nodes[n].children
<1>0. \A n \in DOMAIN nodes : nodes[n] \in Node
  BY NodeIs DEF Inductive
<1>1. CASE QuietStep(t)
  BY <1>1, QuietStepGoes
<1>2. CASE MarkStep(t)
  BY <1>2, MarkStepGoes DEF Alike
<1>3. CASE CasRoot(t)
  BY <1>3, CasRootGoes
<1>4. CASE InsertToBorder(t)
  <2>1. \A n \in DOMAIN nodes : n # node[t] => nodes'[n] = nodes[n]
    BY <1>4, InsertToBorderGoes
  <2>2. node[t] \in Held(t)
    BY <1>4 DEF InsertToBorder, Held
  <2> QED
    BY <2>1, <2>2
<1>5. CASE Split(t)
  <2>1. \A n \in DOMAIN nodes : n # node[t] => nodes'[n] = nodes[n]
    BY <1>5, SplitGoes
  <2>2. node[t] \in Held(t)
    BY <1>5 DEF Split, Held
  <2> QED
    BY <2>1, <2>2
<1>6. CASE SplitKeys(t)
  <2>1. \A n \in DOMAIN nodes : n # node[t] /\ n # sib[t] => nodes'[n] = nodes[n]
    BY <1>6, SplitKeysGoes
  <2>2. node[t] \in Held(t) /\ sib[t] \in Held(t)
    BY <1>6 DEF SplitKeys, Held
  <2> QED
    BY <2>1, <2>2
<1>7. CASE NewRoot(t)
  <2>1. \A n \in DOMAIN nodes : n # node[t] /\ n # sib[t] => nodes'[n] = nodes[n]
    BY <1>7, NewRootGoes
  <2>2. node[t] \in Held(t) /\ sib[t] \in Held(t)
    BY <1>7 DEF NewRoot, Held
  <2> QED
    BY <2>1, <2>2
<1>8. CASE IntoParent(t)
  <2>1. \A n \in DOMAIN nodes : n # par[t] /\ n # sib[t] => nodes'[n] = nodes[n]
    BY <1>8, IntoParentGoes
  <2>2. par[t] \in Held(t) /\ sib[t] \in Held(t)
    BY <1>8 DEF IntoParent, Held
  <2> QED
    BY <2>1, <2>2
<1>9. CASE FillParent(t)
  <2> DEFINE p == par[t]
             r == Len(nodes) + 1
             Placed(n) == IF n \in Moved(t) THEN r ELSE IF n \in Stay(t) THEN p
                          ELSE nodes[n].parent
  <2>1. \A n \in DOMAIN nodes : n # p => nodes'[n] = [nodes[n] EXCEPT !.parent = Placed(n)]
    BY <1>9, FillParentGoes
  <2>2. p \in Held(t)
    BY <1>9 DEF FillParent, Held
  <2> HIDE DEF p, r, Placed
  <2> QED
    BY <1>0, <2>1, <2>2 DEF Node
<1> QED
  BY <1>1, <1>2, <1>3, <1>4, <1>5, <1>6, <1>7, <1>8, <1>9, StepIs DEF TreeStep

\* What the invariant says of another thread is about the same nodes and keys.
LEMMA OthersLook ==
    ASSUME Inductive, NEW t \in Threads, Step(t), NEW u \in Threads, u # t
    PROVE  /\ pc'[u] = pc[u] /\ node'[u] = node[u] /\ sib'[u] = sib[u] /\ par'[u] = par[u]
           /\ up'[u] = up[u] /\ key'[u] = key[u]
           /\ Left(u)' = Left(u) /\ Right(u)' = Right(u)
           /\ pc[u] = "fillParent" => Seps(u)' = Seps(u) /\ Shared(u)' = Shared(u)
           /\ pc[u] = "splitKeys" => RightKeys(u)' = RightKeys(u)
<1>1. Local(u)' = Local(u)
  BY OthersSame DEF Inductive
<1>2. /\ pc'[u] = pc[u] /\ node'[u] = node[u] /\ sib'[u] = sib[u] /\ par'[u] = par[u]
      /\ par1'[u] = par1[u] /\ up'[u] = up[u] /\ key'[u] = key[u]
  BY <1>1 DEF Local
<1>3. ASSUME NEW n \in Held(u)
      PROVE  /\ nodes'[n].slots = nodes[n].slots /\ nodes'[n].seps = nodes[n].seps
             /\ nodes'[n].children = nodes[n].children
  <2>1. n \in DOMAIN nodes /\ n \notin Held(t)
    BY HeldOnce, OwnMarks
  <2> QED
    BY <2>1, UnheldSame
<1>4. Left(u)' = Left(u) /\ Right(u)' = Right(u)
  BY <1>2 DEF Left, Right
<1>5. ASSUME pc[u] = "fillParent"
      PROVE  Seps(u)' = Seps(u) /\ Shared(u)' = Shared(u)
  <2>1. par[u] \in Held(u)
    BY <1>5 DEF Held
  <2>2. nodes'[par[u]].seps = nodes[par[u]].seps /\ nodes'[par[u]].children = nodes[par[u]].children
    BY <1>3, <2>1
  <2> QED
    BY <1>2, <2>2 DEF Seps, Shared, ChildIndex
<1>6. ASSUME pc[u] = "splitKeys"
      PROVE  RightKeys(u)' = RightKeys(u)
  <2>1. node[u] \in Held(u)
    BY <1>6 DEF Held
  <2> QED
    BY <1>2, <1>3, <2>1 DEF RightKeys
<1> QED
  BY <1>2, <1>4, <1>5, <1>6

\* The nodes of a split are its thread's own.
LEMMA Owned ==
    ASSUME Inductive, NEW u \in Threads
    PROVE  /\ pc[u] \in Paired => Left(u) \in Held(u) /\ Right(u) \in Held(u)
           /\ pc[u] = "fillParent" => par[u] \in Held(u) /\ sib[u] \in Held(u)
           /\ pc[u] = "splitKeys" => node[u] \in Held(u) /\ sib[u] \in Held(u)
           /\ pc[u] \in Halfway => Right(u) \in Held(u)
<1>1. pc[u] \in Halfway => Right(u) \in Held(u)
  BY RightIs
<1>2. pc[u] \in Paired => Left(u) \in Held(u)
  BY LeftIs DEF Paired
<1>3. pc[u] = "fillParent" => par[u] \in Held(u) /\ sib[u] \in Held(u)
  BY DEF Held
<1>4. pc[u] = "splitKeys" => node[u] \in Held(u) /\ sib[u] \in Held(u)
  BY DEF Held
<1> QED
  BY <1>1, <1>2, <1>3, <1>4 DEF Paired

-----------------------------------------------------------------------------
(* The ranges after a step: of nodes that its thread does not hold.         *)

\* The ranges h that a step of t makes of g: t changes the ranges of the nodes
\* it holds, where they end for the parent only if it holds that as well.
Keeps(t, g, h) ==
    /\ h \in [DOMAIN nodes' -> Range0]
    /\ \A n \in DOMAIN nodes : h[n].from = g[n].from
    /\ \A n \in DOMAIN nodes : n \notin Held(t) => h[n] = g[n]
    /\ \A n \in DOMAIN nodes : h[n].end = g[n].end \/ nodes[n].parent \in Held(t) \cup {NULL}
    /\ \A n \in DOMAIN nodes : g[n].from \in nodes[n].slots => g[n].from \in nodes'[n].slots

\* A range is cut only of a node that is marked as splitting then, and not
\* before its keys are shared out.
Narrows(t, g, h) ==
    \A n \in DOMAIN nodes :
        /\ h[n].from = g[n].from
        /\ h[n].to = g[n].to \/ nodes'[n].version.splitting
        /\ pc'[t] = "splitKeys" => h[n].to = g[n].to
        /\ n \notin Held(t) => h[n] = g[n]

\* Children keep their ranges; keys are numbers; the arrays of an interior node.
LEMMA FitsSame ==
    ASSUME NEW s \in Seq(Nat), NEW c \in Seq(Nat), Len(c) = Len(s) + 1,
           NEW p, NEW g, NEW h, Fits(s, c, p, g),
           \A n \in ToSet(c) : h[n].from = g[n].from /\ h[n].end = g[n].end,
           h[p].from = g[p].from, h[p].to = g[p].to
    PROVE  Fits(s, c, p, h)
<1>1. /\ Len(s) \in Nat /\ DOMAIN s = 1 .. Len(s) /\ DOMAIN c = 1 .. Len(s) + 1
      /\ \A i \in 1 .. Len(s) : i \in DOMAIN c /\ i + 1 \in DOMAIN c
      /\ 1 \in DOMAIN c /\ Len(c) \in DOMAIN c
  OBVIOUS
<1>2. \A i \in DOMAIN c : h[c[i]].from = g[c[i]].from /\ h[c[i]].end = g[c[i]].end
  BY DEF ToSet
<1> QED
  BY <1>1, <1>2 DEF Fits, Meets

LEMMA KeysAreNumbers ==
    ASSUME NEW s \in Seq(Keys)
    PROVE  s \in Seq(Nat)
<1>1. Keys \subseteq Nat
  BY Constants
<1>2. s \in [1 .. Len(s) -> Keys] /\ Len(s) \in Nat
  OBVIOUS
<1>3. \A i \in 1 .. Len(s) : s[i] \in Nat
  BY <1>1, <1>2
<1>4. s \in [1 .. Len(s) -> Nat]
  BY <1>2, <1>3
<1> QED
  BY <1>2, <1>4

\* The separators and the children of an interior node.
LEMMA SepsAre ==
    ASSUME Inductive, NEW p \in DOMAIN nodes, ~nodes[p].border
    PROVE  /\ nodes[p].seps \in Seq(Nat) /\ nodes[p].children \in Seq(Nat)
           /\ Len(nodes[p].children) = Len(nodes[p].seps) + 1
<1>1. nodes[p].seps \in Seq(Keys) /\ nodes[p].children \in Seq(Nat) /\ Shape(p)
  BY NodeIs DEF Inductive
<1> QED
  BY <1>1, KeysAreNumbers DEF Shape

\* The children of a node that t does not hold.
LEMMA OthersFit ==
    ASSUME Inductive, NEW t \in Threads, NEW g, NEW h, Keeps(t, g, h),
           NEW p \in DOMAIN nodes, p \notin Held(t), ~nodes[p].border,
           Fits(nodes[p].seps, nodes[p].children, p, g)
    PROVE  Fits(nodes[p].seps, nodes[p].children, p, h)
<1>1. ASSUME NEW n \in Kids(p) PROVE h[n].from = g[n].from /\ h[n].end = g[n].end
  <2>1. n \in DOMAIN nodes /\ nodes[n].parent = p
    BY DEF Inductive, Family, Shape
  <2>2. p # NULL
    BY Constants, NodeIs DEF Inductive
  <2> QED
    BY <2>1, <2>2 DEF Keeps
<1>2. h[p] = g[p]
  BY DEF Keeps
<1> QED
  BY <1>1, <1>2, SepsAre, FitsSame DEF Kids

\* A node that the thread does not hold keeps what is known of its range.
LEMMA OthersRanged ==
    ASSUME Inductive, NEW t \in Threads, Step(t), NEW g, NEW h, Keeps(t, g, h),
           NEW n \in DOMAIN nodes, n \notin Held(t), Ranged(n, g)
    PROVE  Ranged(n, h)'
<1>1. h[n] = g[n]
  BY DEF Keeps
<1>2. /\ nodes'[n].border = nodes[n].border /\ nodes'[n].slots = nodes[n].slots
      /\ nodes'[n].next = nodes[n].next /\ nodes'[n].seps = nodes[n].seps
      /\ nodes'[n].children = nodes[n].children
  BY UnheldSame
<1>3. \A u \in Threads : u # t =>
        pc'[u] = pc[u] /\ sib'[u] = sib[u] /\ par'[u] = par[u] /\ Left(u)' = Left(u) /\ Right(u)' = Right(u)
  BY OthersLook
<1>4. /\ pc[t] \in Paired => n # Left(t)
      /\ pc[t] = "fillParent" => n # par[t]
      /\ pc[t] = "splitKeys" => n # sib[t]
      /\ pc[t] \in Halfway => n # Right(t)
  BY Owned
<1>5. Filled(n, h)'
  BY <1>1, <1>2 DEF Ranged, Filled
<1>6. Chained(n, h)'
  <2>1. Fresh(n) => Fresh(n)'
    BY <1>3, <1>4 DEF Fresh
  <2>2. nodes[n].next \in DOMAIN nodes \cup {NULL}
    BY DEF Inductive, Shape
  <2>3. \A m \in DOMAIN nodes : /\ h[m].from = g[m].from
                                /\ g[m].from \in nodes[m].slots => g[m].from \in nodes'[m].slots
    BY DEF Keeps
  <2> QED
    BY <1>1, <1>2, <2>1, <2>2, <2>3 DEF Ranged, Chained
<1>7. Topmost(n, h)'
  <2>1. nodes'[n].parent = NULL => nodes[n].parent = NULL
    BY TreeKeeps DEF Touched
  <2>2. Unlinked(n) => Unlinked(n)'
    BY <1>3, <1>4 DEF Unlinked
  <2> QED
    BY <1>1, <2>1, <2>2 DEF Ranged, Topmost
<1>8. Divided(n, h)'
  <2>1. Filling(n) => Filling(n)'
    BY <1>3, <1>4 DEF Filling
  <2>2. ~nodes[n].border /\ ~Filling(n) => Fits(nodes[n].seps, nodes[n].children, n, h)
    BY OthersFit DEF Ranged, Divided
  <2> QED
    BY <1>2, <2>1, <2>2 DEF Divided
<1>9. Known(n, h)'
  <2>1. (\A u \in Threads : pc'[u] \in Paired => n # Left(u)')
        => \A u \in Threads : pc[u] \in Paired => n # Left(u)
    BY <1>3, <1>4
  <2> QED
    BY <1>1, <2>1 DEF Ranged, Known
<1> QED
  BY <1>5, <1>6, <1>7, <1>8, <1>9 DEF Ranged

\* So does another thread's pair.
LEMMA OthersJoined ==
    ASSUME Inductive, NEW t \in Threads, Step(t), NEW g, NEW h, Keeps(t, g, h),
           NEW u \in Threads, u # t, Born(u, g), Joined(u, g), Moving(u, g)
    PROVE  Born(u, h)' /\ Joined(u, h)' /\ Moving(u, h)'
<1>1. \A n \in Held(u) : n \in DOMAIN nodes /\ n \notin Held(t)
  BY HeldOnce, OwnMarks
<1>2. \A n \in Held(u) : /\ h[n] = g[n]
                         /\ nodes'[n].slots = nodes[n].slots /\ nodes'[n].next = nodes[n].next
  BY <1>1, UnheldSame DEF Keeps
<1>3. /\ pc'[u] = pc[u] /\ node'[u] = node[u] /\ sib'[u] = sib[u] /\ par'[u] = par[u]
      /\ up'[u] = up[u] /\ Left(u)' = Left(u) /\ Right(u)' = Right(u)
  BY OthersLook
<1>4. Born(u, h)'
  <2>1. pc[u] = "splitKeys" => RightKeys(u)' = RightKeys(u)
    BY OthersLook
  <2> QED
    BY <1>2, <1>3, <2>1, Owned DEF Born
<1>5. Joined(u, h)'
  BY <1>2, <1>3, Owned DEF Joined
<1>6. Moving(u, h)'
  <2> SUFFICES ASSUME pc'[u] = "fillParent" PROVE Fits(Seps(u)', Shared(u)', par'[u], h)
    BY DEF Moving
  <2>1. pc[u] = "fillParent" /\ par[u] \in Held(u) /\ sib[u] \in Held(u)
    BY <1>3, Owned
  <2>2. Seps(u)' = Seps(u) /\ Shared(u)' = Shared(u)
    BY <2>1, OthersLook
  <2>3. /\ Seps(u) \in Seq(Nat) /\ Shared(u) \in Seq(Nat) /\ Len(Shared(u)) = Len(Seps(u)) + 1
        /\ ToSet(Shared(u)) = Kids(par[u]) \cup {sib[u]}
    <3>1. /\ Seps(u) \in Seq(Keys) /\ Shared(u) \in Seq(Nat)
          /\ Len(Seps(u)) = ORDER /\ Len(Shared(u)) = ORDER + 1
          /\ ToSet(Shared(u)) = Kids(par[u]) \cup {sib[u]}
      BY <2>1, SharedIs
    <3> QED
      BY <3>1, KeysAreNumbers
  <2>4. ASSUME NEW n \in Kids(par[u]) PROVE h[n].from = g[n].from /\ h[n].end = g[n].end
    <3>1. n \in DOMAIN nodes /\ nodes[n].parent = par[u] /\ par[u] \in Nat
      BY <1>1, <2>1, NodeIs DEF Inductive, Family, Shape
    <3> QED
      BY <1>1, <2>1, <3>1, Constants DEF Keeps
  <2>5. \A n \in ToSet(Shared(u)) : h[n].from = g[n].from /\ h[n].end = g[n].end
    BY <1>2, <2>1, <2>3, <2>4
  <2>6. Fits(Seps(u), Shared(u), par[u], g)
    BY <2>1 DEF Moving
  <2>7. Fits(Seps(u), Shared(u), par[u], h)
    BY <1>2, <2>1, <2>3, <2>5, <2>6, FitsSame
  <2> QED
    BY <1>3, <2>2, <2>7
<1> QED
  BY <1>4, <1>5, <1>6

\* What is left to show of a step.
LEMMA RangesIf ==
    ASSUME Inductive, NEW t \in Threads, Step(t), NEW g, NEW h, Ranges(g), Keeps(t, g, h),
           \A n \in DOMAIN nodes' : n \in Held(t) \/ n \notin DOMAIN nodes => Ranged(n, h)',
           Disjoint(h)', Born(t, h)', Joined(t, h)', Moving(t, h)'
    PROVE  Ranges(h)'
<1>1. h \in [DOMAIN nodes' -> Range0]
  BY DEF Keeps
<1>2. \A n \in DOMAIN nodes' : Ranged(n, h)'
  BY OthersRanged DEF Ranges
<1>3. \A u \in Threads : Born(u, h)' /\ Joined(u, h)' /\ Moving(u, h)'
  BY OthersJoined DEF Ranges
<1> QED
  BY <1>1, <1>2, <1>3 DEF Ranges

-----------------------------------------------------------------------------
(* The ranges after a step: of the nodes its thread holds or makes.         *)

\* Of a node that t holds, or that is new, only t can be splitting it.
LEMMA OwnStatus ==
    ASSUME Inductive, NEW t \in Threads, Step(t), NEW n, n \in Held(t) \/ n \notin DOMAIN nodes
    PROVE  /\ Fresh(n) <=> pc[t] = "splitKeys" /\ n = sib[t]
           /\ Filling(n) <=> pc[t] = "fillParent" /\ n = par[t]
           /\ Unlinked(n) <=> pc[t] \in Halfway /\ n = Right(t)
           /\ (\A u \in Threads : pc[u] \in Paired => n # Left(u)) <=> (pc[t] \in Paired => n # Left(t))
           /\ Fresh(n)' <=> pc'[t] = "splitKeys" /\ n = sib'[t]
           /\ Filling(n)' <=> pc'[t] = "fillParent" /\ n = par'[t]
           /\ Unlinked(n)' <=> pc'[t] \in Halfway /\ n = Right(t)'
           /\ (\A u \in Threads : pc'[u] \in Paired => n # Left(u)')
                <=> (pc'[t] \in Paired => n # Left(t)')
<1>1. ASSUME NEW u \in Threads, u # t
      PROVE  /\ pc[u] \in Paired => n # Left(u)
             /\ pc[u] = "fillParent" => n # par[u]
             /\ pc[u] = "splitKeys" => n # sib[u]
             /\ pc[u] \in Halfway => n # Right(u)
  <2>1. n \notin Held(u)
    BY <1>1, HeldOnce, OwnMarks
  <2> QED
    BY <2>1, Owned
<1>2. \A u \in Threads : u # t =>
        pc'[u] = pc[u] /\ sib'[u] = sib[u] /\ par'[u] = par[u] /\ Left(u)' = Left(u) /\ Right(u)' = Right(u)
  BY OthersLook
<1>3. Fresh(n) <=> pc[t] = "splitKeys" /\ n = sib[t]
  BY <1>1 DEF Fresh
<1>4. Filling(n) <=> pc[t] = "fillParent" /\ n = par[t]
  BY <1>1 DEF Filling
<1>5. Unlinked(n) <=> pc[t] \in Halfway /\ n = Right(t)
  BY <1>1 DEF Unlinked
<1>6. (\A u \in Threads : pc[u] \in Paired => n # Left(u)) <=> (pc[t] \in Paired => n # Left(t))
  BY <1>1
<1>7. Fresh(n)' <=> pc'[t] = "splitKeys" /\ n = sib'[t]
  BY <1>1, <1>2 DEF Fresh
<1>8. Filling(n)' <=> pc'[t] = "fillParent" /\ n = par'[t]
  BY <1>1, <1>2 DEF Filling
<1>9. Unlinked(n)' <=> pc'[t] \in Halfway /\ n = Right(t)'
  BY <1>1, <1>2 DEF Unlinked
<1>10. (\A u \in Threads : pc'[u] \in Paired => n # Left(u)')
        <=> (pc'[t] \in Paired => n # Left(t)')
  BY <1>1, <1>2
<1> QED
  BY <1>3, <1>4, <1>5, <1>6, <1>7, <1>8, <1>9, <1>10

\* The border nodes and their ranges stay.
LEMMA DisjointStays ==
    ASSUME Inductive, NEW t \in Threads, Step(t), NEW g, NEW h, Disjoint(g), Keeps(t, g, h),
           pc[t] # "splitKeys",
           \A n \in DOMAIN nodes : nodes[n].border => h[n].to = g[n].to,
           \A n \in DOMAIN nodes' : n \notin DOMAIN nodes => ~nodes'[n].border \/ Fresh(n)'
    PROVE  Disjoint(h)'
<1>1. \A u \in Threads : u # t => pc'[u] = pc[u] /\ sib'[u] = sib[u]
  BY OthersLook
<1>2. \A n : Fresh(n) => Fresh(n)'
  BY <1>1 DEF Fresh
<1>3. \A n \in DOMAIN nodes : nodes'[n].border = nodes[n].border /\ h[n].from = g[n].from
  BY TreeKeeps DEF Touched, Keeps
<1>4. SUFFICES ASSUME NEW n \in DOMAIN nodes', NEW m \in DOMAIN nodes', n # m,
                      nodes'[n].border, nodes'[m].border, ~Fresh(n)', ~Fresh(m)'
               PROVE  Before(h, n, m) \/ Before(h, m, n)
  BY DEF Disjoint, Before
<1>5. n \in DOMAIN nodes /\ m \in DOMAIN nodes /\ ~Fresh(n) /\ ~Fresh(m)
      /\ nodes[n].border /\ nodes[m].border
  BY <1>2, <1>3, <1>4
<1>6. Before(g, n, m) \/ Before(g, m, n)
  BY <1>4, <1>5 DEF Disjoint
<1>7. h[n].to = g[n].to /\ h[m].to = g[m].to /\ h[n].from = g[n].from /\ h[m].from = g[m].from
  BY <1>3, <1>5
<1> QED
  BY <1>6, <1>7 DEF Before

\* A step that may add keys to nodes, and moves no node and no split on.
Settled(t) ==
    /\ DOMAIN nodes' = DOMAIN nodes
    /\ \A n \in DOMAIN nodes :
         /\ nodes'[n].border = nodes[n].border /\ nodes'[n].next = nodes[n].next
         /\ nodes'[n].parent = nodes[n].parent
         /\ nodes'[n].seps = nodes[n].seps /\ nodes'[n].children = nodes[n].children
         /\ nodes[n].slots \subseteq nodes'[n].slots
    /\ {pc[t], pc'[t]} \cap {"splitKeys", "fillParent"} = {}
    /\ pc'[t] \in Paired <=> pc[t] \in Paired
    /\ pc[t] \in Paired => Left(t)' = Left(t) /\ Right(t)' = Right(t) /\ up'[t] = up[t]

\* Steps that allocate nothing and move nothing need no new ranges.
LEMMA SettledRanges ==
    ASSUME Inductive, NEW t \in Threads, Step(t), NEW g, Ranges(g), Settled(t),
           \A n \in DOMAIN nodes : Filled(n, g)'
    PROVE  Ranges(g)'
<1>1. Keeps(t, g, g)
  BY DEF Keeps, Settled, Ranges
<1>2. Disjoint(g)'
  BY <1>1, DisjointStays DEF Ranges, Settled
<1>3. pc'[t] \in Halfway <=> pc[t] \in Halfway
  BY DEF Settled, Paired
<1>4. Born(t, g)' /\ Moving(t, g)'
  BY DEF Born, Moving, Settled
<1>5. Joined(t, g)'
  BY DEF Settled, Joined, Ranges
<1>6. ASSUME NEW n \in DOMAIN nodes, n \in Held(t)
      PROVE  Ranged(n, g)'
  <2>1. /\ nodes'[n].border = nodes[n].border /\ nodes'[n].next = nodes[n].next
        /\ nodes'[n].parent = nodes[n].parent
        /\ nodes'[n].seps = nodes[n].seps /\ nodes'[n].children = nodes[n].children
        /\ Ranged(n, g)
    BY DEF Settled, Ranges
  <2>2. /\ Fresh(n)' <=> Fresh(n)
        /\ Filling(n)' <=> Filling(n)
    BY <1>6, OwnStatus DEF Settled
  <2>3. Unlinked(n)' <=> Unlinked(n)
    <3>1. pc[t] \in Halfway => pc[t] \in Paired
      BY DEF Settled, Paired
    <3> QED
      BY <1>3, <1>6, <3>1, OwnStatus DEF Settled
  <2>4. (\A u \in Threads : pc'[u] \in Paired => n # Left(u)')
        <=> \A u \in Threads : pc[u] \in Paired => n # Left(u)
    BY <1>6, OwnStatus DEF Settled
  <2>5. Chained(n, g)'
    <3>1. nodes[n].next \in DOMAIN nodes \cup {NULL}
      BY DEF Inductive, Shape
    <3>2. \A m \in DOMAIN nodes : nodes[m].slots \subseteq nodes'[m].slots
      BY DEF Settled
    <3> QED
      BY <2>1, <2>2, <3>1, <3>2 DEF Ranged, Chained
  <2>6. Topmost(n, g)'
    BY <2>1, <2>3 DEF Ranged, Topmost
  <2>7. Divided(n, g)'
    BY <2>1, <2>2 DEF Ranged, Divided
  <2>8. Known(n, g)'
    BY <2>1, <2>4 DEF Ranged, Known
  <2> QED
    BY <2>5, <2>6, <2>7, <2>8 DEF Ranged
<1> QED
  BY <1>1, <1>2, <1>4, <1>5, <1>6, RangesIf DEF Settled

\* Neither do the steps that read, lock, unlock or mark.
LEMMA QuietRanges ==
    ASSUME Inductive, NEW t \in Threads, Step(t), NEW g, Ranges(g),
           QuietStep(t) \/ (CasRoot(t) /\ nodes' = nodes) \/ (MarkStep(t) /\ ~TearParent(t))
    PROVE  Ranges(g)'
<1>1. DOMAIN nodes' = DOMAIN nodes /\ \A n \in DOMAIN nodes : Alike(nodes'[n], nodes[n])
  <2>1. CASE nodes' = nodes
    BY <2>1 DEF Alike
  <2>2. CASE MarkStep(t)
    BY <2>2, MarkStepGoes
  <2> QED
    BY <2>1, <2>2, QuietStepGoes
<1>2. \A n \in DOMAIN nodes : Filled(n, g)'
  <2>1. \A n \in DOMAIN nodes : nodes'[n].border = nodes[n].border /\ nodes'[n].slots = nodes[n].slots
    BY <1>1 DEF Alike
  <2>2. \A n \in DOMAIN nodes : Filled(n, g)
    BY DEF Ranges, Ranged
  <2> QED
    BY <2>1, <2>2 DEF Filled
<1>3. /\ {pc[t], pc'[t]} \cap {"splitKeys", "fillParent"} = {}
      /\ pc'[t] \in Paired <=> pc[t] \in Paired
      /\ pc[t] \in Paired => Left(t)' = Left(t) /\ Right(t)' = Right(t) /\ up'[t] = up[t]
  <2>0. pc \in [Threads -> PCs] /\ {node, sib, par, par1} \subseteq [Threads -> DOMAIN nodes \cup {NULL}]
    BY DEF Inductive, Typed
  <2>1. CASE QuietStep(t)
    BY <2>1, QuietStepGoes DEF Paired, Halfway
  <2>2. CASE CasRoot(t)
    BY <2>0, <2>2 DEF CasRoot, Return, Goto, Paired, Halfway
  <2>3. CASE LockBorder(t) \/ AlreadyExists(t) \/ Unlock(t) \/ LeaveRoot(t) \/ LeaveSibling(t)
             \/ LeaveNode(t) \/ LeaveNode1(t) \/ LeaveParent(t)
    BY <2>0, <2>3 DEF LockBorder, AlreadyExists, Unlock, LeaveRoot, LeaveSibling, LeaveNode,
                      LeaveNode1, LeaveParent, Return, Goto, Paired, Halfway
  <2>4. CASE LockParent(t) \/ ShiftParent(t) \/ SplitParent(t)
    BY <2>0, <2>4 DEF LockParent, ShiftParent, SplitParent, Goto, Paired, Halfway, Left, Right, loc
  <2>5. CASE AscendParent(t)
    BY <2>0, <2>5 DEF AscendParent, Goto, Paired, Halfway, Left, Right
  <2> QED
    BY <2>1, <2>2, <2>3, <2>4, <2>5 DEF MarkStep
<1>4. Settled(t)
  BY <1>1, <1>3 DEF Settled, Alike
<1> QED
  BY <1>2, <1>4, SettledRanges

\* A key is added to the border node whose range it is in.
LEMMA InsertToBorderRanges ==
    ASSUME Inductive, NEW t \in Threads, InsertToBorder(t), NEW g, Ranges(g), Searches(t, g)
    PROVE  Ranges(g)'
<1> DEFINE b == node[t]
<1>0. Step(t)
  BY DEF Step, masstree_insert
<1>1. /\ b \in DOMAIN nodes /\ DOMAIN nodes' = DOMAIN nodes
      /\ \A n \in DOMAIN nodes : n # b => nodes'[n] = nodes[n]
      /\ nodes'[b] = [nodes[b] EXCEPT !.slots = nodes[b].slots \cup {key[t]}]
  BY InsertToBorderGoes
<1>2. nodes[b] \in Node
  BY <1>1, NodeIs DEF Inductive
<1>3. /\ nodes'[b].border = nodes[b].border /\ nodes'[b].next = nodes[b].next
      /\ nodes'[b].parent = nodes[b].parent /\ nodes'[b].seps = nodes[b].seps
      /\ nodes'[b].children = nodes[b].children
      /\ nodes'[b].slots = nodes[b].slots \cup {key[t]}
  BY <1>1, <1>2 DEF Node
<1>4. pc \in [Threads -> PCs]
  BY DEF Inductive, Typed
<1>5. pc[t] = "locked" /\ pc'[t] = "unlock"
  BY <1>4 DEF InsertToBorder, Goto
<1>6. g[b].from <= key[t] /\ Under(key[t], g[b].to)
  BY <1>5 DEF Searches
<1> HIDE DEF b
<1>7. Settled(t)
  BY <1>1, <1>3, <1>5 DEF Settled, Paired, Halfway
<1>8. ASSUME NEW n \in DOMAIN nodes PROVE Filled(n, g)'
  <2>1. Filled(n, g)
    BY DEF Ranges, Ranged
  <2>2. CASE n # b
    BY <1>1, <2>1, <2>2 DEF Filled
  <2>3. CASE n = b
    BY <1>3, <1>6, <2>1, <2>3 DEF Filled
  <2> QED
    BY <2>2, <2>3
<1> QED
  BY <1>0, <1>7, <1>8, SettledRanges

\* The first node covers all keys.
LEMMA CasRootRanges ==
    ASSUME Inductive, Roots, NEW t \in Threads, CasRoot(t), NEW g, Ranges(g)
    PROVE  \E h : Ranges(h)' /\ Narrows(t, g, h)
<1>0. Step(t)
  BY DEF Step
<1>1. CASE nodes' = nodes
  <2>1. Ranges(g)'
    BY <1>0, <1>1, QuietRanges
  <2>2. Narrows(t, g, g)
    BY DEF Narrows
  <2> QED
    BY <2>1, <2>2
<1>2. CASE nodes' # nodes
  <2> DEFINE v == [NewVersion EXCEPT !.is_root = TRUE]
  <2>q. PICK q : q = Len(nodes) + 1
    OBVIOUS
  <2>1. /\ nodes = <<>> /\ DOMAIN nodes' = DOMAIN nodes \cup {q}
        /\ nodes'[q] = Border(v, {key[t]}) /\ key[t] \in Keys
    BY <1>2, <2>q, CasRootGoes DEF Roots
  <2>2. /\ Border(v, {key[t]}).border /\ Border(v, {key[t]}).next = NULL
        /\ Border(v, {key[t]}).slots = {key[t]}
    BY DEF Border
  <2> HIDE DEF v
  <2>3. DOMAIN nodes = {} /\ DOMAIN nodes' = {q}
    BY <2>1
  <2>4. \A u \in Threads : Held(u) = {}
    BY <2>3, OwnMarks
  <2>5. pc[t] \notin Halfway /\ pc'[t] \notin Halfway
    <3>1. pc \in [Threads -> PCs]
      BY DEF Inductive, Typed
    <3> QED
      BY <3>1 DEF CasRoot, Return, Goto, Halfway
  <2>6. \A u \in Threads : pc'[u] \notin Halfway
    <3>1. \A u \in Threads : pc[u] \notin Halfway
      BY <2>4, Owned
    <3>2. \A u \in Threads : u # t => pc'[u] = pc[u]
      BY <1>0, OthersLook
    <3> QED
      BY <2>5, <3>1, <3>2
  <2>7. \A u \in Threads : pc'[u] \notin Paired /\ pc'[u] \notin {"splitKeys", "fillParent"}
    BY <2>6 DEF Paired, Halfway
  <2>8. PICK h : h = [n \in {q} |-> [from |-> 0, to |-> NULL, end |-> NULL]]
    OBVIOUS
  <2>9. h \in [{q} -> Range0] /\ h[q].from = 0 /\ h[q].to = NULL /\ h[q].end = NULL
    BY <2>8 DEF Range0
  <2>10. Ranged(q, h)'
    <3>1. Filled(q, h)'
      <4>1. Under(0, NULL) /\ Under(key[t], NULL) /\ key[t] \in Nat /\ 0 <= key[t]
        <5>1. key[t] \in Keys
          BY <2>1
        <5>2. key[t] \in Nat /\ 0 <= key[t]
          <6>1. Keys \subseteq Nat
            BY Constants
          <6>2. key[t] \in Nat
            BY <5>1, <6>1
          <6> QED
            BY <6>2
        <5> QED
          BY <5>2 DEF Under
      <4> QED
        BY <2>1, <2>2, <2>9, <4>1 DEF Filled
    <3>2. Chained(q, h)'
      BY <2>1, <2>2, <2>9 DEF Chained
    <3>3. Topmost(q, h)' /\ Known(q, h)'
      BY <2>9 DEF Topmost, Known
    <3>4. Divided(q, h)'
      BY <2>1, <2>2 DEF Divided
    <3> QED
      BY <3>1, <3>2, <3>3, <3>4 DEF Ranged
  <2>11. \A u \in Threads : Born(u, h)' /\ Joined(u, h)' /\ Moving(u, h)'
    BY <2>7 DEF Born, Joined, Moving
  <2>12. Disjoint(h)'
    BY <2>3 DEF Disjoint
  <2>13. h \in [DOMAIN nodes' -> Range0] /\ \A n \in DOMAIN nodes' : Ranged(n, h)'
    BY <2>3, <2>9, <2>10
  <2>14. Ranges(h)'
    BY <2>11, <2>12, <2>13 DEF Ranges
  <2>15. Narrows(t, g, h)
    BY <2>3 DEF Narrows
  <2> QED
    BY <2>14, <2>15
<1> QED
  BY <1>1, <1>2

\* The keys of the node that is split, and what its sibling gets of them.
Halves(b, left, right, g) ==
    /\ left \subseteq Keys /\ right \subseteq Keys
    /\ Min(right) \in right /\ \A x \in right : Min(right) <= x
    /\ \A x \in left : x < Min(right)
    /\ nodes[b].slots # {} => left # {}
    /\ \A x \in left \cup right : g[b].from <= x /\ Under(x, g[b].to)

\* The keys of a border node that is split, and the new key, on either side of
\* the lowest right one.
LEMMA RightKeysAre ==
    ASSUME Inductive, NEW b \in DOMAIN nodes, NEW k \in Keys, k \notin nodes[b].slots,
           nodes[b].border, NEW g, Ranges(g), g[b].from <= k, Under(k, g[b].to),
           NEW left, left = LeftOf(nodes[b].slots, k),
           NEW right, right = (nodes[b].slots \cup {k}) \ left
    PROVE  Halves(b, left, right, g)
<1> DEFINE S == nodes[b].slots
<1>1. S \subseteq Keys /\ IsFiniteSet(S) /\ Cardinality(S) < ORDER
  BY NodeIs DEF Inductive, Shape
<1>2. \A x \in S \cup {k} : g[b].from <= x /\ Under(x, g[b].to)
  BY DEF Ranges, Ranged, Filled
<1> HIDE DEF S
<1>3. left = LeftOf(S, k) /\ right = (S \cup {k}) \ left /\ k \notin S
  BY DEF S
<1>4. /\ left \cup right = S \cup {k}
      /\ left \subseteq Keys /\ right \subseteq Keys
      /\ Min(right) \in right /\ \A x \in right : Min(right) <= x
      /\ \A x \in left : x < Min(right)
      /\ S # {} => left # {}
  BY <1>1, <1>3, LeftOfIs
<1> QED
  BY <1>2, <1>4 DEF S, Halves

\* The sibling is given the range it is going to have.
LEMMA SplitRanges ==
    ASSUME Inductive, NEW t \in Threads, Split(t), NEW g, Ranges(g), Searches(t, g)
    PROVE  \E h : Ranges(h)' /\ Narrows(t, g, h)
<1>0. Step(t)
  BY DEF Step, masstree_insert
<1>b. PICK b : b = node[t]
  OBVIOUS
<1>q. PICK q : q = Len(nodes) + 1
  OBVIOUS
<1> DEFINE v == [V(b) EXCEPT !.splitting = TRUE]
<1>1. /\ b \in DOMAIN nodes /\ q \notin DOMAIN nodes /\ sib'[t] = q
      /\ DOMAIN nodes' = DOMAIN nodes \cup {q}
      /\ \A n \in DOMAIN nodes : n # b => nodes'[n] = nodes[n]
      /\ nodes'[b] = [nodes[b] EXCEPT !.version = v, !.torn = TRUE]
      /\ nodes'[q] = Border(v, {})
  BY <1>b, <1>q, SplitGoes
<1>2. /\ Border(v, {}).border /\ Border(v, {}).slots = {} /\ Border(v, {}).next = NULL
  BY DEF Border
<1>3. nodes[b] \in Node
  BY <1>1, NodeIs DEF Inductive
<1> HIDE DEF v
<1>4. /\ nodes'[b].border = nodes[b].border /\ nodes'[b].next = nodes[b].next
      /\ nodes'[b].slots = nodes[b].slots /\ nodes'[b].parent = nodes[b].parent
      /\ nodes'[b].seps = nodes[b].seps /\ nodes'[b].children = nodes[b].children
  BY <1>1, <1>3 DEF Node
<1>5. pc[t] = "locked" /\ pc'[t] = "splitKeys" /\ node'[t] = b /\ key'[t] = key[t]
      /\ key[t] \notin nodes[b].slots
  <2>1. pc \in [Threads -> PCs]
    BY DEF Inductive, Typed
  <2> QED
    BY <1>b, <2>1 DEF Split, Goto, call
<1>6. g[b].from <= key[t] /\ Under(key[t], g[b].to)
  BY <1>b, <1>5 DEF Searches
<1>7. nodes[b].border /\ key[t] \in Keys /\ Held(t) = {b}
  BY <1>b, <1>5 DEF Inductive, Places, OnBorder, Held
<1> DEFINE left == LeftOf(nodes[b].slots, key[t])
           right == (nodes[b].slots \cup {key[t]}) \ left
           x == Min(right)
<1>8. RightKeys(t)' = right
  BY <1>4, <1>5 DEF RightKeys
<1>9. x \in right /\ \A y \in right : Under(y, g[b].to)
  <2> HIDE DEF left, right
  <2>1. left = LeftOf(nodes[b].slots, key[t]) /\ right = (nodes[b].slots \cup {key[t]}) \ left
    BY DEF left, right
  <2> QED
    <3>0. b \in DOMAIN nodes /\ key[t] \in Keys /\ key[t] \notin nodes[b].slots /\ nodes[b].border
      BY <1>1, <1>5, <1>7
    <3>1. Halves(b, left, right, g)
      BY <1>6, <2>1, <3>0, RightKeysAre
    <3> QED
      BY <3>1 DEF Halves
<1>10. x \in Nat
  BY <1>7, <1>9, <1>1, NodeIs, Constants DEF Inductive
<1>11. g \in [DOMAIN nodes -> Range0]
  BY DEF Ranges
<1> HIDE DEF left, right, x
<1>12. PICK h : h = [n \in DOMAIN nodes \cup {q} |->
                       IF n = q THEN [from |-> x, to |-> g[b].to, end |-> g[b].to] ELSE g[n]]
  OBVIOUS
<1>13. /\ h \in [DOMAIN nodes' -> Range0]
       /\ \A n \in DOMAIN nodes : h[n] = g[n]
       /\ h[q].from = x /\ h[q].to = g[b].to /\ h[q].end = g[b].to
  BY <1>1, <1>10, <1>11, <1>12 DEF Range0
<1>14. Keeps(t, g, h)
  BY <1>1, <1>4, <1>13 DEF Keeps
<1>15. pc[t] \notin Halfway /\ pc'[t] \in Halfway /\ pc'[t] \notin Paired /\ Right(t)' = q
  BY <1>1, <1>5 DEF Halfway, Paired, Right
<1>16. Born(t, h)' /\ Joined(t, h)' /\ Moving(t, h)'
  <2>1. Born(t, h)'
    BY <1>1, <1>2, <1>5, <1>8, <1>13 DEF Born, x
  <2>2. Joined(t, h)' /\ Moving(t, h)'
    BY <1>5, <1>15 DEF Joined, Moving
  <2> QED
    BY <2>1, <2>2
<1>17. Disjoint(h)'
  <2>1. Fresh(q)'
    BY <1>0, <1>1, <1>5, OwnStatus
  <2> QED
    BY <1>0, <1>1, <1>5, <1>13, <1>14, <2>1, DisjointStays DEF Ranges
<1>18. Ranged(q, h)'
  <2>1. Fresh(q)' /\ Unlinked(q)'
    BY <1>0, <1>1, <1>5, <1>15, OwnStatus
  <2>2. Filled(q, h)'
    BY <1>1, <1>2, <1>9, <1>13 DEF Filled
  <2>3. Chained(q, h)' /\ Topmost(q, h)'
    BY <2>1 DEF Chained, Topmost
  <2>4. Divided(q, h)' /\ Known(q, h)'
    BY <1>1, <1>2, <1>13 DEF Divided, Known
  <2> QED
    BY <2>2, <2>3, <2>4 DEF Ranged
<1>19. Ranged(b, h)'
  <2>1. /\ ~Fresh(b) /\ ~Unlinked(b) /\ ~Fresh(b)' /\ ~Filling(b)
        /\ \A u \in Threads : pc[u] \in Paired => b # Left(u)
    BY <1>0, <1>1, <1>5, <1>7, <1>15, OwnStatus DEF Paired
  <2>2. Ranged(b, g)
    BY <1>1 DEF Ranges
  <2>3. h[b] = g[b]
    BY <1>1, <1>13
  <2>4. Filled(b, h)'
    BY <1>4, <2>2, <2>3 DEF Ranged, Filled
  <2>5. Chained(b, h)'
    <3>1. nodes[b].next \in DOMAIN nodes \cup {NULL}
      BY <1>1 DEF Inductive, Shape
    <3>2. \A m \in DOMAIN nodes : h[m].from = g[m].from /\ nodes'[m].slots = nodes[m].slots
      BY <1>1, <1>4, <1>13
    <3> QED
      BY <1>4, <2>1, <2>2, <2>3, <3>1, <3>2 DEF Ranged, Chained
  <2>6. Topmost(b, h)'
    BY <1>4, <2>1, <2>2, <2>3 DEF Ranged, Topmost
  <2>7. Divided(b, h)'
    BY <1>4, <1>7 DEF Divided
  <2>8. Known(b, h)'
    BY <2>1, <2>2, <2>3 DEF Ranged, Known
  <2> QED
    BY <2>4, <2>5, <2>6, <2>7, <2>8 DEF Ranged
<1>20. Ranges(h)'
  BY <1>0, <1>1, <1>7, <1>14, <1>16, <1>17, <1>18, <1>19, RangesIf
<1>21. Narrows(t, g, h)
  BY <1>13 DEF Narrows
<1> QED
  BY <1>20, <1>21

\* The left node's range ends where the right one's begins; the parent still
\* knows one range.
LEMMA SplitKeysRanges ==
    ASSUME Inductive, NEW t \in Threads, SplitKeys(t), NEW g, Ranges(g), Searches(t, g)
    PROVE  \E h : Ranges(h)' /\ Narrows(t, g, h)
<1>0. Step(t)
  BY DEF Step, masstree_insert
<1>b. PICK b : b = node[t]
  OBVIOUS
<1>q. PICK q : q = sib[t]
  OBVIOUS
<1>s. PICK S : S = nodes[b].slots
  OBVIOUS
<1>l. PICK left : left = LeftOf(S, key[t])
  OBVIOUS
<1>r. PICK right : right = (S \cup {key[t]}) \ left
  OBVIOUS
<1>x. PICK x : x = Min(right)
  OBVIOUS
<1>1. /\ b \in DOMAIN nodes /\ q \in DOMAIN nodes /\ b # q
      /\ key[t] \in Keys /\ key[t] \notin S /\ S # {}
      /\ DOMAIN nodes' = DOMAIN nodes
      /\ \A n \in DOMAIN nodes : n # b /\ n # q => nodes'[n] = nodes[n]
      /\ nodes'[b] = [nodes[b] EXCEPT !.slots = left, !.torn = FALSE, !.next = q]
      /\ nodes'[q] = [nodes[q] EXCEPT !.slots = right, !.next = nodes[b].next]
      /\ up' = [up EXCEPT ![t] = x]
  BY <1>b, <1>q, <1>s, <1>l, <1>r, <1>x, SplitKeysGoes
<1>2. nodes[b] \in Node /\ nodes[q] \in Node
  BY <1>1, NodeIs DEF Inductive
<1>3. /\ nodes'[b].border = nodes[b].border /\ nodes'[b].next = q /\ nodes'[b].slots = left
      /\ nodes'[b].parent = nodes[b].parent
      /\ nodes'[q].border = nodes[q].border /\ nodes'[q].next = nodes[b].next
      /\ nodes'[q].slots = right /\ nodes'[q].parent = nodes[q].parent
  BY <1>1, <1>2 DEF Node
<1>4. /\ pc[t] = "splitKeys" /\ pc'[t] = "ascend" /\ node'[t] = b /\ sib'[t] = q /\ up'[t] = x
  <2>1. pc \in [Threads -> PCs] /\ up \in [Threads -> Keys \cup {0}]
    BY DEF Inductive, Typed
  <2> QED
    BY <1>1, <1>b, <1>q, <2>1 DEF SplitKeys, Goto
<1>5. Held(t) = {b, q} /\ nodes[b].border /\ nodes[q].border
  BY <1>b, <1>q, <1>4 DEF Held, Inductive, Places, OnBorder
<1>6. /\ g[b].from <= key[t] /\ Under(key[t], g[b].to)
      /\ g[q].from = x /\ g[q].to = g[b].to /\ nodes[q].slots = {} /\ nodes[q].next = NULL
  <2>1. g[b].from <= key[t] /\ Under(key[t], g[b].to)
    BY <1>b, <1>4 DEF Searches
  <2>2. Born(t, g)
    BY DEF Ranges
  <2>3. RightKeys(t) = right
    BY <1>b, <1>s, <1>l, <1>r DEF RightKeys
  <2> QED
    BY <1>b, <1>q, <1>x, <1>4, <2>1, <2>2, <2>3 DEF Born
<1>7. /\ left \subseteq Keys /\ right \subseteq Keys /\ x \in right /\ left # {}
      /\ \A y \in right : x <= y
      /\ \A y \in left : y < x
      /\ \A y \in left \cup right : g[b].from <= y /\ Under(y, g[b].to)
  <2>1. left = LeftOf(nodes[b].slots, key[t]) /\ right = (nodes[b].slots \cup {key[t]}) \ left
    BY <1>s, <1>l, <1>r
  <2>2. key[t] \notin nodes[b].slots /\ b \in DOMAIN nodes /\ key[t] \in Keys
    BY <1>s, <1>1
  <2> QED
    <3>1. nodes[b].border /\ g[b].from <= key[t] /\ Under(key[t], g[b].to) /\ nodes[b].slots # {}
      BY <1>s, <1>1, <1>5, <1>6
    <3>2. Halves(b, left, right, g)
      BY <2>1, <2>2, <3>1, RightKeysAre
    <3> QED
      BY <1>x, <3>1, <3>2 DEF Halves
<1>8. g \in [DOMAIN nodes -> Range0] /\ Ranged(b, g) /\ Ranged(q, g)
  BY <1>1 DEF Ranges
<1>9. x \in Nat /\ g[b].from \in Nat /\ g[b].to \in Nat \cup {NULL} /\ \A y \in left \cup right : y \in Nat
  <2>1. Keys \subseteq Nat
    BY Constants
  <2>2. g[b] \in Range0
    BY <1>1, <1>8
  <2> QED
    BY <1>7, <2>1, <2>2 DEF Range0
<1>10. g[b].from < x /\ Under(x, g[b].to)
  <2>1. PICK y \in left : y < x /\ g[b].from <= y
    BY <1>7
  <2>2. g[b].from < x
    BY <1>9, <2>1
  <2> QED
    BY <1>7, <2>2
<1>11. PICK h : h = [g EXCEPT ![b] = [g[b] EXCEPT !.to = x]]
  OBVIOUS
<1>12. /\ h \in [DOMAIN nodes' -> Range0]
       /\ \A n \in DOMAIN nodes : n # b => h[n] = g[n]
       /\ h[b].from = g[b].from /\ h[b].to = x /\ h[b].end = g[b].end
  BY <1>1, <1>8, <1>9, <1>11 DEF Range0
<1>13. S \cup {key[t]} = left \cup right
  <2>1. left \subseteq S \cup {key[t]}
    BY <1>l DEF LeftOf
  <2> QED
    BY <1>r, <2>1
<1>14. g[b].from \in S => g[b].from \in left
  BY <1>7, <1>9, <1>10, <1>13
<1>15. Keeps(t, g, h)
  <2>1. \A n \in DOMAIN nodes : h[n].from = g[n].from /\ h[n].end = g[n].end
    BY <1>12
  <2>2. \A n \in DOMAIN nodes : n \notin Held(t) => h[n] = g[n]
    BY <1>5, <1>12
  <2>3. ASSUME NEW n \in DOMAIN nodes, g[n].from \in nodes[n].slots
        PROVE  g[n].from \in nodes'[n].slots
    BY <1>s, <1>1, <1>3, <1>6, <1>14, <2>3
  <2> QED
    BY <1>12, <2>1, <2>2, <2>3 DEF Keeps
<1>16. /\ Left(t)' = b /\ Right(t)' = q /\ Right(t) = q
       /\ pc[t] \in Halfway /\ pc'[t] \in Halfway /\ pc[t] \notin Paired /\ pc'[t] \in Paired
  BY <1>q, <1>4 DEF Left, Right, Halfway, Paired
<1>17. /\ ~Fresh(b) /\ ~Fresh(b)' /\ ~Fresh(q)' /\ ~Unlinked(b) /\ Unlinked(q)'
       /\ \A u \in Threads : pc[u] \in Paired => b # Left(u)
       /\ \A u \in Threads : pc[u] \in Paired => q # Left(u)
  <2>1. b \in Held(t) /\ q \in Held(t)
    BY <1>5
  <2>2. /\ ~Fresh(b) /\ ~Fresh(b)' /\ ~Unlinked(b)
        /\ \A u \in Threads : pc[u] \in Paired => b # Left(u)
    BY <1>0, <1>1, <1>4, <1>q, <1>16, <2>1, OwnStatus
  <2>3. /\ ~Fresh(q)' /\ Unlinked(q)'
        /\ \A u \in Threads : pc[u] \in Paired => q # Left(u)
    BY <1>0, <1>1, <1>4, <1>16, <2>1, OwnStatus
  <2> QED
    BY <2>2, <2>3
<1>18. g[b].to = g[b].end /\ g[q].to = g[q].end
  BY <1>8, <1>17 DEF Ranged, Known
<1>19. Ranged(b, h)'
  <2>1. Filled(b, h)'
    <3>1. \A y \in left : g[b].from <= y /\ Under(y, x)
      BY <1>7 DEF Under
    <3>2. Under(g[b].from, x)
      BY <1>10 DEF Under
    <3> QED
      BY <1>3, <1>12, <3>1, <3>2 DEF Filled
  <2>2. Chained(b, h)'
    <3>1. q # NULL
      BY <1>1, NodeIs, Constants DEF Inductive
    <3>2. h[b].to = h[q].from /\ h[q].from \in nodes'[q].slots
      BY <1>1, <1>3, <1>6, <1>7, <1>12
    <3> QED
      BY <1>3, <3>1, <3>2 DEF Chained
  <2>3. Topmost(b, h)'
    BY <1>3, <1>8, <1>12, <1>17 DEF Ranged, Topmost
  <2>4. Divided(b, h)'
    BY <1>3, <1>5 DEF Divided
  <2>5. Known(b, h)'
    BY <1>16 DEF Known
  <2> QED
    BY <2>1, <2>2, <2>3, <2>4, <2>5 DEF Ranged
<1>20. Ranged(q, h)'
  <2>0. h[q] = g[q]
    BY <1>1, <1>12
  <2>1. Filled(q, h)'
    BY <1>3, <1>6, <1>7, <1>10, <2>0 DEF Filled
  <2>2. Chained(q, h)'
    <3>1. Chained(b, g)
      BY <1>8 DEF Ranged
    <3>2. nodes[b].next \in DOMAIN nodes \cup {NULL}
      BY <1>1 DEF Inductive, Shape
    <3>3. \A m \in DOMAIN nodes : /\ h[m].from = g[m].from
                                  /\ g[m].from \in nodes[m].slots => g[m].from \in nodes'[m].slots
      BY <1>15 DEF Keeps
    <3> QED
      BY <1>3, <1>5, <1>6, <1>17, <2>0, <3>1, <3>2, <3>3 DEF Chained
  <2>3. Topmost(q, h)'
    BY <1>17 DEF Topmost
  <2>4. Divided(q, h)'
    BY <1>3, <1>5 DEF Divided
  <2>5. Known(q, h)'
    BY <1>18, <2>0 DEF Known
  <2> QED
    BY <2>1, <2>2, <2>3, <2>4, <2>5 DEF Ranged
<1>21. Born(t, h)' /\ Joined(t, h)' /\ Moving(t, h)'
  <2>1. Born(t, h)' /\ Moving(t, h)'
    BY <1>4 DEF Born, Moving
  <2>2. Joined(t, h)'
    BY <1>1, <1>4, <1>6, <1>12, <1>16, <1>18 DEF Joined
  <2> QED
    BY <2>1, <2>2
<1>22. Disjoint(h)'
  <2>0. \A u \in Threads : u # t => pc'[u] = pc[u] /\ sib'[u] = sib[u]
    BY <1>0, OthersLook
  <2>1. \A n \in DOMAIN nodes : n # q => (Fresh(n) => Fresh(n)')
    BY <1>q, <1>4, <2>0 DEF Fresh
  <2>2. \A n \in DOMAIN nodes : nodes'[n].border = nodes[n].border
    BY <1>0, TreeKeeps DEF Touched
  \* A node that was apart from b is apart from both.
  <2>3. ASSUME NEW m \in DOMAIN nodes, m # b, m # q, nodes'[m].border, ~Fresh(m)'
        PROVE  /\ Before(h, b, m) \/ Before(h, m, b)
               /\ Before(h, q, m) \/ Before(h, m, q)
    <3>1. Before(g, b, m) \/ Before(g, m, b)
      BY <1>1, <1>5, <1>17, <2>1, <2>2, <2>3 DEF Ranges, Disjoint
    <3>2. h[m] = g[m] /\ h[q].from = x /\ h[q].to = g[b].to
      BY <1>1, <1>6, <1>12, <2>3
    <3>3. g[m] \in Range0
      BY <1>8
    <3>4. g[m].from \in Nat /\ g[m].to \in Nat \cup {NULL}
      BY <3>3 DEF Range0
    <3>5. CASE Before(g, b, m)
      <4>1. g[b].to # NULL /\ g[b].to \in Nat /\ g[b].to <= g[m].from /\ x < g[b].to /\ x # NULL
        BY <1>9, <1>10, <3>5, Constants DEF Before, Under
      <4> QED
        BY <1>9, <1>12, <3>2, <3>4, <4>1 DEF Before
    <3>6. CASE Before(g, m, b)
      <4>1. g[m].to # NULL /\ g[m].to \in Nat /\ g[m].to <= g[b].from
        BY <3>4, <3>6 DEF Before
      <4> QED
        BY <1>9, <1>10, <1>12, <3>2, <4>1 DEF Before
    <3> QED
      BY <3>1, <3>5, <3>6
  <2>4. Before(h, b, q)
    <3>1. x # NULL
      BY <1>9, Constants
    <3> QED
      BY <1>1, <1>6, <1>9, <1>12, <3>1 DEF Before
  <2>5. SUFFICES ASSUME NEW n \in DOMAIN nodes, NEW m \in DOMAIN nodes, n # m,
                        nodes'[n].border, nodes'[m].border, ~Fresh(n)', ~Fresh(m)'
                 PROVE  Before(h, n, m) \/ Before(h, m, n)
    BY <1>1 DEF Disjoint, Before
  <2>6. CASE n \in {b, q} \/ m \in {b, q}
    BY <2>3, <2>4, <2>5, <2>6
  <2>7. CASE n \notin {b, q} /\ m \notin {b, q}
    <3>1. Before(g, n, m) \/ Before(g, m, n)
      BY <2>1, <2>2, <2>5, <2>7 DEF Ranges, Disjoint
    <3> QED
      BY <1>12, <2>7, <3>1 DEF Before
  <2> QED
    BY <2>6, <2>7
<1>23. Ranges(h)'
  BY <1>0, <1>1, <1>5, <1>15, <1>19, <1>20, <1>21, <1>22, RangesIf
<1>24. Narrows(t, g, h)
  <2>1. V(b).splitting
    BY <1>b, <1>1, <1>4, OwnMarks DEF Splitting
  <2>2. nodes'[b].version.splitting
    BY <1>1, <1>2, <2>1 DEF V, Node
  <2> QED
    BY <1>4, <1>5, <1>12, <2>2 DEF Narrows
<1> QED
  BY <1>23, <1>24

\* The children of a node that t holds, where they do not include b.
LEMMA HeldFits ==
    ASSUME Inductive, NEW g, NEW h,
           \A n \in DOMAIN nodes : h[n].from = g[n].from,
           NEW b, \A n \in DOMAIN nodes : n # b => h[n].end = g[n].end,
           NEW p \in DOMAIN nodes, ~nodes[p].border, b \notin Kids(p), h[p].to = g[p].to,
           Fits(nodes[p].seps, nodes[p].children, p, g)
    PROVE  Fits(nodes[p].seps, nodes[p].children, p, h)
<1>1. ASSUME NEW n \in Kids(p) PROVE h[n].from = g[n].from /\ h[n].end = g[n].end
  <2>1. n \in DOMAIN nodes
    BY DEF Inductive, Shape
  <2> QED
    BY <2>1
<1>2. h[p].from = g[p].from
  OBVIOUS
<1> QED
  BY <1>1, <1>2, SepsAre, FitsSame DEF Kids

\* The new root divides all keys between the two.
LEMMA NewRootRanges ==
    ASSUME Inductive, NEW t \in Threads, NewRoot(t), NEW g, Ranges(g)
    PROVE  \E h : Ranges(h)' /\ Narrows(t, g, h)
<1>0. Step(t)
  BY DEF Step, masstree_insert
<1>b. PICK b : b = node[t]
  OBVIOUS
<1>q. PICK q : q = sib[t]
  OBVIOUS
<1>r. PICK r : r = Len(nodes) + 1
  OBVIOUS
<1>x. PICK x : x = up[t]
  OBVIOUS
<1> DEFINE v == [NewVersion EXCEPT !.is_root = TRUE]
<1>1. /\ b \in DOMAIN nodes /\ q \in DOMAIN nodes /\ b # q /\ r \notin DOMAIN nodes
      /\ x \in Keys /\ nodes[b].parent = NULL
      /\ DOMAIN nodes' = DOMAIN nodes \cup {r}
      /\ \A n \in DOMAIN nodes : n # b /\ n # q => nodes'[n] = nodes[n]
      /\ nodes'[b] = [nodes[b] EXCEPT !.parent = r, !.version.is_root = FALSE]
      /\ nodes'[q] = [nodes[q] EXCEPT !.parent = r, !.version.is_root = FALSE]
      /\ nodes'[r] = Interior(v, <<x>>, <<b, q>>)
  BY <1>b, <1>q, <1>r, <1>x, NewRootGoes
<1>2. nodes[b] \in Node /\ nodes[q] \in Node /\ b \in Nat /\ q \in Nat /\ r # NULL
  <2>1. r \in Nat
    BY <1>r, <1>1, NodeIs DEF Inductive
  <2> QED
    BY <1>1, <2>1, NodeIs, Constants DEF Inductive
<1>3. /\ ~Interior(v, <<x>>, <<b, q>>).border
      /\ Interior(v, <<x>>, <<b, q>>).seps = <<x>> /\ Interior(v, <<x>>, <<b, q>>).children = <<b, q>>
  BY DEF Interior
<1> HIDE DEF v
<1>4. \A n \in {b, q} : /\ nodes'[n].border = nodes[n].border /\ nodes'[n].slots = nodes[n].slots
                        /\ nodes'[n].next = nodes[n].next /\ nodes'[n].seps = nodes[n].seps
                        /\ nodes'[n].children = nodes[n].children /\ nodes'[n].parent = r
  <2>1. /\ nodes'[b].border = nodes[b].border /\ nodes'[b].slots = nodes[b].slots
        /\ nodes'[b].next = nodes[b].next /\ nodes'[b].seps = nodes[b].seps
        /\ nodes'[b].children = nodes[b].children /\ nodes'[b].parent = r
    BY <1>1, <1>2 DEF Node
  <2>2. /\ nodes'[q].border = nodes[q].border /\ nodes'[q].slots = nodes[q].slots
        /\ nodes'[q].next = nodes[q].next /\ nodes'[q].seps = nodes[q].seps
        /\ nodes'[q].children = nodes[q].children /\ nodes'[q].parent = r
    BY <1>1, <1>2 DEF Node
  <2> QED
    BY <2>1, <2>2
<1>5. ~nodes'[r].border /\ nodes'[r].seps = <<x>> /\ nodes'[r].children = <<b, q>>
  BY <1>1, <1>3
<1>6. pc[t] = "ascend" /\ pc'[t] = "leaveRoot"
  <2>1. pc \in [Threads -> PCs]
    BY DEF Inductive, Typed
  <2> QED
    BY <2>1 DEF NewRoot, Goto
<1>7. /\ Held(t) = {b, q} /\ Left(t) = b /\ Right(t) = q
      /\ pc[t] \in Paired /\ pc[t] \in Halfway /\ pc'[t] \notin Halfway /\ pc'[t] \notin Paired
  BY <1>b, <1>q, <1>6 DEF Held, Left, Right, Halfway, Paired
<1>8. /\ ~Fresh(b) /\ ~Fresh(q) /\ ~Filling(b) /\ ~Filling(q) /\ ~Unlinked(b)
      /\ \A u \in Threads : pc[u] \in Paired => q # Left(u)
  <2>1. b \in Held(t) /\ q \in Held(t)
    BY <1>7
  <2> QED
    BY <1>0, <1>1, <1>6, <1>7, <2>1, OwnStatus
<1>9. g \in [DOMAIN nodes -> Range0] /\ Ranged(b, g) /\ Ranged(q, g) /\ Joined(t, g)
  BY <1>1 DEF Ranges
<1>10. /\ g[b].from = 0 /\ g[b].end = NULL /\ g[b].to = x /\ g[q].from = x
       /\ g[q].to = NULL /\ g[q].end = NULL
  <2>1. g[b].from = 0 /\ g[b].end = NULL
    BY <1>1, <1>8, <1>9 DEF Ranged, Topmost
  <2>2. g[b].to = x /\ g[q].from = x /\ g[q].to = g[b].end
    BY <1>7, <1>9, <1>x DEF Joined
  <2>3. g[q].to = g[q].end
    BY <1>8, <1>9 DEF Ranged, Known
  <2> QED
    BY <2>1, <2>2, <2>3
<1>11. x \in Nat
  <2>1. Keys \subseteq Nat
    BY Constants
  <2> QED
    BY <1>1, <2>1
<1>12. PICK h : h = [n \in DOMAIN nodes \cup {r} |->
                       IF n = r THEN [from |-> 0, to |-> NULL, end |-> NULL]
                       ELSE IF n = b THEN [g[b] EXCEPT !.end = x] ELSE g[n]]
  OBVIOUS
<1>13. /\ h \in [DOMAIN nodes' -> Range0]
       /\ \A n \in DOMAIN nodes : n # b => h[n] = g[n]
       /\ h[b].from = g[b].from /\ h[b].to = g[b].to /\ h[b].end = x
       /\ h[r].from = 0 /\ h[r].to = NULL /\ h[r].end = NULL
  BY <1>1, <1>9, <1>11, <1>12 DEF Range0
<1>14. Keeps(t, g, h)
  <2>1. \A n \in DOMAIN nodes : h[n].from = g[n].from
    BY <1>13
  <2>2. \A n \in DOMAIN nodes : h[n].end = g[n].end \/ nodes[n].parent \in Held(t) \cup {NULL}
    BY <1>1, <1>13
  <2>3. \A n \in DOMAIN nodes : nodes'[n].slots = nodes[n].slots
    BY <1>1, <1>4
  <2> QED
    BY <1>7, <1>13, <2>1, <2>2, <2>3 DEF Keeps
<1>15. Ranged(r, h)'
  <2>1. Filled(r, h)' /\ Chained(r, h)'
    BY <1>5, <1>13 DEF Filled, Chained, Under
  <2>2. Topmost(r, h)' /\ Known(r, h)'
    BY <1>13 DEF Topmost, Known
  <2>3. Fits(<<x>>, <<b, q>>, r, h)
    <3>1. h[b].end = x /\ h[q].from = x /\ h[b].from = h[r].from /\ h[q].end = h[r].to
      BY <1>1, <1>10, <1>13
    <3>2. Rises(<<x>>)
      BY DEF Rises
    <3>3. Meets(<<x>>, <<b, q>>, h)
      BY <3>1 DEF Meets
    <3> QED
      BY <3>1, <3>2, <3>3 DEF Fits
  <2>4. Divided(r, h)'
    BY <1>5, <2>3 DEF Divided
  <2> QED
    BY <2>1, <2>2, <2>4 DEF Ranged
<1>16. ASSUME NEW n \in {b, q} PROVE Ranged(n, h)'
  <2>1. n \in DOMAIN nodes /\ Ranged(n, g) /\ h[n].from = g[n].from /\ h[n].to = g[n].to
        /\ ~Fresh(n) /\ ~Filling(n)
    BY <1>1, <1>8, <1>9, <1>13
  <2>2. Filled(n, h)'
    BY <1>4, <2>1 DEF Ranged, Filled
  <2>3. Chained(n, h)'
    <3>1. nodes[n].next \in DOMAIN nodes \cup {NULL}
      BY <2>1 DEF Inductive, Shape
    <3>2. \A m \in DOMAIN nodes : h[m].from = g[m].from /\ nodes'[m].slots = nodes[m].slots
      BY <1>1, <1>4, <1>13
    <3> QED
      BY <1>4, <2>1, <3>1, <3>2 DEF Ranged, Chained
  <2>4. Topmost(n, h)'
    BY <1>2, <1>4 DEF Topmost
  <2>5. Divided(n, h)'
    <3>1. \A m \in DOMAIN nodes : h[m].from = g[m].from /\ (m # b => h[m].end = g[m].end)
      BY <1>13
    <3>2. b \notin Kids(n)
      BY <1>1, <2>1, NoParent
    <3>3. ~nodes[n].border => Fits(nodes[n].seps, nodes[n].children, n, h)
      BY <2>1, <3>1, <3>2, HeldFits DEF Ranged, Divided
    <3> QED
      BY <1>4, <3>3 DEF Divided
  <2>6. Known(n, h)'
    BY <1>10, <1>13, <1>1 DEF Known
  <2> QED
    BY <2>2, <2>3, <2>4, <2>5, <2>6 DEF Ranged
<1>17. Born(t, h)' /\ Joined(t, h)' /\ Moving(t, h)'
  BY <1>6, <1>7 DEF Born, Joined, Moving
<1>18. Disjoint(h)'
  <2>1. \A n \in DOMAIN nodes : h[n].to = g[n].to
    BY <1>13
  <2> QED
    BY <1>0, <1>1, <1>5, <1>6, <1>14, <2>1, DisjointStays DEF Ranges
<1>19. Ranges(h)'
  BY <1>0, <1>1, <1>7, <1>14, <1>15, <1>16, <1>17, <1>18, RangesIf
<1>20. Narrows(t, g, h)
  BY <1>7, <1>13 DEF Narrows
<1> QED
  BY <1>19, <1>20

\* The parent learns of the right node: its children with the new one fit.
LEMMA LinkFits ==
    ASSUME Inductive, NEW t \in Threads, pc[t] \in {"intoParent", "tearParent"},
           NEW g, Ranges(g), ~Filling(par[t]),
           g[node[t]].to = up[t], g[sib[t]].from = up[t], g[sib[t]].end = g[node[t]].end,
           Under(up[t], g[sib[t]].end),
           NEW h, \A n \in DOMAIN nodes : h[n].from = g[n].from /\ h[n].to = g[n].to,
           \A n \in DOMAIN nodes : n # node[t] => h[n].end = g[n].end,
           h[node[t]].end = up[t]
    PROVE  Fits(Seps(t), Shared(t), par[t], h)
<1>b. PICK b : b = node[t]
  OBVIOUS
<1>q. PICK q : q = sib[t]
  OBVIOUS
<1>p. PICK p : p = par[t]
  OBVIOUS
<1>i. PICK i : i = ChildIndex(p, b)
  OBVIOUS
<1>x. PICK x : x = up[t]
  OBVIOUS
<1>s. PICK s : s = nodes[p].seps
  OBVIOUS
<1>c. PICK c : c = nodes[p].children
  OBVIOUS
<1>1. /\ b \in DOMAIN nodes /\ q \in DOMAIN nodes /\ p \in DOMAIN nodes /\ x \in Keys
      /\ b # q /\ ~nodes[p].border
      /\ s \in Seq(Keys) /\ c \in Seq(Nat) /\ Len(c) = Len(s) + 1
      /\ i \in 1 .. Len(c) /\ c[i] = b
  BY <1>b, <1>q, <1>p, <1>i, <1>x, <1>s, <1>c, HasParent
<1>2. s \in Seq(Nat) /\ x \in Nat /\ q \in Nat
  <2>1. Keys \subseteq Nat
    BY Constants
  <2> QED
    BY <1>1, <2>1, KeysAreNumbers, NodeIs DEF Inductive
<1>3. Fits(s, c, p, g)
  <2>1. Ranged(p, g)
    BY <1>1 DEF Ranges
  <2> QED
    BY <1>p, <1>s, <1>c, <1>1, <2>1 DEF Ranged, Divided
<1>4. \A j \in DOMAIN c : c[j] \in DOMAIN nodes /\ (j # i => c[j] # b)
  <2>1. \A j \in DOMAIN c : c[j] \in Kids(p)
    BY <1>c DEF Kids, ToSet
  <2>2. Kids(p) \subseteq DOMAIN nodes
    BY <1>1 DEF Inductive, Shape
  <2>3. \A j \in DOMAIN c : c[j] = c[i] => j = i
    BY <1>c, <1>1 DEF Inductive, Family
  <2> QED
    BY <1>1, <2>1, <2>2, <2>3
<1>5. Given(c, i, x, q, g, h)
  <2>1. \A j \in DOMAIN c : h[c[j]].from = g[c[j]].from /\ (j # i => h[c[j]].end = g[c[j]].end)
    BY <1>b, <1>4
  <2>2. h[c[i]].end = x /\ h[q].from = x /\ h[q].end = g[c[i]].end
    BY <1>b, <1>q, <1>x, <1>1
  <2> QED
    BY <2>1, <2>2 DEF Given
<1>6. g[c[i]].from \in Nat /\ g[c[i]].from < x /\ Under(x, g[c[i]].end)
  <2>1. g[b] \in Range0 /\ Filled(b, g)
    BY <1>1 DEF Ranges, Ranged
  <2>2. g[b].to = x /\ x # NULL /\ Under(x, g[b].end)
    BY <1>b, <1>q, <1>x, <1>2, Constants
  <2> QED
    BY <1>1, <2>1, <2>2 DEF Range0, Filled, Under
<1>7. Fits(InsertAt(s, i, x), InsertAt(c, i + 1, q), p, h)
  <2>1. h[p].from = g[p].from /\ h[p].to = g[p].to
    BY <1>1
  <2> QED
    BY <1>1, <1>2, <1>3, <1>5, <1>6, <2>1, FitsInsert
<1> QED
  BY <1>7, <1>b, <1>q, <1>p, <1>i, <1>x, <1>s, <1>c DEF Seps, Shared

\* What the two steps that let the parent know have in common.
Linked(t) ==
    /\ DOMAIN nodes' = DOMAIN nodes
    /\ \A n \in DOMAIN nodes :
         /\ nodes'[n].border = nodes[n].border /\ nodes'[n].slots = nodes[n].slots
         /\ nodes'[n].next = nodes[n].next
         /\ n # par[t] => nodes'[n].seps = nodes[n].seps /\ nodes'[n].children = nodes[n].children
    /\ nodes'[node[t]].parent # NULL
    /\ nodes'[sib[t]].parent # NULL \/ (pc'[t] \in Halfway /\ sib[t] = Right(t)')
    /\ nodes'[par[t]].parent = nodes[par[t]].parent
    /\ pc[t] \in {"intoParent", "tearParent"} /\ pc'[t] \notin Paired \cup {"splitKeys"}
    /\ \/ /\ pc'[t] = "fillParent" /\ par'[t] = par[t]
          /\ Seps(t)' = Seps(t) /\ Shared(t)' = Shared(t)
       \/ /\ pc'[t] # "fillParent"
          /\ nodes'[par[t]].seps = Seps(t) /\ nodes'[par[t]].children = Shared(t)

\* The parent learns of the right node: at once, or in fillParent.
LEMMA IntoParentLinks ==
    ASSUME Inductive, NEW t \in Threads, IntoParent(t)
    PROVE  Linked(t)
<1>b. PICK b : b = node[t]
  OBVIOUS
<1>q. PICK q : q = sib[t]
  OBVIOUS
<1>p. PICK p : p = par[t]
  OBVIOUS
<1>1. pc[t] = "intoParent" /\ pc'[t] = "leaveNode"
  <2>1. pc \in [Threads -> PCs]
    BY DEF Inductive, Typed
  <2> QED
    BY <2>1 DEF IntoParent, Goto
<1>2. /\ b \in DOMAIN nodes /\ q \in DOMAIN nodes /\ p \in DOMAIN nodes
      /\ p # q /\ b # q /\ nodes[b].parent = p
  BY <1>1, <1>b, <1>q, <1>p, HasParent
<1>3. /\ DOMAIN nodes' = DOMAIN nodes
      /\ \A n \in DOMAIN nodes : n # p /\ n # q => nodes'[n] = nodes[n]
      /\ nodes'[q] = [nodes[q] EXCEPT !.parent = p]
      /\ nodes'[p] = [nodes[p] EXCEPT !.torn = FALSE, !.seps = Seps(t), !.children = Shared(t)]
  BY <1>b, <1>q, <1>p, IntoParentGoes DEF Seps, Shared
<1>4. nodes[p] \in Node /\ nodes[q] \in Node /\ p # NULL
  BY <1>2, NodeIs, Constants DEF Inductive
<1>5. /\ nodes'[q].border = nodes[q].border /\ nodes'[q].slots = nodes[q].slots
      /\ nodes'[q].next = nodes[q].next /\ nodes'[q].seps = nodes[q].seps
      /\ nodes'[q].children = nodes[q].children /\ nodes'[q].parent = p
  BY <1>3, <1>4 DEF Node
<1>6. /\ nodes'[p].border = nodes[p].border /\ nodes'[p].slots = nodes[p].slots
      /\ nodes'[p].next = nodes[p].next /\ nodes'[p].parent = nodes[p].parent
      /\ nodes'[p].seps = Seps(t) /\ nodes'[p].children = Shared(t)
  BY <1>3, <1>4 DEF Node
<1>7. ASSUME NEW n \in DOMAIN nodes
      PROVE  /\ nodes'[n].border = nodes[n].border /\ nodes'[n].slots = nodes[n].slots
             /\ nodes'[n].next = nodes[n].next
             /\ n # p => nodes'[n].seps = nodes[n].seps /\ nodes'[n].children = nodes[n].children
  BY <1>3, <1>5, <1>6
<1>8. nodes'[b].parent # NULL
  <2>1. CASE b = p
    BY <1>2, <1>4, <1>6, <2>1
  <2>2. CASE b # p
    BY <1>2, <1>3, <1>4, <2>2
  <2> QED
    BY <2>1, <2>2
<1> QED
  BY <1>1, <1>b, <1>q, <1>p, <1>3, <1>4, <1>5, <1>6, <1>7, <1>8 DEF Linked, Paired, Halfway

LEMMA TearParentLinks ==
    ASSUME Inductive, NEW t \in Threads, TearParent(t)
    PROVE  Linked(t)
<1>1. /\ DOMAIN nodes' = DOMAIN nodes
      /\ \A n \in DOMAIN nodes : Alike(nodes'[n], nodes[n])
  BY MarkStepGoes DEF MarkStep
<1>2. /\ pc[t] = "tearParent" /\ pc'[t] = "fillParent" /\ node'[t] = node[t]
      /\ sib'[t] = sib[t] /\ par'[t] = par[t] /\ up'[t] = up[t]
  <2>1. pc \in [Threads -> PCs]
    BY DEF Inductive, Typed
  <2> QED
    BY <2>1 DEF TearParent, Goto, loc
<1>3. /\ node[t] \in DOMAIN nodes /\ sib[t] \in DOMAIN nodes /\ par[t] \in DOMAIN nodes
      /\ nodes[node[t]].parent = par[t] /\ par[t] # NULL
  <2>1. /\ node[t] \in DOMAIN nodes /\ sib[t] \in DOMAIN nodes /\ par[t] \in DOMAIN nodes
        /\ nodes[node[t]].parent = par[t]
    BY <1>2, HasParent
  <2> QED
    BY <2>1, NodeIs, Constants DEF Inductive
<1>4. Seps(t)' = Seps(t) /\ Shared(t)' = Shared(t)
  <2>1. nodes'[par[t]].seps = nodes[par[t]].seps /\ nodes'[par[t]].children = nodes[par[t]].children
    BY <1>1, <1>3 DEF Alike
  <2> QED
    BY <1>2, <2>1 DEF Seps, Shared, ChildIndex
<1>5. pc'[t] \in Halfway /\ sib[t] = Right(t)' /\ pc'[t] \notin Paired \cup {"splitKeys"}
  BY <1>2 DEF Halfway, Right, Paired
<1>6. nodes'[node[t]].parent # NULL /\ nodes'[par[t]].parent = nodes[par[t]].parent
  BY <1>1, <1>3 DEF Alike
<1>7. ASSUME NEW n \in DOMAIN nodes
      PROVE  /\ nodes'[n].border = nodes[n].border /\ nodes'[n].slots = nodes[n].slots
             /\ nodes'[n].next = nodes[n].next
             /\ nodes'[n].seps = nodes[n].seps /\ nodes'[n].children = nodes[n].children
  BY <1>1 DEF Alike
<1> QED
  BY <1>1, <1>2, <1>4, <1>5, <1>6, <1>7 DEF Linked

\* From then on the parent knows the ranges of both.
LEMMA LinkRanges ==
    ASSUME Inductive, NEW t \in Threads, Step(t), Linked(t), NEW g, Ranges(g)
    PROVE  \E h : Ranges(h)' /\ Narrows(t, g, h)
<1>b. PICK b : b = node[t]
  OBVIOUS
<1>q. PICK q : q = sib[t]
  OBVIOUS
<1>p. PICK p : p = par[t]
  OBVIOUS
<1>x. PICK x : x = up[t]
  OBVIOUS
<1>1. pc[t] \in {"intoParent", "tearParent"} /\ pc'[t] \notin Paired \cup {"splitKeys"}
  BY DEF Linked
<1>2. /\ b \in DOMAIN nodes /\ q \in DOMAIN nodes /\ p \in DOMAIN nodes /\ x \in Keys
      /\ p # q /\ b # q /\ nodes[b].parent = p /\ nodes[q].parent = NULL /\ ~nodes[p].border
  BY <1>1, <1>b, <1>q, <1>p, <1>x, HasParent
<1>3. x \in Nat /\ x # NULL /\ p # NULL
  <2>1. Keys \subseteq Nat
    BY Constants
  <2> QED
    BY <1>2, <2>1, NodeIs, Constants DEF Inductive
<1>4. p # b
  <2>1. Apart(t)
    BY DEF Inductive
  <2> QED
    BY <1>1, <1>p, <1>b, <2>1 DEF Apart
<1>5. /\ Held(t) = {b, q, p} /\ Left(t) = b /\ Right(t) = q /\ pc[t] \in Paired /\ pc[t] \in Halfway
      /\ pc[t] \notin {"fillParent", "splitKeys"}
  BY <1>1, <1>b, <1>q, <1>p DEF Held, Left, Right, Halfway, Paired
<1>6. /\ ~Fresh(b) /\ ~Fresh(q) /\ ~Fresh(p) /\ ~Filling(b) /\ ~Filling(q) /\ ~Filling(p)
      /\ ~Unlinked(p)
      /\ \A u \in Threads : pc[u] \in Paired => q # Left(u)
      /\ \A u \in Threads : pc[u] \in Paired => p # Left(u)
  <2>1. b \in Held(t) /\ q \in Held(t) /\ p \in Held(t)
    BY <1>5
  <2>2. ~Fresh(b) /\ ~Filling(b)
    BY <1>5, <2>1, OwnStatus
  <2>3. ~Fresh(q) /\ ~Filling(q) /\ \A u \in Threads : pc[u] \in Paired => q # Left(u)
    BY <1>2, <1>5, <2>1, OwnStatus
  <2>4. /\ ~Fresh(p) /\ ~Filling(p) /\ ~Unlinked(p)
        /\ \A u \in Threads : pc[u] \in Paired => p # Left(u)
    BY <1>2, <1>4, <1>5, <2>1, OwnStatus
  <2> QED
    BY <2>2, <2>3, <2>4
<1>7. g \in [DOMAIN nodes -> Range0] /\ Ranged(b, g) /\ Ranged(q, g) /\ Ranged(p, g) /\ Joined(t, g)
  BY <1>2 DEF Ranges
<1>8. g[b].to = x /\ g[q].from = x /\ g[q].to = g[b].end /\ g[q].to = g[q].end /\ g[p].to = g[p].end
  BY <1>5, <1>6, <1>7, <1>x DEF Joined, Ranged, Known
<1>9. Under(x, g[q].end)
  BY <1>7, <1>8 DEF Ranged, Filled
<1>10. PICK h : h = [g EXCEPT ![b] = [g[b] EXCEPT !.end = x]]
  OBVIOUS
<1>11. /\ h \in [DOMAIN nodes' -> Range0]
       /\ \A n \in DOMAIN nodes : n # b => h[n] = g[n]
       /\ h[b].from = g[b].from /\ h[b].to = g[b].to /\ h[b].end = x
  BY <1>2, <1>3, <1>7, <1>10 DEF Range0, Linked
<1>12. /\ \A n \in DOMAIN nodes : h[n].from = g[n].from /\ h[n].to = g[n].to
       /\ \A n \in DOMAIN nodes : n # b => h[n].end = g[n].end
  BY <1>11
<1>13. Fits(Seps(t), Shared(t), p, h)
  <2>1. /\ ~Filling(par[t]) /\ g[node[t]].to = up[t] /\ g[sib[t]].from = up[t]
        /\ g[sib[t]].end = g[node[t]].end /\ Under(up[t], g[sib[t]].end)
        /\ h[node[t]].end = up[t]
    BY <1>b, <1>q, <1>p, <1>x, <1>6, <1>8, <1>9, <1>11
  <2>2. \A n \in DOMAIN nodes : n # node[t] => h[n].end = g[n].end
    BY <1>b, <1>12
  <2>3. Fits(Seps(t), Shared(t), par[t], h)
    BY <1>1, <1>12, <2>1, <2>2, LinkFits
  <2> QED
    BY <1>p, <2>3
<1>14. Keeps(t, g, h)
  <2>1. \A n \in DOMAIN nodes : h[n].end = g[n].end \/ nodes[n].parent \in Held(t) \cup {NULL}
    BY <1>2, <1>5, <1>12
  <2>2. \A n \in DOMAIN nodes : nodes'[n].slots = nodes[n].slots
    BY DEF Linked
  <2>3. \A n \in DOMAIN nodes : n \notin Held(t) => h[n] = g[n]
    BY <1>5, <1>11
  <2> QED
    BY <1>11, <1>12, <2>1, <2>2, <2>3 DEF Keeps
<1>15. ASSUME NEW n \in Held(t) PROVE Ranged(n, h)'
  <2>1. /\ n \in DOMAIN nodes /\ n \in {b, q, p} /\ Ranged(n, g)
        /\ h[n].from = g[n].from /\ h[n].to = g[n].to
        /\ ~Fresh(n) /\ ~Filling(n)
        /\ nodes'[n].border = nodes[n].border /\ nodes'[n].slots = nodes[n].slots
        /\ nodes'[n].next = nodes[n].next
    BY <1>2, <1>5, <1>6, <1>7, <1>12 DEF Linked
  <2>2. Filled(n, h)'
    BY <2>1 DEF Ranged, Filled
  <2>3. Chained(n, h)'
    <3>1. nodes[n].next \in DOMAIN nodes \cup {NULL}
      BY <2>1 DEF Inductive, Shape
    <3>2. \A m \in DOMAIN nodes : h[m].from = g[m].from /\ nodes'[m].slots = nodes[m].slots
      BY <1>12 DEF Linked
    <3> QED
      BY <2>1, <3>1, <3>2 DEF Ranged, Chained
  <2>4. Topmost(n, h)'
    <3>1. CASE n = b
      BY <1>b, <3>1 DEF Linked, Topmost
    <3>2. CASE n = q
      <4>1. nodes'[q].parent # NULL \/ Unlinked(q)'
        <5>1. q \in Held(t)
          BY <1>5
        <5> QED
          BY <1>q, <5>1, OwnStatus DEF Linked
      <4> QED
        BY <3>2, <4>1 DEF Topmost
    <3>3. CASE n = p
      <4>1. nodes'[p].parent = nodes[p].parent /\ h[p].end = g[p].end /\ ~Unlinked(p)
        BY <1>p, <1>2, <1>4, <1>6, <1>12 DEF Linked
      <4> QED
        BY <2>1, <3>3, <4>1 DEF Ranged, Topmost
    <3> QED
      BY <2>1, <3>1, <3>2, <3>3
  <2>5. Divided(n, h)'
    <3>1. CASE n # p
      <4>1. b \notin Kids(n)
        BY <1>2, <2>1, <3>1 DEF Inductive, Family
      <4>2. ~nodes[n].border => Fits(nodes[n].seps, nodes[n].children, n, h)
        BY <1>12, <2>1, <4>1, HeldFits DEF Ranged, Divided
      <4>3. nodes'[n].seps = nodes[n].seps /\ nodes'[n].children = nodes[n].children
        BY <1>p, <2>1, <3>1 DEF Linked
      <4> QED
        BY <2>1, <4>2, <4>3 DEF Divided
    <3>2. CASE n = p
      <4>1. CASE pc'[t] = "fillParent" /\ par'[t] = par[t]
        <5>1. Filling(n)'
          BY <1>p, <3>2, <4>1 DEF Filling
        <5> QED
          BY <5>1 DEF Divided
      <4>2. CASE nodes'[par[t]].seps = Seps(t) /\ nodes'[par[t]].children = Shared(t)
        BY <1>p, <1>13, <3>2, <4>2 DEF Divided
      <4> QED
        BY <4>1, <4>2 DEF Linked
    <3> QED
      BY <3>1, <3>2
  <2>6. Known(n, h)'
    BY <1>2, <1>4, <1>8, <1>11, <2>1 DEF Known
  <2> QED
    BY <2>2, <2>3, <2>4, <2>5, <2>6 DEF Ranged
<1>16. Born(t, h)' /\ Joined(t, h)' /\ Moving(t, h)'
  <2>1. Born(t, h)' /\ Joined(t, h)'
    BY <1>1 DEF Born, Joined
  <2>2. Moving(t, h)'
    BY <1>p, <1>13 DEF Moving, Linked
  <2> QED
    BY <2>1, <2>2
<1>17. Disjoint(h)'
  <2>1. DOMAIN nodes' = DOMAIN nodes
    BY DEF Linked
  <2> QED
    BY <1>5, <1>7, <1>12, <1>14, <2>1, DisjointStays DEF Ranges
<1>18. Ranges(h)'
  <2>1. DOMAIN nodes' = DOMAIN nodes
    BY DEF Linked
  <2> QED
    BY <1>14, <1>15, <1>16, <1>17, <2>1, RangesIf
<1>19. Narrows(t, g, h)
  BY <1>12, <1>14 DEF Narrows, Keeps
<1> QED
  BY <1>18, <1>19

\* What a parent counts as a node's is not empty either.
LEMMA UnderEnd ==
    ASSUME Inductive, NEW g, Ranges(g), NEW n \in DOMAIN nodes
    PROVE  Under(g[n].from, g[n].end)
<1>1. Filled(n, g) /\ Known(n, g) /\ g[n] \in Range0
  BY DEF Ranges, Ranged
<1>2. CASE \A u \in Threads : pc[u] \in Paired => n # Left(u)
  BY <1>1, <1>2 DEF Filled, Known
<1>3. CASE \E u \in Threads : pc[u] \in Paired /\ n = Left(u)
  <2>1. PICK u \in Threads : pc[u] \in Paired /\ n = Left(u)
    BY <1>3
  <2>2. Right(u) \in DOMAIN nodes
    BY <2>1, Owned, OwnMarks
  <2>3. /\ g[n].to = up[u] /\ g[Right(u)].from = up[u] /\ g[Right(u)].to = g[n].end
        /\ Filled(Right(u), g) /\ g[Right(u)] \in Range0
    BY <2>1, <2>2 DEF Ranges, Ranged, Joined
  <2>4. up[u] \in Nat /\ up[u] # NULL
    BY <2>3, Constants DEF Range0
  <2>5. g[n].from < up[u] /\ Under(up[u], g[n].end)
    BY <1>1, <2>3, <2>4 DEF Filled, Under
  <2>6. g[n].from \in Nat /\ g[n].end \in Nat \cup {NULL}
    BY <1>1 DEF Range0
  <2> QED
    BY <2>4, <2>5, <2>6 DEF Under
<1> QED
  BY <1>2, <1>3

Within(x, p, g) == g[p].from < x /\ Under(x, g[p].to)

\* The separators are in the range that they divide.
LEMMA SepsWithin ==
    ASSUME NEW s \in Seq(Nat), NEW c \in Seq(Nat), Len(c) = Len(s) + 1, NEW p, NEW g,
           Fits(s, c, p, g),
           \A j \in DOMAIN c : g[c[j]] \in Range0 /\ Under(g[c[j]].from, g[c[j]].end),
           NEW i \in DOMAIN s
    PROVE  Within(s[i], p, g)
<1>1. /\ Len(s) \in Nat /\ DOMAIN s = 1 .. Len(s) /\ DOMAIN c = 1 .. Len(s) + 1
      /\ \A j \in DOMAIN s : s[j] \in Nat
  OBVIOUS
<1>2. 1 \in DOMAIN s /\ Len(s) \in DOMAIN s /\ i \in Nat /\ 1 <= i /\ i <= Len(s)
      /\ 1 \in DOMAIN c /\ Len(s) + 1 \in DOMAIN c
  BY <1>1
<1>3. /\ Rises(s) /\ g[c[1]].end = s[1] /\ g[c[Len(s) + 1]].from = s[Len(s)]
      /\ g[c[1]].from = g[p].from /\ g[c[Len(s) + 1]].end = g[p].to
  BY <1>1, <1>2 DEF Fits, Meets
<1>4. s[1] <= s[i] /\ s[i] <= s[Len(s)]
  BY <1>1, <1>2, <1>3 DEF Rises
<1>5. s[1] \in Nat /\ s[i] \in Nat /\ s[Len(s)] \in Nat
  BY <1>1, <1>2
<1>6. /\ g[p].from \in Nat /\ g[p].to \in Nat \cup {NULL}
      /\ Under(g[p].from, s[1]) /\ Under(s[Len(s)], g[p].to)
  BY <1>2, <1>3 DEF Range0
<1>7. s[1] # NULL
  BY <1>5, Constants
<1>8. g[p].from < s[i]
  BY <1>4, <1>5, <1>6, <1>7 DEF Under
<1>9. Under(s[i], g[p].to)
  BY <1>4, <1>5, <1>6 DEF Under
<1> QED
  BY <1>8, <1>9 DEF Within

\* The middle separator divides the parent's range.
LEMMA FillParentRanges ==
    ASSUME Inductive, NEW t \in Threads, FillParent(t), NEW g, Ranges(g)
    PROVE  \E h : Ranges(h)' /\ Narrows(t, g, h)
<1>0. Step(t)
  BY DEF Step, masstree_insert
<1>q. PICK q : q = sib[t]
  OBVIOUS
<1>p. PICK p : p = par[t]
  OBVIOUS
<1>r. PICK r : r = Len(nodes) + 1
  OBVIOUS
<1>s. PICK s : s = Seps(t)
  OBVIOUS
<1>c. PICK c : c = Shared(t)
  OBVIOUS
<1>m. PICK m : m = Middle
  OBVIOUS
<1>y. PICK y : y = s[m]
  OBVIOUS
<1>1. pc[t] = "fillParent" /\ pc'[t] = "ascendParent" /\ sib'[t] = q /\ par'[t] = p
  <2>1. pc \in [Threads -> PCs]
    BY DEF Inductive, Typed
  <2> QED
    BY <2>1, <1>q, <1>p DEF FillParent, Goto
<1>2. /\ p \in DOMAIN nodes /\ q \in DOMAIN nodes /\ p # q /\ ~nodes[p].border
  BY <1>1, <1>q, <1>p, HasParent
<1>3. /\ m \in Nat /\ 2 <= m /\ m <= ORDER - 1 /\ ORDER \in Nat
      /\ s \in Seq(Keys) /\ Len(s) = ORDER
      /\ c \in Seq(Nat) /\ Len(c) = ORDER + 1
      /\ Kids(p) \cup {q} \subseteq DOMAIN nodes
      /\ ToSet(c) = Kids(p) \cup {q} /\ Moved(t) \cup Stay(t) = Kids(p) \cup {q}
  BY <1>1, <1>q, <1>p, <1>s, <1>c, <1>m, SharedIs, Constants
<1>4. s \in Seq(Nat) /\ y \in Nat /\ m \in DOMAIN s /\ y # NULL /\ p # NULL
  <2>1. s \in Seq(Nat)
    BY <1>3, KeysAreNumbers
  <2>2. m \in DOMAIN s
    BY <1>3
  <2>3. y \in Nat
    BY <1>y, <2>1, <2>2
  <2> QED
    BY <1>2, <2>1, <2>2, <2>3, NodeIs, Constants DEF Inductive
<1> DEFINE Placed(n) == IF n \in Moved(t) THEN r ELSE IF n \in Stay(t) THEN p
                        ELSE nodes[n].parent
           A == SubSeq(s, 1, m - 1)
           B == SubSeq(c, 1, m)
           C == SubSeq(s, m + 1, ORDER)
           D == SubSeq(c, m + 1, ORDER + 1)
<1>5. /\ r \notin DOMAIN nodes /\ DOMAIN nodes' = DOMAIN nodes \cup {r}
      /\ par1' = [par1 EXCEPT ![t] = r] /\ up' = [up EXCEPT ![t] = y]
      /\ \A n \in DOMAIN nodes : n # p => nodes'[n] = [nodes[n] EXCEPT !.parent = Placed(n)]
      /\ nodes'[p] = [nodes[p] EXCEPT !.parent = Placed(p), !.seps = A, !.children = B,
                                      !.torn = FALSE]
      /\ nodes'[r] = Interior(V(p), C, D)
  BY <1>p, <1>r, <1>s, <1>c, <1>m, <1>y, FillParentGoes
<1>6. par1'[t] = r /\ up'[t] = y
  <2>1. {par1} \subseteq [Threads -> DOMAIN nodes \cup {NULL}] /\ up \in [Threads -> Keys \cup {0}]
    BY DEF Inductive, Typed
  <2> QED
    BY <1>5, <2>1
<1>7. ~nodes'[r].border /\ nodes'[r].seps = C /\ nodes'[r].children = D
  <2>1. /\ ~Interior(V(p), C, D).border /\ Interior(V(p), C, D).seps = C
        /\ Interior(V(p), C, D).children = D
    BY DEF Interior
  <2> QED
    BY <1>5, <2>1
<1> HIDE DEF Placed, A, B, C, D
<1>8. /\ nodes'[p].border = nodes[p].border /\ nodes'[p].slots = nodes[p].slots
      /\ nodes'[p].next = nodes[p].next /\ nodes'[p].seps = A /\ nodes'[p].children = B
  <2>1. nodes[p] \in Node
    BY <1>2, NodeIs DEF Inductive
  <2> QED
    BY <1>5, <2>1 DEF Node
<1>9. ASSUME NEW n \in DOMAIN nodes, n # p
      PROVE  /\ nodes'[n].border = nodes[n].border /\ nodes'[n].slots = nodes[n].slots
             /\ nodes'[n].next = nodes[n].next /\ nodes'[n].seps = nodes[n].seps
             /\ nodes'[n].children = nodes[n].children /\ nodes'[n].parent = Placed(n)
  <2>1. nodes[n] \in Node
    BY NodeIs DEF Inductive
  <2>2. nodes'[n] = [nodes[n] EXCEPT !.parent = Placed(n)]
    BY <1>5, <1>9
  <2> QED
    BY <2>1, <2>2 DEF Node
<1>10. Placed(q) # NULL
  <2>1. r # NULL
    <3>1. r \in Nat
      BY <1>r, <1>2, NodeIs DEF Inductive
    <3> QED
      BY <3>1, Constants
  <2>2. q \in Moved(t) \/ q \in Stay(t)
    BY <1>3
  <2> QED
    BY <1>4, <2>1, <2>2 DEF Placed
<1>11. /\ Held(t) = {q, p} /\ Left(t)' = p /\ Right(t)' = r
       /\ pc[t] \in Halfway /\ pc'[t] \in Halfway /\ pc[t] \notin Paired /\ pc'[t] \in Paired
       /\ Right(t) = q
  BY <1>1, <1>q, <1>p, <1>6 DEF Held, Left, Right, Halfway, Paired
<1>12. /\ ~Fresh(q) /\ ~Filling(q) /\ ~Unlinked(p) /\ ~Filling(p)'
       /\ \A u \in Threads : pc[u] \in Paired => q # Left(u)
       /\ \A u \in Threads : pc[u] \in Paired => p # Left(u)
  <2>1. q \in Held(t) /\ p \in Held(t)
    BY <1>11
  <2>2. ~Fresh(q) /\ ~Filling(q) /\ \A u \in Threads : pc[u] \in Paired => q # Left(u)
    BY <1>0, <1>1, <1>p, <1>2, <1>11, <2>1, OwnStatus
  <2>3. ~Unlinked(p) /\ ~Filling(p)' /\ \A u \in Threads : pc[u] \in Paired => p # Left(u)
    BY <1>0, <1>1, <1>2, <1>11, <2>1, OwnStatus
  <2> QED
    BY <2>2, <2>3
<1>13. g \in [DOMAIN nodes -> Range0] /\ Ranged(q, g) /\ Ranged(p, g) /\ Fits(s, c, p, g)
  BY <1>1, <1>2, <1>p, <1>s, <1>c DEF Ranges, Moving
<1>14. g[p].to = g[p].end /\ g[q].to = g[q].end
  BY <1>12, <1>13 DEF Ranged, Known
<1>15. Within(y, p, g)
  <2>1. \A j \in DOMAIN c : c[j] \in DOMAIN nodes
    BY <1>3 DEF ToSet
  <2>2. \A j \in DOMAIN c : g[c[j]] \in Range0 /\ Under(g[c[j]].from, g[c[j]].end)
    BY <1>13, <2>1, UnderEnd
  <2>3. Len(c) = Len(s) + 1
    BY <1>3
  <2> QED
    BY <1>3, <1>4, <1>13, <1>y, <2>2, <2>3, SepsWithin
<1>16. PICK h : h = [n \in DOMAIN nodes \cup {r} |->
                       IF n = r THEN [from |-> y, to |-> g[p].to, end |-> g[p].to]
                       ELSE IF n = p THEN [g[p] EXCEPT !.to = y] ELSE g[n]]
  OBVIOUS
<1>17. /\ h \in [DOMAIN nodes' -> Range0]
       /\ \A n \in DOMAIN nodes : n # p => h[n] = g[n]
       /\ h[p].from = g[p].from /\ h[p].to = y /\ h[p].end = g[p].end
       /\ h[r].from = y /\ h[r].to = g[p].to /\ h[r].end = g[p].to
  BY <1>2, <1>4, <1>5, <1>13, <1>16 DEF Range0
<1>18. \A n \in DOMAIN nodes : h[n].from = g[n].from /\ h[n].end = g[n].end
  BY <1>17
<1>19. Keeps(t, g, h)
  <2>1. \A n \in DOMAIN nodes : nodes'[n].slots = nodes[n].slots
    BY <1>8, <1>9
  <2>2. \A n \in DOMAIN nodes : n \notin Held(t) => h[n] = g[n]
    BY <1>11, <1>17
  <2> QED
    BY <1>17, <1>18, <2>1, <2>2 DEF Keeps
<1>20. Kept(c, g, h)
  <2>1. \A j \in DOMAIN c : c[j] \in DOMAIN nodes
    BY <1>3 DEF ToSet
  <2> QED
    BY <1>18, <2>1 DEF Kept
<1>21. /\ g[c[m]].end = y /\ g[c[m + 1]].from = y
       /\ g[c[1]].from = g[p].from /\ g[c[ORDER + 1]].end = g[p].to
  BY <1>3, <1>4, <1>13, <1>y DEF Fits, Meets
<1>22. Fits(A, B, p, h)
  <2>1. h[p].from = g[c[1]].from /\ h[p].to = g[c[m]].end
    BY <1>17, <1>21
  <2>2. Len(c) = Len(s) + 1 /\ 1 \in Nat /\ 1 <= 1 /\ 1 < m /\ m <= Len(c)
    BY <1>3
  <2>3. Fits(SubSeq(s, 1, m - 1), SubSeq(c, 1, m), p, h)
    BY <1>3, <1>4, <1>13, <1>20, <2>1, <2>2, FitsPart
  <2> QED
    BY <2>3 DEF A, B
<1>23. Fits(C, D, r, h)
  <2>a. PICK a : a = m + 1
    OBVIOUS
  <2>e. PICK e : e = ORDER + 1
    OBVIOUS
  <2>1. h[r].from = g[c[a]].from /\ h[r].to = g[c[e]].end
    BY <1>17, <1>21, <2>a, <2>e
  <2>2. /\ Len(c) = Len(s) + 1 /\ a \in Nat /\ e \in Nat /\ 1 <= a /\ a < e /\ e <= Len(c)
        /\ e - 1 = ORDER
    BY <1>3, <2>a, <2>e
  <2>3. Fits(SubSeq(s, a, e - 1), SubSeq(c, a, e), r, h)
    BY <1>3, <1>4, <1>13, <1>20, <2>1, <2>2, FitsPart
  <2> QED
    BY <2>a, <2>e, <2>2, <2>3 DEF C, D
<1>24. Ranged(r, h)'
  <2>1. Unlinked(r)'
    BY <1>0, <1>5, <1>11, OwnStatus
  <2>2. Filled(r, h)' /\ Chained(r, h)'
    BY <1>7, <1>15, <1>17 DEF Filled, Chained, Within
  <2>3. Topmost(r, h)' /\ Known(r, h)'
    BY <1>17, <2>1 DEF Topmost, Known
  <2>4. Divided(r, h)'
    BY <1>7, <1>23 DEF Divided
  <2> QED
    BY <2>2, <2>3, <2>4 DEF Ranged
<1>25. Ranged(p, h)'
  <2>1. Filled(p, h)' /\ Chained(p, h)'
    <3>1. Under(g[p].from, y)
      BY <1>15 DEF Within, Under
    <3> QED
      BY <1>2, <1>8, <1>17, <3>1 DEF Filled, Chained
  <2>2. Topmost(p, h)'
    <3>1. nodes'[p].parent = NULL => nodes[p].parent = NULL
      BY <1>0, <1>2, TreeKeeps DEF Touched
    <3> QED
      BY <1>12, <1>13, <1>17, <3>1 DEF Ranged, Topmost
  <2>3. Divided(p, h)'
    BY <1>8, <1>22 DEF Divided
  <2>4. Known(p, h)'
    BY <1>11 DEF Known
  <2> QED
    BY <2>1, <2>2, <2>3, <2>4 DEF Ranged
<1>26. Ranged(q, h)'
  <2>1. h[q] = g[q]
    BY <1>2, <1>17
  <2>2. Filled(q, h)'
    BY <1>2, <1>9, <1>13, <2>1 DEF Ranged, Filled
  <2>3. Chained(q, h)'
    <3>1. nodes[q].next \in DOMAIN nodes \cup {NULL}
      BY <1>2 DEF Inductive, Shape
    <3>2. \A n \in DOMAIN nodes : h[n].from = g[n].from /\ nodes'[n].slots = nodes[n].slots
      BY <1>8, <1>9, <1>18
    <3> QED
      BY <1>2, <1>9, <1>12, <1>13, <2>1, <3>1, <3>2 DEF Ranged, Chained
  <2>4. Topmost(q, h)'
    BY <1>2, <1>9, <1>10 DEF Topmost
  <2>5. Divided(q, h)'
    <3>1. nodes[q].parent = NULL
      BY <1>1, <1>q, HasParent
    <3>2. ASSUME ~nodes[q].border PROVE Fits(nodes[q].seps, nodes[q].children, q, h)
      <4>1. \A n \in ToSet(nodes[q].children) : h[n].from = g[n].from /\ h[n].end = g[n].end
        BY <1>2, <1>18 DEF Inductive, Shape, Kids
      <4>2. Fits(nodes[q].seps, nodes[q].children, q, g)
        BY <1>12, <1>13, <3>2 DEF Ranged, Divided
      <4> QED
        BY <1>2, <2>1, <3>2, <4>1, <4>2, SepsAre, FitsSame
    <3> QED
      BY <1>2, <1>9, <3>2 DEF Divided
  <2>6. Known(q, h)'
    BY <1>14, <2>1 DEF Known
  <2> QED
    BY <2>2, <2>3, <2>4, <2>5, <2>6 DEF Ranged
<1>27. Born(t, h)' /\ Joined(t, h)' /\ Moving(t, h)'
  <2>1. Born(t, h)' /\ Moving(t, h)'
    BY <1>1 DEF Born, Moving
  <2>2. Joined(t, h)'
    BY <1>6, <1>11, <1>14, <1>17 DEF Joined
  <2> QED
    BY <2>1, <2>2
<1>28. Disjoint(h)'
  <2>1. \A n \in DOMAIN nodes : nodes[n].border => h[n].to = g[n].to
    BY <1>2, <1>17
  <2> QED
    BY <1>0, <1>1, <1>5, <1>7, <1>19, <2>1, DisjointStays DEF Ranges
<1>29. Ranges(h)'
  BY <1>0, <1>5, <1>11, <1>19, <1>24, <1>25, <1>26, <1>27, <1>28, RangesIf
<1>30. Narrows(t, g, h)
  <2>1. V(p).splitting
    BY <1>p, <1>1, <1>2, OwnMarks DEF Splitting
  <2>2. nodes[p] \in Node
    BY <1>2, NodeIs DEF Inductive
  <2>3. nodes'[p].version.splitting
    BY <1>5, <2>1, <2>2 DEF V, Node
  <2> QED
    BY <1>1, <1>17, <1>18, <1>19, <2>3 DEF Narrows, Keeps
<1> QED
  BY <1>29, <1>30

\* Every step has ranges to go on with.
LEMMA RangesStep ==
    ASSUME Inductive, Roots, NEW t \in Threads, Step(t), NEW g, Ranges(g), Searches(t, g)
    PROVE  \E h : Ranges(h)' /\ Narrows(t, g, h)
<1>0. Narrows(t, g, g)
  BY DEF Narrows
<1>1. CASE QuietStep(t) \/ (MarkStep(t) /\ ~TearParent(t))
  <2>1. Ranges(g)'
    BY <1>1, QuietRanges
  <2> QED
    BY <1>0, <2>1
<1>2. CASE InsertToBorder(t)
  <2>1. Ranges(g)'
    BY <1>2, InsertToBorderRanges
  <2> QED
    BY <1>0, <2>1
<1>3. CASE IntoParent(t) \/ TearParent(t)
  <2>1. Linked(t)
    BY <1>3, IntoParentLinks, TearParentLinks
  <2> QED
    BY <2>1, LinkRanges
<1>4. CASE CasRoot(t)
  BY <1>4, CasRootRanges
<1>5. CASE Split(t)
  BY <1>5, SplitRanges
<1>6. CASE SplitKeys(t)
  BY <1>6, SplitKeysRanges
<1>7. CASE NewRoot(t)
  BY <1>7, NewRootRanges
<1>8. CASE FillParent(t)
  BY <1>8, FillParentRanges
<1> QED
  BY <1>1, <1>2, <1>3, <1>4, <1>5, <1>6, <1>7, <1>8, StepIs DEF TreeStep

-----------------------------------------------------------------------------
(* Searches go on in the right place.                                       *)

\* A thread that finds its node unchanged by a step found it so before.
LEMMA SameSplitBefore ==
    ASSUME Inductive, NEW t \in Threads, Step(t), NEW u \in Threads, Behind(u),
           pc[u] \in HasVersion, node[u] \in DOMAIN nodes,
           node'[u] = node[u], ver'[u] = ver[u], SameSplit(u)'
    PROVE  SameSplit(u) /\ ~nodes'[node[u]].version.splitting
<1>1. Onward(V(node[u]), nodes'[node[u]].version)
  BY StepOnwards DEF Onwards
<1>2. NotAhead(ver[u], V(node[u]))
  BY DEF Behind
<1>3. nodes'[node[u]].version.v_split = ver[u].v_split /\ ~nodes'[node[u]].version.splitting
  BY DEF SameSplit, V
<1>4. V(node[u]) \in Version /\ ver[u] \in Version
  BY NodeIs DEF Inductive, Typed
<1>5. V(node[u]).v_split = ver[u].v_split
  BY <1>1, <1>2, <1>3, <1>4 DEF Onward, NotAhead, Version
<1>6. ~V(node[u]).splitting
  BY <1>1, <1>3, <1>5 DEF Onward
<1> QED
  BY <1>3, <1>5, <1>6 DEF SameSplit

\* A thread that finds its node unmoved found it so, and with the same children.
LEMMA UnmovedBefore ==
    ASSUME Inductive, NEW t \in Threads, Step(t), NEW u \in Threads, Behind(u),
           pc[u] \in HasVersion, node[u] \in DOMAIN nodes,
           node'[u] = node[u], ver'[u] = ver[u], Unmoved(u)'
    PROVE  /\ Unmoved(u)
           /\ nodes'[node[u]].seps = nodes[node[u]].seps
           /\ nodes'[node[u]].children = nodes[node[u]].children
<1>1. Onwards(node[u])
  BY StepOnwards
<1>2. NotAhead(ver[u], V(node[u]))
  BY DEF Behind
<1>3. /\ nodes'[node[u]].version.v_insert = ver[u].v_insert
      /\ ~nodes'[node[u]].version.inserting
      /\ nodes'[node[u]].version.v_split = ver[u].v_split
      /\ ~nodes'[node[u]].version.splitting
  BY DEF Unmoved, SameSplit, V
<1>4. V(node[u]) \in Version /\ ver[u] \in Version
  BY NodeIs DEF Inductive, Typed
<1>5. SameSplit(u)
  BY SameSplitBefore DEF Unmoved
<1>6. V(node[u]).v_split = ver[u].v_split
  BY <1>5 DEF SameSplit
<1>7. V(node[u]).v_insert = ver[u].v_insert
  BY <1>1, <1>2, <1>3, <1>4 DEF Onwards, Onward, NotAhead, Version
<1>8. ~V(node[u]).inserting
  BY <1>1, <1>3, <1>6, <1>7 DEF Onwards, Onward
<1>9. /\ nodes'[node[u]].seps = nodes[node[u]].seps
      /\ nodes'[node[u]].children = nodes[node[u]].children
  BY <1>1, <1>3 DEF Onwards
<1> QED
  BY <1>5, <1>7, <1>8, <1>9 DEF Unmoved

\* The parent knows the range of a node that is not being split.
LEMMA SplitsMark ==
    ASSUME Inductive, NEW n \in DOMAIN nodes, ~V(n).splitting
    PROVE  /\ \A u \in Threads : pc[u] \in Paired => n # Left(u)
           /\ ~Fresh(n) /\ ~Filling(n)
<1>1. \A u \in Threads : n \notin Splitting(u)
  BY DEF Inductive, Marked
<1>2. \A u \in Threads : pc[u] \in Paired => Left(u) \in Splitting(u)
  BY DEF Paired, Halfway, Left, Splitting
<1>3. \A u \in Threads : pc[u] = "splitKeys" => sib[u] \in Splitting(u)
  BY DEF Splitting
<1>4. \A u \in Threads : pc[u] = "fillParent" => par[u] \in Splitting(u)
  BY DEF Splitting
<1> QED
  BY <1>1, <1>2, <1>3, <1>4 DEF Fresh, Filling

LEMMA SettledKnown ==
    ASSUME Inductive, NEW n \in DOMAIN nodes, ~V(n).splitting, NEW g, Ranges(g)
    PROVE  g[n].to = g[n].end
BY SplitsMark DEF Ranges, Ranged, Known


\* A key stays in the range of a node that has not been split.
LEMMA PlaceStays ==
    ASSUME Inductive, NEW t \in Threads, Step(t), NEW u \in Threads, Behind(u),
           NEW g, NEW h, Narrows(t, g, h), node[u] \in DOMAIN nodes,
           node'[u] = node[u], key'[u] = key[u]
    PROVE  /\ g[node[u]].from <= key[u] => h[node'[u]].from <= key'[u]
           /\ /\ pc[u] \in HasVersion /\ ver'[u] = ver[u]
              /\ SameSplit(u) => Under(key[u], g[node[u]].to)
              => (SameSplit(u)' => Under(key'[u], h[node'[u]].to))
<1>1. h[node[u]].from = g[node[u]].from
      /\ (h[node[u]].to = g[node[u]].to \/ nodes'[node[u]].version.splitting)
  BY DEF Narrows
<1>2. ASSUME pc[u] \in HasVersion, ver'[u] = ver[u], SameSplit(u)'
      PROVE  SameSplit(u) /\ ~nodes'[node[u]].version.splitting
  BY <1>2, SameSplitBefore
<1> QED
  BY <1>1, <1>2

\* A step leaves the searches of the other threads where they are.
LEMMA OthersGuided ==
    ASSUME Inductive, NEW t \in Threads, Step(t), NEW u \in Threads, u # t, Behind(u),
           NEW g, NEW h, Narrows(t, g, h), Searches(u, g)
    PROVE  Searches(u, h)' /\ (Gets(u, g) => Gets(u, h)')
<1>1. Local(u)' = Local(u)
  BY OthersSame DEF Inductive
<1>2. /\ pc'[u] = pc[u] /\ node'[u] = node[u] /\ key'[u] = key[u] /\ ver'[u] = ver[u]
      /\ child'[u] = child[u] /\ seen'[u] = seen[u]
  BY <1>1 DEF Local
<1>3. CASE pc[u] \notin HasVersion \cup {"forward", "locked", "splitKeys"}
  BY <1>2, <1>3 DEF Searches, Gets, Getting, HasVersion, Descending
<1>4. CASE pc[u] \in {"locked", "splitKeys"}
  <2>1. node[u] \in Held(u)
    BY <1>4 DEF Held
  <2>2. node[u] \in DOMAIN nodes /\ node[u] \notin Held(t)
    BY <1>2, <2>1, HeldOnce, OwnMarks
  <2>3. h[node[u]] = g[node[u]]
    BY <2>2 DEF Narrows
  <2> QED
    BY <1>2, <1>4, <2>3 DEF Searches, Gets, Getting, Descending
<1>5. CASE pc[u] \in HasVersion \cup {"forward"}
  <2>1. node[u] \in DOMAIN nodes
    BY <1>5 DEF Inductive, Places, HasVersion, Descending, WithNode, Finding, OnBorder, Getting
  <2>2. g[node[u]].from <= key[u] => h[node'[u]].from <= key'[u]
    BY <1>2, <2>1, PlaceStays
  <2>3. pc[u] \in HasVersion /\ (SameSplit(u) => Under(key[u], g[node[u]].to))
        => (SameSplit(u)' => Under(key'[u], h[node'[u]].to))
    BY <1>2, <2>1, PlaceStays
  <2>4. pc[u] \in HasVersion => (SameSplit(u)' => SameSplit(u))
    BY <1>2, <2>1, SameSplitBefore
  <2>5. Searches(u, h)'
    <3>1. ASSUME pc[u] \in Descending
          PROVE  h[node'[u]].from <= key'[u] /\ (SameSplit(u)' => Under(key'[u], h[node'[u]].to))
      <4>1. pc[u] \in HasVersion
        BY <3>1 DEF HasVersion
      <4> QED
        BY <2>2, <2>3, <3>1, <4>1 DEF Searches
    <3>2. ASSUME pc[u] \in {"childVersion", "check"}
          PROVE  ~nodes'[node'[u]].border /\ (Unmoved(u)' => child'[u] = findChild(node[u], key[u])')
      <4>0. pc[u] \in HasVersion
        BY <3>2 DEF HasVersion, Descending
      <4>1. nodes'[node[u]].border = nodes[node[u]].border
        BY <2>1, TreeKeeps DEF Touched
      <4>2. ASSUME Unmoved(u)' PROVE child'[u] = findChild(node[u], key[u])'
        <5>1. /\ Unmoved(u) /\ nodes'[node[u]].seps = nodes[node[u]].seps
              /\ nodes'[node[u]].children = nodes[node[u]].children
          BY <1>2, <2>1, <4>0, <4>2, UnmovedBefore
        <5>2. child[u] = findChild(node[u], key[u])
          BY <3>2, <5>1 DEF Searches
        <5> QED
          BY <1>2, <5>1, <5>2 DEF findChild
      <4> QED
        BY <1>2, <3>2, <4>1, <4>2 DEF Searches
    <3> QED
      BY <1>2, <1>5, <3>1, <3>2 DEF Searches, HasVersion, Descending
  <2>6. ASSUME Gets(u, g) PROVE Gets(u, h)'
    <3>1. pc[u] \in Getting => h[node'[u]].from <= key'[u]
      BY <2>2, <2>6 DEF Gets
    <3>2. pc[u] = "search" => (SameSplit(u)' => Under(key'[u], h[node'[u]].to))
      BY <2>3, <2>6 DEF Gets, HasVersion
    <3>3. pc[u] = "notFound" => (SameSplit(u)' => key'[u] \notin seen'[u])
      BY <1>2, <2>4, <2>6 DEF Gets, HasVersion
    <3> QED
      BY <1>2, <3>1, <3>2, <3>3 DEF Gets
  <2> QED
    BY <2>5, <2>6
<1> QED
  BY <1>3, <1>4, <1>5

\* The rest of an insert, or of a call, does not depend on where the key is.
LEMMA Elsewhere ==
    ASSUME NEW t \in Threads, NEW h, pc'[t] \notin Descending \cup Getting \cup {"locked", "splitKeys"}
    PROVE  Searches(t, h)' /\ Gets(t, h)'
BY DEF Searches, Gets, Descending, Getting

\* What t knows that has not left its node.
LEMMA OwnPlaceStays ==
    ASSUME Inductive, NEW t \in Threads, Step(t), Behind(t), NEW g, NEW h, Narrows(t, g, h),
           pc[t] \in Descending \cup Getting, node'[t] = node[t], key'[t] = key[t],
           pc[t] \in Descending => Searches(t, g), pc[t] \in Getting => Gets(t, g)
    PROVE  /\ h[node'[t]].from <= key'[t]
           /\ pc[t] \in Descending \cup {"search"} /\ ver'[t] = ver[t]
                => (SameSplit(t)' => Under(key'[t], h[node'[t]].to))
<1>1. node[t] \in DOMAIN nodes
  BY DEF Inductive, Places, Descending, WithNode, Finding, OnBorder, Getting
<1>2. g[node[t]].from <= key[t]
  BY DEF Searches, Gets
<1>3. pc[t] \in Descending \cup {"search"} =>
        pc[t] \in HasVersion /\ (SameSplit(t) => Under(key[t], g[node[t]].to))
  BY DEF Searches, Gets, HasVersion, Getting
<1> QED
  BY <1>1, <1>2, <1>3, PlaceStays

\* findBorder: a root covers all keys; the child that a node sends a key to
\* covers it.
LEMMA FindRootGuided ==
    ASSUME Inductive, Roots, NEW t \in Threads, FindRoot(t),
           NEW g, Ranges(g), NEW h, Narrows(t, g, h)
    PROVE  Searches(t, h)' /\ Gets(t, h)'
<1>0. pc \in [Threads -> PCs] /\ {node, cur} \subseteq [Threads -> DOMAIN nodes \cup {NULL}]
      /\ ver \in [Threads -> Version] /\ key \in [Threads -> Keys \cup {0}]
  BY DEF Inductive, Typed
<1>1. CASE V(cur[t]).is_root
  <2>c. PICK c : c = cur[t]
    OBVIOUS
  <2>1. /\ pc'[t] = "descend" /\ node'[t] = c /\ ver'[t] = V(c) /\ key'[t] = key[t]
        /\ nodes' = nodes /\ pc[t] = "findRoot" /\ Stable(V(c)) /\ V(c).is_root
    BY <1>0, <1>1, <2>c DEF FindRoot, Goto, call
  <2>2. c \in DOMAIN nodes /\ key[t] \in Keys
    BY <2>1, <2>c DEF Inductive, Places, Finding
  <2>3. nodes[c].parent = NULL /\ ~Unlinked(c) /\ ~V(c).splitting
    BY <2>1, <2>2, StableIs DEF Roots, Stable
  <2>4. g[c].from = 0 /\ g[c].end = NULL /\ g[c].to = g[c].end
    BY <2>2, <2>3, SettledKnown DEF Ranges, Ranged, Topmost
  <2>5. h[c].from = 0 /\ h[c].to = NULL
    BY <2>1, <2>2, <2>3, <2>4 DEF Narrows, V
  <2>6. 0 <= key[t]
    <3>1. Keys \subseteq Nat
      BY Constants
    <3>2. key[t] \in Nat
      BY <2>2, <3>1
    <3> QED
      BY <3>2
  <2> QED
    BY <2>1, <2>5, <2>6 DEF Searches, Gets, Getting, Under
<1>2. CASE ~V(cur[t]).is_root
  <2>1. pc'[t] = "findRoot"
    BY <1>2 DEF FindRoot
  <2> QED
    BY <2>1, Elsewhere DEF Descending, Getting
<1> QED
  BY <1>1, <1>2

LEMMA AtBorderGuided ==
    ASSUME Inductive, NEW t \in Threads, AtBorder(t), Behind(t),
           NEW g, Searches(t, g), NEW h, Narrows(t, g, h)
    PROVE  Searches(t, h)' /\ Gets(t, h)'
<1>0. Step(t)
  BY DEF Step, findBorder
<1>1. /\ pc[t] = "descend" /\ pc'[t] \in {"lock", "search"} /\ node'[t] = node[t]
      /\ key'[t] = key[t] /\ ver'[t] = ver[t]
  <2>1. pc \in [Threads -> PCs]
    BY DEF Inductive, Typed
  <2> QED
    BY <2>1 DEF AtBorder, Goto, call, loc
<1>2. pc[t] \in Descending /\ pc[t] \notin Getting
  BY <1>1 DEF Descending, Getting
<1>3. h[node'[t]].from <= key'[t] /\ (SameSplit(t)' => Under(key'[t], h[node'[t]].to))
  BY <1>0, <1>1, <1>2, OwnPlaceStays
<1> QED
  BY <1>1, <1>3 DEF Searches, Gets

LEMMA DescendGuided ==
    ASSUME Inductive, NEW t \in Threads, Descend(t), Behind(t),
           NEW g, Searches(t, g), NEW h, Narrows(t, g, h)
    PROVE  Searches(t, h)' /\ Gets(t, h)'
<1>0. Step(t)
  BY DEF Step, findBorder
<1>1. pc \in [Threads -> PCs] /\ {child} \subseteq [Threads -> DOMAIN nodes \cup {NULL}]
  BY DEF Inductive, Typed
<1>2. PICK c \in Children(node[t], key[t]) :
        child' = [child EXCEPT ![t] = c] /\ Goto(t, IF c = NULL THEN "crashed" ELSE "childVersion")
  BY DEF Descend
<1>3. /\ pc[t] = "descend" /\ child'[t] = c /\ node'[t] = node[t] /\ key'[t] = key[t]
      /\ ver'[t] = ver[t] /\ nodes' = nodes /\ ~nodes[node[t]].border
      /\ pc'[t] = IF c = NULL THEN "crashed" ELSE "childVersion"
  BY <1>1, <1>2 DEF Descend, Goto, call
<1>4. pc[t] \in Descending /\ pc[t] \notin Getting
  BY <1>3 DEF Descending, Getting
<1>5. h[node'[t]].from <= key'[t] /\ (SameSplit(t)' => Under(key'[t], h[node'[t]].to))
  BY <1>0, <1>3, <1>4, OwnPlaceStays
<1>6. ASSUME Unmoved(t)' PROVE child'[t] = findChild(node[t], key[t])'
  <2>1. node[t] \in DOMAIN nodes
    BY <1>3 DEF Inductive, Places, WithNode, Finding
  <2>2. ~V(node[t]).splitting /\ ~V(node[t]).inserting
    BY <1>3, <1>6 DEF Unmoved, SameSplit, V
  <2>3. ~nodes[node[t]].torn
    <3>1. \A u \in Threads : node[t] \notin Splitting(u) /\ node[t] \notin Inserting(u)
      BY <2>1, <2>2 DEF Inductive, Marked
    <3>2. \A u \in Threads : Tearing(u) \subseteq Splitting(u) \cup Inserting(u)
      BY DEF Tearing, Splitting, Inserting
    <3> QED
      BY <2>1, <3>1, <3>2 DEF Inductive, Marked
  <2>4. c = findChild(node[t], key[t])
    BY <1>2, <2>3 DEF Children
  <2> QED
    BY <1>3, <2>4 DEF findChild
<1> QED
  BY <1>3, <1>5, <1>6 DEF Searches, Gets, Getting, Descending

LEMMA ChildVersionGuided ==
    ASSUME Inductive, NEW t \in Threads, ChildVersion(t), Behind(t),
           NEW g, Searches(t, g), NEW h, Narrows(t, g, h)
    PROVE  Searches(t, h)' /\ Gets(t, h)'
<1>0. Step(t)
  BY DEF Step, findBorder
<1>1. /\ pc[t] = "childVersion" /\ pc'[t] = "check" /\ node'[t] = node[t] /\ key'[t] = key[t]
      /\ ver'[t] = ver[t] /\ child'[t] = child[t] /\ nodes' = nodes
  <2>1. pc \in [Threads -> PCs]
    BY DEF Inductive, Typed
  <2> QED
    BY <2>1 DEF ChildVersion, Goto, call
<1>2. pc[t] \in Descending /\ pc[t] \notin Getting
  BY <1>1 DEF Descending, Getting
<1>3. h[node'[t]].from <= key'[t] /\ (SameSplit(t)' => Under(key'[t], h[node'[t]].to))
  BY <1>0, <1>1, <1>2, OwnPlaceStays
<1>4. ~nodes'[node'[t]].border /\ (Unmoved(t)' => child'[t] = findChild(node[t], key[t])')
  BY <1>1 DEF Searches, Unmoved, SameSplit, V, findChild
<1> QED
  BY <1>1, <1>3, <1>4 DEF Searches, Gets, Getting, Descending


\* The version check of findBorder, when no change of the node went unnoticed.
LEMMA CheckGuided ==
    ASSUME Inductive, NEW t \in Threads, Check(t), Behind(t), Trusted',
           NEW g, Ranges(g), Searches(t, g), NEW h, Narrows(t, g, h)
    PROVE  Searches(t, h)' /\ Gets(t, h)'
<1>0. /\ pc \in [Threads -> PCs] /\ {node, child} \subseteq [Threads -> DOMAIN nodes \cup {NULL}]
      /\ ver \in [Threads -> Version] /\ cver \in [Threads -> Version]
  BY DEF Inductive, Typed
<1>s. Step(t)
  BY DEF Step, findBorder
<1>1. CASE Same(V(child[t]), cver[t])
  <2>n. PICK n : n = node[t]
    OBVIOUS
  <2>c. PICK c : c = child[t]
    OBVIOUS
  <2>1. /\ pc[t] = "check" /\ pc'[t] = "descend" /\ node'[t] = c /\ ver'[t] = cver[t]
        /\ key'[t] = key[t] /\ nodes' = nodes
        /\ faults' = IF Changed(t) THEN faults \cup {"staleDescent"} ELSE faults
    BY <1>0, <1>1, <2>c DEF Check, Goto, call
  <2>2. n \in DOMAIN nodes /\ c \in DOMAIN nodes /\ key[t] \in Keys
    BY <2>1, <2>n, <2>c DEF Inductive, Places, WithNode, Finding
  <2>3. Unmoved(t)
    <3>1. ~Changed(t)
      BY <2>1 DEF Trusted
    <3>2. [V(n) EXCEPT !.locked = FALSE] = [ver[t] EXCEPT !.locked = FALSE]
      BY <3>1, <2>n DEF Changed
    <3>3. V(n) \in Version /\ ver[t] \in Version
      BY <1>0, <2>2, NodeIs DEF Inductive
    <3>4. /\ V(n).v_split = ver[t].v_split /\ V(n).v_insert = ver[t].v_insert
          /\ V(n).splitting = ver[t].splitting /\ V(n).inserting = ver[t].inserting
      BY <3>2, <3>3 DEF Version
    <3>5. Stable(ver[t])
      BY <2>1 DEF Behind, NotAhead, HasVersion, Descending
    <3> QED
      BY <2>n, <3>4, <3>5 DEF Unmoved, SameSplit, Stable
  <2>4. g[n].from <= key[t] /\ Under(key[t], g[n].to) /\ ~nodes[n].border /\ c = findChild(n, key[t])
    BY <2>1, <2>3, <2>n, <2>c DEF Searches, Descending, Unmoved
  <2>5. Fits(nodes[n].seps, nodes[n].children, n, g)
    <3>1. ~Filling(n)
      BY <2>2, <2>3, <2>n, SplitsMark DEF Unmoved, SameSplit
    <3> QED
      BY <2>2, <2>4, <3>1 DEF Ranges, Ranged, Divided
  <2>6. g[c].from <= key[t] /\ Under(key[t], g[c].end)
    <3>1. Keys \subseteq Nat
      BY Constants
    <3>2. key[t] \in Nat
      BY <2>2, <3>1
    <3>3. /\ nodes[n].seps \in Seq(Nat) /\ nodes[n].children \in Seq(Nat)
          /\ Len(nodes[n].children) = Len(nodes[n].seps) + 1
      BY <2>2, <2>4, SepsAre
    <3> QED
      BY <2>2, <2>4, <2>5, <3>2, <3>3, Route
  <2>7. h[c].from <= key[t]
    BY <2>2, <2>6 DEF Narrows
  <2>8. ASSUME SameSplit(t)' PROVE Under(key[t], h[c].to)
    <3>1. ~V(c).splitting /\ ~nodes'[c].version.splitting
      BY <2>1, <2>8 DEF SameSplit, V
    <3>2. g[c].to = g[c].end
      BY <2>2, <3>1, SettledKnown
    <3>3. h[c].to = g[c].to
      BY <2>2, <3>1 DEF Narrows
    <3> QED
      BY <2>6, <3>2, <3>3
  <2> QED
    BY <2>1, <2>7, <2>8 DEF Searches, Gets, Getting, Descending
<1>2. CASE ~Same(V(child[t]), cver[t])
  <2>1. /\ pc[t] = "check" /\ pc'[t] = "revalidate" /\ node'[t] = node[t] /\ ver'[t] = ver[t]
        /\ key'[t] = key[t]
    BY <1>0, <1>2 DEF Check, Goto, call
  <2>2. pc[t] \in Descending /\ pc[t] \notin Getting
    BY <2>1 DEF Descending, Getting
  <2>3. h[node'[t]].from <= key'[t] /\ (SameSplit(t)' => Under(key'[t], h[node'[t]].to))
    BY <1>s, <2>1, <2>2, OwnPlaceStays
  <2> QED
    BY <2>1, <2>3 DEF Searches, Gets, Getting, Descending
<1> QED
  BY <1>1, <1>2

\* A node that has not been split is searched again.
LEMMA RevalidateGuided ==
    ASSUME Inductive, NEW t \in Threads, Revalidate(t),
           NEW g, Searches(t, g), NEW h, Narrows(t, g, h)
    PROVE  Searches(t, h)' /\ Gets(t, h)'
<1>0. pc \in [Threads -> PCs] /\ ver \in [Threads -> Version]
  BY DEF Inductive, Typed
<1>1. CASE V(node[t]).v_split # ver[t].v_split
  <2>1. pc'[t] = "findRoot"
    BY <1>0, <1>1 DEF Revalidate, Goto
  <2> QED
    BY <2>1, Elsewhere DEF Descending, Getting
<1>2. CASE V(node[t]).v_split = ver[t].v_split
  <2>n. PICK n : n = node[t]
    OBVIOUS
  <2>1. /\ pc[t] = "revalidate" /\ pc'[t] = "descend" /\ node'[t] = n /\ key'[t] = key[t]
        /\ nodes' = nodes /\ Stable(V(n))
    BY <1>0, <1>2, <2>n DEF Revalidate, Goto, call
  <2>2. n \in DOMAIN nodes
    BY <2>1, <2>n DEF Inductive, Places, WithNode, Finding
  <2>3. SameSplit(t)
    BY <1>2, <2>1, <2>n DEF SameSplit, Stable
  <2>4. g[n].from <= key[t] /\ Under(key[t], g[n].to)
    BY <2>1, <2>3, <2>n DEF Searches, Descending
  <2>5. h[n].from = g[n].from /\ h[n].to = g[n].to
    BY <2>1, <2>2 DEF Narrows, Stable, V
  <2> QED
    BY <2>1, <2>4, <2>5 DEF Searches, Gets, Getting, Descending
<1> QED
  BY <1>1, <1>2

\* A border node that has not been split until it was locked has the key's range.
LEMMA LockBorderGuided ==
    ASSUME Inductive, NEW t \in Threads, LockBorder(t), Trusted',
           NEW g, Searches(t, g), NEW h, Narrows(t, g, h)
    PROVE  Searches(t, h)' /\ Gets(t, h)'
<1>0. pc \in [Threads -> PCs] /\ nodes \in Seq(Node)
  BY DEF Inductive, Typed
<1>n. PICK n : n = node[t]
  OBVIOUS
<1>1. /\ pc[t] = "lock" /\ pc'[t] = "locked" /\ node'[t] = n /\ key'[t] = key[t]
      /\ nodes' = LockNode(nodes, n) /\ ~V(n).locked
      /\ faults' = IF V(n).v_split # ver[t].v_split THEN faults \cup {"missedSplit"} ELSE faults
  BY <1>0, <1>n DEF LockBorder, Goto, call
<1>2. n \in DOMAIN nodes
  BY <1>1, <1>n DEF Inductive, Places, WithNode, OnBorder
<1>3. ~V(n).splitting
  BY <1>1, <1>2, OwnMarks
<1>4. V(n).v_split = ver[t].v_split
  BY <1>1 DEF Trusted
<1>5. g[n].from <= key[t] /\ Under(key[t], g[n].to)
  BY <1>1, <1>3, <1>4, <1>n DEF Searches, Descending, SameSplit
<1>6. ~nodes'[n].version.splitting
  <2>1. nodes'[n].version = [V(n) EXCEPT !.locked = TRUE] /\ V(n) \in Version
    BY <1>0, <1>1, <1>2, LockNodeIs, NodeIs DEF V, Inductive
  <2> QED
    BY <1>3, <2>1 DEF Version
<1>7. h[n].from = g[n].from /\ h[n].to = g[n].to
  BY <1>2, <1>6 DEF Narrows
<1> QED
  BY <1>1, <1>5, <1>7 DEF Searches, Gets, Getting, Descending

\* split() starts with the key in the range of the node.
LEMMA SplitGuided ==
    ASSUME Inductive, NEW t \in Threads, Split(t), NEW g, Searches(t, g), NEW h, Narrows(t, g, h)
    PROVE  Searches(t, h)' /\ Gets(t, h)'
<1>0. pc \in [Threads -> PCs]
  BY DEF Inductive, Typed
<1>n. PICK n : n = node[t]
  OBVIOUS
<1>1. pc[t] = "locked" /\ pc'[t] = "splitKeys" /\ node'[t] = n /\ key'[t] = key[t]
  BY <1>0, <1>n DEF Split, Goto, call
<1>2. n \in DOMAIN nodes
  BY <1>1, <1>n DEF Inductive, Places, WithNode, OnBorder
<1>3. h[n].from = g[n].from /\ h[n].to = g[n].to
  BY <1>1, <1>2 DEF Narrows
<1> QED
  BY <1>1, <1>3, <1>n DEF Searches, Gets, Getting, Descending

\* A key that is not in the border node whose range it is in is nowhere.
LEMMA NotStored ==
    ASSUME Inductive, NEW g, Ranges(g), NEW n \in DOMAIN nodes, nodes[n].border, ~Fresh(n),
           NEW k \in Nat, g[n].from <= k, Under(k, g[n].to), k \notin nodes[n].slots
    PROVE  ~Stored(k)
<1> SUFFICES ASSUME NEW m \in DOMAIN nodes, k \in nodes[m].slots
             PROVE  FALSE
  BY DEF Stored
<1>1. m # n /\ nodes[m].border
  BY DEF Inductive, Shape
<1>2. ~Fresh(m)
  BY DEF Fresh, Ranges, Born
<1>3. Before(g, n, m) \/ Before(g, m, n)
  BY <1>1, <1>2 DEF Ranges, Disjoint
<1>4. g[m].from <= k /\ Under(k, g[m].to)
  BY <1>1 DEF Ranges, Ranged, Filled
<1>5. g[n] \in Range0 /\ g[m] \in Range0
  BY DEF Ranges
<1>6. CASE Before(g, n, m)
  <2>1. g[n].to # NULL /\ g[n].to <= g[m].from /\ g[n].to \in Nat /\ g[m].from \in Nat
    BY <1>5, <1>6 DEF Before, Range0
  <2>2. k < g[n].to
    BY <2>1 DEF Under
  <2> QED
    BY <1>4, <2>1, <2>2
<1>7. CASE Before(g, m, n)
  <2>1. g[m].to # NULL /\ g[m].to <= g[n].from /\ g[m].to \in Nat /\ g[n].from \in Nat
    BY <1>5, <1>7 DEF Before, Range0
  <2>2. k < g[m].to
    BY <1>4, <2>1 DEF Under
  <2> QED
    BY <2>1, <2>2
<1> QED
  BY <1>3, <1>6, <1>7

\* A border node is rewritten only while it is marked as splitting.
LEMMA WholeBorder ==
    ASSUME Inductive, NEW n \in DOMAIN nodes, nodes[n].border, ~V(n).splitting
    PROVE  ~nodes[n].torn
<1>1. SUFFICES ASSUME NEW u \in Threads, n \in Tearing(u) PROVE FALSE
  BY DEF Inductive, Marked
<1>2. n \notin Splitting(u)
  BY DEF Inductive, Marked
<1>3. pc[u] = "intoParent" /\ n = par[u]
  BY <1>1, <1>2 DEF Tearing, Splitting
<1>4. nodes[node[u]].parent = n /\ node[u] \in DOMAIN nodes /\ n # NULL
  BY <1>3, Constants DEF Inductive, Splits, Places, WithNode, Halfway, Typed
<1>5. node[u] \in Kids(n)
  BY <1>4 DEF Inductive, Family
<1>6. nodes[n].children = <<>>
  BY DEF Inductive, Shape
<1> QED
  BY <1>5, <1>6 DEF Kids, ToSet

\* A get that does not find its key in the node it belongs to finds it nowhere.
LEMMA SearchGuided ==
    ASSUME Inductive, NEW t \in Threads, Search(t), Behind(t), Counted,
           NEW g, Ranges(g), Gets(t, g), NEW h, Narrows(t, g, h)
    PROVE  Searches(t, h)' /\ Gets(t, h)'
<1>0. pc \in [Threads -> PCs]
  BY DEF Inductive, Typed
<1>s. Step(t)
  BY DEF Step, masstree_get
<1>n. PICK n : n = node[t]
  OBVIOUS
<1>1. /\ pc[t] = "search" /\ pc'[t] \in {"found", "notFound"}
      /\ pc'[t] = "notFound" => nodes[n].torn \/ key[t] \notin nodes[n].slots
      /\ node'[t] = n /\ ver'[t] = ver[t] /\ key'[t] = key[t] /\ seen'[t] = seen[t]
      /\ nodes' = nodes
  BY <1>0, <1>n DEF Search, Goto, call, loc
<1>2. n \in DOMAIN nodes /\ nodes[n].border /\ key[t] \in Keys
  BY <1>1, <1>n DEF Inductive, Places, WithNode, OnBorder, Getting
<1>3. g[n].from <= key[t] /\ h[node'[t]].from <= key'[t]
  <2>1. g[n].from <= key[t]
    BY <1>1, <1>n DEF Gets, Getting
  <2> QED
    BY <1>1, <1>2, <2>1 DEF Narrows
<1>4. ASSUME pc'[t] = "notFound", SameSplit(t)' PROVE key'[t] \notin seen'[t]
  <2>1. SameSplit(t)
    BY <1>1, <1>4, <1>n DEF SameSplit, V
  <2>2. Under(key[t], g[n].to) /\ key[t] \notin nodes[n].slots
    <3>1. ~nodes[n].torn
      BY <1>2, <1>n, <2>1, WholeBorder DEF SameSplit
    <3> QED
      BY <1>1, <1>4, <1>n, <2>1, <3>1 DEF Gets
  <2>3. ~Fresh(n)
    BY <1>2, <1>n, <2>1, SplitsMark DEF SameSplit
  <2>4. Keys \subseteq Nat
    BY Constants
  <2>5. ~Stored(key[t])
    BY <1>2, <1>3, <2>2, <2>3, <2>4, NotStored
  <2> QED
    BY <1>1, <2>5 DEF Counted
<1> QED
  BY <1>1, <1>3, <1>4 DEF Searches, Gets, Descending

\* A get goes on from the node it is at,
LEMMA ForwardGuided ==
    ASSUME Inductive, NEW t \in Threads, Verify(t) \/ Forward(t),
           NEW g, Gets(t, g), NEW h, Narrows(t, g, h)
    PROVE  Searches(t, h)' /\ Gets(t, h)'
<1>0. pc \in [Threads -> PCs]
  BY DEF Inductive, Typed
<1>1. CASE pc'[t] = "idle"
  BY <1>1, Elsewhere DEF Descending, Getting
<1>2. CASE pc'[t] # "idle"
  <2>n. PICK n : n = node[t]
    OBVIOUS
  <2>1. /\ pc[t] \in Getting /\ pc'[t] \in {"forward", "walk"}
        /\ node'[t] = n /\ key'[t] = key[t]
    <3>1. CASE Verify(t)
      BY <1>0, <1>2, <2>n, <3>1 DEF Verify, Return, Goto, call, loc, Getting
    <3>2. CASE Forward(t)
      BY <1>0, <2>n, <3>2 DEF Forward, Goto, call, Getting
    <3> QED
      BY <3>1, <3>2
  <2>2. n \in DOMAIN nodes
    BY <2>1, <2>n DEF Inductive, Places, WithNode, OnBorder
  <2>3. h[n].from <= key[t]
    BY <2>1, <2>2, <2>n DEF Gets, Narrows
  <2> QED
    BY <2>1, <2>3 DEF Searches, Gets, Descending
<1> QED
  BY <1>1, <1>2

\* and to the right when the lowest key there is not above its own.
LEMMA WalkGuided ==
    ASSUME Inductive, NEW t \in Threads, Walk(t), "tornNext" \notin faults',
           NEW g, Ranges(g), Gets(t, g), NEW h, Narrows(t, g, h)
    PROVE  Searches(t, h)' /\ Gets(t, h)'
<1>0. pc \in [Threads -> PCs] /\ node \in [Threads -> DOMAIN nodes \cup {NULL}]
  BY DEF Inductive, Typed
<1>n. PICK n : n = node[t]
  OBVIOUS
<1>m. PICK m : m = nodes[n].next
  OBVIOUS
<1>1. /\ pc[t] = "walk" /\ pc'[t] \in {"search", "forward"} /\ ver'[t] = ver[t] /\ key'[t] = key[t]
      /\ nodes' = nodes
  BY <1>0 DEF Walk, Goto, call
<1>2. n \in DOMAIN nodes /\ nodes[n].border /\ key[t] \in Keys
  BY <1>1, <1>n DEF Inductive, Places, WithNode, OnBorder, Getting
<1>3. g[n].from <= key[t]
  BY <1>1, <1>n DEF Gets, Getting
<1>4. ASSUME pc'[t] = "search", node'[t] = n, Under(key[t], g[n].to) \/ V(n).splitting
      PROVE  Searches(t, h)' /\ Gets(t, h)'
  <2>1. h[n].from <= key[t]
    BY <1>2, <1>3 DEF Narrows
  <2>2. ASSUME SameSplit(t)' PROVE Under(key[t], h[n].to)
    <3>1. ~V(n).splitting /\ ~nodes'[n].version.splitting
      BY <1>1, <1>4, <2>2 DEF SameSplit, V
    <3>2. h[n].to = g[n].to
      BY <1>2, <3>1 DEF Narrows
    <3> QED
      BY <1>4, <3>1, <3>2
  <2> QED
    BY <1>1, <1>4, <2>1, <2>2 DEF Searches, Gets, Descending
<1>5. CASE m = NULL
  <2>1. pc'[t] = "search" /\ node'[t] = n
    BY <1>0, <1>5, <1>m, <1>n DEF Walk, Goto
  <2>2. Under(key[t], g[n].to) \/ V(n).splitting
    <3>1. ~V(n).splitting => g[n].to = NULL
      BY <1>2, <1>5, <1>m, SplitsMark DEF Ranges, Ranged, Chained
    <3> QED
      BY <3>1 DEF Under
  <2> QED
    BY <1>4, <2>1, <2>2
<1>6. CASE m # NULL
  <2>1. ~nodes[m].torn
    BY <1>6, <1>m, <1>n DEF Walk
  <2>2. m \in DOMAIN nodes /\ nodes[m].border
    BY <1>2, <1>6, <1>m DEF Inductive, Shape
  <2>3. ~Fresh(n)
    BY <1>6, <1>m DEF Fresh, Ranges, Born
  <2>4. g[n].to = g[m].from /\ g[m].from \in nodes[m].slots
    BY <1>2, <1>6, <1>m, <2>3 DEF Ranges, Ranged, Chained
  <2>5. Min(nodes[m].slots) = g[m].from
    <3>1. nodes[m].slots \subseteq Nat
      BY <2>2, NodeIs, Constants DEF Inductive
    <3>2. Min(nodes[m].slots) \in nodes[m].slots /\ \A x \in nodes[m].slots : Min(nodes[m].slots) <= x
      BY <2>4, <3>1, MinIs
    <3>3. \A x \in nodes[m].slots : g[m].from <= x
      BY <2>2 DEF Ranges, Ranged, Filled
    <3>4. PICK a \in Nat, b \in Nat : a = Min(nodes[m].slots) /\ b = g[m].from
      BY <2>4, <3>1, <3>2
    <3>5. a <= b /\ b <= a
      BY <2>4, <3>2, <3>3, <3>4
    <3> QED
      BY <3>4, <3>5
  <2>6. LowestKeys(m) = {g[m].from}
    BY <2>1, <2>5 DEF LowestKeys
  <2>7. IF key[t] >= g[m].from
        THEN node' = [node EXCEPT ![t] = m] /\ Goto(t, "forward")
        ELSE Goto(t, "search") /\ UNCHANGED node
    BY <1>6, <1>m, <1>n, <2>6 DEF Walk
  <2>8. CASE key[t] >= g[m].from
    <3>1. pc'[t] = "forward" /\ node'[t] = m
      BY <1>0, <2>7, <2>8 DEF Goto
    <3>2. h[m].from <= key[t]
      <4>1. h[m].from = g[m].from /\ g[m].from \in Nat
        BY <2>2 DEF Narrows, Ranges, Range0
      <4>2. Keys \subseteq Nat
        BY Constants
      <4>3. key[t] \in Nat
        BY <1>2, <4>2
      <4> QED
        BY <2>8, <4>1, <4>3
    <3> QED
      BY <1>1, <3>1, <3>2 DEF Searches, Gets, Descending
  <2>9. CASE ~(key[t] >= g[m].from)
    <3>1. pc'[t] = "search" /\ node'[t] = n
      BY <1>0, <1>n, <2>7, <2>9 DEF Goto
    <3>2. key[t] < g[n].to
      <4>1. g[m].from \in Nat
        BY <2>2 DEF Ranges, Range0
      <4>2. Keys \subseteq Nat
        BY Constants
      <4>3. key[t] \in Nat
        BY <1>2, <4>2
      <4> QED
        BY <2>4, <2>9, <4>1, <4>3
    <3> QED
      BY <1>4, <3>1, <3>2 DEF Under
  <2> QED
    BY <2>8, <2>9
<1> QED
  BY <1>5, <1>6


\* A fault is never forgotten.
LEMMA FaultsGrow ==
    ASSUME NEW t \in Threads, Step(t)
    PROVE  faults \subseteq faults'
<1>1. CASE Call(t) \/ LoadRoot(t) \/ CasRoot(t)
  BY <1>1 DEF Call, LoadRoot, CasRoot
<1>2. CASE findBorder(t)
  BY <1>2 DEF findBorder, FindRoot, AtBorder, Descend, ChildVersion, Check, Revalidate, hist
<1>3. CASE masstree_get(t)
  BY <1>3 DEF masstree_get, Search, Verify, Forward, Walk, hist
<1>4. CASE LockBorder(t)
  BY <1>4 DEF LockBorder
<1>5. CASE masstree_insert(t) /\ ~LockBorder(t)
  BY <1>5 DEF masstree_insert, AlreadyExists, InsertToBorder, Unlock, Split, SplitKeys, NewRoot,
       LeaveRoot, LeaveSibling, StoreRoot, LockParent, ShiftParent, IntoParent, LeaveNode,
       LeaveNode1, LeaveParent, SplitParent, TearParent, FillParent, AscendParent, hist
<1> QED
  BY <1>1, <1>2, <1>3, <1>4, <1>5 DEF Step

\* Whatever its step, a thread stays in the right place.
LEMMA OwnGuided ==
    ASSUME Inductive, Roots, Counted, NEW t \in Threads, Step(t), Behind(t), Trusted',
           NEW g, Ranges(g), Searches(t, g), "tornNext" \notin faults => Gets(t, g),
           NEW h, Narrows(t, g, h)
    PROVE  Searches(t, h)' /\ ("tornNext" \notin faults' => Gets(t, h)')
<1>0. pc \in [Threads -> PCs]
  BY DEF Inductive, Typed
<1>1. CASE Call(t) \/ LoadRoot(t) \/ CasRoot(t)
  <2>1. pc'[t] \in {"idle", "loadRoot", "casRoot", "findRoot", "crashed"}
    BY <1>0, <1>1 DEF Call, LoadRoot, CasRoot, Return, Goto
  <2> QED
    BY <2>1, Elsewhere DEF Descending, Getting
<1>2. CASE findBorder(t)
  BY <1>2, FindRootGuided, AtBorderGuided, DescendGuided, ChildVersionGuided, CheckGuided,
     RevalidateGuided DEF findBorder
<1>3. CASE masstree_get(t)
  <2>1. faults \subseteq faults'
    BY FaultsGrow
  <2>2. SUFFICES ASSUME "tornNext" \notin faults'
                 PROVE  Searches(t, h)' /\ Gets(t, h)'
    <3>1. Searches(t, h)'
      <4>1. pc'[t] \in {"found", "notFound", "idle", "forward", "walk", "search"}
        BY <1>0, <1>3 DEF masstree_get, Search, Verify, Forward, Walk, Return, Goto
      <4> QED
        BY <4>1 DEF Searches, Descending
    <3> QED
      BY <3>1
  <2>3. Gets(t, g)
    BY <2>1, <2>2
  <2> QED
    BY <1>3, <2>2, <2>3, SearchGuided, ForwardGuided, WalkGuided DEF masstree_get
<1>4. CASE LockBorder(t) \/ Split(t)
  BY <1>4, LockBorderGuided, SplitGuided
<1>5. CASE masstree_insert(t) /\ ~LockBorder(t) /\ ~Split(t)
  <2>1. pc'[t] \in Adding \cup {"idle"}
    BY <1>0, <1>5 DEF masstree_insert, AlreadyExists, InsertToBorder, Unlock, SplitKeys, NewRoot,
         LeaveRoot, LeaveSibling, StoreRoot, LockParent, ShiftParent, IntoParent, LeaveNode,
         LeaveNode1, LeaveParent, SplitParent, TearParent, FillParent, AscendParent, Goto, Return,
         Adding
  <2> QED
    BY <2>1, Elsewhere DEF Descending, Getting, Adding
<1> QED
  BY <1>1, <1>2, <1>3, <1>4, <1>5 DEF Step

\* Every step keeps every search in the right place.
LEMMA GuidedStep ==
    ASSUME Inductive, Roots, Counted, NEW t \in Threads, Step(t), \A u \in Threads : Behind(u),
           Trusted', NEW g, Ranges(g), Guided(g), NEW h, Narrows(t, g, h)
    PROVE  Guided(h)'
<1>1. faults \subseteq faults'
  BY FaultsGrow
<1> SUFFICES ASSUME NEW u \in Threads
             PROVE  Searches(u, h)' /\ ("tornNext" \notin faults' => Gets(u, h)')
  BY DEF Guided
<1>2. Searches(u, g) /\ ("tornNext" \notin faults => Gets(u, g))
  BY DEF Guided
<1>3. CASE u = t
  BY <1>2, <1>3, OwnGuided
<1>4. CASE u # t
  <2>1. Searches(u, h)' /\ (Gets(u, g) => Gets(u, h)')
    BY <1>2, <1>4, OthersGuided
  <2> QED
    BY <1>1, <1>2, <2>1
<1> QED
  BY <1>3, <1>4

-----------------------------------------------------------------------------
(* Keys that have been inserted are counted once, and gets see them.        *)

\* A step takes no key away; a split only moves keys.
LEMMA StoredStays ==
    ASSUME Inductive, NEW t \in Threads, Step(t), NEW g, Ranges(g), NEW k, Stored(k)
    PROVE  Stored(k)'
<1>1. PICK m \in DOMAIN nodes : k \in nodes[m].slots
  BY DEF Stored
<1>2. nodes \in Seq(Node) /\ nodes[m] \in Node
  BY NodeIs DEF Inductive, Typed
<1>3. DOMAIN nodes \subseteq DOMAIN nodes'
  BY NodesGo
<1>4. nodes'[m].slots = nodes[m].slots => Stored(k)'
  BY <1>1, <1>3 DEF Stored
<1>5. CASE QuietStep(t)
  BY <1>4, <1>5, QuietStepGoes
<1>6. CASE MarkStep(t)
  BY <1>4, <1>6, MarkStepGoes DEF Alike
<1>7. CASE CasRoot(t)
  BY <1>4, <1>7, CasRootGoes
<1>8. CASE InsertToBorder(t)
  <2>b. PICK b : b = node[t]
    OBVIOUS
  <2>1. /\ b \in DOMAIN nodes /\ \A n \in DOMAIN nodes : n # b => nodes'[n] = nodes[n]
        /\ nodes'[b] = [nodes[b] EXCEPT !.slots = nodes[b].slots \cup {key[t]}]
    BY <1>8, <2>b, InsertToBorderGoes
  <2>2. nodes[b] \in Node
    BY <2>1, NodeIs DEF Inductive
  <2>3. nodes'[b].slots = nodes[b].slots \cup {key[t]}
    BY <2>1, <2>2 DEF Node
  <2>4. k \in nodes'[m].slots
    BY <1>1, <2>1, <2>3
  <2> QED
    BY <1>3, <2>4 DEF Stored
<1>9. CASE Split(t)
  <2>b. PICK b : b = node[t]
    OBVIOUS
  <2>v. PICK v : v = [V(b) EXCEPT !.splitting = TRUE]
    OBVIOUS
  <2>1. /\ b \in DOMAIN nodes /\ \A n \in DOMAIN nodes : n # b => nodes'[n] = nodes[n]
        /\ nodes'[b] = [nodes[b] EXCEPT !.version = v, !.torn = TRUE]
    BY <1>9, <2>b, <2>v, SplitGoes
  <2>2. nodes[b] \in Node
    BY <2>1, NodeIs DEF Inductive
  <2>3. nodes'[b].slots = nodes[b].slots
    BY <2>1, <2>2 DEF Node
  <2> QED
    BY <1>4, <2>1, <2>3
<1>10. CASE SplitKeys(t)
  <2>b. PICK b : b = node[t]
    OBVIOUS
  <2>q. PICK q : q = sib[t]
    OBVIOUS
  <2>l. PICK left : left = LeftOf(nodes[b].slots, key[t])
    OBVIOUS
  <2>r. PICK right : right = (nodes[b].slots \cup {key[t]}) \ left
    OBVIOUS
  <2>1. /\ b \in DOMAIN nodes /\ q \in DOMAIN nodes /\ b # q
        /\ \A n \in DOMAIN nodes : n # b /\ n # q => nodes'[n] = nodes[n]
        /\ nodes'[b] = [nodes[b] EXCEPT !.slots = left, !.torn = FALSE, !.next = q]
        /\ nodes'[q] = [nodes[q] EXCEPT !.slots = right, !.next = nodes[b].next]
    BY <1>10, <2>b, <2>q, <2>l, <2>r, SplitKeysGoes
  <2>2. nodes[b] \in Node /\ nodes[q] \in Node
    BY <2>1, NodeIs DEF Inductive
  <2>3. nodes'[b].slots = left
    BY <2>1, <2>2 DEF Node
  <2>4. nodes'[q].slots = right
    BY <2>1, <2>2 DEF Node
  <2>5. CASE m = b
    BY <1>1, <1>3, <2>1, <2>3, <2>4, <2>5, <2>r DEF Stored
  <2>6. m # q
    <3>1. pc[t] = "splitKeys"
      BY <1>10 DEF SplitKeys
    <3>2. nodes[q].slots = {}
      BY <2>q, <3>1 DEF Ranges, Born
    <3> QED
      BY <1>1, <3>2
  <2> QED
    BY <1>4, <2>1, <2>5, <2>6
<1>11. CASE NewRoot(t)
  <2>b. PICK b : b = node[t]
    OBVIOUS
  <2>q. PICK q : q = sib[t]
    OBVIOUS
  <2>e. PICK r : r = Len(nodes) + 1
    OBVIOUS
  <2>1. /\ b \in DOMAIN nodes /\ q \in DOMAIN nodes /\ b # q
        /\ \A n \in DOMAIN nodes : n # b /\ n # q => nodes'[n] = nodes[n]
        /\ nodes'[b] = [nodes[b] EXCEPT !.parent = r, !.version.is_root = FALSE]
        /\ nodes'[q] = [nodes[q] EXCEPT !.parent = r, !.version.is_root = FALSE]
    BY <1>11, <2>b, <2>q, <2>e, NewRootGoes
  <2>2. nodes[b] \in Node /\ nodes[q] \in Node
    BY <2>1, NodeIs DEF Inductive
  <2>3. nodes'[b].slots = nodes[b].slots
    BY <2>1, <2>2 DEF Node
  <2>4. nodes'[q].slots = nodes[q].slots
    BY <2>1, <2>2 DEF Node
  <2> QED
    BY <1>4, <2>1, <2>3, <2>4
<1>12. CASE IntoParent(t) \/ FillParent(t)
  <2>1. pc[t] \in {"intoParent", "fillParent"}
    BY <1>12 DEF IntoParent, FillParent
  <2>2. ~nodes[par[t]].border /\ par[t] # sib[t] /\ par[t] \in DOMAIN nodes /\ sib[t] \in DOMAIN nodes
    BY <2>1, HasParent
  <2>3. nodes[m].border /\ m # par[t]
    BY <1>1, <2>2 DEF Inductive, Shape
  <2>4. CASE IntoParent(t)
    <3>q. PICK q : q = sib[t]
      OBVIOUS
    <3>p. PICK p : p = par[t]
      OBVIOUS
    <3>1. /\ \A n \in DOMAIN nodes : n # p /\ n # q => nodes'[n] = nodes[n]
          /\ nodes'[q] = [nodes[q] EXCEPT !.parent = p]
      BY <2>4, <3>q, <3>p, IntoParentGoes
    <3>2. nodes'[q].slots = nodes[q].slots
      <4>1. nodes[q] \in Node
        BY <2>2, <3>q, NodeIs DEF Inductive
      <4> QED
        BY <3>1, <4>1 DEF Node
    <3> QED
      BY <1>4, <2>3, <3>p, <3>1, <3>2
  <2>5. CASE FillParent(t)
    <3> DEFINE p == par[t]
               r == Len(nodes) + 1
               Placed(n) == IF n \in Moved(t) THEN r ELSE IF n \in Stay(t) THEN p
                            ELSE nodes[n].parent
    <3>1. \A n \in DOMAIN nodes : n # p => nodes'[n] = [nodes[n] EXCEPT !.parent = Placed(n)]
      BY <2>5, FillParentGoes
    <3>2. m # p
      BY <2>3
    <3> HIDE DEF p, r, Placed
    <3>3. nodes'[m] = [nodes[m] EXCEPT !.parent = Placed(m)]
      BY <3>1, <3>2
    <3>4. nodes'[m].slots = nodes[m].slots
      BY <1>2, <3>3 DEF Node
    <3> QED
      BY <1>4, <3>4
  <2> QED
    BY <1>12, <2>4, <2>5
<1> QED
  BY <1>5, <1>6, <1>7, <1>8, <1>9, <1>10, <1>11, <1>12, StepIs DEF TreeStep

\* What a step returns, and when a key comes to be in a node.
LEMMA ReturnsAre ==
    ASSUME Inductive, NEW t \in Threads, Step(t)
    PROVE  /\ \/ /\ returned' = returned
                 /\ pc'[t] \in Adding => \/ pc[t] \in Adding /\ key' = key
                                         \/ InsertToBorder(t) \/ SplitKeys(t)
              \/ /\ returned' = [returned EXCEPT ![key[t]] = @ + 1] /\ pc'[t] = "idle"
                 /\ key' = key
                 /\ pc[t] \in Adding \/ (CasRoot(t) /\ root = NULL /\ pc[t] = "casRoot")
           /\ seen' = seen \/ seen' = [seen EXCEPT ![t] = Done]
<1>0. pc \in [Threads -> PCs]
  BY DEF Inductive, Typed
<1>1. CASE Call(t) \/ LoadRoot(t)
  BY <1>0, <1>1 DEF Call, LoadRoot, Return, Goto, call, Adding
<1>2. CASE CasRoot(t)
  BY <1>0, <1>2 DEF CasRoot, Return, Goto, call, Adding
<1>3. CASE findBorder(t)
  <2>1. pc'[t] \notin Adding
    BY <1>0, <1>3 DEF findBorder, FindRoot, AtBorder, Descend, ChildVersion, Check, Revalidate,
       Goto, Adding
  <2>2. returned' = returned /\ seen' = seen
    BY <1>3 DEF findBorder, FindRoot, AtBorder, Descend, ChildVersion, Check, Revalidate, call, hist
  <2> QED
    BY <2>1, <2>2
<1>4. CASE masstree_get(t)
  <2>1. pc'[t] \notin Adding
    BY <1>0, <1>4 DEF masstree_get, Search, Verify, Forward, Walk, Return, Goto, Adding
  <2>2. returned' = returned /\ seen' = seen
    BY <1>4 DEF masstree_get, Search, Verify, Forward, Walk, Return, call, hist
  <2> QED
    BY <2>1, <2>2
<1>5. CASE LockBorder(t) \/ AlreadyExists(t) \/ Split(t)
  <2>1. pc'[t] \notin Adding
    BY <1>0, <1>5 DEF LockBorder, AlreadyExists, Split, Return, Goto, Adding
  <2>2. returned' = returned /\ seen' = seen
    BY <1>5 DEF LockBorder, AlreadyExists, Split, Return, call, hist
  <2> QED
    BY <2>1, <2>2
<1>6. CASE InsertToBorder(t) \/ SplitKeys(t)
  BY <1>6 DEF InsertToBorder, SplitKeys, call, hist
<1>7. CASE Unlock(t) \/ StoreRoot(t) \/ LeaveParent(t)
  BY <1>0, <1>7 DEF Unlock, StoreRoot, LeaveParent, Return, Goto, call, Adding
<1>8. CASE \/ NewRoot(t) \/ LeaveRoot(t) \/ LeaveSibling(t) \/ LockParent(t) \/ ShiftParent(t)
           \/ IntoParent(t) \/ LeaveNode(t) \/ LeaveNode1(t) \/ SplitParent(t) \/ TearParent(t)
           \/ FillParent(t) \/ AscendParent(t)
  <2>1. pc[t] \in Adding
    BY <1>8 DEF NewRoot, LeaveRoot, LeaveSibling, LockParent, ShiftParent, IntoParent, LeaveNode,
       LeaveNode1, SplitParent, TearParent, FillParent, AscendParent, Adding
  <2>2. returned' = returned /\ seen' = seen /\ key' = key
    BY <1>8 DEF NewRoot, LeaveRoot, LeaveSibling, LockParent, ShiftParent, IntoParent, LeaveNode,
       LeaveNode1, SplitParent, TearParent, FillParent, AscendParent, call, hist
  <2> QED
    BY <2>1, <2>2
<1> QED
  BY <1>1, <1>2, <1>3, <1>4, <1>5, <1>6, <1>7, <1>8 DEF Step, masstree_insert


\* A key is added only when it is in no node.
LEMMA AddsKey ==
    ASSUME Inductive, NEW t \in Threads, InsertToBorder(t) \/ SplitKeys(t),
           NEW g, Ranges(g), Searches(t, g)
    PROVE  ~Stored(key[t]) /\ Stored(key[t])' /\ key' = key /\ key[t] \in Keys
<1>s. Step(t)
  BY DEF Step, masstree_insert
<1>b. PICK b : b = node[t]
  OBVIOUS
<1>1. pc[t] \in {"locked", "splitKeys"} /\ key' = key
  BY DEF InsertToBorder, SplitKeys, call
<1>2. b \in DOMAIN nodes /\ nodes[b].border /\ b \in Held(t) /\ key[t] \in Keys
  BY <1>1, <1>b DEF Inductive, Places, WithNode, OnBorder, Held
<1>3. ~Fresh(b)
  <2>1. pc[t] = "splitKeys" => b # sib[t]
    BY <1>b DEF Inductive, Apart, WithSib
  <2> QED
    BY <1>2, <1>s, <2>1, OwnStatus
<1>4. key[t] \notin nodes[b].slots
  BY <1>b DEF InsertToBorder, SplitKeys, Inductive, Splits
<1>5. g[b].from <= key[t] /\ Under(key[t], g[b].to)
  BY <1>1, <1>b DEF Searches
<1>6. ~Stored(key[t])
  <2>1. Keys \subseteq Nat
    BY Constants
  <2> QED
    BY <1>2, <1>3, <1>4, <1>5, <2>1, NotStored
<1>7. nodes[b] \in Node
  BY <1>2, NodeIs DEF Inductive
<1>8. CASE InsertToBorder(t)
  <2>1. /\ DOMAIN nodes' = DOMAIN nodes
        /\ nodes'[b] = [nodes[b] EXCEPT !.slots = nodes[b].slots \cup {key[t]}]
    BY <1>8, <1>b, InsertToBorderGoes
  <2>2. nodes'[b].slots = nodes[b].slots \cup {key[t]}
    BY <1>7, <2>1 DEF Node
  <2>3. Stored(key[t])'
    BY <1>1, <1>2, <2>1, <2>2 DEF Stored
  <2> QED
    BY <1>1, <1>2, <1>6, <2>3
<1>9. CASE SplitKeys(t)
  <2>q. PICK q : q = sib[t]
    OBVIOUS
  <2>l. PICK left : left = LeftOf(nodes[b].slots, key[t])
    OBVIOUS
  <2>r. PICK right : right = (nodes[b].slots \cup {key[t]}) \ left
    OBVIOUS
  <2>1. /\ q \in DOMAIN nodes /\ DOMAIN nodes' = DOMAIN nodes
        /\ nodes'[b] = [nodes[b] EXCEPT !.slots = left, !.torn = FALSE, !.next = q]
        /\ nodes'[q] = [nodes[q] EXCEPT !.slots = right, !.next = nodes[b].next]
    BY <1>9, <1>b, <2>q, <2>l, <2>r, SplitKeysGoes
  <2>2. nodes[q] \in Node
    BY <2>1, NodeIs DEF Inductive
  <2>3. nodes'[b].slots = left
    BY <1>7, <2>1 DEF Node
  <2>4. nodes'[q].slots = right
    BY <2>1, <2>2 DEF Node
  <2>5. Stored(key[t])'
    BY <1>1, <1>2, <2>1, <2>3, <2>4, <2>r DEF Stored
  <2> QED
    BY <1>1, <1>2, <1>6, <2>5
<1> QED
  BY <1>8, <1>9

\* A call returns OK for a key that is in a node and that no call has
\* returned OK for, and no two calls that have added a key have added the same.
LEMMA CountedStep ==
    ASSUME Inductive, Roots, Counted, NEW t \in Threads, Step(t),
           NEW g, Ranges(g), Searches(t, g)
    PROVE  Counted'
<1>0. /\ pc \in [Threads -> PCs] /\ returned \in [Keys -> Nat] /\ seen \in [Threads -> SUBSET Keys]
  BY DEF Inductive, Typed
<1>S. PICK S : S = {k \in Keys : Stored(k)'}
  OBVIOUS
<1>1. \A k : Stored(k) => Stored(k)'
  BY StoredStays
<1>a. \A u \in Threads : pc[u] \in Adding => key[u] \in Keys /\ key[u] \in S
  <2>1. \A u \in Threads : pc[u] \in Adding => key[u] \in Keys /\ Stored(key[u])
    BY DEF Counted, Inductive, Places, Adding
  <2> QED
    BY <1>1, <1>S, <2>1
<1>q. ASSUME \A u \in Threads : pc'[u] \in Adding => key'[u] \in S /\ returned'[key'[u]] = 0,
             \A u, w \in Threads : pc'[u] \in Adding /\ pc'[w] \in Adding /\ u # w => key'[u] # key'[w],
             \A u \in Threads : seen'[u] \subseteq Done',
             \A k \in Done' : Stored(k)' /\ returned'[k] = 1
      PROVE  Counted'
  <2>1. \A k \in S : \E n \in DOMAIN nodes' : k \in nodes'[n].slots
    BY <1>S DEF Stored
  <2>2. \A k \in Done' : \E n \in DOMAIN nodes' : k \in nodes'[n].slots
    BY <1>q DEF Stored
  <2>3. \A u \in Threads : pc'[u] \in Adding => \E n \in DOMAIN nodes' : key'[u] \in nodes'[n].slots
    BY <1>q, <2>1
  <2> QED
    BY <1>q, <2>2, <2>3 DEF Counted, Stored
<1>2. \A u \in Threads : u # t => pc'[u] = pc[u] /\ key'[u] = key[u]
  BY OthersLook
<1>3. \A u \in Threads : pc'[u] \in Adding => pc'[u] # "idle"
  BY DEF Adding
<1>4. seen' = seen \/ seen' = [seen EXCEPT ![t] = Done]
  BY ReturnsAre
<1>5. ASSUME Done \subseteq Done' PROVE \A u \in Threads : seen'[u] \subseteq Done'
  BY <1>0, <1>4, <1>5 DEF Counted
<1>6. CASE returned' = returned /\ (pc'[t] \in Adding => pc[t] \in Adding /\ key' = key)
  <2>1. Done' = Done
    BY <1>6 DEF Done
  <2>2. \A u \in Threads : pc'[u] \in Adding => pc[u] \in Adding /\ key'[u] = key[u]
    BY <1>2, <1>6
  <2>3. \A k \in Done' : Stored(k)' /\ returned'[k] = 1
    BY <1>1, <1>6, <2>1 DEF Counted
  <2>4. \A u \in Threads : pc'[u] \in Adding => key[u] \in S /\ returned'[key[u]] = 0
    BY <1>a, <1>6, <2>2 DEF Counted
  <2>5. \A u, w \in Threads : pc'[u] \in Adding /\ pc'[w] \in Adding /\ u # w => key[u] # key[w]
    BY <2>2 DEF Counted
  <2>6. \A u \in Threads : pc'[u] \in Adding => key'[u] \in S /\ returned'[key'[u]] = 0
    BY <2>2, <2>4
  <2>7. \A u, w \in Threads : pc'[u] \in Adding /\ pc'[w] \in Adding /\ u # w => key'[u] # key'[w]
    BY <2>2, <2>5
  <2> QED
    BY <1>5, <1>q, <2>1, <2>3, <2>6, <2>7
<1>7. CASE returned' = returned /\ (InsertToBorder(t) \/ SplitKeys(t))
  <2>1. Done' = Done
    BY <1>7 DEF Done
  <2>2. ~Stored(key[t]) /\ Stored(key[t])' /\ key' = key /\ key[t] \in Keys
    BY <1>7, AddsKey
  <2>3. returned[key[t]] = 0
    <3>1. key[t] \notin Done
      BY <2>2 DEF Counted
    <3> QED
      BY <1>0, <2>2, <3>1 DEF Done
  <2>4. \A u \in Threads : pc'[u] \in Adding /\ u # t => pc[u] \in Adding /\ key[u] # key[t]
    BY <1>2, <2>2 DEF Counted
  <2>5. \A k \in Done' : Stored(k)' /\ returned'[k] = 1
    BY <1>1, <1>7, <2>1 DEF Counted
  <2>6. \A u \in Threads : pc'[u] \in Adding => key[u] \in S /\ returned'[key[u]] = 0
    <3>1. key[t] \in S
      <4>1. PICK k : k = key[t]
        OBVIOUS
      <4>2. Stored(k)'
        BY <2>2, <4>1 DEF Stored
      <4> QED
        BY <1>S, <2>2, <4>1, <4>2
    <3> QED
      BY <1>a, <1>7, <2>3, <2>4, <3>1 DEF Counted
  <2>7. \A u, w \in Threads : pc'[u] \in Adding /\ pc'[w] \in Adding /\ u # w => key[u] # key[w]
    BY <2>4 DEF Counted
  <2>8. \A u \in Threads : pc'[u] \in Adding => key'[u] \in S /\ returned'[key'[u]] = 0
    BY <2>2, <2>6
  <2>9. \A u, w \in Threads : pc'[u] \in Adding /\ pc'[w] \in Adding /\ u # w => key'[u] # key'[w]
    BY <2>2, <2>7
  <2> QED
    BY <1>5, <1>q, <2>1, <2>5, <2>8, <2>9
<1>8. CASE /\ returned' = [returned EXCEPT ![key[t]] = @ + 1] /\ pc'[t] = "idle" /\ key' = key
           /\ pc[t] \in Adding \/ (CasRoot(t) /\ root = NULL /\ pc[t] = "casRoot")
  <2>1. /\ key[t] \in Keys /\ returned[key[t]] = 0 /\ key[t] \in S
        /\ \A u \in Threads : u # t /\ pc[u] \in Adding => key[u] # key[t]
    <3>1. key[t] \in Keys
      BY <1>8 DEF Inductive, Places, Adding
    <3>2. CASE pc[t] \in Adding
      BY <1>a, <3>1, <3>2 DEF Counted
    <3>3. CASE CasRoot(t) /\ root = NULL
      <4>1. \A k : ~Stored(k)
        BY <3>3 DEF Roots, Stored
      <4>2. returned[key[t]] = 0
        <5>1. key[t] \notin Done
          BY <4>1 DEF Counted
        <5> QED
          BY <1>0, <3>1, <5>1 DEF Done
      <4>3. key[t] \in S
        <5>k. PICK k : k = key[t]
          OBVIOUS
        <5>q. PICK q : q = Len(nodes) + 1
          OBVIOUS
        <5>v. PICK v : v = [NewVersion EXCEPT !.is_root = TRUE]
          OBVIOUS
        <5>1. nodes' = Append(nodes, Border(v, {key[t]}))
          BY <3>3, <5>v DEF CasRoot
        <5>2. nodes \in Seq(Node)
          BY DEF Inductive, Typed
        <5>3. q \in DOMAIN nodes' /\ nodes'[q] = Border(v, {key[t]})
          BY <5>1, <5>2, <5>q
        <5>4. k \in nodes'[q].slots
          BY <5>k, <5>3 DEF Border
        <5>5. Stored(k)'
          BY <5>3, <5>4 DEF Stored
        <5> QED
          BY <1>S, <3>1, <5>k, <5>5
      <4> QED
        BY <3>1, <4>1, <4>2, <4>3 DEF Counted
    <3> QED
      BY <1>8, <3>2, <3>3
  <2>2. returned'[key[t]] = 1 /\ \A k \in Keys : k # key[t] => returned'[k] = returned[k]
    BY <1>0, <1>8, <2>1
  <2>3. Done' = Done \cup {key[t]}
    <3>1. ASSUME NEW k \in Keys PROVE returned'[k] > 0 <=> (returned[k] > 0 \/ k = key[t])
      BY <2>2
    <3> QED
      BY <2>1, <3>1 DEF Done
  <2>4. \A u \in Threads : pc'[u] \in Adding => u # t /\ pc[u] \in Adding /\ key[u] # key[t]
    BY <1>2, <1>3, <1>8, <2>1
  <2>5. \A k \in Done' : Stored(k)' /\ returned'[k] = 1
    <3>1. \A k \in Done : k \in Keys
      BY DEF Done
    <3> QED
      BY <1>1, <1>S, <2>1, <2>2, <2>3, <3>1 DEF Counted
  <2>6. \A u \in Threads : pc'[u] \in Adding => key[u] \in S /\ returned'[key[u]] = 0
    BY <1>a, <2>2, <2>4 DEF Counted
  <2>7. \A u, w \in Threads : pc'[u] \in Adding /\ pc'[w] \in Adding /\ u # w => key[u] # key[w]
    BY <2>4 DEF Counted
  <2>8. \A u \in Threads : pc'[u] \in Adding => key'[u] \in S /\ returned'[key'[u]] = 0
    BY <1>8, <2>6
  <2>9. \A u, w \in Threads : pc'[u] \in Adding /\ pc'[w] \in Adding /\ u # w => key'[u] # key'[w]
    BY <1>8, <2>7
  <2> QED
    BY <1>5, <1>q, <2>3, <2>5, <2>8, <2>9
<1> QED
  BY <1>6, <1>7, <1>8, ReturnsAre

\* A step by which a call comes to return null, and what the others returned.
LEMMA NullsAre ==
    ASSUME Inductive, NEW t \in Threads, Step(t), got'[t] = "null"
    PROVE  /\ key' = key /\ seen' = seen
           /\ \/ got' = got
              \/ LoadRoot(t) /\ root = NULL
              \/ /\ pc[t] = "notFound" /\ Same(V(node[t]), ver[t])
                 /\ faults' = IF V(node[t]) # ver[t] THEN faults \cup {"unseenSplit"} ELSE faults
<1>0. DOMAIN got = Threads
  BY DEF Inductive, Typed
<1>1. CASE Call(t) \/ LoadRoot(t) \/ CasRoot(t)
  BY <1>0, <1>1 DEF Call, LoadRoot, CasRoot, Return, call
<1>2. CASE findBorder(t)
  BY <1>2 DEF findBorder, FindRoot, AtBorder, Descend, ChildVersion, Check, Revalidate, call, hist
<1>3. CASE masstree_get(t)
  <2>1. CASE Verify(t)
    BY <1>0, <2>1 DEF Verify, Return, call
  <2>2. CASE Search(t) \/ Forward(t) \/ Walk(t)
    BY <2>2 DEF Search, Forward, Walk, call, hist
  <2> QED
    BY <1>3, <2>1, <2>2 DEF masstree_get
<1>4. CASE AlreadyExists(t) \/ Unlock(t) \/ StoreRoot(t) \/ LeaveParent(t)
  BY <1>0, <1>4 DEF AlreadyExists, Unlock, StoreRoot, LeaveParent, Return
<1>5. CASE \/ LockBorder(t) \/ InsertToBorder(t) \/ Split(t) \/ SplitKeys(t)
           \/ NewRoot(t) \/ LeaveRoot(t) \/ LeaveSibling(t) \/ LockParent(t) \/ ShiftParent(t)
           \/ IntoParent(t) \/ LeaveNode(t) \/ LeaveNode1(t) \/ SplitParent(t) \/ TearParent(t)
           \/ FillParent(t) \/ AscendParent(t)
  BY <1>5 DEF LockBorder, InsertToBorder, Split, SplitKeys, NewRoot, LeaveRoot, LeaveSibling,
     LockParent, ShiftParent, IntoParent, LeaveNode, LeaveNode1, SplitParent, TearParent,
     FillParent, AscendParent, call, hist
<1> QED
  BY <1>1, <1>2, <1>3, <1>4, <1>5 DEF Step, masstree_insert

\* A null is returned for no key that was inserted before the call.
LEMMA AnsweredStep ==
    ASSUME Inductive, Roots, Counted, Answered, NEW t \in Threads, Step(t), Behind(t),
           NEW g, "tornNext" \notin faults => Gets(t, g)
    PROVE  Answered'
<1>0. faults \subseteq faults'
  BY FaultsGrow
<1> SUFFICES ASSUME faults' \cap {"unseenSplit", "tornNext"} = {},
                    NEW u \in Threads, got'[u] = "null"
             PROVE  key'[u] \notin seen'[u]
  BY DEF Answered
<1>1. faults \cap {"unseenSplit", "tornNext"} = {}
  BY <1>0
<1>2. CASE u # t
  <2>1. Local(u)' = Local(u)
    BY <1>2, OthersSame DEF Inductive
  <2>2. got'[u] = got[u] /\ key'[u] = key[u] /\ seen'[u] = seen[u]
    BY <2>1 DEF Local
  <2> QED
    BY <1>1, <2>2 DEF Answered
<1>3. CASE u = t
  <2>1. key' = key /\ seen' = seen
    BY <1>3, NullsAre
  <2>2. CASE got' = got
    BY <1>1, <2>1, <2>2 DEF Answered
  <2>3. CASE LoadRoot(t) /\ root = NULL
    <3>1. \A k : ~Stored(k)
      BY <2>3 DEF Roots, Stored
    <3>2. seen[t] = {}
      BY <3>1 DEF Counted
    <3> QED
      BY <1>3, <2>1, <3>2
  <2>4. CASE /\ pc[t] = "notFound"
             /\ faults' = IF V(node[t]) # ver[t] THEN faults \cup {"unseenSplit"} ELSE faults
    <3>1. V(node[t]) = ver[t]
      BY <2>4
    <3>2. Stable(ver[t])
      BY <2>4 DEF Behind, NotAhead, HasVersion
    <3>3. SameSplit(t)
      BY <3>1, <3>2 DEF SameSplit, Stable
    <3> QED
      BY <1>1, <1>3, <2>1, <2>4, <3>3 DEF Gets
  <2> QED
    BY <1>3, <2>2, <2>3, <2>4, NullsAre
<1> QED
  BY <1>2, <1>3

-----------------------------------------------------------------------------
(* Searches end where the keys are.                                         *)

\* The steps that make a thread the one that stores a new root.
LEMMA RootsAre ==
    ASSUME Inductive, NEW t \in Threads, Step(t)
    PROVE  /\ root' = root \/ (StoreRoot(t) /\ root' = par[t])
              \/ (root' \notin DOMAIN nodes /\ root' \in DOMAIN nodes' /\ nodes'[root'].parent = NULL
                  /\ CasRoot(t) /\ pc'[t] = "idle")
           /\ pc'[t] \in {"leaveRoot", "leaveSibling", "storeRoot"} =>
                \/ par'[t] = par[t] /\ pc[t] \in {"leaveRoot", "leaveSibling"}
                \/ par'[t] \notin DOMAIN nodes /\ par'[t] \in DOMAIN nodes'
                   /\ nodes'[par'[t]].parent = NULL /\ pc'[t] = "leaveRoot"
<1>0. pc \in [Threads -> PCs] /\ par \in [Threads -> DOMAIN nodes \cup {NULL}]
  BY DEF Inductive, Typed
<1> USE <1>0
<1>1. CASE Call(t) \/ LoadRoot(t)
  BY <1>1 DEF Call, LoadRoot, Goto, Return, loc
<1>2. CASE CasRoot(t)
  <2>1. pc'[t] \in {"idle", "crashed"} /\ (root = NULL => pc'[t] = "idle")
    BY <1>2 DEF CasRoot, Goto, Return
  <2>2. CASE root' = root
    BY <2>1, <2>2
  <2>3. CASE root' # root
    <3> DEFINE q == Len(nodes) + 1
    <3>1. /\ root = NULL /\ q \notin DOMAIN nodes /\ root' = q
          /\ DOMAIN nodes' = DOMAIN nodes \cup {q}
          /\ nodes'[q] = Border([NewVersion EXCEPT !.is_root = TRUE], {key[t]})
      BY <1>2, <2>3, CasRootGoes
    <3> HIDE DEF q
    <3> QED
      BY <1>2, <2>1, <3>1 DEF Border
  <2> QED
    BY <2>2, <2>3
<1>3. CASE findBorder(t)
  BY <1>3 DEF findBorder, FindRoot, AtBorder, Descend, ChildVersion, Check, Revalidate, Goto, call, loc
<1>4. CASE masstree_get(t)
  BY <1>4 DEF masstree_get, Search, Verify, Forward, Walk, Goto, Return, call, loc
<1>5. CASE LockBorder(t) \/ AlreadyExists(t) \/ InsertToBorder(t) \/ Unlock(t) \/ Split(t) \/ SplitKeys(t)
  BY <1>5 DEF LockBorder, AlreadyExists, InsertToBorder, Unlock, Split, SplitKeys, Goto, Return, loc
<1>6. CASE NewRoot(t)
  <2>1. root' = root /\ pc'[t] = "leaveRoot"
    BY <1>6 DEF NewRoot, Goto
  <2> DEFINE r == Len(nodes) + 1
  <2>2. /\ r \notin DOMAIN nodes /\ DOMAIN nodes' = DOMAIN nodes \cup {r} /\ par'[t] = r
        /\ nodes'[r] = Interior([NewVersion EXCEPT !.is_root = TRUE], <<up[t]>>, <<node[t], sib[t]>>)
    BY <1>6, NewRootGoes
  <2> HIDE DEF r
  <2> QED
    BY <2>1, <2>2 DEF Interior
<1>7. CASE LeaveRoot(t) \/ LeaveSibling(t) \/ StoreRoot(t)
  BY <1>7 DEF LeaveRoot, LeaveSibling, StoreRoot, Goto, Return, loc
<1>8. CASE \/ LockParent(t) \/ ShiftParent(t) \/ IntoParent(t) \/ LeaveNode(t) \/ LeaveNode1(t)
           \/ LeaveParent(t) \/ SplitParent(t) \/ TearParent(t) \/ FillParent(t) \/ AscendParent(t)
  BY <1>8 DEF LockParent, ShiftParent, IntoParent, LeaveNode, LeaveNode1, LeaveParent, SplitParent,
     TearParent, FillParent, AscendParent, Goto, Return, loc
<1> QED
  BY <1>1, <1>2, <1>3, <1>4, <1>5, <1>6, <1>7, <1>8 DEF Step, masstree_insert

LEMMA LeadingStep ==
    ASSUME Inductive, NEW t \in Threads, Step(t), NEW g, Leading(g), NEW h, Ranges(h)', Narrows(t, g, h)
    PROVE  Leading(h)'
<1>0. /\ \A n \in DOMAIN nodes : h[n].from = g[n].from
      /\ root \in DOMAIN nodes \cup {NULL} /\ NULL \notin DOMAIN nodes
      /\ \A u \in Threads : pc[u] \in {"leaveRoot", "leaveSibling", "storeRoot"} => par[u] \in DOMAIN nodes
  BY Constants DEF Narrows, Inductive, Typed, Places, WithPar
<1>1. ASSUME NEW n, n \in DOMAIN nodes', n \notin DOMAIN nodes, nodes'[n].parent = NULL,
             pc'[t] \in {"idle", "leaveRoot"}
      PROVE  h[n].from = 0
  <2>1. ~Unlinked(n)'
    BY <1>1, OwnStatus DEF Halfway
  <2> QED
    BY <1>1, <2>1 DEF Ranges, Ranged, Topmost
<1>2. root' # NULL => h[root'].from = 0
  <2>1. CASE root' = root
    BY <1>0, <2>1 DEF Leading
  <2>2. CASE StoreRoot(t) /\ root' = par[t]
    BY <1>0, <2>2 DEF Leading, StoreRoot
  <2> QED
    BY <1>1, <2>1, <2>2, RootsAre
<1>3. ASSUME NEW u \in Threads, pc'[u] \in {"leaveRoot", "leaveSibling", "storeRoot"}
      PROVE  h[par'[u]].from = 0
  <2>1. CASE u # t
    <3>1. pc'[u] = pc[u] /\ par'[u] = par[u]
      BY <2>1, OthersLook
    <3> QED
      BY <1>0, <1>3, <3>1 DEF Leading
  <2>2. CASE u = t
    BY <1>0, <1>1, <1>3, <2>2, RootsAre DEF Leading
  <2> QED
    BY <2>1, <2>2
<1> QED
  BY <1>2, <1>3 DEF Leading

\* The functions that Lookup is made of.
Borders == {n \in DOMAIN nodes : nodes[n].border}

RightOf(k) ==
    CHOOSE f : f = [n \in {m \in DOMAIN nodes : nodes[m].border} |->
        LET m == nodes[n].next
        IN  IF m # NULL /\ k >= Min(nodes[m].slots) THEN f[m] ELSE n]

DownOf(k) ==
    CHOOSE f : f = [n \in DOMAIN nodes |->
        IF nodes[n].border THEN RightOf(k)[n] ELSE f[findChild(n, k)]]

ClimbOf(k) ==
    CHOOSE f : f = [n \in DOMAIN nodes |->
        IF V(n).is_root \/ nodes[n].parent = NULL THEN DownOf(k)[n] ELSE f[nodes[n].parent]]

LEMMA LookupIs ==
    ASSUME NEW k
    PROVE  Lookup(k) = ClimbOf(k)[root]
BY DEF Lookup, ClimbOf, DownOf, RightOf

\* Nobody is half-way through rewriting a node.
Whole == \A n \in DOMAIN nodes : ~nodes[n].torn

LEMMA WholeIs ==
    ASSUME Inductive, Whole
    PROVE  \A n : ~Fresh(n) /\ ~Filling(n)
<1>1. ASSUME NEW t \in Threads, pc[t] \in {"splitKeys", "fillParent"} PROVE FALSE
  <2>1. Tearing(t) # {} /\ Tearing(t) \subseteq DOMAIN nodes
    <3>1. Places(t)
      BY DEF Inductive
    <3> QED
      BY <1>1, <3>1 DEF Tearing, Places, WithNode, Halfway, WithPar
  <2>2. \A n \in Tearing(t) : nodes[n].torn
    BY <2>1 DEF Inductive, Marked
  <2> QED
    BY <2>1, <2>2 DEF Whole
<1> QED
  BY <1>1 DEF Fresh, Filling

\* A border node to whose keys k belongs, and that does not end before k, has k.
LEMMA HasKey ==
    ASSUME Inductive, Whole, NEW g, Ranges(g), NEW k \in Nat, Stored(k),
           NEW n \in Borders, g[n].from <= k, Under(k, g[n].to)
    PROVE  k \in nodes[n].slots
<1>1. PICK m \in DOMAIN nodes : k \in nodes[m].slots
  BY DEF Stored
<1>2. m \in Borders
  BY <1>1 DEF Borders, Inductive, Shape
<1>3. g[m].from <= k /\ Under(k, g[m].to)
  BY <1>1, <1>2 DEF Borders, Ranges, Ranged, Filled
<1>4. ASSUME n # m PROVE FALSE
  <2>1. Before(g, n, m) \/ Before(g, m, n)
    BY <1>2, <1>4, WholeIs DEF Borders, Ranges, Disjoint
  <2>2. g[n] \in Range0 /\ g[m] \in Range0
    BY <1>2 DEF Borders, Ranges
  <2> QED
    BY <1>3, <2>1, <2>2 DEF Before, Under, Range0
<1> QED
  BY <1>1, <1>4

Past(k)   == {n \in Borders : nodes[n].next # NULL /\ k >= Min(nodes[nodes[n].next].slots)}
NextOf    == [n \in DOMAIN nodes |-> nodes[n].next]

\* A walk to the right of nodes that do not begin above k ends at k.
LEMMA WalkEnds ==
    ASSUME Inductive, Whole, NEW g, Ranges(g), NEW k \in Nat, Stored(k)
    PROVE  \A n \in Borders : g[n].from <= k => k \in nodes[RightOf(k)[n]].slots
<1>0. g \in [DOMAIN nodes -> Range0] /\ Borders \subseteq DOMAIN nodes /\ NULL \notin DOMAIN nodes
  BY Constants DEF Ranges, Borders, Inductive, Typed
<1> DEFINE stop == [n \in Borders |-> n]
           mu == [n \in Borders |-> IF g[n].from <= k THEN k - g[n].from ELSE 0]
           A == {n \in Borders : g[n].from <= k}
           T == {n \in Borders : k \in nodes[n].slots}
<1>1. ASSUME NEW n \in Borders, nodes[n].next # NULL
      PROVE  /\ nodes[n].next \in Borders
             /\ Min(nodes[nodes[n].next].slots) = g[nodes[n].next].from
             /\ g[n].to = g[nodes[n].next].from /\ g[n].from < g[n].to
  <2>1. PICK m : m = nodes[n].next
    OBVIOUS
  <2>2. m \in Borders
    BY <1>0, <1>1, <2>1 DEF Borders, Inductive, Shape
  <2>3. g[n].to = g[m].from /\ g[m].from \in nodes[m].slots
    BY <1>0, <1>1, <2>1, WholeIs DEF Ranges, Ranged, Chained, Borders
  <2>4. \A x \in nodes[m].slots : g[m].from <= x
    BY <1>0, <2>2 DEF Ranges, Ranged, Filled, Borders
  <2>5. nodes[m].slots \in SUBSET Nat
    <3>1. nodes[m] \in Node
      BY <1>0, <2>2, NodeIs DEF Inductive
    <3> QED
      BY <3>1, Constants DEF Node
  <2>6. Min(nodes[m].slots) = g[m].from
    <3>1. Min(nodes[m].slots) \in nodes[m].slots /\ \A x \in nodes[m].slots : Min(nodes[m].slots) <= x
      BY <2>3, <2>5, MinIs
    <3> QED
      BY <2>3, <2>4, <2>5, <3>1
  <2>7. g[m].from \in Nat
    BY <2>3, <2>5
  <2>8. g[n].from < g[n].to
    <3>1. Under(g[n].from, g[n].to)
      BY <1>0 DEF Ranges, Ranged, Filled
    <3>2. g[n].to # NULL
      BY <2>3, <2>7, Constants
    <3> QED
      BY <3>1, <3>2 DEF Under
  <2> QED
    BY <2>1, <2>2, <2>3, <2>6, <2>8
<1>2. \A n \in Borders : g[n].from \in Nat
  BY <1>0 DEF Range0
<1>3. Falls(mu, Borders, Past(k), NextOf)
  <2>1. ASSUME NEW n \in Past(k)
        PROVE  NextOf[n] \in Borders /\ mu[NextOf[n]] < mu[n] /\ g[NextOf[n]].from <= k
    <3>1. n \in Borders /\ nodes[n].next # NULL /\ k >= Min(nodes[nodes[n].next].slots)
      BY DEF Past
    <3>2. PICK m : m = nodes[n].next
      OBVIOUS
    <3>3. m \in Borders /\ g[n].from < g[m].from /\ g[m].from <= k
      BY <1>1, <3>1, <3>2
    <3>4. NextOf[n] = m
      BY <1>0, <3>1, <3>2 DEF NextOf
    <3>5. g[n].from \in Nat /\ g[m].from \in Nat /\ mu[n] = k - g[n].from /\ mu[m] = k - g[m].from
      BY <1>2, <3>1, <3>3
    <3> QED
      BY <3>3, <3>4, <3>5
  <2>2. mu \in [Borders -> Nat]
    BY <1>2
  <2> QED
    BY <2>1, <2>2 DEF Falls, Past
<1>4. \A n \in Borders : mu[n] < k + 1
  BY <1>2
<1>5. \A f : Follows(f, Borders, Past(k), NextOf, stop) <=>
        f = [n \in {m \in DOMAIN nodes : nodes[m].border} |->
               LET m == nodes[n].next
               IN  IF m # NULL /\ k >= Min(nodes[m].slots) THEN f[m] ELSE n]
  <2> TAKE f
  <2> DEFINE u == [n \in Borders |-> IF n \in Past(k) THEN f[NextOf[n]] ELSE stop[n]]
             w == [n \in Borders |-> LET m == nodes[n].next
                                     IN  IF m # NULL /\ k >= Min(nodes[m].slots) THEN f[m] ELSE n]
  <2>1. ASSUME NEW n \in Borders PROVE u[n] = w[n]
    <3>1. NextOf[n] = nodes[n].next /\ stop[n] = n
      BY <1>0 DEF NextOf
    <3>2. n \in Past(k) <=> nodes[n].next # NULL /\ k >= Min(nodes[nodes[n].next].slots)
      BY DEF Past
    <3> HIDE DEF stop
    <3> QED
      BY <3>1, <3>2
  <2>2. u = w
    <3> HIDE DEF stop
    <3> QED BY <2>1
  <2> QED
    BY <2>2 DEF Follows, Borders
<1> HIDE DEF mu
<1>6. Follows(RightOf(k), Borders, Past(k), NextOf, stop)
  <2> HIDE DEF stop
  <2>1. \E f : Follows(f, Borders, Past(k), NextOf, stop)
    <3>1. k + 1 \in Nat
      OBVIOUS
    <3> QED
      BY <1>3, <1>4, <3>1, FollowsExists
  <2> QED
    BY <1>5, <2>1, Zenon DEF RightOf
<1>7. \A n \in A : (n \in Past(k) => NextOf[n] \in A) /\ (n \notin Past(k) => stop[n] \in T)
  <2> SUFFICES ASSUME NEW n \in A PROVE (n \in Past(k) => NextOf[n] \in A) /\ (n \notin Past(k) => stop[n] \in T)
    OBVIOUS
  <2>0. n \in Borders /\ g[n].from <= k
    OBVIOUS
  <2>1. CASE n \in Past(k)
    <3>1. nodes[n].next # NULL /\ k >= Min(nodes[nodes[n].next].slots)
      BY <2>1 DEF Past
    <3>2. NextOf[n] = nodes[n].next
      BY <1>0, <2>0 DEF NextOf
    <3>3. NextOf[n] \in A
      BY <1>1, <2>0, <3>1, <3>2
    <3> QED
      BY <2>1, <3>3
  <2>2. CASE n \notin Past(k)
    <3>1. Under(k, g[n].to)
      <4>1. CASE nodes[n].next = NULL
        BY <1>0, <2>0, <4>1, WholeIs DEF Ranges, Ranged, Chained, Borders, Under
      <4>2. CASE nodes[n].next # NULL
        <5>1. ~(k >= g[nodes[n].next].from) /\ g[n].to = g[nodes[n].next].from
          BY <1>1, <2>0, <2>2, <4>2 DEF Past
        <5>2. g[nodes[n].next].from \in Nat
          BY <1>1, <1>2, <2>0, <4>2
        <5> QED
          BY <5>1, <5>2 DEF Under
      <4> QED
        BY <4>1, <4>2
    <3>2. k \in nodes[n].slots
      BY <2>0, <3>1, HasKey
    <3> QED
      BY <2>0, <2>2, <3>2
  <2> QED
    BY <2>1, <2>2
<1>8. \A n \in A : RightOf(k)[n] \in T
  <2> HIDE DEF stop, A, T
  <2>1. A \subseteq Borders
    BY DEF A
  <2>2. Closes(A, T, Past(k), NextOf, stop)
    BY <1>7 DEF Closes
  <2> QED
    BY <1>3, <1>6, <2>1, <2>2, FollowsEnds
<1> HIDE DEF stop
<1>9. ASSUME NEW n \in Borders, g[n].from <= k PROVE k \in nodes[RightOf(k)[n]].slots
  <2>1. n \in A
    BY <1>9
  <2>2. RightOf(k)[n] \in T
    BY <1>8, <2>1, Zenon
  <2> QED
    BY <2>2
<1> QED
  BY <1>9

\* The child that a key goes to does not begin above it, also when the key lies
\* behind the keys of the node.
LEMMA RouteFrom ==
    ASSUME NEW n \in DOMAIN nodes, NEW k \in Nat, NEW g,
           nodes[n].seps \in Seq(Nat), nodes[n].children \in Seq(Nat),
           Len(nodes[n].children) = Len(nodes[n].seps) + 1
    PROVE  /\ findChild(n, k) \in Kids(n)
           /\ Fits(nodes[n].seps, nodes[n].children, n, g) /\ g[n].from <= k =>
                g[findChild(n, k)].from <= k
<1> DEFINE s == nodes[n].seps
           c == nodes[n].children
           L == Len(s)
<1>1. L \in Nat /\ DOMAIN s = 1 .. L /\ DOMAIN c = 1 .. L + 1 /\ \A i \in 1 .. L : s[i] \in Nat
  OBVIOUS
<1>2. \E m \in 0 .. L : /\ findChild(n, k) = c[m + 1]
                        /\ Rises(s) => (m > 0 => s[m] <= k)
  <2>1. CASE Rises(s)
    <3>1. PICK m \in 0 .. L :
             /\ Cardinality({i \in DOMAIN s : s[i] <= k}) = m
             /\ m > 0 => s[m] <= k
             /\ m < L => k < s[m + 1]
      BY <2>1, CountUpTo
    <3>2. findChild(n, k) = c[m + 1]
      BY <3>1 DEF findChild
    <3> QED
      BY <3>1, <3>2
  <2>2. CASE ~Rises(s)
    <3> DEFINE X == {i \in DOMAIN s : s[i] <= k}
    <3>1. X \subseteq 1 .. L
      BY <1>1
    <3>2. IsFiniteSet(1 .. L) /\ Cardinality(1 .. L) = L
      <4>1. 1 \in Int /\ L \in Int
        BY <1>1
      <4> QED
        BY <1>1, <4>1, FS_Interval
    <3>3. Cardinality(X) \in Nat /\ Cardinality(X) <= L
      <4> HIDE DEF X
      <4>1. IsFiniteSet(X) /\ Cardinality(X) <= Cardinality(1 .. L)
        BY <3>1, <3>2, FS_Subset
      <4> QED
        BY <3>2, <4>1, FS_CardinalityType
    <3>4. findChild(n, k) = c[Cardinality(X) + 1]
      BY DEF findChild
    <3>5. Cardinality(X) \in 0 .. L
      <4> HIDE DEF X
      <4> QED BY <1>1, <3>3
    <3> HIDE DEF X
    <3> QED
      BY <2>2, <3>4, <3>5
  <2> QED
    BY <2>1, <2>2
<1>3. PICK m \in 0 .. L : findChild(n, k) = c[m + 1] /\ (Rises(s) => (m > 0 => s[m] <= k))
  BY <1>2
<1>4. m + 1 \in DOMAIN c
  BY <1>1
<1>5. c[m + 1] \in Kids(n)
  BY <1>4 DEF Kids, ToSet
<1>6. ASSUME Fits(s, c, n, g), g[n].from <= k PROVE g[c[m + 1]].from <= k
  <2>1. Rises(s) /\ g[c[1]].from = g[n].from /\ \A i \in 1 .. L : g[c[i + 1]].from = s[i]
    BY <1>1, <1>6 DEF Fits, Meets
  <2> HIDE DEF s, c, L
  <2>2. CASE m = 0
    BY <1>6, <2>1, <2>2
  <2>3. CASE m > 0
    <3>1. m \in 1 .. L
      BY <1>1, <2>3
    <3> QED
      BY <1>3, <2>1, <2>3, <3>1
  <2> QED
    BY <1>1, <2>2, <2>3
<1> QED
  BY <1>3, <1>5, <1>6

Inner       == DOMAIN nodes \ Borders
ChildFor(k) == [n \in DOMAIN nodes |-> findChild(n, k)]

\* A descent from a node that does not begin above k ends at k.
LEMMA DescentEnds ==
    ASSUME Inductive, Whole, NEW g, Ranges(g), NEW k \in Nat, Stored(k), NEW lv, Levels(lv),
           NEW B \in Nat, \A n \in DOMAIN nodes : lv[n] < B
    PROVE  \A n \in DOMAIN nodes : g[n].from <= k => k \in nodes[DownOf(k)[n]].slots
<1> DEFINE stop == RightOf(k)
           A == {n \in DOMAIN nodes : g[n].from <= k}
           T == {n \in {RightOf(k)[m] : m \in Borders} : k \in nodes[n].slots}
<1>1. ASSUME NEW n \in Inner
      PROVE  /\ findChild(n, k) \in DOMAIN nodes /\ lv[findChild(n, k)] < lv[n]
             /\ g[n].from <= k => g[findChild(n, k)].from <= k
  <2>1. n \in DOMAIN nodes /\ ~nodes[n].border
    BY DEF Inner, Borders
  <2>2. findChild(n, k) \in Kids(n)
        /\ (Fits(nodes[n].seps, nodes[n].children, n, g) /\ g[n].from <= k => g[findChild(n, k)].from <= k)
    BY <2>1, SepsAre, RouteFrom
  <2>3. Fits(nodes[n].seps, nodes[n].children, n, g)
    BY <2>1, WholeIs DEF Ranges, Ranged, Divided
  <2>4. findChild(n, k) \in DOMAIN nodes /\ nodes[findChild(n, k)].parent = n /\ n # NULL
    BY <2>1, <2>2, Constants DEF Inductive, Typed, Family, Shape
  <2>5. PICK c : c = findChild(n, k)
    OBVIOUS
  <2>6. lv[n] = lv[c] + 1 /\ lv[c] \in Nat /\ lv[n] \in Nat
    BY <2>1, <2>4, <2>5 DEF Levels
  <2> QED
    BY <2>2, <2>3, <2>4, <2>5, <2>6
<1>2. Falls(lv, DOMAIN nodes, Inner, ChildFor(k))
  <2>1. \A n \in Inner : ChildFor(k)[n] = findChild(n, k)
    BY DEF ChildFor, Inner
  <2> QED
    BY <1>1, <2>1 DEF Falls, Levels, Inner
<1>3. \A f : Follows(f, DOMAIN nodes, Inner, ChildFor(k), stop) <=>
        f = [n \in DOMAIN nodes |->
               IF nodes[n].border THEN RightOf(k)[n] ELSE f[findChild(n, k)]]
  <2> TAKE f
  <2> DEFINE u == [n \in DOMAIN nodes |-> IF n \in Inner THEN f[ChildFor(k)[n]] ELSE stop[n]]
             w == [n \in DOMAIN nodes |-> IF nodes[n].border THEN RightOf(k)[n] ELSE f[findChild(n, k)]]
  <2>1. ASSUME NEW n \in DOMAIN nodes PROVE u[n] = w[n]
    <3>1. ChildFor(k)[n] = findChild(n, k)
      BY DEF ChildFor
    <3>2. n \in Inner <=> ~nodes[n].border
      BY DEF Inner, Borders
    <3> QED
      BY <3>1, <3>2
  <2>2. u = w
    BY <2>1
  <2> QED
    BY <2>2 DEF Follows
<1>4. Follows(DownOf(k), DOMAIN nodes, Inner, ChildFor(k), stop)
  <2> HIDE DEF stop
  <2>1. \E f : Follows(f, DOMAIN nodes, Inner, ChildFor(k), stop)
    BY <1>2, FollowsExists
  <2> QED
    BY <1>3, <2>1, Zenon DEF DownOf, stop
<1>5. Closes(A, T, Inner, ChildFor(k), stop)
  <2>1. ASSUME NEW n \in A, n \in Inner PROVE ChildFor(k)[n] \in A
    <3>1. ChildFor(k)[n] = findChild(n, k)
      BY DEF ChildFor, Inner
    <3> QED
      BY <1>1, <2>1, <3>1
  <2>2. ASSUME NEW n \in A, n \notin Inner PROVE stop[n] \in T
    <3>1. n \in Borders /\ g[n].from <= k
      BY <2>2 DEF Inner
    <3>2. k \in nodes[RightOf(k)[n]].slots
      BY <3>1, WalkEnds
    <3> QED
      BY <3>1, <3>2
  <2> HIDE DEF A, T, stop
  <2> QED
    BY <2>1, <2>2 DEF Closes
<1>6. \A n \in A : DownOf(k)[n] \in T
  <2> HIDE DEF stop, A, T
  <2>1. A \subseteq DOMAIN nodes
    BY DEF A
  <2> QED
    BY <1>2, <1>4, <1>5, <2>1, FollowsEnds
<1>7. ASSUME NEW n \in DOMAIN nodes, g[n].from <= k PROVE k \in nodes[DownOf(k)[n]].slots
  <2>1. n \in A
    BY <1>7
  <2>2. DownOf(k)[n] \in T
    BY <1>6, <2>1, Zenon
  <2> QED
    BY <2>2
<1> QED
  BY <1>7

Below    == {n \in DOMAIN nodes : ~V(n).is_root /\ nodes[n].parent # NULL}
ParentOf == [n \in DOMAIN nodes |-> nodes[n].parent]

\* The parent of a node that begins with the lowest keys begins with them too.
LEMMA ParentLeads ==
    ASSUME Inductive, Whole, NEW g, Ranges(g), NEW n \in DOMAIN nodes, nodes[n].parent # NULL,
           g[n].from = 0
    PROVE  nodes[n].parent \in DOMAIN nodes /\ g[nodes[n].parent].from = 0
<1>1. PICK p : p = nodes[n].parent
  OBVIOUS
<1>2. p \in DOMAIN nodes /\ n \in Kids(p)
  BY <1>1 DEF Inductive, Shape, Family
<1>3. ~nodes[p].border
  <2>1. nodes[p].border => Kids(p) = {}
    BY <1>2 DEF Inductive, Shape, Kids, ToSet
  <2> QED
    BY <1>2, <2>1
<1>4. Fits(nodes[p].seps, nodes[p].children, p, g)
  BY <1>2, <1>3, WholeIs DEF Ranges, Ranged, Divided
<1>5. nodes[p].seps \in Seq(Keys)
  BY <1>2, NodeIs DEF Inductive, Node
<1>6. nodes[p].children \in Seq(Nat) /\ Len(nodes[p].children) = Len(nodes[p].seps) + 1
  BY <1>2, <1>3, SepsAre
<1>7. PICK j \in DOMAIN nodes[p].children : nodes[p].children[j] = n
  BY <1>2 DEF Kids, ToSet
<1>8. j = 1
  <2> DEFINE s == nodes[p].seps
             c == nodes[p].children
  <2>1. /\ Len(s) \in Nat /\ DOMAIN s = 1 .. Len(s) /\ DOMAIN c = 1 .. Len(s) + 1
        /\ \A i \in 1 .. Len(s) : s[i] \in Keys
    BY <1>5, <1>6
  <2>2. SUFFICES ASSUME j # 1 PROVE FALSE
    OBVIOUS
  <2>L. PICK m : m = Len(s)
    OBVIOUS
  <2>i. PICK i : i = j - 1
    OBVIOUS
  <2>j. j \in 1 .. m + 1 /\ m \in Nat
    BY <1>7, <2>1, <2>L
  <2>3. i \in 1 .. Len(s) /\ j = i + 1
    <3> HIDE DEF s, c
    <3> QED BY <2>2, <2>L, <2>i, <2>j
  <2>4. g[c[i + 1]].from = s[i]
    BY <1>4, <2>1, <2>3 DEF Fits, Meets
  <2>5. s[i] \in Keys
    BY <2>1, <2>3
  <2>6. c[i + 1] = n
    BY <1>7, <2>3
  <2> HIDE DEF s, c
  <2> QED
    BY <2>4, <2>5, <2>6, Constants
<1>9. g[nodes[p].children[1]].from = g[p].from
  BY <1>4 DEF Fits
<1> QED
  BY <1>1, <1>2, <1>7, <1>8, <1>9

\* A climb from a node that begins with the lowest keys, and the descent after
\* it, end at k.
LEMMA ClimbEnds ==
    ASSUME Inductive, Whole, NEW g, Ranges(g), NEW k \in Nat, Stored(k), NEW lv, Levels(lv),
           NEW B \in Nat, \A n \in DOMAIN nodes : lv[n] < B
    PROVE  \A n \in DOMAIN nodes : g[n].from = 0 => k \in nodes[ClimbOf(k)[n]].slots
<1> DEFINE stop == DownOf(k)
           mu == [n \in DOMAIN nodes |-> B - lv[n]]
           A == {n \in DOMAIN nodes : g[n].from = 0}
           T == {n \in {DownOf(k)[m] : m \in DOMAIN nodes} : k \in nodes[n].slots}
<1>1. \A n \in DOMAIN nodes : lv[n] \in Nat
  BY DEF Levels
<1>2. Falls(mu, DOMAIN nodes, Below, ParentOf)
  <2>1. ASSUME NEW n \in Below PROVE ParentOf[n] \in DOMAIN nodes /\ mu[ParentOf[n]] < mu[n]
    <3>1. n \in DOMAIN nodes /\ nodes[n].parent # NULL
      BY DEF Below
    <3>2. PICK p : p = nodes[n].parent
      OBVIOUS
    <3>3. p \in DOMAIN nodes /\ lv[p] = lv[n] + 1 /\ ParentOf[n] = p
      BY <3>1, <3>2 DEF Inductive, Shape, Levels, ParentOf
    <3>4. mu[p] = B - lv[p] /\ mu[n] = B - lv[n]
      BY <3>1, <3>3
    <3> QED
      BY <1>1, <3>1, <3>3, <3>4
  <2>2. mu \in [DOMAIN nodes -> Nat]
    BY <1>1
  <2> QED
    BY <2>1, <2>2 DEF Falls, Below
<1>3. \A n \in DOMAIN nodes : mu[n] < B + 1
  BY <1>1
<1> HIDE DEF mu
<1>4. \A f : Follows(f, DOMAIN nodes, Below, ParentOf, stop) <=>
        f = [n \in DOMAIN nodes |->
               IF V(n).is_root \/ nodes[n].parent = NULL THEN DownOf(k)[n] ELSE f[nodes[n].parent]]
  <2> TAKE f
  <2> DEFINE u == [n \in DOMAIN nodes |-> IF n \in Below THEN f[ParentOf[n]] ELSE stop[n]]
             w == [n \in DOMAIN nodes |-> IF V(n).is_root \/ nodes[n].parent = NULL
                                          THEN DownOf(k)[n] ELSE f[nodes[n].parent]]
  <2>1. ASSUME NEW n \in DOMAIN nodes PROVE u[n] = w[n]
    <3>1. ParentOf[n] = nodes[n].parent
      BY DEF ParentOf
    <3>2. n \in Below <=> ~(V(n).is_root \/ nodes[n].parent = NULL)
      BY DEF Below
    <3> QED
      BY <3>1, <3>2
  <2>2. u = w
    BY <2>1
  <2> QED
    BY <2>2 DEF Follows
<1>5. Follows(ClimbOf(k), DOMAIN nodes, Below, ParentOf, stop)
  <2> HIDE DEF stop
  <2>1. \E f : Follows(f, DOMAIN nodes, Below, ParentOf, stop)
    <3>1. B + 1 \in Nat
      OBVIOUS
    <3> QED
      BY <1>2, <1>3, <3>1, FollowsExists
  <2> QED
    BY <1>4, <2>1, Zenon DEF ClimbOf, stop
<1>6. Closes(A, T, Below, ParentOf, stop)
  <2>1. ASSUME NEW n \in A, n \in Below PROVE ParentOf[n] \in A
    <3>1. ParentOf[n] = nodes[n].parent /\ nodes[n].parent # NULL
      BY <2>1 DEF ParentOf, Below
    <3> QED
      BY <2>1, <3>1, ParentLeads
  <2>2. ASSUME NEW n \in A, n \notin Below PROVE stop[n] \in T
    <3>1. n \in DOMAIN nodes /\ g[n].from <= k
      OBVIOUS
    <3>2. k \in nodes[DownOf(k)[n]].slots
      BY <3>1, DescentEnds
    <3> QED
      BY <3>1, <3>2
  <2> HIDE DEF A, T, stop
  <2> QED
    BY <2>1, <2>2 DEF Closes
<1>7. \A n \in A : ClimbOf(k)[n] \in T
  <2> HIDE DEF stop, A, T
  <2>1. A \subseteq DOMAIN nodes
    BY DEF A
  <2> QED
    BY <1>2, <1>5, <1>6, <2>1, FollowsEnds
<1>8. ASSUME NEW n \in DOMAIN nodes, g[n].from = 0 PROVE k \in nodes[ClimbOf(k)[n]].slots
  <2>1. n \in A
    BY <1>8
  <2>2. ClimbOf(k)[n] \in T
    BY <1>7, <2>1, Zenon
  <2> QED
    BY <2>2
<1> QED
  BY <1>8

LEMMA KeysStay ==
    ASSUME Inductive, Roots, Counted, Balanced, NEW g, Ranges(g), Leading(g)
    PROVE  Whole => \A k \in Done : k \in nodes[Lookup(k)].slots
<1> SUFFICES ASSUME Whole, NEW k \in Done PROVE k \in nodes[Lookup(k)].slots
  OBVIOUS
<1>1. k \in Nat /\ Stored(k)
  BY Constants DEF Done, Counted
<1>2. PICK lv : Levels(lv)
  BY DEF Balanced
<1>3. PICK B \in Nat : \A n \in DOMAIN nodes : lv[n] < B
  <2>1. Len(nodes) \in Nat /\ DOMAIN nodes = 1 .. Len(nodes)
    BY DEF Inductive, Typed
  <2>2. lv \in [1 .. Len(nodes) -> Nat]
    BY <1>2, <2>1 DEF Levels
  <2> QED
    BY <2>1, <2>2, Bounded
<1>4. root \in DOMAIN nodes /\ g[root].from = 0
  <2>1. root # NULL
    BY <1>1 DEF Stored, Roots
  <2> QED
    BY <2>1 DEF Inductive, Typed, Leading
<1>5. k \in nodes[ClimbOf(k)[root]].slots
  BY <1>1, <1>2, <1>3, <1>4, ClimbEnds
<1> QED
  BY <1>5, LookupIs

-----------------------------------------------------------------------------
(* The theorems.                                                            *)

\* The invariant holds at the start, and every step keeps it.
LEMMA PromiseStarts ==
    ASSUME Init
    PROVE  Promise
<1>1. Inductive
  BY Starts
<1>2. /\ root = NULL /\ nodes = <<>> /\ DOMAIN nodes = {}
      /\ pc = [t \in Threads |-> "idle"] /\ seen = [t \in Threads |-> {}]
      /\ got = [t \in Threads |-> "none"] /\ returned = [k \in Keys |-> 0]
  BY DEF Init
<1>3. Roots /\ \A t \in Threads : Behind(t)
  BY <1>2 DEF Roots, Behind, HasVersion, Descending, Halfway
<1>4. Counted
  BY <1>2 DEF Counted, Done, Adding
<1>5. Answered
  BY <1>2 DEF Answered
<1>6. PICK g : g = [n \in DOMAIN nodes |-> [from |-> 0, to |-> NULL, end |-> NULL]]
  OBVIOUS
<1>7. Ranges(g)
  <2>1. g \in [DOMAIN nodes -> Range0]
    BY <1>2, <1>6
  <2> QED
    BY <1>2, <2>1 DEF Ranges, Disjoint, Born, Joined, Moving, Paired, Halfway
<1>8. Guided(g)
  BY <1>2 DEF Guided, Searches, Gets, Descending, Getting
<1>9. Leading(g)
  BY <1>2 DEF Leading
<1> QED
  BY <1>1, <1>3, <1>4, <1>5, <1>7, <1>8, <1>9 DEF Promise

LEMMA PromiseStep ==
    ASSUME Promise, NEW t \in Threads, Step(t)
    PROVE  Promise'
<1>1. Inductive /\ Roots /\ \A u \in Threads : Behind(u)
  BY DEF Promise
<1>2. Inductive' /\ Roots' /\ \A u \in Threads : Behind(u)'
  BY <1>1, StepKeeps, RootsStep, BehindStep
<1>3. ASSUME Trusted'
      PROVE  Counted' /\ Answered' /\ \E h : Ranges(h)' /\ Guided(h)' /\ Leading(h)'
  <2>1. faults \subseteq faults'
    BY FaultsGrow
  <2>2. Trusted
    BY <1>3, <2>1 DEF Trusted
  <2>3. Counted /\ Answered
    BY <2>2 DEF Promise
  <2>4. PICK g : Ranges(g) /\ Guided(g) /\ Leading(g)
    BY <2>2 DEF Promise
  <2>5. Searches(t, g) /\ ("tornNext" \notin faults => Gets(t, g))
    BY <2>4 DEF Guided
  <2>6. Counted'
    BY <1>1, <2>3, <2>4, <2>5, CountedStep
  <2>7. Answered'
    BY <1>1, <2>3, <2>5, AnsweredStep
  <2>8. PICK h : Ranges(h)' /\ Narrows(t, g, h)
    BY <1>1, <2>4, <2>5, RangesStep
  <2>9. Guided(h)'
    BY <1>1, <1>3, <2>3, <2>4, <2>8, GuidedStep
  <2>10. Leading(h)'
    BY <1>1, <2>4, <2>8, LeadingStep
  <2> QED
    BY <2>6, <2>7, <2>8, <2>9, <2>10
<1> QED
  BY <1>2, <1>3 DEF Promise

LEMMA PromiseIdle ==
    ASSUME Promise, UNCHANGED vars
    PROVE  Promise'
<1>1. /\ root' = root /\ nodes' = nodes /\ pc' = pc /\ key' = key /\ seen' = seen /\ node' = node
      /\ ver' = ver /\ child' = child /\ cver' = cver /\ sib' = sib /\ par' = par /\ par1' = par1
      /\ up' = up /\ returned' = returned /\ got' = got /\ faults' = faults
  BY DEF vars, call, loc, hist
<1>2. Inductive' /\ Roots' /\ \A t \in Threads : Behind(t)'
  <2>1. Inductive'
    BY IdleKeeps DEF Promise
  <2>2. Roots'
    BY <1>1 DEF Promise, Roots, V, Left, Right
  <2>3. \A t \in Threads : Behind(t)'
    BY <1>1 DEF Promise, Behind, V
  <2> QED
    BY <2>1, <2>2, <2>3
<1>3. ASSUME Trusted'
      PROVE  Counted' /\ Answered' /\ \E h : Ranges(h)' /\ Guided(h)' /\ Leading(h)'
  <2>1. Trusted
    BY <1>1, <1>3 DEF Trusted
  <2>2. Counted'
    <3>1. Done' = Done
      BY <1>1 DEF Done
    <3> QED
      BY <1>1, <2>1, <3>1 DEF Promise, Counted, Stored
  <2>3. Answered'
    BY <1>1, <2>1 DEF Promise, Answered
  <2>4. PICK g : Ranges(g) /\ Guided(g) /\ Leading(g)
    BY <2>1 DEF Promise
  <2>5. Ranges(g)'
    <3>1. \A n \in DOMAIN nodes : Ranged(n, g)'
      BY <1>1, <2>4 DEF Ranges, Ranged, Filled, Chained, Topmost, Divided, Known, Fresh, Filling,
         Unlinked, Left, Right
    <3>2. Disjoint(g)'
      BY <1>1, <2>4 DEF Ranges, Disjoint, Fresh, Before
    <3>3. \A t \in Threads : Born(t, g)' /\ Joined(t, g)' /\ Moving(t, g)'
      BY <1>1, <2>4 DEF Ranges, Born, Joined, Moving, RightKeys, Left, Right, Seps, Shared, ChildIndex
    <3> QED
      BY <1>1, <2>4, <3>1, <3>2, <3>3 DEF Ranges
  <2>6. Guided(g)'
    BY <1>1, <2>4 DEF Guided, Searches, Gets, SameSplit, Unmoved, V, findChild
  <2>7. Leading(g)'
    BY <1>1, <2>4 DEF Leading
  <2> QED
    BY <2>2, <2>3, <2>5, <2>6, <2>7
<1> QED
  BY <1>2, <1>3 DEF Promise

LEMMA PromiseHolds == Spec => []Promise
<1>1. Promise /\ [Next]_vars => Promise'
  BY NextIsStep, PromiseStep, PromiseIdle
<1> QED
  BY <1>1, PromiseStarts, PTL DEF Spec

\* As long as no insert has gone to a border node that a split has moved its
\* key out of, the tree is a search tree at every moment, also while threads
\* are half-way through splits of several levels: there are ranges that the
\* separators divide and the next pointers join, every key lies in the range
\* of its node, and every search is at a node whose range its key is in, or
\* will find that the node has been split since.
THEOREM SearchesAreGuided == Spec => [](Trusted => \E g : Ranges(g) /\ Guided(g))
<1>1. Promise => (Trusted => \E g : Ranges(g) /\ Guided(g))
  BY DEF Promise
<1> QED
  BY <1>1, PromiseHolds, PTL

\* Of several calls of insert_value with a key at most one returns OK, whatever the
\* number of threads, the keys and the splits, under the same condition
\* (InsertedOnce).
THEOREM KeysInsertedOnce == Spec => []InsertedOnce
<1>1. Promise => InsertedOnce
  <2> SUFFICES ASSUME Promise, faults \cap {"missedSplit", "staleDescent"} = {}, NEW k \in Keys
               PROVE  returned[k] <= 1
    BY DEF InsertedOnce
  <2>1. Counted /\ returned[k] \in Nat
    BY DEF Promise, Trusted, Inductive, Typed
  <2>2. CASE k \in Done
    BY <2>1, <2>2 DEF Counted
  <2>3. CASE k \notin Done
    BY <2>1, <2>3 DEF Done
  <2> QED
    BY <2>2, <2>3
<1> QED
  BY <1>1, PromiseHolds, PTL

\* get_value returns null only if no insert of the key had returned before the
\* call began, unless one of the four races has been lost (GetsSee).
THEOREM GetsSeeInserts == Spec => []GetsSee
<1>1. Promise => GetsSee
  <2> SUFFICES ASSUME Promise,
                      faults \cap {"missedSplit", "staleDescent", "unseenSplit", "tornNext"} = {},
                      NEW t \in Workers, got[t] = "null"
               PROVE  key[t] \notin seen[t]
    BY DEF GetsSee
  <2>1. Answered
    BY DEF Promise, Trusted
  <2> QED
    BY <2>1 DEF Answered, Threads
<1> QED
  BY <1>1, PromiseHolds, PTL

\* A key whose insert has returned is found by whoever searches for it without
\* being disturbed, whatever splits of any number of levels are under way and
\* however old the root is that the search begins at (InsertsStay).
THEOREM InsertedKeysStay == Spec => []InsertsStay
<1>1. Promise /\ Balanced => InsertsStay
  <2> SUFFICES ASSUME Promise, Balanced, faults \cap {"missedSplit", "staleDescent"} = {},
                      \A n \in DOMAIN nodes : ~nodes[n].torn
               PROVE  \A k \in Done : k \in nodes[Lookup(k)].slots
    BY DEF InsertsStay
  <2>1. Inductive /\ Roots /\ Trusted /\ Whole
    BY DEF Promise, Trusted, Whole
  <2>2. Counted /\ \E g : Ranges(g) /\ Guided(g) /\ Leading(g)
    BY <2>1 DEF Promise
  <2>3. PICK g : Ranges(g) /\ Leading(g)
    BY <2>2
  <2> QED
    BY <2>1, <2>2, <2>3, KeysStay
<1> QED
  BY <1>1, PromiseHolds, TreeIsBalanced, PTL
=============================================================================
