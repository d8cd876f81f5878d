------------------------------ MODULE Masstree ------------------------------
(***************************************************************************)
(* Layer 0 of the Masstree index (Enclave/masstree): concurrent            *)
(* insert_value and get_value on a tree of border and interior nodes.      *)
(* enclaveSilo's keys are one slice of 8 bytes, so no key has a suffix and *)
(* no border node a link to a lower layer; remove_value has no caller, so  *)
(* no node is deleted.                                                     *)
(*                                                                         *)
(* A border node is the set of its keys: its permutation publishes them in *)
(* one store.  A node whose arrays a writer is moving is "torn": a reader  *)
(* may find in it what the moving has left so far.  Writers only change a  *)
(* node they have locked; readers take no lock and compare versions.       *)
(***************************************************************************)
EXTENDS Naturals, FiniteSets, SequencesExt

CONSTANTS
    ORDER,      \* children of an interior node; keys of a border node, plus 1
    Keys,
    Workers,    \* threads that call the index once ecall_initDB has loaded it
    Plans,      \* what may be asked: for each thread, its calls in order
    NULL

main    == 0
Threads == Workers \cup {main}
Calls   == {"insert", "get"} \X Keys

ASSUME MasstreeAssumption ==
    /\ ORDER \in Nat /\ ORDER >= 3
    /\ Keys \subseteq Nat \ {0}
    /\ Workers \subseteq Nat \ {main}
    /\ Plans \subseteq [Threads -> Seq(Calls)]
    /\ NULL \notin Nat

VARIABLES
    root,           \* Masstree::root
    nodes,          \* the nodes allocated, in order
    pc,
    op, key,        \* the call a thread is in
    top,            \* old_root of insert_value
    cur,            \* root of findBorder, which climbs to the parent
    node, ver,      \* the node a thread is at, and the version it read there
    child, cver,    \* the same for next_node of findBorder
    sib, par, par1, up, \* node1, parent, parent1 and the separator of split()
    todo,           \* the calls a thread has still to make
    returned,       \* history: keys whose insert has returned OK, with multiplicity
    seen,           \* history: those of them from before the call began
    got,            \* what the last call returned
    faults          \* history: which races have been lost

loc  == <<top, cur, node, ver, child, cver, sib, par, par1, up>>
call == <<op, key, todo, seen>>
hist == <<returned, got, faults>>
vars == <<root, nodes, pc, call, loc, hist>>

\* v_insert (16 bits) and v_split (8 bits) are taken to be wide enough: a thread
\* that holds a version while a counter wraps is left out.
Version == [locked : BOOLEAN, inserting : BOOLEAN, splitting : BOOLEAN, is_root : BOOLEAN,
            v_insert : Nat, v_split : Nat]

NewVersion == [locked |-> FALSE, inserting |-> FALSE, splitting |-> FALSE, is_root |-> FALSE,
               v_insert |-> 0, v_split |-> 0]

Border(v, S) == [border |-> TRUE, version |-> v, slots |-> S, next |-> NULL,
                 parent |-> NULL, seps |-> <<>>, children |-> <<>>, torn |-> FALSE]

Interior(v, s, c) == [border |-> FALSE, version |-> v, slots |-> {}, next |-> NULL,
                      parent |-> NULL, seps |-> s, children |-> c, torn |-> FALSE]

V(n) == nodes[n].version

\* Version::operator^ compares "body", 32 bits.  v_insert cannot straddle its
\* 16-bit unit and takes bits 16 to 31, so v_split lies above the body.
Same(v, w) == [v EXCEPT !.v_split = 0] = [w EXCEPT !.v_split = 0]

Stable(v) == ~v.inserting /\ ~v.splitting

SetVersion(ns, n, v) == [ns EXCEPT ![n].version = v]

LockNode(ns, n) == [ns EXCEPT ![n].version.locked = TRUE]

\* Node::unlock counts what the holder did.
UnlockNode(ns, n) ==
    LET v == ns[n].version IN
    SetVersion(ns, n, [v EXCEPT !.v_insert  = IF v.inserting THEN @ + 1 ELSE @,
                                !.v_split   = IF ~v.inserting /\ v.splitting THEN @ + 1 ELSE @,
                                !.locked    = FALSE,
                                !.inserting = FALSE,
                                !.splitting = FALSE])

Goto(t, l) == pc' = [pc EXCEPT ![t] = l]

Init ==
    /\ root = NULL
    /\ nodes = <<>>
    /\ pc = [t \in Threads |-> "idle"]
    /\ op = [t \in Threads |-> "insert"]
    /\ key = [t \in Threads |-> 0]
    /\ top = [t \in Threads |-> NULL] /\ cur = top /\ node = top /\ child = top
    /\ sib = top /\ par = top /\ par1 = top
    /\ ver = [t \in Threads |-> NewVersion] /\ cver = ver
    /\ up = [t \in Threads |-> 0]
    /\ todo \in Plans
    /\ returned = [k \in Keys |-> 0]
    /\ seen = [t \in Threads |-> {}]
    /\ got = [t \in Threads |-> "none"]
    /\ faults = {}

Done == {k \in Keys : returned[k] > 0}
-----------------------------------------------------------------------------
(* Calls.                                                                  *)

\* ecall_initDB inserts on the main thread before the workers run.
Loaded == pc[main] = "idle" /\ todo[main] = <<>>

Call(t) ==
    /\ pc[t] = "idle" /\ todo[t] # <<>>
    /\ t # main => Loaded
    /\ op' = [op EXCEPT ![t] = Head(todo[t])[1]]
    /\ key' = [key EXCEPT ![t] = Head(todo[t])[2]]
    /\ todo' = [todo EXCEPT ![t] = Tail(@)]
    /\ seen' = [seen EXCEPT ![t] = Done]
    /\ got' = [got EXCEPT ![t] = "none"]
    /\ Goto(t, "loadRoot")
    /\ UNCHANGED <<root, nodes, loc, returned, faults>>

Return(t, result) ==
    /\ got' = [got EXCEPT ![t] = result]
    /\ returned' = IF result = "OK" THEN [returned EXCEPT ![key[t]] = @ + 1] ELSE returned
    /\ Goto(t, "idle")

LoadRoot(t) ==
    /\ pc[t] = "loadRoot"
    /\ top' = [top EXCEPT ![t] = root]
    /\ cur' = [cur EXCEPT ![t] = root]
    /\ IF root # NULL
       THEN Goto(t, "findRoot") /\ UNCHANGED <<returned, got>>
       ELSE IF op[t] = "get" THEN Return(t, "null")
            ELSE Goto(t, "casRoot") /\ UNCHANGED <<returned, got>>
    /\ UNCHANGED <<root, nodes, call, node, ver, child, cver, sib, par, par1, up, faults>>

\* start_new_tree, and the compare-and-swap of insert_value.  The thread that
\* loses it calls setDeleted on a node it has not locked, which asserts.
CasRoot(t) ==
    /\ pc[t] = "casRoot"
    /\ IF root = NULL
       THEN /\ nodes' = Append(nodes, Border([NewVersion EXCEPT !.is_root = TRUE], {key[t]}))
            /\ root' = Len(nodes')
            /\ Return(t, "OK")
            /\ UNCHANGED faults
       ELSE /\ Goto(t, "crashed")
            /\ faults' = faults \cup {"lostRoot"}
            /\ UNCHANGED <<root, nodes, returned, got>>
    /\ UNCHANGED <<call, loc>>
-----------------------------------------------------------------------------
(* findBorder.                                                              *)

FindRoot(t) ==
    /\ pc[t] = "findRoot"
    /\ Stable(V(cur[t]))
    /\ IF V(cur[t]).is_root
       THEN /\ node' = [node EXCEPT ![t] = cur[t]]
            /\ ver' = [ver EXCEPT ![t] = V(cur[t])]
            /\ Goto(t, "descend")
            /\ UNCHANGED cur
       ELSE /\ cur' = [cur EXCEPT ![t] = nodes[@].parent]
            /\ UNCHANGED <<node, ver, pc>>
    /\ UNCHANGED <<root, nodes, call, top, child, cver, sib, par, par1, up, hist>>

\* The child that covers k: the one before the first separator above k.
findChild(n, k) ==
    LET s == nodes[n].seps IN nodes[n].children[Cardinality({i \in DOMAIN s : s[i] <= k}) + 1]

\* The new siblings that are on their way into interior node n.
Arriving(n) == {sib[t] : t \in {u \in Threads : pc[u] \in {"intoParent", "fillParent"} /\ par[u] = n}}

\* A split empties the arrays before it fills them; an insertion shifts them.
\* In both the new child may already be there.
Children(n, k) ==
    LET C == ToSet(nodes[n].children) \cup Arriving(n) IN
    CASE nodes[n].torn /\ V(n).splitting -> C \cup {NULL}
      [] nodes[n].torn /\ ~V(n).splitting -> C
      [] OTHER -> {findChild(n, k)}

AtBorder(t) ==
    /\ pc[t] = "descend"
    /\ nodes[node[t]].border
    /\ Goto(t, IF op[t] = "insert" THEN "lock" ELSE "search")
    /\ UNCHANGED <<root, nodes, call, loc, hist>>

\* A null child is dereferenced before it is tested.
Descend(t) ==
    /\ pc[t] = "descend"
    /\ ~nodes[node[t]].border
    /\ \E c \in Children(node[t], key[t]) :
         /\ child' = [child EXCEPT ![t] = c]
         /\ Goto(t, IF c = NULL THEN "crashed" ELSE "childVersion")
         /\ faults' = IF c = NULL THEN faults \cup {"nullChild"} ELSE faults
    /\ UNCHANGED <<root, nodes, call, top, cur, node, ver, cver, sib, par, par1, up, returned, got>>

ChildVersion(t) ==
    /\ pc[t] = "childVersion"
    /\ Stable(V(child[t]))
    /\ cver' = [cver EXCEPT ![t] = V(child[t])]
    /\ Goto(t, "check")
    /\ UNCHANGED <<root, nodes, call, top, cur, node, ver, child, sib, par, par1, up, hist>>

Changed(t) == [V(node[t]) EXCEPT !.locked = FALSE] # [ver[t] EXCEPT !.locked = FALSE]

\* The version compared is next_node's, not node's: "faults" remembers a
\* descent from a node that has changed since its version was read.
Check(t) ==
    /\ pc[t] = "check"
    /\ IF Same(V(child[t]), cver[t])
       THEN /\ node' = [node EXCEPT ![t] = child[t]]
            /\ ver' = [ver EXCEPT ![t] = cver[t]]
            /\ faults' = IF Changed(t) THEN faults \cup {"staleDescent"} ELSE faults
            /\ Goto(t, "descend")
       ELSE Goto(t, "revalidate") /\ UNCHANGED <<node, ver, faults>>
    /\ UNCHANGED <<root, nodes, call, top, cur, child, cver, sib, par, par1, up, returned, got>>

Revalidate(t) ==
    /\ pc[t] = "revalidate"
    /\ Stable(V(node[t]))
    /\ IF V(node[t]).v_split # ver[t].v_split
       THEN Goto(t, "findRoot") /\ UNCHANGED ver
       ELSE Goto(t, "descend") /\ ver' = [ver EXCEPT ![t] = V(node[t])]
    /\ UNCHANGED <<root, nodes, call, top, cur, node, child, cver, sib, par, par1, up, hist>>

findBorder(t) == FindRoot(t) \/ AtBorder(t) \/ Descend(t) \/ ChildVersion(t) \/ Check(t)
                 \/ Revalidate(t)
-----------------------------------------------------------------------------
(* masstree_insert, under the border node's lock.                           *)

\* Mutant: the lock is not waited for.
LockBorder_NoWait(t) ==
    /\ pc[t] = "lock"
    /\ nodes' = LockNode(nodes, node[t])
    /\ ver' = [ver EXCEPT ![t] = V(node[t])]
    /\ faults' = IF V(node[t]).v_split # ver[t].v_split THEN faults \cup {"missedSplit"}
                 ELSE faults
    /\ Goto(t, "locked")
    /\ UNCHANGED <<root, call, top, cur, node, child, cver, sib, par, par1, up, returned, got>>

\* The version is read again under the lock, and the test for a split compares
\* it with itself: "faults" remembers a split since findBorder.
LockBorder(t) ==
    /\ pc[t] = "lock"
    /\ ~V(node[t]).locked
    /\ nodes' = LockNode(nodes, node[t])
    /\ ver' = [ver EXCEPT ![t] = V(node[t])]
    /\ faults' = IF V(node[t]).v_split # ver[t].v_split THEN faults \cup {"missedSplit"}
                 ELSE faults
    /\ Goto(t, "locked")
    /\ UNCHANGED <<root, call, top, cur, node, child, cver, sib, par, par1, up, returned, got>>

AlreadyExists(t) ==
    /\ pc[t] = "locked"
    /\ key[t] \in nodes[node[t]].slots
    /\ nodes' = UnlockNode(nodes, node[t])
    /\ Return(t, "WARN_ALREADY_EXISTS")
    /\ UNCHANGED <<root, call, loc, faults>>

isFull(n) == Cardinality(nodes[n].slots) = ORDER - 1

\* Mutant: a key is added to a border node that is there already.
InsertToBorder_Full(t) ==
    /\ pc[t] = "locked"
    /\ key[t] \notin nodes[node[t]].slots
    /\ nodes' = [nodes EXCEPT ![node[t]].slots = @ \cup {key[t]}]
    /\ Goto(t, "unlock")
    /\ UNCHANGED <<root, call, loc, hist>>

InsertToBorder(t) ==
    /\ pc[t] = "locked"
    /\ key[t] \notin nodes[node[t]].slots
    /\ ~isFull(node[t])
    /\ nodes' = [nodes EXCEPT ![node[t]].slots = @ \cup {key[t]}]
    /\ Goto(t, "unlock")
    /\ UNCHANGED <<root, call, loc, hist>>

\* The slot was not in use, so nothing has marked the node as inserting and
\* its version comes out as it went in.
Unlock(t) ==
    /\ pc[t] = "unlock"
    /\ nodes' = UnlockNode(nodes, node[t])
    /\ Return(t, "OK")
    /\ UNCHANGED <<root, call, loc, faults>>

\* split(): node1 starts with node's version, locked and splitting.
Split(t) ==
    /\ pc[t] = "locked"
    /\ key[t] \notin nodes[node[t]].slots
    /\ isFull(node[t])
    /\ LET v == [V(node[t]) EXCEPT !.splitting = TRUE]
       IN  nodes' = Append([nodes EXCEPT ![node[t]].version = v, ![node[t]].torn = TRUE],
                           Border(v, {}))
    /\ sib' = [sib EXCEPT ![t] = Len(nodes')]
    /\ Goto(t, "splitKeys")
    /\ UNCHANGED <<root, call, top, cur, node, ver, child, cver, par, par1, up, hist>>

\* split_point: the new key ends the left node, unless it is above all others.
LeftOf(S, k) == IF \E x \in S : x > k THEN {x \in S : x < k} \cup {k} ELSE S

\* Mutant: the new sibling is not linked.
SplitKeys_NoNext(t) ==
    /\ pc[t] = "splitKeys"
    /\ LET S     == nodes[node[t]].slots
           left  == LeftOf(S, key[t])
           right == (S \cup {key[t]}) \ left
       IN  /\ nodes' = [nodes EXCEPT ![node[t]].slots = left, ![node[t]].torn = FALSE,
                                     ![sib[t]].slots = right]
           /\ up' = [up EXCEPT ![t] = Min(right)]
    /\ Goto(t, "ascend")
    /\ UNCHANGED <<root, call, top, cur, node, ver, child, cver, sib, par, par1, hist>>

\* split_keys_among for border nodes.
SplitKeys(t) ==
    /\ pc[t] = "splitKeys"
    /\ LET S     == nodes[node[t]].slots
           left  == LeftOf(S, key[t])
           right == (S \cup {key[t]}) \ left
       IN  /\ nodes' = [nodes EXCEPT ![node[t]].slots = left,
                                     ![node[t]].torn = FALSE,
                                     ![node[t]].next = sib[t],
                                     ![sib[t]].slots = right,
                                     ![sib[t]].next = nodes[node[t]].next]
           /\ up' = [up EXCEPT ![t] = Min(right)]
    /\ Goto(t, "ascend")
    /\ UNCHANGED <<root, call, top, cur, node, ver, child, cver, sib, par, par1, hist>>

\* create_root_with_children: node was the root.
NewRoot(t) ==
    /\ pc[t] = "ascend"
    /\ nodes[node[t]].parent = NULL
    /\ LET r == Len(nodes) + 1 IN
         /\ nodes' = Append(
               [nodes EXCEPT ![node[t]].parent = r, ![node[t]].version.is_root = FALSE,
                             ![sib[t]].parent = r,  ![sib[t]].version.is_root = FALSE],
               Interior([NewVersion EXCEPT !.is_root = TRUE], <<up[t]>>, <<node[t], sib[t]>>))
         /\ par' = [par EXCEPT ![t] = r]
    /\ Goto(t, "leaveRoot")
    /\ UNCHANGED <<root, call, top, cur, node, ver, child, cver, sib, par1, up, hist>>

LeaveRoot(t) ==
    /\ pc[t] = "leaveRoot"
    /\ nodes' = UnlockNode(nodes, node[t])
    /\ Goto(t, "leaveSibling")
    /\ UNCHANGED <<root, call, loc, hist>>

LeaveSibling(t) ==
    /\ pc[t] = "leaveSibling"
    /\ nodes' = UnlockNode(nodes, sib[t])
    /\ Goto(t, "storeRoot")
    /\ UNCHANGED <<root, call, loc, hist>>

\* insert_value stores the root it was given, whatever root holds by now.
StoreRoot(t) ==
    /\ pc[t] = "storeRoot"
    /\ root' = par[t]
    /\ Return(t, "OK")
    /\ UNCHANGED <<nodes, call, loc, faults>>

\* lockedParent: the parent, locked, while it is the parent.
LockParent(t) ==
    /\ pc[t] = "ascend"
    /\ LET p == nodes[node[t]].parent IN
         /\ p # NULL
         /\ ~V(p).locked
         /\ nodes' = LockNode(nodes, p)
         /\ par' = [par EXCEPT ![t] = p]
         /\ Goto(t, IF Len(nodes[p].seps) < ORDER - 1 THEN "shiftParent" ELSE "splitParent")
    /\ UNCHANGED <<root, call, top, cur, node, ver, child, cver, sib, par1, up, hist>>

\* Mutant: the parent is not marked.
ShiftParent_Unmarked(t) ==
    /\ pc[t] = "shiftParent"
    /\ nodes' = [nodes EXCEPT ![par[t]].torn = TRUE]
    /\ Goto(t, "intoParent")
    /\ UNCHANGED <<root, call, loc, hist>>

\* setInserting, and the shifting of insert_into_parent begins.
ShiftParent(t) ==
    /\ pc[t] = "shiftParent"
    /\ nodes' = [nodes EXCEPT ![par[t]].version.inserting = TRUE, ![par[t]].torn = TRUE]
    /\ Goto(t, "intoParent")
    /\ UNCHANGED <<root, call, loc, hist>>

\* findChildIndex, counted from 1.
ChildIndex(n, c) == CHOOSE i \in DOMAIN nodes[n].children : nodes[n].children[i] = c

\* Mutant: the new child goes before the node it was split from.
IntoParent_Before(t) ==
    /\ pc[t] = "intoParent"
    /\ LET p == par[t]
           i == ChildIndex(p, node[t])
       IN  nodes' = [nodes EXCEPT ![p].torn = FALSE,
                                  ![p].seps = InsertAt(@, i, up[t]),
                                  ![p].children = InsertAt(@, i, sib[t]),
                                  ![sib[t]].parent = p]
    /\ Goto(t, "leaveNode")
    /\ UNCHANGED <<root, call, loc, hist>>

\* insert_into_parent, once it has made room.
IntoParent(t) ==
    /\ pc[t] = "intoParent"
    /\ LET p == par[t]
           i == ChildIndex(p, node[t])
       IN  nodes' = [nodes EXCEPT ![p].torn = FALSE,
                                  ![p].seps = InsertAt(@, i, up[t]),
                                  ![p].children = InsertAt(@, i + 1, sib[t]),
                                  ![sib[t]].parent = p]
    /\ Goto(t, "leaveNode")
    /\ UNCHANGED <<root, call, loc, hist>>

LeaveNode(t) ==
    /\ pc[t] = "leaveNode"
    /\ nodes' = UnlockNode(nodes, node[t])
    /\ Goto(t, "leaveNode1")
    /\ UNCHANGED <<root, call, loc, hist>>

LeaveNode1(t) ==
    /\ pc[t] = "leaveNode1"
    /\ nodes' = UnlockNode(nodes, sib[t])
    /\ Goto(t, "leaveParent")
    /\ UNCHANGED <<root, call, loc, hist>>

LeaveParent(t) ==
    /\ pc[t] = "leaveParent"
    /\ nodes' = UnlockNode(nodes, par[t])
    /\ Return(t, "OK")
    /\ UNCHANGED <<root, call, loc, faults>>

SplitParent(t) ==
    /\ pc[t] = "splitParent"
    /\ nodes' = [nodes EXCEPT ![par[t]].version.splitting = TRUE]
    /\ Goto(t, "tearParent")
    /\ UNCHANGED <<root, call, loc, hist>>

\* node is unlocked before split_keys_among empties the parent.
TearParent(t) ==
    /\ pc[t] = "tearParent"
    /\ nodes' = [UnlockNode(nodes, node[t]) EXCEPT ![par[t]].torn = TRUE]
    /\ Goto(t, "fillParent")
    /\ UNCHANGED <<root, call, loc, hist>>

\* split_keys_among for interior nodes: the middle separator goes up.
FillParent(t) ==
    /\ pc[t] = "fillParent"
    /\ LET p     == par[t]
           q     == Len(nodes) + 1
           i     == ChildIndex(p, node[t])
           seps  == InsertAt(nodes[p].seps, i, up[t])
           kids  == InsertAt(nodes[p].children, i + 1, sib[t])
           split == (ORDER + 1) \div 2
           moved == {kids[j] : j \in split + 1 .. ORDER + 1}
           kept  == {kids[j] : j \in 1 .. split}
           Placed(n) == [nodes[n] EXCEPT !.parent = IF n \in moved THEN q
                                                    ELSE IF n \in kept THEN p ELSE @]
       IN  /\ par1' = [par1 EXCEPT ![t] = q]
           /\ nodes' = Append([[n \in DOMAIN nodes |-> Placed(n)] EXCEPT
                                  ![p].seps = SubSeq(seps, 1, split - 1),
                                  ![p].children = SubSeq(kids, 1, split),
                                  ![p].torn = FALSE],
                              Interior(V(p), SubSeq(seps, split + 1, ORDER),
                                             SubSeq(kids, split + 1, ORDER + 1)))
           /\ up' = [up EXCEPT ![t] = seps[split]]
    /\ Goto(t, "ascendParent")
    /\ UNCHANGED <<root, call, top, cur, node, ver, child, cver, sib, par, hist>>

AscendParent(t) ==
    /\ pc[t] = "ascendParent"
    /\ nodes' = UnlockNode(nodes, sib[t])
    /\ node' = [node EXCEPT ![t] = par[t]]
    /\ sib' = [sib EXCEPT ![t] = par1[t]]
    /\ Goto(t, "ascend")
    /\ UNCHANGED <<root, call, top, cur, ver, child, cver, par, par1, up, hist>>

masstree_insert(t) ==
    \/ LockBorder(t) \/ AlreadyExists(t) \/ InsertToBorder(t) \/ Unlock(t)
    \/ Split(t) \/ SplitKeys(t)
    \/ NewRoot(t) \/ LeaveRoot(t) \/ LeaveSibling(t) \/ StoreRoot(t)
    \/ LockParent(t) \/ ShiftParent(t) \/ IntoParent(t) \/ LeaveNode(t) \/ LeaveNode1(t) \/ LeaveParent(t)
    \/ SplitParent(t) \/ TearParent(t) \/ FillParent(t) \/ AscendParent(t)
-----------------------------------------------------------------------------
(* masstree_get, without locks.                                             *)

\* The new keys that are on their way into border node n, which is being split.
Entering(n) == {key[t] : t \in {u \in Threads : pc[u] = "splitKeys" /\ node[u] = n}}

\* In a node that is being rewritten a key may be seen or not.  Verify discards
\* the answer if the split still goes on, but not if it has ended meanwhile.
Search(t) ==
    /\ pc[t] = "search"
    /\ LET n == node[t] IN
         \/ key[t] \in nodes[n].slots \cup Entering(n) /\ Goto(t, "found")
         \/ (nodes[n].torn \/ key[t] \notin nodes[n].slots) /\ Goto(t, "notFound")
    /\ UNCHANGED <<root, nodes, call, loc, hist>>

\* Mutant: the version is not compared after the search.
Verify_Never(t) ==
    /\ pc[t] \in {"found", "notFound"}
    /\ Return(t, IF pc[t] = "found" THEN "value" ELSE "null")
    /\ UNCHANGED <<root, nodes, call, loc, faults>>

\* "faults" remembers a search of a node that has been split meanwhile.
Verify(t) ==
    /\ pc[t] \in {"found", "notFound"}
    /\ IF Same(V(node[t]), ver[t])
       THEN /\ Return(t, IF pc[t] = "found" THEN "value" ELSE "null")
            /\ faults' = IF V(node[t]) # ver[t] THEN faults \cup {"unseenSplit"} ELSE faults
       ELSE Goto(t, "forward") /\ UNCHANGED <<returned, got, faults>>
    /\ UNCHANGED <<root, nodes, call, loc>>

\* Mutant: the version is not read again.
Forward_Stale(t) ==
    /\ pc[t] = "forward"
    /\ Stable(V(node[t]))
    /\ Goto(t, "walk")
    /\ UNCHANGED <<root, nodes, call, loc, hist>>

Forward(t) ==
    /\ pc[t] = "forward"
    /\ Stable(V(node[t]))
    /\ ver' = [ver EXCEPT ![t] = V(node[t])]
    /\ Goto(t, "walk")
    /\ UNCHANGED <<root, nodes, call, top, cur, node, child, cver, sib, par, par1, up, hist>>

\* lowestKey(): any of the keys, or 0, of a node that is being rewritten.
LowestKeys(n) ==
    IF nodes[n].torn THEN nodes[n].slots \cup Entering(n) \cup {0} ELSE {Min(nodes[n].slots)}

\* To the right as long as the next node's lowest key is not above the key:
\* "faults" remembers a lowest key read while that node was being split.
Walk(t) ==
    /\ pc[t] = "walk"
    /\ LET n == nodes[node[t]].next IN
         \/ /\ n = NULL
            /\ Goto(t, "search")
            /\ UNCHANGED <<node, faults>>
         \/ /\ n # NULL
            /\ faults' = IF nodes[n].torn THEN faults \cup {"tornNext"} ELSE faults
            /\ \E low \in LowestKeys(n) :
                 IF key[t] >= low
                 THEN node' = [node EXCEPT ![t] = n] /\ Goto(t, "forward")
                 ELSE Goto(t, "search") /\ UNCHANGED node
    /\ UNCHANGED <<root, nodes, call, top, cur, ver, child, cver, sib, par, par1, up,
                   returned, got>>

masstree_get(t) == Search(t) \/ Verify(t) \/ Forward(t) \/ Walk(t)
-----------------------------------------------------------------------------
Crashed == \E t \in Threads : pc[t] = "crashed"

Thread(t) ==
    ~Crashed /\ (LoadRoot(t) \/ CasRoot(t) \/ findBorder(t) \/ masstree_insert(t) \/ masstree_get(t))

Finished ==
    /\ \/ Crashed
       \/ \A t \in Threads : pc[t] = "idle" /\ todo[t] = <<>>
    /\ UNCHANGED vars

Next == \/ \E t \in Threads : ~Crashed /\ Call(t)
        \/ \E t \in Threads : Thread(t)
        \/ Finished

Spec == Init /\ [][Next]_vars

\* The operating system runs every thread again and again.
FairSpec == Spec /\ \A t \in Threads : WF_vars(Thread(t))
-----------------------------------------------------------------------------
(* Properties.                                                              *)

PCs == {"idle", "loadRoot", "casRoot", "crashed", "findRoot", "descend", "childVersion",
        "check", "revalidate", "lock", "locked", "unlock", "splitKeys", "ascend", "leaveRoot",
        "leaveSibling", "storeRoot", "shiftParent", "intoParent", "leaveNode", "leaveNode1",
        "leaveParent", "splitParent", "tearParent", "fillParent", "ascendParent", "search",
        "found", "notFound", "forward", "walk"}

Faults == {"lostRoot", "nullChild", "staleDescent", "missedSplit", "unseenSplit", "tornNext"}

\* The shape of a node: a border node holds at most ORDER - 1 keys, an interior
\* node one child more than separators, at most ORDER, all of them nodes.
NodeOK(x) ==
    /\ x.version \in Version
    /\ x.slots \subseteq Keys /\ Cardinality(x.slots) < ORDER
    /\ {x.next, x.parent} \subseteq DOMAIN nodes \cup {NULL}
    /\ x.seps \in Seq(Keys)
    /\ x.children \in Seq(DOMAIN nodes)
    /\ IF x.border THEN x.children = <<>>
       ELSE Len(x.children) = Len(x.seps) + 1 /\ Len(x.children) <= ORDER

\* Types; and of every node the shape, which the code asserts in places.
TypeOK ==
    /\ \A n \in DOMAIN nodes : NodeOK(nodes[n])
    /\ root \in DOMAIN nodes \cup {NULL}
    /\ \A t \in Threads : {top[t], cur[t], node[t], child[t], sib[t], par[t], par1[t]}
                             \subseteq DOMAIN nodes \cup {NULL}
    /\ \A t \in Threads : ver[t] \in Version /\ cver[t] \in Version
    /\ pc \in [Threads -> PCs]
    /\ up \in [Threads -> Keys \cup {0}]
    /\ faults \subseteq Faults

\* The nodes whose locks t holds.
Held(t) ==
    CASE pc[t] \in {"locked", "unlock"} -> {node[t]}
      [] pc[t] \in {"splitKeys", "ascend", "leaveRoot"} -> {node[t], sib[t]}
      [] pc[t] = "leaveSibling" -> {sib[t]}
      [] pc[t] \in {"shiftParent", "intoParent", "leaveNode", "splitParent", "tearParent"} ->
           {node[t], sib[t], par[t]}
      [] pc[t] \in {"leaveNode1", "fillParent"} -> {sib[t], par[t]}
      [] pc[t] = "ascendParent" -> {sib[t], par[t], par1[t]}
      [] pc[t] = "leaveParent" -> {par[t]}
      [] OTHER -> {}

\* A node's lock has one holder, and a lock that is set has a holder: through
\* the hand-overs of split(), which unlocks a node before its parent is done
\* and climbs with a new pair of nodes, no lock is cleared by another thread
\* and none is left behind.
LocksHeld ==
    /\ \A t \in Threads : \A n \in Held(t) : V(n).locked
    /\ \A t, u \in Threads : t # u => Held(t) \cap Held(u) = {}
    /\ \A n \in DOMAIN nodes : V(n).locked => \E t \in Threads : n \in Held(t)

\* A node whose arrays are being moved is marked as splitting or inserting, or
\* stableVersion would let a reader into it, and a marked node has a holder
\* that will clear the marks, or stableVersion would wait for ever.
TornIsMarked ==
    \A n \in DOMAIN nodes :
        /\ nodes[n].torn => ~Stable(V(n))
        /\ ~Stable(V(n)) => V(n).locked

\* Where a search without interference ends: up to the root, down by the
\* separators, and right while the next node's lowest key allows.  (A node that
\* is neither root nor child is a new sibling; no search begins there.)
Lookup(k) ==
    LET right[n \in {m \in DOMAIN nodes : nodes[m].border}] ==
          LET m == nodes[n].next
          IN  IF m # NULL /\ k >= Min(nodes[m].slots) THEN right[m] ELSE n
        down[n \in DOMAIN nodes] == IF nodes[n].border THEN right[n] ELSE down[findChild(n, k)]
        climb[n \in DOMAIN nodes] ==
          IF V(n).is_root \/ nodes[n].parent = NULL THEN down[n] ELSE climb[nodes[n].parent]
    IN  climb[root]

\* As long as no insert has gone to a border node that a split has moved its
\* key out of, the key of every insert that has returned stays where a search
\* ends, also while other threads are half-way through their splits.
InsertsStay ==
    /\ faults \cap {"missedSplit", "staleDescent"} = {}
    /\ \A n \in DOMAIN nodes : ~nodes[n].torn
    => \A k \in Done : k \in nodes[Lookup(k)].slots

\* Of several inserts of a key one returns OK and the others
\* WARN_ALREADY_EXISTS, under the same condition.
InsertedOnce ==
    faults \cap {"missedSplit", "staleDescent"} = {} => \A k \in Keys : returned[k] <= 1

\* A get that returns null began before any insert of its key had returned,
\* unless one of the races named here has been lost.
GetsSee ==
    faults \cap {"missedSplit", "staleDescent", "unseenSplit", "tornNext"} = {} =>
        \A t \in Workers : got[t] = "null" => key[t] \notin seen[t]

\* Every call returns.
CallsReturn == \A t \in Threads : pc[t] = "loadRoot" ~> (pc[t] = "idle" \/ Crashed)
-----------------------------------------------------------------------------
(* What comments and assertions of the code say and the code does not do.   *)

\* masstree_version.h:39: XOR with an earlier version tells whether the version
\* has changed.  A get that relies on it does not search a node that is split
\* meanwhile.
ChangesAreSeen == "unseenSplit" \notin faults

\* masstree_insert.cpp:507: a split between findBorder and the lock is noticed.
SplitsAreNoticed == "missedSplit" \notin faults
=============================================================================
