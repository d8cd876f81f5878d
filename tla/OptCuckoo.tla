----------------------------- MODULE OptCuckoo -----------------------------
(***************************************************************************)
(* OptCuckoo (Enclave/optcuckoo/optcuckoo.cpp), the index the engine uses  *)
(* instead of Masstree when INDEX_PATTERN is INDEX_USE_OCH: a cuckoo hash  *)
(* table whose put locks single slots and counts their versions, and whose *)
(* get takes no lock.                                                      *)
(*                                                                         *)
(* One action is one access to shared memory with the local computation    *)
(* after it, except that a test under a lock belongs to the locking, an    *)
(* unlock to the count of the version before it, and one round of          *)
(* add_next_node is one step: a slot that is not null never becomes null   *)
(* again, and what changes while the round reads is caught by the versions *)
(* it has read first, in the same places as a change right after it.       *)
(*                                                                         *)
(* A tag is a function of the key, so a node matches iff its key does.     *)
(* Nodes are never freed.                                                  *)
(***************************************************************************)
EXTENDS Naturals, FiniteSets, SequencesExt

CONSTANTS
    TUPLE_NUM,     \* half of table_size
    SLOTS_NUM,     \* slots of a bucket
    MaxAttempts,   \* how often put calls put_impl; 100000 in the code
    Keys, Vals,
    Workers,       \* threads that use the index once ecall_initDB has loaded it
    Plans,         \* what may be asked: for each thread, its calls in order
    NULL

table_size == 2 * TUPLE_NUM
main       == 0
Threads    == Workers \cup {main}

Put(k, v) == [op |-> "put", key |-> k, val |-> v]
Get(k)    == [op |-> "get", key |-> k, val |-> NULL]
Calls     == {Put(k, v) : k \in Keys, v \in Vals} \cup {Get(k) : k \in Keys}

Nodes == [key : Keys, by : Threads, no : Nat]

ASSUME KeysAssumption == Keys \subseteq Nat

\* n*109 does not overflow an int.
ASSUME KeysFit == \A k \in Keys : k <= 19701684

ASSUME OptCuckooAssumption ==
    /\ TUPLE_NUM \in Nat \ {0} /\ SLOTS_NUM \in Nat \ {0} /\ MaxAttempts \in Nat \ {0}
    /\ Workers \subseteq Nat \ {main}
    /\ Plans \subseteq [Threads -> Seq(Calls)]
    /\ NULL \notin Vals \cup Threads \cup Nodes \cup Calls

VARIABLES
    table,          \* the node each slot points to
    table_locks,    \* who has locked it
    key_versions,
    val,            \* node->data->val of the nodes allocated
    pc,
    todo,           \* the calls a thread has still to make; the first is the one it is in
    loc,            \* its local variables
    stored,         \* history: keys whose put has returned having stored them
    may,            \* history: what a get may answer
    answer,         \* what the last call has answered
    faults          \* history: which races have been lost

shared == <<table, table_locks, key_versions, val>>
hist   == <<stored, may, answer, faults>>
vars   == <<shared, pc, todo, loc, hist>>

h1(n) == n % table_size
h2(n) == (n * 109) % table_size

\* The buckets that some key is hashed to; the others stay empty.
Slots == ({h1(k) : k \in Keys} \cup {h2(k) : k \in Keys}) \X (0 .. SLOTS_NUM - 1)

\* The order in which get and put go through the slots of a key.
Scan == [k \in Keys |-> [i \in 1 .. 2 * SLOTS_NUM |->
           IF i <= SLOTS_NUM THEN <<h1(k), i - 1>> ELSE <<h2(k), i - SLOTS_NUM - 1>>]]

\* The order in which the search queues them.
Queued == [k \in Keys |-> [i \in 1 .. 2 * SLOTS_NUM |->
             <<IF i % 2 = 1 THEN h1(k) ELSE h2(k), (i - 1) \div 2>>]]

Call(t) == Head(todo[t])
Key(t)  == Call(t).key

\* original_node of the put that t is in; a failed put_impl has leaked one like it.
NewNode(t) == [key |-> Key(t), by |-> t, no |-> Len(todo[t])]

Matches(x, k) == x # NULL /\ x.key = k

InTable(k) == \E s \in Slots : Matches(table[s], k)

\* What a get of k finds when nobody interferes.
Shown(k) ==
    LET at == {i \in DOMAIN Scan[k] : Matches(table[Scan[k][i]], k)}
    IN  IF at = {} THEN NULL ELSE val[table[Scan[k][Min(at)]]]

Running(t) == pc[t] # "idle"

Putters(k) == {t \in Threads : Running(t) /\ Call(t).op = "put" /\ Key(t) = k}

\* History: every get of k that is running may also answer x.
MayAnswer(k, x) == [t \in Threads |-> IF Running(t) /\ Call(t) = Get(k) THEN may[t] \cup {x} ELSE may[t]]

Odd(n) == n % 2 = 1

Count(s) == [key_versions EXCEPT ![s] = @ + 1]

Goto(t, l) == pc' = [pc EXCEPT ![t] = l]

\* slot: the one a thread reads or writes; path, hist: the path and the versions
\* it was found with; i: the move it is at; que: the paths still to be tried.
Blank == [n |-> 1, node |-> NULL, ver |-> 0, got |-> NULL, slot |-> NULL, que |-> <<>>,
          path |-> <<>>, hist |-> <<>>, i |-> 0, attempt |-> 0]

Init ==
    /\ table = [s \in Slots |-> NULL]
    /\ table_locks = [s \in Slots |-> NULL]
    /\ key_versions = [s \in Slots |-> 0]
    /\ val = <<>>
    /\ pc = [t \in Threads |-> "idle"]
    /\ todo \in Plans
    /\ loc = [t \in Threads |-> Blank]
    /\ stored = {}
    /\ may = [t \in Threads |-> {}]
    /\ answer = [t \in Threads |-> NULL]
    /\ faults = {}
-----------------------------------------------------------------------------
(* Calls.                                                                   *)

\* ecall_initDB puts on the main thread before the workers run.
Loaded == pc[main] = "idle" /\ todo[main] = <<>>

Begin(t) ==
    /\ ~Running(t) /\ todo[t] # <<>>
    /\ t # main => Loaded

BeginGet(t) ==
    /\ Begin(t) /\ Call(t).op = "get"
    /\ may' = [may EXCEPT ![t] = {Shown(Key(t))} \cup {x \in {NULL} : Putters(Key(t)) # {}}]
    /\ Goto(t, "get")
    /\ UNCHANGED <<shared, todo, loc, stored, answer, faults>>

\* put, and the allocation of put_impl.
BeginPut(t) ==
    /\ Begin(t) /\ Call(t).op = "put"
    /\ val' = [x \in DOMAIN val \cup {NewNode(t)} |->
                 IF x = NewNode(t) THEN Call(t).val ELSE val[x]]
    /\ may' = MayAnswer(Key(t), NULL)
    /\ faults' = faults \cup {f \in {"twins"} : Putters(Key(t)) # {} /\ ~InTable(Key(t))}
    /\ Goto(t, "put")
    /\ UNCHANGED <<table, table_locks, key_versions, todo, loc, stored, answer>>

Return(t, x) ==
    /\ todo' = [todo EXCEPT ![t] = Tail(@)]
    /\ loc' = [loc EXCEPT ![t] = Blank]
    /\ may' = [may EXCEPT ![t] = {}]
    /\ answer' = [answer EXCEPT ![t] = x]
    /\ Goto(t, "idle")

\* The slot t's scan is at.
At(t) == Scan[Key(t)][loc[t].n]
-----------------------------------------------------------------------------
(* get.                                                                     *)

\* The next slot, or, after the last one, "not found": an uninitialized value.
NextSlot(t) ==
    IF loc[t].n < 2 * SLOTS_NUM
    THEN /\ loc' = [loc EXCEPT ![t] = [Blank EXCEPT !.n = loc[t].n + 1]]
         /\ Goto(t, "get")
         /\ UNCHANGED <<todo, may, answer>>
    ELSE Return(t, NULL)

GetNode(t) ==
    /\ pc[t] = "get"
    /\ IF Matches(table[At(t)], Key(t))
       THEN /\ loc' = [loc EXCEPT ![t].node = table[At(t)]]
            /\ Goto(t, "getVersion")
            /\ UNCHANGED <<todo, may, answer>>
       ELSE NextSlot(t)
    /\ UNCHANGED <<shared, stored, faults>>

GetVersion(t) ==
    /\ pc[t] = "getVersion"
    /\ loc' = [loc EXCEPT ![t].ver = key_versions[At(t)]]
    /\ Goto(t, "getVal")
    /\ UNCHANGED <<shared, todo, hist>>

GetVal(t) ==
    /\ pc[t] = "getVal"
    /\ loc' = [loc EXCEPT ![t].got = val[loc[t].node]]
    /\ Goto(t, "getCheck")
    /\ UNCHANGED <<shared, todo, hist>>

\* A slot whose version has changed is passed over, and not read again.
GetCheck(t) ==
    /\ pc[t] = "getCheck"
    /\ IF loc[t].ver # key_versions[At(t)] \/ Odd(loc[t].ver)
       THEN NextSlot(t)
       ELSE Return(t, loc[t].got)
    /\ UNCHANGED <<shared, stored, faults>>
-----------------------------------------------------------------------------
(* put_impl: the scan.                                                      *)

\* Mutant: the search starts from the first bucket only.
First_OneBucket(k) == [i \in 1 .. SLOTS_NUM |-> [path |-> <<Scan[k][i]>>, hist |-> <<>>]]

First(k) == [i \in 1 .. 2 * SLOTS_NUM |-> [path |-> <<Queued[k][i]>>, hist |-> <<>>]]

\* The next slot, or, after the last one, the search for a path.
ScanOn(t) ==
    IF loc[t].n < 2 * SLOTS_NUM
    THEN /\ loc' = [loc EXCEPT ![t] = [Blank EXCEPT !.n = loc[t].n + 1, !.attempt = loc[t].attempt]]
         /\ Goto(t, "put")
    ELSE /\ loc' = [loc EXCEPT ![t] = [Blank EXCEPT !.que = First(Key(t)), !.attempt = loc[t].attempt]]
         /\ Goto(t, "search")

\* A slot that is null, or one that holds the key, is locked next.
PutScan(t) ==
    /\ pc[t] = "put"
    /\ LET x == table[At(t)] IN
         IF x # NULL /\ ~Matches(x, Key(t))
         THEN ScanOn(t)
         ELSE /\ loc' = [loc EXCEPT ![t].node = x, ![t].slot = At(t)]
              /\ Goto(t, IF x = NULL THEN "fill" ELSE "update")
    /\ UNCHANGED <<shared, todo, hist>>

Free(s) == table_locks[s] = NULL

\* t locks s and makes its version odd.
LockAndCount(t, s) ==
    /\ Free(s)
    /\ table_locks' = [table_locks EXCEPT ![s] = t]
    /\ key_versions' = Count(s)

\* Mutant: the slot is not looked at again under its lock.
Fill_NoRecheck(t) ==
    /\ pc[t] = "fill"
    /\ LockAndCount(t, loc[t].slot) /\ Goto(t, "store") /\ UNCHANGED loc
    /\ UNCHANGED <<table, val, todo, hist>>

\* Another put may have filled the slot meanwhile.
Fill(t) ==
    /\ pc[t] = "fill" /\ Free(loc[t].slot)
    /\ IF table[loc[t].slot] # NULL
       THEN ScanOn(t) /\ UNCHANGED <<table_locks, key_versions>>
       ELSE LockAndCount(t, loc[t].slot) /\ Goto(t, "store") /\ UNCHANGED loc
    /\ UNCHANGED <<table, val, todo, hist>>

\* The lock is that of the slot the node was read from, also when the node has
\* been moved from there meanwhile.  The test of the key under it is of the
\* node, whose key never changes.
Update(t) ==
    /\ pc[t] = "update"
    /\ LockAndCount(t, loc[t].slot)
    /\ faults' = faults \cup {f \in {"stray"} : table[loc[t].slot] # loc[t].node}
    /\ Goto(t, "setVal")
    /\ UNCHANGED <<table, val, todo, loc, stored, may, answer>>

SetVal(t) ==
    /\ pc[t] = "setVal"
    /\ val' = [val EXCEPT ![loc[t].node] = Call(t).val]
    /\ may' = MayAnswer(Key(t), Call(t).val)
    /\ Goto(t, "stored")
    /\ UNCHANGED <<table, table_locks, key_versions, todo, loc, stored, answer, faults>>

Store(t) ==
    /\ pc[t] = "store"
    /\ table' = [table EXCEPT ![loc[t].slot] = NewNode(t)]
    /\ may' = MayAnswer(Key(t), Call(t).val)
    /\ Goto(t, "stored")
    /\ UNCHANGED <<table_locks, key_versions, val, todo, loc, stored, answer, faults>>

\* The version is even again, the slot is unlocked, and put returns.
Stored(t) ==
    /\ pc[t] = "stored"
    /\ key_versions' = Count(loc[t].slot)
    /\ table_locks' = [table_locks EXCEPT ![loc[t].slot] = NULL]
    /\ stored' = stored \cup {Key(t)}
    /\ Return(t, NULL)
    /\ UNCHANGED <<table, val, faults>>
-----------------------------------------------------------------------------
(* put_impl: the search for a path to a null slot.                          *)

\* Mutant: the attempts are not counted.
Fail_NoCount(t) ==
    /\ loc' = [loc EXCEPT ![t] = Blank]
    /\ Goto(t, "put")
    /\ UNCHANGED <<todo, may, answer>>

\* Mutant: one attempt too many.
Fail_OneMore(t) ==
    IF loc[t].attempt < MaxAttempts
    THEN /\ loc' = [loc EXCEPT ![t] = [Blank EXCEPT !.attempt = loc[t].attempt + 1]]
         /\ Goto(t, "put")
         /\ UNCHANGED <<todo, may, answer>>
    ELSE Return(t, NULL)

\* put_impl returns false, and put calls it again, or gives up.
Fail(t) ==
    IF loc[t].attempt + 1 < MaxAttempts
    THEN /\ loc' = [loc EXCEPT ![t] = [Blank EXCEPT !.attempt = loc[t].attempt + 1]]
         /\ Goto(t, "put")
         /\ UNCHANGED <<todo, may, answer>>
    ELSE Return(t, NULL)

NoPath(t) ==
    /\ pc[t] = "search" /\ loc[t].que = <<>>
    /\ Fail(t)
    /\ UNCHANGED <<shared, stored, faults>>

\* The slots of k that are not on the path p, in the order they are queued.
Others(k, p) ==
    LET upTo[i \in 0 .. 2 * SLOTS_NUM] ==
            IF i = 0 THEN <<>>
            ELSE IF Queued[k][i] \in Range(p) THEN upTo[i - 1]
            ELSE Append(upTo[i - 1], Queued[k][i])
    IN  upTo[2 * SLOTS_NUM]

\* add_next_node: the last node of the first path may have a null slot to go
\* to, which ends the search, or its slots prolong the path.
Search(t) ==
    /\ pc[t] = "search" /\ loc[t].que # <<>>
    /\ LET p      == Head(loc[t].que).path
           last   == Last(p)
           k      == table[last].key
           h      == Append(Head(loc[t].que).hist, key_versions[last])
           nulls  == {i \in DOMAIN Scan[k] : table[Scan[k][i]] = NULL}
           end    == Scan[k][Min(nulls)]
           longer == Others(k, p)
       IN  IF nulls # {}
           THEN /\ loc' = [loc EXCEPT ![t] = [Blank EXCEPT
                             !.path = Append(p, end), !.hist = Append(h, key_versions[end]),
                             !.i = Len(p) + 1, !.attempt = loc[t].attempt]]
                /\ Goto(t, "move")
           ELSE /\ loc' = [loc EXCEPT ![t].que = Tail(@) \o
                             [i \in DOMAIN longer |-> [path |-> Append(p, longer[i]), hist |-> h]]]
                /\ UNCHANGED pc
    /\ UNCHANGED <<shared, todo, hist>>
-----------------------------------------------------------------------------
(* put_impl: the moves, from the end of the path to its beginning.          *)

To(t)   == loc[t].path[loc[t].i]
From(t) == loc[t].path[loc[t].i - 1]

\* operator< of pair<uint32_t, int>.
Less(a, b) == a[1] < b[1] \/ (a[1] = b[1] /\ a[2] < b[2])

Lower(t)  == IF Less(To(t), From(t)) THEN To(t) ELSE From(t)
Higher(t) == IF Less(To(t), From(t)) THEN From(t) ELSE To(t)

\* Mutant: only that nobody was writing to it is tested.
Unchanged_Even(t, i) == ~Odd(loc[t].hist[i])

\* The i-th slot of the path is as the search has found it.
Unchanged(t, i) ==
    key_versions[loc[t].path[i]] = loc[t].hist[i] /\ ~Odd(loc[t].hist[i])

LockLower(t) ==
    /\ pc[t] = "move"
    /\ Free(Lower(t))
    /\ table_locks' = [table_locks EXCEPT ![Lower(t)] = t]
    /\ Goto(t, "lockHigher")
    /\ UNCHANGED <<table, key_versions, val, todo, loc, hist>>

LockHigher(t) ==
    /\ pc[t] = "lockHigher"
    /\ Free(Higher(t))
    /\ Unchanged(t, loc[t].i) /\ Unchanged(t, loc[t].i - 1)
    /\ table_locks' = [table_locks EXCEPT ![Higher(t)] = t]
    /\ key_versions' = Count(To(t))
    /\ Goto(t, "copy")
    /\ UNCHANGED <<table, val, todo, loc, hist>>

\* Mutant: the lock is kept.
MoveFails_KeepsLock(t) ==
    /\ pc[t] = "lockHigher"
    /\ Free(Higher(t))
    /\ ~(Unchanged(t, loc[t].i) /\ Unchanged(t, loc[t].i - 1))
    /\ Fail(t)
    /\ UNCHANGED <<shared, stored, faults>>

\* What the search has found has changed; the moves made so far stay.
MoveFails(t) ==
    /\ pc[t] = "lockHigher"
    /\ Free(Higher(t))
    /\ ~(Unchanged(t, loc[t].i) /\ Unchanged(t, loc[t].i - 1))
    /\ table_locks' = [table_locks EXCEPT ![Lower(t)] = NULL]
    /\ Fail(t)
    /\ UNCHANGED <<table, key_versions, val, stored, faults>>

\* The slot it is copied from still points to the node.
Copy(t) ==
    /\ pc[t] = "copy"
    /\ table' = [table EXCEPT ![To(t)] = table[From(t)]]
    /\ Goto(t, "copied")
    /\ UNCHANGED <<table_locks, key_versions, val, todo, loc, hist>>

Copied(t) ==
    /\ pc[t] = "copied"
    /\ key_versions' = Count(To(t))
    /\ table_locks' = [table_locks EXCEPT ![To(t)] = NULL, ![From(t)] = NULL]
    /\ loc' = [loc EXCEPT ![t].i = @ - 1]
    /\ Goto(t, IF loc[t].i = 2 THEN "take" ELSE "move")
    /\ UNCHANGED <<table, val, todo, hist>>

\* The first slot of the path is for the new node.
Take(t) ==
    /\ pc[t] = "take"
    /\ Unchanged(t, 1)
    /\ LockAndCount(t, loc[t].path[1])
    /\ loc' = [loc EXCEPT ![t] = [Blank EXCEPT !.slot = loc[t].path[1], !.attempt = loc[t].attempt]]
    /\ Goto(t, "store")
    /\ UNCHANGED <<table, val, todo, hist>>

TakeFails(t) ==
    /\ pc[t] = "take"
    /\ Free(loc[t].path[1])
    /\ ~Unchanged(t, 1)
    /\ Fail(t)
    /\ UNCHANGED <<shared, stored, faults>>
-----------------------------------------------------------------------------
get(t) == GetNode(t) \/ GetVersion(t) \/ GetVal(t) \/ GetCheck(t)

put(t) ==
    \/ PutScan(t) \/ Fill(t) \/ Update(t) \/ SetVal(t) \/ Store(t) \/ Stored(t)
    \/ NoPath(t) \/ Search(t)
    \/ LockLower(t) \/ LockHigher(t) \/ MoveFails(t) \/ Copy(t) \/ Copied(t)
    \/ Take(t) \/ TakeFails(t)

Finished ==
    /\ \A t \in Threads : ~Running(t) /\ todo[t] = <<>>
    /\ UNCHANGED vars

Next == \/ \E t \in Threads : BeginGet(t) \/ BeginPut(t) \/ get(t) \/ put(t)
        \/ Finished

Spec == Init /\ [][Next]_vars

\* The operating system runs every thread again and again.
FairSpec == Spec /\ \A t \in Threads : WF_vars(get(t) \/ put(t))
-----------------------------------------------------------------------------
(* Properties.                                                              *)

PCs == {"idle", "get", "getVersion", "getVal", "getCheck", "put", "fill", "update", "setVal",
        "store", "stored", "search", "move", "lockHigher", "copy", "copied", "take"}

\* Type invariant.
TypeOK ==
    /\ table \in [Slots -> DOMAIN val \cup {NULL}]
    /\ table_locks \in [Slots -> Threads \cup {NULL}]
    /\ key_versions \in [Slots -> Nat]
    /\ DOMAIN val \subseteq Nodes /\ \A x \in DOMAIN val : val[x] \in Vals
    /\ pc \in [Threads -> PCs]
    /\ \A t \in Threads :
         /\ todo[t] \in Seq(Calls)
         /\ loc[t].n \in 1 .. 2 * SLOTS_NUM /\ loc[t].attempt \in 0 .. MaxAttempts - 1
         /\ loc[t].node \in DOMAIN val \cup {NULL} /\ loc[t].got \in Vals \cup {NULL}
         /\ loc[t].path \in Seq(Slots) /\ loc[t].slot \in Slots \cup {NULL}
         /\ may[t] \subseteq Vals \cup {NULL} /\ answer[t] \in Vals \cup {NULL}
    /\ stored \subseteq Keys /\ faults \subseteq {"twins", "stray"}

\* The slots whose locks t holds, and the one it is writing to.
Held(t) ==
    CASE pc[t] \in {"setVal", "store", "stored"} -> {loc[t].slot}
      [] pc[t] = "lockHigher" -> {Lower(t)}
      [] pc[t] \in {"copy", "copied"} -> {Lower(t), Higher(t)}
      [] OTHER -> {}

Writing(t) ==
    CASE pc[t] \in {"setVal", "store", "stored"} -> {loc[t].slot}
      [] pc[t] \in {"copy", "copied"} -> {To(t)}
      [] OTHER -> {}

\* A slot is locked by the thread that is between its lock and its unlock,
\* also when a put fails half-way; and its version is odd exactly while that
\* thread is writing to it, or get would pass over the slot for ever.
LocksHeld ==
    \A s \in Slots :
        /\ \A t \in Threads : table_locks[s] = t <=> s \in Held(t)
        /\ Odd(key_versions[s]) <=> \E t \in Threads : s \in Writing(t)

\* The moves lose nothing: a key that has been put is in one of its two
\* buckets, in the middle of other threads' moves too, and after moves that
\* were given up half-way.
EntriesStay ==
    \A k \in stored : \E i \in DOMAIN Scan[k] : Matches(table[Scan[k][i]], k)

\* How many nodes have to move before one of these slots is free, if any can be.
Reach(k) ==
    LET near == Range(Scan[k])
        level[d \in 0 .. Cardinality(Slots)] ==
            IF d = 0 THEN near
            ELSE level[d - 1] \cup UNION {Range(Scan[table[s].key]) :
                                             s \in {x \in level[d - 1] : table[x] # NULL}}
        free == {d \in DOMAIN level : \E s \in level[d] : table[s] = NULL}
    IN  free

\* A search that nobody disturbs finds a path iff moving nodes can make room,
\* and then a shortest one.
SearchIsExact ==
    LET k == Key(main) IN
    /\ pc[main] = "search" /\ loc[main].que = <<>> => Reach(k) = {}
    /\ pc[main] = "move" /\ loc[main].i = Len(loc[main].path) =>
         Reach(k) # {} /\ Len(loc[main].path) = Min(Reach(k)) + 1

\* The variables of Dictionary.
map   == [k \in Keys |-> Shown(k)]
call  == [t \in Threads |-> IF Running(t) THEN Call(t) ELSE NULL]
wrote == [t \in Threads |-> pc[t] = "stored"]

Dict == INSTANCE Dictionary WITH map <- map, call <- call, wrote <- wrote,
                                 may <- may, answer <- answer

\* Every call is answered as by Dictionary, unless two puts of one absent key
\* have run at the same time, or a put has locked, for the node it updates, a
\* slot that holds another key's by now: a get of that key passes over it.
ImplementsDictionary == Dict!Init /\ [][Dict!Next \/ faults' # {}]_(Dict!dict)

\* Every call returns.
CallsReturn == \A t \in Threads : Running(t) ~> ~Running(t)
=============================================================================
