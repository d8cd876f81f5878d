------------------------------- MODULE SiloCC -------------------------------
(***************************************************************************)
(* The Silo concurrency control of enclaveSilo: the worker loop of         *)
(* Enclave.cpp (ecall_worker_th), the TxExecutor it drives                 *)
(* (silo_transaction.cpp) and the epoch work (silo_util.cpp), for          *)
(* WORKER_NUM workers on shared records.                                   *)
(*                                                                         *)
(* One action is one access to shared memory, with the local computation   *)
(* that follows it.  The load and compare-and-swap loop of lockWriteSet    *)
(* and the double load of read_internal are one step each: both take       *)
(* effect at their last access.                                            *)
(*                                                                         *)
(* Whether the log buffer pool is ready when a transaction starts is an    *)
(* input here; LogPipeline computes it.                                    *)
(***************************************************************************)
EXTENDS TidWord, FiniteSets, Sequences

CONSTANTS
    WORKER_NUM,   \* worker threads; worker 0 is the epoch leader
    Keys,         \* the keys transactions use
    InitKeys,     \* those ecall_initDB inserted
    Procedures,   \* the operation sequences a worker may be given
    MaxTx,        \* bound: commits per worker
    MaxEpoch      \* bound: the leader stops advancing here

Workers == 0 .. WORKER_NUM - 1

Operation == [op : {"READ", "WRITE", "INSERT"}, key : Keys, val : Nat]

ASSUME SiloCCAssumption ==
    /\ WORKER_NUM \in Nat \ {0}
    /\ Keys \subseteq Nat
    /\ InitKeys \subseteq Keys
    /\ \A p \in Procedures : p \in Seq(Operation)
    /\ MaxTx \in Nat
    /\ MaxEpoch \in Nat \ {0}

VARIABLES
    word,          \* tidword_ of each record
    body,          \* body_ of each record
    index,         \* keys Masstree maps to a record
    GlobalEpoch,
    ThLocalEpoch,
    CTIDW,
    quit,          \* set by the main thread
    pc,            \* where each worker is
    pro, idx,      \* pro_set_ and the position in it
    rset, wset,    \* read_set_ and write_set_, as sets of elements
    status,
    max_rset, max_wset, mrctid,
    todo,          \* keys the current loop has still to visit
    tmp,           \* the word unlockWriteSet has loaded and not yet stored back
    ge,            \* the GlobalEpoch loaded and not yet stored
    log,           \* every transaction wal() was called for; "reads" is history
    faults         \* history: which of the protocol's assumptions have failed

db     == <<word, body, index>>
epochs == <<GlobalEpoch, ThLocalEpoch, CTIDW, ge>>
txn    == <<pro, idx, rset, wset>>
tids   == <<max_rset, max_wset, mrctid>>
hist   == <<log, faults>>
vars   == <<db, epochs, quit, pc, txn, status, tids, todo, tmp, hist>>

ReadElement  == [key : Keys, word : Word]
WriteElement == [key : Keys, val : Nat, op : {"WRITE", "INSERT"}]
LogRecord    == [worker : Workers, ctid : Word,
                 reads : SUBSET ReadElement, writes : SUBSET WriteElement]

KeysOf(S) == {e.key : e \in S}

ReadKeys(w)  == KeysOf(rset[w])
WriteKeys(w) == KeysOf(wset[w])

\* Mutant: no record is locked.
LockKeys_None(w) == KeysOf({e \in wset[w] : e.op = "DELETE"})

\* What lockWriteSet and unlockWriteSet visit: they skip INSERT elements.
LockKeys(w) == KeysOf({e \in wset[w] : e.op # "INSERT"})

\* The next key of a loop over the write set, which is sorted by key.
IsNext(w, k) == k \in todo[w] /\ \A j \in todo[w] : k <= j

Commits(w) == Cardinality({t \in log : t.worker = w})

Goto(w, l) == pc' = [pc EXCEPT ![w] = l]
-----------------------------------------------------------------------------
(* Globals of Enclave.cpp, the database ecall_initDB leaves, and workers    *)
(* that have passed the start barrier.                                      *)

Init ==
    /\ word = [k \in Keys |-> ZeroWord]
    /\ body = [k \in Keys |-> 0]
    /\ index = InitKeys
    /\ GlobalEpoch = 1
    /\ ThLocalEpoch = [w \in Workers |-> 0]
    /\ CTIDW = [w \in Workers |-> ZeroWord]
    /\ ge = [w \in Workers |-> 0]
    /\ quit = FALSE
    /\ pc = [w \in Workers |-> "idle"]
    /\ pro = [w \in Workers |-> <<>>]
    /\ idx = [w \in Workers |-> 1]
    /\ rset = [w \in Workers |-> {}]
    /\ wset = [w \in Workers |-> {}]
    /\ status = [w \in Workers |-> "Invalid"]
    /\ max_rset = [w \in Workers |-> ZeroWord]
    /\ max_wset = [w \in Workers |-> ZeroWord]
    /\ mrctid = [w \in Workers |-> ZeroWord]
    /\ todo = [w \in Workers |-> {}]
    /\ tmp = [w \in Workers |-> ZeroWord]
    /\ log = {}
    /\ faults = {}
-----------------------------------------------------------------------------
(* The worker loop up to the first operation.                               *)

SendQuit ==
    /\ ~quit
    /\ quit' = TRUE
    /\ UNCHANGED <<db, epochs, pc, txn, status, tids, todo, tmp, hist>>

\* Both places the loop tests quit: before makeProcedure and after RETRY.
Quit(w) ==
    /\ pc[w] \in {"idle", "retry"}
    /\ quit
    /\ Goto(w, "done")
    /\ UNCHANGED <<db, epochs, quit, txn, status, tids, todo, tmp, hist>>

MakeProcedure(w) ==
    /\ pc[w] = "idle"
    /\ ~quit
    /\ Commits(w) < MaxTx
    /\ \E p \in Procedures : pro' = [pro EXCEPT ![w] = p]
    /\ Goto(w, "retry")
    /\ UNCHANGED <<db, epochs, quit, idx, rset, wset, status, tids, todo, tmp, hist>>

\* durableEpochWork returns without epoch work when the pool is ready.
Begin(w) ==
    /\ pc[w] = "retry"
    /\ ~quit
    /\ status' = [status EXCEPT ![w] = "InFlight"]
    /\ max_rset' = [max_rset EXCEPT ![w] = ZeroWord]
    /\ max_wset' = [max_wset EXCEPT ![w] = ZeroWord]
    /\ idx' = [idx EXCEPT ![w] = 1]
    /\ Goto(w, "exec")
    /\ UNCHANGED <<db, epochs, quit, pro, rset, wset, mrctid, todo, tmp, hist>>
-----------------------------------------------------------------------------
(* epochWork, entered while the pool is not ready.  Only worker 0 moves     *)
(* GlobalEpoch, and ThLocalEpoch never decreases, so its scan of            *)
(* ThLocalEpoch takes effect at the last load.  The timer may have expired  *)
(* or not.                                                                  *)

\* Mutant: the leader does not wait for the other workers.
chkEpochLoaded_Skipped == TRUE

chkEpochLoaded == \A i \in Workers \ {0} : ThLocalEpoch[i] = GlobalEpoch

siloLeaderWork ==
    \/ UNCHANGED GlobalEpoch
    \/ /\ chkEpochLoaded
       /\ GlobalEpoch < MaxEpoch
       /\ GlobalEpoch' = GlobalEpoch + 1

EpochLoad(w) ==
    /\ pc[w] = "retry"
    /\ IF w = 0 THEN siloLeaderWork ELSE UNCHANGED GlobalEpoch
    /\ ge' = [ge EXCEPT ![w] = GlobalEpoch']
    /\ Goto(w, "epochStore")
    /\ UNCHANGED <<db, ThLocalEpoch, CTIDW, quit, txn, status, tids, todo, tmp, hist>>

\* Mutant: quit is not tested while the pool is not ready.
EpochStore_NoQuit(w) ==
    /\ pc[w] = "epochStore"
    /\ ThLocalEpoch' = [ThLocalEpoch EXCEPT ![w] = ge[w]]
    /\ CTIDW' = IF CTIDW[w].epoch # ge[w]
                THEN [CTIDW EXCEPT ![w] = EpochWord(ge[w])] ELSE CTIDW
    /\ Goto(w, "retry")
    /\ UNCHANGED <<db, GlobalEpoch, ge, quit, txn, status, tids, todo, tmp, hist>>

EpochStore(w) ==
    /\ pc[w] = "epochStore"
    /\ ThLocalEpoch' = [ThLocalEpoch EXCEPT ![w] = ge[w]]
    /\ CTIDW' = IF CTIDW[w].epoch # ge[w]
                THEN [CTIDW EXCEPT ![w] = EpochWord(ge[w])] ELSE CTIDW
    /\ Goto(w, IF quit THEN "done" ELSE "retry")
    /\ UNCHANGED <<db, GlobalEpoch, ge, quit, txn, status, tids, todo, tmp, hist>>
-----------------------------------------------------------------------------
(* Operations of the read phase.                                            *)

NextOp(w) == pro[w][idx[w]]

Executing(w, op) ==
    /\ pc[w] = "exec"
    /\ idx[w] <= Len(pro[w])
    /\ NextOp(w).op = op

Advance(w) == idx' = [idx EXCEPT ![w] = @ + 1]

\* The key is in the read set or the write set already.
ReadLocal(w) ==
    /\ Executing(w, "READ")
    /\ NextOp(w).key \in ReadKeys(w) \cup WriteKeys(w)
    /\ Advance(w)
    /\ UNCHANGED <<db, epochs, quit, pc, pro, rset, wset, status, tids, todo, tmp, hist>>

\* read_internal: wait until the record is unlocked, then note its word.
ReadRecord(w) ==
    /\ Executing(w, "READ")
    /\ LET k == NextOp(w).key IN
         /\ k \notin ReadKeys(w) \cup WriteKeys(w)
         /\ k \in index
         /\ ~word[k].lock /\ ~word[k].absent
         /\ rset' = [rset EXCEPT ![w] = @ \cup {[key |-> k, word |-> word[k]]}]
    /\ Advance(w)
    /\ UNCHANGED <<db, epochs, quit, pc, pro, wset, status, tids, todo, tmp, hist>>

\* abort(): the inserted records stay in the index.  The loop goes to RETRY.
Abandon(w) ==
    /\ rset' = [rset EXCEPT ![w] = {}]
    /\ wset' = [wset EXCEPT ![w] = {}]
    /\ Goto(w, "retry")

ReadNotFound(w) ==
    /\ Executing(w, "READ")
    /\ LET k == NextOp(w).key IN
         /\ k \notin ReadKeys(w) \cup WriteKeys(w)
         /\ k \in index => ~word[k].lock /\ word[k].absent
    /\ Abandon(w)
    /\ UNCHANGED <<db, epochs, quit, pro, idx, status, tids, todo, tmp, hist>>

\* A key already in the write set is left as it is: the new value is dropped.
\* Nothing tests the absent bit; "faults" remembers a write that met it.
Write(w) ==
    /\ Executing(w, "WRITE")
    /\ LET k == NextOp(w).key IN
         \/ /\ k \in WriteKeys(w)
            /\ UNCHANGED <<wset, faults>>
         \/ /\ k \notin WriteKeys(w)
            /\ k \in ReadKeys(w) \cup index
            /\ wset' = [wset EXCEPT ![w] =
                  @ \cup {[key |-> k, val |-> NextOp(w).val, op |-> "WRITE"]}]
            /\ faults' = IF word[k].absent THEN faults \cup {"absentWrite"} ELSE faults
    /\ Advance(w)
    /\ UNCHANGED <<db, epochs, quit, pc, pro, rset, status, tids, todo, tmp, log>>

WriteNotFound(w) ==
    /\ Executing(w, "WRITE")
    /\ NextOp(w).key \notin WriteKeys(w) \cup ReadKeys(w) \cup index
    /\ Abandon(w)
    /\ UNCHANGED <<db, epochs, quit, pro, idx, status, tids, todo, tmp, hist>>

\* Mutants: the record is not marked absent; an existing record is replaced.
Insert_Present(w) ==
    /\ Executing(w, "INSERT")
    /\ LET k == NextOp(w).key IN
         /\ k \notin WriteKeys(w) \cup index
         /\ index' = index \cup {k}
         /\ word' = [word EXCEPT ![k] = ZeroWord]
         /\ body' = [body EXCEPT ![k] = NextOp(w).val]
         /\ wset' = [wset EXCEPT ![w] =
               @ \cup {[key |-> k, val |-> NextOp(w).val, op |-> "INSERT"]}]
    /\ Advance(w)
    /\ UNCHANGED <<epochs, quit, pc, pro, rset, status, tids, todo, tmp, hist>>

Insert_Replaces(w) ==
    /\ Executing(w, "INSERT")
    /\ LET k == NextOp(w).key IN
         /\ k \notin WriteKeys(w)
         /\ index' = index \cup {k}
         /\ word' = [word EXCEPT ![k] = [ZeroWord EXCEPT !.absent = TRUE]]
         /\ body' = [body EXCEPT ![k] = NextOp(w).val]
         /\ wset' = [wset EXCEPT ![w] =
               @ \cup {[key |-> k, val |-> NextOp(w).val, op |-> "INSERT"]}]
    /\ Advance(w)
    /\ UNCHANGED <<epochs, quit, pc, pro, rset, status, tids, todo, tmp, hist>>

\* The record goes into the index at once, marked absent.
Insert(w) ==
    /\ Executing(w, "INSERT")
    /\ LET k == NextOp(w).key IN
         /\ k \notin WriteKeys(w) \cup index
         /\ index' = index \cup {k}
         /\ word' = [word EXCEPT ![k] = [ZeroWord EXCEPT !.absent = TRUE]]
         /\ body' = [body EXCEPT ![k] = NextOp(w).val]
         /\ wset' = [wset EXCEPT ![w] =
               @ \cup {[key |-> k, val |-> NextOp(w).val, op |-> "INSERT"]}]
    /\ Advance(w)
    /\ UNCHANGED <<epochs, quit, pc, pro, rset, status, tids, todo, tmp, hist>>

\* WARN_ALREADY_EXISTS: nothing changes, and the caller goes on.
InsertExists(w) ==
    /\ Executing(w, "INSERT")
    /\ NextOp(w).key \in WriteKeys(w) \cup index
    /\ Advance(w)
    /\ UNCHANGED <<db, epochs, quit, pc, pro, rset, wset, status, tids, todo, tmp, hist>>
-----------------------------------------------------------------------------
(* validationPhase, phase 1: lockWriteSet.  A record found locked aborts    *)
(* the transaction in status_ only: the locks taken so far are released,    *)
(* and validationPhase goes on.                                             *)

BeginValidation(w) ==
    /\ pc[w] = "exec"
    /\ idx[w] > Len(pro[w])
    /\ todo' = [todo EXCEPT ![w] = LockKeys(w)]
    /\ Goto(w, "lock")
    /\ UNCHANGED <<db, epochs, quit, txn, status, tids, tmp, hist>>

\* Mutant: the lock bit is not tested before the compare-and-swap.
LockRecord_NoTest(w) ==
    /\ pc[w] = "lock"
    /\ \E k \in Keys :
         /\ IsNext(w, k)
         /\ word' = [word EXCEPT ![k] = Locked(@)]
         /\ max_wset' = [max_wset EXCEPT ![w] = MaxWord(@, word[k])]
         /\ todo' = [todo EXCEPT ![w] = @ \ {k}]
    /\ UNCHANGED <<body, index, epochs, quit, pc, txn, status, max_rset, mrctid, tmp, hist>>

LockRecord(w) ==
    /\ pc[w] = "lock"
    /\ \E k \in Keys :
         /\ IsNext(w, k)
         /\ ~word[k].lock
         /\ word' = [word EXCEPT ![k] = Locked(@)]
         /\ max_wset' = [max_wset EXCEPT ![w] = MaxWord(@, word[k])]
         /\ todo' = [todo EXCEPT ![w] = @ \ {k}]
    /\ UNCHANGED <<body, index, epochs, quit, pc, txn, status, max_rset, mrctid, tmp, hist>>

LockConflict(w) ==
    /\ pc[w] = "lock"
    /\ \E k \in Keys : IsNext(w, k) /\ word[k].lock
    /\ status' = [status EXCEPT ![w] = "Aborted"]
    /\ todo' = [todo EXCEPT ![w] = LockKeys(w) \ @]
    /\ faults' = faults \cup {"lockMissed"}
    /\ Goto(w, "unlockPrefix")
    /\ UNCHANGED <<db, epochs, quit, txn, tids, tmp, log>>

\* One record of unlockWriteSet: a load, then a store of what was loaded.
UnlockLoad(w, at, to) ==
    /\ pc[w] = at
    /\ \E k \in Keys : IsNext(w, k) /\ tmp' = [tmp EXCEPT ![w] = word[k]]
    /\ Goto(w, to)
    /\ UNCHANGED <<db, epochs, quit, txn, status, tids, todo, hist>>

UnlockStore(w, at, to) ==
    /\ pc[w] = at
    /\ \E k \in Keys :
         /\ IsNext(w, k)
         /\ word' = [word EXCEPT ![k] = Unlocked(tmp[w])]
         /\ todo' = [todo EXCEPT ![w] = @ \ {k}]
    /\ tmp' = [tmp EXCEPT ![w] = ZeroWord]
    /\ Goto(w, to)
    /\ UNCHANGED <<body, index, epochs, quit, txn, status, tids, hist>>

UnlockPrefix(w) == \/ UnlockLoad(w, "unlockPrefix", "storePrefix")
                   \/ UnlockStore(w, "storePrefix", "unlockPrefix")

UnlockAll(w) == \/ UnlockLoad(w, "unlockAll", "storeAll")
                \/ UnlockStore(w, "storeAll", "unlockAll")
-----------------------------------------------------------------------------
(* validationPhase: ThLocalEpoch, then phase 2 over the read set.  The code *)
(* visits the read set in the order of the reads; any order is allowed here.*)

LoadGE(w) ==
    /\ pc[w] \in {"lock", "unlockPrefix"}
    /\ todo[w] = {}
    /\ ge' = [ge EXCEPT ![w] = GlobalEpoch]
    /\ Goto(w, "storeGE")
    /\ UNCHANGED <<db, GlobalEpoch, ThLocalEpoch, CTIDW, quit, txn, status, tids, todo, tmp, hist>>

StoreThLocalEpoch(w) ==
    /\ pc[w] = "storeGE"
    /\ ThLocalEpoch' = [ThLocalEpoch EXCEPT ![w] = ge[w]]
    /\ todo' = [todo EXCEPT ![w] = ReadKeys(w)]
    /\ Goto(w, "validate")
    /\ UNCHANGED <<db, GlobalEpoch, CTIDW, ge, quit, txn, status, tids, tmp, hist>>

\* Mutant: test [3] is left out.
StillValid_NoLockTest(w, e) == SameVersion(e.word, word[e.key])

\* The tests [1] and [3] of a read element against its record's word now.
StillValid(w, e) ==
    /\ SameVersion(e.word, word[e.key])
    /\ word[e.key].lock => e.key \in WriteKeys(w)

ValidateRead(w) ==
    /\ pc[w] = "validate"
    /\ \E e \in rset[w] :
         /\ e.key \in todo[w]
         /\ StillValid(w, e)
         /\ max_rset' = [max_rset EXCEPT ![w] = MaxWord(@, word[e.key])]
         /\ todo' = [todo EXCEPT ![w] = @ \ {e.key}]
    /\ UNCHANGED <<db, epochs, quit, pc, txn, status, max_wset, mrctid, tmp, hist>>

\* Mutant: a failed validation keeps its locks.
ValidationFails_KeepsLocks(w) ==
    /\ pc[w] = "validate"
    /\ \E e \in rset[w] : e.key \in todo[w] /\ ~StillValid(w, e)
    /\ status' = [status EXCEPT ![w] = "Aborted"]
    /\ todo' = [todo EXCEPT ![w] = {}]
    /\ Goto(w, "unlockAll")
    /\ UNCHANGED <<db, epochs, quit, txn, tids, tmp, hist>>

ValidationFails(w) ==
    /\ pc[w] = "validate"
    /\ \E e \in rset[w] : e.key \in todo[w] /\ ~StillValid(w, e)
    /\ status' = [status EXCEPT ![w] = "Aborted"]
    /\ todo' = [todo EXCEPT ![w] = LockKeys(w)]
    /\ Goto(w, "unlockAll")
    /\ UNCHANGED <<db, epochs, quit, txn, tids, tmp, hist>>

Abort(w) ==
    /\ pc[w] = "unlockAll"
    /\ todo[w] = {}
    /\ Abandon(w)
    /\ UNCHANGED <<db, epochs, quit, pro, idx, status, tids, todo, tmp, hist>>
-----------------------------------------------------------------------------
(* Phase 3 and writePhase.                                                  *)

\* Mutants: rule [a] or [b] is left out.
CommitTid_NoA(w) == Unlocked(MaxWord(NextTid(mrctid[w]), EpochWord(ThLocalEpoch[w])))
CommitTid_NoB(w) == Unlocked(MaxWord(NextTid(MaxWord(max_rset[w], max_wset[w])),
                                     EpochWord(ThLocalEpoch[w])))

\* The TID writePhase chooses: [a] above every record read or written, [b]
\* above the worker's last, [c] in the worker's local epoch.
CommitTid(w) ==
    LET a == NextTid(MaxWord(max_rset[w], max_wset[w]))
        b == NextTid(mrctid[w])
        c == EpochWord(ThLocalEpoch[w])
    IN  Unlocked(MaxWord(a, MaxWord(b, c)))

\* One of the two TID++ of writePhase starts from the largest TID.
TidWraps(w) ==
    \/ MaxWord(max_rset[w], max_wset[w]).tid = TIDLimit - 1
    \/ mrctid[w].tid = TIDLimit - 1

\* Mutant: the log is written for the first transaction of an epoch only.
wal_NewEpochOnly(w, t) ==
    /\ log' = IF CTIDW[w].epoch # t.epoch
              THEN log \cup {[worker |-> w, ctid |-> t, reads |-> rset[w], writes |-> wset[w]]}
              ELSE log
    /\ CTIDW' = IF CTIDW[w].epoch # t.epoch THEN [CTIDW EXCEPT ![w] = t] ELSE CTIDW

\* wal(): the log record, then CTIDW if the epoch is new to this worker.
wal(w, t) ==
    /\ log' = log \cup {[worker |-> w, ctid |-> t, reads |-> rset[w], writes |-> wset[w]]}
    /\ CTIDW' = IF CTIDW[w].epoch # t.epoch THEN [CTIDW EXCEPT ![w] = t] ELSE CTIDW

\* No worker reads another's log or CTIDW, so wal() is part of this step.
Commit(w) ==
    /\ pc[w] = "validate"
    /\ todo[w] = {}
    /\ LET t == CommitTid(w) IN
         /\ status' = [status EXCEPT ![w] = "Committed"]
         /\ mrctid' = [mrctid EXCEPT ![w] = t]
         /\ wal(w, t)
    /\ faults' = IF TidWraps(w) THEN faults \cup {"tidWrapped"} ELSE faults
    /\ todo' = [todo EXCEPT ![w] = WriteKeys(w)]
    /\ Goto(w, "install")
    /\ UNCHANGED <<db, GlobalEpoch, ThLocalEpoch, ge, quit, txn, max_rset, max_wset, tmp>>

\* The body of an inserted record is there since insert().
InstallBody(w) ==
    /\ pc[w] = "install"
    /\ \E e \in wset[w] :
         /\ IsNext(w, e.key)
         /\ body' = IF e.op = "WRITE" THEN [body EXCEPT ![e.key] = e.val] ELSE body
    /\ Goto(w, "installWord")
    /\ UNCHANGED <<word, index, epochs, quit, txn, status, tids, todo, tmp, hist>>

\* maxtid.absent is cleared by the first INSERT element and stays cleared.
InstalledWord(w, k) ==
    [mrctid[w] EXCEPT !.absent =
        @ /\ ~\E e \in wset[w] : e.op = "INSERT" /\ e.key <= k]

InstallWord(w) ==
    /\ pc[w] = "installWord"
    /\ \E k \in Keys :
         /\ IsNext(w, k)
         /\ word' = [word EXCEPT ![k] = InstalledWord(w, k)]
         /\ todo' = [todo EXCEPT ![w] = @ \ {k}]
    /\ Goto(w, "install")
    /\ UNCHANGED <<body, index, epochs, quit, txn, status, tids, tmp, hist>>

FinishTx(w) ==
    /\ pc[w] = "install"
    /\ todo[w] = {}
    /\ rset' = [rset EXCEPT ![w] = {}]
    /\ wset' = [wset EXCEPT ![w] = {}]
    /\ Goto(w, "idle")
    /\ UNCHANGED <<db, epochs, quit, pro, idx, status, tids, todo, tmp, hist>>
-----------------------------------------------------------------------------
ReadPhase(w)  == \/ ReadLocal(w) \/ ReadRecord(w) \/ ReadNotFound(w)
                 \/ Write(w) \/ WriteNotFound(w)
                 \/ Insert(w) \/ InsertExists(w)

Validation(w) == \/ BeginValidation(w) \/ LockRecord(w) \/ LockConflict(w)
                 \/ UnlockPrefix(w) \/ LoadGE(w) \/ StoreThLocalEpoch(w)
                 \/ ValidateRead(w) \/ ValidationFails(w)
                 \/ UnlockAll(w) \/ Abort(w)

WritePhase(w) == Commit(w) \/ InstallBody(w) \/ InstallWord(w) \/ FinishTx(w)

Worker(w) == \/ Quit(w) \/ MakeProcedure(w) \/ Begin(w)
             \/ EpochLoad(w) \/ EpochStore(w)
             \/ ReadPhase(w) \/ Validation(w) \/ WritePhase(w)

Finished ==
    /\ \A w \in Workers : pc[w] = "done"
    /\ UNCHANGED vars

Next == SendQuit \/ (\E w \in Workers : Worker(w)) \/ Finished

Spec == Init /\ [][Next]_vars

\* The operating system runs every worker thread again and again.
FairSpec == Spec /\ \A w \in Workers : WF_vars(Worker(w))
-----------------------------------------------------------------------------
(* Properties.                                                              *)

PC == {"idle", "retry", "epochStore", "exec", "lock", "unlockPrefix",
       "storePrefix", "storeGE", "validate", "unlockAll", "storeAll",
       "install", "installWord", "done"}

\* Type invariant.
TypeOK ==
    /\ word \in [Keys -> Word]
    /\ body \in [Keys -> Nat]
    /\ index \in SUBSET Keys
    /\ GlobalEpoch \in Nat \ {0}
    /\ ThLocalEpoch \in [Workers -> Nat]
    /\ CTIDW \in [Workers -> Word]
    /\ ge \in [Workers -> Nat]
    /\ quit \in BOOLEAN
    /\ pc \in [Workers -> PC]
    /\ pro \in [Workers -> Procedures \cup {<<>>}]
    /\ idx \in [Workers -> Nat \ {0}]
    /\ rset \in [Workers -> SUBSET ReadElement]
    /\ wset \in [Workers -> SUBSET WriteElement]
    /\ status \in [Workers -> {"Invalid", "InFlight", "Committed", "Aborted"}]
    /\ max_rset \in [Workers -> Word]
    /\ max_wset \in [Workers -> Word]
    /\ mrctid \in [Workers -> Word]
    /\ todo \in [Workers -> SUBSET Keys]
    /\ tmp \in [Workers -> Word]
    /\ log \in SUBSET LogRecord
    /\ faults \in SUBSET {"lockMissed", "absentWrite", "tidWrapped"}

\* The keys w has locked and has yet to store over.
Held(w) ==
    CASE pc[w] = "lock" -> LockKeys(w) \ todo[w]
      [] pc[w] \in {"unlockPrefix", "storePrefix", "unlockAll", "storeAll",
                    "install", "installWord"} -> todo[w] \cap LockKeys(w)
      [] pc[w] \in {"storeGE", "validate"} /\ status[w] # "Aborted" -> LockKeys(w)
      [] OTHER -> {}

\* No lock leaks: whatever happened before, a record whose lock bit is set is
\* in the write set of a worker that is between its compare-and-swap in
\* lockWriteSet and its store in unlockWriteSet or writePhase.
LockHasOwner ==
    \A k \in Keys : word[k].lock => \E w \in Workers : k \in Held(w)

\* The two things the locking relies on: no transaction has gone on after
\* lockWriteSet met a locked record, and no write() has met an absent record.
LockingTrusted == faults \cap {"lockMissed", "absentWrite"} = {}

\* While the locking is trusted, a write lock has one holder, and it stays set
\* until its holder stores over it: no unlock or install of another worker
\* clears it.
SingleHolder ==
    LockingTrusted =>
      \A w \in Workers : \A k \in Held(w) :
        /\ word[k].lock
        /\ \A v \in Workers \ {w} : k \notin Held(v)

\* Version x of record k is the initial one or was logged by a writer of k.
Logged(k, x) ==
    \/ x.epoch = 0 /\ x.tid = 0
    \/ \E t \in log : k \in KeysOf(t.writes) /\ SameVersion(t.ctid, x)

\* wal() precedes the stores of writePhase: a version that a record carries,
\* or that a transaction has read, is in the log of the worker that made it.
WriteAhead ==
    /\ \A k \in Keys : Logged(k, word[k])
    /\ \A w \in Workers : \A e \in rset[w] : Logged(e.key, e.word)

\* A transaction in writePhase carries the epoch its worker published in
\* ThLocalEpoch, and GlobalEpoch has moved on by at most one since: the
\* leader waits for every worker (chkEpochLoaded).
CommitEpoch ==
    \A w \in Workers : pc[w] \in {"install", "installWord"} =>
        /\ mrctid[w].epoch = ThLocalEpoch[w]
        /\ GlobalEpoch - mrctid[w].epoch \in {0, 1}

\* t comes before u in every serial order with the same reads: u read what t
\* wrote, overwrote it, or overwrote what t read.
Precedes(t, u) ==
    \/ \E e \in u.reads : e.key \in KeysOf(t.writes) /\ SameVersion(e.word, t.ctid)
    \/ KeysOf(t.writes) \cap KeysOf(u.writes) # {} /\ VersionLess(t.ctid, u.ctid)
    \/ \E e \in t.reads : e.key \in KeysOf(u.writes) /\ VersionLess(e.word, u.ctid)

\* The committed transactions are serializable (no cycle of precedence) as
\* long as none of the protocol's assumptions has failed.
Serializable ==
    faults = {} =>
      \A S \in (SUBSET log) \ {{}} : \E u \in S : \A t \in S \ {u} : ~Precedes(t, u)

Installing(k) ==
    \E w \in Workers : pc[w] \in {"install", "installWord"} /\ k \in todo[w]

\* Replaying the log, the highest TID last, gives the database: a record that
\* no writePhase is about to overwrite holds the version and the value of the
\* logged write with the greatest TID, and is present.
LogExplainsDatabase ==
    faults = {} =>
      \A k \in Keys :
        LET writers == {t \in log : k \in KeysOf(t.writes)} IN
        ~Installing(k) /\ writers # {} =>
          \E t \in writers :
            /\ \A u \in writers : ~VersionLess(t.ctid, u.ctid)
            /\ SameVersion(word[k], t.ctid) /\ ~word[k].absent
            /\ \E e \in t.writes : e.key = k /\ e.val = body[k]

\* The version of a record only grows (the TID order of its writers).
VersionsGrow ==
    [][faults' = {} =>
         \A k \in Keys : ~SameVersion(word[k], word'[k]) => VersionLess(word[k], word'[k])]_vars

\* A transaction's TID is above every version it read, every version it is
\* about to overwrite, and the last TID of its worker (rules [a] and [b]).
CommitTidAbove ==
    [][faults' = {} =>
         \A t \in log' \ log :
           /\ VersionLess(mrctid[t.worker], t.ctid)
           /\ \A e \in t.reads : VersionLess(e.word, t.ctid)
           /\ \A k \in KeysOf(t.writes) : VersionLess(word[k], t.ctid)]_vars

\* Once the main thread has set quit, every worker leaves its loop, whatever
\* it was waiting for and however often its transaction has to be retried.
QuitTerminates == quit ~> \A w \in Workers : pc[w] = "done"
-----------------------------------------------------------------------------
(* What comments of the code say and the code does not do.                  *)

\* silo_transaction.cpp:286: a transaction that meets a locked record in
\* lockWriteSet "is immediately aborted".
ConflictAborts ==
    [][\A w \in Workers : status[w] = "Aborted" => status'[w] # "Committed"]_vars
-----------------------------------------------------------------------------
(* Inductive strengthenings of the invariants; SiloCCProofs proves them.    *)

\* The shape of a worker's local state in each part of its code.
Phase(w) ==
    /\ pc[w] \in {"exec", "lock"} => status[w] = "InFlight"
    /\ pc[w] \in {"unlockPrefix", "storePrefix"} => status[w] = "Aborted"
    /\ status[w] = "Aborted" /\ pc[w] \in {"unlockPrefix", "storePrefix", "storeGE", "validate"}
         => "lockMissed" \in faults
    /\ pc[w] \in {"lock", "unlockPrefix", "storePrefix", "unlockAll", "storeAll"}
         => todo[w] \subseteq LockKeys(w)
    /\ pc[w] \in {"install", "installWord"} => todo[w] \subseteq WriteKeys(w)
    /\ pc[w] \in {"idle", "retry", "epochStore", "done"} => rset[w] = {} /\ wset[w] = {}
    /\ ReadKeys(w) \cup WriteKeys(w) \subseteq index
    /\ ~mrctid[w].lock

PhaseInv == \A w \in Workers : Phase(w)

\* Inserted keys whose record w has not installed yet.
PendingInserts(w) ==
    {k \in KeysOf({e \in wset[w] : e.op = "INSERT"}) :
        pc[w] \in {"install", "installWord"} => k \in todo[w]}

\* While the locking is trusted, such a record is absent, unlocked, and in no
\* other write set.
InsertInv ==
    LockingTrusted =>
      \A w \in Workers : \A k \in PendingInserts(w) :
        /\ word[k].absent /\ ~word[k].lock
        /\ k \notin LockKeys(w)
        /\ \A v \in Workers \ {w} : k \notin WriteKeys(v)

\* The words in flight towards a record are logged too.
WalInv ==
    \A w \in Workers :
      /\ pc[w] \in {"storePrefix", "storeAll"} =>
           \A k \in Keys : IsNext(w, k) => Logged(k, tmp[w])
      /\ pc[w] \in {"install", "installWord"} =>
           \A k \in WriteKeys(w) : Logged(k, mrctid[w])

\* Epochs: what worker w has loaded, published and computed stays in step.
Epochs(w) ==
    /\ ThLocalEpoch[w] <= ge[w] /\ ge[w] <= GlobalEpoch
    /\ w # 0 => GlobalEpoch <= ThLocalEpoch[w] + 1
    /\ mrctid[w].epoch <= ThLocalEpoch[w]
    /\ tmp[w].epoch <= GlobalEpoch
    /\ max_wset[w].epoch <= GlobalEpoch
    /\ \A e \in rset[w] : e.word.epoch <= GlobalEpoch
    /\ pc[w] \in {"exec", "lock", "unlockPrefix", "storePrefix", "storeGE"} =>
         max_rset[w].epoch = 0
    /\ pc[w] = "storeGE" =>
         /\ w = 0 => ge[w] = GlobalEpoch
         /\ max_wset[w].epoch <= ge[w]
         /\ \A e \in rset[w] : e.word.epoch <= ge[w]
    /\ pc[w] = "validate" =>
         /\ max_wset[w].epoch <= ThLocalEpoch[w]
         /\ max_rset[w].epoch <= ThLocalEpoch[w]
         /\ \A e \in rset[w] : e.word.epoch <= ThLocalEpoch[w]
    /\ pc[w] \in {"validate", "install", "installWord"} /\ w = 0 =>
         ThLocalEpoch[w] = GlobalEpoch
    /\ pc[w] \in {"install", "installWord"} => mrctid[w].epoch = ThLocalEpoch[w]

EpochInv ==
    /\ \A k \in Keys : word[k].epoch <= GlobalEpoch
    /\ \A w \in Workers : Epochs(w)
=============================================================================
