--------------------------- MODULE SiloCCProofs ---------------------------
(***************************************************************************)
(* Theorems about SiloCC, for any number of workers, any set of keys and   *)
(* any set of procedures.                                                  *)
(***************************************************************************)
EXTENDS SiloCC, TLAPS

-----------------------------------------------------------------------------
(* Words.                                                                   *)

\* The operators on words yield words.
LEMMA WordTypes ==
    /\ ZeroWord \in Word
    /\ \A e \in Nat : EpochWord(e) \in Word
    /\ \A x \in Word : NextTid(x) \in Word /\ Locked(x) \in Word /\ Unlocked(x) \in Word
    /\ \A x, y \in Word : MaxWord(x, y) \in Word
  <1>0. 0 \in Tid
    BY TIDLimitAssumption DEF Tid
  <1>1. ZeroWord \in Word /\ \A e \in Nat : EpochWord(e) \in Word
    BY <1>0 DEF Word, ZeroWord, EpochWord
  <1>2. ASSUME NEW x \in Word PROVE NextTid(x) \in Word
    <2>1. (x.tid + 1) % TIDLimit \in Tid
      BY TIDLimitAssumption DEF Word, Tid
    <2> QED BY <2>1 DEF Word, NextTid
  <1>3. ASSUME NEW x \in Word PROVE Locked(x) \in Word /\ Unlocked(x) \in Word
    BY DEF Word, Locked, Unlocked
  <1>4. \A x, y \in Word : MaxWord(x, y) \in Word
    BY DEF MaxWord
  <1> QED BY <1>1, <1>2, <1>3, <1>4

\* writePhase chooses a word, and clears its lock bit.
LEMMA CommitTidType ==
    ASSUME TypeOK, NEW w \in Workers
    PROVE  CommitTid(w) \in Word /\ ~CommitTid(w).lock
  <1> DEFINE a == NextTid(MaxWord(max_rset[w], max_wset[w]))
             b == NextTid(mrctid[w])
             c == EpochWord(ThLocalEpoch[w])
  <1>1. a \in Word /\ b \in Word /\ c \in Word
    BY WordTypes DEF TypeOK
  <1> HIDE DEF a, b, c
  <1>2. Unlocked(MaxWord(a, MaxWord(b, c))) \in Word
    BY <1>1, WordTypes
  <1>3. ~Unlocked(MaxWord(a, MaxWord(b, c))).lock
    BY <1>1, WordTypes DEF Unlocked, Word
  <1> QED BY <1>2, <1>3 DEF CommitTid, a, b, c

-----------------------------------------------------------------------------
(* Type correctness.                                                        *)

\* The operation a worker looks at is one of its procedure.
LEMMA NextOpType ==
    ASSUME TypeOK, NEW w \in Workers, pc[w] = "exec", idx[w] <= Len(pro[w])
    PROVE  NextOp(w) \in Operation
  <1>1. CASE pro[w] = <<>>
    BY <1>1 DEF TypeOK
  <1>2. CASE pro[w] \in Procedures
    BY <1>2, SiloCCAssumption DEF TypeOK, NextOp
  <1> QED BY <1>1, <1>2 DEF TypeOK

\* The keys of the read and write sets are keys of the database.
LEMMA KeySets ==
    ASSUME TypeOK, NEW w \in Workers
    PROVE  /\ ReadKeys(w) \subseteq Keys
           /\ WriteKeys(w) \subseteq Keys
           /\ LockKeys(w) \subseteq WriteKeys(w)
           /\ LockKeys(w) \subseteq Keys
  BY DEF TypeOK, ReadKeys, WriteKeys, LockKeys, KeysOf, ReadElement, WriteElement

\* What writePhase stores in a record is a word.
LEMMA InstalledWordType ==
    ASSUME TypeOK, NEW w \in Workers, NEW k \in Keys
    PROVE  InstalledWord(w, k) \in Word /\ SameVersion(InstalledWord(w, k), mrctid[w])
           /\ InstalledWord(w, k).lock = mrctid[w].lock
  <1> DEFINE P == mrctid[w].absent /\ ~\E e \in wset[w] : e.op = "INSERT" /\ e.key <= k
  <1>1. P \in BOOLEAN
    OBVIOUS
  <1>2. InstalledWord(w, k) = [mrctid[w] EXCEPT !.absent = P]
    BY DEF InstalledWord
  <1> HIDE DEF P
  <1>3. mrctid[w] \in Word
    BY DEF TypeOK
  <1> QED BY <1>1, <1>2, <1>3 DEF Word, SameVersion

\* Both unlock loops keep the types of the words they move.
LEMMA UnlockType ==
    ASSUME TypeOK, NEW w \in Workers, NEW at \in PC, NEW to \in PC,
           UnlockLoad(w, at, to) \/ UnlockStore(w, at, to)
    PROVE  TypeOK'
  <1> USE DEF db, epochs, txn, tids, hist, Goto
  <1>1. CASE UnlockLoad(w, at, to)
    BY <1>1 DEF UnlockLoad, TypeOK
  <1>2. CASE UnlockStore(w, at, to)
    BY <1>2, WordTypes DEF UnlockStore, TypeOK
  <1> QED BY <1>1, <1>2

\* No step of the program leaves the types.
LEMMA TypeStep == TypeOK /\ [Next]_vars => TypeOK'
  <1> USE DEF db, epochs, txn, tids, hist, Goto
  <1> SUFFICES ASSUME TypeOK, [Next]_vars PROVE TypeOK'
    OBVIOUS
  <1>1. CASE SendQuit
    BY <1>1 DEF SendQuit, TypeOK
  <1>2. CASE UNCHANGED vars
    BY <1>2 DEF vars, TypeOK
  <1>3. ASSUME NEW w \in Workers, Worker(w) PROVE TypeOK'
    <2>1. CASE Quit(w)
      BY <2>1 DEF Quit, TypeOK, PC
    <2>2. CASE MakeProcedure(w)
      BY <2>2 DEF MakeProcedure, TypeOK, PC
    <2>3. CASE Begin(w)
      BY <2>3, WordTypes DEF Begin, TypeOK, PC
    <2>4. CASE EpochLoad(w)
      BY <2>4 DEF EpochLoad, TypeOK, PC, siloLeaderWork
    <2>5. CASE EpochStore(w)
      BY <2>5, WordTypes DEF EpochStore, TypeOK, PC
    <2>6. CASE ReadLocal(w)
      BY <2>6 DEF ReadLocal, TypeOK, PC, Advance
    <2>7. CASE ReadRecord(w)
      BY <2>7, NextOpType DEF ReadRecord, TypeOK, PC, Advance, Executing, Operation, ReadElement
    <2>8. CASE ReadNotFound(w)
      BY <2>8 DEF ReadNotFound, TypeOK, PC, Abandon
    <2>9. CASE Write(w)
      <3>0. [key |-> NextOp(w).key, val |-> NextOp(w).val, op |-> "WRITE"] \in WriteElement
        BY <2>9, NextOpType DEF Write, Executing, Operation, WriteElement
      <3>1. wset' \in [Workers -> SUBSET WriteElement]
        <4> DEFINE e == [key |-> NextOp(w).key, val |-> NextOp(w).val, op |-> "WRITE"]
        <4>1. wset' = wset \/ wset' = [wset EXCEPT ![w] = @ \cup {e}]
          BY <2>9 DEF Write
        <4> HIDE DEF e
        <4>2. e \in WriteElement
          BY <3>0 DEF e
        <4>3. wset \in [Workers -> SUBSET WriteElement] /\ wset[w] \cup {e} \in SUBSET WriteElement
          BY <4>2 DEF TypeOK
        <4> QED BY <4>1, <4>3
      <3>2. faults' \in SUBSET {"lockMissed", "absentWrite", "tidWrapped"}
        BY <2>9 DEF Write, TypeOK
      <3>3. idx' \in [Workers -> Nat \ {0}]
        BY <2>9 DEF Write, Advance, TypeOK
      <3>4. UNCHANGED <<word, body, index, GlobalEpoch, ThLocalEpoch, CTIDW, ge, quit, pc, pro,
                        rset, status, max_rset, max_wset, mrctid, todo, tmp, log>>
        BY <2>9 DEF Write
      <3> QED BY <3>1, <3>2, <3>3, <3>4 DEF TypeOK
    <2>10. CASE WriteNotFound(w)
      BY <2>10 DEF WriteNotFound, TypeOK, PC, Abandon
    <2>11. CASE Insert(w)
      <3>1. [ZeroWord EXCEPT !.absent = TRUE] \in Word
        BY WordTypes DEF Word
      <3> QED BY <2>11, <3>1, NextOpType
              DEF Insert, TypeOK, Advance, Executing, Operation, WriteElement
    <2>12. CASE InsertExists(w)
      BY <2>12 DEF InsertExists, TypeOK, PC, Advance
    <2>13. CASE BeginValidation(w)
      BY <2>13, KeySets DEF BeginValidation, TypeOK, PC
    <2>14. CASE LockRecord(w)
      BY <2>14, WordTypes DEF LockRecord, TypeOK, PC
    <2>15. CASE LockConflict(w)
      BY <2>15, KeySets DEF LockConflict, TypeOK, PC
    <2>16. CASE UnlockPrefix(w)
      BY <2>16, UnlockType DEF UnlockPrefix, PC
    <2>17. CASE LoadGE(w)
      BY <2>17 DEF LoadGE, TypeOK, PC
    <2>18. CASE StoreThLocalEpoch(w)
      BY <2>18, KeySets DEF StoreThLocalEpoch, TypeOK, PC
    <2>19. CASE ValidateRead(w)
      BY <2>19, WordTypes DEF ValidateRead, TypeOK, PC, ReadElement
    <2>20. CASE ValidationFails(w)
      BY <2>20, KeySets DEF ValidationFails, TypeOK, PC
    <2>21. CASE UnlockAll(w)
      BY <2>21, UnlockType DEF UnlockAll, PC
    <2>22. CASE Abort(w)
      BY <2>22 DEF Abort, TypeOK, PC, Abandon
    <2>23. CASE Commit(w)
      BY <2>23, KeySets, CommitTidType DEF Commit, TypeOK, PC, wal, LogRecord
    <2>24. CASE InstallBody(w)
      BY <2>24 DEF InstallBody, TypeOK, PC, WriteElement
    <2>25. CASE InstallWord(w)
      BY <2>25, InstalledWordType DEF InstallWord, TypeOK, PC
    <2>26. CASE FinishTx(w)
      BY <2>26 DEF FinishTx, TypeOK, PC
    <2> QED BY <1>3, <2>1, <2>2, <2>3, <2>4, <2>5, <2>6, <2>7, <2>8, <2>9, <2>10, <2>11, <2>12, <2>13, <2>14, <2>15, <2>16, <2>17, <2>18, <2>19, <2>20, <2>21, <2>22, <2>23, <2>24, <2>25, <2>26
            DEF Worker, ReadPhase, Validation, WritePhase
  <1> QED BY <1>1, <1>2, <1>3 DEF Next, Finished

\* Every variable keeps its type: words stay within their bit-fields, read and
\* write sets hold elements of their classes, a worker is at a place of its code.
THEOREM TypeCorrect == Spec => []TypeOK
  <1>1. Init => TypeOK
    <2> SUFFICES ASSUME Init PROVE TypeOK
      OBVIOUS
    <2>1. /\ word \in [Keys -> Word] /\ CTIDW \in [Workers -> Word]
          /\ max_rset \in [Workers -> Word] /\ max_wset \in [Workers -> Word]
          /\ mrctid \in [Workers -> Word] /\ tmp \in [Workers -> Word]
      BY WordTypes DEF Init
    <2>2. /\ pc \in [Workers -> PC]
          /\ status \in [Workers -> {"Invalid", "InFlight", "Committed", "Aborted"}]
      BY DEF Init, PC
    <2>3. /\ rset \in [Workers -> SUBSET ReadElement]
          /\ wset \in [Workers -> SUBSET WriteElement]
          /\ todo \in [Workers -> SUBSET Keys]
          /\ pro \in [Workers -> Procedures \cup {<<>>}]
      BY DEF Init
    <2>4. /\ body \in [Keys -> Nat] /\ ThLocalEpoch \in [Workers -> Nat]
          /\ ge \in [Workers -> Nat] /\ idx \in [Workers -> Nat \ {0}]
      BY DEF Init
    <2>6. index \in SUBSET Keys /\ GlobalEpoch \in Nat \ {0}
      BY SiloCCAssumption DEF Init
    <2>7. quit \in BOOLEAN
      BY Zenon DEF Init
    <2>5. log \in SUBSET LogRecord /\ faults \in SUBSET {"lockMissed", "absentWrite", "tidWrapped"}
      BY DEF Init
    <2> QED BY <2>1, <2>2, <2>3, <2>4, <2>5, <2>6, <2>7 DEF TypeOK
  <1> QED BY <1>1, TypeStep, PTL DEF Spec

-----------------------------------------------------------------------------
(* What a step of one worker leaves alone.                                  *)

\* The state a worker owns.
Local(v) == <<pc[v], pro[v], idx[v], rset[v], wset[v], status[v], max_rset[v],
              max_wset[v], mrctid[v], todo[v], tmp[v], ge[v], ThLocalEpoch[v]>>

\* A worker's step leaves every other worker's local state alone.
LEMMA OthersUnchanged ==
    ASSUME TypeOK, NEW w \in Workers, Worker(w), NEW v \in Workers, v # w
    PROVE  Local(v)' = Local(v)
  <1> USE DEF db, epochs, txn, tids, hist, Goto, TypeOK, Local
  <1>1. CASE Quit(w) \/ MakeProcedure(w) \/ Begin(w)
    BY <1>1 DEF Quit, MakeProcedure, Begin
  <1>2. CASE EpochLoad(w) \/ EpochStore(w)
    BY <1>2 DEF EpochLoad, EpochStore, siloLeaderWork
  <1>3. CASE ReadLocal(w) \/ ReadRecord(w) \/ ReadNotFound(w)
    BY <1>3 DEF ReadLocal, ReadRecord, ReadNotFound, Advance, Abandon
  <1>4. CASE Write(w)
    BY <1>4 DEF Write, Advance
  <1>5. CASE WriteNotFound(w) \/ Insert(w) \/ InsertExists(w)
    BY <1>5 DEF WriteNotFound, Insert, InsertExists, Advance, Abandon
  <1>6. CASE BeginValidation(w) \/ LockRecord(w) \/ LockConflict(w)
    BY <1>6 DEF BeginValidation, LockRecord, LockConflict
  <1>7. CASE UnlockPrefix(w) \/ UnlockAll(w)
    BY <1>7 DEF UnlockPrefix, UnlockAll, UnlockLoad, UnlockStore
  <1>8. CASE LoadGE(w) \/ StoreThLocalEpoch(w)
    BY <1>8 DEF LoadGE, StoreThLocalEpoch
  <1>9. CASE ValidateRead(w) \/ ValidationFails(w) \/ Abort(w)
    BY <1>9 DEF ValidateRead, ValidationFails, Abort, Abandon
  <1>10. CASE Commit(w)
    BY <1>10 DEF Commit, wal
  <1>11. CASE InstallBody(w) \/ InstallWord(w) \/ FinishTx(w)
    BY <1>11 DEF InstallBody, InstallWord, FinishTx
  <1> QED BY <1>1, <1>2, <1>3, <1>4, <1>5, <1>6, <1>7, <1>8, <1>9, <1>10, <1>11
          DEF Worker, ReadPhase, Validation, WritePhase

\* The log and the failed assumptions only grow, and keys stay in the index.
LEMMA HistoryGrows ==
    ASSUME NEW w \in Workers, Worker(w)
    PROVE  index \subseteq index' /\ faults \subseteq faults' /\ log \subseteq log'
  <1> USE DEF db, epochs, txn, tids, hist
  <1>1. CASE Quit(w) \/ MakeProcedure(w) \/ Begin(w)
    BY <1>1 DEF Quit, MakeProcedure, Begin
  <1>2. CASE EpochLoad(w) \/ EpochStore(w)
    BY <1>2 DEF EpochLoad, EpochStore, siloLeaderWork
  <1>3. CASE ReadLocal(w) \/ ReadRecord(w) \/ ReadNotFound(w)
    BY <1>3 DEF ReadLocal, ReadRecord, ReadNotFound, Advance, Abandon
  <1>4. CASE Write(w)
    BY <1>4 DEF Write, Advance
  <1>5. CASE WriteNotFound(w) \/ Insert(w) \/ InsertExists(w)
    BY <1>5 DEF WriteNotFound, Insert, InsertExists, Advance, Abandon
  <1>6. CASE BeginValidation(w) \/ LockRecord(w) \/ LockConflict(w)
    BY <1>6 DEF BeginValidation, LockRecord, LockConflict
  <1>7. CASE UnlockPrefix(w) \/ UnlockAll(w)
    BY <1>7 DEF UnlockPrefix, UnlockAll, UnlockLoad, UnlockStore
  <1>8. CASE LoadGE(w) \/ StoreThLocalEpoch(w)
    BY <1>8 DEF LoadGE, StoreThLocalEpoch
  <1>9. CASE ValidateRead(w) \/ ValidationFails(w) \/ Abort(w)
    BY <1>9 DEF ValidateRead, ValidationFails, Abort, Abandon
  <1>10. CASE Commit(w)
    BY <1>10 DEF Commit, wal
  <1>11. CASE InstallBody(w) \/ InstallWord(w) \/ FinishTx(w)
    BY <1>11 DEF InstallBody, InstallWord, FinishTx
  <1> QED BY <1>1, <1>2, <1>3, <1>4, <1>5, <1>6, <1>7, <1>8, <1>9, <1>10, <1>11
          DEF Worker, ReadPhase, Validation, WritePhase

-----------------------------------------------------------------------------
(* The local state of a worker fits its place in the code.                  *)

\* No step breaks the shape of a worker's local state.
LEMMA PhaseStep == TypeOK /\ PhaseInv /\ [Next]_vars => PhaseInv'
  <1> USE DEF db, epochs, txn, tids, hist, Goto
  <1> SUFFICES ASSUME TypeOK, PhaseInv, [Next]_vars PROVE PhaseInv'
    OBVIOUS
  <1>1. CASE SendQuit \/ UNCHANGED vars
    BY <1>1 DEF SendQuit, vars, PhaseInv, Phase, ReadKeys, WriteKeys, LockKeys
  <1>2. ASSUME NEW w \in Workers, Worker(w) PROVE PhaseInv'
    <2> SUFFICES ASSUME NEW v \in Workers PROVE Phase(v)'
      BY DEF PhaseInv
    <2>1. Phase(v) /\ Phase(w)
      BY DEF PhaseInv
    <2>2. CASE v # w
      BY <1>2, <2>1, <2>2, OthersUnchanged, HistoryGrows
         DEF Local, Phase, ReadKeys, WriteKeys, LockKeys
    <2>3. CASE v = w
      <3> SUFFICES Phase(w)'
        BY <2>3
      <3> USE <2>1 DEF TypeOK, Phase, ReadKeys, WriteKeys, LockKeys, KeysOf
      <3>1. CASE Quit(w)
        BY <3>1 DEF Quit
      <3>2. CASE MakeProcedure(w)
        BY <3>2 DEF MakeProcedure
      <3>3. CASE Begin(w)
        BY <3>3 DEF Begin
      <3>4. CASE EpochLoad(w)
        BY <3>4 DEF EpochLoad, siloLeaderWork
      <3>5. CASE EpochStore(w)
        BY <3>5 DEF EpochStore
      <3>6. CASE ReadLocal(w)
        BY <3>6 DEF ReadLocal, Advance, Executing
      <3>7. CASE ReadRecord(w)
        BY <3>7 DEF ReadRecord, Advance, Executing
      <3>8. CASE ReadNotFound(w)
        BY <3>8 DEF ReadNotFound, Abandon, Executing
      <3>9. CASE Write(w)
        BY <3>9 DEF Write, Advance, Executing
      <3>10. CASE WriteNotFound(w)
        BY <3>10 DEF WriteNotFound, Abandon, Executing
      <3>11. CASE Insert(w)
        BY <3>11 DEF Insert, Advance, Executing
      <3>12. CASE InsertExists(w)
        BY <3>12 DEF InsertExists, Advance, Executing
      <3>13. CASE BeginValidation(w)
        BY <3>13 DEF BeginValidation
      <3>14. CASE LockRecord(w)
        BY <3>14 DEF LockRecord
      <3>15. CASE LockConflict(w)
        BY <3>15 DEF LockConflict
      <3>16. CASE UnlockPrefix(w)
        BY <3>16 DEF UnlockPrefix, UnlockLoad, UnlockStore
      <3>17. CASE LoadGE(w)
        BY <3>17 DEF LoadGE
      <3>18. CASE StoreThLocalEpoch(w)
        BY <3>18 DEF StoreThLocalEpoch
      <3>19. CASE ValidateRead(w)
        BY <3>19 DEF ValidateRead
      <3>20. CASE ValidationFails(w)
        BY <3>20 DEF ValidationFails
      <3>21. CASE UnlockAll(w)
        BY <3>21 DEF UnlockAll, UnlockLoad, UnlockStore
      <3>22. CASE Abort(w)
        BY <3>22 DEF Abort, Abandon
      <3>23. CASE Commit(w)
        BY <3>23, CommitTidType DEF Commit, wal
      <3>24. CASE InstallBody(w)
        BY <3>24 DEF InstallBody
      <3>25. CASE InstallWord(w)
        BY <3>25 DEF InstallWord
      <3>26. CASE FinishTx(w)
        BY <3>26 DEF FinishTx
      <3> QED BY <1>2, <3>1, <3>2, <3>3, <3>4, <3>5, <3>6, <3>7, <3>8, <3>9, <3>10, <3>11, <3>12, <3>13, <3>14, <3>15, <3>16, <3>17, <3>18, <3>19, <3>20, <3>21, <3>22, <3>23, <3>24, <3>25, <3>26
              DEF Worker, ReadPhase, Validation, WritePhase
    <2> QED BY <2>2, <2>3
  <1> QED BY <1>1, <1>2 DEF Next, Finished

-----------------------------------------------------------------------------
(* What a step does to the locks: it leaves them as they are, takes one,    *)
(* stores over one, or puts a new record into the index.                    *)

Keeps(w) ==
    /\ word' = word
    /\ Held(w) \subseteq Held(w)'
    /\ LockingTrusted => Held(w)' = Held(w)

Takes(w, k) ==
    /\ k \in LockKeys(w)
    /\ ~word[k].lock
    /\ word' = [word EXCEPT ![k] = Locked(@)]
    /\ Held(w)' = Held(w) \cup {k}

Releases(w, k) ==
    /\ k \in WriteKeys(w)
    /\ k \in Held(w) \/ k \in PendingInserts(w)
    /\ k \in LockKeys(w) \/ k \notin PendingInserts(w)'
    /\ ~word'[k].lock
    /\ \A j \in Keys \ {k} : word'[j] = word[j]
    /\ Held(w)' = Held(w) \ {k}

Creates(w, k) ==
    /\ k \notin index
    /\ ~word'[k].lock /\ word'[k].absent
    /\ \A j \in Keys \ {k} : word'[j] = word[j]
    /\ Held(w)' = Held(w)

\* The steps that touch no lock bit keep every worker's locks.
LEMMA KeepsStep ==
    ASSUME TypeOK, NEW w \in Workers, Phase(w),
           \/ Quit(w) \/ MakeProcedure(w) \/ Begin(w) \/ EpochLoad(w) \/ EpochStore(w)
           \/ ReadLocal(w) \/ ReadRecord(w) \/ ReadNotFound(w) \/ Write(w) \/ WriteNotFound(w)
           \/ InsertExists(w) \/ BeginValidation(w) \/ LockConflict(w) \/ LoadGE(w) \/ StoreThLocalEpoch(w)
           \/ ValidateRead(w) \/ ValidationFails(w) \/ Abort(w) \/ Commit(w) \/ InstallBody(w)
           \/ FinishTx(w)
    PROVE  Keeps(w)
  <1> USE DEF db, epochs, txn, tids, hist, Goto, TypeOK, Phase, Keeps, Held,
              LockingTrusted, ReadKeys, WriteKeys, LockKeys, KeysOf
  <1>1. CASE Quit(w)
    BY <1>1 DEF Quit
  <1>2. CASE MakeProcedure(w)
    BY <1>2 DEF MakeProcedure
  <1>3. CASE Begin(w)
    BY <1>3 DEF Begin
  <1>4. CASE EpochLoad(w)
    BY <1>4 DEF EpochLoad
  <1>5. CASE EpochStore(w)
    BY <1>5 DEF EpochStore
  <1>6. CASE ReadLocal(w)
    BY <1>6 DEF ReadLocal, Executing
  <1>7. CASE ReadRecord(w)
    BY <1>7 DEF ReadRecord, Executing
  <1>8. CASE ReadNotFound(w)
    BY <1>8 DEF ReadNotFound, Abandon, Executing
  <1>9. CASE Write(w)
    BY <1>9 DEF Write, Executing
  <1>10. CASE WriteNotFound(w)
    BY <1>10 DEF WriteNotFound, Abandon, Executing
  <1>11. CASE InsertExists(w)
    BY <1>11 DEF InsertExists, Executing
  <1>12. CASE BeginValidation(w)
    BY <1>12 DEF BeginValidation
  <1>13. CASE LockConflict(w)
    BY <1>13 DEF LockConflict
  <1>14. CASE LoadGE(w)
    BY <1>14 DEF LoadGE
  <1>15. CASE StoreThLocalEpoch(w)
    BY <1>15 DEF StoreThLocalEpoch
  <1>16. CASE ValidateRead(w)
    BY <1>16 DEF ValidateRead
  <1>17. CASE ValidationFails(w)
    BY <1>17 DEF ValidationFails
  <1>18. CASE Abort(w)
    BY <1>18 DEF Abort, Abandon
  <1>19. CASE Commit(w)
    BY <1>19 DEF Commit
  <1>20. CASE InstallBody(w)
    BY <1>20 DEF InstallBody
  <1>21. CASE FinishTx(w)
    BY <1>21 DEF FinishTx
  <1> QED BY <1>1, <1>2, <1>3, <1>4, <1>5, <1>6, <1>7, <1>8, <1>9, <1>10, <1>11, <1>12, <1>13, <1>14, <1>15, <1>16, <1>17, <1>18, <1>19, <1>20, <1>21

\* The load of an unlock touches no lock bit.
LEMMA UnlockLoadStep ==
    ASSUME TypeOK, NEW w \in Workers, Phase(w),
           \/ UnlockLoad(w, "unlockPrefix", "storePrefix")
           \/ UnlockLoad(w, "unlockAll", "storeAll")
    PROVE  Keeps(w)
  BY DEF UnlockLoad, db, epochs, txn, tids, hist, Goto, TypeOK, Phase, Keeps, Held,
         LockingTrusted, LockKeys, KeysOf

\* lockWriteSet's compare-and-swap takes the lock of an unlocked record.
LEMMA TakesStep ==
    ASSUME TypeOK, NEW w \in Workers, Phase(w), LockRecord(w)
    PROVE  \E k \in Keys : Takes(w, k)
  <1> USE DEF db, epochs, txn, tids, hist
  <1>1. PICK k \in Keys : /\ IsNext(w, k)
                          /\ ~word[k].lock
                          /\ word' = [word EXCEPT ![k] = Locked(@)]
                          /\ todo' = [todo EXCEPT ![w] = @ \ {k}]
    BY DEF LockRecord
  <1>2. pc[w] = "lock" /\ pc' = pc /\ LockKeys(w)' = LockKeys(w)
    BY DEF LockRecord, LockKeys
  <1>3. k \in todo[w] /\ todo[w] \subseteq LockKeys(w) /\ todo'[w] = todo[w] \ {k}
    BY <1>1, <1>2 DEF IsNext, Phase, TypeOK
  <1>4. Held(w) = LockKeys(w) \ todo[w] /\ Held(w)' = LockKeys(w) \ todo'[w]
    BY <1>2 DEF Held
  <1>5. Held(w)' = Held(w) \cup {k}
    BY <1>3, <1>4
  <1> QED BY <1>1, <1>3, <1>5 DEF Takes

\* The stores of unlockWriteSet and writePhase release what the worker held.
LEMMA ReleasesStep ==
    ASSUME TypeOK, NEW w \in Workers, Phase(w),
           \/ UnlockStore(w, "storePrefix", "unlockPrefix")
           \/ UnlockStore(w, "storeAll", "unlockAll")
           \/ InstallWord(w)
    PROVE  \E k \in Keys : Releases(w, k)
  <1> USE DEF db, epochs, txn, tids, hist
  <1>1. PICK k \in Keys : /\ IsNext(w, k)
                          /\ \/ word' = [word EXCEPT ![k] = Unlocked(tmp[w])]
                             \/ word' = [word EXCEPT ![k] = InstalledWord(w, k)]
                          /\ todo' = [todo EXCEPT ![w] = @ \ {k}]
    BY DEF UnlockStore, InstallWord
  <1>2. k \in todo[w] /\ todo'[w] = todo[w] \ {k}
    BY <1>1 DEF IsNext, TypeOK
  <1>3. ~word'[k].lock /\ \A j \in Keys \ {k} : word'[j] = word[j]
    <2>1. ~Unlocked(tmp[w]).lock
      BY DEF Unlocked, Word, TypeOK
    <2>2. ~InstalledWord(w, k).lock
      BY InstalledWordType DEF Phase
    <2> QED BY <1>1, <2>1, <2>2 DEF TypeOK
  <1>4. wset' = wset /\ LockKeys(w)' = LockKeys(w)
    BY DEF UnlockStore, InstallWord, LockKeys
  <1>5. /\ pc[w] \in {"storePrefix", "storeAll", "installWord"}
        /\ pc'[w] \in {"unlockPrefix", "unlockAll", "install"}
    BY DEF UnlockStore, InstallWord, Goto, TypeOK
  <1>6. Held(w) = todo[w] \cap LockKeys(w) /\ Held(w)' = todo'[w] \cap LockKeys(w)
    BY <1>4, <1>5 DEF Held
  <1>7. k \in WriteKeys(w)
    BY <1>2, <1>5, KeySets DEF Phase
  <1>8. k \in Held(w) \/ k \in PendingInserts(w)
    <2>1. k \notin LockKeys(w) => k \in KeysOf({e \in wset[w] : e.op = "INSERT"})
      BY <1>7 DEF WriteKeys, LockKeys, KeysOf
    <2> QED BY <1>2, <1>6, <2>1 DEF PendingInserts
  <1>9. k \in LockKeys(w) \/ k \notin PendingInserts(w)'
    <2>1. CASE pc[w] = "installWord"
      <3>1. pc'[w] = "install"
        BY <2>1 DEF UnlockStore, InstallWord, Goto, TypeOK
      <3> QED BY <1>2, <3>1 DEF PendingInserts
    <2>2. CASE pc[w] # "installWord"
      BY <1>2, <1>5, <2>2 DEF Phase
    <2> QED BY <2>1, <2>2
  <1> QED BY <1>2, <1>3, <1>6, <1>7, <1>8, <1>9 DEF Releases

\* insert() creates an unlocked record.
LEMMA CreatesStep ==
    ASSUME TypeOK, NEW w \in Workers, Phase(w), Insert(w)
    PROVE  \E k \in Keys : Creates(w, k)
  <1>1. NextOp(w).key \in Keys
    BY NextOpType DEF Insert, Executing, Operation
  <1> QED BY <1>1 DEF Insert, Executing, db, epochs, txn, tids, hist, TypeOK, Creates, Held,
                      ZeroWord

\* Every step of a worker is one of the four.
LEMMA LockSteps ==
    ASSUME TypeOK, NEW w \in Workers, Phase(w), Worker(w)
    PROVE  Keeps(w) \/ \E k \in Keys : Takes(w, k) \/ Releases(w, k) \/ Creates(w, k)
  <1>1. CASE LockRecord(w)
    BY <1>1, TakesStep
  <1>2. CASE Insert(w)
    BY <1>2, CreatesStep
  <1>3. CASE UnlockPrefix(w) \/ UnlockAll(w) \/ InstallWord(w)
    BY <1>3, UnlockLoadStep, ReleasesStep DEF UnlockPrefix, UnlockAll
  <1> QED BY <1>1, <1>2, <1>3, KeepsStep DEF Worker, ReadPhase, Validation, WritePhase

-----------------------------------------------------------------------------
(* No lock leaks, and a trusted lock has one holder.                        *)

\* A worker's step changes no other worker's set of held locks.
LEMMA HeldOthers ==
    ASSUME TypeOK, NEW w \in Workers, Worker(w), NEW v \in Workers, v # w
    PROVE  Held(v)' = Held(v) /\ WriteKeys(v)' = WriteKeys(v)
  BY OthersUnchanged DEF Local, Held, LockKeys, WriteKeys

\* No step leaves a lock bit set without an owner.
LEMMA LockHasOwnerStep ==
    TypeOK /\ PhaseInv /\ LockHasOwner /\ [Next]_vars => LockHasOwner'
  <1> SUFFICES ASSUME TypeOK, PhaseInv, LockHasOwner, [Next]_vars
               PROVE  LockHasOwner'
    OBVIOUS
  <1>1. CASE SendQuit \/ UNCHANGED vars
    BY <1>1 DEF SendQuit, vars, db, txn, LockHasOwner, Held, LockKeys
  <1>2. ASSUME NEW w \in Workers, Worker(w) PROVE LockHasOwner'
    <2> SUFFICES ASSUME NEW k \in Keys, word'[k].lock
                 PROVE  \E v \in Workers : k \in Held(v)'
      BY DEF LockHasOwner
    <2>1. CASE \E v \in Workers : v # w /\ k \in Held(v)
      BY <1>2, <2>1, HeldOthers
    <2>2. CASE word[k].lock => k \in Held(w)
      <3>1. Keeps(w) => k \in Held(w)'
        BY <2>2 DEF Keeps
      <3>2. ASSUME NEW j \in Keys, Takes(w, j) PROVE k \in Held(w)'
        BY <2>2, <3>2 DEF Takes, TypeOK
      <3>3. ASSUME NEW j \in Keys, Releases(w, j) PROVE k \in Held(w)'
        BY <2>2, <3>3 DEF Releases
      <3>4. ASSUME NEW j \in Keys, Creates(w, j) PROVE k \in Held(w)'
        BY <2>2, <3>4 DEF Creates
      <3> QED BY <1>2, <3>1, <3>2, <3>3, <3>4, LockSteps DEF PhaseInv
    <2> QED BY <2>1, <2>2 DEF LockHasOwner
  <1> QED BY <1>1, <1>2 DEF Next, Finished

\* The local state of a worker always fits its place in the code.
LEMMA PhaseInvariant == Spec => []PhaseInv
  <1>1. Init => PhaseInv
    BY DEF Init, PhaseInv, Phase, ReadKeys, WriteKeys, KeysOf, ZeroWord
  <1> QED BY <1>1, PhaseStep, TypeCorrect, PTL DEF Spec

\* No lock leaks, whatever has failed before: a record whose lock bit is set by
\* lockWriteSet is in the write set of a worker that will still store over it.
THEOREM LocksNeverLeak == Spec => []LockHasOwner
  <1>1. Init => LockHasOwner
    BY DEF Init, LockHasOwner, ZeroWord
  <1> QED BY <1>1, LockHasOwnerStep, TypeCorrect, PhaseInvariant, PTL DEF Spec

\* What a step does to the write set: only write() and insert() extend it.
SameWrites(w) ==
    /\ WriteKeys(w)' \subseteq WriteKeys(w)
    /\ LockKeys(w)' \subseteq LockKeys(w)
    /\ PendingInserts(w)' \subseteq PendingInserts(w)

AddsWrite(w, k) ==
    /\ ~word[k].absent
    /\ word' = word
    /\ WriteKeys(w)' \subseteq WriteKeys(w) \cup {k}
    /\ LockKeys(w)' \subseteq LockKeys(w) \cup {k}
    /\ PendingInserts(w)' \subseteq PendingInserts(w)

AddsInsert(w, k) ==
    /\ k \notin index
    /\ word'[k].absent /\ ~word'[k].lock
    /\ WriteKeys(w)' \subseteq WriteKeys(w) \cup {k}
    /\ LockKeys(w)' \subseteq LockKeys(w)
    /\ PendingInserts(w)' \subseteq PendingInserts(w) \cup {k}

\* write() adds at most one key to the write set, and notes an absent record.
LEMMA WriteStep ==
    ASSUME TypeOK, NEW w \in Workers, Write(w), LockingTrusted'
    PROVE  SameWrites(w) \/ \E k \in Keys : AddsWrite(w, k)
  <1> USE DEF db, epochs, txn, tids, hist, TypeOK, WriteKeys, LockKeys, PendingInserts, KeysOf
  <1> DEFINE k == NextOp(w).key
  <1>0. k \in Keys
    BY NextOpType DEF Write, Executing, Operation
  <1>1. CASE wset' = wset
    BY <1>1 DEF Write, Executing, SameWrites
  <1>2. CASE wset' # wset
    <2>1. /\ wset' = [wset EXCEPT ![w] = @ \cup {[key |-> k, val |-> NextOp(w).val, op |-> "WRITE"]}]
          /\ faults' = IF word[k].absent THEN faults \cup {"absentWrite"} ELSE faults
      BY <1>2 DEF Write
    <2>2. ~word[k].absent
      BY <2>1 DEF LockingTrusted
    <2>3. word' = word /\ pc' = pc /\ todo' = todo
      BY DEF Write
    <2> HIDE DEF k
    <2>4. wset'[w] = wset[w] \cup {[key |-> k, val |-> NextOp(w).val, op |-> "WRITE"]}
      BY <2>1
    <2>5. /\ WriteKeys(w)' \subseteq WriteKeys(w) \cup {k}
          /\ LockKeys(w)' \subseteq LockKeys(w) \cup {k}
          /\ PendingInserts(w)' \subseteq PendingInserts(w)
      BY <2>3, <2>4
    <2> QED BY <1>0, <2>2, <2>3, <2>5 DEF AddsWrite
  <1> QED BY <1>1, <1>2

\* insert() adds one key nobody else has to the write set.
LEMMA InsertStep ==
    ASSUME TypeOK, NEW w \in Workers, Insert(w)
    PROVE  \E k \in Keys : AddsInsert(w, k)
  <1> USE DEF db, epochs, txn, tids, hist, TypeOK, WriteKeys, LockKeys, PendingInserts, KeysOf
  <1> DEFINE k == NextOp(w).key
  <1>0. k \in Keys
    BY NextOpType DEF Insert, Executing, Operation
  <1>1. /\ k \notin index /\ pc' = pc /\ todo' = todo
        /\ word' = [word EXCEPT ![k] = [ZeroWord EXCEPT !.absent = TRUE]]
        /\ wset' = [wset EXCEPT ![w] = @ \cup {[key |-> k, val |-> NextOp(w).val, op |-> "INSERT"]}]
    BY DEF Insert
  <1> HIDE DEF k
  <1>2. word'[k].absent /\ ~word'[k].lock
    BY <1>0, <1>1 DEF ZeroWord
  <1>3. wset'[w] = wset[w] \cup {[key |-> k, val |-> NextOp(w).val, op |-> "INSERT"]}
    BY <1>1
  <1>4. /\ WriteKeys(w)' \subseteq WriteKeys(w) \cup {k}
        /\ LockKeys(w)' \subseteq LockKeys(w)
        /\ PendingInserts(w)' \subseteq PendingInserts(w) \cup {k}
    BY <1>1, <1>3
  <1> QED BY <1>0, <1>1, <1>2, <1>4 DEF AddsInsert

\* Every step of a worker keeps, extends or empties its write set.
LEMMA WriteSetSteps ==
    ASSUME TypeOK, NEW w \in Workers, Phase(w), Worker(w), LockingTrusted'
    PROVE  SameWrites(w) \/ \E k \in Keys : AddsWrite(w, k) \/ AddsInsert(w, k)
  <1> USE DEF db, epochs, txn, tids, hist, Goto, TypeOK, Phase, SameWrites,
              WriteKeys, LockKeys, PendingInserts, KeysOf
  <1>1. CASE Quit(w) \/ MakeProcedure(w) \/ Begin(w)
    BY <1>1 DEF Quit, MakeProcedure, Begin
  <1>2. CASE EpochLoad(w) \/ EpochStore(w)
    BY <1>2 DEF EpochLoad, EpochStore
  <1>3. CASE ReadLocal(w) \/ ReadRecord(w) \/ InsertExists(w)
    BY <1>3 DEF ReadLocal, ReadRecord, InsertExists, Executing
  <1>4. CASE ReadNotFound(w) \/ WriteNotFound(w) \/ Abort(w)
    BY <1>4 DEF ReadNotFound, WriteNotFound, Abort, Abandon
  <1>5. CASE BeginValidation(w) \/ LockRecord(w) \/ LockConflict(w)
    BY <1>5 DEF BeginValidation, LockRecord, LockConflict
  <1>6. CASE UnlockPrefix(w) \/ UnlockAll(w)
    BY <1>6 DEF UnlockPrefix, UnlockAll, UnlockLoad, UnlockStore
  <1>7. CASE LoadGE(w) \/ StoreThLocalEpoch(w)
    BY <1>7 DEF LoadGE, StoreThLocalEpoch
  <1>8. CASE ValidateRead(w) \/ ValidationFails(w)
    BY <1>8 DEF ValidateRead, ValidationFails
  <1>9. CASE Commit(w)
    BY <1>9 DEF Commit
  <1>10. CASE InstallBody(w) \/ InstallWord(w) \/ FinishTx(w)
    BY <1>10 DEF InstallBody, InstallWord, FinishTx
  <1> QED BY <1>1, <1>2, <1>3, <1>4, <1>5, <1>6, <1>7, <1>8, <1>9, <1>10,
             WriteStep, InsertStep DEF Worker, ReadPhase, Validation, WritePhase

\* If the locking is trusted after a step, it was trusted before it.
LEMMA TrustBefore ==
    ASSUME NEW w \in Workers, Worker(w), LockingTrusted'
    PROVE  LockingTrusted
  BY HistoryGrows DEF LockingTrusted

\* A worker holds locks of records that are in the index.
LEMMA HeldInIndex ==
    ASSUME TypeOK, PhaseInv, NEW v \in Workers
    PROVE  /\ Held(v) \subseteq WriteKeys(v)
           /\ PendingInserts(v) \subseteq WriteKeys(v)
           /\ WriteKeys(v) \subseteq index
  <1>1. Held(v) \subseteq LockKeys(v)
    BY DEF Held
  <1>2. PendingInserts(v) \subseteq WriteKeys(v)
    BY DEF PendingInserts, WriteKeys, KeysOf
  <1> QED BY <1>1, <1>2, KeySets DEF PhaseInv, Phase

\* A worker's step leaves the pending inserts of the others alone.
LEMMA PendingOthers ==
    ASSUME TypeOK, NEW w \in Workers, Worker(w), NEW v \in Workers, v # w
    PROVE  /\ PendingInserts(v)' = PendingInserts(v)
           /\ LockKeys(v)' = LockKeys(v)
           /\ WriteKeys(v)' = WriteKeys(v)
  BY OthersUnchanged DEF Local, PendingInserts, LockKeys, WriteKeys

\* A record inserted and not yet installed stays unlocked and its inserter's own.
LEMMA InsertStepInv ==
    TypeOK /\ PhaseInv /\ InsertInv /\ [Next]_vars => InsertInv'
  <1> SUFFICES ASSUME TypeOK, PhaseInv, InsertInv, [Next]_vars PROVE InsertInv'
    OBVIOUS
  <1>1. CASE SendQuit \/ UNCHANGED vars
    BY <1>1 DEF SendQuit, vars, db, txn, hist, InsertInv, LockingTrusted,
                PendingInserts, WriteKeys, LockKeys
  <1>2. ASSUME NEW w \in Workers, Worker(w) PROVE InsertInv'
    <2> SUFFICES ASSUME LockingTrusted', NEW u \in Workers, NEW k \in PendingInserts(u)'
                 PROVE  /\ word'[k].absent /\ ~word'[k].lock
                        /\ k \notin LockKeys(u)'
                        /\ \A v \in Workers \ {u} : k \notin WriteKeys(v)'
      BY DEF InsertInv
    <2>1. LockingTrusted
      BY <1>2, TrustBefore
    <2>2. k \in Keys
      <3>1. TypeOK'
        BY TypeStep
      <3>2. PendingInserts(u)' \subseteq Keys
        BY <3>1 DEF TypeOK, PendingInserts, KeysOf, WriteElement
      <3> QED BY <3>2
    <2>3. SameWrites(w) \/ \E j \in Keys : AddsWrite(w, j) \/ AddsInsert(w, j)
      BY <1>2, <2>1, WriteSetSteps DEF PhaseInv
    <2>4. CASE k \in PendingInserts(u)
      <3>1. /\ word[k].absent /\ ~word[k].lock /\ k \notin LockKeys(u) /\ k \in index
            /\ \A v \in Workers \ {u} : k \notin WriteKeys(v)
        BY <2>1, <2>4, HeldInIndex DEF InsertInv
      <3>2. word'[k] = word[k]
        <4>1. ASSUME NEW j \in Keys, Takes(w, j) PROVE word'[k] = word[k]
          BY <2>2, <3>1, <4>1, KeySets DEF Takes, TypeOK
        <4>2. ASSUME NEW j \in Keys, Releases(w, j) PROVE word'[k] = word[k]
          BY <2>2, <3>1, <4>2 DEF Releases
        <4>3. ASSUME NEW j \in Keys, Creates(w, j) PROVE word'[k] = word[k]
          BY <2>2, <3>1, <4>3 DEF Creates
        <4> QED BY <1>2, <4>1, <4>2, <4>3, LockSteps DEF PhaseInv, Keeps
      <3>3. k \notin LockKeys(u)'
        <4>1. CASE u = w
          BY <2>3, <3>1, <4>1, <2>4, HeldInIndex DEF SameWrites, AddsWrite, AddsInsert
        <4>2. CASE u # w
          BY <1>2, <3>1, <4>2, PendingOthers
        <4> QED BY <4>1, <4>2
      <3>4. \A v \in Workers \ {u} : k \notin WriteKeys(v)'
        <4> SUFFICES ASSUME NEW v \in Workers \ {u} PROVE k \notin WriteKeys(v)'
          OBVIOUS
        <4>1. CASE v = w
          BY <2>3, <3>1, <4>1 DEF SameWrites, AddsWrite, AddsInsert
        <4>2. CASE v # w
          BY <1>2, <3>1, <4>2, PendingOthers
        <4> QED BY <4>1, <4>2
      <3> QED BY <3>1, <3>2, <3>3, <3>4
    <2>5. CASE k \notin PendingInserts(u)
      <3>1. u = w
        BY <1>2, <2>5, PendingOthers
      <3>2. AddsInsert(w, k)
        <4>1. PICK j \in Keys : AddsInsert(w, j)
          BY <2>3, <2>5, <3>1 DEF SameWrites, AddsWrite
        <4>2. j = k
          BY <2>5, <3>1, <4>1 DEF AddsInsert
        <4> QED BY <4>1, <4>2
      <3>3. k \notin LockKeys(w)'
        BY <3>2, KeySets, HeldInIndex DEF AddsInsert
      <3>4. ASSUME NEW v \in Workers \ {w} PROVE k \notin WriteKeys(v)'
        BY <1>2, <3>2, HeldInIndex, PendingOthers DEF AddsInsert
      <3> QED BY <3>1, <3>2, <3>3, <3>4 DEF AddsInsert
    <2> QED BY <2>4, <2>5
  <1> QED BY <1>1, <1>2 DEF Next, Finished

\* No step gives a lock a second holder or clears it under its holder.
LEMMA SingleHolderStep ==
    TypeOK /\ PhaseInv /\ InsertInv /\ SingleHolder /\ [Next]_vars => SingleHolder'
  <1> SUFFICES ASSUME TypeOK, PhaseInv, InsertInv, SingleHolder, [Next]_vars
               PROVE  SingleHolder'
    OBVIOUS
  <1>1. CASE SendQuit \/ UNCHANGED vars
    BY <1>1 DEF SendQuit, vars, db, txn, hist, SingleHolder, LockingTrusted, Held, LockKeys
  <1>2. ASSUME NEW w \in Workers, Worker(w) PROVE SingleHolder'
    <2> SUFFICES ASSUME LockingTrusted', NEW u \in Workers, NEW k \in Held(u)'
                 PROVE  /\ word'[k].lock
                        /\ \A v \in Workers \ {u} : k \notin Held(v)'
      BY DEF SingleHolder
    <2>1. LockingTrusted
      BY <1>2, TrustBefore
    <2>2. \A v \in Workers \ {w} : Held(v)' = Held(v)
      BY <1>2, HeldOthers
    <2>3. \A v \in Workers : Held(v) \subseteq Keys
      BY HeldInIndex, KeySets
    <2>4. \A x \in Workers : \A j \in Held(x) :
             word[j].lock /\ \A y \in Workers \ {x} : j \notin Held(y)
      BY <2>1 DEF SingleHolder
    <2>5. CASE Keeps(w)
      BY <2>1, <2>2, <2>4, <2>5 DEF Keeps
    <2>6. ASSUME NEW j \in Keys, Takes(w, j)
          PROVE  word'[k].lock /\ \A v \in Workers \ {u} : k \notin Held(v)'
      <3>1. \A x \in Workers : j \notin Held(x)
        BY <2>4, <2>6 DEF Takes
      <3>2. \A v \in Workers \ {u} : k \notin Held(v)'
        BY <2>2, <2>4, <2>6, <3>1 DEF Takes
      <3>3. k = j \/ k \in Held(u)
        BY <2>2, <2>6 DEF Takes
      <3>4. k = j => word'[k].lock
        BY <2>6 DEF Takes, Locked, TypeOK, Word
      <3>5. k # j => word'[k] = word[k]
        BY <2>3, <2>6, <3>3 DEF Takes, TypeOK
      <3> QED BY <2>4, <3>2, <3>3, <3>4, <3>5
    <2>7. ASSUME NEW j \in Keys, Releases(w, j)
          PROVE  word'[k].lock /\ \A v \in Workers \ {u} : k \notin Held(v)'
      <3>1. k \in Held(u) /\ \A v \in Workers \ {u} : k \notin Held(v)'
        BY <2>2, <2>4, <2>7 DEF Releases
      <3>2. k # j
        <4>1. CASE u = w
          BY <2>7, <4>1 DEF Releases
        <4>2. CASE u # w
          BY <2>1, <2>4, <2>7, <3>1, <4>2, HeldInIndex DEF Releases, InsertInv
        <4> QED BY <4>1, <4>2
      <3> QED BY <2>3, <2>4, <2>7, <3>1, <3>2 DEF Releases
    <2>8. ASSUME NEW j \in Keys, Creates(w, j)
          PROVE  word'[k].lock /\ \A v \in Workers \ {u} : k \notin Held(v)'
      <3>1. k \in Held(u) /\ \A v \in Workers \ {u} : k \notin Held(v)'
        BY <2>2, <2>4, <2>8 DEF Creates
      <3>2. k # j
        BY <2>8, <3>1, HeldInIndex DEF Creates
      <3> QED BY <2>3, <2>4, <2>8, <3>1, <3>2 DEF Creates
    <2> QED BY <1>2, <2>5, <2>6, <2>7, <2>8, LockSteps DEF PhaseInv
  <1> QED BY <1>1, <1>2 DEF Next, Finished

\* While no lock conflict was ignored and no absent record written, a write lock
\* has one holder, and no store of another worker clears it.
THEOREM LocksAreExclusive == Spec => []SingleHolder
  <1>1. Init => InsertInv /\ SingleHolder
    BY DEF Init, InsertInv, SingleHolder, PendingInserts, Held, KeysOf
  <1> QED BY <1>1, InsertStepInv, SingleHolderStep, TypeCorrect, PhaseInvariant, PTL DEF Spec

-----------------------------------------------------------------------------
(* The log is ahead of the records.                                         *)

\* What is logged stays logged.
LEMMA LoggedStays ==
    ASSUME NEW k, NEW x, log \subseteq log', Logged(k, x)
    PROVE  Logged(k, x)'
  BY DEF Logged

\* Being logged depends on a word's version only.
LEMMA LoggedVersion ==
    ASSUME NEW k, NEW x, NEW y, SameVersion(x, y), Logged(k, y)
    PROVE  Logged(k, x)
  BY DEF Logged, SameVersion

\* What worker w is about to store, for WalInv.
Wal(w) ==
    /\ pc[w] \in {"storePrefix", "storeAll"} =>
         \A k \in Keys : IsNext(w, k) => Logged(k, tmp[w])
    /\ pc[w] \in {"install", "installWord"} =>
         \A k \in WriteKeys(w) : Logged(k, mrctid[w])

\* A step of another worker keeps the words a worker is about to store logged.
LEMMA WalOthers ==
    ASSUME TypeOK, NEW w \in Workers, Worker(w), NEW v \in Workers, v # w, Wal(v)
    PROVE  Wal(v)'
  <1>1. /\ pc'[v] = pc[v] /\ tmp'[v] = tmp[v] /\ mrctid'[v] = mrctid[v]
        /\ todo'[v] = todo[v] /\ wset'[v] = wset[v]
    BY OthersUnchanged DEF Local
  <1>2. log \subseteq log'
    BY HistoryGrows
  <1> QED BY <1>1, <1>2 DEF Wal, IsNext, WriteKeys, Logged

\* Only these actions change a record's word.
LEMMA WordUnchanged ==
    ASSUME NEW w \in Workers, Worker(w), word' # word
    PROVE  \/ LockRecord(w) \/ Insert(w) \/ InstallWord(w)
           \/ UnlockStore(w, "storePrefix", "unlockPrefix")
           \/ UnlockStore(w, "storeAll", "unlockAll")
  BY DEF db, Worker, ReadPhase, Validation, WritePhase, Quit, MakeProcedure, Begin, EpochLoad, EpochStore,
         ReadLocal, ReadRecord, ReadNotFound, Write, WriteNotFound, InsertExists,
         BeginValidation, LockConflict, LoadGE, StoreThLocalEpoch, ValidateRead, ValidationFails, Abort, Commit, InstallBody, FinishTx,
         UnlockPrefix, UnlockAll, UnlockLoad

\* Only read() adds to a read set.
LEMMA ReadSetShrinks ==
    ASSUME TypeOK, NEW w \in Workers, Worker(w), ~ReadRecord(w)
    PROVE  \A v \in Workers : rset'[v] \subseteq rset[v]
  BY DEF db, txn, TypeOK, Abandon, Worker, ReadPhase, Validation, WritePhase,
         Quit, MakeProcedure, Begin, EpochLoad, EpochStore,
         ReadLocal, ReadNotFound, Write, WriteNotFound, InsertExists,
         BeginValidation, LockConflict, LoadGE, StoreThLocalEpoch, ValidateRead, ValidationFails, Abort, Commit, InstallBody, FinishTx,
         UnlockPrefix, UnlockAll, UnlockLoad, UnlockStore, LockRecord, Insert, InstallWord

\* The version a step leaves in a record is logged.
LEMMA WordsLogged ==
    ASSUME TypeOK, PhaseInv, NEW w \in Workers, Worker(w), Wal(w), WriteAhead
    PROVE  \A k \in Keys : Logged(k, word'[k])
  <1> USE DEF db, epochs, txn, tids, hist, WriteAhead
  <1>1. CASE word' = word
    BY <1>1
  <1>2. CASE LockRecord(w)
    <2>1. PICK j \in Keys : word' = [word EXCEPT ![j] = Locked(@)]
      BY <1>2 DEF LockRecord
    <2>2. \A k \in Keys : SameVersion(word'[k], word[k])
      BY <2>1 DEF TypeOK, SameVersion, Locked, Word
    <2> QED BY <2>2, LoggedVersion
  <1>3. CASE Insert(w)
    BY <1>3 DEF Insert, Logged, TypeOK, ZeroWord
  <1>4. CASE \/ UnlockStore(w, "storePrefix", "unlockPrefix")
             \/ UnlockStore(w, "storeAll", "unlockAll")
    <2>1. PICK j \in Keys : IsNext(w, j) /\ word' = [word EXCEPT ![j] = Unlocked(tmp[w])]
      BY <1>4 DEF UnlockStore
    <2>2. Logged(j, tmp[w])
      BY <1>4, <2>1 DEF UnlockStore, Wal
    <2>3. SameVersion(Unlocked(tmp[w]), tmp[w])
      BY DEF TypeOK, SameVersion, Unlocked, Word
    <2>4. Logged(j, Unlocked(tmp[w]))
      BY <2>2, <2>3, LoggedVersion
    <2> QED BY <2>1, <2>4 DEF TypeOK
  <1>5. CASE InstallWord(w)
    <2>1. PICK j \in Keys : IsNext(w, j) /\ word' = [word EXCEPT ![j] = InstalledWord(w, j)]
      BY <1>5 DEF InstallWord
    <2>2. j \in WriteKeys(w)
      BY <1>5, <2>1 DEF InstallWord, IsNext, PhaseInv, Phase
    <2>3. Logged(j, InstalledWord(w, j))
      BY <1>5, <2>2, InstalledWordType, LoggedVersion DEF InstallWord, Wal
    <2> QED BY <2>1, <2>3 DEF TypeOK
  <1> QED BY <1>1, <1>2, <1>3, <1>4, <1>5, WordUnchanged

\* The versions in the read sets are logged.
LEMMA ReadsLogged ==
    ASSUME TypeOK, NEW w \in Workers, Worker(w), WriteAhead
    PROVE  \A v \in Workers : \A e \in rset'[v] : Logged(e.key, e.word)
  <1>1. CASE ReadRecord(w)
    <2> DEFINE k == NextOp(w).key
    <2>1. k \in Keys
      BY <1>1, NextOpType DEF ReadRecord, Executing, Operation
    <2>2. rset' = [rset EXCEPT ![w] = @ \cup {[key |-> k, word |-> word[k]]}]
      BY <1>1 DEF ReadRecord
    <2> HIDE DEF k
    <2> QED BY <2>1, <2>2 DEF WriteAhead, TypeOK
  <1>2. CASE \A v \in Workers : rset'[v] \subseteq rset[v]
    BY <1>2 DEF WriteAhead
  <1> QED BY <1>1, <1>2, ReadSetShrinks

\* When an unlock's store is next, its load has just been done.
LEMMA StoreEntry ==
    ASSUME TypeOK, NEW w \in Workers, Worker(w),
           pc'[w] \in {"storePrefix", "storeAll", "install", "installWord"}
    PROVE  \/ Commit(w) \/ InstallBody(w) \/ InstallWord(w)
           \/ UnlockLoad(w, "unlockPrefix", "storePrefix")
           \/ UnlockLoad(w, "unlockAll", "storeAll")
  BY DEF TypeOK, Goto, Executing, Abandon, Worker, ReadPhase, Validation, WritePhase,
         Quit, MakeProcedure, Begin, EpochLoad, EpochStore,
         ReadLocal, ReadRecord, ReadNotFound, Write, WriteNotFound, Insert, InsertExists,
         BeginValidation, LockRecord, LockConflict, LoadGE, StoreThLocalEpoch, ValidateRead, ValidationFails, Abort, FinishTx,
         UnlockPrefix, UnlockAll, UnlockStore

\* The words a worker is about to store are logged after its own step.
LEMMA WalOwn ==
    ASSUME TypeOK, PhaseInv, NEW w \in Workers, Worker(w), Wal(w), WriteAhead
    PROVE  Wal(w)'
  <1> USE DEF db, epochs, txn, tids, hist, Goto
  <1>1. CASE \/ UnlockLoad(w, "unlockPrefix", "storePrefix")
             \/ UnlockLoad(w, "unlockAll", "storeAll")
    <2>1. PICK j \in Keys : IsNext(w, j) /\ tmp' = [tmp EXCEPT ![w] = word[j]]
      BY <1>1 DEF UnlockLoad
    <2>2. tmp'[w] = word[j] /\ todo' = todo /\ log' = log
          /\ pc'[w] \in {"storePrefix", "storeAll"}
      BY <1>1, <2>1 DEF UnlockLoad, TypeOK
    <2>3. ASSUME NEW k \in Keys, IsNext(w, k)' PROVE k = j
      BY <2>1, <2>2, <2>3, SiloCCAssumption DEF IsNext
    <2>4. Logged(j, word[j])
      BY DEF WriteAhead
    <2> QED BY <2>2, <2>3, <2>4 DEF Wal, Logged
  <1>2. CASE Commit(w)
    <2> DEFINE t == CommitTid(w)
               r == [worker |-> w, ctid |-> t, reads |-> rset[w], writes |-> wset[w]]
    <2>1. /\ mrctid' = [mrctid EXCEPT ![w] = t] /\ log' = log \cup {r} /\ wset' = wset
          /\ pc' = [pc EXCEPT ![w] = "install"]
      BY <1>2 DEF Commit, wal
    <2>2. r \in log' /\ r.ctid = t /\ r.writes = wset[w]
      BY <2>1
    <2> HIDE DEF t, r
    <2>3. mrctid'[w] = t /\ wset'[w] = wset[w] /\ pc'[w] = "install"
      BY <2>1 DEF TypeOK
    <2> QED BY <2>2, <2>3 DEF Wal, Logged, WriteKeys, SameVersion
  <1>3. CASE InstallBody(w) \/ InstallWord(w)
    <2>1. /\ pc[w] \in {"install", "installWord"} /\ pc'[w] \in {"install", "installWord"}
          /\ mrctid' = mrctid /\ wset' = wset /\ log' = log
      BY <1>3 DEF InstallBody, InstallWord, TypeOK
    <2> QED BY <2>1 DEF Wal, Logged, WriteKeys
  <1>4. CASE pc'[w] \notin {"storePrefix", "storeAll", "install", "installWord"}
    BY <1>4 DEF Wal
  <1> QED BY <1>1, <1>2, <1>3, <1>4, StoreEntry

\* No step makes a version visible that is not in the log.
LEMMA WriteAheadStep ==
    TypeOK /\ PhaseInv /\ WalInv /\ WriteAhead /\ [Next]_vars => (WalInv /\ WriteAhead)'
  <1> SUFFICES ASSUME TypeOK, PhaseInv, WalInv, WriteAhead, [Next]_vars
               PROVE  WalInv' /\ WriteAhead'
    OBVIOUS
  <1>1. CASE SendQuit \/ UNCHANGED vars
    BY <1>1 DEF SendQuit, vars, db, txn, tids, hist, WalInv, WriteAhead, Logged, IsNext, WriteKeys
  <1>2. ASSUME NEW w \in Workers, Worker(w) PROVE WalInv' /\ WriteAhead'
    <2>1. \A v \in Workers : Wal(v)
      BY DEF WalInv, Wal
    <2>2. \A v \in Workers : Wal(v)'
      BY <1>2, <2>1, WalOthers, WalOwn
    <2>3. \A k \in Keys : Logged(k, word'[k])
      BY <1>2, <2>1, WordsLogged
    <2>4. \A v \in Workers : \A e \in rset'[v] : Logged(e.key, e.word)
      BY <1>2, ReadsLogged
    <2>5. log \subseteq log'
      BY <1>2, HistoryGrows
    <2> QED BY <2>2, <2>3, <2>4, <2>5 DEF WalInv, Wal, WriteAhead, Logged
  <1> QED BY <1>1, <1>2 DEF Next, Finished

\* Write-ahead logging: a version a record carries, or a transaction has read,
\* was handed to wal() by the transaction that made it.
THEOREM LogIsAhead == Spec => []WriteAhead
  <1>1. Init => WalInv /\ WriteAhead
    BY DEF Init, WalInv, WriteAhead, Logged, ZeroWord
  <1> QED BY <1>1, WriteAheadStep, TypeCorrect, PhaseInvariant, PTL DEF Spec

-----------------------------------------------------------------------------
(* Epochs.                                                                  *)

\* How the operators on words move epochs.
LEMMA EpochOps ==
    /\ ZeroWord.epoch = 0
    /\ \A e \in Nat : EpochWord(e).epoch = e
    /\ \A x \in Word : /\ NextTid(x).epoch = x.epoch
                       /\ Locked(x).epoch = x.epoch
                       /\ Unlocked(x).epoch = x.epoch
    /\ \A x, y \in Word : MaxWord(x, y).epoch = IF x.epoch < y.epoch THEN y.epoch ELSE x.epoch
  <1>1. ZeroWord.epoch = 0 /\ \A e \in Nat : EpochWord(e).epoch = e
    BY DEF ZeroWord, EpochWord
  <1>2. ASSUME NEW x \in Word
        PROVE  NextTid(x).epoch = x.epoch /\ Locked(x).epoch = x.epoch /\ Unlocked(x).epoch = x.epoch
    BY DEF Word, NextTid, Locked, Unlocked
  <1>3. ASSUME NEW x \in Word, NEW y \in Word
        PROVE  MaxWord(x, y).epoch = IF x.epoch < y.epoch THEN y.epoch ELSE x.epoch
    BY DEF Word, Tid, MaxWord, WordLess, VersionLess, SameVersion
  <1> QED BY <1>1, <1>2, <1>3

\* Rule [c]: the TID lies in the worker's epoch when what was read and written does.
LEMMA CommitTidEpoch ==
    ASSUME TypeOK, NEW w \in Workers,
           max_rset[w].epoch <= ThLocalEpoch[w],
           max_wset[w].epoch <= ThLocalEpoch[w],
           mrctid[w].epoch <= ThLocalEpoch[w]
    PROVE  CommitTid(w).epoch = ThLocalEpoch[w]
  <1> DEFINE m == MaxWord(max_rset[w], max_wset[w])
             a == NextTid(m)
             b == NextTid(mrctid[w])
             c == EpochWord(ThLocalEpoch[w])
             d == MaxWord(b, c)
             f == MaxWord(a, d)
  <1>0. /\ max_rset[w] \in Word /\ max_wset[w] \in Word /\ mrctid[w] \in Word
        /\ ThLocalEpoch[w] \in Nat
    BY DEF TypeOK
  <1>1. m \in Word /\ m.epoch <= ThLocalEpoch[w]
    BY <1>0, WordTypes, EpochOps
  <1>2. a \in Word /\ a.epoch <= ThLocalEpoch[w]
    BY <1>1, WordTypes, EpochOps
  <1>3. b \in Word /\ b.epoch <= ThLocalEpoch[w]
    BY <1>0, WordTypes, EpochOps
  <1>4. c \in Word /\ c.epoch = ThLocalEpoch[w]
    BY <1>0, WordTypes, EpochOps
  <1> HIDE DEF m, a, b, c
  <1>5. d \in Word /\ d.epoch = ThLocalEpoch[w]
    <2>1. d \in Word /\ b.epoch \in Nat
      BY <1>3, <1>4, WordTypes DEF Word
    <2>2. d.epoch = IF b.epoch < c.epoch THEN c.epoch ELSE b.epoch
      BY <1>3, <1>4, EpochOps
    <2> QED BY <1>0, <1>3, <1>4, <2>1, <2>2
  <1> HIDE DEF d
  <1>6. f \in Word /\ f.epoch = ThLocalEpoch[w]
    <2>1. f \in Word /\ a.epoch \in Nat
      BY <1>2, <1>5, WordTypes DEF Word
    <2>2. f.epoch = IF a.epoch < d.epoch THEN d.epoch ELSE a.epoch
      BY <1>2, <1>5, EpochOps
    <2> QED BY <1>0, <1>2, <1>5, <2>1, <2>2
  <1>7. Unlocked(f).epoch = ThLocalEpoch[w]
    BY <1>6, EpochOps
  <1> QED BY <1>7 DEF CommitTid, m, a, b, c, d

\* GlobalEpoch moves by one, in the leader's epoch work, when the others have
\* caught up.
LEMMA GlobalEpochSteps ==
    ASSUME TypeOK, NEW w \in Workers, Worker(w)
    PROVE  \/ GlobalEpoch' = GlobalEpoch
           \/ /\ w = 0 /\ EpochLoad(w)
              /\ GlobalEpoch' = GlobalEpoch + 1
              /\ \A v \in Workers \ {0} : ThLocalEpoch[v] = GlobalEpoch
  <1>1. CASE EpochLoad(w)
    BY <1>1 DEF EpochLoad, siloLeaderWork, chkEpochLoaded
  <1>2. CASE ~EpochLoad(w)
    BY <1>2 DEF epochs, Worker, ReadPhase, Validation, WritePhase, Begin, EpochStore, ReadRecord,
         LockRecord, UnlockPrefix, UnlockAll, UnlockLoad, UnlockStore, LoadGE, StoreThLocalEpoch,
         ValidateRead, Commit, Quit, MakeProcedure, ReadLocal, ReadNotFound, Write, WriteNotFound,
         Insert, InsertExists, BeginValidation, LockConflict, ValidationFails, Abort, InstallBody, InstallWord, FinishTx
  <1> QED BY <1>1, <1>2

\* No record's word runs ahead of GlobalEpoch.
LEMMA WordEpochs ==
    ASSUME TypeOK, EpochInv, NEW w \in Workers, Worker(w)
    PROVE  \A k \in Keys : word'[k].epoch <= GlobalEpoch
  <1>1. \A k \in Keys : word[k].epoch <= GlobalEpoch
    BY DEF EpochInv
  <1>2. CASE LockRecord(w)
    <2>1. PICK j \in Keys : word' = [word EXCEPT ![j] = Locked(@)]
      BY <1>2 DEF LockRecord
    <2> QED BY <1>1, <2>1, EpochOps DEF TypeOK
  <1>3. CASE Insert(w)
    BY <1>1, <1>3 DEF Insert, TypeOK, ZeroWord
  <1>4. CASE \/ UnlockStore(w, "storePrefix", "unlockPrefix")
             \/ UnlockStore(w, "storeAll", "unlockAll")
    <2>1. PICK j \in Keys : word' = [word EXCEPT ![j] = Unlocked(tmp[w])]
      BY <1>4 DEF UnlockStore
    <2>2. Unlocked(tmp[w]).epoch <= GlobalEpoch
      BY EpochOps DEF TypeOK, EpochInv, Epochs
    <2> QED BY <1>1, <2>1, <2>2 DEF TypeOK
  <1>5. CASE InstallWord(w)
    <2>1. PICK j \in Keys : word' = [word EXCEPT ![j] = InstalledWord(w, j)]
      BY <1>5 DEF InstallWord
    <2>2. InstalledWord(w, j).epoch = mrctid[w].epoch
      BY InstalledWordType DEF SameVersion
    <2>3. mrctid[w].epoch <= GlobalEpoch
      BY DEF TypeOK, Word, EpochInv, Epochs
    <2> QED BY <1>1, <2>1, <2>2, <2>3 DEF TypeOK
  <1> QED BY <1>1, <1>2, <1>3, <1>4, <1>5, WordUnchanged

\* A worker's step keeps the epochs of the others in step.
LEMMA EpochsOthers ==
    ASSUME TypeOK, EpochInv, NEW w \in Workers, Worker(w), NEW v \in Workers, v # w
    PROVE  Epochs(v)'
  <1>1. /\ pc'[v] = pc[v] /\ rset'[v] = rset[v] /\ max_rset'[v] = max_rset[v]
        /\ max_wset'[v] = max_wset[v] /\ mrctid'[v] = mrctid[v] /\ tmp'[v] = tmp[v]
        /\ ge'[v] = ge[v] /\ ThLocalEpoch'[v] = ThLocalEpoch[v]
    BY OthersUnchanged DEF Local
  <1>2. Epochs(v)
    BY DEF EpochInv
  <1>3. /\ GlobalEpoch \in Nat /\ ge[v] \in Nat /\ ThLocalEpoch[v] \in Nat
        /\ mrctid[v].epoch \in Nat /\ tmp[v].epoch \in Nat /\ max_wset[v].epoch \in Nat
        /\ \A e \in rset[v] : e.word.epoch \in Nat
    BY DEF TypeOK, Word, ReadElement
  <1>4. CASE GlobalEpoch' = GlobalEpoch
    BY <1>1, <1>2, <1>4 DEF Epochs
  <1>5. CASE GlobalEpoch' = GlobalEpoch + 1 /\ v # 0 /\ ThLocalEpoch[v] = GlobalEpoch
    BY <1>1, <1>2, <1>3, <1>5 DEF Epochs
  <1> QED BY <1>4, <1>5, GlobalEpochSteps

\* A worker's step keeps its own epochs in step.
LEMMA EpochsOwn ==
    ASSUME TypeOK, EpochInv, NEW w \in Workers, Worker(w)
    PROVE  Epochs(w)'
  <1>1. Epochs(w)
    BY DEF EpochInv
  <1>2. /\ GlobalEpoch \in Nat /\ ge[w] \in Nat /\ ThLocalEpoch[w] \in Nat
        /\ mrctid[w].epoch \in Nat /\ tmp[w].epoch \in Nat /\ max_wset[w].epoch \in Nat
        /\ max_rset[w].epoch \in Nat
        /\ \A e \in rset[w] : e.word.epoch \in Nat
        /\ \A k \in Keys : word[k] \in Word /\ word[k].epoch \in Nat /\ word[k].epoch <= GlobalEpoch
    BY DEF TypeOK, Word, ReadElement, EpochInv
  <1> USE <1>1, <1>2 DEF db, epochs, txn, tids, hist, Goto, TypeOK, Epochs
  <1>3. CASE Quit(w) \/ MakeProcedure(w)
    BY <1>3 DEF Quit, MakeProcedure
  <1>4. CASE Begin(w)
    BY <1>4, EpochOps DEF Begin
  <1>5. CASE ReadLocal(w) \/ InsertExists(w) \/ ReadNotFound(w) \/ WriteNotFound(w)
    BY <1>5 DEF ReadLocal, InsertExists, ReadNotFound, WriteNotFound, Executing, Abandon
  <1>6. CASE Write(w) \/ Insert(w)
    BY <1>6 DEF Write, Insert, Executing
  <1>7. CASE BeginValidation(w) \/ LockConflict(w)
    BY <1>7 DEF BeginValidation, LockConflict
  <1>8. CASE UnlockLoad(w, "unlockPrefix", "storePrefix") \/ UnlockLoad(w, "unlockAll", "storeAll")
    BY <1>8 DEF UnlockLoad, EpochInv
  <1>9. CASE UnlockStore(w, "storePrefix", "unlockPrefix") \/ UnlockStore(w, "storeAll", "unlockAll")
    BY <1>9, EpochOps DEF UnlockStore
  <1>10. CASE LoadGE(w)
    BY <1>10 DEF LoadGE
  <1>11. CASE StoreThLocalEpoch(w)
    BY <1>11 DEF StoreThLocalEpoch
  <1>12. CASE ValidationFails(w) \/ Abort(w)
    BY <1>12 DEF ValidationFails, Abort, Abandon
  <1>13. CASE InstallBody(w) \/ InstallWord(w) \/ FinishTx(w)
    BY <1>13 DEF InstallBody, InstallWord, FinishTx
  <1>20. CASE EpochLoad(w)
    <2>1. GlobalEpoch' \in Nat /\ GlobalEpoch <= GlobalEpoch' /\ ge'[w] = GlobalEpoch'
      BY <1>20 DEF EpochLoad, siloLeaderWork
    <2>2. w # 0 => GlobalEpoch' = GlobalEpoch
      BY <1>20 DEF EpochLoad
    <2> QED BY <1>20, <2>1, <2>2 DEF EpochLoad
  <1>21. CASE EpochStore(w)
    BY <1>21 DEF EpochStore
  <1>22. CASE ReadRecord(w)
    <2> DEFINE k == NextOp(w).key
    <2>1. k \in Keys
      BY <1>22, NextOpType DEF ReadRecord, Executing, Operation
    <2>2. rset' = [rset EXCEPT ![w] = @ \cup {[key |-> k, word |-> word[k]]}]
      BY <1>22 DEF ReadRecord
    <2> HIDE DEF k
    <2>3. \A e \in rset'[w] : e.word.epoch <= GlobalEpoch
      BY <2>1, <2>2
    <2> QED BY <1>22, <2>3 DEF ReadRecord, Executing
  <1>23. CASE LockRecord(w)
    <2>1. PICK k \in Keys : max_wset' = [max_wset EXCEPT ![w] = MaxWord(@, word[k])]
      BY <1>23 DEF LockRecord
    <2>2. max_wset'[w].epoch <= GlobalEpoch
      BY <2>1, EpochOps
    <2> QED BY <1>23, <2>2 DEF LockRecord
  <1>24. CASE ValidateRead(w)
    <2>1. PICK e \in rset[w] : /\ StillValid(w, e)
                               /\ max_rset' = [max_rset EXCEPT ![w] = MaxWord(@, word[e.key])]
      BY <1>24 DEF ValidateRead
    <2>2. e.key \in Keys /\ word[e.key].epoch <= ThLocalEpoch[w]
      BY <1>24, <2>1 DEF ValidateRead, StillValid, SameVersion, ReadElement
    <2>3. max_rset'[w].epoch <= ThLocalEpoch[w]
      BY <1>24, <2>1, <2>2, EpochOps DEF ValidateRead
    <2> QED BY <1>24, <2>3 DEF ValidateRead
  <1>25. CASE Commit(w)
    <2>1. CommitTid(w).epoch = ThLocalEpoch[w]
      BY <1>25, CommitTidEpoch DEF Commit
    <2> QED BY <1>25, <2>1 DEF Commit
  <1> QED BY <1>3, <1>4, <1>5, <1>6, <1>7, <1>8, <1>9, <1>10, <1>11, <1>12, <1>13, <1>20, <1>21, <1>22, <1>23, <1>24, <1>25
          DEF Worker, ReadPhase, Validation, WritePhase, UnlockPrefix, UnlockAll

\* No step breaks the epoch invariant.
LEMMA EpochStep == TypeOK /\ EpochInv /\ [Next]_vars => EpochInv'
  <1> SUFFICES ASSUME TypeOK, EpochInv, [Next]_vars PROVE EpochInv'
    OBVIOUS
  <1>1. CASE SendQuit \/ UNCHANGED vars
    BY <1>1 DEF SendQuit, vars, db, epochs, txn, tids, EpochInv, Epochs
  <1>2. ASSUME NEW w \in Workers, Worker(w) PROVE EpochInv'
    <2>1. \A v \in Workers : Epochs(v)'
      BY <1>2, EpochsOthers, EpochsOwn
    <2>2. GlobalEpoch \in Nat /\ (GlobalEpoch' = GlobalEpoch \/ GlobalEpoch' = GlobalEpoch + 1)
      BY <1>2, GlobalEpochSteps DEF TypeOK
    <2>3. \A k \in Keys : word'[k].epoch \in Nat /\ word'[k].epoch <= GlobalEpoch
      <3>1. TypeOK'
        BY TypeStep
      <3> QED BY <1>2, <3>1, WordEpochs DEF TypeOK, Word
    <2> QED BY <2>1, <2>2, <2>3 DEF EpochInv
  <1> QED BY <1>1, <1>2 DEF Next, Finished

\* A transaction in writePhase carries the epoch its worker has published, and
\* GlobalEpoch is at most one ahead: the leader waits for every worker.
THEOREM CommitsInEpoch == Spec => []CommitEpoch
  <1>1. Init => EpochInv
    BY DEF Init, EpochInv, Epochs, ZeroWord
  <1>2. TypeOK /\ EpochInv => CommitEpoch
    <2> SUFFICES ASSUME TypeOK, EpochInv, NEW w \in Workers,
                        pc[w] \in {"install", "installWord"}
                 PROVE  mrctid[w].epoch = ThLocalEpoch[w] /\ GlobalEpoch - mrctid[w].epoch \in {0, 1}
      BY DEF CommitEpoch
    <2>1. GlobalEpoch \in Nat /\ ThLocalEpoch[w] \in Nat /\ ge[w] \in Nat /\ Epochs(w)
      BY DEF TypeOK, EpochInv
    <2>2. mrctid[w].epoch = ThLocalEpoch[w]
      BY <2>1 DEF Epochs
    <2>3. ThLocalEpoch[w] <= GlobalEpoch /\ GlobalEpoch <= ThLocalEpoch[w] + 1
      BY <2>1 DEF Epochs
    <2> QED BY <2>1, <2>2, <2>3
  <1> QED BY <1>1, <1>2, EpochStep, TypeCorrect, PTL DEF Spec

=============================================================================
