-------------------------- MODULE SiloSerialProofs --------------------------
(***************************************************************************)
(* Serializability of the Silo protocol: theorems about SiloCC for any     *)
(* number of workers, any set of keys and any set of procedures, as long   *)
(* as none of the protocol's assumptions has failed (faults = {}).         *)
(*                                                                         *)
(* A transaction's place in the serial order is its LoadGE: it has locked  *)
(* its write set and has validated nothing yet.  The proof has three       *)
(* layers: Versions (a record's version only grows, and what a transaction *)
(* has read, locked or logged is bounded by it), Contents (a record holds  *)
(* the value logged with its version) and Ordered (ranks of the logged and *)
(* of the validating transactions that respect every precedence).          *)
(***************************************************************************)
EXTENDS SiloCCProofs, Induction

\* The order of versions, with equality.
AtMost(x, y) == ~VersionLess(y, x)

InWritePhase(w) == pc[w] \in {"install", "installWord"}

\* The keys whose records only w may store over.
Claimed(w) == Held(w) \cup PendingInserts(w)

\* The install of record k for t is still to come.
ToInstall(t, k) ==
    /\ InWritePhase(t.worker)
    /\ k \in todo[t.worker]
    /\ SameVersion(t.ctid, mrctid[t.worker])

Initial(x) == x.epoch = 0 /\ x.tid = 0

\* What worker w has read, locked and chosen, against the records' versions.
VersionsOf(w) ==
    /\ \A k \in PendingInserts(w) : Initial(word[k]) /\ \A v \in Workers : k \notin ReadKeys(v)
    /\ \A e, f \in rset[w] : e.key = f.key => e = f
    /\ \A e \in rset[w] : AtMost(e.word, word[e.key])
    /\ pc[w] \in {"lock", "storeGE", "validate"} =>
         \A k \in Held(w) : AtMost(word[k], max_wset[w])
    /\ pc[w] = "storeGE" => ge[w] >= 1
    /\ pc[w] = "validate" =>
         /\ ThLocalEpoch[w] >= 1
         /\ \A e \in rset[w] : e.key \notin todo[w] => AtMost(e.word, max_rset[w])
    /\ pc[w] \in {"storePrefix", "storeAll"} =>
         \A k \in Keys : IsNext(w, k) => tmp[w] = word[k]
    /\ InWritePhase(w) => \A k \in todo[w] : VersionLess(word[k], mrctid[w])

\* What the log says, against the records' versions.
VersionsLogged(t) ==
    /\ t.ctid.epoch >= 1
    /\ AtMost(t.ctid, mrctid[t.worker])
    /\ \A e \in t.reads : AtMost(e.word, word[e.key])
    /\ \A k \in KeysOf(t.writes) : AtMost(t.ctid, word[k]) \/ ToInstall(t, k)

Versions ==
    faults = {} =>
      /\ \A k \in Keys \ index : Initial(word[k])
      /\ \A w \in Workers : VersionsOf(w)
      /\ \A t \in log : VersionsLogged(t)

\* The record carries the value e has for it.
Carries(e) == e.val = body[e.key]

\* What worker w is writing, against the records' presence and values.
ContentsOf(w) ==
    /\ ~mrctid[w].absent /\ ~max_rset[w].absent /\ ~max_wset[w].absent
    /\ \A k \in LockKeys(w) \cup ReadKeys(w) : ~word[k].absent
    /\ \A e \in wset[w] : e.op = "INSERT" /\ e.key \in PendingInserts(w) => Carries(e)
    /\ InWritePhase(w) =>
         \A k \in todo[w] : \A t \in log :
           k \in KeysOf(t.writes) /\ SameVersion(t.ctid, mrctid[w]) => t.writes = wset[w]
    /\ pc[w] = "installWord" =>
         \A k \in Keys : IsNext(w, k) => \E e \in wset[w] : e.key = k /\ Carries(e)

\* A record with the version of a logged write holds its value.
ContentsLogged(t) ==
    /\ KeysOf(t.writes) \subseteq index
    /\ \A k \in KeysOf(t.writes) :
         \/ Installing(k)
         \/ ~SameVersion(word[k], t.ctid)
         \/ ~word[k].absent /\ \E e \in t.writes : e.key = k /\ Carries(e)

Contents ==
    faults = {} =>
      /\ \A w \in Workers : ContentsOf(w)
      /\ \A t \in log : ContentsLogged(t)

\* w has its place in the serial order and is not in the log yet.
Placed(w) == pc[w] \in {"storeGE", "validate"}

Validated(w) == IF pc[w] = "validate" THEN ReadKeys(w) \ todo[w] ELSE {}

\* t comes before the transaction of w, should that commit.
PrecedesWorker(t, w) ==
    \/ \E e \in rset[w] : e.key \in KeysOf(t.writes) /\ SameVersion(e.word, t.ctid)
    \/ KeysOf(t.writes) \cap WriteKeys(w) # {}
    \/ KeysOf(t.reads) \cap WriteKeys(w) # {}

\* The place of w is after what precedes it and before what it precedes.
PlacedWell(w, rank, at) ==
    /\ \A t \in log : PrecedesWorker(t, w) => rank[t] < at[w]
    /\ \A e \in rset[w] : \A u \in log :
         /\ e.key \in Validated(w) \cap KeysOf(u.writes)
         /\ VersionLess(e.word, u.ctid)
         => at[w] < rank[u]
    /\ \A v \in Workers \ {w} :
         Placed(v) /\ Validated(v) \cap WriteKeys(w) # {} => at[v] < at[w]

\* The ranks of the logged transactions and the places of the validating ones
\* respect every precedence.
Order(rank, at, n) ==
    /\ \A t \in log : rank[t] < n
    /\ \A t, u \in log : t # u /\ Precedes(t, u) => rank[t] < rank[u]
    /\ \A w \in Workers : Placed(w) => at[w] < n /\ PlacedWell(w, rank, at)

Ordered ==
    faults = {} =>
      \E rank \in [log -> Nat], at \in [Workers -> Nat], n \in Nat : Order(rank, at, n)

-----------------------------------------------------------------------------
(* The order of versions.                                                   *)

\* Versions are totally ordered, lexicographically.
LEMMA VersionOrder ==
    /\ \A x, y, z \in Word : AtMost(x, y) /\ AtMost(y, z) => AtMost(x, z)
    /\ \A x, y, z \in Word : AtMost(x, y) /\ VersionLess(y, z) => VersionLess(x, z)
    /\ \A x, y, z \in Word : VersionLess(x, y) /\ AtMost(y, z) => VersionLess(x, z)
    /\ \A x, y \in Word : VersionLess(x, y) => AtMost(x, y) /\ ~SameVersion(x, y)
    /\ \A x, y \in Word : SameVersion(x, y) => AtMost(x, y) /\ AtMost(y, x)
    /\ \A x \in Word : AtMost(x, x)
  BY DEF AtMost, VersionLess, SameVersion, Word, Tid

\* The larger of two words has the larger version.
LEMMA MaxVersion ==
    ASSUME NEW x \in Word, NEW y \in Word
    PROVE  /\ AtMost(x, MaxWord(x, y)) /\ AtMost(y, MaxWord(x, y))
           /\ ~x.absent /\ ~y.absent => ~MaxWord(x, y).absent
  BY DEF AtMost, VersionLess, SameVersion, MaxWord, WordLess, Word, Tid

\* The lock bit is not part of the version.
LEMMA LockBitVersion ==
    ASSUME NEW x \in Word
    PROVE  /\ SameVersion(Locked(x), x) /\ Locked(x).absent = x.absent
           /\ SameVersion(Unlocked(x), x) /\ Unlocked(x).absent = x.absent
  BY DEF SameVersion, Locked, Unlocked, Word

\* TID++ gives the next version unless the field wraps.
LEMMA NextTidVersion ==
    ASSUME NEW x \in Word, x.tid # TIDLimit - 1
    PROVE  VersionLess(x, NextTid(x)) /\ NextTid(x).absent = x.absent
  <1>1. NextTid(x) = [x EXCEPT !.tid = x.tid + 1]
    BY TIDLimitAssumption DEF NextTid, Word, Tid
  <1> QED BY <1>1 DEF VersionLess, Word, Tid

\* Rules [a], [b] and [c]: the TID writePhase chooses is above every version
\* read or locked and above the worker's last, in its epoch or a later one.
LEMMA CommitTidVersion ==
    ASSUME TypeOK, NEW w \in Workers, ~TidWraps(w)
    PROVE  /\ VersionLess(max_rset[w], CommitTid(w))
           /\ VersionLess(max_wset[w], CommitTid(w))
           /\ VersionLess(mrctid[w], CommitTid(w))
           /\ ThLocalEpoch[w] <= CommitTid(w).epoch
           /\ ~max_rset[w].absent /\ ~max_wset[w].absent /\ ~mrctid[w].absent
                => ~CommitTid(w).absent
  <1> DEFINE m == MaxWord(max_rset[w], max_wset[w])
             a == NextTid(m)
             b == NextTid(mrctid[w])
             c == EpochWord(ThLocalEpoch[w])
             d == MaxWord(b, c)
             f == MaxWord(a, d)
  <1>0. /\ max_rset[w] \in Word /\ max_wset[w] \in Word /\ mrctid[w] \in Word
        /\ ThLocalEpoch[w] \in Nat
    BY DEF TypeOK
  <1>1. m \in Word /\ a \in Word /\ b \in Word /\ c \in Word /\ d \in Word /\ f \in Word
    BY <1>0, WordTypes
  <1>2. m.tid # TIDLimit - 1 /\ mrctid[w].tid # TIDLimit - 1
    BY DEF TidWraps
  <1>3. AtMost(max_rset[w], m) /\ AtMost(max_wset[w], m)
    BY <1>0, MaxVersion
  <1>4. ~max_rset[w].absent /\ ~max_wset[w].absent => ~m.absent
    BY <1>0, MaxVersion
  <1>5. ~c.absent /\ c.epoch = ThLocalEpoch[w]
    BY <1>0 DEF EpochWord, ZeroWord
  <1> HIDE DEF m
  <1>6. VersionLess(m, a) /\ a.absent = m.absent
    BY <1>1, <1>2, NextTidVersion
  <1>7. VersionLess(mrctid[w], b) /\ b.absent = mrctid[w].absent
    BY <1>0, <1>2, NextTidVersion
  <1> HIDE DEF a, b, c
  <1>8. AtMost(b, d) /\ AtMost(c, d) /\ (~b.absent /\ ~c.absent => ~d.absent)
    BY <1>1, MaxVersion
  <1> HIDE DEF d
  <1>9. AtMost(a, f) /\ AtMost(d, f) /\ (~a.absent /\ ~d.absent => ~f.absent)
    BY <1>1, MaxVersion
  <1> HIDE DEF f
  <1>10. SameVersion(Unlocked(f), f) /\ Unlocked(f).absent = f.absent /\ Unlocked(f) \in Word
    BY <1>1, LockBitVersion, WordTypes
  <1>11. AtMost(a, Unlocked(f)) /\ AtMost(b, Unlocked(f)) /\ AtMost(c, Unlocked(f))
    BY <1>1, <1>8, <1>9, <1>10, VersionOrder
  <1>12. /\ VersionLess(max_rset[w], Unlocked(f))
         /\ VersionLess(max_wset[w], Unlocked(f))
         /\ VersionLess(mrctid[w], Unlocked(f))
    BY <1>0, <1>1, <1>3, <1>6, <1>7, <1>10, <1>11, VersionOrder
  <1>13. ThLocalEpoch[w] <= Unlocked(f).epoch
    BY <1>1, <1>5, <1>10, <1>11 DEF AtMost, VersionLess, Word
  <1> QED BY <1>4, <1>5, <1>6, <1>7, <1>8, <1>9, <1>10, <1>12, <1>13
          DEF CommitTid, m, a, b, c, d, f

-----------------------------------------------------------------------------
(* Claims: what only one worker may store over.                             *)

\* The invariants of SiloCCProofs about the locks.
Locking == TypeOK /\ PhaseInv /\ InsertInv /\ SingleHolder

\* They hold together.
LEMMA LockingInvariant == Spec => []Locking
  <1>1. Init => InsertInv /\ SingleHolder
    BY DEF Init, InsertInv, SingleHolder, PendingInserts, Held, KeysOf
  <1> QED BY <1>1, InsertStepInv, SingleHolderStep, TypeCorrect, PhaseInvariant, PTL DEF Spec, Locking

\* No failed assumption, in particular none of the locking's.
LEMMA NoFaultsTrusted ==
    ASSUME faults = {}
    PROVE  LockingTrusted
  BY DEF LockingTrusted

\* If no assumption has failed after a step, none had before it.
LEMMA NoFaultsBefore ==
    ASSUME NEW w \in Workers, Worker(w), faults' = {}
    PROVE  faults = {} /\ LockingTrusted'
  BY HistoryGrows DEF LockingTrusted

\* A key has one claimant, and it is in that worker's write set.
LEMMA OneClaimant ==
    ASSUME Locking, faults = {}, NEW v \in Workers, NEW k \in Claimed(v)
    PROVE  /\ k \in Keys /\ k \in WriteKeys(v) /\ k \in index
           /\ k \in Held(v) => word[k].lock
           /\ \A u \in Workers \ {v} : k \notin Claimed(u)
  <1>1. k \in WriteKeys(v) /\ k \in index
    BY HeldInIndex DEF Locking, Claimed
  <1>2. k \in Keys
    BY <1>1, KeySets DEF Locking
  <1>3. k \in Held(v) => word[k].lock /\ \A u \in Workers \ {v} : k \notin Held(u)
    BY NoFaultsTrusted DEF Locking, SingleHolder
  <1>4. k \in PendingInserts(v) => ~word[k].lock /\ \A u \in Workers \ {v} : k \notin WriteKeys(u)
    BY NoFaultsTrusted DEF Locking, InsertInv
  <1>5. ASSUME NEW u \in Workers \ {v} PROVE k \notin Claimed(u)
    <2>1. Held(u) \subseteq WriteKeys(u) /\ PendingInserts(u) \subseteq WriteKeys(u)
      BY HeldInIndex DEF Locking
    <2>2. k \in PendingInserts(u) => k \notin WriteKeys(v)
      BY NoFaultsTrusted DEF Locking, InsertInv
    <2> QED BY <1>1, <1>3, <1>4, <2>1, <2>2 DEF Claimed
  <1> QED BY <1>1, <1>2, <1>3, <1>5

\* A transaction claims its whole write set from LoadGE to its commit, and what
\* is left to install after that.
LEMMA ClaimedWhen ==
    ASSUME Locking, faults = {}, NEW w \in Workers
    PROVE  /\ Placed(w) => WriteKeys(w) \subseteq Claimed(w)
           /\ InWritePhase(w) => todo[w] \subseteq Claimed(w)
  <1>1. Phase(w) /\ status[w] \in {"Invalid", "InFlight", "Committed", "Aborted"}
    BY DEF Locking, PhaseInv, TypeOK
  <1>2. ASSUME NEW k \in WriteKeys(w)
        PROVE  k \in LockKeys(w) \/ k \in KeysOf({e \in wset[w] : e.op = "INSERT"})
    BY DEF WriteKeys, LockKeys, KeysOf
  <1>3. Placed(w) => Held(w) = LockKeys(w) /\ ~InWritePhase(w)
    BY <1>1 DEF Placed, Held, Phase, InWritePhase
  <1>4. InWritePhase(w) => Held(w) = todo[w] \cap LockKeys(w) /\ todo[w] \subseteq WriteKeys(w)
    BY <1>1 DEF InWritePhase, Held, Phase
  <1> QED BY <1>2, <1>3, <1>4 DEF Claimed, PendingInserts, InWritePhase

\* Only these actions change a record's body.
LEMMA BodyUnchanged ==
    ASSUME NEW w \in Workers, Worker(w), body' # body
    PROVE  Insert(w) \/ InstallBody(w)
  BY DEF db, Worker, ReadPhase, Validation, WritePhase, Quit, MakeProcedure, Begin, EpochLoad, EpochStore,
         ReadLocal, ReadRecord, ReadNotFound, Write, WriteNotFound, InsertExists,
         BeginValidation, LockRecord, LockConflict, LoadGE, StoreThLocalEpoch, ValidateRead, ValidationFails,
         Abort, Commit, InstallWord, FinishTx, UnlockPrefix, UnlockAll, UnlockLoad, UnlockStore

\* Another worker's step leaves a claimed record alone.
LEMMA ClaimedUntouched ==
    ASSUME Locking, NEW w \in Workers, Worker(w), faults' = {},
           NEW v \in Workers \ {w}, NEW k \in Claimed(v)
    PROVE  word'[k] = word[k] /\ body'[k] = body[k]
  <1>1. faults = {}
    BY NoFaultsBefore
  <1>2. k \in Keys /\ k \in index /\ k \notin Claimed(w)
    BY <1>1, OneClaimant
  <1>3. word'[k] = word[k]
    <2>1. ASSUME NEW j \in Keys, Takes(w, j) PROVE word'[k] = word[k]
      <3>1. k \in Held(v) => word[k].lock
        BY <1>1, OneClaimant
      <3>2. k \in PendingInserts(v) => k \notin WriteKeys(w)
        BY <1>1, NoFaultsTrusted DEF Locking, InsertInv
      <3>3. j # k
        BY <2>1, <3>1, <3>2, KeySets DEF Takes, Claimed, Locking
      <3> QED BY <1>2, <2>1, <3>3 DEF Takes, Locking, TypeOK
    <2>2. ASSUME NEW j \in Keys, Releases(w, j) PROVE word'[k] = word[k]
      BY <1>2, <2>2 DEF Releases, Claimed
    <2>3. ASSUME NEW j \in Keys, Creates(w, j) PROVE word'[k] = word[k]
      BY <1>2, <2>3 DEF Creates
    <2> QED BY <2>1, <2>2, <2>3, LockSteps DEF Locking, PhaseInv, Keeps
  <1>4. body'[k] = body[k]
    <2>1. CASE Insert(w)
      BY <1>2, <2>1 DEF Insert, Locking, TypeOK
    <2>2. CASE InstallBody(w)
      <3>1. PICK e \in wset[w] :
              /\ IsNext(w, e.key)
              /\ body' = IF e.op = "WRITE" THEN [body EXCEPT ![e.key] = e.val] ELSE body
        BY <2>2 DEF InstallBody
      <3>2. e.key \in todo[w] /\ InWritePhase(w)
        BY <2>2, <3>1 DEF IsNext, InstallBody, InWritePhase
      <3>3. e.key # k
        BY <1>1, <1>2, <3>2, ClaimedWhen
      <3> QED BY <1>2, <3>1, <3>3 DEF Locking, TypeOK
    <2>3. CASE body' = body
      BY <2>3
    <2> QED BY <2>1, <2>2, <2>3, BodyUnchanged
  <1> QED BY <1>3, <1>4

-----------------------------------------------------------------------------
(* Versions: a record's version only grows.                                 *)

\* Where a worker's step can have come from.
LEMMA Entry ==
    ASSUME TypeOK, NEW w \in Workers, Worker(w)
    PROVE  /\ pc'[w] = "lock" => BeginValidation(w) \/ LockRecord(w)
           /\ pc'[w] = "storeGE" => LoadGE(w)
           /\ pc'[w] = "validate" => StoreThLocalEpoch(w) \/ ValidateRead(w)
           /\ pc'[w] \in {"storePrefix", "storeAll"} =>
                \/ UnlockLoad(w, "unlockPrefix", "storePrefix")
                \/ UnlockLoad(w, "unlockAll", "storeAll")
           /\ pc'[w] = "installWord" => InstallBody(w)
           /\ pc'[w] = "install" => Commit(w) \/ InstallWord(w)
  BY DEF TypeOK, Goto, Executing, Abandon, Worker, ReadPhase, Validation, WritePhase,
         Quit, MakeProcedure, Begin, EpochLoad, EpochStore,
         ReadLocal, ReadRecord, ReadNotFound, Write, WriteNotFound, Insert, InsertExists,
         BeginValidation, LockRecord, LockConflict, LoadGE, StoreThLocalEpoch, ValidateRead, ValidationFails, Abort,
         Commit, InstallBody, InstallWord, FinishTx, UnlockPrefix, UnlockAll, UnlockLoad, UnlockStore

\* What a step does to a record's version: nothing, or an install moves it to
\* the later TID of its transaction.
LEMMA VersionSteps ==
    ASSUME Locking, Versions, NEW w \in Workers, Worker(w), faults' = {}, NEW k \in Keys
    PROVE  \/ SameVersion(word'[k], word[k])
           \/ /\ InstallWord(w) /\ InWritePhase(w) /\ IsNext(w, k) /\ todo'[w] = todo[w] \ {k}
              /\ SameVersion(word'[k], mrctid[w])
              /\ VersionLess(word[k], mrctid[w])
  <1> USE DEF Locking
  <1>1. faults = {}
    BY NoFaultsBefore
  <1>2. SameVersion(word[k], word[k])
    BY DEF SameVersion
  <1>3. CASE LockRecord(w)
    <2>1. PICK j \in Keys : word' = [word EXCEPT ![j] = Locked(@)]
      BY <1>3 DEF LockRecord
    <2> QED BY <1>2, <2>1, LockBitVersion DEF TypeOK
  <1>4. CASE Insert(w)
    <2>1. PICK j \in Keys \ index : word' = [word EXCEPT ![j] = [ZeroWord EXCEPT !.absent = TRUE]]
      BY <1>4, NextOpType DEF Insert, Executing, Operation
    <2>2. Initial(word[j])
      BY <1>1 DEF Versions
    <2>3. SameVersion(word'[j], word[j])
      BY <2>1, <2>2 DEF SameVersion, Initial, ZeroWord, TypeOK
    <2> QED BY <1>2, <2>1, <2>3 DEF TypeOK
  <1>5. CASE \/ UnlockStore(w, "storePrefix", "unlockPrefix")
             \/ UnlockStore(w, "storeAll", "unlockAll")
    <2>1. PICK j \in Keys : IsNext(w, j) /\ word' = [word EXCEPT ![j] = Unlocked(tmp[w])]
      BY <1>5 DEF UnlockStore
    <2>2. tmp[w] = word[j]
      BY <1>1, <1>5, <2>1 DEF Versions, VersionsOf, UnlockStore
    <2> QED BY <1>2, <2>1, <2>2, LockBitVersion DEF TypeOK
  <1>6. CASE InstallWord(w)
    <2>1. PICK j \in Keys : /\ IsNext(w, j)
                            /\ word' = [word EXCEPT ![j] = InstalledWord(w, j)]
                            /\ todo' = [todo EXCEPT ![w] = @ \ {j}]
      BY <1>6 DEF InstallWord
    <2>2. InWritePhase(w) /\ j \in todo[w]
      BY <1>6, <2>1 DEF InstallWord, InWritePhase, IsNext
    <2>3. VersionLess(word[j], mrctid[w])
      BY <1>1, <2>2 DEF Versions, VersionsOf
    <2>4. word'[j] = InstalledWord(w, j) /\ todo'[w] = todo[w] \ {j}
      BY <2>1 DEF TypeOK
    <2>5. k # j => word'[k] = word[k]
      BY <2>1 DEF TypeOK
    <2> QED BY <1>2, <1>6, <2>1, <2>2, <2>3, <2>4, <2>5, InstalledWordType
  <1> QED BY <1>2, <1>3, <1>4, <1>5, <1>6, WordUnchanged

\* So what is below a record's version stays below it.
LEMMA WordsGrow ==
    ASSUME Locking, Versions, NEW w \in Workers, Worker(w), faults' = {}, NEW k \in Keys
    PROVE  /\ word[k] \in Word /\ word'[k] \in Word
           /\ AtMost(word[k], word'[k])
           /\ \A x \in Word : AtMost(x, word[k]) => AtMost(x, word'[k])
  <1>1. TypeOK'
    BY TypeStep DEF Locking, Next
  <1>2. word[k] \in Word /\ word'[k] \in Word /\ mrctid[w] \in Word
    BY <1>1 DEF TypeOK, Locking
  <1>3. AtMost(word[k], word'[k])
    BY <1>2, VersionSteps, VersionOrder
  <1> QED BY <1>2, <1>3, VersionOrder

\* A record that is inserted, before and after a step, is as it was.
LEMMA PendingUntouched ==
    ASSUME Locking, NEW w \in Workers, Worker(w), faults' = {},
           NEW u \in Workers, NEW k \in PendingInserts(u), k \in PendingInserts(u)'
    PROVE  word'[k] = word[k] /\ word[k].absent /\ k \in Keys
  <1>1. faults = {} /\ LockingTrusted
    BY NoFaultsBefore, NoFaultsTrusted
  <1>2. k \in Claimed(u)
    BY DEF Claimed
  <1>3. k \in Keys /\ k \in index
    BY <1>1, <1>2, OneClaimant
  <1>4. word[k].absent /\ ~word[k].lock /\ k \notin LockKeys(u)
    BY <1>1 DEF Locking, InsertInv
  <1>5. CASE u # w
    BY <1>2, <1>3, <1>4, <1>5, ClaimedUntouched
  <1>6. CASE u = w
    <2>1. ASSUME NEW j \in Keys, Takes(w, j) PROVE word'[k] = word[k]
      BY <1>3, <1>4, <1>6, <2>1 DEF Takes, Locking, TypeOK
    <2>2. ASSUME NEW j \in Keys, Releases(w, j) PROVE word'[k] = word[k]
      BY <1>3, <1>4, <1>6, <2>2 DEF Releases
    <2>3. ASSUME NEW j \in Keys, Creates(w, j) PROVE word'[k] = word[k]
      BY <1>3, <2>3 DEF Creates
    <2>4. word'[k] = word[k]
      BY <2>1, <2>2, <2>3, LockSteps DEF Locking, PhaseInv, Keeps
    <2> QED BY <1>3, <1>4, <2>4
  <1> QED BY <1>5, <1>6

\* How a worker's read set changes, and when a key can enter it.
LEMMA ReadSets ==
    ASSUME Locking, NEW w \in Workers, Worker(w)
    PROVE  \/ \A v \in Workers : rset'[v] \subseteq rset[v]
           \/ \E k \in Keys :
                /\ ReadRecord(w)
                /\ k \in index /\ k \notin ReadKeys(w) \cup WriteKeys(w) /\ ~word[k].absent
                /\ rset' = [rset EXCEPT ![w] = @ \cup {[key |-> k, word |-> word[k]]}]
  <1>1. CASE ReadRecord(w)
    <2>1. NextOp(w).key \in Keys
      BY <1>1, NextOpType DEF ReadRecord, Executing, Operation, Locking
    <2> QED BY <1>1, <2>1 DEF ReadRecord
  <1> QED BY <1>1, ReadSetShrinks DEF Locking

\* Only insert() puts a key into the index.
LEMMA IndexUnchanged ==
    ASSUME NEW w \in Workers, Worker(w), index' # index
    PROVE  Insert(w)
  BY DEF db, Worker, ReadPhase, Validation, WritePhase, Quit, MakeProcedure, Begin, EpochLoad, EpochStore,
         ReadLocal, ReadRecord, ReadNotFound, Write, WriteNotFound, InsertExists,
         BeginValidation, LockRecord, LockConflict, LoadGE, StoreThLocalEpoch, ValidateRead, ValidationFails,
         Abort, Commit, InstallBody, InstallWord, FinishTx, UnlockPrefix, UnlockAll, UnlockLoad, UnlockStore

\* A pending insert has the initial version and no reader.
LEMMA PendingVersions ==
    ASSUME Locking, Versions, NEW w \in Workers, Worker(w), faults' = {},
           NEW u \in Workers, NEW k \in PendingInserts(u)'
    PROVE  Initial(word'[k]) /\ \A v \in Workers : k \notin ReadKeys(v)'
  <1>1. faults = {}
    BY NoFaultsBefore
  <1>2. CASE k \in PendingInserts(u)
    <2>1. Initial(word[k]) /\ \A v \in Workers : k \notin ReadKeys(v)
      BY <1>1, <1>2 DEF Versions, VersionsOf
    <2>2. word'[k] = word[k] /\ word[k].absent
      BY <1>2, PendingUntouched
    <2>3. CASE \A v \in Workers : rset'[v] \subseteq rset[v]
      BY <2>1, <2>2, <2>3 DEF ReadKeys, KeysOf
    <2>4. CASE \E j \in Keys :
                /\ ~word[j].absent
                /\ rset' = [rset EXCEPT ![w] = @ \cup {[key |-> j, word |-> word[j]]}]
      <3>1. PICK j \in Keys : /\ ~word[j].absent
                              /\ rset' = [rset EXCEPT ![w] = @ \cup {[key |-> j, word |-> word[j]]}]
        BY <2>4
      <3>2. ASSUME NEW v \in Workers, NEW e \in rset'[v] PROVE e.key \in ReadKeys(v) \/ e.key = j
        BY <3>1 DEF ReadKeys, KeysOf, Locking, TypeOK
      <3> QED BY <2>1, <2>2, <3>1, <3>2 DEF ReadKeys, KeysOf
    <2> QED BY <2>3, <2>4, ReadSets
  <1>3. CASE k \notin PendingInserts(u)
    <2>1. u = w
      BY <1>3, PendingOthers DEF Locking
    <2>2. Insert(w)
      <3>1. PICK j \in Keys : AddsInsert(w, j)
        BY <1>3, <2>1, WriteSetSteps, NoFaultsBefore DEF Locking, PhaseInv, SameWrites, AddsWrite
      <3>2. k \notin index
        BY <1>3, <2>1, <3>1 DEF AddsInsert
      <3>3. k \in index'
        <4>1. TypeOK' /\ PhaseInv'
          BY TypeStep, PhaseStep DEF Locking, Next
        <4>2. k \in WriteKeys(u)'
          BY DEF PendingInserts, WriteKeys, KeysOf
        <4> QED BY <4>1, <4>2 DEF PhaseInv, Phase
      <3> QED BY <3>2, <3>3, IndexUnchanged
    <2>3. PICK j \in Keys \ index :
            /\ word' = [word EXCEPT ![j] = [ZeroWord EXCEPT !.absent = TRUE]]
            /\ wset' = [wset EXCEPT ![w] = @ \cup {[key |-> j, val |-> NextOp(w).val, op |-> "INSERT"]}]
            /\ rset' = rset /\ pc' = pc /\ todo' = todo
      BY <2>2, NextOpType DEF Insert, Executing, Operation, Locking, txn
    <2>4. k = j
      <3>1. wset'[w] = wset[w] \cup {[key |-> j, val |-> NextOp(w).val, op |-> "INSERT"]}
        BY <2>3 DEF Locking, TypeOK
      <3> QED BY <1>3, <2>1, <2>3, <3>1 DEF PendingInserts, KeysOf
    <2>5. Initial(word'[k])
      BY <2>3, <2>4 DEF Initial, ZeroWord, Locking, TypeOK
    <2>6. \A v \in Workers : k \notin ReadKeys(v)
      BY <2>3, <2>4 DEF Locking, PhaseInv, Phase
    <2> QED BY <2>3, <2>5, <2>6 DEF ReadKeys
  <1> QED BY <1>2, <1>3

\* A read set has one element per key, and none is ahead of its record.
LEMMA ReadsBelow ==
    ASSUME Locking, Versions, NEW w \in Workers, Worker(w), faults' = {}, NEW v \in Workers
    PROVE  /\ \A e, f \in rset'[v] : e.key = f.key => e = f
           /\ \A e \in rset'[v] : AtMost(e.word, word'[e.key])
  <1>1. faults = {}
    BY NoFaultsBefore
  <1>2. /\ \A e, f \in rset[v] : e.key = f.key => e = f
        /\ \A e \in rset[v] : AtMost(e.word, word[e.key])
    BY <1>1 DEF Versions, VersionsOf
  <1>3. \A e \in rset[v] : e.word \in Word /\ e.key \in Keys
    BY DEF Locking, TypeOK, ReadElement
  <1>4. \A e \in rset[v] : AtMost(e.word, word'[e.key])
    BY <1>2, <1>3, WordsGrow
  <1>5. CASE rset'[v] \subseteq rset[v]
    BY <1>2, <1>4, <1>5
  <1>6. CASE ~(rset'[v] \subseteq rset[v])
    <2>1. PICK k \in Keys : /\ k \notin ReadKeys(w)
                            /\ rset' = [rset EXCEPT ![w] = @ \cup {[key |-> k, word |-> word[k]]}]
      BY <1>6, ReadSets
    <2>2. v = w /\ rset'[v] = rset[v] \cup {[key |-> k, word |-> word[k]]}
      BY <1>6, <2>1 DEF Locking, TypeOK
    <2>3. AtMost(word[k], word'[k])
      BY WordsGrow
    <2>4. \A e \in rset[v] : e.key # k
      BY <2>1, <2>2 DEF ReadKeys, KeysOf
    <2> QED BY <1>2, <1>4, <2>2, <2>3, <2>4
  <1> QED BY <1>5, <1>6

\* max_wset covers the locked records, whoever moves.
LEMMA LocksBelow ==
    ASSUME Locking, Versions, NEW w \in Workers, Worker(w), faults' = {}, NEW v \in Workers,
           pc'[v] \in {"lock", "storeGE", "validate"}, NEW k \in Held(v)'
    PROVE  AtMost(word'[k], max_wset'[v])
  <1>1. faults = {} /\ TypeOK /\ Phase(v)
    BY NoFaultsBefore DEF Locking, PhaseInv
  <1>2. pc[v] \in {"lock", "storeGE", "validate"} => \A j \in Held(v) : AtMost(word[j], max_wset[v])
    BY <1>1 DEF Versions, VersionsOf
  <1>3. CASE v # w
    <2>1. Held(v)' = Held(v) /\ pc'[v] = pc[v] /\ max_wset'[v] = max_wset[v]
      BY <1>1, <1>3, OthersUnchanged, HeldOthers DEF Local
    <2>2. word'[k] = word[k]
      BY <1>3, <2>1, ClaimedUntouched DEF Claimed
    <2> QED BY <1>2, <2>1, <2>2
  <1>4. CASE v = w /\ LockRecord(w)
    <2>1. PICK j \in Keys : /\ IsNext(w, j)
                            /\ word' = [word EXCEPT ![j] = Locked(@)]
                            /\ max_wset' = [max_wset EXCEPT ![w] = MaxWord(@, word[j])]
                            /\ todo' = [todo EXCEPT ![w] = @ \ {j}]
                            /\ pc[w] = "lock" /\ pc' = pc /\ wset' = wset
      BY <1>4 DEF LockRecord, txn
    <2>2. /\ max_wset[w] \in Word /\ word[j] \in Word /\ max_wset'[w] = MaxWord(max_wset[w], word[j])
          /\ max_wset'[w] \in Word
      BY <1>1, <2>1, WordTypes DEF TypeOK
    <2>3. AtMost(max_wset[w], max_wset'[w]) /\ AtMost(word[j], max_wset'[w])
      BY <2>2, MaxVersion
    <2>4. k \in Held(w) \cup {j} /\ k \in Keys
      BY <1>1, <1>4, <2>1, KeySets DEF Held, LockKeys, TypeOK
    <2>5. CASE k = j
      <3>1. SameVersion(word'[j], word[j]) /\ word'[j] \in Word
        BY <1>1, <2>1, LockBitVersion, WordTypes DEF TypeOK
      <3> QED BY <1>4, <2>2, <2>3, <2>5, <3>1, VersionOrder
    <2>6. CASE k # j
      <3>1. word'[k] = word[k] /\ word[k] \in Word
        BY <1>1, <2>1, <2>4, <2>6 DEF TypeOK
      <3>2. AtMost(word[k], max_wset[w])
        BY <1>2, <1>4, <2>1, <2>4, <2>6
      <3> QED BY <1>4, <2>2, <2>3, <3>1, <3>2, VersionOrder
    <2> QED BY <1>4, <2>5, <2>6
  <1>5. CASE v = w /\ BeginValidation(w)
    BY <1>1, <1>5 DEF BeginValidation, TypeOK, Goto, Held, LockKeys, txn
  <1>6. CASE v = w /\ (LoadGE(w) \/ StoreThLocalEpoch(w) \/ ValidateRead(w))
    <2>1. word' = word /\ max_wset' = max_wset
      BY <1>6 DEF LoadGE, StoreThLocalEpoch, ValidateRead, db, tids
    <2>2. /\ pc[w] \in {"lock", "storeGE", "validate"}
          /\ pc[w] = "lock" => todo[w] = {}
          /\ status' = status /\ wset' = wset
      BY <1>1, <1>6 DEF LoadGE, StoreThLocalEpoch, ValidateRead, txn, Phase
    <2>3. pc[w] \in {"storeGE", "validate"} => status[w] # "Aborted"
      BY <1>1, <1>6 DEF Phase
    <2>4. Held(w)' \subseteq LockKeys(w)
      BY <2>2 DEF Held, LockKeys
    <2>5. Held(w) = LockKeys(w)
      BY <2>2, <2>3 DEF Held
    <2> QED BY <1>2, <1>6, <2>1, <2>2, <2>4, <2>5
  <1> QED BY <1>1, <1>3, <1>4, <1>5, <1>6, Entry

\* max_rset covers the validated reads, and the epoch has started.
LEMMA ValidatedBelow ==
    ASSUME Locking, Versions, NEW w \in Workers, Worker(w), faults' = {}, NEW v \in Workers
    PROVE  /\ pc'[v] = "storeGE" => ge'[v] >= 1
           /\ pc'[v] = "validate" =>
                /\ ThLocalEpoch'[v] >= 1
                /\ \A e \in rset'[v] : e.key \notin todo'[v] => AtMost(e.word, max_rset'[v])
  <1>1. faults = {} /\ TypeOK
    BY NoFaultsBefore DEF Locking
  <1>2. /\ pc[v] = "storeGE" => ge[v] >= 1
        /\ pc[v] = "validate" =>
             /\ ThLocalEpoch[v] >= 1
             /\ \A e \in rset[v] : e.key \notin todo[v] => AtMost(e.word, max_rset[v])
    BY <1>1 DEF Versions, VersionsOf
  <1>3. CASE v # w
    BY <1>1, <1>2, <1>3, OthersUnchanged DEF Local
  <1>4. CASE v = w /\ LoadGE(w)
    BY <1>1, <1>4 DEF LoadGE, TypeOK, Goto
  <1>5. CASE v = w /\ StoreThLocalEpoch(w)
    BY <1>1, <1>2, <1>5 DEF StoreThLocalEpoch, TypeOK, Goto, ReadKeys, KeysOf, txn
  <1>6. CASE v = w /\ ValidateRead(w)
    <2>1. PICK e \in rset[w] : /\ StillValid(w, e)
                               /\ max_rset' = [max_rset EXCEPT ![w] = MaxWord(@, word[e.key])]
                               /\ todo' = [todo EXCEPT ![w] = @ \ {e.key}]
      BY <1>6 DEF ValidateRead
    <2>2. pc[w] = "validate" /\ pc' = pc /\ rset' = rset /\ ThLocalEpoch' = ThLocalEpoch
      BY <1>6 DEF ValidateRead, txn, epochs
    <2>3. /\ e.key \in Keys /\ word[e.key] \in Word /\ max_rset[w] \in Word
          /\ max_rset'[w] = MaxWord(max_rset[w], word[e.key]) /\ max_rset'[w] \in Word
          /\ todo'[w] = todo[w] \ {e.key}
          /\ \A f \in rset[w] : f.word \in Word
      BY <1>1, <2>1, WordTypes DEF TypeOK, ReadElement
    <2>4. AtMost(max_rset[w], max_rset'[w]) /\ AtMost(word[e.key], max_rset'[w])
      BY <2>3, MaxVersion
    <2>5. AtMost(e.word, max_rset'[w])
      BY <2>1, <2>3, <2>4, VersionOrder DEF StillValid
    <2>6. \A f \in rset[w] : f.key = e.key => f = e
      BY <1>1, <2>1 DEF Versions, VersionsOf
    <2>7. ASSUME NEW f \in rset[w], f.key \notin todo'[w] PROVE AtMost(f.word, max_rset'[w])
      <3>1. CASE f.key = e.key
        BY <2>5, <2>6, <3>1
      <3>2. CASE f.key # e.key
        <4>1. AtMost(f.word, max_rset[w])
          BY <1>2, <1>6, <2>2, <2>3, <2>7, <3>2
        <4> QED BY <2>3, <2>4, <4>1, VersionOrder
      <3> QED BY <3>1, <3>2
    <2> QED BY <1>2, <1>6, <2>2, <2>7
  <1> QED BY <1>1, <1>3, <1>4, <1>5, <1>6, Entry

\* unlockWriteSet stores back the word its record still has.
LEMMA TmpIsWord ==
    ASSUME Locking, Versions, NEW w \in Workers, Worker(w), faults' = {}, NEW v \in Workers,
           pc'[v] \in {"storePrefix", "storeAll"}, NEW k \in Keys, IsNext(v, k)'
    PROVE  tmp'[v] = word'[k]
  <1>1. faults = {} /\ TypeOK /\ Phase(v)
    BY NoFaultsBefore DEF Locking, PhaseInv
  <1>2. CASE v # w
    <2>1. pc'[v] = pc[v] /\ todo'[v] = todo[v] /\ tmp'[v] = tmp[v]
      BY <1>1, <1>2, OthersUnchanged DEF Local
    <2>2. tmp[v] = word[k] /\ k \in todo[v]
      BY <1>1, <2>1 DEF Versions, VersionsOf, IsNext
    <2>3. k \in Held(v)
      BY <1>1, <2>1, <2>2 DEF Phase, Held
    <2> QED BY <1>2, <2>1, <2>2, <2>3, ClaimedUntouched DEF Claimed
  <1>3. CASE v = w
    <2>1. UnlockLoad(w, "unlockPrefix", "storePrefix") \/ UnlockLoad(w, "unlockAll", "storeAll")
      BY <1>1, <1>3, Entry
    <2>2. PICK j \in Keys : IsNext(w, j) /\ tmp' = [tmp EXCEPT ![w] = word[j]] /\ word' = word /\ todo' = todo
      BY <2>1 DEF UnlockLoad, db
    <2>3. j = k
      BY <1>3, <2>2, SiloCCAssumption DEF IsNext
    <2> QED BY <1>1, <1>3, <2>2, <2>3 DEF TypeOK
  <1> QED BY <1>2, <1>3

\* A commit's TID is above every version its transaction read or overwrites.
LEMMA CommitAbove ==
    ASSUME Locking, Versions, NEW w \in Workers, Commit(w), faults' = {}
    PROVE  /\ CommitTid(w) \in Word /\ CommitTid(w).epoch >= 1
           /\ VersionLess(mrctid[w], CommitTid(w))
           /\ \A e \in rset[w] : VersionLess(e.word, CommitTid(w))
           /\ \A k \in WriteKeys(w) : VersionLess(word[k], CommitTid(w))
  <1>1. TypeOK /\ Placed(w) /\ pc[w] = "validate" /\ todo[w] = {}
    BY DEF Locking, Commit, Placed
  <1>2. ~TidWraps(w) /\ faults = {}
    BY DEF Commit
  <1>3. /\ VersionLess(max_rset[w], CommitTid(w))
        /\ VersionLess(max_wset[w], CommitTid(w))
        /\ VersionLess(mrctid[w], CommitTid(w))
        /\ ThLocalEpoch[w] <= CommitTid(w).epoch
    BY <1>1, <1>2, CommitTidVersion
  <1>4. /\ CommitTid(w) \in Word /\ CommitTid(w).epoch \in Nat /\ CommitTid(w).tid \in Nat
        /\ max_rset[w] \in Word /\ max_wset[w] \in Word
        /\ ThLocalEpoch[w] \in Nat
        /\ \A e \in rset[w] : e.word \in Word
        /\ \A k \in Keys : word[k] \in Word
    <2>1. CommitTid(w) \in Word
      BY <1>1, CommitTidType
    <2>2. CommitTid(w).epoch \in Nat /\ CommitTid(w).tid \in Nat
      BY <2>1 DEF Word, Tid
    <2> QED BY <1>1, <2>1, <2>2 DEF TypeOK, ReadElement
  <1>5. ThLocalEpoch[w] >= 1 /\ \A e \in rset[w] : AtMost(e.word, max_rset[w])
    BY <1>1, <1>2 DEF Versions, VersionsOf
  <1>6. ASSUME NEW k \in WriteKeys(w) PROVE VersionLess(word[k], CommitTid(w))
    <2>1. k \in Held(w) \/ k \in PendingInserts(w)
      BY <1>1, <1>2, ClaimedWhen DEF Claimed
    <2>2. k \in Keys
      BY <1>1, KeySets
    <2>3. CASE k \in Held(w)
      <3>1. AtMost(word[k], max_wset[w])
        BY <1>1, <1>2, <2>3 DEF Versions, VersionsOf
      <3> QED BY <1>3, <1>4, <2>2, <3>1, VersionOrder
    <2>4. CASE k \in PendingInserts(w)
      <3>1. Initial(word[k])
        BY <1>2, <2>4 DEF Versions, VersionsOf
      <3> QED BY <1>3, <1>4, <1>5, <3>1 DEF Initial, VersionLess
    <2> QED BY <2>1, <2>3, <2>4
  <1> QED BY <1>3, <1>4, <1>5, <1>6, VersionOrder

\* What is left to install is above what its records carry.
LEMMA InstallsAbove ==
    ASSUME Locking, Versions, NEW w \in Workers, Worker(w), faults' = {}, NEW v \in Workers,
           InWritePhase(v)', NEW k \in todo'[v]
    PROVE  VersionLess(word'[k], mrctid'[v])
  <1>1. faults = {} /\ TypeOK
    BY NoFaultsBefore DEF Locking
  <1>2. InWritePhase(v) => \A j \in todo[v] : VersionLess(word[j], mrctid[v])
    BY <1>1 DEF Versions, VersionsOf
  <1>3. CASE v # w
    <2>1. pc'[v] = pc[v] /\ todo'[v] = todo[v] /\ mrctid'[v] = mrctid[v]
      BY <1>1, <1>3, OthersUnchanged DEF Local
    <2>2. InWritePhase(v) /\ k \in Claimed(v)
      BY <1>1, <2>1, ClaimedWhen DEF InWritePhase
    <2> QED BY <1>2, <1>3, <2>1, <2>2, ClaimedUntouched
  <1>4. CASE v = w /\ Commit(w)
    <2>1. todo'[w] = WriteKeys(w) /\ mrctid'[w] = CommitTid(w) /\ word' = word
      BY <1>1, <1>4 DEF Commit, TypeOK, db
    <2> QED BY <1>4, <2>1, CommitAbove
  <1>5. CASE v = w /\ InstallBody(w)
    <2>1. InWritePhase(w) /\ todo' = todo /\ word' = word /\ mrctid' = mrctid
      BY <1>5 DEF InstallBody, InWritePhase, tids
    <2> QED BY <1>2, <1>5, <2>1
  <1>6. CASE v = w /\ InstallWord(w)
    <2>1. PICK j \in Keys : /\ word' = [word EXCEPT ![j] = InstalledWord(w, j)]
                            /\ todo' = [todo EXCEPT ![w] = @ \ {j}]
      BY <1>6 DEF InstallWord
    <2>2. InWritePhase(w) /\ mrctid' = mrctid /\ k \in todo[w] /\ k # j
      BY <1>1, <1>6, <2>1 DEF InstallWord, InWritePhase, tids, TypeOK
    <2>3. word'[k] = word[k]
      BY <1>1, <2>1, <2>2 DEF TypeOK
    <2> QED BY <1>2, <1>6, <2>2, <2>3
  <1> QED BY <1>1, <1>3, <1>4, <1>5, <1>6, Entry DEF InWritePhase

\* What a commit adds to the log.
LEMMA CommitLogs ==
    ASSUME Locking, Versions, NEW w \in Workers, Commit(w), faults' = {}
    PROVE  \E r : /\ log' = log \cup {r} /\ r \notin log
                  /\ r.worker = w /\ r.ctid = CommitTid(w) /\ r.reads = rset[w] /\ r.writes = wset[w]
                  /\ mrctid' = [mrctid EXCEPT ![w] = r.ctid]
                  /\ pc[w] = "validate" /\ todo[w] = {}
                  /\ pc' = [pc EXCEPT ![w] = "install"]
                  /\ todo' = [todo EXCEPT ![w] = WriteKeys(w)]
                  /\ UNCHANGED <<word, body, index, rset, wset>>
  <1> DEFINE r == [worker |-> w, ctid |-> CommitTid(w), reads |-> rset[w], writes |-> wset[w]]
  <1>1. /\ log' = log \cup {r}
        /\ mrctid' = [mrctid EXCEPT ![w] = CommitTid(w)]
        /\ pc[w] = "validate" /\ todo[w] = {}
        /\ pc' = [pc EXCEPT ![w] = "install"]
        /\ todo' = [todo EXCEPT ![w] = WriteKeys(w)]
        /\ UNCHANGED <<word, body, index, rset, wset>>
    BY DEF Commit, wal, Goto, db, txn
  <1>2. r.worker = w /\ r.ctid = CommitTid(w) /\ r.reads = rset[w] /\ r.writes = wset[w]
    OBVIOUS
  <1> HIDE DEF r
  <1>3. r \notin log
    <2>1. faults = {} /\ CommitTid(w) \in Word /\ mrctid[w] \in Word
      BY CommitAbove DEF Commit, Locking, TypeOK
    <2>2. VersionLess(mrctid[w], CommitTid(w))
      BY CommitAbove
    <2>3. r \in log => AtMost(r.ctid, mrctid[w])
      BY <1>2, <2>1 DEF Versions, VersionsLogged
    <2> QED BY <1>2, <2>1, <2>2, <2>3 DEF AtMost
  <1> QED BY <1>1, <1>2, <1>3

\* Only wal(), called by a commit, adds to the log.
LEMMA LogUnchanged ==
    ASSUME NEW w \in Workers, Worker(w), ~Commit(w)
    PROVE  log' = log /\ mrctid' = mrctid
  BY DEF hist, tids, Worker, ReadPhase, Validation, WritePhase, Quit, MakeProcedure, Begin, EpochLoad, EpochStore,
         ReadLocal, ReadRecord, ReadNotFound, Write, WriteNotFound, Insert, InsertExists,
         BeginValidation, LockRecord, LockConflict, LoadGE, StoreThLocalEpoch, ValidateRead, ValidationFails,
         Abort, InstallBody, InstallWord, FinishTx, UnlockPrefix, UnlockAll, UnlockLoad, UnlockStore

\* While writePhase has records left, it goes on installing.
LEMMA WritePhaseSteps ==
    ASSUME NEW w \in Workers, Worker(w), InWritePhase(w), todo[w] # {}
    PROVE  InstallBody(w) \/ InstallWord(w)
  BY DEF InWritePhase, Worker, ReadPhase, Validation, WritePhase, Quit, MakeProcedure, Begin, EpochLoad, EpochStore,
         ReadLocal, ReadRecord, ReadNotFound, Write, WriteNotFound, Insert, InsertExists, Executing,
         BeginValidation, LockRecord, LockConflict, LoadGE, StoreThLocalEpoch, ValidateRead, ValidationFails,
         Abort, Commit, FinishTx, UnlockPrefix, UnlockAll, UnlockLoad, UnlockStore

\* An install that is still to come stays so until its store.
LEMMA ToInstallStays ==
    ASSUME Locking, Versions, NEW w \in Workers, Worker(w), faults' = {},
           NEW t \in log, NEW k \in Keys, ToInstall(t, k)
    PROVE  ToInstall(t, k)' \/ SameVersion(t.ctid, word'[k])
  <1>1. /\ TypeOK /\ t.worker \in Workers
        /\ InWritePhase(t.worker) /\ k \in todo[t.worker]
        /\ SameVersion(t.ctid, mrctid[t.worker])
    BY DEF Locking, TypeOK, LogRecord, ToInstall
  <1>2. CASE t.worker # w
    <2>1. /\ pc'[t.worker] = pc[t.worker] /\ todo'[t.worker] = todo[t.worker]
          /\ mrctid'[t.worker] = mrctid[t.worker]
      BY <1>1, <1>2, OthersUnchanged DEF Local
    <2> QED BY <1>1, <2>1 DEF ToInstall, InWritePhase
  <1>3. CASE t.worker = w
    <2>1. InstallBody(w) \/ InstallWord(w)
      BY <1>1, <1>3, WritePhaseSteps
    <2>2. CASE InstallBody(w)
      BY <1>1, <1>3, <2>2 DEF InstallBody, ToInstall, InWritePhase, Goto, tids, TypeOK
    <2>3. CASE InstallWord(w)
      <3>1. PICK j \in Keys : /\ word' = [word EXCEPT ![j] = InstalledWord(w, j)]
                              /\ todo' = [todo EXCEPT ![w] = @ \ {j}]
        BY <2>3 DEF InstallWord
      <3>2. pc'[w] = "install" /\ mrctid' = mrctid /\ todo'[w] = todo[w] \ {j}
        BY <1>1, <2>3, <3>1 DEF InstallWord, Goto, tids, TypeOK
      <3>3. CASE k = j
        <4>1. word'[k] = InstalledWord(w, k)
          BY <1>1, <3>1, <3>3 DEF TypeOK
        <4> QED BY <1>1, <1>3, <4>1, InstalledWordType DEF SameVersion
      <3>4. CASE k # j
        BY <1>1, <1>3, <3>2, <3>4 DEF ToInstall, InWritePhase
      <3> QED BY <3>3, <3>4
    <2> QED BY <2>1, <2>2, <2>3
  <1> QED BY <1>2, <1>3

\* What the log says stays below the records' versions.
LEMMA LoggedVersionsStep ==
    ASSUME Locking, Versions, NEW w \in Workers, Worker(w), faults' = {}, NEW t \in log'
    PROVE  VersionsLogged(t)'
  <1>1. faults = {} /\ TypeOK /\ TypeOK'
    BY NoFaultsBefore, TypeStep DEF Locking, Next
  <1>2. CASE t \in log
    <2>1. VersionsLogged(t)
      BY <1>1, <1>2 DEF Versions
    <2>2. /\ t.worker \in Workers /\ t.ctid \in Word
          /\ \A e \in t.reads : e.key \in Keys /\ e.word \in Word
          /\ KeysOf(t.writes) \subseteq Keys
      BY <1>1, <1>2 DEF TypeOK, LogRecord, ReadElement, WriteElement, KeysOf
    <2>3. AtMost(t.ctid, mrctid'[t.worker])
      <3>1. CASE mrctid' = mrctid
        BY <2>1, <3>1 DEF VersionsLogged
      <3>2. CASE Commit(w)
        <4>1. mrctid' = [mrctid EXCEPT ![w] = CommitTid(w)]
          BY <3>2 DEF Commit
        <4>2. CommitTid(w) \in Word /\ mrctid[w] \in Word /\ VersionLess(mrctid[w], CommitTid(w))
          BY <1>1, <3>2, CommitAbove DEF TypeOK
        <4>3. t.worker = w => AtMost(t.ctid, CommitTid(w))
          BY <2>1, <2>2, <4>2, VersionOrder DEF VersionsLogged
        <4> QED BY <1>1, <2>1, <2>2, <4>1, <4>3 DEF VersionsLogged, TypeOK
      <3> QED BY <3>1, <3>2, LogUnchanged
    <2>4. \A e \in t.reads : AtMost(e.word, word'[e.key])
      BY <2>1, <2>2, WordsGrow DEF VersionsLogged
    <2>5. ASSUME NEW k \in KeysOf(t.writes)
          PROVE  AtMost(t.ctid, word'[k]) \/ ToInstall(t, k)'
      <3>1. k \in Keys /\ word'[k] \in Word
        BY <1>1, <2>2 DEF TypeOK
      <3>2. AtMost(t.ctid, word[k]) \/ ToInstall(t, k)
        BY <2>1 DEF VersionsLogged
      <3>3. AtMost(t.ctid, word[k]) => AtMost(t.ctid, word'[k])
        BY <2>2, <3>1, WordsGrow
      <3>4. ToInstall(t, k) => ToInstall(t, k)' \/ AtMost(t.ctid, word'[k])
        BY <1>2, <2>2, <3>1, ToInstallStays, VersionOrder
      <3> QED BY <3>2, <3>3, <3>4
    <2> QED BY <2>1, <2>3, <2>4, <2>5 DEF VersionsLogged
  <1>3. CASE t \notin log
    <2>1. Commit(w)
      BY <1>3, LogUnchanged
    <2>2. PICK r : /\ log' = log \cup {r}
                   /\ r.worker = w /\ r.ctid = CommitTid(w) /\ r.reads = rset[w] /\ r.writes = wset[w]
                   /\ mrctid' = [mrctid EXCEPT ![w] = r.ctid]
                   /\ pc' = [pc EXCEPT ![w] = "install"]
                   /\ todo' = [todo EXCEPT ![w] = WriteKeys(w)]
                   /\ UNCHANGED <<word, body, index, rset, wset>>
      BY <2>1, CommitLogs
    <2>3. t = r
      BY <1>3, <2>2
    <2>4. CommitTid(w) \in Word /\ CommitTid(w).epoch >= 1
      BY <2>1, CommitAbove
    <2>5. mrctid'[w] = t.ctid /\ pc'[w] = "install" /\ todo'[w] = WriteKeys(w)
      BY <1>1, <2>2, <2>3 DEF TypeOK
    <2>6. AtMost(t.ctid, mrctid'[t.worker])
      BY <2>2, <2>3, <2>4, <2>5, VersionOrder
    <2>7. \A e \in t.reads : AtMost(e.word, word'[e.key])
      BY <1>1, <2>2, <2>3 DEF Versions, VersionsOf
    <2>8. \A k \in KeysOf(t.writes) : ToInstall(t, k)'
      BY <2>2, <2>3, <2>5 DEF ToInstall, InWritePhase, WriteKeys, SameVersion
    <2> QED BY <2>2, <2>3, <2>4, <2>6, <2>7, <2>8 DEF VersionsLogged
  <1> QED BY <1>2, <1>3

\* No step breaks the bounds on versions.
LEMMA VersionsStep == Locking /\ Versions /\ [Next]_vars => Versions'
  <1> SUFFICES ASSUME Locking, Versions, [Next]_vars PROVE Versions'
    OBVIOUS
  <1>1. CASE SendQuit \/ UNCHANGED vars
    BY <1>1 DEF SendQuit, vars, db, epochs, txn, tids, hist, Versions, VersionsOf, VersionsLogged, ToInstall,
                InWritePhase, PendingInserts, Held, LockKeys, ReadKeys, IsNext
  <1>2. ASSUME NEW w \in Workers, Worker(w), faults' = {} PROVE Versions'
    <2>1. ASSUME NEW k \in Keys \ index' PROVE Initial(word'[k])
      <3>1. k \notin index /\ faults = {}
        BY <1>2, HistoryGrows, NoFaultsBefore
      <3>2. Initial(word[k])
        BY <3>1 DEF Versions
      <3>3. SameVersion(word'[k], word[k])
        <4>1. k \notin todo[w] \/ ~InWritePhase(w)
          BY <3>1, ClaimedWhen, OneClaimant
        <4> QED BY <1>2, <4>1, VersionSteps DEF IsNext
      <3> QED BY <3>2, <3>3 DEF Initial, SameVersion
    <2>2. ASSUME NEW v \in Workers PROVE VersionsOf(v)'
      <3>1. \A k \in PendingInserts(v)' : Initial(word'[k]) /\ \A u \in Workers : k \notin ReadKeys(u)'
        BY <1>2, PendingVersions
      <3>2. /\ \A e, f \in rset'[v] : e.key = f.key => e = f
            /\ \A e \in rset'[v] : AtMost(e.word, word'[e.key])
        BY <1>2, ReadsBelow
      <3>3. pc'[v] \in {"lock", "storeGE", "validate"} =>
              \A k \in Held(v)' : AtMost(word'[k], max_wset'[v])
        BY <1>2, LocksBelow
      <3>4. /\ pc'[v] = "storeGE" => ge'[v] >= 1
            /\ pc'[v] = "validate" =>
                 /\ ThLocalEpoch'[v] >= 1
                 /\ \A e \in rset'[v] : e.key \notin todo'[v] => AtMost(e.word, max_rset'[v])
        BY <1>2, ValidatedBelow
      <3>5. pc'[v] \in {"storePrefix", "storeAll"} => \A k \in Keys : IsNext(v, k)' => tmp'[v] = word'[k]
        BY <1>2, TmpIsWord
      <3>6. InWritePhase(v)' => \A k \in todo'[v] : VersionLess(word'[k], mrctid'[v])
        BY <1>2, InstallsAbove
      <3> QED BY <3>1, <3>2, <3>3, <3>4, <3>5, <3>6 DEF VersionsOf
    <2>3. \A t \in log' : VersionsLogged(t)'
      BY <1>2, LoggedVersionsStep
    <2> QED BY <2>1, <2>2, <2>3 DEF Versions
  <1> QED BY <1>1, <1>2 DEF Next, Finished, Versions

\* The bounds on versions hold in every state.
LEMMA VersionsInvariant == Spec => []Versions
  <1>1. Init => Versions
    BY DEF Init, Versions, VersionsOf, VersionsLogged, PendingInserts, Held, KeysOf, ReadKeys,
           Initial, ZeroWord, InWritePhase
  <1> QED BY <1>1, VersionsStep, LockingInvariant, PTL DEF Spec

\* A record's version never goes back: no unlock stores an old word over an
\* install, and an install always carries a later TID.
THEOREM VersionsOnlyGrow == Spec => VersionsGrow
  <1>1. ASSUME Locking, Versions, [Next]_vars, faults' = {}, NEW k \in Keys,
               ~SameVersion(word[k], word'[k])
        PROVE  VersionLess(word[k], word'[k])
    <2>1. word' # word
      BY <1>1 DEF SameVersion
    <2>2. PICK w \in Workers : Worker(w)
      BY <1>1, <2>1 DEF Next, Finished, SendQuit, vars, db
    <2>3. SameVersion(word'[k], mrctid[w]) /\ VersionLess(word[k], mrctid[w])
      BY <1>1, <2>2, VersionSteps DEF SameVersion
    <2> QED BY <2>3 DEF SameVersion, VersionLess
  <1>2. Locking /\ Versions /\ [Next]_vars =>
          [faults' = {} =>
             \A k \in Keys : ~SameVersion(word[k], word'[k]) => VersionLess(word[k], word'[k])]_vars
    BY <1>1
  <1> QED BY <1>2, LockingInvariant, VersionsInvariant, PTL DEF Spec, VersionsGrow

\* Rules [a] and [b]: the TID of a commit is above the last TID of its worker
\* and above every version its transaction read or is about to overwrite.
THEOREM CommitTidIsAbove == Spec => CommitTidAbove
  <1>1. ASSUME Locking, Versions, [Next]_vars, faults' = {}, NEW t \in log' \ log
        PROVE  /\ VersionLess(mrctid[t.worker], t.ctid)
               /\ \A e \in t.reads : VersionLess(e.word, t.ctid)
               /\ \A k \in KeysOf(t.writes) : VersionLess(word[k], t.ctid)
    <2>1. PICK w \in Workers : Commit(w)
      BY <1>1, LogUnchanged DEF Next, Finished, SendQuit, vars, hist
    <2>2. /\ t.worker = w /\ t.ctid = CommitTid(w) /\ t.reads = rset[w] /\ t.writes = wset[w]
      BY <1>1, <2>1, CommitLogs
    <2> QED BY <1>1, <2>1, <2>2, CommitAbove DEF WriteKeys
  <1>2. Locking /\ Versions /\ [Next]_vars =>
          [faults' = {} =>
             \A t \in log' \ log :
               /\ VersionLess(mrctid[t.worker], t.ctid)
               /\ \A e \in t.reads : VersionLess(e.word, t.ctid)
               /\ \A k \in KeysOf(t.writes) : VersionLess(word[k], t.ctid)]_vars
    BY <1>1
  <1> QED BY <1>2, LockingInvariant, VersionsInvariant, PTL DEF Spec, CommitTidAbove

-----------------------------------------------------------------------------
(* The serial order.                                                        *)

\* A transaction gets its place at LoadGE, and keeps its read and write sets
\* and what it has validated until its commit; validation adds one valid key.
LEMMA PlaceKept ==
    ASSUME Locking, NEW w \in Workers, Worker(w), ~LoadGE(w), NEW v \in Workers, Placed(v)'
    PROVE  /\ Placed(v) /\ rset'[v] = rset[v] /\ wset'[v] = wset[v]
           /\ \/ Validated(v)' = Validated(v)
              \/ /\ v = w
                 /\ \E e \in rset[w] : /\ StillValid(w, e) /\ pc[w] = "validate"
                                       /\ Validated(w)' = Validated(w) \cup {e.key}
  <1>1. TypeOK
    BY DEF Locking
  <1>2. CASE v # w
    BY <1>1, <1>2, OthersUnchanged DEF Local, Placed, Validated, ReadKeys
  <1>3. CASE v = w /\ StoreThLocalEpoch(w)
    BY <1>1, <1>3 DEF StoreThLocalEpoch, Goto, txn, TypeOK, Placed, Validated, ReadKeys
  <1>4. CASE v = w /\ ValidateRead(w)
    <2>1. PICK e \in rset[w] : /\ StillValid(w, e)
                               /\ todo' = [todo EXCEPT ![w] = @ \ {e.key}]
      BY <1>4 DEF ValidateRead
    <2>2. pc[w] = "validate" /\ pc' = pc /\ rset' = rset /\ wset' = wset
      BY <1>4 DEF ValidateRead, txn
    <2>3. todo'[w] = todo[w] \ {e.key} /\ e.key \in ReadKeys(w)
      BY <1>1, <2>1 DEF TypeOK, ReadKeys, KeysOf
    <2>4. Validated(w)' = Validated(w) \cup {e.key}
      BY <2>2, <2>3 DEF Validated, ReadKeys
    <2> QED BY <1>4, <2>1, <2>2, <2>4 DEF Placed
  <1> QED BY <1>1, <1>2, <1>3, <1>4, Entry DEF Placed

\* Test [3]: nobody else claims a record when it is found valid.
LEMMA ValidUnclaimed ==
    ASSUME Locking, Versions, faults = {}, NEW w \in Workers, pc[w] = "validate",
           NEW e \in rset[w], StillValid(w, e)
    PROVE  \A v \in Workers \ {w} : e.key \notin Claimed(v)
  <1> SUFFICES ASSUME NEW v \in Workers \ {w}, e.key \in Claimed(v) PROVE FALSE
    OBVIOUS
  <1>1. e.key \in ReadKeys(w)
    BY DEF ReadKeys, KeysOf
  <1>2. e.key \notin PendingInserts(v)
    BY <1>1 DEF Versions, VersionsOf
  <1>3. word[e.key].lock
    BY <1>2, OneClaimant DEF Claimed
  <1>4. e.key \in WriteKeys(w)
    BY <1>3 DEF StillValid
  <1> QED BY <1>4, ClaimedWhen, OneClaimant DEF Placed

\* Test [1]: no logged write is above the version found valid.
LEMMA ValidIsLast ==
    ASSUME Locking, Versions, faults = {}, NEW w \in Workers, pc[w] = "validate",
           NEW e \in rset[w], StillValid(w, e),
           NEW u \in log, e.key \in KeysOf(u.writes)
    PROVE  ~VersionLess(e.word, u.ctid)
  <1>1. e.key \in Keys /\ word[e.key] \in Word /\ e.word \in Word /\ u.ctid \in Word /\ u.worker \in Workers
    BY DEF Locking, TypeOK, ReadElement, LogRecord
  <1>2. ~ToInstall(u, e.key)
    <2> SUFFICES ASSUME ToInstall(u, e.key) PROVE FALSE
      OBVIOUS
    <2>1. e.key \in Claimed(u.worker)
      BY <1>1, ClaimedWhen DEF ToInstall
    <2>2. u.worker # w
      BY DEF ToInstall, InWritePhase
    <2> QED BY <1>1, <2>1, <2>2, ValidUnclaimed
  <1>3. AtMost(u.ctid, word[e.key])
    BY <1>2 DEF Versions, VersionsLogged
  <1>4. AtMost(u.ctid, e.word)
    BY <1>1, <1>3, VersionOrder DEF StillValid
  <1> QED BY <1>4 DEF AtMost

\* Steps other than LoadGE and commits keep the order as it is.
LEMMA OrderKept ==
    ASSUME Locking, Versions, NEW w \in Workers, Worker(w), faults' = {}, ~LoadGE(w), ~Commit(w),
           NEW rank, NEW at, NEW n, Order(rank, at, n)
    PROVE  Order(rank, at, n)'
  <1>1. faults = {} /\ log' = log
    BY NoFaultsBefore, LogUnchanged
  <1>2. \A t, u : Precedes(t, u)' <=> Precedes(t, u)
    BY DEF Precedes
  <1>3. ASSUME NEW v \in Workers, Placed(v)' PROVE PlacedWell(v, rank, at)' /\ at[v] < n
    <2>1. Placed(v) /\ rset'[v] = rset[v] /\ wset'[v] = wset[v]
      BY <1>3, PlaceKept
    <2>2. at[v] < n /\ PlacedWell(v, rank, at)
      BY <2>1 DEF Order
    <2>3. \A t \in log' : PrecedesWorker(t, v)' => rank[t] < at[v]
      BY <1>1, <2>1, <2>2 DEF PlacedWell, PrecedesWorker, WriteKeys
    <2>4. ASSUME NEW f \in rset'[v], NEW u \in log',
                 f.key \in Validated(v)', f.key \in KeysOf(u.writes), VersionLess(f.word, u.ctid)
          PROVE  at[v] < rank[u]
      <3>1. CASE f.key \in Validated(v)
        BY <1>1, <2>1, <2>2, <2>4, <3>1 DEF PlacedWell
      <3>2. CASE f.key \notin Validated(v)
        <4>1. PICK e \in rset[w] : v = w /\ StillValid(w, e) /\ pc[w] = "validate" /\ f.key = e.key
          BY <1>3, <2>4, <3>2, PlaceKept
        <4>2. f = e
          BY <1>1, <2>1, <4>1 DEF Versions, VersionsOf
        <4> QED BY <1>1, <2>4, <4>1, <4>2, ValidIsLast
      <3> QED BY <3>1, <3>2
    <2>5. ASSUME NEW x \in Workers \ {v}, Placed(x)', NEW k, k \in Validated(x)', k \in WriteKeys(v)'
          PROVE  at[x] < at[v]
      <3>1. Placed(x) /\ k \in WriteKeys(v)
        BY <2>1, <2>5, PlaceKept DEF WriteKeys
      <3>2. CASE k \in Validated(x)
        BY <2>2, <3>1, <3>2 DEF PlacedWell
      <3>3. CASE k \notin Validated(x)
        <4>1. PICK e \in rset[w] : x = w /\ StillValid(w, e) /\ pc[w] = "validate" /\ k = e.key
          BY <2>5, <3>3, PlaceKept
        <4>2. k \in Claimed(v)
          BY <1>1, <2>1, <3>1, ClaimedWhen
        <4> QED BY <1>1, <4>1, <4>2, ValidUnclaimed
      <3> QED BY <3>2, <3>3
    <2>6. \A x \in Workers \ {v} : Placed(x)' /\ Validated(x)' \cap WriteKeys(v)' # {} => at[x] < at[v]
      BY <2>5
    <2> QED BY <2>2, <2>3, <2>4, <2>6 DEF PlacedWell
  <1> QED BY <1>1, <1>2, <1>3 DEF Order

\* LoadGE puts the worker's transaction after all that have a place.
LEMMA OrderPlaces ==
    ASSUME Locking, NEW w \in Workers, LoadGE(w),
           NEW rank \in [log -> Nat], NEW at \in [Workers -> Nat], NEW n \in Nat, Order(rank, at, n)
    PROVE  Order(rank, [at EXCEPT ![w] = n], n + 1)'
  <1> DEFINE a == [at EXCEPT ![w] = n]
  <1>1. /\ log' = log /\ rset' = rset /\ wset' = wset /\ todo' = todo
        /\ pc' = [pc EXCEPT ![w] = "storeGE"] /\ ~Placed(w)
    BY DEF LoadGE, hist, txn, Goto, Placed
  <1>2. TypeOK /\ pc'[w] = "storeGE" /\ \A v \in Workers \ {w} : pc'[v] = pc[v]
    BY <1>1 DEF Locking, TypeOK
  <1>3. a \in [Workers -> Nat] /\ a[w] = n /\ \A v \in Workers \ {w} : a[v] = at[v]
    OBVIOUS
  <1> HIDE DEF a
  <1>4. \A t, u : Precedes(t, u)' <=> Precedes(t, u)
    BY DEF Precedes
  <1>5. \A t \in log : \A v : PrecedesWorker(t, v)' <=> PrecedesWorker(t, v)
    BY <1>1 DEF PrecedesWorker, WriteKeys
  <1>6. Validated(w)' = {} /\ \A v \in Workers \ {w} : Validated(v)' = Validated(v) /\ Placed(v)' = Placed(v)
    BY <1>1, <1>2 DEF Validated, Placed, ReadKeys
  <1>7. /\ \A t \in log : rank[t] \in Nat /\ rank[t] < n
        /\ \A t, u \in log : t # u /\ Precedes(t, u) => rank[t] < rank[u]
        /\ \A v \in Workers : at[v] \in Nat
        /\ \A v \in Workers : Placed(v) => at[v] < n /\ PlacedWell(v, rank, at)
    BY DEF Order
  <1>8. \A v : WriteKeys(v)' = WriteKeys(v)
    BY <1>1 DEF WriteKeys
  <1>9. PlacedWell(w, rank, a)'
    <2>1. \A t \in log : rank[t] < a[w]
      BY <1>3, <1>7
    <2>2. \A v \in Workers \ {w} : Placed(v)' => a[v] < a[w]
      BY <1>3, <1>6, <1>7
    <2> QED BY <1>1, <1>6, <2>1, <2>2 DEF PlacedWell
  <1>10. ASSUME NEW v \in Workers \ {w}, Placed(v)' PROVE PlacedWell(v, rank, a)'
    <2>1. PlacedWell(v, rank, at)
      BY <1>6, <1>7, <1>10
    <2>2. \A t \in log' : PrecedesWorker(t, v)' => rank[t] < a[v]
      BY <1>1, <1>3, <1>5, <2>1 DEF PlacedWell
    <2>3. \A e \in rset'[v] : \A u \in log' :
             /\ e.key \in Validated(v)' \cap KeysOf(u.writes)
             /\ VersionLess(e.word, u.ctid)
             => a[v] < rank[u]
      BY <1>1, <1>3, <1>6, <2>1 DEF PlacedWell
    <2>4. \A x \in Workers \ {v} : Placed(x)' /\ Validated(x)' \cap WriteKeys(v)' # {} => a[x] < a[v]
      <3>1. ASSUME NEW x \in Workers \ {v}, Placed(x)', Validated(x)' \cap WriteKeys(v)' # {}
            PROVE  a[x] < a[v]
        <4>1. x # w
          BY <1>6, <3>1
        <4> QED BY <1>3, <1>6, <1>8, <2>1, <3>1, <4>1 DEF PlacedWell
      <3> QED BY <3>1
    <2> QED BY <2>2, <2>3, <2>4 DEF PlacedWell
  <1>11. \A t \in log' : rank[t] < n + 1
    BY <1>1, <1>7
  <1>12. \A v \in Workers : Placed(v)' => a[v] < n + 1
    BY <1>3, <1>6, <1>7
  <1>13. \A t, u \in log' : t # u /\ Precedes(t, u)' => rank[t] < rank[u]
    BY <1>1, <1>4, <1>7
  <1> QED BY <1>9, <1>10, <1>11, <1>12, <1>13 DEF Order, a

\* Nothing that is logged, or that another worker reads, has the TID of a new
\* commit as the version of a record it writes, and no logged write is later.
LEMMA CommitIsNew ==
    ASSUME Locking, Versions, NEW w \in Workers, Commit(w), faults' = {},
           NEW k \in WriteKeys(w)
    PROVE  /\ \A u \in log : k \in KeysOf(u.writes) => VersionLess(u.ctid, CommitTid(w))
           /\ \A u \in log : \A e \in u.reads : e.key = k => ~SameVersion(e.word, CommitTid(w))
           /\ \A v \in Workers : \A e \in rset[v] : e.key = k => ~SameVersion(e.word, CommitTid(w))
           /\ \A v \in Workers \ {w} : Placed(v) => k \notin WriteKeys(v)
  <1>1. TypeOK /\ faults = {} /\ Placed(w) /\ ~InWritePhase(w)
    BY DEF Locking, Commit, Placed, InWritePhase
  <1>2. k \in Claimed(w) /\ k \in Keys /\ word[k] \in Word
    BY <1>1, ClaimedWhen, OneClaimant DEF TypeOK
  <1>3. CommitTid(w) \in Word /\ VersionLess(word[k], CommitTid(w))
    BY CommitAbove
  <1>4. ASSUME NEW u \in log, k \in KeysOf(u.writes) PROVE VersionLess(u.ctid, CommitTid(w))
    <2>1. u.worker \in Workers /\ u.ctid \in Word
      BY <1>1 DEF TypeOK, LogRecord
    <2>2. ~ToInstall(u, k)
      <3> SUFFICES ASSUME ToInstall(u, k) PROVE FALSE
        OBVIOUS
      <3>1. k \in Claimed(u.worker) /\ u.worker # w
        BY <1>1, <2>1, ClaimedWhen DEF ToInstall
      <3> QED BY <1>1, <1>2, <2>1, <3>1, OneClaimant
    <2>3. AtMost(u.ctid, word[k])
      BY <1>1, <1>4, <2>2 DEF Versions, VersionsLogged
    <2> QED BY <1>2, <1>3, <2>1, <2>3, VersionOrder
  <1>5. ASSUME NEW x \in Word, AtMost(x, word[k]) PROVE ~SameVersion(x, CommitTid(w))
    BY <1>2, <1>3, <1>5, VersionOrder
  <1>6. ASSUME NEW u \in log, NEW e \in u.reads, e.key = k PROVE ~SameVersion(e.word, CommitTid(w))
    BY <1>1, <1>5, <1>6 DEF Versions, VersionsLogged, TypeOK, LogRecord, ReadElement
  <1>7. ASSUME NEW v \in Workers, NEW e \in rset[v], e.key = k PROVE ~SameVersion(e.word, CommitTid(w))
    BY <1>1, <1>5, <1>7 DEF Versions, VersionsOf, TypeOK, ReadElement
  <1>8. ASSUME NEW v \in Workers \ {w}, Placed(v) PROVE k \notin WriteKeys(v)
    BY <1>1, <1>2, <1>8, ClaimedWhen, OneClaimant
  <1> QED BY <1>4, <1>6, <1>7, <1>8

\* A commit takes its place in the order as its rank.
LEMMA OrderCommits ==
    ASSUME Locking, Versions, NEW w \in Workers, Commit(w), faults' = {},
           NEW rank \in [log -> Nat], NEW at \in [Workers -> Nat], NEW n \in Nat, Order(rank, at, n),
           NEW new, new \notin log, log' = log \cup {new},
           new.worker = w, new.ctid = CommitTid(w), new.reads = rset[w], new.writes = wset[w],
           NEW next, \A t \in log : next[t] = rank[t], next[new] = at[w]
    PROVE  Order(next, at, n)'
  <1>1. /\ TypeOK /\ pc[w] = "validate" /\ todo[w] = {} /\ Placed(w)
        /\ rset' = rset /\ wset' = wset
        /\ pc' = [pc EXCEPT ![w] = "install"] /\ todo' = [todo EXCEPT ![w] = WriteKeys(w)]
    BY DEF Locking, Commit, Goto, txn, Placed
  <1>2. ~Placed(w)' /\ \A v \in Workers \ {w} : Placed(v)' = Placed(v) /\ Validated(v)' = Validated(v)
    BY <1>1 DEF Placed, Validated, ReadKeys, TypeOK
  <1>3. Validated(w) = ReadKeys(w)
    BY <1>1 DEF Validated
  <1>4. \A t, u : Precedes(t, u)' <=> Precedes(t, u)
    BY DEF Precedes
  <1>5. /\ \A t \in log : rank[t] \in Nat /\ rank[t] < n
        /\ \A t, u \in log : t # u /\ Precedes(t, u) => rank[t] < rank[u]
        /\ \A v \in Workers : at[v] \in Nat
        /\ \A v \in Workers : Placed(v) => at[v] < n /\ PlacedWell(v, rank, at)
    BY DEF Order
  <1>6. KeysOf(new.writes) = WriteKeys(w) /\ KeysOf(new.reads) = ReadKeys(w)
    BY DEF WriteKeys, ReadKeys
  <1>7. ASSUME NEW t \in log, Precedes(t, new) PROVE next[t] < next[new]
    <2>1. PrecedesWorker(t, w)
      BY <1>6, <1>7 DEF Precedes, PrecedesWorker, KeysOf
    <2> QED BY <1>1, <1>5, <2>1 DEF PlacedWell
  <1>8. ASSUME NEW u \in log, Precedes(new, u) PROVE next[new] < next[u]
    <2>1. ~\E e \in u.reads : e.key \in KeysOf(new.writes) /\ SameVersion(e.word, new.ctid)
      BY <1>6, CommitIsNew
    <2>2. ~(KeysOf(new.writes) \cap KeysOf(u.writes) # {} /\ VersionLess(new.ctid, u.ctid))
      <3>1. u.ctid \in Word /\ CommitTid(w) \in Word
        BY <1>1, CommitAbove DEF TypeOK, LogRecord
      <3>2. VersionLess(u.ctid, CommitTid(w)) => ~VersionLess(CommitTid(w), u.ctid)
        BY <3>1, VersionOrder DEF AtMost
      <3> QED BY <1>6, <3>2, CommitIsNew
    <2>3. PICK e \in rset[w] : e.key \in KeysOf(u.writes) /\ VersionLess(e.word, u.ctid)
      BY <1>8, <2>1, <2>2 DEF Precedes
    <2>4. e.key \in Validated(w)
      BY <1>3, <2>3 DEF ReadKeys, KeysOf
    <2> QED BY <1>1, <1>5, <2>3, <2>4 DEF PlacedWell
  <1>9. ASSUME NEW v \in Workers, Placed(v)' PROVE at[v] < n /\ PlacedWell(v, next, at)'
    <2>1. v # w /\ Placed(v) /\ Validated(v)' = Validated(v) /\ WriteKeys(v)' = WriteKeys(v)
      BY <1>1, <1>2, <1>9 DEF WriteKeys
    <2>2. at[v] < n /\ PlacedWell(v, rank, at)
      BY <1>5, <2>1
    <2>3. ASSUME NEW t \in log', PrecedesWorker(t, v)' PROVE next[t] < at[v]
      <3>1. PrecedesWorker(t, v)
        BY <1>1, <2>3 DEF PrecedesWorker, WriteKeys
      <3>2. CASE t \in log
        BY <2>2, <3>1, <3>2 DEF PlacedWell
      <3>3. CASE t = new
        <4>1. ~\E e \in rset[v] : e.key \in KeysOf(t.writes) /\ SameVersion(e.word, t.ctid)
          BY <1>6, <3>3, CommitIsNew
        <4>2. KeysOf(t.writes) \cap WriteKeys(v) = {}
          BY <1>6, <2>1, <3>3, CommitIsNew
        <4>3. Validated(w) \cap WriteKeys(v) # {}
          BY <1>3, <1>6, <3>1, <3>3, <4>1, <4>2 DEF PrecedesWorker
        <4> QED BY <1>1, <2>1, <2>2, <3>3, <4>3 DEF PlacedWell
      <3> QED BY <3>2, <3>3
    <2>4. ASSUME NEW e \in rset'[v], NEW u \in log',
                 e.key \in Validated(v)' \cap KeysOf(u.writes), VersionLess(e.word, u.ctid)
          PROVE  at[v] < next[u]
      <3>1. CASE u \in log
        BY <1>1, <2>1, <2>2, <2>4, <3>1 DEF PlacedWell
      <3>2. CASE u = new
        <4>1. Validated(v) \cap WriteKeys(w) # {}
          BY <1>6, <2>1, <2>4, <3>2
        <4>2. PlacedWell(w, rank, at)
          BY <1>1, <1>5
        <4> QED BY <2>1, <3>2, <4>1, <4>2 DEF PlacedWell
      <3> QED BY <3>1, <3>2
    <2>5. ASSUME NEW x \in Workers \ {v}, Placed(x)', Validated(x)' \cap WriteKeys(v)' # {}
          PROVE  at[x] < at[v]
      <3>1. x # w /\ Placed(x) /\ Validated(x)' = Validated(x)
        BY <1>2, <2>5
      <3> QED BY <2>1, <2>2, <2>5, <3>1 DEF PlacedWell
    <2> QED BY <2>2, <2>3, <2>4, <2>5 DEF PlacedWell
  <1>10. \A t \in log' : next[t] < n
    BY <1>1, <1>5
  <1>11. \A t, u \in log' : t # u /\ Precedes(t, u)' => next[t] < next[u]
    BY <1>4, <1>5, <1>7, <1>8
  <1> QED BY <1>9, <1>10, <1>11 DEF Order

\* No step breaks the order.
LEMMA OrderedStep == Locking /\ Versions /\ Ordered /\ [Next]_vars => Ordered'
  <1> SUFFICES ASSUME Locking, Versions, Ordered, [Next]_vars, faults' = {}
               PROVE  \E rank \in [log' -> Nat], at \in [Workers -> Nat], n \in Nat : Order(rank, at, n)'
    BY DEF Ordered
  <1>1. CASE SendQuit \/ UNCHANGED vars
    <2>1. UNCHANGED <<log, pc, rset, wset, todo, faults>>
      BY <1>1 DEF SendQuit, vars, hist, txn
    <2>2. \A rank, at, n : Order(rank, at, n)' <=> Order(rank, at, n)
      BY <2>1 DEF Order, PlacedWell, PrecedesWorker, Precedes, Placed, Validated, ReadKeys, WriteKeys
    <2> QED BY <2>1, <2>2 DEF Ordered
  <1>2. ASSUME NEW w \in Workers, Worker(w)
        PROVE  \E rank \in [log' -> Nat], at \in [Workers -> Nat], n \in Nat : Order(rank, at, n)'
    <2>1. PICK rank \in [log -> Nat], at \in [Workers -> Nat], n \in Nat : Order(rank, at, n)
      BY <1>2, NoFaultsBefore DEF Ordered
    <2>2. CASE LoadGE(w)
      <3>1. log' = log /\ [at EXCEPT ![w] = n] \in [Workers -> Nat] /\ n + 1 \in Nat
        BY <2>2 DEF LoadGE, hist
      <3>2. Order(rank, [at EXCEPT ![w] = n], n + 1)'
        BY <2>1, <2>2, OrderPlaces
      <3> QED BY <3>1, <3>2
    <2>3. CASE Commit(w)
      <3>1. PICK new : /\ log' = log \cup {new} /\ new \notin log
                       /\ new.worker = w /\ new.ctid = CommitTid(w)
                       /\ new.reads = rset[w] /\ new.writes = wset[w]
        BY <2>3, CommitLogs
      <3>2. PICK next : next = [t \in log \cup {new} |-> IF t = new THEN at[w] ELSE rank[t]]
        OBVIOUS
      <3>3. next \in [log' -> Nat] /\ next[new] = at[w] /\ \A t \in log : next[t] = rank[t]
        BY <3>1, <3>2
      <3>4. Order(next, at, n)'
        BY <2>1, <2>3, <3>1, <3>3, OrderCommits
      <3> QED BY <3>3, <3>4
    <2>4. CASE ~LoadGE(w) /\ ~Commit(w)
      <3>1. Order(rank, at, n)' /\ log' = log
        BY <1>2, <2>1, <2>4, OrderKept, LogUnchanged
      <3> QED BY <3>1
    <2> QED BY <2>2, <2>3, <2>4
  <1> QED BY <1>1, <1>2 DEF Next, Finished

\* The logged and the validating transactions are always ordered.
LEMMA OrderedInvariant == Spec => []Ordered
  <1>1. Init => Ordered
    <2> SUFFICES ASSUME Init PROVE Ordered
      OBVIOUS
    <2>1. PICK rank \in [log -> Nat], at \in [Workers -> Nat] : TRUE
      <3>1. [t \in log |-> 0] \in [log -> Nat] /\ [w \in Workers |-> 0] \in [Workers -> Nat]
        OBVIOUS
      <3> QED BY <3>1
    <2>2. Order(rank, at, 0)
      BY DEF Init, Order, Placed
    <2> QED BY <2>2 DEF Ordered
  <1> QED BY <1>1, OrderedStep, LockingInvariant, VersionsInvariant, PTL DEF Spec

\* The committed transactions are serializable: in every set of them there is
\* one that no other has to precede, so that their precedence has no cycle.
THEOREM CommitsAreSerializable == Spec => []Serializable
  <1>1. ASSUME Ordered, faults = {}, NEW S \in (SUBSET log) \ {{}}
        PROVE  \E u \in S : \A t \in S \ {u} : ~Precedes(t, u)
    <2>1. PICK rank \in [log -> Nat], at \in [Workers -> Nat], n \in Nat : Order(rank, at, n)
      BY <1>1 DEF Ordered
    <2> DEFINE R == {rank[t] : t \in S}
    <2>2. R \subseteq Nat /\ R # {}
      BY <2>1
    <2> HIDE DEF R
    <2>3. PICK m \in R : \A i \in R : m <= i
      BY <2>2, LeastNumber
    <2>4. PICK u \in S : m = rank[u]
      BY <2>3 DEF R
    <2>5. ASSUME NEW t \in S \ {u}, Precedes(t, u) PROVE FALSE
      <3>1. rank[t] < rank[u] /\ rank[t] \in Nat /\ rank[u] \in Nat
        BY <2>1, <2>5 DEF Order
      <3>2. rank[u] <= rank[t]
        BY <2>3, <2>4 DEF R
      <3> QED BY <3>1, <3>2
    <2> QED BY <2>4, <2>5
  <1>2. Ordered => Serializable
    BY <1>1 DEF Serializable
  <1> QED BY <1>2, OrderedInvariant, PTL

-----------------------------------------------------------------------------
(* Contents: a record holds the value logged with its version.              *)

\* An install clears the absent bit, if its TID has it.
LEMMA InstalledPresent ==
    ASSUME Locking, Contents, faults = {}, NEW w \in Workers, NEW k \in Keys
    PROVE  ~InstalledWord(w, k).absent
  <1> DEFINE P == mrctid[w].absent /\ ~\E e \in wset[w] : e.op = "INSERT" /\ e.key <= k
  <1>1. ~mrctid[w].absent /\ mrctid[w] \in Word
    BY DEF Contents, ContentsOf, Locking, TypeOK
  <1>2. InstalledWord(w, k) = [mrctid[w] EXCEPT !.absent = P] /\ ~P
    BY <1>1 DEF InstalledWord
  <1> HIDE DEF P
  <1> QED BY <1>1, <1>2 DEF Word

\* Only these actions change the words a TID is computed from.
LEMMA MaximaUnchanged ==
    ASSUME NEW w \in Workers, Worker(w), ~Begin(w), ~LockRecord(w), ~ValidateRead(w), ~Commit(w)
    PROVE  UNCHANGED <<mrctid, max_rset, max_wset>>
  BY DEF tids, Worker, ReadPhase, Validation, WritePhase, Quit, MakeProcedure, EpochLoad, EpochStore,
         ReadLocal, ReadRecord, ReadNotFound, Write, WriteNotFound, Insert, InsertExists,
         BeginValidation, LockConflict, LoadGE, StoreThLocalEpoch, ValidationFails,
         Abort, InstallBody, InstallWord, FinishTx, UnlockPrefix, UnlockAll, UnlockLoad, UnlockStore

\* Only write() and insert() add to a write set.
LEMMA WriteSetShrinks ==
    ASSUME TypeOK, NEW w \in Workers, Worker(w), ~Write(w), ~Insert(w)
    PROVE  \A v \in Workers : wset'[v] \subseteq wset[v]
  BY DEF txn, TypeOK, Abandon, Worker, ReadPhase, Validation, WritePhase,
         Quit, MakeProcedure, Begin, EpochLoad, EpochStore,
         ReadLocal, ReadRecord, ReadNotFound, WriteNotFound, InsertExists,
         BeginValidation, LockConflict, LoadGE, StoreThLocalEpoch, ValidateRead, ValidationFails, Abort, Commit, InstallBody, FinishTx,
         UnlockPrefix, UnlockAll, UnlockLoad, UnlockStore, LockRecord, InstallWord

\* A record in the index that is present stays present.
LEMMA PresentStays ==
    ASSUME Locking, Versions, Contents, NEW w \in Workers, Worker(w), faults' = {},
           NEW k \in Keys, k \in index, ~word[k].absent
    PROVE  ~word'[k].absent
  <1>1. faults = {} /\ TypeOK
    BY NoFaultsBefore DEF Locking
  <1>2. CASE LockRecord(w)
    <2>1. PICK j \in Keys : word' = [word EXCEPT ![j] = Locked(@)]
      BY <1>2 DEF LockRecord
    <2> QED BY <1>1, <2>1, LockBitVersion DEF TypeOK
  <1>3. CASE Insert(w)
    BY <1>1, <1>3 DEF Insert, TypeOK
  <1>4. CASE \/ UnlockStore(w, "storePrefix", "unlockPrefix")
             \/ UnlockStore(w, "storeAll", "unlockAll")
    <2>1. PICK j \in Keys : IsNext(w, j) /\ word' = [word EXCEPT ![j] = Unlocked(tmp[w])]
      BY <1>4 DEF UnlockStore
    <2>2. tmp[w] = word[j]
      BY <1>1, <1>4, <2>1 DEF Versions, VersionsOf, UnlockStore
    <2> QED BY <1>1, <2>1, <2>2, LockBitVersion DEF TypeOK
  <1>5. CASE InstallWord(w)
    <2>1. PICK j \in Keys : word' = [word EXCEPT ![j] = InstalledWord(w, j)]
      BY <1>5 DEF InstallWord
    <2>2. ~InstalledWord(w, j).absent
      BY <1>1, InstalledPresent
    <2> QED BY <1>1, <2>1, <2>2 DEF TypeOK
  <1> QED BY <1>2, <1>3, <1>4, <1>5, WordUnchanged

\* The three words a TID is computed from name present records.
LEMMA MaximaPresent ==
    ASSUME Locking, Versions, Contents, NEW w \in Workers, Worker(w), faults' = {}, NEW v \in Workers
    PROVE  ~mrctid'[v].absent /\ ~max_rset'[v].absent /\ ~max_wset'[v].absent
  <1>1. faults = {} /\ TypeOK /\ Phase(v)
    BY NoFaultsBefore DEF Locking, PhaseInv
  <1>2. /\ ~mrctid[v].absent /\ ~max_rset[v].absent /\ ~max_wset[v].absent
        /\ \A k \in LockKeys(v) \cup ReadKeys(v) : ~word[k].absent
    BY <1>1 DEF Contents, ContentsOf
  <1>3. CASE v # w
    BY <1>1, <1>2, <1>3, OthersUnchanged DEF Local
  <1>4. CASE v = w /\ Begin(w)
    BY <1>1, <1>2, <1>4 DEF Begin, TypeOK, ZeroWord
  <1>5. CASE v = w /\ LockRecord(w)
    <2>1. PICK j \in Keys : IsNext(w, j) /\ max_wset' = [max_wset EXCEPT ![w] = MaxWord(@, word[j])]
      BY <1>5 DEF LockRecord
    <2>2. ~word[j].absent
      BY <1>1, <1>2, <1>5, <2>1 DEF LockRecord, IsNext, Phase
    <2>3. ~MaxWord(max_wset[w], word[j]).absent
      BY <1>1, <1>2, <1>5, <2>2, MaxVersion DEF TypeOK
    <2> QED BY <1>1, <1>2, <1>5, <2>1, <2>3 DEF LockRecord, TypeOK
  <1>6. CASE v = w /\ ValidateRead(w)
    <2>1. PICK e \in rset[w] : max_rset' = [max_rset EXCEPT ![w] = MaxWord(@, word[e.key])]
      BY <1>6 DEF ValidateRead
    <2>2. ~word[e.key].absent /\ e.key \in Keys
      BY <1>1, <1>2, <1>6, <2>1 DEF ReadKeys, KeysOf, TypeOK, ReadElement
    <2>3. ~MaxWord(max_rset[w], word[e.key]).absent
      BY <1>1, <1>2, <1>6, <2>2, MaxVersion DEF TypeOK
    <2> QED BY <1>1, <1>2, <1>6, <2>1, <2>3 DEF ValidateRead, TypeOK
  <1>7. CASE v = w /\ Commit(w)
    <2>1. ~TidWraps(w)
      BY <1>7 DEF Commit
    <2>2. ~CommitTid(w).absent
      BY <1>1, <1>2, <1>7, <2>1, CommitTidVersion
    <2> QED BY <1>1, <1>2, <1>7, <2>2 DEF Commit, TypeOK
  <1>8. CASE UNCHANGED <<mrctid, max_rset, max_wset>>
    BY <1>2, <1>8
  <1> QED BY <1>3, <1>4, <1>5, <1>6, <1>7, <1>8, MaximaUnchanged

\* What a worker has locked, is to lock, or has read is present.
LEMMA UsedPresent ==
    ASSUME Locking, Versions, Contents, NEW w \in Workers, Worker(w), faults' = {}, NEW v \in Workers,
           NEW k \in LockKeys(v)' \cup ReadKeys(v)'
    PROVE  ~word'[k].absent
  <1>1. faults = {} /\ LockingTrusted' /\ TypeOK /\ Phase(v)
    BY NoFaultsBefore DEF Locking, PhaseInv
  <1>2. CASE k \in LockKeys(v) \cup ReadKeys(v)
    <2>1. ~word[k].absent
      BY <1>1, <1>2 DEF Contents, ContentsOf
    <2>2. k \in index /\ k \in Keys
      BY <1>1, <1>2, KeySets DEF Phase
    <2> QED BY <2>1, <2>2, PresentStays
  <1>3. CASE k \notin LockKeys(v) /\ k \in LockKeys(v)'
    <2>1. v = w
      BY <1>1, <1>3, PendingOthers
    <2>2. PICK j \in Keys : AddsWrite(w, j)
      BY <1>1, <1>3, <2>1, WriteSetSteps DEF SameWrites, AddsInsert
    <2> QED BY <1>3, <2>1, <2>2 DEF AddsWrite
  <1>4. CASE k \notin ReadKeys(v) /\ k \in ReadKeys(v)'
    <2>1. PICK j \in Keys : /\ ReadRecord(w) /\ ~word[j].absent
                            /\ rset' = [rset EXCEPT ![w] = @ \cup {[key |-> j, word |-> word[j]]}]
      BY <1>4, ReadSets DEF ReadKeys, KeysOf
    <2>2. k = j
      BY <1>1, <1>4, <2>1 DEF ReadKeys, KeysOf, TypeOK
    <2> QED BY <2>1, <2>2 DEF ReadRecord, db
  <1> QED BY <1>2, <1>3, <1>4

\* The value of an inserted record is in place since insert().
LEMMA InsertsCarried ==
    ASSUME Locking, Versions, Contents, NEW w \in Workers, Worker(w), faults' = {}, NEW v \in Workers,
           NEW e \in wset'[v], e.op = "INSERT", e.key \in PendingInserts(v)'
    PROVE  Carries(e)'
  <1>1. faults = {} /\ LockingTrusted /\ LockingTrusted' /\ TypeOK /\ Phase(v)
    BY NoFaultsBefore, NoFaultsTrusted DEF Locking, PhaseInv
  <1>2. \A f \in wset[v] : f.op = "INSERT" /\ f.key \in PendingInserts(v) => Carries(f)
    BY <1>1 DEF Contents, ContentsOf
  <1>3. CASE v # w
    <2>1. wset'[v] = wset[v] /\ PendingInserts(v)' = PendingInserts(v)
      BY <1>1, <1>3, OthersUnchanged, PendingOthers DEF Local
    <2>2. body'[e.key] = body[e.key]
      BY <1>3, <2>1, ClaimedUntouched DEF Claimed
    <2> QED BY <1>2, <2>1, <2>2 DEF Carries
  <1>4. CASE v = w /\ e \in wset[w]
    <2>1. e.key \in WriteKeys(w) /\ e.key \in index /\ e.key \in Keys
      BY <1>1, <1>4, KeySets DEF WriteKeys, KeysOf, Phase
    <2>2. e.key \in PendingInserts(w)
      BY <1>1, <1>4, <2>1, WriteSetSteps DEF SameWrites, AddsWrite, AddsInsert
    <2>3. body'[e.key] = body[e.key]
      <3>1. CASE Insert(w)
        BY <1>1, <2>1, <3>1 DEF Insert, TypeOK
      <3>2. CASE InstallBody(w)
        <4>1. PICK f \in wset[w] : body' = IF f.op = "WRITE" THEN [body EXCEPT ![f.key] = f.val] ELSE body
          BY <3>2 DEF InstallBody
        <4>2. f.op = "WRITE" => f.key \in LockKeys(w)
          BY DEF LockKeys, KeysOf
        <4>3. e.key \notin LockKeys(w)
          BY <1>1, <2>2 DEF Locking, InsertInv
        <4> QED BY <1>1, <2>1, <4>1, <4>2, <4>3 DEF TypeOK
      <3> QED BY <3>1, <3>2, BodyUnchanged
    <2> QED BY <1>2, <1>4, <2>2, <2>3 DEF Carries
  <1>5. CASE v = w /\ e \notin wset[w]
    <2>1. Insert(w)
      <3>1. Insert(w) \/ Write(w)
        BY <1>1, <1>5, WriteSetShrinks
      <3>2. ~Write(w)
        BY <1>1, <1>5 DEF Write, TypeOK
      <3> QED BY <3>1, <3>2
    <2>2. PICK k \in Keys :
            /\ wset' = [wset EXCEPT ![w] = @ \cup {[key |-> k, val |-> NextOp(w).val, op |-> "INSERT"]}]
            /\ body' = [body EXCEPT ![k] = NextOp(w).val]
      BY <1>1, <2>1, NextOpType DEF Insert, Executing, Operation
    <2>3. e.key = k /\ e.val = NextOp(w).val
      BY <1>1, <1>5, <2>2 DEF TypeOK
    <2> QED BY <1>1, <2>2, <2>3 DEF Carries, TypeOK
  <1> QED BY <1>3, <1>4, <1>5

\* The version being installed in a record is logged for one write set only.
LEMMA InstallsLogged ==
    ASSUME Locking, Versions, Contents, NEW w \in Workers, Worker(w), faults' = {}, NEW v \in Workers,
           InWritePhase(v)', NEW k \in todo'[v], NEW t \in log',
           k \in KeysOf(t.writes), SameVersion(t.ctid, mrctid'[v])
    PROVE  t.writes = wset'[v]
  <1>1. faults = {} /\ TypeOK /\ Phase(v)
    BY NoFaultsBefore DEF Locking, PhaseInv
  <1>2. InWritePhase(v) /\ k \in todo[v] /\ t \in log /\ SameVersion(t.ctid, mrctid[v]) => t.writes = wset[v]
    BY <1>1 DEF Contents, ContentsOf
  <1>3. CASE v # w
    <2>1. /\ InWritePhase(v) /\ k \in todo[v] /\ SameVersion(t.ctid, mrctid[v]) /\ wset'[v] = wset[v]
      BY <1>1, <1>3, OthersUnchanged DEF Local, InWritePhase
    <2>2. k \in Claimed(v)
      BY <1>1, <2>1, ClaimedWhen
    <2>3. t \in log
      <3> SUFFICES ASSUME t \notin log PROVE FALSE
        OBVIOUS
      <3>1. Commit(w)
        BY LogUnchanged
      <3>2. t.writes = wset[w] /\ pc[w] = "validate"
        BY <3>1, CommitLogs
      <3>3. k \in Claimed(w)
        BY <1>1, <3>2, ClaimedWhen DEF Placed, WriteKeys
      <3> QED BY <1>1, <1>3, <2>2, <3>3, OneClaimant
    <2> QED BY <1>2, <2>1, <2>3
  <1>4. CASE v = w /\ Commit(w)
    <2>1. PICK r : /\ log' = log \cup {r} /\ r.ctid = CommitTid(w) /\ r.writes = wset[w]
                   /\ mrctid' = [mrctid EXCEPT ![w] = r.ctid] /\ wset' = wset
                   /\ todo' = [todo EXCEPT ![w] = WriteKeys(w)]
      BY <1>4, CommitLogs
    <2>2. mrctid'[w] = CommitTid(w) /\ k \in WriteKeys(w)
      BY <1>1, <1>4, <2>1 DEF TypeOK
    <2>3. t \notin log
      <3> SUFFICES ASSUME t \in log PROVE FALSE
        OBVIOUS
      <3>1. VersionLess(t.ctid, CommitTid(w))
        BY <1>4, <2>2, CommitIsNew
      <3>2. t.ctid \in Word /\ CommitTid(w) \in Word
        BY <1>1, <1>4, CommitAbove DEF TypeOK, LogRecord
      <3> QED BY <1>4, <2>2, <3>1, <3>2, VersionOrder
    <2> QED BY <1>4, <2>1, <2>3
  <1>5. CASE v = w /\ (InstallBody(w) \/ InstallWord(w))
    <2>1. InWritePhase(w) /\ k \in todo[w] /\ log' = log /\ mrctid' = mrctid /\ wset' = wset
      BY <1>1, <1>5 DEF InstallBody, InstallWord, InWritePhase, hist, tids, txn, TypeOK
    <2> QED BY <1>2, <1>5, <2>1
  <1> QED BY <1>1, <1>3, <1>4, <1>5, Entry DEF InWritePhase

\* Before a record's word is installed, its value is in place.
LEMMA BodyBeforeWord ==
    ASSUME Locking, Versions, Contents, NEW w \in Workers, Worker(w), faults' = {}, NEW v \in Workers,
           pc'[v] = "installWord", NEW k \in Keys, IsNext(v, k)'
    PROVE  \E e \in wset'[v] : e.key = k /\ Carries(e)'
  <1>1. faults = {} /\ TypeOK
    BY NoFaultsBefore DEF Locking
  <1>2. CASE v # w
    <2>1. pc[v] = "installWord" /\ IsNext(v, k) /\ wset'[v] = wset[v]
      BY <1>1, <1>2, OthersUnchanged DEF Local, IsNext
    <2>2. PICK e \in wset[v] : e.key = k /\ Carries(e)
      BY <1>1, <2>1 DEF Contents, ContentsOf
    <2>3. k \in Claimed(v)
      BY <1>1, <2>1, ClaimedWhen DEF InWritePhase, IsNext
    <2>4. body'[k] = body[k]
      BY <1>2, <2>3, ClaimedUntouched
    <2> QED BY <2>1, <2>2, <2>4 DEF Carries
  <1>3. CASE v = w
    <2>1. InstallBody(w)
      BY <1>1, <1>3, Entry
    <2>2. PICK e \in wset[w] : /\ IsNext(w, e.key)
                               /\ body' = IF e.op = "WRITE" THEN [body EXCEPT ![e.key] = e.val] ELSE body
      BY <2>1 DEF InstallBody
    <2>3. wset' = wset /\ todo' = todo /\ pc[w] = "install"
      BY <2>1 DEF InstallBody, txn
    <2>4. e \in WriteElement
      BY <1>1, <2>2 DEF TypeOK
    <2>5. e.key = k
      <3>1. e.key \in Nat /\ k \in Nat
        BY <2>4, SiloCCAssumption DEF WriteElement
      <3>2. e.key <= k /\ k <= e.key
        BY <1>3, <2>2, <2>3 DEF IsNext
      <3> QED BY <3>1, <3>2
    <2>6. Carries(e)'
      <3>1. CASE e.op = "WRITE"
        BY <1>1, <2>2, <2>4, <3>1 DEF Carries, TypeOK, WriteElement
      <3>2. CASE e.op = "INSERT"
        <4>1. e.key \in PendingInserts(w)
          BY <2>2, <3>2 DEF PendingInserts, KeysOf, IsNext
        <4>2. Carries(e) /\ body' = body
          BY <1>1, <2>2, <3>2, <4>1 DEF Contents, ContentsOf
        <4> QED BY <4>2 DEF Carries
      <3> QED BY <2>4, <3>1, <3>2 DEF WriteElement
    <2> QED BY <1>3, <2>2, <2>3, <2>5, <2>6
  <1> QED BY <1>2, <1>3

\* A record with the version of a logged write keeps holding its value.
LEMMA LoggedContentsStep ==
    ASSUME Locking, Versions, Contents, NEW w \in Workers, Worker(w), faults' = {}, NEW t \in log'
    PROVE  ContentsLogged(t)'
  <1>1. faults = {} /\ TypeOK /\ Phase(w)
    BY NoFaultsBefore DEF Locking, PhaseInv
  <1>2. CASE t \notin log
    <2>1. PICK r : /\ log' = log \cup {r} /\ r.writes = wset[w]
                   /\ pc' = [pc EXCEPT ![w] = "install"]
                   /\ todo' = [todo EXCEPT ![w] = WriteKeys(w)] /\ index' = index
      BY <1>2, LogUnchanged, CommitLogs
    <2>2. KeysOf(t.writes) = WriteKeys(w) /\ WriteKeys(w) \subseteq index
      BY <1>1, <1>2, <2>1 DEF WriteKeys, Phase
    <2>3. \A k \in WriteKeys(w) : Installing(k)'
      BY <1>1, <2>1 DEF Installing, TypeOK
    <2> QED BY <2>1, <2>2, <2>3 DEF ContentsLogged
  <1>3. CASE t \in log
    <2>1. /\ KeysOf(t.writes) \subseteq index /\ index \subseteq index' /\ KeysOf(t.writes) \subseteq Keys
      BY <1>1, <1>3, HistoryGrows DEF Contents, ContentsLogged, TypeOK
    <2>2. ASSUME NEW k \in KeysOf(t.writes), ~Installing(k)', SameVersion(word'[k], t.ctid)
          PROVE  ~word'[k].absent /\ \E e \in t.writes : e.key = k /\ Carries(e)'
      <3>1. CASE Installing(k)
        <4>1. InWritePhase(w) /\ k \in todo[w]
          BY <1>1, <2>2, <3>1, OthersUnchanged DEF Installing, InWritePhase, Local
        <4>2. InstallWord(w)
          BY <1>1, <2>2, <4>1, WritePhaseSteps DEF InstallBody, Goto, Installing, TypeOK
        <4>3. PICK j \in Keys : /\ IsNext(w, j) /\ pc[w] = "installWord"
                                /\ word' = [word EXCEPT ![j] = InstalledWord(w, j)]
                                /\ todo' = [todo EXCEPT ![w] = @ \ {j}]
                                /\ pc' = [pc EXCEPT ![w] = "install"]
                                /\ body' = body
          BY <4>2 DEF InstallWord, Goto
        <4>4. k = j
          BY <1>1, <2>2, <4>1, <4>3 DEF Installing, TypeOK
        <4>5. word'[k] = InstalledWord(w, k)
          BY <1>1, <2>1, <4>3, <4>4 DEF TypeOK
        <4>6. SameVersion(t.ctid, mrctid[w]) /\ ~word'[k].absent
          BY <1>1, <2>1, <2>2, <4>5, InstalledWordType, InstalledPresent DEF SameVersion
        <4>7. t.writes = wset[w]
          BY <1>1, <1>3, <2>2, <4>1, <4>6 DEF Contents, ContentsOf
        <4>8. \E e \in wset[w] : e.key = k /\ Carries(e)
          BY <1>1, <2>1, <4>3, <4>4 DEF Contents, ContentsOf
        <4> QED BY <4>3, <4>6, <4>7, <4>8 DEF Carries
      <3>2. CASE ~Installing(k)
        <4>1. k \notin todo[w] \/ ~InWritePhase(w)
          BY <3>2 DEF Installing, InWritePhase
        <4>2. SameVersion(word'[k], word[k])
          BY <2>1, <4>1, VersionSteps DEF IsNext
        <4>3. ~word[k].absent /\ \E e \in t.writes : e.key = k /\ Carries(e)
          BY <1>1, <1>3, <2>2, <3>2, <4>2 DEF Contents, ContentsLogged, SameVersion
        <4>4. body'[k] = body[k]
          <5>1. CASE Insert(w)
            BY <1>1, <2>1, <5>1 DEF Insert, TypeOK
          <5>2. CASE InstallBody(w)
            BY <1>1, <2>1, <4>1, <5>2 DEF InstallBody, InWritePhase, IsNext, TypeOK
          <5> QED BY <5>1, <5>2, BodyUnchanged
        <4> QED BY <2>1, <4>3, <4>4, PresentStays DEF Carries
      <3> QED BY <3>1, <3>2
    <2> QED BY <2>1, <2>2 DEF ContentsLogged
  <1> QED BY <1>2, <1>3

\* No step breaks what is known of the records' contents.
LEMMA ContentsStep == Locking /\ Versions /\ Contents /\ [Next]_vars => Contents'
  <1> SUFFICES ASSUME Locking, Versions, Contents, [Next]_vars PROVE Contents'
    OBVIOUS
  <1>1. CASE SendQuit \/ UNCHANGED vars
    <2>1. UNCHANGED <<word, body, index, pc, rset, wset, max_rset, max_wset, mrctid, todo, log, faults>>
      BY <1>1 DEF SendQuit, vars, db, txn, tids, hist
    <2> QED BY <2>1 DEF Contents, ContentsOf, ContentsLogged, Installing, InWritePhase,
                        PendingInserts, LockKeys, ReadKeys, IsNext, Carries
  <1>2. ASSUME NEW w \in Workers, Worker(w), faults' = {} PROVE Contents'
    <2>1. ASSUME NEW v \in Workers PROVE ContentsOf(v)'
      <3>1. ~mrctid'[v].absent /\ ~max_rset'[v].absent /\ ~max_wset'[v].absent
        BY <1>2, MaximaPresent
      <3>2. \A k \in LockKeys(v)' \cup ReadKeys(v)' : ~word'[k].absent
        BY <1>2, UsedPresent
      <3>3. \A e \in wset'[v] : e.op = "INSERT" /\ e.key \in PendingInserts(v)' => Carries(e)'
        BY <1>2, InsertsCarried
      <3>4. InWritePhase(v)' =>
              \A k \in todo'[v] : \A t \in log' :
                k \in KeysOf(t.writes) /\ SameVersion(t.ctid, mrctid'[v]) => t.writes = wset'[v]
        BY <1>2, InstallsLogged
      <3>5. pc'[v] = "installWord" =>
              \A k \in Keys : IsNext(v, k)' => \E e \in wset'[v] : e.key = k /\ Carries(e)'
        BY <1>2, BodyBeforeWord
      <3> QED BY <3>1, <3>2, <3>3, <3>4, <3>5 DEF ContentsOf
    <2>2. \A t \in log' : ContentsLogged(t)'
      BY <1>2, LoggedContentsStep
    <2> QED BY <2>1, <2>2 DEF Contents
  <1> QED BY <1>1, <1>2 DEF Next, Finished, Contents

\* What is known of the records' contents holds in every state.
LEMMA ContentsInvariant == Spec => []Contents
  <1>1. Init => Contents
    BY DEF Init, Contents, ContentsOf, ContentsLogged, LockKeys, ReadKeys, KeysOf, ZeroWord, InWritePhase
  <1> QED BY <1>1, ContentsStep, LockingInvariant, VersionsInvariant, PTL DEF Spec

\* Replaying the log, the highest TID last, gives the database: a record that no
\* writePhase is about to overwrite has the version and the value of the logged
\* write with the greatest TID, and is present.
THEOREM LogGivesDatabase == Spec => []LogExplainsDatabase
  <1>1. ASSUME Locking, Versions, Contents, WriteAhead, faults = {},
               NEW k \in Keys, ~Installing(k), NEW u \in log, k \in KeysOf(u.writes)
        PROVE  \E t \in log :
                 /\ k \in KeysOf(t.writes)
                 /\ \A x \in log : k \in KeysOf(x.writes) => ~VersionLess(t.ctid, x.ctid)
                 /\ SameVersion(word[k], t.ctid) /\ ~word[k].absent
                 /\ \E e \in t.writes : e.key = k /\ e.val = body[k]
    <2>1. /\ word[k] \in Word /\ word[k].epoch \in Nat
          /\ \A t \in log : t.ctid \in Word /\ t.ctid.epoch \in Nat /\ t.worker \in Workers
      BY <1>1 DEF Locking, TypeOK, LogRecord, Word
    <2>2. \A t \in log : k \in KeysOf(t.writes) => AtMost(t.ctid, word[k])
      BY <1>1, <2>1 DEF Versions, VersionsLogged, ToInstall, InWritePhase, Installing
    <2>3. word[k].epoch # 0
      <3>1. u.ctid.epoch >= 1 /\ AtMost(u.ctid, word[k])
        BY <1>1, <2>2 DEF Versions, VersionsLogged
      <3> QED BY <1>1, <2>1, <3>1 DEF AtMost, VersionLess
    <2>4. PICK t \in log : k \in KeysOf(t.writes) /\ SameVersion(t.ctid, word[k])
      BY <1>1, <2>3 DEF WriteAhead, Logged
    <2>5. SameVersion(word[k], t.ctid)
      BY <2>4 DEF SameVersion
    <2>6. ASSUME NEW x \in log, k \in KeysOf(x.writes) PROVE ~VersionLess(t.ctid, x.ctid)
      BY <2>1, <2>2, <2>4, <2>6, VersionOrder DEF AtMost
    <2>7. ~word[k].absent /\ \E e \in t.writes : e.key = k /\ e.val = body[k]
      <3>1. ~word[k].absent /\ \E e \in t.writes : e.key = k /\ Carries(e)
        BY <1>1, <2>4, <2>5 DEF Contents, ContentsLogged
      <3> QED BY <3>1 DEF Carries
    <2> QED BY <2>4, <2>5, <2>6, <2>7
  <1>2. Locking /\ Versions /\ Contents /\ WriteAhead => LogExplainsDatabase
    BY <1>1 DEF LogExplainsDatabase
  <1> QED BY <1>2, LockingInvariant, VersionsInvariant, ContentsInvariant, LogIsAhead, PTL
=============================================================================
