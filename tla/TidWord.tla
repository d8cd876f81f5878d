------------------------------ MODULE TidWord ------------------------------
(***************************************************************************)
(* The 64-bit word every record carries (Enclave/utils/db_tid.h) and the   *)
(* arithmetic TxExecutor does on it.                                       *)
(*                                                                         *)
(* The code overlays a bit-field on obj_, least significant bit first:     *)
(*     lock:1  latest:1  absent:1  TID:29  epoch:32                        *)
(* and compares words as integers, so the order is lexicographic in        *)
(* (epoch, TID, absent, latest, lock).  "latest" is 1 in every word that   *)
(* is ever stored in a record and is never tested, so it is left out.  TID *)
(* keeps its width: TIDLimit stands for 2^29, and TID++ wraps without a    *)
(* carry into epoch, as an increment of a bit-field does.                  *)
(***************************************************************************)
EXTENDS Naturals

CONSTANT TIDLimit

ASSUME TIDLimitAssumption == TIDLimit \in Nat \ {0}

Tid == 0 .. TIDLimit - 1

Word == [epoch : Nat, tid : Tid, absent : BOOLEAN, lock : BOOLEAN]

\* obj_ = 0; also the word of a record initDB has just created.
ZeroWord == [epoch |-> 0, tid |-> 0, absent |-> FALSE, lock |-> FALSE]

\* The first word of an epoch: tid_c of writePhase, the word epochWork stores.
EpochWord(e) == [ZeroWord EXCEPT !.epoch = e]

\* The version a word names: the pair validationPhase compares.
SameVersion(a, b) == a.epoch = b.epoch /\ a.tid = b.tid

VersionLess(a, b) == \/ a.epoch < b.epoch
                     \/ a.epoch = b.epoch /\ a.tid < b.tid

\* operator< on obj_.
WordLess(a, b) ==
    \/ VersionLess(a, b)
    \/ /\ SameVersion(a, b)
       /\ \/ ~a.absent /\ b.absent
          \/ a.absent = b.absent /\ ~a.lock /\ b.lock

MaxWord(a, b) == IF WordLess(a, b) THEN b ELSE a

\* Mutant: TID as wide as the integers.
NextTid_Wide(a) == [a EXCEPT !.tid = @ + 1]

\* TID++ on a 29-bit field.
NextTid(a) == [a EXCEPT !.tid = (@ + 1) % TIDLimit]

Locked(a) == [a EXCEPT !.lock = TRUE]

Unlocked(a) == [a EXCEPT !.lock = FALSE]
=============================================================================
