------------------------------ MODULE MCSiloCC ------------------------------
(* Instances of SiloCC for TLC: the operation sequences workers are given.  *)
EXTENDS SiloCC

R(k)    == [op |-> "READ", key |-> k, val |-> 0]
W(k, v) == [op |-> "WRITE", key |-> k, val |-> v]
I(k, v) == [op |-> "INSERT", key |-> k, val |-> v]

\* Write skew, a reader of both keys, a writer of both.
SkewProcedures == {<<R(1), W(2, 1)>>, <<R(2), W(1, 2)>>,
                   <<R(1), R(2)>>, <<W(2, 3), W(1, 3)>>}

\* Inserts against readers, a blind write and another insert of the record.
InsertProcedures == {<<I(2, 1), W(1, 1)>>, <<R(1), R(2)>>, <<W(2, 2), R(1)>>, <<I(2, 4)>>}

\* With them, a transaction that reads its own write.
MixedProcedures == InsertProcedures \cup {<<R(1), W(1, 1), R(1)>>}
=============================================================================
