--------------------------- MODULE MCLogPipeline ---------------------------
(* Instances of LogPipeline for TLC: which logger each worker has.          *)
EXTENDS LogPipeline

OneLogger == [w \in Workers |-> 0]

OneEach == [w \in Workers |-> w]
=============================================================================
