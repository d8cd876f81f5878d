------------------------------ MODULE RedoLog ------------------------------
(***************************************************************************)
(* What the log promises to whoever reads the files after the program has  *)
(* stopped, at any time: for every worker, the records on file are a       *)
(* prefix of what it has committed, without gaps and in commit order, and  *)
(* a log that was closed is complete.                                      *)
(***************************************************************************)
EXTENDS SequencesExt

CONSTANT Workers

VARIABLES
    committed,   \* the records each worker has handed to its log
    file,        \* those on file
    closed       \* the worker has been told that its log is finished

Init ==
    /\ committed = [w \in Workers |-> <<>>]
    /\ file = [w \in Workers |-> <<>>]
    /\ closed = [w \in Workers |-> FALSE]

\* f grows at w only.
Extends(f, g, w) ==
    /\ IsPrefix(f[w], g[w])
    /\ g = [f EXCEPT ![w] = g[w]]

Commit(w) ==
    /\ ~closed[w]
    /\ Extends(committed, committed', w)
    /\ UNCHANGED <<file, closed>>

Flush(w) ==
    /\ ~closed[w]
    /\ Extends(file, file', w)
    /\ IsPrefix(file'[w], committed[w])
    /\ UNCHANGED <<committed, closed>>

\* One logger closes the logs of all its workers.
Close(S) ==
    /\ \A w \in S : file[w] = committed[w]
    /\ closed' = [w \in Workers |-> closed[w] \/ w \in S]
    /\ UNCHANGED <<committed, file>>

Next == \/ \E w \in Workers : Commit(w) \/ Flush(w)
        \/ \E S \in SUBSET Workers : Close(S)

Spec == Init /\ [][Next]_<<committed, file, closed>>
=============================================================================
