----------------------------- MODULE Dictionary -----------------------------
(***************************************************************************)
(* What an index promises to threads that call it at the same time: puts   *)
(* take effect one by one, each between its call and its return, and a get *)
(* answers what its key has held at some time during the get.              *)
(*                                                                         *)
(* Two weaknesses are part of the promise.  A put may give up without any  *)
(* effect, and a get may find nothing while a put of the same key runs.    *)
(***************************************************************************)
CONSTANTS Threads, Keys, Vals, NULL

VARIABLES
    map,     \* what each key holds
    call,    \* the call each thread is in
    wrote,   \* its put has taken effect
    may,     \* the answers its get may give
    answer   \* what its last call has answered

dict == <<map, call, wrote, may, answer>>

Put(k, v) == [op |-> "put", key |-> k, val |-> v]
Get(k)    == [op |-> "get", key |-> k, val |-> NULL]

Init ==
    /\ map = [k \in Keys |-> NULL]
    /\ call = [t \in Threads |-> NULL]
    /\ wrote = [t \in Threads |-> FALSE]
    /\ may = [t \in Threads |-> {}]
    /\ answer = [t \in Threads |-> NULL]

Putting(k) == \E t \in Threads : \E v \in Vals : call[t] = Put(k, v)

\* Every get of k that is running may also answer x.
MayAnswer(k, x) == [t \in Threads |-> IF call[t] = Get(k) THEN may[t] \cup {x} ELSE may[t]]

InvokeGet(t, k) ==
    /\ call[t] = NULL
    /\ call' = [call EXCEPT ![t] = Get(k)]
    /\ may' = [may EXCEPT ![t] = {map[k]} \cup {x \in {NULL} : Putting(k)}]
    /\ UNCHANGED <<map, wrote, answer>>

InvokePut(t, k, v) ==
    /\ call[t] = NULL
    /\ call' = [call EXCEPT ![t] = Put(k, v)]
    /\ may' = MayAnswer(k, NULL)
    /\ UNCHANGED <<map, wrote, answer>>

Effect(t, k, v) ==
    /\ call[t] = Put(k, v) /\ ~wrote[t]
    /\ map' = [map EXCEPT ![k] = v]
    /\ wrote' = [wrote EXCEPT ![t] = TRUE]
    /\ may' = MayAnswer(k, v)
    /\ UNCHANGED <<call, answer>>

AnswerGet(t, k) ==
    /\ call[t] = Get(k)
    /\ \E x \in may[t] : answer' = [answer EXCEPT ![t] = x]
    /\ call' = [call EXCEPT ![t] = NULL]
    /\ may' = [may EXCEPT ![t] = {}]
    /\ UNCHANGED <<map, wrote>>

\* The caller is not told whether the put has had an effect.
AnswerPut(t, k, v) ==
    /\ call[t] = Put(k, v)
    /\ answer' = [answer EXCEPT ![t] = NULL]
    /\ call' = [call EXCEPT ![t] = NULL]
    /\ wrote' = [wrote EXCEPT ![t] = FALSE]
    /\ UNCHANGED <<map, may>>

Next ==
    \E t \in Threads, k \in Keys :
       \/ InvokeGet(t, k) \/ AnswerGet(t, k)
       \/ \E v \in Vals : InvokePut(t, k, v) \/ Effect(t, k, v) \/ AnswerPut(t, k, v)

Spec == Init /\ [][Next]_dict
=============================================================================
