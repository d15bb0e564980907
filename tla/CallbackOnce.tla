----------------------------- MODULE CallbackOnce -----------------------------
(***************************************************************************)
(* What NetworkRequest promises its clients, without threads or queues:    *)
(* a submitted request is answered by one call of its block, or by none if *)
(* it is excused, that is, cancelled or submitted without a block.         *)
(***************************************************************************)
CONSTANT Request
VARIABLES status, excused

vars == <<status, excused>>

Init ==
    /\ status = [r \in Request |-> "idle"]
    /\ excused = [r \in Request |-> FALSE]

\* A request submitted without a block is excused from the start.
Submit(r) ==
    /\ status[r] = "idle"
    /\ status' = [status EXCEPT ![r] = "pending"]
    /\ \E e \in BOOLEAN : excused' = [excused EXCEPT ![r] = e]

\* The client cancels, at any time after it submitted.
Excuse(r) ==
    /\ status[r] # "idle"
    /\ excused' = [excused EXCEPT ![r] = TRUE]
    /\ UNCHANGED status

Answer(r, how) ==
    /\ status[r] = "pending"
    /\ how = "silent" => excused[r]
    /\ status' = [status EXCEPT ![r] = how]
    /\ UNCHANGED excused

Settle(r) == Answer(r, "delivered") \/ Answer(r, "silent")

Next == \E r \in Request : Submit(r) \/ Excuse(r) \/ Settle(r)

\* Every submitted request is settled in the end.
Spec == Init /\ [][Next]_vars /\ \A r \in Request : WF_vars(Settle(r))
=============================================================================
