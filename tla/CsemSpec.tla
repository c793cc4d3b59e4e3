------------------------------ MODULE CsemSpec ------------------------------
(***************************************************************************)
(* A counting semaphore as its callers see it: csem_down takes one unit in *)
(* one atomic step and waits while there is none, csem_up gives one back.  *)
(***************************************************************************)
EXTENDS Integers

CONSTANTS Threads, InitCounts

VARIABLES
    count,      \* units available
    call        \* call[t]: what thread t is doing with the semaphore

CsemInit ==
    /\ count \in InitCounts
    /\ call = [t \in Threads |-> "idle"]

Invoke(t, op) ==
    /\ call[t] = "idle"
    /\ call' = [call EXCEPT ![t] = op]
    /\ UNCHANGED count

Down(t) ==
    /\ call[t] = "down"
    /\ count > 0
    /\ count' = count - 1
    /\ call' = [call EXCEPT ![t] = "done"]

Up(t) ==
    /\ call[t] = "up"
    /\ count' = count + 1
    /\ call' = [call EXCEPT ![t] = "done"]

Return(t) ==
    /\ call[t] = "done"
    /\ call' = [call EXCEPT ![t] = "idle"]
    /\ UNCHANGED count

CsemNext ==
    \E t \in Threads :
        \/ \E op \in {"down", "up"} : Invoke(t, op)
        \/ Down(t)
        \/ Up(t)
        \/ Return(t)

CsemSafety == CsemInit /\ [][CsemNext]_<<count, call>>
=============================================================================
