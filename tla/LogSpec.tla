------------------------------ MODULE LogSpec ------------------------------
(***************************************************************************)
(* What the log promises to the file system: the writes of the system      *)
(* calls that run together reach the disk all at once, when none of those  *)
(* calls is active, or not at all.                                         *)
(***************************************************************************)
CONSTANTS Ops, Blocks, Vals

VARIABLES
    durable,    \* what recovery would bring back
    current,    \* what file system calls read
    open        \* calls between begin_op and end_op

LogInit ==
    /\ durable \in [Blocks -> Vals]
    /\ current = durable
    /\ open = {}

Begin(t) == t \notin open /\ open' = open \cup {t} /\ UNCHANGED <<durable, current>>
End(t) == t \in open /\ open' = open \ {t} /\ UNCHANGED <<durable, current>>

Write(t) ==
    /\ t \in open
    /\ \E b \in Blocks, v \in Vals : current' = [current EXCEPT ![b] = v]
    /\ UNCHANGED <<durable, open>>

Commit == open = {} /\ durable' = current /\ UNCHANGED <<current, open>>
Crash == current' = durable /\ open' = {} /\ UNCHANGED durable

LogNext ==
    \/ \E t \in Ops : Begin(t) \/ Write(t) \/ End(t)
    \/ Commit \/ Crash

LogSafety == LogInit /\ [][LogNext]_<<durable, current, open>>
=============================================================================
