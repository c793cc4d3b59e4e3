------------------------------- MODULE MCBsem -------------------------------
(* Two threads of one process, one of another, and a slot of the process   *)
(* table for fork(); two semaphores.                                       *)
EXTENDS Bsem

CONSTANTS t1, t2, t3

MCThreads == {t1, t2, t3}
MCProcOf == [t \in MCThreads |-> IF t = t3 THEN 2 ELSE 1]
=============================================================================
