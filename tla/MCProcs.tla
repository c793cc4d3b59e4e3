------------------------------ MODULE MCProcs ------------------------------
(* init, a shell, its child and its grandchild; channels are the addresses  *)
(* of the processes and of their main threads.                              *)
EXTENDS Procs

MCThreads == 1 .. NPROC
MCProcOf == [p \in MCThreads |-> p]
MCChans == MCThreads \cup {-p : p \in MCThreads}
=============================================================================
