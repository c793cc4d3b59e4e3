------------------------------ MODULE MCFiles -------------------------------
(***************************************************************************)
(* Files with interchangeable processes.                                   *)
(***************************************************************************)
EXTENDS Files, TLC

Symmetric == Permutations(Procs)
=============================================================================
