------------------------------ MODULE MCBcache ------------------------------
(***************************************************************************)
(* Two threads of one process and one of another on a small buffer cache.  *)
(***************************************************************************)
EXTENDS Bcache, TLC

CONSTANTS t1, t2, t3

MCProcOf == [t \in {t1, t2, t3} |-> IF t = t3 THEN 2 ELSE 1]
Symmetric == Permutations(Blocks) \cup Permutations({t1, t2})
=============================================================================
