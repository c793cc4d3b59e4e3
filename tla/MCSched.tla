------------------------------ MODULE MCSched ------------------------------
(* The slots in use: two threads of one process and one of another.        *)
EXTENDS Sched

TwoThreads == {<<1, 1>>, <<1, 2>>}
ThreeThreads == {<<1, 1>>, <<1, 2>>, <<2, 1>>}
=============================================================================
