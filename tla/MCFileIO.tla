------------------------------ MODULE MCFileIO ------------------------------
(***************************************************************************)
(* What fileread and filewrite reach: an inode, or through devsw the       *)
(* console (pipes are in Files).  Inodes and the console share no state,   *)
(* so each is explored with the other idle; of the console, two readers    *)
(* with typing, and two writers while a character is received.             *)
(***************************************************************************)
EXTENDS Inode, Console, TLC

Symmetric == Permutations(Procs) \cup Permutations(Files) \cup Permutations(Inodes)

Regular ==
    /\ InodeInit(MaxCalls)
    /\ consoleinit({}, 0, 0) /\ uartinit(<<>>) /\ typed = MaxTyped
Device ==
    /\ InodeInit(0) /\ \A f, g \in Files : file[f] = file[g]
    /\ \/ consoleinit(Readers, UINTS - 1, 2) /\ uartinit(<<>>) /\ typed = 0
       \/ consoleinit(Writers, 0, 0) /\ uartinit(<<"a">>) /\ typed = MaxTyped

IoInit == Regular \/ Device
IoNext == (Next /\ UNCHANGED convars) \/ (ConsoleNext /\ UNCHANGED vars)
IoSpec == IoInit /\ [][IoNext]_<<vars, convars>>
=============================================================================
