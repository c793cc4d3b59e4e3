------------------------------ MODULE BsemSpec ------------------------------
(***************************************************************************)
(* What the binary semaphores of kernel/proc.c promise their callers: a    *)
(* table of semaphores, each operation one atomic step.  Bsem.tla models   *)
(* the kernel code (locks, sleep and wakeup) and is checked to implement   *)
(* this specification; Csem.tla builds user/Csemaphore.c on top of it.     *)
(***************************************************************************)
EXTENDS Integers

CONSTANT MAX_BSEM       \* number of semaphores in the table (128 in proc.h)

ASSUME MaxBsemAssumption == MAX_BSEM \in Nat \ {0}

VARIABLE bsems          \* bsems[i]: -1 not allocated, 0 locked, 1 unlocked

Sems == 0 .. MAX_BSEM - 1

BsemTypeOK == bsems \in [Sems -> {-1, 0, 1}]

BsemInit == bsems = [i \in Sems |-> -1]

\* The first free entry is taken and starts unlocked.
bsem_alloc(i) ==
    /\ bsems[i] = -1
    /\ \A j \in Sems : j < i => bsems[j] # -1
    /\ bsems' = [bsems EXCEPT ![i] = 1]

\* No entry is free: the call returns -1.
bsem_alloc_fails ==
    /\ \A i \in Sems : bsems[i] # -1
    /\ UNCHANGED bsems

bsem_free(i) == bsems' = [bsems EXCEPT ![i] = -1]

\* The code waits only while the value is 0: a free entry is locked at once.
bsem_down(i) ==
    /\ bsems[i] # 0
    /\ bsems' = [bsems EXCEPT ![i] = 0]

bsem_up(i) == bsems' = [bsems EXCEPT ![i] = 1]

BsemNext ==
    \/ bsem_alloc_fails
    \/ \E i \in Sems :
          bsem_alloc(i) \/ bsem_free(i) \/ bsem_down(i) \/ bsem_up(i)

BsemSafety == BsemInit /\ [][BsemNext]_bsems
=============================================================================
