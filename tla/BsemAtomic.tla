----------------------------- MODULE BsemAtomic -----------------------------
(***************************************************************************)
(* The system calls on binary semaphores as their callers see them: each   *)
(* call takes effect in one atomic step of BsemSpec between its invocation *)
(* and its return, and bsem_down returns only by locking a semaphore that  *)
(* was not locked.                                                         *)
(***************************************************************************)
EXTENDS BsemSpec

CONSTANT Threads

VARIABLE call           \* call[t]: the call t is in and its semaphore

idle == <<"idle", 0>>
done == <<"done", 0>>

AtomicInit == BsemInit /\ call = [t \in Threads |-> idle]

Becomes(t, c) == call' = [call EXCEPT ![t] = c]

Invoke(t) ==
    /\ call[t] = idle
    /\ \E o \in {"alloc", "free", "down", "up"}, i \in Sems : Becomes(t, <<o, i>>)
    /\ UNCHANGED bsems

Effect(t) ==
    LET o == call[t][1]
        i == call[t][2]
    IN  \/ o = "alloc" /\ (bsem_alloc_fails \/ \E j \in Sems : bsem_alloc(j))
        \/ o = "free" /\ bsem_free(i)
        \/ o = "down" /\ bsem_down(i)
        \/ o = "up" /\ bsem_up(i)

AtomicNext ==
    \E t \in Threads :
        \/ Invoke(t)
        \/ Effect(t) /\ (Becomes(t, idle) \/ Becomes(t, done))
        \/ call[t] = done /\ Becomes(t, idle) /\ UNCHANGED bsems

AtomicSafety == AtomicInit /\ [][AtomicNext]_<<bsems, call>>
=============================================================================
