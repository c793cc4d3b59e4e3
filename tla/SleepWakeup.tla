---------------------------- MODULE SleepWakeup ----------------------------
(***************************************************************************)
(* sleep(), wakeup() and the part of kill() that ends a sleep               *)
(* (kernel/proc.c), for threads that share one condition lock lk.          *)
(*                                                                         *)
(* A thread that calls sleep() takes its process's p->lock before it gives *)
(* up lk, and p->lock is released by the scheduler only after the thread   *)
(* has switched away: sched() to scheduler() to release() is the one step  *)
(* sleep_sched, and acquire() in scheduler() to release() at the end of    *)
(* sleep() is the one step resume.  Sched.tla models that hand-over.       *)
(***************************************************************************)
EXTENDS Integers

CONSTANTS
    Threads,
    NPROC,              \* processes are 1 .. NPROC, in the order of proc[]
    ProcOf,             \* ProcOf[t]: t->proc_parent
    Chans,              \* sleep channels
    None

ASSUME SleepAssumption ==
    /\ NPROC \in Nat \ {0}
    /\ ProcOf \in [Threads -> 1 .. NPROC]
    /\ None \notin Threads \cup Chans

VARIABLES
    state,      \* t->state
    chan,       \* t->chan
    plock,      \* plock[p]: the thread that holds p->lock, or None
    lk,         \* the thread that holds the condition lock, or None
    slpc,       \* slpc[t]: where t is in sleep()
    killed      \* p->killed

sleepVars == <<state, chan, plock, lk, slpc, killed>>

Procs == 1 .. NPROC

SleepTypeOK ==
    /\ state \in [Threads -> {"RUNNING", "RUNNABLE", "SLEEPING"}]
    /\ chan \in [Threads -> Chans \cup {None}]
    /\ plock \in [Procs -> Threads \cup {None}]
    /\ lk \in Threads \cup {None}
    /\ slpc \in [Threads -> {"out", "enter", "locked", "released", "switched", "back"}]
    /\ killed \in [Procs -> BOOLEAN]

SleepInit ==
    /\ state = [t \in Threads |-> "RUNNING"]
    /\ chan = [t \in Threads |-> None]
    /\ plock = [p \in Procs |-> None]
    /\ lk = None
    /\ slpc = [t \in Threads |-> "out"]
    /\ killed = [p \in Procs |-> FALSE]

acquire_lk(t) == lk = None /\ lk' = t
release_lk(t) == lk = t /\ lk' = None

\* sleep() is called: t holds lk.
sleep_enter(t) == slpc' = [slpc EXCEPT ![t] = "enter"]

sleep_lock(t) ==                        \* acquire(&p->lock)
    /\ slpc[t] = "enter"
    /\ plock[ProcOf[t]] = None
    /\ plock' = [plock EXCEPT ![ProcOf[t]] = t]
    /\ slpc' = [slpc EXCEPT ![t] = "locked"]
    /\ UNCHANGED <<state, chan, lk, killed>>

sleep_release(t) ==                     \* release(lk)
    /\ slpc[t] = "locked"
    /\ release_lk(t)
    /\ slpc' = [slpc EXCEPT ![t] = "released"]
    /\ UNCHANGED <<state, chan, plock, killed>>

sleep_sched(t, c) ==                    \* state = SLEEPING; sched()
    /\ slpc[t] = "released"
    /\ chan' = [chan EXCEPT ![t] = c]
    /\ state' = [state EXCEPT ![t] = "SLEEPING"]
    /\ plock' = [plock EXCEPT ![ProcOf[t]] = None]
    /\ slpc' = [slpc EXCEPT ![t] = "switched"]
    /\ UNCHANGED <<lk, killed>>

resume(t) ==                            \* scheduled again; chan = 0
    /\ slpc[t] = "switched"
    /\ state[t] = "RUNNABLE"
    /\ plock[ProcOf[t]] = None
    /\ state' = [state EXCEPT ![t] = "RUNNING"]
    /\ chan' = [chan EXCEPT ![t] = None]
    /\ slpc' = [slpc EXCEPT ![t] = "back"]
    /\ UNCHANGED <<plock, lk, killed>>

sleep_reacquire(t) ==                   \* acquire(lk) and return
    /\ slpc[t] = "back"
    /\ acquire_lk(t)
    /\ slpc' = [slpc EXCEPT ![t] = "out"]
    /\ UNCHANGED <<state, chan, plock, killed>>

sleep_step(t, c) ==
    \/ sleep_lock(t)
    \/ sleep_release(t)
    \/ sleep_sched(t, c)
    \/ resume(t)
    \/ sleep_reacquire(t)

\* Fault: the caller's whole process is skipped, not only the calling thread.
wakeup_proc_others(t, p, c) ==
    /\ plock[p] = None
    /\ state' = [u \in Threads |->
                    IF ProcOf[u] = p /\ p # ProcOf[t] /\ state[u] = "SLEEPING" /\ chan[u] = c
                    THEN "RUNNABLE" ELSE state[u]]
    /\ UNCHANGED <<chan, plock, slpc, killed>>

\* One iteration of wakeup(c) called by thread t: the threads of process p,
\* scanned under p->lock.
wakeup_proc(t, p, c) ==
    /\ plock[p] = None
    /\ state' = [u \in Threads |->
                    IF ProcOf[u] = p /\ u # t /\ state[u] = "SLEEPING" /\ chan[u] = c
                    THEN "RUNNABLE" ELSE state[u]]
    /\ UNCHANGED <<chan, plock, slpc, killed>>

\* kill(pid, SIGKILL): every sleeping thread of p is made runnable.
kill_proc(p) ==
    /\ plock[p] = None
    /\ killed' = [killed EXCEPT ![p] = TRUE]
    /\ state' = [u \in Threads |->
                    IF ProcOf[u] = p /\ state[u] = "SLEEPING" THEN "RUNNABLE" ELSE state[u]]
    /\ UNCHANGED <<chan, plock, lk, slpc>>
=============================================================================
