-------------------------------- MODULE Bsem --------------------------------
(***************************************************************************)
(* The binary semaphores of kernel/proc.c: bsem_alloc, bsem_free,          *)
(* bsem_down and bsem_up, called by threads of several processes.          *)
(*                                                                         *)
(* All semaphores share one lock (pid_lock, here lk) and one sleep channel *)
(* (&chanel), so a bsem_up wakes the waiters of every semaphore.  kill()   *)
(* makes waiters runnable too; bsem_down does not look at p->killed.       *)
(*                                                                         *)
(* pid_lock also guards nextpid.  fork() is here for that: allocproc takes *)
(* it (in allocpid) while it holds the p->lock of the slot it fills, and   *)
(* bsem_up takes every p->lock (in wakeup) while it holds pid_lock.        *)
(***************************************************************************)
EXTENDS SleepWakeup

CONSTANTS
    MAX_BSEM,
    MaxCalls,           \* bound: system calls made in all, kill() included
    chanel

ASSUME BsemAssumption ==
    /\ MAX_BSEM \in Nat \ {0}
    /\ MaxCalls \in Nat
    /\ chanel \in Chans

VARIABLES
    bsems,      \* bsems[i]: -1 not allocated, 0 locked, 1 unlocked
    op,         \* op[t]: the system call t is executing
    arg,        \* arg[t]: its semaphore
    next_p,     \* next_p[t]: the process wakeup() or allocproc() scans next
    calls,      \* system calls that may still be made
    unused,     \* slots of the process table whose state is UNUSED
    orphans     \* history: sleepers whose semaphore was freed under them

vars == <<sleepVars, bsems, op, arg, next_p, calls, unused, orphans>>

Sems == 0 .. MAX_BSEM - 1

TypeOK ==
    /\ SleepTypeOK
    /\ bsems \in [Sems -> {-1, 0, 1}]
    /\ op \in [Threads -> {"idle", "alloc", "free", "down", "sleep", "up", "wakeup",
                            "fork", "allocpid"}]
    /\ arg \in [Threads -> Sems]
    /\ next_p \in [Threads -> 1 .. NPROC + 1]
    /\ calls \in 0 .. MaxCalls
    /\ unused \subseteq Procs
    /\ orphans \subseteq Threads

Init ==
    /\ SleepInit
    /\ bsems = [i \in Sems |-> -1]
    /\ op = [t \in Threads |-> "idle"]
    /\ arg = [t \in Threads |-> 0]
    /\ next_p = [t \in Threads |-> 1]
    /\ calls = MaxCalls
    /\ unused = Procs \ {ProcOf[t] : t \in Threads}
    /\ orphans = {}

Goto(t, from, to) == op[t] = from /\ op' = [op EXCEPT ![t] = to]

\* Threads that decided to sleep in bsem_down(i) and were not woken yet.
Asleep(i) ==
    {t \in Threads : /\ op[t] = "sleep" /\ arg[t] = i
                     /\ \/ slpc[t] \in {"enter", "locked", "released"}
                        \/ state[t] = "SLEEPING"}

\* Callers pass any index of the table, allocated or not.
Call(t) ==
    /\ calls > 0
    /\ \E o \in {"alloc", "free", "down", "up", "fork"}, i \in Sems :
          /\ Goto(t, "idle", o)
          /\ o \in {"alloc", "fork"} => i = 0
          /\ arg' = [arg EXCEPT ![t] = i]
    /\ calls' = calls - 1
    /\ UNCHANGED <<sleepVars, bsems, next_p, unused, orphans>>

\* The critical section of bsem_alloc contains no sleep and no other lock.
bsem_alloc(t) ==
    /\ Goto(t, "alloc", "idle")
    /\ lk = None
    /\ LET free == {i \in Sems : bsems[i] = -1} IN
       IF free = {} THEN UNCHANGED bsems
       ELSE \E i \in free : /\ \A j \in free : i <= j
                            /\ bsems' = [bsems EXCEPT ![i] = 1]
    /\ UNCHANGED <<sleepVars, arg, next_p, calls, unused, orphans>>

bsem_free(t) ==
    /\ Goto(t, "free", "idle")
    /\ lk = None
    /\ bsems' = [bsems EXCEPT ![arg[t]] = -1]
    /\ orphans' = orphans \cup Asleep(arg[t])
    /\ UNCHANGED <<sleepVars, arg, next_p, calls, unused>>

\* The test of the while loop, made holding pid_lock: leave with the semaphore
\* locked, or call sleep() still holding pid_lock.
DownLoop(t) ==
    IF bsems[arg[t]] = 0
    THEN /\ op' = [op EXCEPT ![t] = "sleep"]
         /\ sleep_enter(t)
         /\ lk' = t
         /\ UNCHANGED bsems
    ELSE /\ op' = [op EXCEPT ![t] = "idle"]
         /\ bsems' = [bsems EXCEPT ![arg[t]] = 0]
         /\ lk' = None
         /\ UNCHANGED slpc

bsem_down(t) ==
    /\ op[t] = "down"
    /\ lk = None
    /\ DownLoop(t)
    /\ UNCHANGED <<state, chan, plock, killed, arg, next_p, calls, unused, orphans>>

\* Fault: `if' instead of `while' around sleep().
bsem_down_again_if(t) ==
    /\ Goto(t, "sleep", "idle")
    /\ slpc[t] = "out"
    /\ bsems' = [bsems EXCEPT ![arg[t]] = 0]
    /\ lk' = None
    /\ orphans' = orphans \ {t}
    /\ UNCHANGED <<state, chan, plock, slpc, killed, arg, next_p, calls, unused>>

\* sleep() returned, holding pid_lock.
bsem_down_again(t) ==
    /\ op[t] = "sleep"
    /\ slpc[t] = "out"
    /\ DownLoop(t)
    /\ orphans' = orphans \ {t}
    /\ UNCHANGED <<state, chan, plock, killed, arg, next_p, calls, unused>>

bsem_down_sleeps(t) ==
    /\ op[t] = "sleep"
    /\ sleep_step(t, chanel)
    /\ UNCHANGED <<bsems, op, arg, next_p, calls, unused, orphans>>

\* Fault: no wakeup.
bsem_up_silent(t) ==
    /\ Goto(t, "up", "idle")
    /\ lk = None
    /\ bsems' = [bsems EXCEPT ![arg[t]] = 1]
    /\ UNCHANGED <<sleepVars, arg, next_p, calls, unused, orphans>>

\* Fault: the semaphore counts.
bsem_up_counts(t) ==
    /\ Goto(t, "up", "wakeup")
    /\ acquire_lk(t)
    /\ bsems' = [bsems EXCEPT ![arg[t]] = @ + 1]
    /\ UNCHANGED <<state, chan, plock, slpc, killed, arg, next_p, calls, unused, orphans>>

bsem_up(t) ==
    /\ Goto(t, "up", "wakeup")
    /\ acquire_lk(t)
    /\ bsems' = [bsems EXCEPT ![arg[t]] = 1]
    /\ UNCHANGED <<state, chan, plock, slpc, killed, arg, next_p, calls, unused, orphans>>

bsem_up_wakeup(t) ==
    /\ op[t] = "wakeup"
    /\ next_p[t] <= NPROC
    /\ wakeup_proc(t, next_p[t], chanel)
    /\ next_p' = [next_p EXCEPT ![t] = @ + 1]
    /\ UNCHANGED <<lk, bsems, op, arg, calls, unused, orphans>>

bsem_up_done(t) ==
    /\ Goto(t, "wakeup", "idle")
    /\ next_p[t] = NPROC + 1
    /\ release_lk(t)
    /\ next_p' = [next_p EXCEPT ![t] = 1]
    /\ UNCHANGED <<state, chan, plock, slpc, killed, bsems, arg, calls, unused, orphans>>

\* allocproc: the next slot is examined under its p->lock, which is kept when
\* the slot is UNUSED.
fork_scan(t) ==
    /\ op[t] = "fork"
    /\ next_p[t] <= NPROC
    /\ plock[next_p[t]] = None
    /\ IF next_p[t] \in unused
       THEN /\ op' = [op EXCEPT ![t] = "allocpid"]
            /\ plock' = [plock EXCEPT ![next_p[t]] = t]
            /\ UNCHANGED next_p
       ELSE /\ next_p' = [next_p EXCEPT ![t] = @ + 1]
            /\ UNCHANGED <<op, plock>>
    /\ UNCHANGED <<state, chan, lk, slpc, killed, bsems, arg, calls, unused, orphans>>

\* No slot is UNUSED.
fork_fails(t) ==
    /\ Goto(t, "fork", "idle")
    /\ next_p[t] = NPROC + 1
    /\ next_p' = [next_p EXCEPT ![t] = 1]
    /\ UNCHANGED <<sleepVars, bsems, arg, calls, unused, orphans>>

\* allocpid takes and releases pid_lock; then the slot is filled, or emptied
\* again when memory runs out, and its p->lock released.  Nothing in between
\* waits for a lock of this module.
fork_allocpid(t) ==
    /\ Goto(t, "allocpid", "idle")
    /\ lk = None
    /\ unused' \in {unused, unused \ {next_p[t]}}
    /\ plock' = [plock EXCEPT ![next_p[t]] = None]
    /\ next_p' = [next_p EXCEPT ![t] = 1]
    /\ UNCHANGED <<state, chan, lk, slpc, killed, bsems, arg, calls, orphans>>

\* kill(pid, SIGKILL) by a process that is not part of the model.
kill(p) ==
    /\ calls > 0
    /\ ~ killed[p]
    /\ kill_proc(p)
    /\ calls' = calls - 1
    /\ UNCHANGED <<bsems, op, arg, next_p, unused, orphans>>

Step(t) ==
    \/ bsem_alloc(t) \/ bsem_free(t)
    \/ bsem_down(t) \/ bsem_down_sleeps(t) \/ bsem_down_again(t)
    \/ bsem_up(t) \/ bsem_up_wakeup(t) \/ bsem_up_done(t)
    \/ fork_scan(t) \/ fork_allocpid(t) \/ fork_fails(t)

Next ==
    \/ \E t \in Threads : Call(t) \/ Step(t)
    \/ \E u \in Threads : kill(ProcOf[u])

Spec == Init /\ [][Next]_vars

\* The scheduler runs every runnable thread again and again, and spinning for
\* a free lock ends.
Fairness == \A t \in Threads : WF_vars(Step(t))

FairSpec == Spec /\ Fairness
-----------------------------------------------------------------------------
S == INSTANCE BsemAtomic WITH
        call <- [t \in Threads |->
                    IF op[t] \in {"idle", "fork", "allocpid"} THEN <<"idle", 0>>
                    ELSE IF op[t] = "wakeup" THEN <<"done", 0>>
                    ELSE IF op[t] = "sleep" THEN <<"down", arg[t]>>
                    ELSE <<op[t], arg[t]>>]

\* The kernel code implements atomic semaphores: every call takes effect in one
\* step, and bsem_down returns only when it locked a semaphore that was not
\* locked, however often it was woken for another one or by kill().
ImplementsBsem == S!AtomicSafety

\* No lost wakeup: a thread that decided to sleep, or sleeps, for a semaphore
\* that is no longer locked will be made runnable, because the bsem_up that
\* unlocked it is still in wakeup() and has not passed that thread's process.
\* The exception is a semaphore freed under its waiters: bsem_free wakes nobody.
NoLostWakeup ==
    \A i \in Sems : \A t \in Asleep(i) \ orphans :
        bsems[i] # 0 =>
            \E u \in Threads : op[u] = "wakeup" /\ next_p[u] <= ProcOf[t]

\* A fork() that holds the p->lock of its slot and waits for pid_lock, and the
\* bsem_up that holds pid_lock and has not passed that slot: neither goes on.
Inverted ==
    \E f, u \in Threads :
        op[f] = "allocpid" /\ op[u] = "wakeup" /\ next_p[u] <= next_p[f]

\* When no more calls are made every call returns, except bsem_down calls on
\* semaphores that stay locked (or were freed under the caller): no thread
\* sleeps on an unlocked semaphore for good, whatever wakeups kill() adds and
\* however semaphores share the channel.  The one way to stop the system short
\* of that is Inverted: allocproc and bsem_up take pid_lock and a p->lock in
\* opposite orders.
Drains ==
    \/ <>Inverted
    \/ <>[](\A t \in Threads :
               \/ op[t] = "idle"
               \/ state[t] = "SLEEPING" /\ (bsems[arg[t]] = 0 \/ t \in orphans))
=============================================================================
