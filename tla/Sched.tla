------------------------------- MODULE Sched -------------------------------
(***************************************************************************)
(* CPUs, spinlocks, interrupts and context switches: scheduler(), sched(), *)
(* yield(), sleep(), wakeup() and forkret() of kernel/proc.c, acquire() and*)
(* release() with push_off() and pop_off() of kernel/spinlock.c, the timer *)
(* interrupt of kernel/trap.c, and sys_sleep() of kernel/sysproc.c as the  *)
(* system call that blocks.                                                *)
(*                                                                         *)
(* A spinlock is owned by a CPU.  p->lock is taken by one side of a switch *)
(* and released by the other: by the scheduler for a thread that went off, *)
(* by the thread for a scheduler that switched to it.  acquire() disables  *)
(* interrupts before it spins; the step that leads to a spinning location  *)
(* ("..._take") does the push_off(), the step out of it takes the lock.    *)
(***************************************************************************)
EXTENDS Integers

CONSTANTS
    CPUs, cpu0,         \* cpu0 runs clockintr() on its timer interrupts
    NPROC, NTHREAD,
    Threads,            \* the slots <<p, k>> in use
    MaxSleep,           \* bound: largest argument of sys_sleep
    None

ASSUME SchedAssumption ==
    /\ cpu0 \in CPUs
    /\ NPROC \in Nat \ {0} /\ NTHREAD \in Nat \ {0}
    /\ Threads \subseteq (1 .. NPROC) \X (1 .. NTHREAD)
    /\ MaxSleep \in Nat \ {0}
    /\ None \notin CPUs \cup Threads

VARIABLES
    state,      \* t->state
    chan,       \* chan[t]: is t->chan = &ticks?
    pc,         \* pc[t]: where t executes; "off" when it is switched out
    ctx,        \* t->context: where t resumes; "stale" once it was resumed
    saved,      \* saved[t]: the local intena of sched()
    kret,       \* kret[t]: where the timer interrupt that made t yield returns to
    left,       \* left[t]: n - (ticks - ticks0) of t's sys_sleep, not below 0
    plock,      \* plock[p]: the CPU that holds p->lock, or None
    tickslock,  \* the CPU that holds tickslock, or None
    cpu,        \* struct cpu: thread, noff, intena; and the SIE bit, intr
    spos,       \* spos[c]: where the scheduler of c is: location, p, k
    irq         \* irq[c]: where c is in an interrupt handler: location, p

vars == <<state, chan, pc, ctx, saved, kret, left, plock, tickslock, cpu, spos, irq>>

Procs == 1 .. NPROC
ProcOf(t) == t[1]

Interruptible == {"user", "slp_enter", "slp_woken"}
Spinning == {"slp_take", "slp_ptake", "slp_retake", "y_take"}
Resumed == {"forkret", "slp_back", "y_back"}
Pcs == Interruptible \cup Spinning \cup Resumed
         \cup {"slp_test", "slp_rel", "swtch_slp", "swtch_y", "y_ret", "off", "stale"}

\* struct cpu, and where a CPU's scheduler and interrupt handler are.
CpuType == [thread : Threads \cup {None}, noff : 0 .. 3, intena : BOOLEAN, intr : BOOLEAN]
SposType == [at : {"top", "want", "take", "scan"}, p : Procs, k : 1 .. NTHREAD + 1]
IrqType == [at : {"none", "tick", "wakeup", "end"}, p : 1 .. NPROC + 1]

TypeOK ==
    /\ state \in [Threads -> {"RUNNABLE", "RUNNING", "SLEEPING"}]
    /\ chan \in [Threads -> BOOLEAN]
    /\ pc \in [Threads -> Pcs]
    /\ ctx \in [Threads -> Resumed \cup {"stale"}]
    /\ saved \in [Threads -> BOOLEAN]
    /\ kret \in [Threads -> Interruptible]
    /\ left \in [Threads -> 0 .. MaxSleep]
    /\ plock \in [Procs -> CPUs \cup {None}]
    /\ tickslock \in CPUs \cup {None}
    /\ cpu \in [CPUs -> CpuType]
    /\ spos \in [CPUs -> SposType]
    /\ irq \in [CPUs -> IrqType]

\* userinit() and fork() leave threads RUNNABLE with context.ra = forkret.
Init ==
    /\ state = [t \in Threads |-> "RUNNABLE"]
    /\ chan = [t \in Threads |-> FALSE]
    /\ pc = [t \in Threads |-> "off"]
    /\ ctx = [t \in Threads |-> "forkret"]
    /\ saved = [t \in Threads |-> FALSE]
    /\ kret = [t \in Threads |-> "user"]
    /\ left = [t \in Threads |-> 0]
    /\ plock = [p \in Procs |-> None]
    /\ tickslock = None
    /\ cpu = [c \in CPUs |-> [thread |-> None, noff |-> 0,
                              intena |-> FALSE, intr |-> FALSE]]
    /\ spos = [c \in CPUs |-> [at |-> "top", p |-> 1, k |-> 1]]
    /\ irq = [c \in CPUs |-> [at |-> "none", p |-> 1]]

Sie(r, b) == [thread |-> r.thread, noff |-> r.noff, intena |-> r.intena, intr |-> b]
intr_on(r) == Sie(r, TRUE)
intr_off(r) == Sie(r, FALSE)

push_off(r) ==
    [thread |-> r.thread, noff |-> r.noff + 1,
     intena |-> IF r.noff = 0 THEN r.intr ELSE r.intena, intr |-> FALSE]

\* Fault: the nesting count is not decremented.
pop_off_stuck(r) == [r EXCEPT !.intr = @ \/ (r.noff = 1 /\ r.intena)]

pop_off(r) ==
    [thread |-> r.thread, noff |-> r.noff - 1,
     intena |-> r.intena, intr |-> r.intr \/ (r.noff = 1 /\ r.intena)]

\* c executes its scheduler, or thread t, and not an interrupt handler.
InScheduler(c) == cpu[c].thread = None /\ irq[c].at = "none"
Runs(c, t)     == cpu[c].thread = t /\ irq[c].at = "none"

-----------------------------------------------------------------------------
(* scheduler() *)

Loop(c) ==                              \* intr_on(); p = proc
    /\ InScheduler(c)
    /\ spos[c].at = "top"
    /\ cpu' = [cpu EXCEPT ![c] = intr_on(@)]
    /\ spos' = [spos EXCEPT ![c] = [at |-> "want", p |-> 1, k |-> 1]]
    /\ UNCHANGED <<state, chan, pc, ctx, saved, kret, left, plock, tickslock, irq>>

ScanSpin(c) ==
    /\ InScheduler(c)
    /\ spos[c].at = "want"
    /\ cpu' = [cpu EXCEPT ![c] = push_off(@)]
    /\ spos' = [spos EXCEPT ![c].at = "take"]
    /\ UNCHANGED <<state, chan, pc, ctx, saved, kret, left, plock, tickslock, irq>>

ScanTake(c) ==
    /\ InScheduler(c)
    /\ spos[c].at = "take"
    /\ plock[spos[c].p] = None
    /\ plock' = [plock EXCEPT ![spos[c].p] = c]
    /\ spos' = [spos EXCEPT ![c].at = "scan"]
    /\ UNCHANGED <<state, chan, pc, ctx, saved, kret, left, tickslock, cpu, irq>>

\* Fault: only the main thread of a process is considered.
Candidates_main(c) == {t \in Threads : /\ ProcOf(t) = spos[c].p
                                       /\ t[2] = 1 /\ t[2] >= spos[c].k
                                       /\ state[t] = "RUNNABLE"}

\* The slots the scan of p has not reached yet.
Candidates(c) == {t \in Threads : /\ ProcOf(t) = spos[c].p
                                  /\ t[2] >= spos[c].k
                                  /\ state[t] = "RUNNABLE"}

\* The CPU once it runs t with this intena.
swtch(r, t, e) == [thread |-> t, noff |-> r.noff, intena |-> e, intr |-> r.intr]

\* The switch to the next runnable thread.  It continues where its context
\* says; in sched(), it first stores the intena it saved.
Dispatch(c) ==
    /\ InScheduler(c)
    /\ spos[c].at = "scan"
    /\ \E t \in Candidates(c) :
          /\ \A u \in Candidates(c) : t[2] <= u[2]
          /\ state' = [state EXCEPT ![t] = "RUNNING"]
          /\ pc' = [pc EXCEPT ![t] = ctx[t]]
          /\ ctx' = [ctx EXCEPT ![t] = "stale"]
          /\ saved' = [saved EXCEPT ![t] = FALSE]
          /\ cpu' = [cpu EXCEPT ![c] = swtch(@, t, IF ctx[t] = "forkret" THEN @.intena ELSE saved[t])]
          /\ spos' = [spos EXCEPT ![c].k = t[2] + 1]
    /\ UNCHANGED <<chan, kret, left, plock, tickslock, irq>>

ScanRelease(c) ==
    /\ InScheduler(c)
    /\ spos[c].at = "scan"
    /\ Candidates(c) = {}
    /\ plock' = [plock EXCEPT ![spos[c].p] = None]
    /\ cpu' = [cpu EXCEPT ![c] = pop_off(@)]
    /\ spos' = [spos EXCEPT ![c] =
                  IF @.p = NPROC THEN [at |-> "top", p |-> 1, k |-> 1]
                  ELSE [at |-> "want", p |-> @.p + 1, k |-> 1]]
    /\ UNCHANGED <<state, chan, pc, ctx, saved, kret, left, tickslock, irq>>

scheduler(c) ==
    Loop(c) \/ ScanSpin(c) \/ ScanTake(c) \/ Dispatch(c) \/ ScanRelease(c)

-----------------------------------------------------------------------------
(* Threads *)

Goto(t, from, to) == pc[t] = from /\ pc' = [pc EXCEPT ![t] = to]

\* Fault: intena is not saved across the switch.
sched_loses_intena(c, t, from, back) ==
    /\ Runs(c, t)
    /\ Goto(t, from, "off")
    /\ ctx' = [ctx EXCEPT ![t] = back]
    /\ cpu' = [cpu EXCEPT ![c].thread = None]
    /\ UNCHANGED <<state, chan, saved, kret, left, plock, tickslock, spos, irq>>

\* sched(): save the context and return to c's scheduler, which clears
\* c->thread.  p->lock stays with c.
sched(c, t, from, back) ==
    /\ Runs(c, t)
    /\ Goto(t, from, "off")
    /\ ctx' = [ctx EXCEPT ![t] = back]
    /\ saved' = [saved EXCEPT ![t] = cpu[c].intena]
    /\ cpu' = [cpu EXCEPT ![c].thread = None]
    /\ UNCHANGED <<state, chan, kret, left, plock, tickslock, spos, irq>>

\* acquire(): push_off(), on the way to spin.
Spin(c, t, from, to) ==
    /\ Runs(c, t)
    /\ Goto(t, from, to)
    /\ cpu' = [cpu EXCEPT ![c] = push_off(@)]
    /\ UNCHANGED <<state, chan, ctx, saved, kret, left, plock, tickslock, spos, irq>>

TakeP(c, t, from, to) ==
    /\ Runs(c, t)
    /\ Goto(t, from, to)
    /\ plock[ProcOf(t)] = None
    /\ plock' = [plock EXCEPT ![ProcOf(t)] = c]
    /\ UNCHANGED <<chan, ctx, saved, kret, tickslock, cpu, spos, irq>>

ReleaseP(c, t, from, to) ==
    /\ Runs(c, t)
    /\ Goto(t, from, to)
    /\ plock' = [plock EXCEPT ![ProcOf(t)] = None]
    /\ UNCHANGED <<state, ctx, saved, kret, left, tickslock, spos, irq>>

TakeTicks(c, t, from, to) ==
    /\ Runs(c, t)
    /\ Goto(t, from, to)
    /\ tickslock = None
    /\ tickslock' = c
    /\ UNCHANGED <<state, chan, ctx, saved, kret, plock, cpu, spos, irq>>

\* Fault: p->lock is not released.
forkret_locked(c, t) ==
    /\ Runs(c, t)
    /\ Goto(t, "forkret", "user")
    /\ cpu' = [cpu EXCEPT ![c] = intr_on(pop_off(@))]
    /\ UNCHANGED <<state, chan, ctx, saved, kret, left, plock, tickslock, spos, irq>>

forkret(c, t) ==                        \* release(&p->lock), then user space
    /\ ReleaseP(c, t, "forkret", "user")
    /\ cpu' = [cpu EXCEPT ![c] = intr_on(pop_off(@))]
    /\ UNCHANGED chan

\* sys_sleep(n): entered from user space with interrupts on.
sys_sleep(c, t) ==
    /\ Runs(c, t)
    /\ Goto(t, "user", "slp_enter")
    /\ UNCHANGED <<state, chan, ctx, saved, kret, left, plock, tickslock, cpu, spos, irq>>

SleepTake(c, t) ==                      \* acquire(&tickslock); ticks0 = ticks
    /\ TakeTicks(c, t, "slp_take", "slp_test")
    /\ \E n \in 0 .. MaxSleep : left' = [left EXCEPT ![t] = n]

\* Fault: sleep() gives up its condition lock before it takes p->lock.
SleepTest_unlocks(c, t) ==
    /\ Runs(c, t)
    /\ tickslock' = None
    /\ IF left[t] > 0
       THEN Goto(t, "slp_test", "slp_ptake") /\ cpu' = [cpu EXCEPT ![c] = push_off(@)]
       ELSE Goto(t, "slp_test", "user") /\ cpu' = [cpu EXCEPT ![c] = pop_off(@)]
    /\ UNCHANGED <<state, chan, ctx, saved, kret, left, plock, spos, irq>>

\* while(ticks - ticks0 < n): call sleep(), whose first step is acquire(), or
\* release tickslock and return to user space.  p->killed stays 0 here: Procs
\* and Signals model kill().
SleepTest(c, t) ==
    /\ Runs(c, t)
    /\ IF left[t] > 0
       THEN /\ Goto(t, "slp_test", "slp_ptake")
            /\ cpu' = [cpu EXCEPT ![c] = push_off(@)]
            /\ UNCHANGED tickslock
       ELSE /\ Goto(t, "slp_test", "user")
            /\ tickslock' = None
            /\ cpu' = [cpu EXCEPT ![c] = pop_off(@)]
    /\ UNCHANGED <<state, chan, ctx, saved, kret, left, plock, spos, irq>>

\* Fault: sleep() does not take p->lock.
SleepTakeP_skipped(c, t) ==
    /\ Runs(c, t)
    /\ Goto(t, "slp_ptake", "slp_rel")
    /\ UNCHANGED <<state, chan, ctx, saved, kret, left, plock, tickslock, cpu, spos, irq>>

SleepTakeP(c, t) ==                     \* sleep(): acquire(&p->lock)
    /\ TakeP(c, t, "slp_ptake", "slp_rel")
    /\ UNCHANGED <<state, left>>

SleepRelease(c, t) ==                   \* release(lk); chan; state = SLEEPING
    /\ Runs(c, t)
    /\ Goto(t, "slp_rel", "swtch_slp")
    /\ tickslock' = None
    /\ cpu' = [cpu EXCEPT ![c] = pop_off(@)]
    /\ chan' = [chan EXCEPT ![t] = TRUE]
    /\ state' = [state EXCEPT ![t] = "SLEEPING"]
    /\ UNCHANGED <<ctx, saved, kret, left, plock, spos, irq>>

SleepBack(c, t) ==                      \* chan = 0; release(&p->lock)
    /\ ReleaseP(c, t, "slp_back", "slp_woken")
    /\ cpu' = [cpu EXCEPT ![c] = pop_off(@)]
    /\ chan' = [chan EXCEPT ![t] = FALSE]

SleepRetake(c, t) ==                    \* acquire(lk) at the end of sleep()
    /\ TakeTicks(c, t, "slp_retake", "slp_test")
    /\ UNCHANGED left

\* Fault: yield() does not take p->lock.
yield_unlocked(c, t) ==
    /\ Runs(c, t)
    /\ Goto(t, "y_take", "swtch_y")
    /\ state' = [state EXCEPT ![t] = "RUNNABLE"]
    /\ UNCHANGED <<chan, ctx, saved, kret, left, plock, tickslock, cpu, spos, irq>>

yield(c, t) ==                          \* acquire(&p->lock); state = RUNNABLE
    /\ TakeP(c, t, "y_take", "swtch_y")
    /\ state' = [state EXCEPT ![t] = "RUNNABLE"]
    /\ UNCHANGED left

YieldBack(c, t) ==                      \* release(&p->lock)
    /\ ReleaseP(c, t, "y_back", "y_ret")
    /\ cpu' = [cpu EXCEPT ![c] = pop_off(@)]
    /\ UNCHANGED chan

TrapReturn(c, t) ==                     \* sret: back to the interrupted code
    /\ Runs(c, t)
    /\ Goto(t, "y_ret", kret[t])
    /\ cpu' = [cpu EXCEPT ![c] = intr_on(@)]
    /\ kret' = [kret EXCEPT ![t] = "user"]
    /\ UNCHANGED <<state, chan, ctx, saved, left, plock, tickslock, spos, irq>>

thread(c, t) ==
    \/ forkret(c, t)
    \/ Spin(c, t, "slp_enter", "slp_take") \/ SleepTake(c, t) \/ SleepTest(c, t)
    \/ SleepTakeP(c, t) \/ SleepRelease(c, t) \/ sched(c, t, "swtch_slp", "slp_back")
    \/ SleepBack(c, t) \/ Spin(c, t, "slp_woken", "slp_retake") \/ SleepRetake(c, t)
    \/ yield(c, t) \/ sched(c, t, "swtch_y", "y_back") \/ YieldBack(c, t)
    \/ TrapReturn(c, t)

-----------------------------------------------------------------------------
(* The timer interrupt: usertrap() or kerneltrap(), devintr(), clockintr() *)

\* Interrupts are turned off by the trap; clockintr()'s acquire() follows.
Interrupt(c) ==
    /\ irq[c].at = "none"
    /\ cpu[c].intr
    /\ IF c = cpu0
       THEN /\ irq' = [irq EXCEPT ![c].at = "tick"]
            /\ cpu' = [cpu EXCEPT ![c] = push_off(intr_off(@))]
       ELSE /\ irq' = [irq EXCEPT ![c].at = "end"]
            /\ cpu' = [cpu EXCEPT ![c] = intr_off(@)]
    /\ UNCHANGED <<state, chan, pc, ctx, saved, kret, left, plock, tickslock, spos>>

Tick(c) ==                              \* acquire(&tickslock); ticks++
    /\ irq[c].at = "tick"
    /\ tickslock = None
    /\ tickslock' = c
    /\ left' = [t \in Threads |-> IF left[t] > 0 THEN left[t] - 1 ELSE 0]
    /\ irq' = [irq EXCEPT ![c] = [at |-> "wakeup", p |-> 1]]
    /\ UNCHANGED <<state, chan, pc, ctx, saved, kret, plock, cpu, spos>>

\* Fault: only main threads are woken.
wakeup_main(c) ==
    /\ irq[c].at = "wakeup"
    /\ irq[c].p <= NPROC
    /\ plock[irq[c].p] = None
    /\ state' = [t \in Threads |->
                    IF t = <<irq[c].p, 1>> /\ t # cpu[c].thread /\ state[t] = "SLEEPING" /\ chan[t]
                    THEN "RUNNABLE" ELSE state[t]]
    /\ irq' = [irq EXCEPT ![c].p = @ + 1]
    /\ UNCHANGED <<chan, pc, ctx, saved, kret, left, plock, tickslock, cpu, spos>>

wakeup(c) ==                            \* one process of wakeup(&ticks)
    /\ irq[c].at = "wakeup"
    /\ irq[c].p <= NPROC
    /\ plock[irq[c].p] = None
    /\ state' = [t \in Threads |->
                    IF /\ ProcOf(t) = irq[c].p
                       /\ t # cpu[c].thread
                       /\ state[t] = "SLEEPING" /\ chan[t]
                    THEN "RUNNABLE" ELSE state[t]]
    /\ irq' = [irq EXCEPT ![c].p = @ + 1]
    /\ UNCHANGED <<chan, pc, ctx, saved, kret, left, plock, tickslock, cpu, spos>>

TickDone(c) ==                          \* release(&tickslock)
    /\ irq[c].at = "wakeup"
    /\ irq[c].p = NPROC + 1
    /\ tickslock' = None
    /\ cpu' = [cpu EXCEPT ![c] = pop_off(@)]
    /\ irq' = [irq EXCEPT ![c] = [at |-> "end", p |-> 1]]
    /\ UNCHANGED <<state, chan, pc, ctx, saved, kret, left, plock, spos>>

\* Give up the CPU if a thread was interrupted, otherwise return.
InterruptEnd(c) ==
    /\ irq[c].at = "end"
    /\ irq' = [irq EXCEPT ![c].at = "none"]
    /\ LET t == cpu[c].thread IN
       IF t # None
       THEN /\ kret' = [kret EXCEPT ![t] = pc[t]]
            /\ pc' = [pc EXCEPT ![t] = "y_take"]
            /\ cpu' = [cpu EXCEPT ![c] = push_off(@)]
       ELSE /\ cpu' = [cpu EXCEPT ![c] = intr_on(@)]
            /\ UNCHANGED <<pc, kret>>
    /\ UNCHANGED <<state, chan, ctx, saved, left, plock, tickslock, spos>>

handler(c) == Tick(c) \/ wakeup(c) \/ TickDone(c) \/ InterruptEnd(c)

-----------------------------------------------------------------------------
CpuStep(c) == scheduler(c) \/ handler(c) \/ \E t \in Threads : thread(c, t)

Next ==
    \/ \E c \in CPUs : CpuStep(c) \/ Interrupt(c)
    \/ \E c \in CPUs, t \in Threads : sys_sleep(c, t)

Spec == Init /\ [][Next]_vars

\* A CPU keeps executing and gets a lock that becomes free again and again; a
\* pending timer interrupt is taken when interrupts are enabled again and
\* again; the timer period is longer than the few instructions the scheduler
\* or sys_sleep() executes between two places with interrupts enabled.
Fairness ==
    /\ \A c \in CPUs : /\ SF_vars(Interrupt(c))
                       /\ SF_vars(scheduler(c))
                       /\ SF_vars(handler(c) \/ \E t \in Threads : thread(c, t))
    /\ \A t \in Threads :
          SF_vars(\E c \in CPUs : \/ Spin(c, t, "slp_enter", "slp_take")
                                  \/ Spin(c, t, "slp_woken", "slp_retake"))

FairSpec == Spec /\ Fairness
-----------------------------------------------------------------------------
OnCpu(t) == \E c \in CPUs : cpu[c].thread = t

\* No thread runs on two CPUs, and none is resumed from a context that was not
\* saved since it last ran: p->lock is held from the moment yield() or sleep()
\* changes t->state until the switch is over.
OneCpuPerThread ==
    /\ \A c, d \in CPUs : cpu[c].thread = cpu[d].thread /\ cpu[c].thread # None => c = d
    /\ \A t \in Threads : pc[t] # "stale"

\* t->state tells the truth about the CPUs to whoever holds p->lock.
StateMatchesCpu ==
    \A t \in Threads :
        IF state[t] = "RUNNING" THEN OnCpu(t)
        ELSE OnCpu(t) => \E c \in CPUs : /\ cpu[c].thread = t
                                         /\ plock[ProcOf(t)] = c

\* The panics of sched(), acquire(), release() and pop_off() are not reached.
NoPanic ==
    /\ \A c \in CPUs, t \in Threads :
          Runs(c, t) =>
             /\ pc[t] \in {"swtch_slp", "swtch_y"} =>
                   /\ plock[ProcOf(t)] = c
                   /\ cpu[c].noff = 1
                   /\ state[t] # "RUNNING"
                   /\ ~ cpu[c].intr
             /\ pc[t] \in {"slp_take", "slp_retake"} => tickslock # c
             /\ pc[t] \in {"slp_ptake", "y_take"} => plock[ProcOf(t)] # c
             /\ pc[t] \in {"slp_test", "slp_rel"} => tickslock = c
             /\ pc[t] \in Resumed => plock[ProcOf(t)] = c
    /\ \A c \in CPUs :
          /\ irq[c].at = "tick" => tickslock # c
          /\ irq[c].at = "wakeup" => tickslock = c /\ \A p \in Procs : plock[p] # c
          /\ InScheduler(c) /\ spos[c].at = "take" => plock[spos[c].p] # c
          /\ InScheduler(c) /\ spos[c].at = "scan" => plock[spos[c].p] = c
          /\ cpu[c].intr => cpu[c].noff = 0

\* A thread gets back its own interrupt state when it is resumed, on whatever
\* CPU that is: a yield() in a trap returns with interrupts still off, sleep()
\* in a system call with interrupts on.
InterruptStateKept ==
    \A c \in CPUs, t \in Threads :
        Runs(c, t) => /\ pc[t] = "y_ret" => ~ cpu[c].intr
                      /\ pc[t] \in Interruptible => cpu[c].intr

\* No lost wakeup: a thread sleeps past its deadline only while clockintr() has
\* still to reach its process in wakeup(&ticks).
NoLostTick ==
    \A t \in Threads :
        state[t] = "SLEEPING" /\ left[t] = 0 =>
            \E c \in CPUs : irq[c].at = "wakeup" /\ irq[c].p <= ProcOf(t)

\* Every runnable thread is eventually run.
RunnableRuns == \A t \in Threads : state[t] = "RUNNABLE" ~> state[t] = "RUNNING"

\* Every sys_sleep() returns.
SleepReturns == \A t \in Threads : pc[t] = "slp_test" ~> pc[t] = "user"
=============================================================================
