-------------------------- MODULE SchedStep_proof ---------------------------
(***************************************************************************)
(* The steps of a running thread that stay in it (forkret, the spinning of *)
(* acquire, yield and the return from a trap, sys_sleep and sleep) preserve*)
(* the invariant; and what a step of an interrupt handler preserves.       *)
(***************************************************************************)
EXTENDS SchedInv_proof

\* The provers for a leaf, in this order; the later ones serve when the machine is busy.
USE SMTT(60), ZenonT(20), SMTT(61), Z3T(62)

\* Thread t on c goes to location l, with the locks and the state that l has,
\* and leaves the struct cpu r; a lock it takes was free.
Moves(c, t, l, r) ==
    /\ pc' = [pc EXCEPT ![t] = l] /\ cpu' = [cpu EXCEPT ![c] = r]
    /\ state' = [state EXCEPT ![t] = StateAt(l)]
    /\ plock' = [plock EXCEPT ![ProcOf(t)] = IF l \in HasP THEN c ELSE IF pc[t] \in HasP THEN None ELSE @]
    /\ tickslock' = IF l \in HasTicks THEN c ELSE IF pc[t] \in HasTicks THEN None ELSE tickslock
    /\ l \in HasP => plock[ProcOf(t)] \in {None, c}
    /\ l \in HasTicks => tickslock \in {None, c}
    /\ chan' \in [Threads -> BOOLEAN] /\ kret' \in [Threads -> Interruptible]
    /\ left' \in [Threads -> 0 .. MaxSleep]
    /\ UNCHANGED <<ctx, saved, spos, irq>>

\* Such a step preserves the invariant.
LEMMA MoveStep ==
    ASSUME IInv, NEW c \in CPUs, NEW t \in Threads, Runs(c, t),
           NEW l \in Pcs \ {"off", "stale"}, NEW r \in CpuType, r.thread = t,
           CpuAt(l, r), Moves(c, t, l, r)
    PROVE  IInv'
<1>1. /\ pc' \in [Threads -> Pcs] /\ cpu' \in [CPUs -> CpuType]
      /\ plock' \in [Procs -> CPUs \cup {None}] /\ tickslock' \in CPUs \cup {None}
      /\ state' \in [Threads -> {"RUNNABLE", "RUNNING", "SLEEPING"}]
  BY Types, Running DEF Moves, StateAt
<1>2. /\ pc'[t] = l /\ cpu'[c] = r /\ state'[t] = StateAt(l) /\ irq'[c].at = "none"
      /\ spos'[c] = spos[c] /\ r.thread # None
  BY Types, Running DEF Moves
<1>3. TypeOK'
  BY <1>1 DEF IInv, TypeOK, Moves
<1>4. StateOK(t)'
  BY <1>2 DEF StateOK, OnCpu
<1>5. HandlerOK(c)' /\ SchedulerOK(c)' /\ \A u \in Threads : ThreadOK(c, u)'
  BY <1>2 DEF HandlerOK, SchedulerOK, InScheduler, ThreadOK, Runs
<1>6. \A d \in CPUs \ {c} : /\ cpu'[d] = cpu[d] /\ spos'[d] = spos[d] /\ irq'[d] = irq[d]
                            /\ cpu[d].thread # t
                            /\ tickslock' = d <=> tickslock = d
                            /\ \A p \in Procs : plock'[p] = d <=> plock[p] = d
  BY Types, Running, SchedAssumption DEF Moves
<1>7. \A u \in Threads \ {t} : /\ pc'[u] = pc[u] /\ ctx'[u] = ctx[u] /\ saved'[u] = saved[u]
                               /\ state'[u] = state[u]
  BY Types DEF Moves
<1>8. tickslock' = c <=> HoldsTicks(c)'
  BY <1>2, Running, SchedAssumption DEF HoldsTicks, Moves
<1>9. \A p \in Procs : plock'[p] = c <=> HoldsP(c, p)'
  BY <1>2, Types, Running, SchedAssumption DEF HoldsP, Moves
<1>10. QED
  BY <1>2, <1>3, <1>4, <1>5, <1>6, <1>7, <1>8, <1>9, Running, OwnStep

\* The variables that a step leaves alone, in the form Moves has.
LEMMA Kept ==
    ASSUME IInv, NEW c \in CPUs, NEW t \in Threads, Runs(c, t)
    PROVE  /\ pc[t] \notin {"swtch_slp", "swtch_y"} => state = [state EXCEPT ![t] = "RUNNING"]
           /\ plock = [plock EXCEPT ![ProcOf(t)] = plock[ProcOf(t)]]
           /\ cpu = [cpu EXCEPT ![c] = cpu[c]]
           /\ chan \in [Threads -> BOOLEAN] /\ kret \in [Threads -> Interruptible]
           /\ left \in [Threads -> 0 .. MaxSleep]
<1>1. pc[t] \notin {"swtch_slp", "swtch_y"} => state[t] = "RUNNING"
  BY Running DEF StateOK, StateAt
<1>2. QED
  BY <1>1, Types, Running

\* forkret()
LEMMA ForkretStep ==
    ASSUME IInv, NEW c \in CPUs, NEW t \in Threads, forkret(c, t)
    PROVE  IInv'
<1>1. Runs(c, t) /\ pc[t] = "forkret"
  BY DEF forkret, ReleaseP, Goto
<1>2. CpuAt("user", intr_on(pop_off(cpu[c]))) /\ intr_on(pop_off(cpu[c])) \in CpuType /\ intr_on(pop_off(cpu[c])).thread = t
  BY <1>1, Running, PushType DEF CpuAt, Interruptible, EnabledBefore, DisabledBefore, HasTicks
<1>3. Moves(c, t, "user", intr_on(pop_off(cpu[c])))
  BY <1>1, Kept, Running DEF Moves, forkret, ReleaseP, Goto, HasP, HasTicks, Resumed, StateAt
<1>4. QED
  BY <1>1, <1>2, <1>3, MoveStep DEF Pcs, Interruptible, Spinning

\* yield() takes p->lock
LEMMA YieldStep ==
    ASSUME IInv, NEW c \in CPUs, NEW t \in Threads, yield(c, t)
    PROVE  IInv'
<1>1. Runs(c, t) /\ pc[t] = "y_take"
  BY DEF yield, TakeP, Goto
<1>2. CpuAt("swtch_y", cpu[c]) /\ cpu[c] \in CpuType /\ cpu[c].thread = t
  BY <1>1, Running DEF CpuAt, Interruptible, EnabledBefore, DisabledBefore, HasTicks
<1>3. Moves(c, t, "swtch_y", cpu[c])
  BY <1>1, Kept, Running DEF Moves, yield, TakeP, Goto, HasP, HasTicks, Resumed, StateAt
<1>4. QED
  BY <1>1, <1>2, <1>3, MoveStep DEF Pcs, Interruptible, Spinning

\* yield() is over and releases p->lock
LEMMA YieldBackStep ==
    ASSUME IInv, NEW c \in CPUs, NEW t \in Threads, YieldBack(c, t)
    PROVE  IInv'
<1>1. Runs(c, t) /\ pc[t] = "y_back"
  BY DEF YieldBack, ReleaseP, Goto
<1>2. CpuAt("y_ret", pop_off(cpu[c])) /\ pop_off(cpu[c]) \in CpuType /\ pop_off(cpu[c]).thread = t
  BY <1>1, Running, PushType DEF CpuAt, Interruptible, EnabledBefore, DisabledBefore, HasTicks
<1>3. Moves(c, t, "y_ret", pop_off(cpu[c]))
  BY <1>1, Kept, Running DEF Moves, YieldBack, ReleaseP, Goto, HasP, HasTicks, Resumed, StateAt
<1>4. QED
  BY <1>1, <1>2, <1>3, MoveStep DEF Pcs, Interruptible, Spinning

\* Entry to sys_sleep()
LEMMA SysSleepStep ==
    ASSUME IInv, NEW c \in CPUs, NEW t \in Threads, sys_sleep(c, t)
    PROVE  IInv'
<1>1. Runs(c, t) /\ pc[t] = "user"
  BY DEF sys_sleep, Goto
<1>2. CpuAt("slp_enter", cpu[c]) /\ cpu[c] \in CpuType /\ cpu[c].thread = t
  BY <1>1, Running DEF CpuAt, Interruptible, EnabledBefore, DisabledBefore, HasTicks
<1>3. Moves(c, t, "slp_enter", cpu[c])
  BY <1>1, Kept, Running DEF Moves, sys_sleep, Goto, HasP, HasTicks, Resumed, StateAt
<1>4. QED
  BY <1>1, <1>2, <1>3, MoveStep DEF Pcs, Interruptible, Spinning

\* sys_sleep() takes tickslock
LEMMA SleepTakeStep ==
    ASSUME IInv, NEW c \in CPUs, NEW t \in Threads, SleepTake(c, t)
    PROVE  IInv'
<1>1. Runs(c, t) /\ pc[t] = "slp_take"
  BY DEF SleepTake, TakeTicks, Goto
<1>2. CpuAt("slp_test", cpu[c]) /\ cpu[c] \in CpuType /\ cpu[c].thread = t
  BY <1>1, Running DEF CpuAt, Interruptible, EnabledBefore, DisabledBefore, HasTicks
<1>3. Moves(c, t, "slp_test", cpu[c])
  BY <1>1, Kept, Running DEF Moves, SleepTake, TakeTicks, Goto, HasP, HasTicks, Resumed, StateAt
<1>4. QED
  BY <1>1, <1>2, <1>3, MoveStep DEF Pcs, Interruptible, Spinning

\* sleep() takes p->lock
LEMMA SleepTakePStep ==
    ASSUME IInv, NEW c \in CPUs, NEW t \in Threads, SleepTakeP(c, t)
    PROVE  IInv'
<1>1. Runs(c, t) /\ pc[t] = "slp_ptake"
  BY DEF SleepTakeP, TakeP, Goto
<1>2. CpuAt("slp_rel", cpu[c]) /\ cpu[c] \in CpuType /\ cpu[c].thread = t
  BY <1>1, Running DEF CpuAt, Interruptible, EnabledBefore, DisabledBefore, HasTicks
<1>3. Moves(c, t, "slp_rel", cpu[c])
  BY <1>1, Kept, Running DEF Moves, SleepTakeP, TakeP, Goto, HasP, HasTicks, Resumed, StateAt
<1>4. QED
  BY <1>1, <1>2, <1>3, MoveStep DEF Pcs, Interruptible, Spinning

\* sleep() releases its condition lock
LEMMA SleepReleaseStep ==
    ASSUME IInv, NEW c \in CPUs, NEW t \in Threads, SleepRelease(c, t)
    PROVE  IInv'
<1>1. Runs(c, t) /\ pc[t] = "slp_rel"
  BY DEF SleepRelease, Goto
<1>2. CpuAt("swtch_slp", pop_off(cpu[c])) /\ pop_off(cpu[c]) \in CpuType /\ pop_off(cpu[c]).thread = t
  BY <1>1, Running, PushType DEF CpuAt, Interruptible, EnabledBefore, DisabledBefore, HasTicks
<1>3. Moves(c, t, "swtch_slp", pop_off(cpu[c]))
  BY <1>1, Kept, Running DEF Moves, SleepRelease, Goto, HasP, HasTicks, Resumed, StateAt
<1>4. QED
  BY <1>1, <1>2, <1>3, MoveStep DEF Pcs, Interruptible, Spinning

\* sleep() has been woken and releases p->lock
LEMMA SleepBackStep ==
    ASSUME IInv, NEW c \in CPUs, NEW t \in Threads, SleepBack(c, t)
    PROVE  IInv'
<1>1. Runs(c, t) /\ pc[t] = "slp_back"
  BY DEF SleepBack, ReleaseP, Goto
<1>2. CpuAt("slp_woken", pop_off(cpu[c])) /\ pop_off(cpu[c]) \in CpuType /\ pop_off(cpu[c]).thread = t
  BY <1>1, Running, PushType DEF CpuAt, Interruptible, EnabledBefore, DisabledBefore, HasTicks
<1>3. Moves(c, t, "slp_woken", pop_off(cpu[c]))
  BY <1>1, Kept, Running DEF Moves, SleepBack, ReleaseP, Goto, HasP, HasTicks, Resumed, StateAt
<1>4. QED
  BY <1>1, <1>2, <1>3, MoveStep DEF Pcs, Interruptible, Spinning

\* sleep() takes tickslock again
LEMMA SleepRetakeStep ==
    ASSUME IInv, NEW c \in CPUs, NEW t \in Threads, SleepRetake(c, t)
    PROVE  IInv'
<1>1. Runs(c, t) /\ pc[t] = "slp_retake"
  BY DEF SleepRetake, TakeTicks, Goto
<1>2. CpuAt("slp_test", cpu[c]) /\ cpu[c] \in CpuType /\ cpu[c].thread = t
  BY <1>1, Running DEF CpuAt, Interruptible, EnabledBefore, DisabledBefore, HasTicks
<1>3. Moves(c, t, "slp_test", cpu[c])
  BY <1>1, Kept, Running DEF Moves, SleepRetake, TakeTicks, Goto, HasP, HasTicks, Resumed, StateAt
<1>4. QED
  BY <1>1, <1>2, <1>3, MoveStep DEF Pcs, Interruptible, Spinning

\* acquire(): push_off() on the way to take tickslock
LEMMA SpinStep ==
    ASSUME IInv, NEW c \in CPUs, NEW t \in Threads, NEW from \in {"slp_enter", "slp_woken"},
           NEW to \in {"slp_take", "slp_retake"}, Spin(c, t, from, to)
    PROVE  IInv'
<1>1. Runs(c, t) /\ pc[t] = from
  BY DEF Spin, Goto
<1>2. CpuAt(to, push_off(cpu[c])) /\ push_off(cpu[c]) \in CpuType /\ push_off(cpu[c]).thread = t
  BY <1>1, Running, PushType DEF CpuAt, Interruptible, EnabledBefore, DisabledBefore, HasTicks
<1>3. Moves(c, t, to, push_off(cpu[c]))
  BY <1>1, Kept, Running DEF Moves, Spin, Goto, HasP, HasTicks, Resumed, StateAt
<1>4. QED
  BY <1>1, <1>2, <1>3, MoveStep DEF Pcs, Spinning

\* The trap that yielded returns
LEMMA TrapReturnStep ==
    ASSUME IInv, NEW c \in CPUs, NEW t \in Threads, TrapReturn(c, t)
    PROVE  IInv'
<1>1. Runs(c, t) /\ pc[t] = "y_ret" /\ kret[t] \in Interruptible
  BY Types DEF TrapReturn, Goto
<1>2. CpuAt(kret[t], intr_on(cpu[c])) /\ intr_on(cpu[c]) \in CpuType /\ intr_on(cpu[c]).thread = t
  BY <1>1, Running, PushType DEF CpuAt, Interruptible, EnabledBefore, DisabledBefore, HasTicks
<1>3. Moves(c, t, kret[t], intr_on(cpu[c]))
  BY <1>1, Kept, Running DEF Moves, TrapReturn, Goto, HasP, HasTicks, Resumed, StateAt, Interruptible
<1>4. QED
  BY <1>1, <1>2, <1>3, MoveStep DEF Pcs, Interruptible

\* The loop of sys_sleep(): on to sleep(), or back to user space
LEMMA SleepTestStep ==
    ASSUME IInv, NEW c \in CPUs, NEW t \in Threads, SleepTest(c, t)
    PROVE  IInv'
<1>1. Runs(c, t) /\ pc[t] = "slp_test"
  BY DEF SleepTest, Goto
<1>2. CASE left[t] > 0
  <2>1. CpuAt("slp_ptake", push_off(cpu[c])) /\ push_off(cpu[c]) \in CpuType /\ push_off(cpu[c]).thread = t
    BY <1>1, Running, PushType DEF CpuAt, Interruptible, EnabledBefore, DisabledBefore, HasTicks
  <2>2. Moves(c, t, "slp_ptake", push_off(cpu[c]))
    BY <1>1, <1>2, Kept, Running DEF Moves, SleepTest, Goto, HasP, HasTicks, Resumed, StateAt
  <2>3. QED
    BY <1>1, <2>1, <2>2, MoveStep DEF Pcs, Spinning
<1>3. CASE ~ (left[t] > 0)
  <2>1. CpuAt("user", pop_off(cpu[c])) /\ pop_off(cpu[c]) \in CpuType /\ pop_off(cpu[c]).thread = t
    BY <1>1, Running, PushType DEF CpuAt, Interruptible, EnabledBefore, DisabledBefore, HasTicks
  <2>2. Moves(c, t, "user", pop_off(cpu[c]))
    BY <1>1, <1>3, Kept, Running DEF Moves, SleepTest, Goto, HasP, HasTicks, Resumed, StateAt
  <2>3. QED
    BY <1>1, <2>1, <2>2, MoveStep DEF Pcs, Interruptible
<1>4. QED
  BY <1>2, <1>3
-----------------------------------------------------------------------------
\* What the invariant says of c in an interrupt handler, or where one may start.
LEMMA Handling ==
    ASSUME IInv, NEW c \in CPUs, irq[c].at # "none" \/ cpu[c].intr
    PROVE  /\ cpu[c].thread # None => /\ cpu[c].thread \in Threads /\ pc[cpu[c].thread] \in Interruptible
                                      /\ state[cpu[c].thread] = "RUNNING"
                                      /\ spos[c].at = "scan" /\ spos[c].p = ProcOf(cpu[c].thread)
                                      /\ \A d \in CPUs \ {c} : cpu[d].thread # cpu[c].thread
           /\ cpu[c].thread = None => spos[c].at \in {"top", "want"}
           /\ cpu[c].noff = IF irq[c].at \in {"tick", "wakeup"} THEN 1 ELSE 0
           /\ irq[c].at \in {"tick", "wakeup"} => ~ cpu[c].intr /\ ~ cpu[c].intena
           /\ irq[c].at = "end" => ~ cpu[c].intr
           /\ tickslock = c <=> irq[c].at = "wakeup"
           /\ \A p \in Procs : plock[p] # c
<1>1. /\ cpu[c].thread # None => pc[cpu[c].thread] \in Interruptible
      /\ cpu[c].thread = None => spos[c].at \in {"top", "want"}
      /\ cpu[c].noff = IF irq[c].at \in {"tick", "wakeup"} THEN 1 ELSE 0
      /\ irq[c].at \in {"tick", "wakeup"} => ~ cpu[c].intr /\ ~ cpu[c].intena
      /\ irq[c].at = "end" => ~ cpu[c].intr
  <2>1. CASE irq[c].at # "none"
    BY <2>1, Fields DEF IInv, HandlerOK
  <2>2. CASE irq[c].at = "none" /\ cpu[c].thread = None
    BY <2>2, Fields DEF IInv, SchedulerOK, InScheduler
  <2>3. CASE irq[c].at = "none" /\ cpu[c].thread # None
    <3>1. Runs(c, cpu[c].thread) /\ cpu[c].thread \in Threads
      BY <2>3, Fields DEF Runs
    <3>2. CpuAt(pc[cpu[c].thread], cpu[c])
      BY <3>1, Running
    <3>3. QED
      BY <2>3, <3>2 DEF CpuAt
  <2>4. QED
    BY <2>1, <2>2, <2>3
<1>2. ASSUME cpu[c].thread # None
      PROVE  /\ cpu[c].thread \in Threads /\ state[cpu[c].thread] = "RUNNING"
             /\ spos[c].at = "scan" /\ spos[c].p = ProcOf(cpu[c].thread)
             /\ \A d \in CPUs \ {c} : cpu[d].thread # cpu[c].thread
  <2>1. cpu[c].thread \in Threads /\ StateOK(cpu[c].thread)
    BY <1>2, Fields DEF IInv
  <2>2. QED
    BY <1>1, <1>2, <2>1 DEF IInv, StateOK, StateAt, Interruptible, SwitchedTo, OneCpuPerThread
<1>3. (tickslock = c <=> irq[c].at = "wakeup") /\ \A p \in Procs : plock[p] # c
  BY <1>1 DEF IInv, LocksMatch, HoldsTicks, HoldsP, HasTicks, HasP, Interruptible, Resumed
<1>4. QED
  BY <1>1, <1>2, <1>3

\* The interrupt handler of c goes to i and leaves the struct cpu r; it has
\* tickslock in clockintr()'s wakeup().
Handles(c, i, r) ==
    /\ cpu' = [cpu EXCEPT ![c] = r] /\ irq' = [irq EXCEPT ![c] = i]
    /\ tickslock' = IF i.at = "wakeup" THEN c ELSE IF irq[c].at = "wakeup" THEN None ELSE tickslock
    /\ i.at = "wakeup" => tickslock \in {None, c}
    /\ state' \in [Threads -> {"RUNNABLE", "RUNNING", "SLEEPING"}] /\ left' \in [Threads -> 0 .. MaxSleep]
    /\ \A u \in Threads : state'[u] # state[u] => u # cpu[c].thread /\ StateOK(u)'
    /\ UNCHANGED <<chan, pc, ctx, saved, kret, plock, spos>>

\* Such a step preserves the invariant.
LEMMA HandlerStep ==
    ASSUME IInv, NEW c \in CPUs, irq[c].at # "none" \/ cpu[c].intr,
           NEW i \in IrqType, NEW r \in CpuType, r.thread = cpu[c].thread,
           i.at = "none" => r.thread = None,
           i.at # "none" => ~ r.intr,
           r.noff = IF i.at \in {"tick", "wakeup"} THEN 1 ELSE 0,
           i.at \in {"tick", "wakeup"} => ~ r.intena,
           Handles(c, i, r)
    PROVE  IInv'
<1>0. PICK t \in Threads \cup {None} : t = cpu[c].thread
  BY Fields
<1>1. cpu' \in [CPUs -> CpuType] /\ irq' \in [CPUs -> IrqType] /\ tickslock' \in CPUs \cup {None}
  BY Types DEF Handles
<1>2. cpu'[c] = r /\ irq'[c] = i /\ i.at \in {"none", "tick", "wakeup", "end"} /\ spos' = spos
  BY Types DEF Handles, IrqType
<1>3. TypeOK'
  BY <1>1 DEF IInv, TypeOK, Handles
<1>4. HandlerOK(c)' /\ SchedulerOK(c)' /\ \A u \in Threads : ThreadOK(c, u)'
  <2>1. HandlerOK(c)'
    BY <1>2, Handling DEF HandlerOK, Handles
  <2>2. SchedulerOK(c)'
    <3>1. ASSUME r.thread = None, i.at = "none" PROVE spos[c].at \in {"top", "want"} /\ r.noff = 0
      BY ZenonT(60), <3>1, Handling
    <3>2. QED
      BY <1>2, <3>1 DEF SchedulerOK, InScheduler
  <2>3. \A u \in Threads : ThreadOK(c, u)'
    BY <1>2, SlotType DEF ThreadOK, Runs
  <2>4. QED
    BY <2>1, <2>2, <2>3
<1>5. \A d \in CPUs \ {c} : /\ cpu'[d] = cpu[d] /\ spos'[d] = spos[d] /\ irq'[d] = irq[d]
                            /\ cpu[d].thread = t => t = None
                            /\ tickslock' = d <=> tickslock = d
                            /\ \A p \in Procs : plock'[p] = d <=> plock[p] = d
  BY <1>0, Types, Handling, SchedAssumption DEF Handles
<1>6. tickslock' = c <=> HoldsTicks(c)'
  BY <1>2, Handling, SchedAssumption DEF HoldsTicks, Handles, HasTicks, Interruptible
<1>7. \A p \in Procs : plock'[p] = c <=> HoldsP(c, p)'
  BY <1>2, Handling DEF HoldsP, Handles, HasP, Interruptible, Resumed
<1>8. \A u \in Threads : /\ pc'[u] = pc[u] /\ ctx'[u] = ctx[u] /\ saved'[u] = saved[u]
                         /\ state'[u] = state[u] \/ StateOK(u)'
  BY DEF Handles
<1>9. t # None => StateOK(t)' /\ pc'[t] # "stale"
  BY <1>0, <1>2, Handling DEF StateOK, StateAt, OnCpu, Handles, Interruptible
<1>10. /\ cpu[c].thread = t /\ cpu'[c].thread = t
       /\ t # None => spos'[c].at = "scan" /\ spos'[c].p = ProcOf(t)
  BY <1>0, <1>2, Handling
<1>11. QED
  BY <1>3, <1>4, <1>5, <1>6, <1>7, <1>8, <1>9, <1>10, OwnStep
=============================================================================
