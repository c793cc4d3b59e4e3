---------------------------- MODULE Sched_proof -----------------------------
(***************************************************************************)
(* The two context switches (sched, from a thread to its CPU's scheduler,  *)
(* and the dispatch of a thread by a scheduler) and the timer interrupt    *)
(* preserve the invariant; and the theorems about context switches,        *)
(* spinlocks and interrupts, for any number of CPUs, processes and threads.*)
(***************************************************************************)
EXTENDS SchedStep_proof

\* The provers for a leaf, in this order; the later ones serve when the machine is busy.
USE SMTT(60), ZenonT(20), SMTT(61), Z3T(62)

\* sched(): t leaves c, and c's scheduler goes on with p->lock
LEMMA SchedStep ==
    ASSUME IInv, NEW c \in CPUs, NEW t \in Threads, NEW from, NEW back,
           <<from, back>> \in {<<"swtch_slp", "slp_back">>, <<"swtch_y", "y_back">>},
           sched(c, t, from, back)
    PROVE  IInv'
<1>0. \/ from = "swtch_slp" /\ back = "slp_back"
      \/ from = "swtch_y" /\ back = "y_back"
  OBVIOUS
<1>1. Runs(c, t) /\ pc[t] = from
  BY DEF sched, Goto
<1>2. /\ cpu[c].noff = 1 /\ ~ cpu[c].intr /\ state[t] # "RUNNING" /\ cpu[c].intena \in BOOLEAN
      /\ tickslock # c /\ \A p \in Procs : plock[p] = c <=> p = ProcOf(t)
      /\ IF from = "swtch_slp" THEN cpu[c].intena ELSE ~ cpu[c].intena
  BY <1>0, <1>1, Running DEF CpuAt, CpuType, StateOK, StateAt, Interruptible, EnabledBefore,
     DisabledBefore, HasP, HasTicks
<1> DEFINE r == [cpu[c] EXCEPT !.thread = None]
<1>3. r \in CpuType /\ r.thread = None /\ r.noff = 1 /\ ~ r.intr
  BY <1>2, Fields DEF CpuType
<1>4. cpu' = [cpu EXCEPT ![c] = r]
  BY ZenonT(60) DEF sched
<1> HIDE DEF r
<1>5. /\ cpu' \in [CPUs -> CpuType] /\ ctx' \in [Threads -> Resumed \cup {"stale"}]
      /\ saved' \in [Threads -> BOOLEAN] /\ pc' \in [Threads -> Pcs]
  BY <1>0, <1>2, <1>3, <1>4, Types DEF sched, Goto, Resumed, Pcs
<1>6. /\ cpu'[c] = r /\ pc'[t] = "off" /\ ctx'[t] = back /\ saved'[t] = cpu[c].intena
      /\ UNCHANGED <<state, chan, kret, left, plock, tickslock, spos, irq>>
  BY <1>4, Types DEF sched, Goto
<1>7. TypeOK'
  BY <1>5, <1>6 DEF IInv, TypeOK
<1>8. \A d \in CPUs \ {c} : cpu'[d] = cpu[d] /\ cpu[d].thread # t
  BY <1>1, <1>4, Types, Running
<1>9. \A u \in Threads \ {t} : pc'[u] = pc[u] /\ ctx'[u] = ctx[u] /\ saved'[u] = saved[u]
  BY Types DEF sched, Goto
<1>10. StateOK(t)'
  <2>1. ~ OnCpu(t)'
    BY <1>3, <1>6, <1>8, SlotType DEF OnCpu
  <2>2. QED
    BY <2>1, <1>0, <1>2, <1>6 DEF StateOK
<1>11. /\ HandlerOK(c)' /\ SchedulerOK(c)' /\ \A u \in Threads : ThreadOK(c, u)'
       /\ tickslock' = c <=> HoldsTicks(c)'
       /\ \A p \in Procs : plock'[p] = c <=> HoldsP(c, p)'
  BY <1>1, <1>2, <1>3, <1>6, Running, SlotType
     DEF HandlerOK, SchedulerOK, ThreadOK, Runs, HoldsTicks, HoldsP
<1>12. QED
  BY <1>1, <1>3, <1>6, <1>7, <1>8, <1>9, <1>10, <1>11, Running, OwnStep

\* Who is RUNNABLE while the scheduler of c has p->lock is not on any CPU.
LEMMA CandidateIsOff ==
    ASSUME IInv, NEW c \in CPUs, InScheduler(c), spos[c].at = "scan", NEW t \in Candidates(c)
    PROVE  /\ t \in Threads /\ t # None /\ ProcOf(t) = spos[c].p
           /\ pc[t] = "off" /\ \A d \in CPUs : cpu[d].thread # t
           /\ ctx[t] \in Resumed /\ saved[t] \in BOOLEAN
           /\ ctx[t] = "slp_back" => saved[t]
           /\ ctx[t] = "y_back" => ~ saved[t]
<1>1. t \in Threads /\ ProcOf(t) = spos[c].p /\ state[t] = "RUNNABLE"
  BY DEF Candidates
<1>2. StateOK(t) /\ ctx[t] \in Resumed \cup {"stale"} /\ saved[t] \in BOOLEAN
  BY <1>1, Types DEF IInv
<1>3. plock[ProcOf(t)] = c /\ ProcOf(t) \in Procs /\ cpu[c].thread = None /\ t # None
  BY <1>1, Scheduling, SlotType
<1>4. pc[t] = "off"
  <2>1. SUFFICES ASSUME pc[t] # "off" PROVE FALSE
    OBVIOUS
  <2>2. pc[t] = "swtch_y"
    BY <1>1, <1>2, <2>1 DEF StateOK, StateAt
  <2>3. PICK d \in CPUs : cpu[d].thread = t
    BY <1>2, <2>1 DEF StateOK, OnCpu
  <2>4. plock[ProcOf(t)] = d
    BY <1>3, <2>2, <2>3 DEF IInv, LocksMatch, HoldsP, HasP
  <2>5. QED
    BY <1>3, <2>3, <2>4
<1>5. QED
  BY <1>1, <1>2, <1>3, <1>4 DEF StateOK, OnCpu

\* The switch to the next runnable thread
LEMMA DispatchStep ==
    ASSUME IInv, NEW c \in CPUs, Dispatch(c)
    PROVE  IInv'
<1>1. /\ InScheduler(c) /\ spos[c].at = "scan" /\ cpu[c].noff = 1 /\ ~ cpu[c].intr
      /\ cpu[c] \in CpuType /\ cpu[c].thread = None /\ irq[c].at = "none" /\ tickslock # c
  BY Scheduling, Fields DEF Dispatch, SchedulerOK
<1>2. PICK t \in Candidates(c) :
          /\ state' = [state EXCEPT ![t] = "RUNNING"]
          /\ pc' = [pc EXCEPT ![t] = ctx[t]]
          /\ ctx' = [ctx EXCEPT ![t] = "stale"]
          /\ saved' = [saved EXCEPT ![t] = FALSE]
          /\ cpu' = [cpu EXCEPT ![c] = swtch(@, t, IF ctx[t] = "forkret" THEN @.intena ELSE saved[t])]
          /\ spos' = [spos EXCEPT ![c].k = t[2] + 1]
  BY ZenonT(60) DEF Dispatch
<1>3. /\ t \in Threads /\ t # None /\ ProcOf(t) = spos[c].p
      /\ pc[t] = "off" /\ \A d \in CPUs : cpu[d].thread # t
      /\ ctx[t] \in Resumed /\ saved[t] \in BOOLEAN
      /\ ctx[t] = "slp_back" => saved[t]
      /\ ctx[t] = "y_back" => ~ saved[t]
  BY <1>1, CandidateIsOff
<1> DEFINE r == swtch(cpu[c], t, IF ctx[t] = "forkret" THEN cpu[c].intena ELSE saved[t])
           s == [spos[c] EXCEPT !.k = t[2] + 1]
<1>4. /\ r \in CpuType /\ r.thread = t /\ r.noff = 1 /\ ~ r.intr
      /\ ctx[t] # "forkret" => r.intena = saved[t]
  BY <1>1, <1>3 DEF CpuType, swtch
<1>5. s \in SposType /\ s.at = "scan" /\ s.p = ProcOf(t)
  BY <1>1, <1>3, Fields, SlotType, SchedAssumption DEF SposType
<1>6. cpu' = [cpu EXCEPT ![c] = r] /\ spos' = [spos EXCEPT ![c] = s]
  BY ZenonT(60), <1>2, Types
<1> HIDE DEF r, s
<1>7. UNCHANGED <<chan, kret, left, plock, tickslock, irq>>
  BY DEF Dispatch
<1>8. /\ cpu'[c] = r /\ spos'[c] = s /\ irq'[c].at = "none"
      /\ pc'[t] = ctx[t] /\ ctx'[t] = "stale" /\ state'[t] = "RUNNING"
  BY <1>1, <1>2, <1>3, <1>6, <1>7, Types
<1>9. /\ ctx' \in [Threads -> Resumed \cup {"stale"}] /\ saved' \in [Threads -> BOOLEAN]
      /\ pc' \in [Threads -> Pcs] /\ state' \in [Threads -> {"RUNNABLE", "RUNNING", "SLEEPING"}]
      /\ cpu' \in [CPUs -> CpuType] /\ spos' \in [CPUs -> SposType]
  BY <1>2, <1>3, <1>4, <1>5, <1>6, Types DEF Pcs
<1>10. TypeOK'
  BY <1>7, <1>9 DEF IInv, TypeOK
<1>11. /\ \A d \in CPUs \ {c} : cpu'[d] = cpu[d] /\ spos'[d] = spos[d]
       /\ \A u \in Threads \ {t} : /\ pc'[u] = pc[u] /\ ctx'[u] = ctx[u]
                                   /\ saved'[u] = saved[u] /\ state'[u] = state[u]
  BY <1>2, <1>6, Types
<1>12. StateOK(t)'
  BY <1>3, <1>4, <1>8 DEF StateOK, StateAt, OnCpu, Resumed
<1>13. HandlerOK(c)' /\ SchedulerOK(c)' /\ \A u \in Threads : ThreadOK(c, u)'
  <2>1. CpuAt(ctx[t], r)
    BY <1>3, <1>4 DEF CpuAt, Resumed, Interruptible, EnabledBefore, DisabledBefore, HasTicks
  <2>2. QED
    BY <1>3, <1>4, <1>8, <2>1 DEF HandlerOK, SchedulerOK, InScheduler, ThreadOK, Runs
<1>14. tickslock' = c <=> HoldsTicks(c)'
  BY <1>1, <1>3, <1>4, <1>7, <1>8 DEF HoldsTicks, HasTicks, Resumed
<1>15. \A p \in Procs : plock'[p] = c <=> HoldsP(c, p)'
  BY <1>1, <1>3, <1>4, <1>7, <1>8, Scheduling DEF HoldsP, HasP
<1>16. pc'[t] # "stale"
  BY <1>3, <1>8 DEF Resumed
<1>17. QED
  BY <1>1, <1>3, <1>4, <1>5, <1>7, <1>8, <1>10, <1>11, <1>12, <1>13, <1>14, <1>15, <1>16, OwnStep
-----------------------------------------------------------------------------
\* Setting a field of irq[c].
LEMMA IrqAt ==
    ASSUME NEW i \in IrqType
    PROVE  /\ \A a \in {"none", "tick", "wakeup", "end"} :
                 [i EXCEPT !.at = a] \in IrqType /\ [i EXCEPT !.at = a].at = a
           /\ \A n \in 1 .. NPROC + 1 :
                 [i EXCEPT !.p = n] \in IrqType /\ [i EXCEPT !.p = n].at = i.at
  BY DEF IrqType

\* The timer interrupt is taken
LEMMA InterruptStep ==
    ASSUME IInv, NEW c \in CPUs, Interrupt(c)
    PROVE  IInv'
<1>1. irq[c].at = "none" /\ cpu[c].intr /\ cpu[c].noff = 0
  BY Handling DEF Interrupt
<1>2. /\ intr_off(cpu[c]) \in CpuType /\ intr_off(cpu[c]).noff = 0 /\ ~ intr_off(cpu[c]).intr
      /\ intr_off(cpu[c]).thread = cpu[c].thread
  BY <1>1, Fields, PushType
<1>3. CASE c = cpu0
  <2> DEFINE i == [irq[c] EXCEPT !.at = "tick"]
  <2>1. i \in IrqType /\ i.at = "tick"
    BY ZenonT(60), Fields, IrqAt
  <2>2. irq' = [irq EXCEPT ![c] = i] /\ cpu' = [cpu EXCEPT ![c] = push_off(intr_off(cpu[c]))]
    BY ZenonT(60), <1>3 DEF Interrupt
  <2> HIDE DEF i
  <2>3. Handles(c, i, push_off(intr_off(cpu[c])))
    BY ZenonT(60), <1>1, <2>1, <2>2, Types DEF Handles, Interrupt
  <2>4. QED
    BY <1>1, <1>2, <2>1, <2>3, PushType, HandlerStep
<1>4. CASE c # cpu0
  <2> DEFINE i == [irq[c] EXCEPT !.at = "end"]
  <2>1. i \in IrqType /\ i.at = "end"
    BY ZenonT(60), Fields, IrqAt
  <2>2. irq' = [irq EXCEPT ![c] = i] /\ cpu' = [cpu EXCEPT ![c] = intr_off(cpu[c])]
    BY ZenonT(60), <1>4 DEF Interrupt
  <2> HIDE DEF i
  <2>3. Handles(c, i, intr_off(cpu[c]))
    BY ZenonT(60), <1>1, <2>1, <2>2, Types DEF Handles, Interrupt
  <2>4. QED
    BY <1>1, <1>2, <2>1, <2>3, HandlerStep
<1>5. QED
  BY <1>3, <1>4

\* clockintr() takes tickslock
LEMMA TickStep ==
    ASSUME IInv, NEW c \in CPUs, Tick(c)
    PROVE  IInv'
<1> DEFINE i == [at |-> "wakeup", p |-> 1]
<1>1. irq[c].at = "tick" /\ tickslock = None /\ irq' = [irq EXCEPT ![c] = i]
  BY DEF Tick
<1>2. i \in IrqType /\ i.at = "wakeup"
  BY SchedAssumption DEF IrqType
<1> HIDE DEF i
<1>3. left' \in [Threads -> 0 .. MaxSleep]
  <2>1. \A t \in Threads : (IF left[t] > 0 THEN left[t] - 1 ELSE 0) \in 0 .. MaxSleep
    BY Types, SchedAssumption
  <2>2. QED
    BY <2>1 DEF Tick
<1>4. Handles(c, i, cpu[c])
  BY ZenonT(60), <1>1, <1>2, <1>3, Types DEF Handles, Tick
<1>5. QED
  BY <1>1, <1>2, <1>4, Fields, Handling, HandlerStep

\* wakeup(&ticks) of one process: who is woken has left its CPU
LEMMA WakeupStep ==
    ASSUME IInv, NEW c \in CPUs, wakeup(c)
    PROVE  IInv'
<1> DEFINE i == [irq[c] EXCEPT !.p = irq[c].p + 1]
<1>1. irq[c].at = "wakeup" /\ irq[c].p \in Procs /\ plock[irq[c].p] = None /\ tickslock = c
  BY Fields, Handling, SchedAssumption DEF wakeup, Procs
<1>2. i \in IrqType /\ i.at = "wakeup"
  <2>1. irq[c].p + 1 \in 1 .. NPROC + 1
    BY <1>1, SchedAssumption DEF Procs
  <2>2. QED
    BY ZenonT(60), <1>1, <2>1, Fields, IrqAt
<1>3. irq' = [irq EXCEPT ![c] = i]
  BY ZenonT(60) DEF wakeup
<1> HIDE DEF i
<1>4. ASSUME NEW u \in Threads, state'[u] # state[u]
      PROVE  StateOK(u)' /\ u # cpu[c].thread
  <2>1. ProcOf(u) = irq[c].p /\ u # cpu[c].thread /\ state[u] = "SLEEPING" /\ state'[u] = "RUNNABLE"
    BY <1>4 DEF wakeup
  <2>2. StateOK(u)
    BY DEF IInv
  <2>3. pc[u] = "off"
    <3>1. SUFFICES ASSUME pc[u] # "off" PROVE FALSE
      OBVIOUS
    <3>2. pc[u] = "swtch_slp"
      BY <2>1, <2>2, <3>1 DEF StateOK, StateAt
    <3>3. PICK d \in CPUs : cpu[d].thread = u
      BY <2>2, <3>1 DEF StateOK, OnCpu
    <3>4. plock[ProcOf(u)] = d
      BY <3>2, <3>3, SlotType DEF IInv, LocksMatch, HoldsP, HasP
    <3>5. QED
      BY <1>1, <2>1, <3>4, SchedAssumption
  <2>4. QED
    BY <2>1, <2>2, <2>3 DEF StateOK, OnCpu, wakeup
<1>5. state' \in [Threads -> {"RUNNABLE", "RUNNING", "SLEEPING"}]
  BY Types DEF wakeup
<1>6. Handles(c, i, cpu[c])
  BY ZenonT(60), <1>1, <1>2, <1>3, <1>4, <1>5, Types DEF Handles, wakeup
<1>7. QED
  BY <1>1, <1>2, <1>6, Fields, Handling, HandlerStep

\* clockintr() releases tickslock
LEMMA TickDoneStep ==
    ASSUME IInv, NEW c \in CPUs, TickDone(c)
    PROVE  IInv'
<1> DEFINE i == [at |-> "end", p |-> 1]
<1>1. irq[c].at = "wakeup" /\ irq' = [irq EXCEPT ![c] = i]
  BY DEF TickDone
<1>2. i \in IrqType /\ i.at = "end"
  BY SchedAssumption DEF IrqType
<1> HIDE DEF i
<1>3. Handles(c, i, pop_off(cpu[c]))
  BY ZenonT(60), <1>1, <1>2, Types DEF Handles, TickDone
<1>4. QED
  BY <1>1, <1>2, <1>3, Fields, Handling, PushType, HandlerStep

\* The handler is done and the interrupted thread yields
LEMMA InterruptYieldStep ==
    ASSUME IInv, NEW c \in CPUs, InterruptEnd(c), NEW t \in Threads, cpu[c].thread = t
    PROVE  IInv'
<1> DEFINE i == [irq[c] EXCEPT !.at = "none"]
<1>0. irq[c].at = "end" /\ cpu[c].noff = 0 /\ ~ cpu[c].intr /\ cpu[c].thread # None
  BY Handling, SlotType DEF InterruptEnd
<1>1. i \in IrqType /\ i.at = "none" /\ irq' = [irq EXCEPT ![c] = i]
  <2>1. i \in IrqType /\ i.at = "none"
    BY ZenonT(60), Fields, IrqAt
  <2>2. irq' = [irq EXCEPT ![c] = i]
    BY ZenonT(60) DEF InterruptEnd
  <2>3. QED
    BY <2>1, <2>2
<1> HIDE DEF i
<1>2. /\ kret' = [kret EXCEPT ![t] = pc[t]] /\ pc' = [pc EXCEPT ![t] = "y_take"]
      /\ cpu' = [cpu EXCEPT ![c] = push_off(cpu[c])]
      /\ UNCHANGED <<state, chan, ctx, saved, left, plock, tickslock, spos>>
  BY <1>0 DEF InterruptEnd
<1>3. /\ pc[t] \in Interruptible /\ state[t] = "RUNNING" /\ t # None
      /\ spos[c].at = "scan" /\ spos[c].p = ProcOf(t)
      /\ \A d \in CPUs \ {c} : cpu[d].thread # t
      /\ tickslock # c /\ \A p \in Procs : plock[p] # c
  BY <1>0, Handling
<1>4. PICK r \in CpuType : /\ r = push_off(cpu[c]) /\ r.thread = t /\ r.noff = 1
                           /\ ~ r.intr /\ ~ r.intena
  BY <1>0, Fields, PushType
<1>5. pc'[t] = "y_take" /\ cpu'[c] = r /\ irq'[c] = i
  BY <1>1, <1>2, <1>4, Types
<1>6. TypeOK'
  <2>1. /\ cpu' \in [CPUs -> CpuType] /\ irq' \in [CPUs -> IrqType]
        /\ pc' \in [Threads -> Pcs] /\ kret' \in [Threads -> Interruptible]
    BY <1>1, <1>2, <1>3, <1>4, Types DEF Pcs, Spinning
  <2>2. QED
    BY <1>2, <2>1 DEF IInv, TypeOK
<1>7. CpuAt("y_take", r)
  BY <1>4 DEF CpuAt, Interruptible, EnabledBefore, DisabledBefore, HasTicks
<1>8. HandlerOK(c)' /\ SchedulerOK(c)' /\ \A u \in Threads : ThreadOK(c, u)'
  BY <1>1, <1>3, <1>4, <1>5, <1>7 DEF HandlerOK, SchedulerOK, InScheduler, ThreadOK, Runs
<1>9. StateOK(t)'
  BY <1>2, <1>3, <1>4, <1>5 DEF StateOK, StateAt, OnCpu
<1>10. \A d \in CPUs \ {c} : cpu'[d] = cpu[d] /\ irq'[d] = irq[d]
  BY <1>1, <1>2, Types
<1>11. \A u \in Threads \ {t} : pc'[u] = pc[u]
  BY <1>2, Types
<1>12. /\ tickslock' = c <=> HoldsTicks(c)'
       /\ \A p \in Procs : plock'[p] = c <=> HoldsP(c, p)'
  BY <1>1, <1>2, <1>3, <1>4, <1>5 DEF HoldsTicks, HoldsP, HasTicks, HasP, Resumed
<1>13. /\ t \in Threads \cup {None}
       /\ cpu[c].thread \in {None, t} /\ cpu'[c].thread \in {None, t}
       /\ cpu'[c].thread # None => spos'[c].at = "scan" /\ spos'[c].p = ProcOf(t)
       /\ t # None => StateOK(t)' /\ pc'[t] # "stale"
  BY <1>2, <1>3, <1>4, <1>5, <1>9
<1>14. \A d \in CPUs \ {c} : /\ cpu'[d] = cpu[d] /\ spos'[d] = spos[d] /\ irq'[d] = irq[d]
                             /\ cpu[d].thread = t => t = None
                             /\ tickslock' = d <=> tickslock = d
                             /\ \A p \in Procs : plock'[p] = d <=> plock[p] = d
  BY <1>2, <1>3, <1>10
<1>15. \A u \in Threads : u # t => /\ pc'[u] = pc[u] /\ ctx'[u] = ctx[u] /\ saved'[u] = saved[u]
                                   /\ state'[u] = state[u] \/ StateOK(u)'
  BY <1>2, <1>11
<1>16. QED
  BY <1>6, <1>8, <1>12, <1>13, <1>14, <1>15, OwnStep

\* The handler is done: the interrupted thread yields, the scheduler goes on
LEMMA InterruptEndStep ==
    ASSUME IInv, NEW c \in CPUs, InterruptEnd(c)
    PROVE  IInv'
<1> DEFINE i == [irq[c] EXCEPT !.at = "none"]
<1>1. irq[c].at = "end" /\ cpu[c].noff = 0 /\ ~ cpu[c].intr
  BY Handling DEF InterruptEnd
<1>2. i \in IrqType /\ i.at = "none"
  BY ZenonT(60), Fields, IrqAt
<1>3. irq' = [irq EXCEPT ![c] = i]
  BY ZenonT(60) DEF InterruptEnd
<1> HIDE DEF i
<1>4. CASE cpu[c].thread = None
  <2>1. /\ cpu' = [cpu EXCEPT ![c] = intr_on(cpu[c])]
        /\ UNCHANGED <<state, chan, pc, ctx, saved, kret, left, plock, tickslock, spos>>
    BY <1>4 DEF InterruptEnd
  <2>2. Handles(c, i, intr_on(cpu[c]))
    BY <1>1, <1>2, <1>3, <2>1, Types DEF Handles
  <2>3. QED
    BY <1>1, <1>2, <1>4, <2>2, Fields, PushType, HandlerStep
<1>5. CASE cpu[c].thread # None
  BY <1>5, Fields, InterruptYieldStep
<1>6. QED
  BY <1>4, <1>5
-----------------------------------------------------------------------------
\* The invariant says what the panics of the lock and switching code test.
LEMMA IInvNoPanic == IInv => NoPanic /\ InterruptStateKept
<1> SUFFICES ASSUME IInv PROVE NoPanic /\ InterruptStateKept
  OBVIOUS
<1>2. InterruptStateKept
  BY Running DEF InterruptStateKept, CpuAt, Interruptible
<1>3. ASSUME NEW c \in CPUs, NEW t \in Threads, Runs(c, t)
      PROVE  /\ pc[t] \in {"swtch_slp", "swtch_y"} =>
                   /\ plock[ProcOf(t)] = c
                   /\ cpu[c].noff = 1
                   /\ state[t] # "RUNNING"
                   /\ ~ cpu[c].intr
             /\ pc[t] \in {"slp_take", "slp_retake"} => tickslock # c
             /\ pc[t] \in {"slp_ptake", "y_take"} => plock[ProcOf(t)] # c
             /\ pc[t] \in {"slp_test", "slp_rel"} => tickslock = c
             /\ pc[t] \in Resumed => plock[ProcOf(t)] = c
  BY <1>3, Running DEF HasTicks, HasP, Resumed, CpuAt, StateOK, StateAt, Interruptible
<1>4. ASSUME NEW c \in CPUs
      PROVE  /\ irq[c].at = "tick" => tickslock # c
             /\ irq[c].at = "wakeup" => tickslock = c /\ \A p \in Procs : plock[p] # c
             /\ InScheduler(c) /\ spos[c].at = "take" => plock[spos[c].p] # c
             /\ InScheduler(c) /\ spos[c].at = "scan" => plock[spos[c].p] = c
             /\ cpu[c].intr => cpu[c].noff = 0
  <2>1. irq[c].at # "none" \/ cpu[c].intr =>
            /\ irq[c].at = "tick" => tickslock # c
            /\ irq[c].at = "wakeup" => tickslock = c /\ \A p \in Procs : plock[p] # c
            /\ cpu[c].intr => cpu[c].noff = 0
    BY <1>4, Fields, Handling
  <2>2. InScheduler(c) => /\ spos[c].at = "take" => plock[spos[c].p] # c
                          /\ spos[c].at = "scan" => plock[spos[c].p] = c
    BY <1>4, Fields, Scheduling
  <2>3. QED
    BY <2>1, <2>2
<1>5. NoPanic
  BY <1>3, <1>4 DEF NoPanic
<1>6. QED
  BY <1>2, <1>5

\* Every step keeps the invariant.
LEMMA StepIInv == IInv /\ [Next]_vars => IInv'
<1> SUFFICES ASSUME IInv, [Next]_vars PROVE IInv'
  OBVIOUS
<1>1. CASE UNCHANGED vars
  BY <1>1, Stuttering
<1>2. ASSUME NEW c \in CPUs, scheduler(c) PROVE IInv'
  BY <1>2, LoopStep, ScanSpinStep, ScanTakeStep, DispatchStep, ScanReleaseStep DEF scheduler
<1>3. ASSUME NEW c \in CPUs, handler(c) PROVE IInv'
  BY <1>3, TickStep, WakeupStep, TickDoneStep, InterruptEndStep DEF handler
<1>4. ASSUME NEW c \in CPUs, NEW t \in Threads, thread(c, t) PROVE IInv'
  <2>1. CASE sched(c, t, "swtch_slp", "slp_back")
    BY <2>1, SchedStep
  <2>2. CASE sched(c, t, "swtch_y", "y_back")
    BY <2>2, SchedStep
  <2>3. CASE Spin(c, t, "slp_enter", "slp_take")
    BY <2>3, SpinStep
  <2>4. CASE Spin(c, t, "slp_woken", "slp_retake")
    BY <2>4, SpinStep
  <2>5. QED
    BY <1>4, <2>1, <2>2, <2>3, <2>4, ForkretStep, SleepTakeStep, SleepTestStep,
       SleepTakePStep, SleepReleaseStep, SleepBackStep, SleepRetakeStep, YieldStep,
       YieldBackStep, TrapReturnStep DEF thread
<1>5. QED
  BY <1>1, <1>2, <1>3, <1>4, InterruptStep, SysSleepStep DEF Next, CpuStep

\* A thread is on one CPU at a time and is resumed only from a context that was
\* saved: p->lock is held across swtch (sched, scheduler).
THEOREM SwitchesAreSafe == Spec => []OneCpuPerThread
<1>1. IInv => OneCpuPerThread
  BY DEF IInv
<1>2. QED
  BY <1>1, InitIInv, StepIInv, PTL DEF Spec

\* None of the panics of sched, acquire, release and pop_off is reached, in
\* threads, schedulers and the timer interrupt, and no CPU waits for a lock it has.
THEOREM PanicsAreUnreachable == Spec => []NoPanic
<1>1. IInv => NoPanic
  BY IInvNoPanic
<1>2. QED
  BY <1>1, InitIInv, StepIInv, PTL DEF Spec

\* sched() gives a thread its own interrupt state back on whatever CPU resumes it.
THEOREM InterruptStateSurvives == Spec => []InterruptStateKept
<1>1. IInv => InterruptStateKept
  BY IInvNoPanic
<1>2. QED
  BY <1>1, InitIInv, StepIInv, PTL DEF Spec

\* t->state tells the truth about the CPUs to whoever holds p->lock.
THEOREM StateIsTrue == Spec => []StateMatchesCpu
<1>1. IInv => StateMatchesCpu
  <2> SUFFICES ASSUME IInv, NEW t \in Threads
               PROVE  IF state[t] = "RUNNING" THEN OnCpu(t)
                      ELSE OnCpu(t) => \E c \in CPUs : cpu[c].thread = t /\ plock[ProcOf(t)] = c
    BY DEF StateMatchesCpu
  <2>1. StateOK(t)
    BY DEF IInv
  <2>2. CASE state[t] = "RUNNING"
    BY <2>1, <2>2 DEF StateOK
  <2>3. ASSUME state[t] # "RUNNING", NEW c \in CPUs, cpu[c].thread = t
        PROVE  plock[ProcOf(t)] = c
    <3>1. pc[t] \in {"swtch_slp", "swtch_y"}
      BY <2>1, <2>3 DEF StateOK, StateAt, OnCpu
    <3>2. QED
      BY <2>3, <3>1, SlotType DEF IInv, LocksMatch, HoldsP, HasP
  <2>4. QED
    BY <2>2, <2>3 DEF OnCpu
<1>2. QED
  BY <1>1, InitIInv, StepIInv, PTL DEF Spec
=============================================================================
