--------------------------- MODULE SchedInv_proof ---------------------------
(***************************************************************************)
(* The inductive invariant IInv of Sched.tla: what each lock, each CPU's   *)
(* noff and intena, and each thread's state are at each program point, for *)
(* any number of CPUs, processes and threads; what its preservation rests  *)
(* on; that the loop of scheduler preserves it, and that it holds at first.*)
(***************************************************************************)
EXTENDS Sched, TLAPS

\* The provers for a leaf, in this order; the later ones serve when the machine is busy.
USE SMTT(60), ZenonT(20), SMTT(61), Z3T(62)

\* Where a thread has p->lock, tickslock, and what its CPU remembers in intena.
HasP == {"slp_rel", "swtch_slp", "swtch_y"} \cup Resumed

HasTicks == {"slp_test", "slp_ptake", "slp_rel"}

EnabledBefore == HasTicks \cup {"slp_take", "swtch_slp", "slp_back", "slp_retake"}

DisabledBefore == {"y_take", "swtch_y", "y_back"}

\* The locks c's scheduler, thread or interrupt handler has taken.
HoldsP(c, p) ==
    IF cpu[c].thread = None THEN spos[c].at = "scan" /\ spos[c].p = p
    ELSE ProcOf(cpu[c].thread) = p /\ pc[cpu[c].thread] \in HasP

HoldsTicks(c) ==
    \/ irq[c].at = "wakeup"
    \/ cpu[c].thread # None /\ pc[cpu[c].thread] \in HasTicks

\* A lock belongs to c just when the code that c executes has taken it.
LocksMatch ==
    \A c \in CPUs : /\ tickslock = c <=> HoldsTicks(c)
                    /\ \A p \in Procs : plock[p] = c <=> HoldsP(c, p)

\* What push_off() and pop_off() have left, by where c is.
HandlerOK(c) ==
    irq[c].at # "none" =>
        /\ ~ cpu[c].intr
        /\ cpu[c].noff = IF irq[c].at = "end" THEN 0 ELSE 1
        /\ irq[c].at # "end" => ~ cpu[c].intena
        /\ IF cpu[c].thread = None THEN spos[c].at \in {"top", "want"}
           ELSE pc[cpu[c].thread] \in Interruptible

SchedulerOK(c) ==
    InScheduler(c) =>
        /\ cpu[c].noff = IF spos[c].at \in {"top", "want"} THEN 0 ELSE 1
        /\ spos[c].at \notin {"top", "want"} => ~ cpu[c].intr

\* The struct cpu r of a CPU whose thread is at location l.
CpuAt(l, r) ==
    /\ l \in Interruptible <=> r.intr
    /\ r.noff = IF l \in Interruptible \cup {"y_ret"} THEN 0
                ELSE IF l \in {"slp_ptake", "slp_rel"} THEN 2 ELSE 1
    /\ l \in EnabledBefore => r.intena
    /\ l \in DisabledBefore => ~ r.intena

\* A thread that c runs has left c's struct cpu as its location needs.
ThreadOK(c, t) == Runs(c, t) => CpuAt(pc[t], cpu[c])

\* The scheduler that switched to t is in the scan of t's process.
SwitchedTo ==
    \A c \in CPUs : cpu[c].thread # None =>
        spos[c].at = "scan" /\ spos[c].p = ProcOf(cpu[c].thread)

\* t->state while t is at a location.
StateAt(l) == IF l = "swtch_slp" THEN "SLEEPING" ELSE IF l = "swtch_y" THEN "RUNNABLE" ELSE "RUNNING"

\* A thread is on one CPU and its context is stale, or it is on none and has one.
StateOK(t) ==
    IF pc[t] = "off"
    THEN /\ ~ OnCpu(t)
         /\ ctx[t] # "stale" /\ state[t] # "RUNNING"
         /\ ctx[t] = "slp_back" => saved[t]
         /\ ctx[t] = "y_back" => ~ saved[t]
    ELSE /\ OnCpu(t)
         /\ pc[t] # "stale"
         /\ state[t] = StateAt(pc[t])

\* The inductive invariant.
IInv ==
    /\ TypeOK
    /\ OneCpuPerThread
    /\ LocksMatch
    /\ \A c \in CPUs : /\ HandlerOK(c) /\ SchedulerOK(c)
                       /\ \A t \in Threads : ThreadOK(c, t)
    /\ SwitchedTo
    /\ \A t \in Threads : StateOK(t)

\* A slot is a pair of a process and a thread number.
LEMMA SlotType == \A t \in Threads : ProcOf(t) \in Procs /\ t[2] \in 1 .. NTHREAD /\ t # None
  BY SchedAssumption DEF ProcOf, Procs

\* intr_on, intr_off, push_off and pop_off on a struct cpu.
LEMMA PushType ==
    ASSUME NEW r \in CpuType
    PROVE  /\ r.noff < 3 => push_off(r) \in CpuType
           /\ intr_on(r) \in CpuType /\ intr_off(r) \in CpuType
           /\ intr_on(r).thread = r.thread /\ intr_on(r).noff = r.noff
           /\ intr_on(r).intena = r.intena /\ intr_on(r).intr
           /\ intr_off(r).thread = r.thread /\ intr_off(r).noff = r.noff
           /\ intr_off(r).intena = r.intena /\ ~ intr_off(r).intr
           /\ push_off(r).thread = r.thread /\ push_off(r).noff = r.noff + 1 /\ ~ push_off(r).intr
           /\ push_off(r).intena = IF r.noff = 0 THEN r.intr ELSE r.intena
           /\ r.noff > 0 => pop_off(r) \in CpuType
           /\ pop_off(r).thread = r.thread /\ pop_off(r).noff = r.noff - 1
           /\ pop_off(r).intena = r.intena
           /\ r.noff = 1 /\ r.intena => pop_off(r).intr
           /\ ~ r.intr /\ ~ (r.noff = 1 /\ r.intena) => ~ pop_off(r).intr
  BY DEF CpuType, push_off, pop_off, intr_on, intr_off, Sie

\* Every variable has its type.
LEMMA Types ==
    ASSUME IInv
    PROVE  /\ pc \in [Threads -> Pcs] /\ kret \in [Threads -> Interruptible]
           /\ ctx \in [Threads -> Resumed \cup {"stale"}] /\ saved \in [Threads -> BOOLEAN]
           /\ state \in [Threads -> {"RUNNABLE", "RUNNING", "SLEEPING"}]
           /\ chan \in [Threads -> BOOLEAN] /\ left \in [Threads -> 0 .. MaxSleep]
           /\ cpu \in [CPUs -> CpuType] /\ spos \in [CPUs -> SposType] /\ irq \in [CPUs -> IrqType]
           /\ plock \in [Procs -> CPUs \cup {None}] /\ tickslock \in CPUs \cup {None}
  BY DEF IInv, TypeOK

\* A field of spos[c] and irq[c], and the thread of another CPU.
LEMMA Fields ==
    ASSUME IInv, NEW c \in CPUs
    PROVE  /\ cpu[c] \in CpuType /\ cpu[c].thread \in Threads \cup {None}
           /\ spos[c] \in SposType /\ spos[c].p \in Procs
           /\ spos[c].at \in {"top", "want", "take", "scan"}
           /\ irq[c] \in IrqType /\ irq[c].p \in 1 .. NPROC + 1
           /\ irq[c].at \in {"none", "tick", "wakeup", "end"}
<1>1. cpu[c] \in CpuType /\ spos[c] \in SposType /\ irq[c] \in IrqType
  BY Types
<1>2. QED
  BY <1>1 DEF CpuType, SposType, IrqType

\* A step of c, in which it may switch to t or away from t: it changes nothing
\* that the other CPUs and their threads rely on.
LEMMA OwnStep ==
    ASSUME IInv, TypeOK', NEW c \in CPUs, NEW t \in Threads \cup {None},
           cpu[c].thread \in {None, t}, cpu'[c].thread \in {None, t},
           t # None => StateOK(t)' /\ pc'[t] # "stale",
           \A d \in CPUs \ {c} : /\ cpu'[d] = cpu[d] /\ spos'[d] = spos[d] /\ irq'[d] = irq[d]
                                 /\ cpu[d].thread = t => t = None
                                 /\ tickslock' = d <=> tickslock = d
                                 /\ \A p \in Procs : plock'[p] = d <=> plock[p] = d,
           \A u \in Threads : u # t => /\ pc'[u] = pc[u] /\ ctx'[u] = ctx[u] /\ saved'[u] = saved[u]
                                       /\ state'[u] = state[u] \/ StateOK(u)',
           HandlerOK(c)', SchedulerOK(c)', \A u \in Threads : ThreadOK(c, u)',
           cpu'[c].thread # None => spos'[c].at = "scan" /\ spos'[c].p = ProcOf(t),
           tickslock' = c <=> HoldsTicks(c)',
           \A p \in Procs : plock'[p] = c <=> HoldsP(c, p)'
    PROVE  IInv'
<1>1. ASSUME NEW d \in CPUs \ {c}
      PROVE  /\ cpu'[d] = cpu[d] /\ spos'[d] = spos[d] /\ irq'[d] = irq[d]
             /\ cpu[d].thread # None => /\ cpu[d].thread \in Threads \ {t}
                                        /\ pc'[cpu[d].thread] = pc[cpu[d].thread]
  BY Fields
<1>2. OneCpuPerThread'
  <2>1. \A d, e \in CPUs : cpu'[d].thread = cpu'[e].thread /\ cpu'[d].thread # None => d = e
    BY <1>1 DEF IInv, OneCpuPerThread
  <2>2. \A u \in Threads : pc'[u] # "stale"
    BY SlotType DEF IInv, OneCpuPerThread
  <2>3. QED
    BY <2>1, <2>2 DEF OneCpuPerThread
<1>3. LocksMatch'
  <2>1. ASSUME NEW d \in CPUs \ {c}
        PROVE  /\ tickslock' = d <=> HoldsTicks(d)'
               /\ \A p \in Procs : plock'[p] = d <=> HoldsP(d, p)'
    <3>1. HoldsTicks(d)' <=> HoldsTicks(d)
      BY <1>1 DEF HoldsTicks
    <3>2. \A p \in Procs : HoldsP(d, p)' <=> HoldsP(d, p)
      BY <1>1 DEF HoldsP
    <3>3. QED
      BY <3>1, <3>2 DEF IInv, LocksMatch
  <2>2. QED
    BY <2>1 DEF LocksMatch
<1>4. ASSUME NEW d \in CPUs \ {c}
      PROVE  HandlerOK(d)' /\ SchedulerOK(d)' /\ \A u \in Threads : ThreadOK(d, u)'
  <2>1. HandlerOK(d)'
    BY <1>1 DEF IInv, HandlerOK
  <2>2. SchedulerOK(d)'
    BY <1>1 DEF IInv, SchedulerOK, InScheduler
  <2>3. ASSUME NEW u \in Threads PROVE ThreadOK(d, u)'
    BY <1>1, SlotType DEF IInv, ThreadOK, Runs
  <2>4. QED
    BY <2>1, <2>2, <2>3
<1>5. SwitchedTo'
  BY <1>1 DEF IInv, SwitchedTo
<1>6. ASSUME NEW u \in Threads, u # t PROVE StateOK(u)'
  <2>1. OnCpu(u)' <=> OnCpu(u)
    BY <1>1, <1>6, SlotType DEF OnCpu
  <2>2. StateOK(u) /\ pc'[u] = pc[u] /\ ctx'[u] = ctx[u] /\ saved'[u] = saved[u]
    BY <1>6 DEF IInv
  <2>3. CASE state'[u] = state[u]
    BY <2>1, <2>2, <2>3 DEF StateOK
  <2>4. QED
    BY <1>6, <2>3
<1>7. QED
  BY <1>2, <1>3, <1>4, <1>5, <1>6, SlotType DEF IInv

\* What the invariant says of a thread that c runs.
LEMMA Running ==
    ASSUME IInv, NEW c \in CPUs, NEW t \in Threads, Runs(c, t)
    PROVE  /\ cpu[c].thread = t /\ irq[c].at = "none" /\ t # None /\ ProcOf(t) \in Procs
           /\ cpu[c] \in CpuType /\ pc[t] \in Pcs
           /\ CpuAt(pc[t], cpu[c]) /\ StateOK(t) /\ pc[t] # "off"
           /\ spos[c].at = "scan" /\ spos[c].p = ProcOf(t)
           /\ \A d \in CPUs \ {c} : cpu[d].thread # t
           /\ tickslock = c <=> pc[t] \in HasTicks
           /\ \A p \in Procs : plock[p] = c <=> p = ProcOf(t) /\ pc[t] \in HasP
<1>1. cpu[c].thread = t /\ irq[c].at = "none" /\ t # None /\ ProcOf(t) \in Procs
  BY SlotType DEF Runs
<1>2. cpu[c] \in CpuType /\ pc[t] \in Pcs /\ CpuAt(pc[t], cpu[c]) /\ StateOK(t)
  BY Types DEF IInv, ThreadOK
<1>3. pc[t] # "off"
  BY <1>1, <1>2 DEF StateOK, OnCpu
<1>4. /\ spos[c].at = "scan" /\ spos[c].p = ProcOf(t)
      /\ \A d \in CPUs \ {c} : cpu[d].thread # t
  BY <1>1 DEF IInv, SwitchedTo, OneCpuPerThread
<1>5. /\ tickslock = c <=> pc[t] \in HasTicks
      /\ \A p \in Procs : plock[p] = c <=> p = ProcOf(t) /\ pc[t] \in HasP
  BY <1>1 DEF IInv, LocksMatch, HoldsTicks, HoldsP
<1>6. QED
  BY <1>1, <1>2, <1>3, <1>4, <1>5

\* What the invariant says of c when its scheduler runs.
LEMMA Scheduling ==
    ASSUME IInv, NEW c \in CPUs, InScheduler(c)
    PROVE  /\ cpu[c].thread = None /\ irq[c].at = "none" /\ SchedulerOK(c)
           /\ tickslock # c
           /\ \A p \in Procs : plock[p] = c <=> (spos[c].at = "scan" /\ spos[c].p = p)
<1>1. cpu[c].thread = None /\ irq[c].at = "none"
  BY DEF InScheduler
<1>2. QED
  BY <1>1 DEF IInv, LocksMatch, HoldsTicks, HoldsP
-----------------------------------------------------------------------------
\* The scheduler of c goes to s and leaves the struct cpu r; in the scan of a
\* process it has p->lock, which was free when it took it.
Scans(c, s, r) ==
    /\ cpu' = [cpu EXCEPT ![c] = r] /\ spos' = [spos EXCEPT ![c] = s]
    /\ plock' = [plock EXCEPT ![spos[c].p] = IF s.at = "scan" THEN c
                                             ELSE IF spos[c].at = "scan" THEN None ELSE @]
    /\ s.at = "scan" => s.p = spos[c].p /\ plock[s.p] \in {None, c}
    /\ UNCHANGED <<state, chan, pc, ctx, saved, kret, left, tickslock, irq>>

\* Such a step preserves the invariant.
LEMMA ScanStep ==
    ASSUME IInv, NEW c \in CPUs, InScheduler(c), NEW s \in SposType, NEW r \in CpuType, r.thread = None,
           r.noff = IF s.at \in {"top", "want"} THEN 0 ELSE 1, s.at \notin {"top", "want"} => ~ r.intr,
           Scans(c, s, r)
    PROVE  IInv'
<1>1. /\ cpu' \in [CPUs -> CpuType] /\ spos' \in [CPUs -> SposType]
      /\ plock' \in [Procs -> CPUs \cup {None}]
  BY Types, Fields DEF Scans
<1>2. cpu'[c] = r /\ spos'[c] = s /\ irq'[c].at = "none"
  BY Types, Scheduling DEF Scans
<1>3. TypeOK'
  BY <1>1 DEF IInv, TypeOK, Scans
<1>4. HandlerOK(c)' /\ SchedulerOK(c)' /\ \A u \in Threads : ThreadOK(c, u)'
  BY <1>2, SlotType DEF HandlerOK, SchedulerOK, ThreadOK, Runs
<1>5. \A d \in CPUs \ {c} : /\ cpu'[d] = cpu[d] /\ spos'[d] = spos[d] /\ irq'[d] = irq[d]
                            /\ tickslock' = d <=> tickslock = d
                            /\ \A p \in Procs : plock'[p] = d <=> plock[p] = d
  BY Types, Fields, Scheduling, SchedAssumption DEF Scans
<1>6. \A u \in Threads : /\ pc'[u] = pc[u] /\ ctx'[u] = ctx[u] /\ saved'[u] = saved[u]
                         /\ state'[u] = state[u]
  BY DEF Scans
<1>7. tickslock' = c <=> HoldsTicks(c)'
  BY <1>2, Scheduling DEF HoldsTicks, Scans
<1>8. \A p \in Procs : plock'[p] = c <=> HoldsP(c, p)'
  BY <1>2, Types, Fields, Scheduling, SchedAssumption DEF HoldsP, Scans
<1>9. QED
  BY <1>2, <1>3, <1>4, <1>5, <1>6, <1>7, <1>8, Scheduling, OwnStep

\* Setting spos[c].at.
LEMMA SposAt ==
    ASSUME NEW s \in SposType, NEW a \in {"top", "want", "take", "scan"}
    PROVE  [s EXCEPT !.at = a] \in SposType /\ [s EXCEPT !.at = a].at = a /\ [s EXCEPT !.at = a].p = s.p
  BY DEF SposType

\* intr_on() at the top of the scheduler's loop
LEMMA LoopStep ==
    ASSUME IInv, NEW c \in CPUs, Loop(c)
    PROVE  IInv'
<1>1. InScheduler(c) /\ spos[c].at = "top" /\ cpu[c].noff = 0 /\ cpu[c].thread = None /\ cpu[c] \in CpuType
  BY Scheduling, Fields DEF Loop, SchedulerOK
<1>2. [at |-> "want", p |-> 1, k |-> 1] \in SposType
  BY SchedAssumption DEF SposType, Procs
<1>3. Scans(c, [at |-> "want", p |-> 1, k |-> 1], intr_on(cpu[c]))
  BY <1>1, Types, Fields DEF Scans, Loop
<1>4. QED
  BY <1>1, <1>2, <1>3, ScanStep, PushType

\* acquire(&p->lock) of the scheduler: push_off()
LEMMA ScanSpinStep ==
    ASSUME IInv, NEW c \in CPUs, ScanSpin(c)
    PROVE  IInv'
<1>1. InScheduler(c) /\ spos[c].at = "want" /\ cpu[c].noff = 0 /\ cpu[c].thread = None /\ cpu[c] \in CpuType
  BY Scheduling, Fields DEF ScanSpin, SchedulerOK
<1> DEFINE s == [spos[c] EXCEPT !.at = "take"]
<1>2. s \in SposType /\ s.at = "take" /\ spos' = [spos EXCEPT ![c] = s]
  BY ZenonT(60), Fields, SposAt DEF ScanSpin
<1> HIDE DEF s
<1>3. Scans(c, s, push_off(cpu[c]))
  BY ZenonT(60), <1>1, <1>2, Types, Fields DEF Scans, ScanSpin
<1>4. QED
  BY <1>1, <1>2, <1>3, ScanStep, PushType

\* It gets the lock
LEMMA ScanTakeStep ==
    ASSUME IInv, NEW c \in CPUs, ScanTake(c)
    PROVE  IInv'
<1>1. /\ InScheduler(c) /\ spos[c].at = "take" /\ cpu[c].noff = 1 /\ ~ cpu[c].intr
      /\ cpu[c].thread = None /\ cpu[c] \in CpuType
  BY Scheduling, Fields DEF ScanTake, SchedulerOK
<1> DEFINE s == [spos[c] EXCEPT !.at = "scan"]
<1>2. s \in SposType /\ s.at = "scan" /\ s.p = spos[c].p /\ spos' = [spos EXCEPT ![c] = s]
  BY ZenonT(60), Fields, SposAt DEF ScanTake
<1> HIDE DEF s
<1>3. Scans(c, s, cpu[c])
  BY ZenonT(60), <1>1, <1>2, Types, Fields DEF Scans, ScanTake
<1>4. QED
  BY <1>1, <1>2, <1>3, ScanStep

\* No thread of the process is left to run: release(&p->lock)
LEMMA ScanReleaseStep ==
    ASSUME IInv, NEW c \in CPUs, ScanRelease(c)
    PROVE  IInv'
<1> DEFINE s == IF spos[c].p = NPROC THEN [at |-> "top", p |-> 1, k |-> 1]
                ELSE [at |-> "want", p |-> spos[c].p + 1, k |-> 1]
<1>1. InScheduler(c) /\ spos[c].at = "scan" /\ cpu[c].noff = 1 /\ cpu[c].thread = None /\ cpu[c] \in CpuType
  BY Scheduling, Fields DEF ScanRelease, SchedulerOK
<1>2. s \in SposType /\ s.at \in {"top", "want"} /\ s.at # "scan"
  BY Fields, SchedAssumption DEF SposType, Procs
<1>3. spos' = [spos EXCEPT ![c] = s]
  BY Types DEF ScanRelease
<1> HIDE DEF s
<1>4. Scans(c, s, pop_off(cpu[c]))
  BY ZenonT(60), <1>1, <1>2, <1>3, Types, Fields DEF Scans, ScanRelease
<1>5. QED
  BY <1>1, <1>2, <1>4, ScanStep, PushType
-----------------------------------------------------------------------------
\* What the booted kernel looks like satisfies the invariant.
LEMMA InitIInv == Init => IInv
<1> SUFFICES ASSUME Init PROVE IInv
  OBVIOUS
<1> USE SchedAssumption DEF Init
<1>1. TypeOK
  BY DEF TypeOK, CpuType, SposType, IrqType, Procs, Pcs, Resumed, Interruptible
<1>2. \A c \in CPUs : cpu[c].thread = None /\ cpu[c].noff = 0 /\ irq[c].at = "none" /\ spos[c].at = "top"
  BY ZenonT(60)
<1>3. OneCpuPerThread
  BY <1>2 DEF OneCpuPerThread
<1>4. LocksMatch
  BY ZenonT(60), <1>2 DEF LocksMatch, HoldsTicks, HoldsP
<1>5. \A c \in CPUs : HandlerOK(c) /\ SchedulerOK(c) /\ \A t \in Threads : ThreadOK(c, t)
  BY ZenonT(60), <1>2, SlotType DEF HandlerOK, SchedulerOK, ThreadOK, Runs
<1>6. SwitchedTo
  BY <1>2 DEF SwitchedTo
<1>7. \A t \in Threads : StateOK(t)
  BY <1>2, SlotType DEF StateOK, OnCpu
<1>8. QED
  BY <1>1, <1>3, <1>4, <1>5, <1>6, <1>7 DEF IInv

\* A step that changes nothing keeps it.
LEMMA Stuttering == IInv /\ UNCHANGED vars => IInv'
<1> SUFFICES ASSUME IInv, UNCHANGED vars PROVE IInv'
  OBVIOUS
<1>1. TypeOK'
  BY DEF IInv, vars, TypeOK
<1>2. OneCpuPerThread' /\ SwitchedTo'
  BY DEF IInv, vars, OneCpuPerThread, SwitchedTo
<1>3. LocksMatch'
  BY DEF IInv, vars, LocksMatch, HoldsTicks, HoldsP
<1>4. \A c \in CPUs : HandlerOK(c)' /\ SchedulerOK(c)'
  BY DEF IInv, vars, HandlerOK, SchedulerOK, InScheduler
<1>5. \A c \in CPUs : \A t \in Threads : ThreadOK(c, t)'
  BY DEF IInv, vars, ThreadOK, Runs
<1>6. \A t \in Threads : StateOK(t)'
  BY DEF IInv, vars, StateOK, OnCpu
<1>7. QED
  BY <1>1, <1>2, <1>3, <1>4, <1>5, <1>6 DEF IInv
=============================================================================
