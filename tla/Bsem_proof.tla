----------------------------- MODULE Bsem_proof -----------------------------
(***************************************************************************)
(* Proofs about the binary semaphores (Bsem.tla), for any number of        *)
(* processes, threads, semaphores and calls.                               *)
(***************************************************************************)
EXTENDS Bsem, TLAPS

\* The provers for a leaf, in this order; the later ones serve when the machine is busy.
USE SMTT(60), ZenonT(20), SMTT(61), Z3T(62)

\* pid_lock is held by a bsem_up in wakeup(), or by a bsem_down that is going
\* to sleep or has returned from sleep().
HoldsLk(t) ==
    \/ op[t] = "wakeup"
    \/ op[t] = "sleep" /\ slpc[t] \in {"out", "enter", "locked"}

LockMatches == \A t \in Threads : HoldsLk(t) <=> lk = t

\* p->lock is held by a thread of p between its acquire and its switch, and by
\* a fork() that fills the slot.
PlockMatches ==
    \A t \in Threads :
        /\ slpc[t] \in {"locked", "released"} => plock[ProcOf[t]] = t
        /\ op[t] = "allocpid" => next_p[t] \in Procs /\ plock[next_p[t]] = t

\* Only bsem_down sleeps, on chanel.
SleepsHere ==
    \A t \in Threads :
        /\ slpc[t] # "out" => op[t] = "sleep"
        /\ state[t] = "SLEEPING" => slpc[t] = "switched" /\ chan[t] = chanel

\* wakeup() and allocproc() start with the first process.
ScanFromStart ==
    \A t \in Threads : op[t] \notin {"wakeup", "fork", "allocpid"} => next_p[t] = 1

\* The inductive invariant.
IInv ==
    /\ TypeOK
    /\ LockMatches
    /\ PlockMatches
    /\ SleepsHere
    /\ ScanFromStart
    /\ NoLostWakeup
-----------------------------------------------------------------------------
\* The constants: threads belong to slots of the process table.
LEMMA NoneIsNoThread == None \notin Threads /\ NPROC \in Nat /\ \A t \in Threads : ProcOf[t] \in 1 .. NPROC
  BY SleepAssumption DEF SleepAssumption

\* At boot nobody sleeps and no lock is held.
LEMMA InitIInv == Init => IInv
<1> SUFFICES ASSUME Init PROVE IInv
  OBVIOUS
<1> USE SleepAssumption, BsemAssumption DEF SleepAssumption, BsemAssumption, Init, SleepInit
<1>1. SleepTypeOK
  BY DEF SleepTypeOK
<1>2. bsems \in [Sems -> {-1, 0, 1}] /\ arg \in [Threads -> Sems]
  BY DEF Sems
<1>3. TypeOK
  BY <1>1, <1>2 DEF TypeOK
<1>4. LockMatches /\ PlockMatches /\ SleepsHere /\ ScanFromStart
  BY DEF LockMatches, HoldsLk, PlockMatches, SleepsHere, ScanFromStart
<1>5. NoLostWakeup
  BY DEF NoLostWakeup, Asleep
<1>6. QED
  BY <1>3, <1>4, <1>5 DEF IInv

\* While pid_lock is free nobody sleeps for a semaphore that is not locked.
LEMMA FreeLock ==
  ASSUME IInv, lk = None, NEW i \in Sems, bsems[i] # 0
  PROVE  Asleep(i) \subseteq orphans
<1>1. \A u \in Threads : op[u] # "wakeup"
  BY NoneIsNoThread DEF IInv, LockMatches, HoldsLk
<1>2. ASSUME NEW t \in Asleep(i), t \notin orphans PROVE FALSE
  BY <1>1, <1>2 DEF IInv, NoLostWakeup
<1>3. QED
  BY <1>2

\* A program calls one of the operations.
LEMMA CallStep ==
  ASSUME IInv, NEW t \in Threads, Call(t)
  PROVE  IInv'
<1> USE DEF IInv
<1>0. PICK o \in {"alloc", "free", "down", "up", "fork"}, i \in Sems :
           op[t] = "idle" /\ op' = [op EXCEPT ![t] = o] /\ arg' = [arg EXCEPT ![t] = i]
  BY ZenonT(60) DEF Call, Goto
<1>1. UNCHANGED <<state, chan, plock, lk, slpc, killed, bsems, next_p, unused, orphans>>
      /\ calls' \in 0 .. MaxCalls
  BY BsemAssumption DEF BsemAssumption, Call, sleepVars, TypeOK
<1>2. TypeOK'
  BY <1>0, <1>1 DEF TypeOK, SleepTypeOK
<1>3. LockMatches' /\ PlockMatches' /\ SleepsHere' /\ ScanFromStart'
  BY <1>0, <1>1 DEF TypeOK, LockMatches, HoldsLk, PlockMatches, SleepsHere, ScanFromStart
<1>4. \A j \in Sems : Asleep(j)' = Asleep(j)
  BY <1>0, <1>1 DEF TypeOK, Asleep
<1>5. NoLostWakeup'
  BY <1>0, <1>1, <1>4 DEF NoLostWakeup, TypeOK
<1>6. QED
  BY <1>2, <1>3, <1>5

\* bsem_alloc initialises the first free entry under pid_lock.
LEMMA AllocStep ==
  ASSUME IInv, NEW t \in Threads, bsem_alloc(t)
  PROVE  IInv'
<1> USE DEF IInv
<1>0. /\ op[t] = "alloc" /\ op' = [op EXCEPT ![t] = "idle"] /\ lk = None
      /\ bsems' = bsems \/ \E i \in Sems : bsems[i] = -1 /\ bsems' = [bsems EXCEPT ![i] = 1]
      /\ UNCHANGED <<state, chan, plock, lk, slpc, killed, arg, next_p, calls, unused, orphans>>
  BY DEF bsem_alloc, Goto, sleepVars
<1>1. TypeOK'
  BY <1>0 DEF TypeOK, SleepTypeOK
<1>2. LockMatches' /\ PlockMatches' /\ SleepsHere' /\ ScanFromStart'
  BY <1>0 DEF TypeOK, LockMatches, HoldsLk, PlockMatches, SleepsHere, ScanFromStart
<1>3. \A j \in Sems : Asleep(j)' = Asleep(j)
  BY <1>0 DEF TypeOK, Asleep
<1>4. \A j \in Sems : bsems'[j] # 0 => bsems[j] # 0
  BY <1>0 DEF TypeOK
<1>5. \A j \in Sems : bsems'[j] # 0 => Asleep(j)' \subseteq orphans'
  BY <1>0, <1>3, <1>4, FreeLock
<1>6. NoLostWakeup'
  BY <1>5 DEF NoLostWakeup
<1>7. QED
  BY <1>1, <1>2, <1>6

\* bsem_free: whoever sleeps for the entry is orphaned from here on.
LEMMA FreeStep ==
  ASSUME IInv, NEW t \in Threads, bsem_free(t)
  PROVE  IInv'
<1> USE DEF IInv
<1>0. /\ op[t] = "free" /\ op' = [op EXCEPT ![t] = "idle"] /\ lk = None
      /\ bsems' = [bsems EXCEPT ![arg[t]] = -1]
      /\ orphans' = orphans \cup Asleep(arg[t])
      /\ UNCHANGED <<state, chan, plock, lk, slpc, killed, arg, next_p, calls, unused>>
  BY DEF bsem_free, Goto, sleepVars
<1>1. TypeOK'
  BY <1>0 DEF TypeOK, SleepTypeOK, Asleep
<1>2. LockMatches' /\ PlockMatches' /\ SleepsHere' /\ ScanFromStart'
  BY <1>0 DEF TypeOK, LockMatches, HoldsLk, PlockMatches, SleepsHere, ScanFromStart
<1>3. \A j \in Sems : Asleep(j)' = Asleep(j)
  BY <1>0 DEF TypeOK, Asleep
<1>4. \A j \in Sems : bsems'[j] # 0 => Asleep(j)' \subseteq orphans'
  BY <1>0, <1>3, FreeLock DEF TypeOK
<1>5. NoLostWakeup'
  BY <1>4 DEF NoLostWakeup
<1>6. QED
  BY <1>1, <1>2, <1>5

\* Both passes of the loop of bsem_down: t, which has pid_lock or takes it,
\* locks the semaphore or goes to sleep with pid_lock.
LEMMA DownStep ==
  ASSUME IInv, NEW t \in Threads, DownLoop(t), UNCHANGED <<state, chan, plock, killed, arg, next_p, calls, unused>>,
         \/ op[t] = "down" /\ lk = None /\ orphans' = orphans
         \/ op[t] = "sleep" /\ slpc[t] = "out" /\ orphans' = orphans \ {t}
  PROVE  IInv'
<1> USE NoneIsNoThread DEF IInv
<1>0. slpc[t] = "out" /\ op[t] # "wakeup" /\ \A u \in Threads \ {t} : ~ HoldsLk(u)
  BY DEF SleepsHere, LockMatches, HoldsLk
<1>1. CASE /\ bsems[arg[t]] = 0 /\ bsems' = bsems /\ lk' = t
           /\ op' = [op EXCEPT ![t] = "sleep"] /\ slpc' = [slpc EXCEPT ![t] = "enter"]
  <2> USE <1>1
  <2>1. TypeOK'
    BY DEF TypeOK, SleepTypeOK
  <2>2. LockMatches'
    BY <1>0 DEF TypeOK, SleepTypeOK, LockMatches, HoldsLk
  <2>3. PlockMatches' /\ SleepsHere' /\ ScanFromStart'
    BY <1>0 DEF TypeOK, SleepTypeOK, PlockMatches, SleepsHere, ScanFromStart
  <2>4. \A j \in Sems : bsems[j] # 0 => Asleep(j)' = Asleep(j) \ {t}
    BY DEF TypeOK, SleepTypeOK, Asleep
  <2>5. NoLostWakeup'
    BY <1>0, <2>4 DEF NoLostWakeup, TypeOK
  <2>6. QED
    BY <2>1, <2>2, <2>3, <2>5
<1>2. CASE /\ bsems' = [bsems EXCEPT ![arg[t]] = 0] /\ lk' = None
           /\ op' = [op EXCEPT ![t] = "idle"] /\ slpc' = slpc
  <2> USE <1>2
  <2>1. TypeOK'
    BY DEF TypeOK, SleepTypeOK
  <2>2. LockMatches'
    BY <1>0 DEF TypeOK, SleepTypeOK, LockMatches, HoldsLk
  <2>3. PlockMatches' /\ SleepsHere' /\ ScanFromStart'
    BY <1>0 DEF TypeOK, SleepTypeOK, PlockMatches, SleepsHere, ScanFromStart
  <2>4. \A j \in Sems : Asleep(j)' = Asleep(j) \ {t}
    BY <1>0 DEF TypeOK, SleepTypeOK, Asleep, SleepsHere
  <2>5. NoLostWakeup'
    BY <1>0, <2>4 DEF NoLostWakeup, TypeOK
  <2>6. QED
    BY <2>1, <2>2, <2>3, <2>5
<1>3. QED
  BY <1>1, <1>2 DEF DownLoop, sleep_enter

\* The steps of sleep(): p->lock overlaps pid_lock, so a thread that is not
\* asleep yet is still to be woken.
LEMMA SleepStep ==
  ASSUME IInv, NEW t \in Threads, bsem_down_sleeps(t)
  PROVE  IInv'
<1> USE NoneIsNoThread DEF IInv
<1>0. op[t] = "sleep" /\ sleep_step(t, chanel)
      /\ UNCHANGED <<bsems, op, arg, next_p, calls, unused, orphans>>
  BY DEF bsem_down_sleeps
<1>1. SleepTypeOK'
  <2> USE BsemAssumption DEF BsemAssumption, TypeOK, SleepTypeOK
  <2>1. CASE sleep_lock(t) \/ sleep_release(t)
    BY <2>1 DEF sleep_lock, sleep_release, release_lk
  <2>2. CASE sleep_sched(t, chanel)
    BY ZenonT(60), <2>2 DEF sleep_sched
  <2>3. CASE resume(t) \/ sleep_reacquire(t)
    BY <2>3 DEF resume, sleep_reacquire, acquire_lk
  <2>4. QED
    BY <1>0, <2>1, <2>2, <2>3 DEF sleep_step
<1>2. TypeOK'
  BY <1>0, <1>1 DEF TypeOK
<1>3. LockMatches'
  <2> USE <1>0 DEF LockMatches, HoldsLk, TypeOK, SleepTypeOK
  <2>1. CASE sleep_lock(t)
    BY <2>1 DEF sleep_lock
  <2>2. CASE sleep_release(t)
    BY <2>2 DEF sleep_release, release_lk
  <2>3. CASE sleep_sched(t, chanel)
    BY <2>3 DEF sleep_sched
  <2>4. CASE resume(t)
    BY <2>4 DEF resume
  <2>5. CASE sleep_reacquire(t)
    BY <2>5 DEF sleep_reacquire, acquire_lk
  <2>6. QED
    BY <2>1, <2>2, <2>3, <2>4, <2>5 DEF sleep_step
<1>4. PlockMatches'
  <2> USE <1>0 DEF PlockMatches, TypeOK, SleepTypeOK, Procs
  <2>1. CASE sleep_lock(t)
    BY <2>1 DEF sleep_lock
  <2>2. CASE sleep_release(t)
    BY <2>2 DEF sleep_release, release_lk
  <2>3. CASE sleep_sched(t, chanel)
    BY <2>3 DEF sleep_sched
  <2>4. CASE resume(t)
    BY <2>4 DEF resume
  <2>5. CASE sleep_reacquire(t)
    BY <2>5 DEF sleep_reacquire, acquire_lk
  <2>6. QED
    BY <2>1, <2>2, <2>3, <2>4, <2>5 DEF sleep_step
<1>5. SleepsHere' /\ ScanFromStart'
  <2> USE <1>0 DEF SleepsHere, ScanFromStart, TypeOK, SleepTypeOK
  <2>1. CASE sleep_lock(t)
    BY <2>1 DEF sleep_lock
  <2>2. CASE sleep_release(t)
    BY <2>2 DEF sleep_release, release_lk
  <2>3. CASE sleep_sched(t, chanel)
    BY <2>3 DEF sleep_sched
  <2>4. CASE resume(t)
    BY <2>4 DEF resume
  <2>5. CASE sleep_reacquire(t)
    BY <2>5 DEF sleep_reacquire, acquire_lk
  <2>6. QED
    BY <2>1, <2>2, <2>3, <2>4, <2>5 DEF sleep_step
<1>6. \A j \in Sems : Asleep(j)' \subseteq Asleep(j)
  <2> USE <1>0 DEF Asleep, SleepsHere, TypeOK, SleepTypeOK
  <2>1. CASE sleep_lock(t)
    BY <2>1 DEF sleep_lock
  <2>2. CASE sleep_release(t)
    BY <2>2 DEF sleep_release, release_lk
  <2>3. CASE sleep_sched(t, chanel)
    BY <2>3 DEF sleep_sched
  <2>4. CASE resume(t)
    BY <2>4 DEF resume
  <2>5. CASE sleep_reacquire(t)
    BY <2>5 DEF sleep_reacquire, acquire_lk
  <2>6. QED
    BY <2>1, <2>2, <2>3, <2>4, <2>5 DEF sleep_step
<1>7. NoLostWakeup'
  BY <1>0, <1>6 DEF NoLostWakeup
<1>8. QED
  BY <1>2, <1>3, <1>4, <1>5, <1>7

\* bsem_up unlocks the semaphore and starts wakeup() with pid_lock held.
LEMMA UpStep ==
  ASSUME IInv, NEW t \in Threads, bsem_up(t)
  PROVE  IInv'
<1> USE NoneIsNoThread DEF IInv
<1>0. /\ op[t] = "up" /\ op' = [op EXCEPT ![t] = "wakeup"] /\ lk = None /\ lk' = t
      /\ bsems' = [bsems EXCEPT ![arg[t]] = 1]
      /\ UNCHANGED <<state, chan, plock, slpc, killed, arg, next_p, calls, unused, orphans>>
  BY DEF bsem_up, Goto, acquire_lk
<1>1. TypeOK'
  BY <1>0 DEF TypeOK, SleepTypeOK
<1>2. LockMatches' /\ PlockMatches'
  BY <1>0 DEF TypeOK, LockMatches, HoldsLk, PlockMatches
<1>3. SleepsHere' /\ ScanFromStart'
  BY <1>0 DEF TypeOK, SleepsHere, ScanFromStart
<1>4. \A j \in Sems : Asleep(j)' \subseteq Threads
  BY DEF Asleep
<1>5. op'[t] = "wakeup" /\ next_p'[t] = 1
  BY <1>0 DEF ScanFromStart, TypeOK
<1>6. NoLostWakeup'
  BY <1>4, <1>5 DEF NoLostWakeup
<1>7. QED
  BY <1>1, <1>2, <1>3, <1>6

\* wakeup() passes a process under its lock, so it finds every thread of it
\* that is to be woken SLEEPING on chanel.
LEMMA WakeupStep ==
  ASSUME IInv, NEW t \in Threads, bsem_up_wakeup(t)
  PROVE  IInv'
<1> USE NoneIsNoThread DEF IInv
<1> DEFINE p == next_p[t]
<1>0. /\ op[t] = "wakeup" /\ p <= NPROC /\ plock[p] = None
      /\ state' = [u \in Threads |->
                      IF ProcOf[u] = p /\ u # t /\ state[u] = "SLEEPING" /\ chan[u] = chanel
                      THEN "RUNNABLE" ELSE state[u]]
      /\ next_p' = [next_p EXCEPT ![t] = p + 1]
      /\ UNCHANGED <<chan, plock, lk, slpc, killed, bsems, op, arg, calls, unused, orphans>>
  BY DEF bsem_up_wakeup, wakeup_proc
<1>1. p \in 1 .. NPROC /\ next_p \in [Threads -> 1 .. NPROC + 1]
  BY <1>0 DEF TypeOK
<1> HIDE DEF p
<1>2. TypeOK'
  BY <1>0, <1>1 DEF TypeOK, SleepTypeOK
<1>3. LockMatches' /\ PlockMatches'
  BY <1>0 DEF TypeOK, LockMatches, HoldsLk, PlockMatches
<1>4. SleepsHere' /\ ScanFromStart'
  BY <1>0, <1>1 DEF TypeOK, SleepsHere, ScanFromStart
<1>5. LockMatches /\ PlockMatches /\ SleepsHere /\ NoLostWakeup
  BY DEF IInv
<1>6. IInv' <=> TypeOK' /\ LockMatches' /\ PlockMatches' /\ SleepsHere' /\ ScanFromStart' /\ NoLostWakeup'
  BY DEF IInv
<1> HIDE DEF IInv
<1>7. \A j \in Sems : Asleep(j)' \subseteq {u \in Asleep(j) : ProcOf[u] # p}
  <2> SUFFICES ASSUME NEW j \in Sems, NEW u \in Asleep(j)' PROVE u \in Asleep(j) /\ ProcOf[u] # p
    OBVIOUS
  <2>1. u \in Asleep(j) /\ u \in Threads /\ u # t /\ op[u] = "sleep"
    BY <1>0 DEF Asleep
  <2>2. slpc[u] \in {"enter", "locked", "released"} \/ state'[u] = "SLEEPING"
    BY <1>0 DEF Asleep
  <2>3. lk = t
    BY <1>0, <1>5 DEF LockMatches, HoldsLk
  <2>4. CASE slpc[u] \in {"enter", "locked"}
    BY <1>5, <2>1, <2>3, <2>4 DEF LockMatches, HoldsLk
  <2>5. CASE slpc[u] = "released"
    BY <1>0, <1>5, <2>1, <2>5 DEF PlockMatches
  <2>6. CASE state'[u] = "SLEEPING"
    BY <1>0, <1>5, <2>1, <2>6 DEF SleepsHere
  <2>7. QED
    BY <2>1, <2>2, <2>4, <2>5, <2>6
<1>8. NoLostWakeup'
  <2> SUFFICES ASSUME NEW j \in Sems, NEW u \in Asleep(j)' \ orphans', bsems'[j] # 0
               PROVE  \E w \in Threads : op'[w] = "wakeup" /\ next_p'[w] <= ProcOf[u]
    BY DEF NoLostWakeup
  <2>1. u \in Asleep(j) \ orphans /\ ProcOf[u] # p /\ u \in Threads
    BY <1>0, <1>7 DEF Asleep
  <2>2. PICK w \in Threads : op[w] = "wakeup" /\ next_p[w] <= ProcOf[u]
    BY <1>0, <1>5, <2>1 DEF NoLostWakeup
  <2>3. w = t
    BY <1>0, <1>5, <2>2 DEF LockMatches, HoldsLk
  <2>4. next_p'[t] <= ProcOf[u]
    BY <1>0, <1>1, <2>1, <2>2, <2>3 DEF p
  <2>5. QED
    BY <1>0, <2>4
<1>9. QED
  BY <1>2, <1>3, <1>4, <1>6, <1>8

\* bsem_up returns after wakeup() passed every process.
LEMMA UpDoneStep ==
  ASSUME IInv, NEW t \in Threads, bsem_up_done(t)
  PROVE  IInv'
<1> USE NoneIsNoThread DEF IInv
<1>0. /\ op[t] = "wakeup" /\ op' = [op EXCEPT ![t] = "idle"] /\ lk = t /\ lk' = None
      /\ next_p[t] = NPROC + 1 /\ next_p' = [next_p EXCEPT ![t] = 1]
      /\ UNCHANGED <<state, chan, plock, slpc, killed, bsems, arg, calls, unused, orphans>>
  BY DEF bsem_up_done, Goto, release_lk
<1>1. TypeOK'
  BY <1>0 DEF TypeOK, SleepTypeOK
<1>2. LockMatches' /\ PlockMatches'
  BY <1>0 DEF TypeOK, LockMatches, HoldsLk, PlockMatches, SleepsHere
<1>3. SleepsHere' /\ ScanFromStart'
  BY <1>0 DEF TypeOK, SleepsHere, ScanFromStart
<1>4. \A j \in Sems : Asleep(j)' = Asleep(j) /\ Asleep(j) \subseteq Threads
  BY <1>0 DEF TypeOK, Asleep
<1>5. \A u \in Threads : op[u] = "wakeup" => u = t
  BY <1>0 DEF LockMatches, HoldsLk
<1>6. \A j \in Sems : \A u \in Asleep(j) \ orphans : bsems[j] = 0
  BY <1>0, <1>4, <1>5 DEF NoLostWakeup
<1>7. NoLostWakeup'
  BY <1>0, <1>4, <1>6 DEF NoLostWakeup
<1>8. QED
  BY <1>1, <1>2, <1>3, <1>7

\* kill() makes sleepers RUNNABLE: they sleep on or take the semaphore.
LEMMA KillStep ==
  ASSUME IInv, NEW p \in Procs, kill(p)
  PROVE  IInv'
<1> USE BsemAssumption DEF IInv, BsemAssumption
<1>0. /\ killed' = [killed EXCEPT ![p] = TRUE]
      /\ state' = [u \in Threads |->
                      IF ProcOf[u] = p /\ state[u] = "SLEEPING" THEN "RUNNABLE" ELSE state[u]]
      /\ calls > 0 /\ calls' = calls - 1
      /\ UNCHANGED <<chan, plock, lk, slpc, bsems, op, arg, next_p, unused, orphans>>
  BY DEF kill, kill_proc
<1>1. TypeOK'
  BY <1>0 DEF TypeOK, SleepTypeOK
<1>2. LockMatches' /\ PlockMatches' /\ SleepsHere' /\ ScanFromStart'
  BY <1>0 DEF LockMatches, HoldsLk, PlockMatches, SleepsHere, ScanFromStart
<1>3. \A j \in Sems : Asleep(j)' \subseteq Asleep(j)
  BY <1>0 DEF Asleep
<1>4. NoLostWakeup'
  BY <1>0, <1>3 DEF NoLostWakeup
<1>5. QED
  BY <1>1, <1>2, <1>4

\* A step of fork() keeps pid_lock, the sleepers and the scans of others.
LEMMA ForkStep ==
  ASSUME IInv, NEW t \in Threads, NEW o \in {"fork", "allocpid", "idle"},
         op[t] \in {"fork", "allocpid"}, op' = [op EXCEPT ![t] = o],
         NEW n \in 1 .. NPROC + 1, next_p' = [next_p EXCEPT ![t] = n], o = "idle" => n = 1,
         unused' \subseteq Procs, TypeOK', PlockMatches',
         UNCHANGED <<state, chan, lk, slpc, killed, bsems, arg, calls, orphans>>
  PROVE  IInv'
<1> USE DEF IInv
<1>1. LockMatches'
  BY DEF TypeOK, LockMatches, HoldsLk
<1>2. SleepsHere' /\ ScanFromStart'
  BY DEF TypeOK, SleepsHere, ScanFromStart
<1>3. \A j \in Sems : Asleep(j)' = Asleep(j)
  BY DEF TypeOK, Asleep
<1>4. \A u \in Threads : op[u] = "wakeup" => op'[u] = "wakeup" /\ next_p'[u] = next_p[u]
  BY DEF TypeOK
<1>5. NoLostWakeup'
  BY <1>3, <1>4 DEF NoLostWakeup
<1>6. QED
  BY <1>1, <1>2, <1>5

\* allocproc() passes a slot, or keeps the lock of one that is UNUSED.
LEMMA ScanStep ==
  ASSUME IInv, NEW t \in Threads, fork_scan(t)
  PROVE  IInv'
<1> USE NoneIsNoThread
<1>0. /\ op[t] = "fork" /\ next_p[t] <= NPROC /\ plock[next_p[t]] = None
      /\ UNCHANGED <<state, chan, lk, slpc, killed, bsems, arg, calls, unused, orphans>>
  BY DEF fork_scan
<1>1. next_p[t] \in Procs /\ next_p \in [Threads -> 1 .. NPROC + 1] /\ unused \subseteq Procs
  BY <1>0 DEF IInv, TypeOK, Procs
<1>2. CASE /\ op' = [op EXCEPT ![t] = "allocpid"]
           /\ plock' = [plock EXCEPT ![next_p[t]] = t] /\ next_p' = next_p
  <2>1. TypeOK'
    BY <1>0, <1>1, <1>2 DEF IInv, TypeOK, SleepTypeOK
  <2>2. PlockMatches'
    BY <1>0, <1>1, <1>2 DEF IInv, TypeOK, SleepTypeOK, PlockMatches, Procs
  <2>3. next_p' = [next_p EXCEPT ![t] = next_p[t]] /\ next_p[t] \in 1 .. NPROC + 1
    BY <1>1, <1>2
  <2>4. QED
    BY ZenonT(60), <1>0, <1>1, <1>2, <2>1, <2>2, <2>3, ForkStep
<1>3. CASE /\ op' = op /\ plock' = plock
           /\ next_p' = [next_p EXCEPT ![t] = next_p[t] + 1]
  <2>1. next_p[t] + 1 \in 1 .. NPROC + 1
    BY <1>0, <1>1
  <2>2. TypeOK'
    BY <1>0, <1>1, <1>3, <2>1 DEF IInv, TypeOK, SleepTypeOK
  <2>3. PlockMatches'
    BY <1>0, <1>1, <1>3 DEF IInv, TypeOK, PlockMatches
  <2>4. op' = [op EXCEPT ![t] = "fork"]
    BY <1>0, <1>3 DEF IInv, TypeOK
  <2>5. QED
    BY ZenonT(60), <1>0, <1>1, <1>3, <2>1, <2>2, <2>3, <2>4, ForkStep
<1>4. QED
  BY <1>2, <1>3 DEF fork_scan

\* The slot is filled, or fork() fails, and no p->lock stays held.
LEMMA ForkEndStep ==
  ASSUME IInv, NEW t \in Threads, fork_allocpid(t) \/ fork_fails(t)
  PROVE  IInv'
<1> USE NoneIsNoThread
<1>0. /\ op[t] \in {"fork", "allocpid"} /\ op' = [op EXCEPT ![t] = "idle"]
      /\ next_p' = [next_p EXCEPT ![t] = 1]
      /\ UNCHANGED <<state, chan, lk, slpc, killed, bsems, arg, calls, orphans>>
  BY DEF fork_allocpid, fork_fails, Goto, sleepVars
<1>1. unused' \subseteq Procs
  BY DEF fork_allocpid, fork_fails, IInv, TypeOK
<1>2. \/ plock' = plock
      \/ op[t] = "allocpid" /\ plock' = [plock EXCEPT ![next_p[t]] = None]
  BY DEF fork_allocpid, fork_fails, Goto, sleepVars
<1>3. TypeOK'
  BY <1>0, <1>1, <1>2 DEF IInv, TypeOK, SleepTypeOK
<1>4. PlockMatches'
  <2>1. CASE plock' = plock
    BY <1>0, <2>1 DEF IInv, TypeOK, PlockMatches
  <2>2. CASE op[t] = "allocpid" /\ plock' = [plock EXCEPT ![next_p[t]] = None]
    <3>1. plock[next_p[t]] = t /\ slpc[t] = "out"
      BY <2>2 DEF IInv, PlockMatches, SleepsHere
    <3>2. \A q \in Procs : plock[q] # t => plock'[q] = plock[q]
      BY <2>2, <3>1 DEF IInv, TypeOK, SleepTypeOK
    <3>3. \A u \in Threads \ {t} : op'[u] = op[u] /\ next_p'[u] = next_p[u]
      BY <1>0 DEF IInv, TypeOK
    <3>4. op'[t] = "idle"
      BY <1>0 DEF IInv, TypeOK
    <3>5. PlockMatches
      BY DEF IInv
    <3>6. ASSUME NEW u \in Threads, slpc'[u] \in {"locked", "released"}
          PROVE  plock'[ProcOf[u]] = u
      BY <1>0, <3>1, <3>2, <3>5, <3>6 DEF PlockMatches, Procs
    <3>7. ASSUME NEW u \in Threads, op'[u] = "allocpid"
          PROVE  next_p'[u] \in Procs /\ plock'[next_p'[u]] = u
      BY <3>2, <3>3, <3>4, <3>5, <3>7 DEF PlockMatches
    <3>8. QED
      BY <3>6, <3>7 DEF PlockMatches
  <2>3. QED
    BY <1>2, <2>1, <2>2
<1>5. 1 \in 1 .. NPROC + 1
  BY SleepAssumption DEF SleepAssumption
<1>6. QED
  BY ZenonT(60), <1>0, <1>1, <1>3, <1>4, <1>5, ForkStep

\* Every step keeps the invariant.
LEMMA NextIInv == IInv /\ [Next]_vars => IInv'
<1> SUFFICES ASSUME IInv, [Next]_vars PROVE IInv'
  OBVIOUS
<1>1. CASE UNCHANGED vars
  <2>1. TypeOK'
    BY <1>1 DEF IInv, vars, sleepVars, TypeOK, SleepTypeOK
  <2>2. LockMatches' /\ PlockMatches'
    BY <1>1 DEF IInv, vars, sleepVars, LockMatches, HoldsLk, PlockMatches
  <2>3. SleepsHere' /\ ScanFromStart'
    BY <1>1 DEF IInv, vars, sleepVars, SleepsHere, ScanFromStart
  <2>4. NoLostWakeup'
    BY <1>1 DEF IInv, vars, sleepVars, NoLostWakeup, Asleep
  <2>5. QED
    BY <2>1, <2>2, <2>3, <2>4 DEF IInv
<1>2. ASSUME NEW t \in Threads, bsem_down(t) \/ bsem_down_again(t) PROVE IInv'
  BY <1>2, DownStep DEF bsem_down, bsem_down_again
<1>3. ASSUME NEW u \in Threads, kill(ProcOf[u]) PROVE IInv'
  BY <1>3, KillStep, NoneIsNoThread DEF Procs
<1>4. QED
  BY <1>1, <1>2, <1>3, CallStep, AllocStep, FreeStep, SleepStep, UpStep, WakeupStep,
     UpDoneStep, ScanStep, ForkEndStep
     DEF Next, Step

\* A thread that waits for a semaphore that was unlocked is about to be woken.
THEOREM WakeupsArrive == Spec => []NoLostWakeup
<1>1. IInv => NoLostWakeup
  BY DEF IInv
<1>2. QED
  BY <1>1, InitIInv, NextIInv, PTL DEF Spec
-----------------------------------------------------------------------------
\* The call as its caller sees it.
Seen ==
    [t \in Threads |->
        IF op[t] \in {"idle", "fork", "allocpid"} THEN <<"idle", 0>>
        ELSE IF op[t] = "wakeup" THEN <<"done", 0>>
        ELSE IF op[t] = "sleep" THEN <<"down", arg[t]>>
        ELSE <<op[t], arg[t]>>]

\* A step of t changes only the call of t.
LEMMA OnlyMine ==
  ASSUME NEW t \in Threads, TypeOK, NEW o, op' = [op EXCEPT ![t] = o], UNCHANGED arg
  PROVE  /\ o = "idle" => Seen' = [Seen EXCEPT ![t] = <<"idle", 0>>]
         /\ o = "wakeup" => Seen' = [Seen EXCEPT ![t] = <<"done", 0>>]
  BY ZenonT(60) DEF Seen, TypeOK

\* The initial states agree.
LEMMA InitRefines == Init => S!AtomicInit
  BY DEF Init, S!AtomicInit, S!BsemInit, S!idle, Sems, S!Sems

\* A call is invoked; a fork() is not seen.
LEMMA CallRefines ==
  ASSUME TypeOK, NEW t \in Threads, Call(t)
  PROVE  S!Invoke(t) \/ UNCHANGED <<bsems, Seen>>
<1>1. PICK o \in {"alloc", "free", "down", "up", "fork"}, i \in Sems :
           op[t] = "idle" /\ op' = [op EXCEPT ![t] = o] /\ arg' = [arg EXCEPT ![t] = i]
  BY ZenonT(60) DEF Call, Goto
<1>2. Seen[t] = <<"idle", 0>>
  BY ZenonT(60), <1>1 DEF Seen, TypeOK
<1>3. UNCHANGED bsems
  BY DEF Call
<1>4. CASE o = "fork"
  BY <1>1, <1>3, <1>4 DEF Seen, TypeOK
<1>5. CASE o \in {"alloc", "free", "down", "up"}
  <2>1. Seen' = [Seen EXCEPT ![t] = <<o, i>>]
    BY ZenonT(60), <1>1, <1>5 DEF Seen, TypeOK
  <2>2. QED
    BY ZenonT(60), <1>2, <1>3, <1>5, <2>1
       DEF S!Invoke, S!Becomes, S!idle, Seen, Sems, S!Sems
<1>6. QED
  BY <1>4, <1>5

\* bsem_alloc takes the first free semaphore, or fails.
LEMMA AllocRefines ==
  ASSUME TypeOK, NEW t \in Threads, bsem_alloc(t)
  PROVE  S!Effect(t) /\ S!Becomes(t, S!idle)
<1>1. Seen[t] = <<"alloc", arg[t]>> /\ Seen' = [Seen EXCEPT ![t] = <<"idle", 0>>]
  BY ZenonT(60), OnlyMine DEF bsem_alloc, Goto, Seen
<1>2. S!bsem_alloc_fails \/ \E j \in S!Sems : S!bsem_alloc(j)
  BY BsemAssumption
     DEF bsem_alloc, S!bsem_alloc_fails, S!bsem_alloc, Sems, S!Sems, BsemAssumption
<1>3. Seen[t][1] = "alloc"
  BY <1>1
<1>4. QED
  BY ZenonT(60), <1>1, <1>2, <1>3 DEF S!Effect, S!Becomes, S!idle, Seen

\* bsem_free is one atomic step.
LEMMA FreeRefines ==
  ASSUME TypeOK, NEW t \in Threads, bsem_free(t)
  PROVE  S!Effect(t) /\ S!Becomes(t, S!idle)
<1>1. Seen[t] = <<"free", arg[t]>> /\ Seen' = [Seen EXCEPT ![t] = <<"idle", 0>>]
  BY ZenonT(60), OnlyMine DEF bsem_free, Goto, Seen
<1>2. S!bsem_free(arg[t])
  BY DEF bsem_free, S!bsem_free
<1>3. Seen[t][1] = "free" /\ Seen[t][2] = arg[t]
  BY <1>1
<1>4. QED
  BY ZenonT(60), <1>1, <1>2, <1>3 DEF S!Effect, S!Becomes, S!idle, Seen

\* bsem_down takes effect when it leaves the loop; going back to sleep is not
\* seen.
LEMMA DownRefines ==
  ASSUME TypeOK, NEW t \in Threads, op[t] \in {"down", "sleep"}, DownLoop(t), UNCHANGED arg
  PROVE  \/ UNCHANGED <<bsems, Seen>>
         \/ S!Effect(t) /\ S!Becomes(t, S!idle)
<1>1. CASE op' = [op EXCEPT ![t] = "sleep"] /\ bsems' = bsems
  BY <1>1 DEF Seen, TypeOK
<1>2. CASE /\ bsems[arg[t]] # 0 /\ op' = [op EXCEPT ![t] = "idle"]
           /\ bsems' = [bsems EXCEPT ![arg[t]] = 0]
  <2>1. Seen[t] = <<"down", arg[t]>> /\ Seen' = [Seen EXCEPT ![t] = <<"idle", 0>>]
    BY ZenonT(60), <1>2, OnlyMine DEF Seen
  <2>2. S!bsem_down(arg[t])
    BY <1>2 DEF S!bsem_down
  <2>3. Seen[t][1] = "down" /\ Seen[t][2] = arg[t]
    BY <2>1
  <2>4. QED
    BY ZenonT(60), <2>1, <2>2, <2>3 DEF S!Effect, S!Becomes, S!idle, Seen
<1>3. QED
  BY <1>1, <1>2 DEF DownLoop

\* bsem_up takes effect when it sets the value to 1.
LEMMA UpRefines ==
  ASSUME TypeOK, NEW t \in Threads, bsem_up(t)
  PROVE  S!Effect(t) /\ S!Becomes(t, S!done)
<1>1. Seen[t] = <<"up", arg[t]>> /\ Seen' = [Seen EXCEPT ![t] = <<"done", 0>>]
  BY ZenonT(60), OnlyMine DEF bsem_up, Goto, Seen
<1>2. S!bsem_up(arg[t])
  BY DEF bsem_up, S!bsem_up
<1>3. Seen[t][1] = "up" /\ Seen[t][2] = arg[t]
  BY <1>1
<1>4. QED
  BY ZenonT(60), <1>1, <1>2, <1>3 DEF S!Effect, S!Becomes, S!done, Seen

\* The return of bsem_up.
LEMMA UpDoneRefines ==
  ASSUME TypeOK, NEW t \in Threads, bsem_up_done(t)
  PROVE  S!AtomicNext
<1>1. Seen[t] = <<"done", 0>> /\ Seen' = [Seen EXCEPT ![t] = <<"idle", 0>>] /\ bsems' = bsems
  BY ZenonT(60), OnlyMine DEF bsem_up_done, Goto, Seen
<1>2. QED
  BY ZenonT(60), <1>1 DEF S!AtomicNext, S!Becomes, S!idle, S!done, Seen

\* Every step is a step of the atomic semaphores or is not seen.
LEMMA StepRefines ==
  ASSUME TypeOK, [Next]_vars
  PROVE  S!AtomicNext \/ UNCHANGED <<bsems, Seen>>
<1>1. CASE UNCHANGED vars
  BY <1>1 DEF vars, Seen
<1>2. ASSUME NEW t \in Threads, bsem_down_sleeps(t) \/ bsem_up_wakeup(t)
      PROVE  UNCHANGED <<bsems, Seen>>
  BY <1>2 DEF bsem_down_sleeps, bsem_up_wakeup, Seen
<1>3. ASSUME NEW u \in Threads, kill(ProcOf[u]) PROVE UNCHANGED <<bsems, Seen>>
  BY <1>3 DEF kill, Seen
<1>4. ASSUME NEW t \in Threads, bsem_down(t) \/ bsem_down_again(t)
      PROVE  S!AtomicNext \/ UNCHANGED <<bsems, Seen>>
  BY <1>4, DownRefines DEF bsem_down, bsem_down_again, S!AtomicNext
<1>5. ASSUME NEW t \in Threads, Call(t) \/ bsem_alloc(t) \/ bsem_free(t) \/ bsem_up(t)
      PROVE  S!AtomicNext \/ UNCHANGED <<bsems, Seen>>
  BY <1>5, CallRefines, AllocRefines, FreeRefines, UpRefines DEF S!AtomicNext
<1>6. ASSUME NEW t \in Threads, fork_scan(t) \/ fork_allocpid(t) \/ fork_fails(t)
      PROVE  UNCHANGED <<bsems, Seen>>
  <2>1. UNCHANGED <<bsems, arg>> /\ op[t] \in {"fork", "allocpid"}
    BY <1>6 DEF fork_scan, fork_allocpid, fork_fails, Goto
  <2>2. op' = op \/ op' = [op EXCEPT ![t] = "allocpid"] \/ op' = [op EXCEPT ![t] = "idle"]
    BY <1>6 DEF fork_scan, fork_allocpid, fork_fails, Goto
  <2>3. QED
    BY <2>1, <2>2 DEF Seen, TypeOK
<1>7. QED
  BY <1>1, <1>2, <1>3, <1>4, <1>5, <1>6, UpDoneRefines DEF Next, Step

\* The kernel's semaphores are atomic for their callers, however many threads,
\* processes and semaphores there are.
THEOREM BsemRefinement == Spec => ImplementsBsem
<1>1. IInv => TypeOK
  BY DEF IInv
<1>2. TypeOK /\ [Next]_vars =>
        [S!AtomicNext]_<<bsems, [t \in Threads |->
                                  IF op[t] \in {"idle", "fork", "allocpid"} THEN <<"idle", 0>>
                                  ELSE IF op[t] = "wakeup" THEN <<"done", 0>>
                                  ELSE IF op[t] = "sleep" THEN <<"down", arg[t]>>
                                  ELSE <<op[t], arg[t]>>]>>
  BY StepRefines DEF Seen
<1>3. QED
  BY <1>1, <1>2, InitRefines, InitIInv, NextIInv, PTL
     DEF Spec, ImplementsBsem, S!AtomicSafety
=============================================================================
