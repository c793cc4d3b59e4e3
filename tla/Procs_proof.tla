---------------------------- MODULE Procs_proof ----------------------------
(***************************************************************************)
(* Proofs about the life of processes (Procs.tla), for any number of       *)
(* processes, forks and kills.                                             *)
(***************************************************************************)
EXTENDS Procs, TLAPS

\* The provers for a leaf, in this order; the later ones serve when the machine is busy.
USE SMTT(60), ZenonT(20), SMTT(61), Z3T(62)

\* In exit() after reparent(): such a process has no children and gets none.
Exiting == {"wakeup", "threads", "lock", "sched", "gone"}

\* wait_lock is held in exit() up to the release, and in wait() while scanning
\* and until sleep() has p->lock.
HoldsLk(p) ==
    \/ pc[p] \in {"reparent", "wakeup", "threads", "lock"}
    \/ pc[p] = "scan" /\ slpc[p] \in {"out", "enter", "locked"}

LockMatches == \A p \in Procs : HoldsLk(p) <=> lk = p

\* p->lock is held by p itself, from its acquire to the switch.
PlockMatches ==
    \A p \in Procs :
        /\ plock[p] \in {p, None}
        /\ plock[p] = p <=> pc[p] = "sched" \/ slpc[p] \in {"locked", "released"}

\* p->state and where p is.
StateMatches ==
    \A p \in Procs :
        /\ pstate[p] = "UNUSED" <=> pc[p] = "none"
        /\ pstate[p] = "ZOMBIE" <=> pc[p] \in {"sched", "gone"}
        /\ slpc[p] # "out" => pc[p] = "scan"
        /\ state[p] = "SLEEPING" => slpc[p] = "switched"

\* The child that fork() creates is its own, and not started yet.
ForkOwns ==
    \A p \in Procs : pc[p] \in {"link", "start"} =>
        /\ np[p] \in Procs
        /\ pc[np[p]] = "new" /\ state[np[p]] = "USED"
        /\ parent[np[p]] = IF pc[p] = "start" THEN p ELSE None
        /\ \A q \in Procs : pc[q] \in {"link", "start"} /\ np[q] = np[p] => q = p

\* init stays, and has no parent.
InitStays ==
    /\ pc[init] \in {"user", "link", "start", "wait", "scan"}
    /\ parent[init] = None

\* Who has a parent, and who can be one.
ParentLives ==
    \A c \in Procs \ {init} :
        /\ pc[c] \notin {"none", "new"} => parent[c] # None
        /\ pc[c] = "new" /\ state[c] = "RUNNABLE" => parent[c] # None
        /\ parent[c] # None =>
              /\ pc[c] # "none"
              /\ parent[c] \in Procs
              /\ pc[parent[c]] \notin {"none", "new"} \cup Exiting

\* p went or is going to sleep in wait(), and nobody woke it since.
GoesToSleep(p) == slpc[p] \in {"enter", "locked", "released"} \/ state[p] = "SLEEPING"

\* A parent that goes to sleep has no zombie child, unless init inherited it;
\* a child that is about to become one has woken it, and holds wait_lock.
SleepsJustified ==
    \A q \in Procs :
        /\ state[q] = "SLEEPING" => chan[q] = q
        /\ GoesToSleep(q) =>
              /\ q # init => \A c \in Procs : parent[c] = q => pstate[c] # "ZOMBIE"
              /\ \A c \in Procs : parent[c] = q => pc[c] \notin {"threads", "lock"}

\* The inductive invariant.
IInv ==
    /\ TypeOK
    /\ LockMatches
    /\ PlockMatches
    /\ StateMatches
    /\ ForkOwns
    /\ InitStays
    /\ ParentLives
    /\ SleepsJustified
-----------------------------------------------------------------------------
\* Each process has one thread and is a channel; init is one of them.
LEMMA Constants ==
    /\ Threads = Procs /\ None \notin Procs /\ init \in Procs
    /\ \A p \in Procs : ProcOf[p] = p /\ p \in Chans
    /\ MaxForks \in Nat /\ MaxKills \in Nat
  BY SleepAssumption, ProcsAssumption DEF SleepAssumption, ProcsAssumption, Procs, init

\* At boot there is only init.
LEMMA InitIInv == Init => IInv
<1> SUFFICES ASSUME Init PROVE IInv
  OBVIOUS
<1> USE Constants DEF Init
<1>1. TypeOK
  BY DEF TypeOK
<1>2. LockMatches /\ PlockMatches
  BY DEF LockMatches, HoldsLk, PlockMatches
<1>3. StateMatches /\ InitStays /\ ForkOwns
  BY DEF StateMatches, InitStays, ForkOwns
<1>4. ParentLives /\ SleepsJustified
  BY DEF ParentLives, SleepsJustified, GoesToSleep
<1>5. QED
  BY <1>1, <1>2, <1>3, <1>4 DEF IInv

\* Steps that only move p between places that mean the same to everyone else,
\* and take or release wait_lock: exit() up to reparent(), wait() up to the
\* scan, and the returns of wait() that free nothing.
LEMMA MoveStep ==
  ASSUME IInv, NEW p \in Procs,
         pc[p] \in {"user", "exit", "wait", "scan"}, slpc[p] = "out",
         pc' = [pc EXCEPT ![p] = pc'[p]],
         \/ pc'[p] \in {"exit", "wait"} /\ pc[p] = "user" /\ lk' = lk
         \/ pc'[p] \in {"reparent", "scan"} /\ pc[p] \in {"exit", "wait"} /\ lk = None /\ lk' = p
         \/ pc'[p] = "user" /\ pc[p] = "scan" /\ lk' = None,
         pc'[p] \in {"exit", "reparent"} => p # init,
         UNCHANGED <<state, chan, plock, slpc, killed, pstate, parent, np, forks, kills>>
  PROVE  IInv'
<1> USE Constants DEF IInv
<1>1. TypeOK'
  BY DEF TypeOK
<1>2. LockMatches'
  BY DEF TypeOK, LockMatches, HoldsLk
<1>3. PlockMatches' /\ StateMatches' /\ InitStays'
  BY DEF TypeOK, PlockMatches, StateMatches, InitStays
<1>4. ForkOwns'
  BY DEF TypeOK, ForkOwns
<1>5. ParentLives'
  BY DEF TypeOK, ParentLives, Exiting
<1>6. SleepsJustified'
  BY DEF TypeOK, SleepsJustified, GoesToSleep
<1>7. QED
  BY <1>1, <1>2, <1>3, <1>4, <1>5, <1>6

\* allocproc() takes a slot nobody refers to.
LEMMA ForkStep ==
  ASSUME IInv, NEW p \in Procs, fork(p)
  PROVE  IInv'
<1> USE Constants DEF IInv
<1>0. PICK q \in Procs :
        /\ pc[p] = "user" /\ pstate[q] = "UNUSED"
        /\ pstate' = [pstate EXCEPT ![q] = "USED"]
        /\ state' = [state EXCEPT ![q] = "USED"]
        /\ pc' = [pc EXCEPT ![p] = "link", ![q] = "new"]
        /\ np' = [np EXCEPT ![p] = q]
        /\ forks > 0 /\ forks' = forks - 1
        /\ UNCHANGED <<chan, plock, lk, slpc, killed, parent, kills>>
  BY ZenonT(60) DEF fork, allocproc
<1>1. pc[q] = "none" /\ q # p /\ q # init /\ parent[q] = None
  BY <1>0 DEF StateMatches, InitStays, ParentLives
<1>2. pc'[p] = "link" /\ pc'[q] = "new" /\ \A r \in Procs \ {p, q} : pc'[r] = pc[r]
  BY <1>0, <1>1 DEF TypeOK
<1>3. TypeOK'
  BY <1>0 DEF TypeOK
<1>4. LockMatches' /\ PlockMatches'
  BY <1>0, <1>1, <1>2 DEF TypeOK, LockMatches, HoldsLk, PlockMatches
<1>5. StateMatches' /\ InitStays'
  BY <1>0, <1>1, <1>2 DEF TypeOK, StateMatches, InitStays
<1>6. ForkOwns'
  BY <1>0, <1>1, <1>2 DEF TypeOK, ForkOwns
<1>7. ParentLives'
  BY <1>0, <1>1, <1>2 DEF TypeOK, ParentLives, Exiting
<1>8. SleepsJustified'
  BY <1>0, <1>1, <1>2 DEF TypeOK, SleepsJustified, GoesToSleep
<1>9. QED
  BY <1>3, <1>4, <1>5, <1>6, <1>7, <1>8

\* fork() sets np->parent under wait_lock.
LEMMA LinkStep ==
  ASSUME IInv, NEW p \in Procs, fork_link(p)
  PROVE  IInv'
<1> USE Constants DEF IInv
<1> DEFINE q == np[p]
<1>0. /\ pc[p] = "link" /\ pc' = [pc EXCEPT ![p] = "start"] /\ lk = None
      /\ parent' = [parent EXCEPT ![q] = p]
      /\ UNCHANGED <<state, chan, plock, lk, slpc, killed, pstate, np, forks, kills>>
  BY DEF fork_link, Goto, sleepVars
<1>1. q \in Procs /\ pc[q] = "new" /\ q # p /\ q # init /\ state[q] = "USED"
      /\ \A r \in Procs : pc[r] \in {"link", "start"} /\ np[r] = q => r = p
  BY <1>0 DEF ForkOwns, InitStays
<1> HIDE DEF q
<1>2. TypeOK'
  BY ZenonT(60), <1>0 DEF TypeOK
<1>3. LockMatches' /\ PlockMatches'
  BY <1>0 DEF TypeOK, LockMatches, HoldsLk, PlockMatches
<1>4. StateMatches' /\ InitStays'
  BY <1>0, <1>1 DEF TypeOK, StateMatches, InitStays
<1>5. ForkOwns'
  BY <1>0, <1>1 DEF TypeOK, ForkOwns, q
<1>6. ParentLives'
  BY <1>0, <1>1 DEF TypeOK, ParentLives, Exiting
<1>7. SleepsJustified'
  BY <1>0, <1>1 DEF TypeOK, SleepsJustified, GoesToSleep, StateMatches
<1>8. QED
  BY <1>2, <1>3, <1>4, <1>5, <1>6, <1>7

\* fork() makes the child RUNNABLE under np->lock.
LEMMA StartStep ==
  ASSUME IInv, NEW p \in Procs, fork_start(p)
  PROVE  IInv'
<1> USE Constants DEF IInv
<1> DEFINE q == np[p]
<1>0. /\ pc[p] = "start" /\ pc' = [pc EXCEPT ![p] = "user"]
      /\ state' = [state EXCEPT ![q] = "RUNNABLE"] /\ np' = [np EXCEPT ![p] = None]
      /\ UNCHANGED <<chan, plock, lk, slpc, killed, pstate, parent, forks, kills>>
  BY DEF fork_start
<1>1. q \in Procs /\ pc[q] = "new" /\ q # p /\ q # init /\ parent[q] = p
      /\ \A r \in Procs : pc[r] \in {"link", "start"} /\ np[r] = q => r = p
  BY <1>0 DEF ForkOwns, InitStays
<1> HIDE DEF q
<1>2. TypeOK'
  BY ZenonT(60), <1>0 DEF TypeOK
<1>3. LockMatches' /\ PlockMatches'
  BY <1>0 DEF TypeOK, LockMatches, HoldsLk, PlockMatches
<1>4. StateMatches' /\ InitStays'
  BY <1>0, <1>1 DEF TypeOK, StateMatches, InitStays
<1>5. ForkOwns'
  BY <1>0, <1>1 DEF TypeOK, ForkOwns, q
<1>6. ParentLives'
  BY <1>0, <1>1 DEF TypeOK, ParentLives, Exiting
<1>7. SleepsJustified'
  BY <1>0, <1>1 DEF TypeOK, SleepsJustified, GoesToSleep, StateMatches
<1>8. QED
  BY <1>2, <1>3, <1>4, <1>5, <1>6, <1>7

\* The child runs for the first time.
LEMMA ForkretStep ==
  ASSUME IInv, NEW p \in Procs, forkret(p)
  PROVE  IInv'
<1> USE Constants DEF IInv
<1>0. /\ pc[p] = "new" /\ pc' = [pc EXCEPT ![p] = "user"]
      /\ state[p] = "RUNNABLE" /\ state' = [state EXCEPT ![p] = "RUNNING"]
      /\ UNCHANGED <<chan, plock, lk, slpc, killed, pstate, parent, np, forks, kills>>
  BY DEF forkret, Goto
<1>1. p # init /\ parent[p] # None
      /\ \A r \in Procs : pc[r] \in {"link", "start"} => np[r] # p
  BY <1>0 DEF ForkOwns, InitStays, ParentLives
<1>2. TypeOK'
  BY <1>0 DEF TypeOK
<1>3. LockMatches' /\ PlockMatches'
  BY <1>0 DEF TypeOK, LockMatches, HoldsLk, PlockMatches
<1>4. StateMatches' /\ InitStays'
  BY <1>0, <1>1 DEF TypeOK, StateMatches, InitStays
<1>5. ForkOwns'
  BY <1>0, <1>1 DEF TypeOK, ForkOwns
<1>6. ParentLives'
  BY <1>0, <1>1 DEF TypeOK, ParentLives, Exiting
<1>7. SleepsJustified'
  BY <1>0, <1>1 DEF TypeOK, SleepsJustified, GoesToSleep, StateMatches
<1>8. QED
  BY <1>2, <1>3, <1>4, <1>5, <1>6, <1>7

\* reparent(): p has no children any more, and keeps wait_lock.
LEMMA ReparentStep ==
  ASSUME IInv, NEW p \in Procs, reparent(p)
  PROVE  IInv'
<1> USE Constants DEF IInv
<1>0. /\ pc[p] = "reparent" /\ pc' = [pc EXCEPT ![p] = "wakeup"]
      /\ parent' = [c \in Procs |-> IF parent[c] = p THEN init ELSE parent[c]]
      /\ UNCHANGED <<chan, plock, lk, slpc, killed, pstate, np, forks, kills>>
  BY DEF reparent, Goto, wakeup_proc
<1>1. /\ state' \in [Procs -> {"UNUSED", "USED", "RUNNABLE", "RUNNING", "SLEEPING", "ZOMBIE"}]
      /\ \A u \in Procs : state'[u] = state[u] \/ (state[u] = "SLEEPING" /\ state'[u] = "RUNNABLE")
  <2>1. CASE UNCHANGED state
    BY <2>1 DEF TypeOK
  <2>2. CASE wakeup_proc(p, init, ThreadChan(init))
    BY <2>2 DEF wakeup_proc, TypeOK
  <2>3. QED
    BY <2>1, <2>2 DEF reparent
<1>2. p # init /\ lk = p /\ pc[init] # "new"
  BY <1>0 DEF InitStays, LockMatches, HoldsLk
<1>3. TypeOK'
  BY ZenonT(60), <1>0, <1>1 DEF TypeOK
<1>4. LockMatches' /\ PlockMatches'
  BY <1>0 DEF TypeOK, LockMatches, HoldsLk, PlockMatches
<1>5. StateMatches' /\ InitStays'
  BY <1>0, <1>1, <1>2 DEF TypeOK, StateMatches, InitStays
<1>6. ForkOwns'
  BY <1>0, <1>1, <1>2 DEF TypeOK, ForkOwns, StateMatches
<1>7. ParentLives'
  BY <1>0, <1>1, <1>2 DEF TypeOK, ParentLives, InitStays, StateMatches, Exiting
<1>8. \A c \in Procs : pc[c] \notin {"threads", "lock"}
  BY <1>0, <1>2 DEF LockMatches, HoldsLk
<1>9. SleepsJustified'
  BY <1>0, <1>1, <1>2, <1>8 DEF TypeOK, SleepsJustified, GoesToSleep
<1>10. QED
  BY <1>3, <1>4, <1>5, <1>6, <1>7, <1>9

\* wakeup(p->parent) under the parent's p->lock: the parent cannot be between
\* its test and its switch, because p has wait_lock.
LEMMA ExitWakeupStep ==
  ASSUME IInv, NEW p \in Procs, exit_wakeup(p)
  PROVE  IInv'
<1> USE Constants DEF IInv
<1> DEFINE q == parent[p]
<1>0. /\ pc[p] = "wakeup" /\ pc' = [pc EXCEPT ![p] = "threads"] /\ plock[q] = None
      /\ state' = [u \in Procs |->
                      IF ProcOf[u] = q /\ u # p /\ state[u] = "SLEEPING" /\ chan[u] = q
                      THEN "RUNNABLE" ELSE state[u]]
      /\ UNCHANGED <<chan, plock, lk, slpc, killed, pstate, parent, np, forks, kills>>
  BY DEF exit_wakeup, Goto, wakeup_proc
<1>1. p # init /\ lk = p
  BY <1>0 DEF InitStays, LockMatches, HoldsLk
<1>2. q \in Procs /\ q # p
  BY <1>0, <1>1 DEF ParentLives, Exiting
<1> HIDE DEF q
<1>3. \A u \in Procs : state'[u] = state[u] \/ (state[u] = "SLEEPING" /\ state'[u] = "RUNNABLE")
  BY <1>0
<1>4. state'[q] # "SLEEPING" /\ slpc[q] \notin {"enter", "locked", "released"}
  BY <1>0, <1>1, <1>2
     DEF SleepsJustified, StateMatches, LockMatches, HoldsLk, PlockMatches
<1>5. TypeOK'
  BY <1>0 DEF TypeOK
<1>6. LockMatches' /\ PlockMatches'
  BY <1>0 DEF TypeOK, LockMatches, HoldsLk, PlockMatches
<1>7. StateMatches' /\ InitStays'
  BY <1>0, <1>1, <1>3 DEF TypeOK, StateMatches, InitStays
<1>8. ForkOwns'
  BY <1>0, <1>3 DEF TypeOK, ForkOwns, StateMatches
<1>9. ParentLives'
  BY <1>0, <1>3 DEF TypeOK, ParentLives, StateMatches, Exiting
<1>10. \A c \in Procs \ {p} : pc[c] \notin {"threads", "lock"}
  BY <1>1 DEF LockMatches, HoldsLk
<1>11. SleepsJustified'
  BY <1>0, <1>3, <1>4, <1>10 DEF TypeOK, SleepsJustified, GoesToSleep, q
<1>12. QED
  BY <1>5, <1>6, <1>7, <1>8, <1>9, <1>11

\* exit() marks the threads of p; nobody else sees it.
LEMMA ExitThreadsStep ==
  ASSUME IInv, NEW p \in Procs, exit_threads(p)
  PROVE  IInv'
<1> USE Constants DEF IInv
<1>0. /\ pc[p] = "threads" /\ pc' = [pc EXCEPT ![p] = "lock"]
      /\ state' = [state EXCEPT ![p] = "ZOMBIE"]
      /\ UNCHANGED <<chan, plock, lk, slpc, killed, pstate, parent, np, forks, kills>>
  BY DEF exit_threads, Goto
<1>1. p # init
  BY <1>0 DEF InitStays
<1>2. TypeOK'
  BY <1>0 DEF TypeOK
<1>3. LockMatches' /\ PlockMatches'
  BY <1>0 DEF TypeOK, LockMatches, HoldsLk, PlockMatches
<1>4. StateMatches' /\ InitStays'
  BY <1>0, <1>1 DEF TypeOK, StateMatches, InitStays
<1>5. ForkOwns'
  BY <1>0 DEF TypeOK, ForkOwns
<1>6. ParentLives'
  BY <1>0 DEF TypeOK, ParentLives, Exiting
<1>7. SleepsJustified'
  BY <1>0 DEF TypeOK, SleepsJustified, GoesToSleep
<1>8. QED
  BY <1>2, <1>3, <1>4, <1>5, <1>6, <1>7

\* p becomes a zombie while its parent is awake.
LEMMA ExitLockStep ==
  ASSUME IInv, NEW p \in Procs, exit_lock(p)
  PROVE  IInv'
<1> USE Constants DEF IInv
<1>0. /\ pc[p] = "lock" /\ pc' = [pc EXCEPT ![p] = "sched"]
      /\ plock' = [plock EXCEPT ![p] = p]
      /\ pstate' = [pstate EXCEPT ![p] = "ZOMBIE"]
      /\ lk = p /\ lk' = None
      /\ UNCHANGED <<state, chan, slpc, killed, parent, np, forks, kills>>
  BY DEF exit_lock, Goto, release_lk
<1>1. p # init
  BY <1>0 DEF InitStays
<1>2. TypeOK'
  BY <1>0 DEF TypeOK
<1>3. LockMatches' /\ PlockMatches'
  BY <1>0 DEF TypeOK, LockMatches, HoldsLk, PlockMatches
<1>4. StateMatches' /\ InitStays'
  BY <1>0, <1>1 DEF TypeOK, StateMatches, InitStays
<1>5. ForkOwns'
  BY <1>0 DEF TypeOK, ForkOwns
<1>6. ParentLives'
  BY <1>0 DEF TypeOK, ParentLives, Exiting
<1>7. SleepsJustified'
  BY <1>0 DEF TypeOK, SleepsJustified, GoesToSleep
<1>8. QED
  BY <1>2, <1>3, <1>4, <1>5, <1>6, <1>7

\* The zombie leaves its kernel stack and the scheduler releases p->lock.
LEMMA ExitSchedStep ==
  ASSUME IInv, NEW p \in Procs, exit_sched(p)
  PROVE  IInv'
<1> USE Constants DEF IInv
<1>0. /\ pc[p] = "sched" /\ pc' = [pc EXCEPT ![p] = "gone"]
      /\ plock' = [plock EXCEPT ![p] = None]
      /\ UNCHANGED <<state, chan, lk, slpc, killed, pstate, parent, np, forks, kills>>
  BY DEF exit_sched, Goto
<1>1. p # init
  BY <1>0 DEF InitStays
<1>2. TypeOK'
  BY <1>0 DEF TypeOK
<1>3. LockMatches' /\ PlockMatches'
  BY <1>0 DEF TypeOK, LockMatches, HoldsLk, PlockMatches, StateMatches
<1>4. StateMatches' /\ InitStays'
  BY <1>0, <1>1 DEF TypeOK, StateMatches, InitStays
<1>5. ForkOwns'
  BY <1>0 DEF TypeOK, ForkOwns
<1>6. ParentLives'
  BY <1>0 DEF TypeOK, ParentLives, Exiting
<1>7. SleepsJustified'
  BY <1>0 DEF TypeOK, SleepsJustified, GoesToSleep
<1>8. QED
  BY <1>2, <1>3, <1>4, <1>5, <1>6, <1>7

\* wait() frees a zombie child, whose slot nobody else refers to.
LEMMA ReapStep ==
  ASSUME IInv, NEW p \in Procs, wait_reap(p)
  PROVE  IInv'
<1> USE Constants DEF IInv
<1>0. PICK c \in Zombies(p) :
        /\ plock[c] = None
        /\ Freed(c)
        /\ pc' = [pc EXCEPT ![p] = "user", ![c] = "none"]
  <2>1. PICK c \in Zombies(p) :
          /\ \A d \in Children(p) : d <= c => plock[d] = None
          /\ Freed(c)
          /\ pc' = [pc EXCEPT ![p] = "user", ![c] = "none"]
    BY ZenonT(60) DEF wait_reap
  <2>2. c \in Children(p) /\ c <= c
    BY DEF Zombies, Children, Procs
  <2>3. QED
    BY ZenonT(60), <2>1, <2>2
<1>1. /\ c \in Procs /\ parent[c] = p /\ pstate[c] = "ZOMBIE"
      /\ pc[p] = "scan" /\ slpc[p] = "out" /\ lk = p /\ lk' = None
      /\ UNCHANGED <<plock, slpc, np, forks, kills>>
  BY DEF wait_reap, Scanning, release_lk, Zombies, Children
<1>2. pc[c] = "gone" /\ c # p /\ c # init /\ slpc[c] = "out"
  BY <1>0, <1>1 DEF StateMatches, PlockMatches, InitStays
<1>3. \A d \in Procs : parent[d] # c
  BY <1>1, <1>2 DEF ParentLives, InitStays, Exiting
<1>4. /\ pstate' = [pstate EXCEPT ![c] = "UNUSED"] /\ state' = [state EXCEPT ![c] = "UNUSED"]
      /\ parent' = [parent EXCEPT ![c] = None]
      /\ killed' = [killed EXCEPT ![c] = FALSE] /\ chan' = [chan EXCEPT ![c] = None]
  BY <1>0 DEF Freed
<1>5. pc'[p] = "user" /\ pc'[c] = "none" /\ \A r \in Procs \ {p, c} : pc'[r] = pc[r]
  BY <1>0, <1>1, <1>2 DEF TypeOK
<1>6. TypeOK'
  BY <1>0, <1>1, <1>4 DEF TypeOK
<1>7. LockMatches' /\ PlockMatches'
  BY <1>1, <1>2, <1>5 DEF TypeOK, LockMatches, HoldsLk, PlockMatches
<1>8. StateMatches' /\ InitStays'
  BY <1>1, <1>2, <1>4, <1>5 DEF TypeOK, StateMatches, InitStays
<1>9. ForkOwns'
  BY <1>1, <1>2, <1>4, <1>5 DEF TypeOK, ForkOwns
<1>10. ParentLives'
  BY <1>1, <1>2, <1>3, <1>4, <1>5 DEF TypeOK, ParentLives, Exiting
<1>11. SleepsJustified'
  BY <1>1, <1>2, <1>3, <1>4, <1>5 DEF TypeOK, SleepsJustified, GoesToSleep
<1>12. QED
  BY <1>6, <1>7, <1>8, <1>9, <1>10, <1>11

\* wait() goes to sleep: it found no zombie, and it has wait_lock.
LEMMA WaitSleepStep ==
  ASSUME IInv, NEW p \in Procs, wait_sleep(p)
  PROVE  IInv'
<1> USE Constants DEF IInv
<1>0. /\ pc[p] = "scan" /\ slpc[p] = "out" /\ slpc' = [slpc EXCEPT ![p] = "enter"]
      /\ Zombies(p) = {}
      /\ UNCHANGED <<state, chan, plock, lk, killed, pstate, parent, pc, np, forks, kills>>
  BY DEF wait_sleep, NothingFound, Scanning, sleep_enter, procVars
<1>1. lk = p /\ \A c \in Procs : pc[c] \notin {"threads", "lock"}
  BY <1>0 DEF LockMatches, HoldsLk
<1>2. \A c \in Procs : parent[c] = p => pstate[c] # "ZOMBIE"
  BY <1>0 DEF Zombies, Children
<1>3. TypeOK'
  BY <1>0 DEF TypeOK
<1>4. LockMatches' /\ PlockMatches'
  BY <1>0 DEF TypeOK, LockMatches, HoldsLk, PlockMatches
<1>5. StateMatches' /\ InitStays'
  BY <1>0 DEF TypeOK, StateMatches, InitStays
<1>6. ForkOwns' /\ ParentLives'
  BY <1>0 DEF ForkOwns, ParentLives
<1>7. SleepsJustified'
  BY <1>0, <1>1, <1>2 DEF TypeOK, SleepsJustified, GoesToSleep
<1>8. QED
  BY <1>3, <1>4, <1>5, <1>6, <1>7

\* The steps of sleep(), on the channel that exit() wakes.
LEMMA SleepStep ==
  ASSUME IInv, NEW p \in Procs, wait_sleeps(p)
  PROVE  IInv'
<1> USE Constants DEF IInv
<1>0. pc[p] = "scan" /\ sleep_step(p, p) /\ UNCHANGED <<pstate, parent, pc, np, forks, kills>>
  BY DEF wait_sleeps, procVars
<1>1. killed' = killed /\ \A q \in Procs \ {p} : state'[q] = state[q]
  <2> USE DEF TypeOK
  <2>1. CASE sleep_lock(p) \/ sleep_release(p) \/ sleep_reacquire(p)
    BY <2>1 DEF sleep_lock, sleep_release, sleep_reacquire
  <2>2. CASE sleep_sched(p, p)
    BY <2>2 DEF sleep_sched
  <2>3. CASE resume(p)
    BY <2>3 DEF resume
  <2>4. QED
    BY <1>0, <2>1, <2>2, <2>3 DEF sleep_step
<1>2. ForkOwns' /\ ParentLives'
  <2>1. \A q \in Procs : pc[q] = "new" => state'[q] = state[q]
    BY <1>0, <1>1
  <2>2. ForkOwns'
    BY <1>0, <2>1 DEF ForkOwns
  <2>3. ParentLives'
    BY <1>0, <2>1 DEF ParentLives
  <2>4. QED
    BY <2>2, <2>3
<1>3. InitStays'
  BY <1>0 DEF InitStays
<1>4. CASE sleep_lock(p)
  <2>0. /\ slpc[p] = "enter" /\ plock' = [plock EXCEPT ![p] = p]
        /\ slpc' = [slpc EXCEPT ![p] = "locked"] /\ UNCHANGED <<state, chan, lk>>
    BY ZenonT(60), <1>4 DEF sleep_lock
  <2>1. TypeOK'
    BY <1>0, <1>1, <2>0 DEF TypeOK
  <2>2. LockMatches' /\ PlockMatches'
    BY <1>0, <2>0 DEF TypeOK, LockMatches, HoldsLk, PlockMatches
  <2>3. StateMatches' /\ SleepsJustified'
    BY <1>0, <2>0 DEF TypeOK, StateMatches, SleepsJustified, GoesToSleep
  <2>4. QED
    BY <1>2, <1>3, <2>1, <2>2, <2>3
<1>5. CASE sleep_release(p)
  <2>0. /\ slpc[p] = "locked" /\ lk = p /\ lk' = None
        /\ slpc' = [slpc EXCEPT ![p] = "released"] /\ UNCHANGED <<state, chan, plock>>
    BY <1>5 DEF sleep_release, release_lk
  <2>1. TypeOK'
    BY <1>0, <1>1, <2>0 DEF TypeOK
  <2>2. LockMatches' /\ PlockMatches'
    BY <1>0, <2>0 DEF TypeOK, LockMatches, HoldsLk, PlockMatches
  <2>3. StateMatches' /\ SleepsJustified'
    BY <1>0, <2>0 DEF TypeOK, StateMatches, SleepsJustified, GoesToSleep
  <2>4. QED
    BY <1>2, <1>3, <2>1, <2>2, <2>3
<1>6. CASE sleep_sched(p, p)
  <2>0. /\ slpc[p] = "released" /\ chan' = [chan EXCEPT ![p] = p]
        /\ state' = [state EXCEPT ![p] = "SLEEPING"]
        /\ plock' = [plock EXCEPT ![p] = None]
        /\ slpc' = [slpc EXCEPT ![p] = "switched"] /\ UNCHANGED lk
    BY ZenonT(60), <1>6 DEF sleep_sched
  <2>1. TypeOK'
    BY <1>0, <1>1, <2>0 DEF TypeOK
  <2>2. LockMatches' /\ PlockMatches'
    BY <1>0, <2>0 DEF TypeOK, LockMatches, HoldsLk, PlockMatches
  <2>3. StateMatches' /\ SleepsJustified'
    BY <1>0, <2>0 DEF TypeOK, StateMatches, SleepsJustified, GoesToSleep
  <2>4. QED
    BY <1>2, <1>3, <2>1, <2>2, <2>3
<1>7. CASE resume(p)
  <2>0. /\ slpc[p] = "switched" /\ chan' = [chan EXCEPT ![p] = None]
        /\ state' = [state EXCEPT ![p] = "RUNNING"]
        /\ slpc' = [slpc EXCEPT ![p] = "back"] /\ UNCHANGED <<plock, lk>>
    BY <1>7 DEF resume
  <2>1. TypeOK'
    BY <1>0, <1>1, <2>0 DEF TypeOK
  <2>2. LockMatches' /\ PlockMatches'
    BY <1>0, <2>0 DEF TypeOK, LockMatches, HoldsLk, PlockMatches
  <2>3. StateMatches' /\ SleepsJustified'
    BY <1>0, <2>0 DEF TypeOK, StateMatches, SleepsJustified, GoesToSleep
  <2>4. QED
    BY <1>2, <1>3, <2>1, <2>2, <2>3
<1>8. CASE sleep_reacquire(p)
  <2>0. /\ slpc[p] = "back" /\ lk = None /\ lk' = p
        /\ slpc' = [slpc EXCEPT ![p] = "out"] /\ UNCHANGED <<state, chan, plock>>
    BY <1>8 DEF sleep_reacquire, acquire_lk
  <2>1. TypeOK'
    BY <1>0, <1>1, <2>0 DEF TypeOK
  <2>2. LockMatches' /\ PlockMatches'
    BY <1>0, <2>0 DEF TypeOK, LockMatches, HoldsLk, PlockMatches
  <2>3. StateMatches' /\ SleepsJustified'
    BY <1>0, <2>0 DEF TypeOK, StateMatches, SleepsJustified, GoesToSleep
  <2>4. QED
    BY <1>2, <1>3, <2>1, <2>2, <2>3
<1> HIDE DEF IInv
<1>9. QED
  BY <1>0, <1>4, <1>5, <1>6, <1>7, <1>8 DEF sleep_step

\* kill() wakes a sleeping process under its lock.
LEMMA KillStep ==
  ASSUME IInv, NEW p \in Procs, kill(p)
  PROVE  IInv'
<1> USE Constants DEF IInv
<1>0. /\ killed' = [killed EXCEPT ![p] = TRUE] /\ kills > 0 /\ kills' = kills - 1
      /\ state' = [u \in Procs |->
                      IF ProcOf[u] = p /\ state[u] = "SLEEPING" THEN "RUNNABLE" ELSE state[u]]
      /\ UNCHANGED <<chan, plock, lk, slpc, pstate, parent, pc, np, forks>>
  BY DEF kill, kill_proc
<1>1. \A u \in Procs : state'[u] = state[u] \/ (state[u] = "SLEEPING" /\ state'[u] = "RUNNABLE")
  BY <1>0
<1>2. TypeOK'
  BY <1>0 DEF TypeOK
<1>3. LockMatches' /\ PlockMatches' /\ InitStays'
  BY <1>0 DEF LockMatches, HoldsLk, PlockMatches, InitStays
<1>4. StateMatches' /\ ForkOwns'
  BY <1>0, <1>1 DEF StateMatches, ForkOwns
<1>5. ParentLives' /\ SleepsJustified'
  BY <1>0, <1>1 DEF ParentLives, SleepsJustified, GoesToSleep, StateMatches
<1>6. QED
  BY <1>2, <1>3, <1>4, <1>5

\* Every step keeps the invariant.
LEMMA NextIInv == IInv /\ [Next]_vars => IInv'
<1> SUFFICES ASSUME IInv, [Next]_vars PROVE IInv'
  OBVIOUS
<1>1. CASE UNCHANGED vars
  <2>1. TypeOK'
    BY <1>1 DEF IInv, vars, sleepVars, procVars, TypeOK
  <2>2. LockMatches' /\ PlockMatches'
    BY <1>1 DEF IInv, vars, sleepVars, procVars, LockMatches, HoldsLk, PlockMatches
  <2>3. StateMatches' /\ ForkOwns'
    BY <1>1 DEF IInv, vars, sleepVars, procVars, StateMatches, ForkOwns
  <2>4. InitStays' /\ ParentLives'
    BY <1>1 DEF IInv, vars, sleepVars, procVars, InitStays, ParentLives
  <2>5. SleepsJustified'
    BY <1>1 DEF IInv, vars, sleepVars, procVars, SleepsJustified, GoesToSleep
  <2>6. QED
    BY <2>1, <2>2, <2>3, <2>4, <2>5 DEF IInv
<1>2. ASSUME NEW p \in Procs, pc[p] \in {"user", "exit", "wait"} PROVE slpc[p] = "out"
  BY <1>2 DEF IInv, StateMatches
<1>3. ASSUME NEW p \in Procs, NEW to, pc' = [pc EXCEPT ![p] = to]
      PROVE  pc'[p] = to /\ pc' = [pc EXCEPT ![p] = pc'[p]]
  BY <1>3 DEF IInv, TypeOK
<1>4. ASSUME NEW p \in Procs, exit(p) \/ wait(p) PROVE IInv'
  <2>1. /\ pc[p] = "user" /\ lk' = lk
        /\ \/ pc' = [pc EXCEPT ![p] = "exit"] /\ p # init
           \/ pc' = [pc EXCEPT ![p] = "wait"]
        /\ UNCHANGED <<state, chan, plock, slpc, killed, pstate, parent, np, forks, kills>>
    BY <1>4 DEF exit, wait, Goto, sleepVars
  <2>2. QED
    BY ZenonT(60), <1>2, <1>3, <2>1, MoveStep
<1>5. ASSUME NEW p \in Procs, exit_acquire(p) \/ wait_acquire(p) PROVE IInv'
  <2>1. /\ lk = None /\ lk' = p
        /\ \/ pc[p] = "exit" /\ pc' = [pc EXCEPT ![p] = "reparent"]
           \/ pc[p] = "wait" /\ pc' = [pc EXCEPT ![p] = "scan"]
        /\ UNCHANGED <<state, chan, plock, slpc, killed, pstate, parent, np, forks, kills>>
    BY <1>5 DEF exit_acquire, wait_acquire, Goto, acquire_lk
  <2>2. pc[p] = "exit" => p # init
    BY DEF IInv, InitStays
  <2>3. QED
    BY <1>2, <1>3, <2>1, <2>2, MoveStep
<1>6. ASSUME NEW p \in Procs, wait_copyout_fails(p) \/ wait_fails(p) PROVE IInv'
  <2>1. /\ pc[p] = "scan" /\ slpc[p] = "out" /\ lk' = None /\ pc' = [pc EXCEPT ![p] = "user"]
        /\ UNCHANGED <<state, chan, plock, slpc, killed, pstate, parent, np, forks, kills>>
    BY <1>6 DEF wait_copyout_fails, wait_fails, NothingFound, Scanning, release_lk
  <2>2. QED
    BY ZenonT(60), <1>3, <2>1, MoveStep
<1>7. QED
  BY <1>1, <1>4, <1>5, <1>6, ForkStep, LinkStep, StartStep, ForkretStep, ReparentStep,
     ExitWakeupStep, ExitThreadsStep, ExitLockStep, ExitSchedStep, ReapStep, WaitSleepStep,
     SleepStep, KillStep
     DEF Next, Step
-----------------------------------------------------------------------------
\* The inductive invariant holds in every reachable state of fork(), exit(),
\* wait() and kill().
THEOREM ProcsInvariant == Spec => []IInv
<1>1. QED
  BY InitIInv, NextIInv, PTL DEF Spec

\* Every process that runs or waits to be reaped has a parent that has not
\* exited.
THEOREM ParentsAreAlive == Spec => []ParentAlive
<1>1. IInv => ParentAlive
  BY DEF IInv, ParentLives, StateMatches, ParentAlive, Exiting, TypeOK
<1>2. QED
  BY <1>1, ProcsInvariant, PTL

\* wait() frees no process that is still on its kernel stack.
THEOREM FreeingIsSafe == Spec => []FreedOnlyWhenGone
<1>1. IInv => FreedOnlyWhenGone
  BY Constants DEF IInv, PlockMatches, StateMatches, FreedOnlyWhenGone
<1>2. QED
  BY <1>1, ProcsInvariant, PTL

\* No parent but init sleeps in wait() while it has a zombie child.
THEOREM ExitsAreNoticed == Spec => []NoLostChildExit
<1>1. IInv => NoLostChildExit
  BY DEF IInv, SleepsJustified, GoesToSleep, NoLostChildExit, Zombies, Children
<1>2. QED
  BY <1>1, ProcsInvariant, PTL
=============================================================================
