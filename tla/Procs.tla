------------------------------- MODULE Procs -------------------------------
(***************************************************************************)
(* The life of processes (kernel/proc.c): allocproc, fork, exit, reparent, *)
(* wait, freeproc and kill, for processes of one thread; process 1 is      *)
(* init.  The condition lock lk is wait_lock, and a process is the name of *)
(* its only thread.  KThreads.tla models the threads of one process.       *)
(***************************************************************************)
EXTENDS SleepWakeup, FiniteSets

CONSTANTS
    MaxForks,           \* bound: forks made in all
    MaxKills            \* bound: kills made in all

ASSUME ProcsAssumption ==
    /\ Threads = Procs
    /\ \A p \in Procs : ProcOf[p] = p /\ {p, -p} \subseteq Chans
    /\ MaxForks \in Nat /\ MaxKills \in Nat

VARIABLES
    pstate,     \* p->state
    parent,     \* p->parent
    pc,         \* pc[p]: where the thread of p is
    np,         \* np[p]: the child p is creating in fork()
    forks,
    kills

procVars == <<pstate, parent, pc, np, forks, kills>>
vars == <<sleepVars, procVars>>

init == 1                               \* initproc
ThreadChan(p) == -p                     \* the address of p->main_thread; p's own is p
Children(p) == {c \in Procs : parent[c] = p}
Zombies(p) == {c \in Children(p) : pstate[c] = "ZOMBIE"}

TypeOK ==
    /\ state \in [Procs -> {"UNUSED", "USED", "RUNNABLE", "RUNNING", "SLEEPING", "ZOMBIE"}]
    /\ chan \in [Procs -> Chans \cup {None}]
    /\ plock \in [Procs -> Procs \cup {None}]
    /\ lk \in Procs \cup {None}
    /\ slpc \in [Procs -> {"out", "enter", "locked", "released", "switched", "back"}]
    /\ killed \in [Procs -> BOOLEAN]
    /\ pstate \in [Procs -> {"UNUSED", "USED", "ZOMBIE"}]
    /\ parent \in [Procs -> Procs \cup {None}]
    /\ pc \in [Procs -> {"none", "new", "user", "link", "start", "wait", "scan",
                         "exit", "reparent", "wakeup", "threads", "lock", "sched", "gone"}]
    /\ np \in [Procs -> Procs \cup {None}]
    /\ forks \in 0 .. MaxForks /\ kills \in 0 .. MaxKills

Init ==                                 \* procinit, userinit
    /\ state = [p \in Procs |-> IF p = init THEN "RUNNING" ELSE "UNUSED"]
    /\ chan = [p \in Procs |-> None]
    /\ plock = [p \in Procs |-> None]
    /\ lk = None
    /\ slpc = [p \in Procs |-> "out"]
    /\ killed = [p \in Procs |-> FALSE]
    /\ pstate = [p \in Procs |-> IF p = init THEN "USED" ELSE "UNUSED"]
    /\ parent = [p \in Procs |-> None]
    /\ pc = [p \in Procs |-> IF p = init THEN "user" ELSE "none"]
    /\ np = [p \in Procs |-> None]
    /\ forks = MaxForks /\ kills = MaxKills

Goto(p, from, to) == pc[p] = from /\ pc' = [pc EXCEPT ![p] = to]

\* The first UNUSED slot, taken under its lock, and the copying done before
\* that lock is released.  wakeup() and kill() take the lock of every slot, so
\* it has to be free; they change nothing in an UNUSED one.  Under it allocpid
\* takes pid_lock, which only other allocpid calls hold in this module; the
\* calls that hold it across wakeup() are in Bsem.tla.
allocproc(p, q) ==
    /\ pstate[q] = "UNUSED"
    /\ plock[q] = None
    /\ \A r \in Procs : pstate[r] = "UNUSED" => q <= r
    /\ pstate' = [pstate EXCEPT ![q] = "USED"]
    /\ state' = [state EXCEPT ![q] = "USED"]
    /\ pc' = [pc EXCEPT ![p] = "link", ![q] = "new"]
    /\ np' = [np EXCEPT ![p] = q]

fork(p) ==
    /\ pc[p] = "user" /\ ~ killed[p]
    /\ forks > 0
    /\ forks' = forks - 1
    /\ \E q \in Procs : allocproc(p, q)
    /\ UNCHANGED <<chan, plock, lk, slpc, killed, parent, kills>>

fork_link(p) ==                         \* np->parent = p, under wait_lock
    /\ Goto(p, "link", "start")
    /\ lk = None
    /\ parent' = [parent EXCEPT ![np[p]] = p]
    /\ UNCHANGED <<sleepVars, pstate, np, forks, kills>>

fork_start(p) ==                        \* main_thread->state = RUNNABLE, under np->lock
    /\ pc[p] = "start"
    /\ plock[np[p]] = None
    /\ state' = [state EXCEPT ![np[p]] = "RUNNABLE"]
    /\ pc' = [pc EXCEPT ![p] = "user"]
    /\ np' = [np EXCEPT ![p] = None]
    /\ UNCHANGED <<chan, plock, lk, slpc, killed, pstate, parent, forks, kills>>

forkret(p) ==                           \* the child is scheduled
    /\ Goto(p, "new", "user")
    /\ state[p] = "RUNNABLE"
    /\ plock[p] = None
    /\ state' = [state EXCEPT ![p] = "RUNNING"]
    /\ UNCHANGED <<chan, plock, lk, slpc, killed, pstate, parent, np, forks, kills>>
-----------------------------------------------------------------------------
\* exit(), called by the program or by usertrap() when p->killed is set.
exit(p) ==
    /\ p # init                         \* panic("init exiting")
    /\ Goto(p, "user", "exit")
    /\ UNCHANGED <<sleepVars, pstate, parent, np, forks, kills>>

exit_acquire(p) ==
    /\ Goto(p, "exit", "reparent")
    /\ acquire_lk(p)
    /\ UNCHANGED <<state, chan, plock, slpc, killed, pstate, parent, np, forks, kills>>

\* Fault: children are given to a thread instead of a process.
reparent_thread(p) ==
    /\ Goto(p, "reparent", "wakeup")
    /\ parent' = [c \in Procs |-> IF parent[c] = p THEN ThreadChan(init) ELSE parent[c]]
    /\ UNCHANGED <<sleepVars, pstate, np, forks, kills>>

\* Fault: children keep their parent.
reparent_skipped(p) ==
    /\ Goto(p, "reparent", "wakeup")
    /\ UNCHANGED <<sleepVars, pstate, parent, np, forks, kills>>

\* reparent(p): wait_lock is held, so no one sees p->parent change in parts.
reparent(p) ==
    /\ Goto(p, "reparent", "wakeup")
    /\ parent' = [c \in Procs |-> IF parent[c] = p THEN init ELSE parent[c]]
    /\ IF Children(p) = {} THEN UNCHANGED <<state, chan, plock, slpc, killed>>
       ELSE wakeup_proc(p, init, ThreadChan(init))
    /\ UNCHANGED <<lk, pstate, np, forks, kills>>

\* Fault: the parent is not woken.
exit_wakeup_skipped(p) ==
    /\ Goto(p, "wakeup", "threads")
    /\ UNCHANGED <<sleepVars, pstate, parent, np, forks, kills>>

\* Fault: wakeup(p->parent->main_thread), as reparent() has it.
exit_wakeup_thread(p) ==
    /\ Goto(p, "wakeup", "threads")
    /\ wakeup_proc(p, parent[p], ThreadChan(parent[p]))
    /\ UNCHANGED <<lk, pstate, parent, np, forks, kills>>

\* wakeup(p->parent): only the parent itself sleeps on its own address.
exit_wakeup(p) ==
    /\ Goto(p, "wakeup", "threads")
    /\ wakeup_proc(p, parent[p], parent[p])
    /\ UNCHANGED <<lk, pstate, parent, np, forks, kills>>

\* t->state = ZOMBIE, without p->lock; nobody sleeps on this thread.
exit_threads(p) ==
    /\ Goto(p, "threads", "lock")
    /\ state' = [state EXCEPT ![p] = "ZOMBIE"]
    /\ UNCHANGED <<chan, plock, lk, slpc, killed, pstate, parent, np, forks, kills>>

\* Fault: p->lock is not held until the switch.
exit_lock_skipped(p) ==
    /\ Goto(p, "lock", "sched")
    /\ pstate' = [pstate EXCEPT ![p] = "ZOMBIE"]
    /\ release_lk(p)
    /\ UNCHANGED <<state, chan, plock, slpc, killed, parent, np, forks, kills>>

exit_lock(p) ==                         \* acquire(&p->lock) ... release(&wait_lock)
    /\ Goto(p, "lock", "sched")
    /\ plock[p] = None
    /\ plock' = [plock EXCEPT ![p] = p]
    /\ pstate' = [pstate EXCEPT ![p] = "ZOMBIE"]
    /\ release_lk(p)
    /\ UNCHANGED <<state, chan, slpc, killed, parent, np, forks, kills>>

exit_sched(p) ==                        \* the scheduler releases p->lock
    /\ Goto(p, "sched", "gone")
    /\ plock' = [plock EXCEPT ![p] = None]
    /\ UNCHANGED <<state, chan, lk, slpc, killed, pstate, parent, np, forks, kills>>
-----------------------------------------------------------------------------
wait(p) ==
    /\ Goto(p, "user", "wait")
    /\ ~ killed[p]
    /\ UNCHANGED <<sleepVars, pstate, parent, np, forks, kills>>

wait_acquire(p) ==
    /\ Goto(p, "wait", "scan")
    /\ acquire_lk(p)
    /\ UNCHANGED <<state, chan, plock, slpc, killed, pstate, parent, np, forks, kills>>

Scanning(p) == pc[p] = "scan" /\ slpc[p] = "out"

\* freeproc and freethread of the child that wait() found.
Freed(c) ==
    /\ pstate' = [pstate EXCEPT ![c] = "UNUSED"]
    /\ state' = [state EXCEPT ![c] = "UNUSED"]
    /\ parent' = [parent EXCEPT ![c] = None]
    /\ killed' = [killed EXCEPT ![c] = FALSE]
    /\ chan' = [chan EXCEPT ![c] = None]

\* The first zombie child in table order; the scan holds wait_lock, and waits
\* for the lock of every child up to that one.
wait_reap(p) ==
    /\ Scanning(p)
    /\ \E c \in Zombies(p) :
          /\ \A d \in Zombies(p) : c <= d
          /\ \A d \in Children(p) : d <= c => plock[d] = None
          /\ Freed(c)
          /\ pc' = [pc EXCEPT ![p] = "user", ![c] = "none"]
    /\ release_lk(p)
    /\ UNCHANGED <<plock, slpc, np, forks, kills>>

\* The zombie stays for a later wait(); init passes no address.
wait_copyout_fails(p) ==
    /\ Scanning(p)
    /\ p # init
    /\ \E c \in Zombies(p) : \A d \in Children(p) : d <= c => plock[d] = None
    /\ release_lk(p)
    /\ pc' = [pc EXCEPT ![p] = "user"]
    /\ UNCHANGED <<state, chan, plock, slpc, killed, pstate, parent, np, forks, kills>>

NothingFound(p) ==
    /\ Scanning(p)
    /\ Zombies(p) = {}
    /\ \A d \in Children(p) : plock[d] = None

wait_fails(p) ==                        \* no children, or killed: return -1
    /\ NothingFound(p)
    /\ Children(p) = {} \/ killed[p]
    /\ release_lk(p)
    /\ pc' = [pc EXCEPT ![p] = "user"]
    /\ UNCHANGED <<state, chan, plock, slpc, killed, pstate, parent, np, forks, kills>>

\* p->killed is read without p->lock; sleep() takes that lock afterwards.
wait_sleep(p) ==
    /\ NothingFound(p)
    /\ Children(p) # {} /\ ~ killed[p]
    /\ sleep_enter(p)
    /\ UNCHANGED <<state, chan, plock, lk, killed, procVars>>

wait_sleeps(p) ==
    /\ pc[p] = "scan"
    /\ sleep_step(p, p)
    /\ UNCHANGED procVars
-----------------------------------------------------------------------------
\* kill(pid, SIGKILL) of any process in use but init, from any other process.
kill(p) ==
    /\ kills > 0
    /\ kills' = kills - 1
    /\ p # init /\ pstate[p] # "UNUSED" /\ ~ killed[p]
    /\ kill_proc(p)
    /\ UNCHANGED <<pstate, parent, pc, np, forks>>

\* The kernel's steps, which follow once the program has made its call, and
\* the exit that usertrap() makes for a killed process.
Step(p) ==
    \/ fork_link(p) \/ fork_start(p) \/ forkret(p)
    \/ exit_acquire(p) \/ reparent(p) \/ exit_wakeup(p) \/ exit_threads(p)
    \/ exit_lock(p) \/ exit_sched(p)
    \/ wait_acquire(p) \/ wait_reap(p) \/ wait_copyout_fails(p)
    \/ wait_fails(p) \/ wait_sleep(p) \/ wait_sleeps(p)
    \/ killed[p] /\ exit(p)

Next ==
    \/ \E p \in Procs : fork(p) \/ exit(p) \/ wait(p) \/ Step(p)
    \/ \E p \in Procs : kill(p)

Spec == Init /\ [][Next]_vars

\* Threads that can run are scheduled, a thread that spins for a lock that is
\* released again and again gets it, and init calls wait() again and again
\* (user/init.c).
Fairness ==
    /\ \A p \in Procs : SF_vars(Step(p))
    /\ WF_vars(wait(init))

FairSpec == Spec /\ Fairness
-----------------------------------------------------------------------------
\* Between fork() linking it and wait() freeing it, a process always has a
\* parent that has not exited, so there is always someone to reap it: exit()
\* hands its children to init in the same wait_lock section in which it
\* becomes a zombie.
ParentAlive ==
    \A c \in Procs \ {init} :
        /\ pstate[c] # "UNUSED" /\ pc[c] # "new" => parent[c] # None
        /\ parent[c] # None => pstate[parent[c]] = "USED" /\ pc[parent[c]] # "gone"

\* A zombie whose p->lock is free has left its kernel stack for good: wait()
\* never frees a process that is still in exit() or swtch().
FreedOnlyWhenGone ==
    \A c \in Procs :
        pstate[c] = "ZOMBIE" /\ plock[c] = None => pc[c] = "gone"

\* No process other than init is asleep in wait() while it has a zombie child:
\* exit() wakes the parent and becomes a zombie under one hold of wait_lock.
NoLostChildExit ==
    \A q \in Procs \ {init} : state[q] = "SLEEPING" => Zombies(q) = {}

\* A process other than init that is in wait() while it has a zombie child
\* returns from wait().
WaitReturns ==
    \A q \in Procs \ {init} :
        (pc[q] \in {"wait", "scan"} /\ Zombies(q) # {}) ~> (pc[q] \notin {"wait", "scan"})

\* A zombie that init has inherited is reaped: wait() in init returns if a
\* parentless process exits.
OrphansReaped ==
    \A c \in Procs :
        (pstate[c] = "ZOMBIE" /\ parent[c] = init) ~> (pstate[c] = "UNUSED")

\* kill() wakes its victim: no killed process stays asleep.
KillWakes ==
    \A p \in Procs : (killed[p] /\ state[p] = "SLEEPING") ~> (state[p] # "SLEEPING")
=============================================================================
