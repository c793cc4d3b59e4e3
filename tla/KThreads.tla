------------------------------ MODULE KThreads ------------------------------
(***************************************************************************)
(* The threads of one process slot (kernel/proc.c): allocthread,           *)
(* kthread_create, kthread_exit, kthread_join, Treparent, the thread part  *)
(* of exit() and wait(), freethread, and yield() on a timer interrupt.     *)
(* Slot 1 is p->threads[0], whose kernel stack is fixed at boot; the other *)
(* stacks come from kalloc().                                              *)
(*                                                                         *)
(* pc[k] is the execution that runs as thread k and ctx[k] the saved       *)
(* t->context: the two differ when a slot is taken again too early.        *)
(* No thread sleeps on a thread's address, because kthread_join never gets *)
(* to its sleep(): the wakeup(t) calls find nobody and are left out.       *)
(*                                                                         *)
(* Programs may call exit() while other threads run, and a slot may hold   *)
(* several processes in turn.  What a thread does once its stack and page  *)
(* table have been freed under it is not followed: the model stops there.  *)
(***************************************************************************)
EXTENDS Integers, Sequences, FiniteSets, SequencesExt

CONSTANTS
    NTHREAD,
    NPAGES,             \* pages of kalloc()
    MaxLives,           \* bound: processes that live in the slot in turn
    MaxCreates,         \* bound: calls of kthread_create in each of them
    Calls,              \* what programs call: a subset of AllCalls
    None

AllCalls == {"create", "kexit", "exit", "join"}

ASSUME KThreadsAssumption ==
    /\ {NTHREAD, NPAGES} \subseteq Nat \ {0}
    /\ {MaxLives, MaxCreates} \subseteq Nat
    /\ Calls \subseteq AllCalls

VARIABLES
    pstate,         \* p->state
    tstate,         \* t->state
    kstack,         \* t->kstack, 0 when there is none; slot 1 keeps -1
    tf,             \* t->trapframe, in bytes from p->threads->trapframe
    ctx,            \* t->context
    thread_parent,  \* t->thread_parent, 0 for NULL
    main_thread,    \* p->main_thread
    freelist,       \* kmem.freelist
    plock,          \* the thread that holds p->lock, or None
    wait_lock,      \* the thread that holds wait_lock, or None
    pc,
    new,            \* new[k]: the slot k takes in allocthread
    joined,         \* the slot the last kthread_join returned 0 for
    lives, creates,
    cwd,            \* p->cwd is not 0
    panic,          \* None, or why the kernel stopped; "two executions" and
                    \* "freed under it" are no panics, but what a thread does from
                    \* there, on a stack or a page table that others use, is open
    stray,          \* history: slots that exit() of a sibling marked while they ran,
                    \* and the threads those create
    stale,          \* history: slots that keep the t->kstack freethread freed
    twice           \* history: pages that freethread freed through such a slot

histVars == <<stray, stale, twice>>
vars == <<pstate, tstate, kstack, tf, ctx, thread_parent, main_thread, freelist,
          plock, wait_lock, pc, new, joined, lives, creates, cwd, panic, histVars>>

Slots == 1 .. NTHREAD
Pages == 1 .. NPAGES
FrameSize == 288                        \* sizeof(struct trapframe)
\* Fault: exited threads are counted.
Active_zombie == {"USED", "SLEEPING", "RUNNABLE", "RUNNING", "ZOMBIE"}

Active == {"USED", "SLEEPING", "RUNNABLE", "RUNNING"}

TypeOK ==
    /\ pstate \in {"UNUSED", "USED", "ZOMBIE"}
    /\ tstate \in [Slots -> {"UNUSED", "USED", "RUNNABLE", "RUNNING", "ZOMBIE"}]
    /\ kstack \in [Slots -> Pages \cup {-1, 0}]
    /\ \A k \in Slots : tf[k] \in Nat
    /\ ctx \in [Slots -> {"none", "forkret", "yield", "zombie exit"}]
    /\ thread_parent \in [Slots -> Slots \cup {0}]
    /\ main_thread \in Slots
    /\ \A i \in 1 .. Len(freelist) : freelist[i] \in Pages
    /\ {plock, wait_lock} \subseteq Slots \cup {None}
    /\ pc \in [Slots -> {"off", "user", "kalloc", "start", "kexit", "sched",
                         "exit", "closed", "zombie", "exit sched"}]
    /\ new \in [Slots -> Slots \cup {0}]
    /\ joined \in Slots \cup {0}
    /\ lives \in 0 .. MaxLives /\ creates \in 0 .. MaxCreates
    /\ cwd \in BOOLEAN
    /\ panic \in {None, "null thread", "release", "zombie exit", "iput", "two executions",
                   "freed under it"}
    /\ stray \subseteq Slots /\ stale \subseteq Slots \ {1} /\ twice \subseteq Pages

Init ==
    /\ pstate = "UNUSED"
    /\ tstate = [k \in Slots |-> "UNUSED"]
    /\ kstack = [k \in Slots |-> IF k = 1 THEN -1 ELSE 0]
    /\ tf = [k \in Slots |-> 0]
    /\ ctx = [k \in Slots |-> "none"]
    /\ thread_parent = [k \in Slots |-> 0]
    /\ main_thread = 1
    /\ freelist = [i \in Pages |-> i]
    /\ plock = None /\ wait_lock = None
    /\ pc = [k \in Slots |-> "off"]
    /\ new = [k \in Slots |-> 0]
    /\ joined = 0
    /\ lives = MaxLives /\ creates = MaxCreates
    /\ cwd = FALSE /\ panic = None
    /\ stray = {} /\ stale = {} /\ twice = {}

Running == panic = None
Goto(k, from, to) == Running /\ pc[k] = from /\ pc' = [pc EXCEPT ![k] = to]
-----------------------------------------------------------------------------
\* fork() by another process makes a process in this slot (Procs.tla models
\* its steps): allocproc sets up the main thread and fork() makes it runnable.
fork ==
    /\ Running /\ lives > 0 /\ pstate = "UNUSED" /\ plock = None
    /\ pstate' = "USED"
    /\ main_thread' = 1
    /\ cwd' = TRUE
    /\ tstate' = [tstate EXCEPT ![1] = "RUNNABLE"]
    /\ ctx' = [ctx EXCEPT ![1] = "forkret"]
    /\ lives' = lives - 1 /\ creates' = MaxCreates
    /\ UNCHANGED <<kstack, tf, thread_parent, freelist, plock, wait_lock, pc, new, joined, panic, histVars>>

\* scheduler() picks k under p->lock and the saved context goes on: to user
\* space from forkret or yield, to the panic after sched() from an exit.
dispatch(k) ==
    /\ Running /\ tstate[k] = "RUNNABLE" /\ plock = None
    /\ tstate' = [tstate EXCEPT ![k] = "RUNNING"]
    /\ IF pc[k] # "off" THEN panic' = "two executions" /\ UNCHANGED pc
       ELSE IF ctx[k] = "zombie exit" THEN panic' = "zombie exit" /\ UNCHANGED pc
       ELSE pc' = [pc EXCEPT ![k] = "user"] /\ UNCHANGED panic
    /\ UNCHANGED <<pstate, kstack, tf, ctx, thread_parent, main_thread, freelist, plock,
                   wait_lock, new, joined, lives, creates, cwd, histVars>>

yield(k) ==                             \* timer interrupt in user space
    /\ Goto(k, "user", "off")
    /\ plock = None
    /\ tstate' = [tstate EXCEPT ![k] = "RUNNABLE"]
    /\ ctx' = [ctx EXCEPT ![k] = "yield"]
    /\ UNCHANGED <<pstate, kstack, tf, thread_parent, main_thread, freelist, plock, wait_lock,
                   new, joined, lives, creates, panic, cwd, histVars>>
-----------------------------------------------------------------------------
\* kthread_create: allocthread takes the first free slot under p->lock.  With
\* no such slot kthread_create writes t->state through a null pointer.
allocthread(k) ==
    /\ Running /\ pc[k] = "user"
    /\ "create" \in Calls /\ creates > 0
    /\ plock = None
    /\ creates' = creates - 1
    /\ LET free == {j \in Slots : tstate[j] \in {"UNUSED", "ZOMBIE"}} IN
       IF free = {}
       THEN panic' = "null thread" /\ UNCHANGED <<tstate, thread_parent, pc, new, stray>>
       ELSE \E s \in free :
              /\ \A j \in free : s <= j
              /\ tstate' = [tstate EXCEPT ![s] = "USED"]
              /\ thread_parent' = [thread_parent EXCEPT ![s] = k]
              /\ stray' = IF k \in stray THEN stray \cup {s} ELSE stray
              /\ new' = [new EXCEPT ![k] = s]
              /\ pc' = [pc EXCEPT ![k] = "kalloc"]
              /\ UNCHANGED panic
    /\ UNCHANGED <<pstate, kstack, tf, ctx, main_thread, freelist, plock, wait_lock, joined, lives,
                   cwd, stale, twice>>

\* Fault: the page stays on the free list.
allocthread_kstack_kept(k) ==
    /\ Goto(k, "kalloc", "start")
    /\ kstack' = [kstack EXCEPT ![new[k]] = Head(freelist)]
    /\ stale' = stale \ {new[k]}
    /\ ctx' = [ctx EXCEPT ![new[k]] = "forkret"]
    /\ UNCHANGED <<pstate, tstate, tf, thread_parent, main_thread, freelist, plock, wait_lock,
                   new, joined, lives, creates, panic, cwd, stray, twice>>

\* The stack, the trapframe pointer and the context of the new thread.  Pointer
\* arithmetic scales sizeof(struct trapframe) * index by the size once more.
\* With no page left, release() finds p->lock not held.
allocthread_kstack(k) ==
    /\ Goto(k, "kalloc", "start")
    /\ IF freelist = <<>>
       THEN panic' = "release" /\ UNCHANGED <<kstack, tf, ctx, freelist, stale>>
       ELSE /\ kstack' = [kstack EXCEPT ![new[k]] = Head(freelist)]
            /\ freelist' = Tail(freelist)
            /\ tf' = [tf EXCEPT ![new[k]] = FrameSize * (FrameSize * (new[k] - 1))]
            /\ stale' = stale \ {new[k]}
            /\ ctx' = [ctx EXCEPT ![new[k]] = "forkret"]
            /\ UNCHANGED panic
    /\ UNCHANGED <<pstate, tstate, thread_parent, main_thread, plock, wait_lock, new, joined,
                   lives, creates, cwd, stray, twice>>

kthread_create(k) ==                    \* t->state = RUNNABLE, without p->lock
    /\ Goto(k, "start", "user")
    /\ tstate' = [tstate EXCEPT ![new[k]] = "RUNNABLE"]
    /\ new' = [new EXCEPT ![k] = 0]
    /\ UNCHANGED <<pstate, kstack, tf, ctx, thread_parent, main_thread, freelist, plock,
                   wait_lock, joined, lives, creates, panic, cwd, histVars>>

\* The test `UNUSED || ZOMBIE' is true of every state.  The slot keeps its tid
\* until freethread, so any slot but a free one can be named.
kthread_join(k) ==
    /\ Running /\ pc[k] = "user"
    /\ "join" \in Calls
    /\ plock = None
    /\ \E s \in Slots \ {k} :
          /\ tstate[s] # "UNUSED"
          /\ joined' = s
    /\ UNCHANGED <<pstate, tstate, kstack, tf, ctx, thread_parent, main_thread, freelist, plock,
                   wait_lock, pc, new, lives, creates, panic, cwd, histVars>>
-----------------------------------------------------------------------------
\* Fault: the process is left without a main thread.
Treparent_none(k) ==
    /\ main_thread' = IF k = main_thread THEN 0 ELSE main_thread
    /\ UNCHANGED thread_parent

\* Treparent(t) in table order: the children of a thread that is not the main
\* one go to the main thread.  The main thread's first child becomes main, so
\* that t no longer is and its other children go to that one.
Treparent(k) ==
    LET kids == {j \in Slots : thread_parent[j] = k} IN
    IF k # main_thread
    THEN /\ thread_parent' = [j \in Slots |-> IF j \in kids THEN main_thread ELSE thread_parent[j]]
         /\ UNCHANGED main_thread
    ELSE IF kids = {} THEN UNCHANGED <<thread_parent, main_thread>>
    ELSE LET first == CHOOSE j \in kids : \A i \in kids : j <= i IN
         /\ main_thread' = first
         /\ thread_parent' = [j \in Slots |-> IF j \in kids \ {first} THEN first
                                              ELSE thread_parent[j]]

kthread_exit(k) ==                      \* acquire(&wait_lock) ... t->state = ZOMBIE
    /\ Goto(k, "user", "kexit")
    /\ "kexit" \in Calls
    /\ wait_lock = None
    /\ wait_lock' = k
    /\ Treparent(k)
    /\ tstate' = [tstate EXCEPT ![k] = "ZOMBIE"]
    /\ UNCHANGED <<pstate, kstack, tf, ctx, freelist, plock, new, joined, lives, creates, panic, cwd, histVars>>

kthread_exit_last(k) ==                 \* is another thread active?
    /\ Running /\ pc[k] = "kexit"
    /\ plock = None
    /\ wait_lock' = None
    /\ IF \E j \in Slots : tstate[j] \in Active
       THEN plock' = k /\ pc' = [pc EXCEPT ![k] = "sched"]
       ELSE UNCHANGED plock /\ pc' = [pc EXCEPT ![k] = "exit"]
    /\ UNCHANGED <<pstate, tstate, kstack, tf, ctx, thread_parent, main_thread, freelist, new,
                   joined, lives, creates, panic, cwd, histVars>>

\* sched(): swtch saves the context, the scheduler releases p->lock.
exit_sched(k) ==
    /\ Running /\ pc[k] \in {"sched", "exit sched"}
    /\ pc' = [pc EXCEPT ![k] = "off"]
    /\ ctx' = [ctx EXCEPT ![k] = "zombie exit"]
    /\ plock' = None
    /\ UNCHANGED <<pstate, tstate, kstack, tf, thread_parent, main_thread, freelist, wait_lock,
                   new, joined, lives, creates, panic, cwd, histVars>>

exit(k) ==                              \* exit() called by the program
    /\ Goto(k, "user", "exit")
    /\ "exit" \in Calls
    /\ UNCHANGED <<pstate, tstate, kstack, tf, ctx, thread_parent, main_thread, freelist, plock,
                   wait_lock, new, joined, lives, creates, panic, cwd, histVars>>

\* fileclose of every file, then iput(p->cwd); p->cwd = 0, in one step: a second
\* exit() of the process that comes later passes iput() a null pointer; one that
\* overlaps with this, and closes the same files or directory twice, is left out.
exit_close(k) ==
    /\ Running /\ pc[k] = "exit"
    /\ IF cwd THEN cwd' = FALSE /\ pc' = [pc EXCEPT ![k] = "closed"] /\ UNCHANGED panic
       ELSE panic' = "iput" /\ UNCHANGED <<cwd, pc>>
    /\ UNCHANGED <<pstate, tstate, kstack, tf, ctx, thread_parent, main_thread, freelist, plock,
                   wait_lock, new, joined, lives, creates, histVars>>

\* Every slot, used or not, is marked, without p->lock.  Siblings that run on
\* other CPUs run on.
exit_threads(k) ==
    /\ Goto(k, "closed", "zombie")
    /\ wait_lock = None
    /\ wait_lock' = k
    /\ tstate' = [j \in Slots |-> "ZOMBIE"]
    /\ LET running == {j \in Slots \ {k} : pc[j] # "off"} IN
       stray' = stray \cup running \cup ({new[j] : j \in running} \ {0})
    /\ UNCHANGED <<pstate, kstack, tf, ctx, thread_parent, main_thread, freelist, plock, new,
                   joined, lives, creates, cwd, panic, stale, twice>>

\* Fault: p->lock is not held until the switch.
exit_zombie_unlocked(k) ==
    /\ Goto(k, "zombie", "exit sched")
    /\ pstate' = "ZOMBIE"
    /\ wait_lock' = None
    /\ UNCHANGED <<tstate, kstack, tf, ctx, thread_parent, main_thread, freelist, plock, new,
                   joined, lives, creates, panic, cwd, histVars>>

exit_zombie(k) ==                       \* p->state = ZOMBIE; release(&wait_lock)
    /\ Goto(k, "zombie", "exit sched")
    /\ plock = None
    /\ plock' = k
    /\ pstate' = "ZOMBIE"
    /\ wait_lock' = None
    /\ UNCHANGED <<tstate, kstack, tf, ctx, thread_parent, main_thread, freelist, new, joined,
                   lives, creates, panic, cwd, histVars>>

\* freethread of every slot of S: the stack is freed, and t->kstack kept.
freethread(S) ==
    /\ freelist' = FoldLeft(LAMBDA l, k : IF k \in S \ {1} /\ kstack[k] # 0 THEN <<kstack[k]>> \o l
                                         ELSE l, freelist, [k \in Slots |-> k])
    /\ tstate' = [k \in Slots |-> IF k \in S THEN "UNUSED" ELSE tstate[k]]
    /\ thread_parent' = [k \in Slots |-> IF k \in S THEN 0 ELSE thread_parent[k]]
    /\ tf' = [k \in Slots |-> IF k \in S THEN 0 ELSE tf[k]]

\* wait() by the parent: freethread() of every slot in use, then freeproc(),
\* which frees the page table too.
wait ==
    /\ Running /\ pstate = "ZOMBIE"
    /\ wait_lock = None /\ plock = None
    /\ LET S == {k \in Slots : tstate[k] # "UNUSED"} IN
       /\ freethread(S)
       /\ twice' = twice \cup {kstack[k] : k \in S \cap stale}
       /\ stale' = stale \cup {k \in S \ {1} : kstack[k] # 0}
    /\ pstate' = "UNUSED"
    /\ joined' = 0
    /\ stray' = {k \in stray : pc[k] # "off"}
    /\ panic' = IF \A k \in Slots : pc[k] = "off" THEN None ELSE "freed under it"
    /\ UNCHANGED <<kstack, ctx, main_thread, plock, wait_lock, pc, new, lives, creates, cwd>>
-----------------------------------------------------------------------------
Step(k) ==
    \/ dispatch(k) \/ allocthread_kstack(k) \/ kthread_create(k)
    \/ kthread_exit_last(k) \/ exit_sched(k)
    \/ exit_close(k) \/ exit_threads(k) \/ exit_zombie(k)

Call(k) == allocthread(k) \/ kthread_join(k) \/ kthread_exit(k) \/ exit(k) \/ yield(k)

Next ==
    \/ fork \/ wait
    \/ \E k \in Slots : Step(k) \/ Call(k)

Spec == Init /\ [][Next]_vars

\* Threads that can run are scheduled, locks are passed on, and programs end
\* their threads.
Fairness == \A k \in Slots : WF_vars(Step(k)) /\ SF_vars(kthread_exit(k))

FairSpec == Spec /\ Fairness
-----------------------------------------------------------------------------
\* No thread of a process that wait() has freed is still executing ("make sure
\* the child isn't still in exit() or swtch()"), so of threads that exit at the
\* same time only one has taken itself for the last and called exit().  The
\* exceptions are threads that were running when a sibling called exit(), which
\* does not wait for them, and what those create.
FreedProcessIsIdle ==
    pstate = "UNUSED" => \A k \in Slots \ stray : pc[k] = "off"

\* A page handed out as a kernel stack is not on the free list, no page is on
\* it twice, and no two threads that are active share one ("should have been
\* returned by a call to kalloc()").  The exceptions are a stack freed under a
\* thread that exit() left running, and pages freed again by a later process
\* of the slot, whose exit() marks the slot while t->kstack still names them.
StacksOwned ==
    /\ \A i, j \in 1 .. Len(freelist) :
          freelist[i] = freelist[j] => i = j \/ freelist[i] \in twice
    /\ \A k \in Slots \ stray :
          pc[k] # "off" /\ kstack[k] \notin twice =>
              \A i \in 1 .. Len(freelist) : freelist[i] # kstack[k]
    /\ \A k, m \in Slots :
          pc[k] # "off" /\ pc[m] # "off" /\ kstack[k] = kstack[m] =>
              k = m \/ kstack[k] \in twice

\* The same without the first exception: exit() leaves no thread running.
ExitStopsThreads ==
    pstate = "UNUSED" => \A k \in Slots : pc[k] = "off"

\* freethread frees each stack once.
StacksFreedOnce == twice = {}

\* An exited thread never comes back: sched() at the end of kthread_exit and
\* exit() does not return ("Jump into the scheduler, never to return").
NeverReturns == panic # "zombie exit"

\* kthread_create returns -1 when the thread table is full.
CreateFailsCleanly == panic # "null thread"

\* The trapframe that allocthread fills in is the one that usertrapret passes
\* to the trampoline: TRAPFRAME + sizeof(struct trapframe) * index.
FrameMatches ==
    \A k \in Slots : pc[k] = "user" => tf[k] = FrameSize * (k - 1)

\* kthread_join returns only when the thread it names has exited.
JoinWaits ==
    [][joined' \notin {joined, 0} => tstate[joined'] \notin Active]_vars

\* The process ends when its threads end by kthread_exit, whichever of them is
\* last and whatever else they call, unless the kernel stops.
ProcessEnds == pstate = "USED" ~> pstate # "USED" \/ panic # None
=============================================================================
