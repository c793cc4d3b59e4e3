-------------------------------- MODULE Csem --------------------------------
(***************************************************************************)
(* user/Csemaphore.c: a counting semaphore made of two binary ones.        *)
(*                                                                         *)
(* bsem1 protects the field count.  bsem2 is the gate: csem_down passes it *)
(* before it looks at count, and whoever leaves count positive reopens it. *)
(* Threads of one process share the structure, so each load and store of   *)
(* count and each system call on a binary semaphore is a step of its own.  *)
(***************************************************************************)
EXTENDS BsemSpec

CONSTANTS
    Threads,
    InitCounts,         \* the arguments of csem_alloc considered
    bsem1, bsem2,       \* the two entries csem_alloc obtained
    MaxCalls            \* bound: calls each thread makes

ASSUME CsemAssumption ==
    /\ InitCounts \subseteq Nat
    /\ MaxCalls \in Nat
    /\ bsem1 \in Sems /\ bsem2 \in Sems /\ bsem1 # bsem2

VARIABLES
    count,      \* sem->count
    pc,         \* pc[t]: where t is in csem_down (d1..d7) or csem_up (u1..u6)
    reg,        \* reg[t]: the value t loaded from sem->count
    calls       \* calls[t]: calls t may still make (bounded by MaxCalls)

vars == <<bsems, count, pc, reg, calls>>

DownPcs == {"d1", "d2", "d3", "d4", "d5", "d6", "d7"}
UpPcs   == {"u1", "u2", "u3", "u4", "u5", "u6"}

TypeOK ==
    /\ BsemTypeOK
    /\ count \in Int
    /\ pc \in [Threads -> {"idle"} \cup DownPcs \cup UpPcs]
    /\ reg \in [Threads -> Int]
    /\ calls \in [Threads -> 0 .. MaxCalls]

\* Fault: the gate is given the count instead of 0 or 1.
csem_alloc_count(c) == [i \in Sems |-> IF i = bsem1 THEN 1 ELSE IF i = bsem2 THEN c ELSE -1]

\* Fault: the gate is left open when the count is 0.
csem_alloc_open(c) == [i \in Sems |-> IF i \in {bsem1, bsem2} THEN 1 ELSE -1]

\* The semaphores csem_alloc leaves behind: bsem_alloc twice, then bsem_down
\* of the gate when the count is 0.
csem_alloc(c) ==
    [i \in Sems |-> IF i = bsem1 THEN 1
                    ELSE IF i = bsem2 THEN IF c = 0 THEN 0 ELSE 1
                    ELSE -1]

Init ==
    /\ count \in InitCounts
    /\ bsems = csem_alloc(count)
    /\ pc = [t \in Threads |-> "idle"]
    /\ reg = [t \in Threads |-> 0]
    /\ calls = [t \in Threads |-> MaxCalls]

Goto(t, from, to) == pc[t] = from /\ pc' = [pc EXCEPT ![t] = to]

Call(t) ==
    /\ calls[t] > 0
    /\ \E first \in {"d1", "u1"} : Goto(t, "idle", first)
    /\ calls' = [calls EXCEPT ![t] = @ - 1]
    /\ UNCHANGED <<bsems, count, reg>>

Syscall(t, from, to) ==         \* a bsem system call made by t
    Goto(t, from, to) /\ UNCHANGED <<count, reg, calls>>

Load(t, from, to) ==
    /\ Goto(t, from, to)
    /\ reg' = [reg EXCEPT ![t] = count]
    /\ UNCHANGED <<bsems, count, calls>>

Store(t, from, to, v) ==
    /\ Goto(t, from, to)
    /\ count' = v
    /\ UNCHANGED <<bsems, reg, calls>>

Test(t, from, cond, then, else) ==
    /\ Goto(t, from, IF cond THEN then ELSE else)
    /\ UNCHANGED <<bsems, count, reg, calls>>

DownGate(t)  == Syscall(t, "d1", "d2") /\ bsem_down(bsem2)
DownLock(t)  == Syscall(t, "d2", "d3") /\ bsem_down(bsem1)
DownLoad(t)  == Load(t, "d3", "d4")
DownStore(t) == Store(t, "d4", "d5", reg[t] - 1)
\* Fault: off by one in the test that reopens the gate.
DownTest_late(t) == Test(t, "d5", count > 1, "d6", "d7")

DownTest(t)  == Test(t, "d5", count > 0, "d6", "d7")
DownOpen(t)  == Syscall(t, "d6", "d7") /\ bsem_up(bsem2)
DownDone(t)  == Syscall(t, "d7", "idle") /\ bsem_up(bsem1)

csem_down(t) ==
    \/ DownGate(t) \/ DownLock(t) \/ DownLoad(t) \/ DownStore(t)
    \/ DownTest(t) \/ DownOpen(t) \/ DownDone(t)

\* Fault: csem_up does not take bsem1.
UpLock_skipped(t) == Syscall(t, "u1", "u2") /\ UNCHANGED bsems

UpLock(t)  == Syscall(t, "u1", "u2") /\ bsem_down(bsem1)
UpLoad(t)  == Load(t, "u2", "u3")
UpStore(t) == Store(t, "u3", "u4", reg[t] + 1)
\* Fault: off by one in the test that opens the gate.
UpTest_late(t) == Test(t, "u4", count > 1, "u5", "u6")

\* Fault: csem_up opens the gate whatever the count was.
UpTest_always(t) == Test(t, "u4", count >= 1, "u5", "u6")

UpTest(t)  == Test(t, "u4", count = 1, "u5", "u6")
UpOpen(t)  == Syscall(t, "u5", "u6") /\ bsem_up(bsem2)
UpDone(t)  == Syscall(t, "u6", "idle") /\ bsem_up(bsem1)

csem_up(t) ==
    \/ UpLock(t) \/ UpLoad(t) \/ UpStore(t)
    \/ UpTest(t) \/ UpOpen(t) \/ UpDone(t)

Next == \E t \in Threads : Call(t) \/ csem_down(t) \/ csem_up(t)

Spec == Init /\ [][Next]_vars

\* A thread inside the library is scheduled again; no thread must call it.
Fairness == \A t \in Threads : WF_vars(csem_down(t) \/ csem_up(t))

FairSpec == Spec /\ Fairness
-----------------------------------------------------------------------------
Holds1 == {"d3", "d4", "d5", "d6", "d7", "u2", "u3", "u4", "u5", "u6"}

\* Past the gate and before the decision whether to reopen it.
HasToken == {"d2", "d3", "d4", "d5", "d6"}

\* A thread in csem_up that will open the gate.
WillOpen(t) == pc[t] = "u5" \/ (pc[t] = "u4" /\ count = 1)

\* count is accessed only between bsem_down(bsem1) and bsem_up(bsem1), so
\* the unsynchronised += and -= of csem_up and csem_down never overlap.
CountProtected ==
    /\ \A s, t \in Threads : pc[s] \in Holds1 /\ pc[t] \in Holds1 => s = t
    /\ bsems[bsem1] = IF \E t \in Threads : pc[t] \in Holds1 THEN 0 ELSE 1

\* Units are never overdrawn: the count stays >= 0, and a thread that passed
\* the gate finds a unit when it comes to decrement, whatever csem_up and
\* csem_down calls ran between bsem_down(bsem2) and bsem_down(bsem1).
NeverOverdrawn ==
    /\ count >= 0
    /\ \A t \in Threads : pc[t] \in {"d2", "d3", "d4"} => count > 0

\* The gate agrees with the count.  An open gate means a unit is available, and
\* no waiter is stranded: when units are available the gate is open, or a
\* thread is on its way to open it (it passed the gate, or it is in csem_up
\* and raised the count from 0).
GateMatchesCount ==
    /\ bsems[bsem2] = 1 => count > 0
    /\ count > 0 =>
          \/ bsems[bsem2] = 1
          \/ \E t \in Threads : pc[t] \in HasToken \/ WillOpen(t)

\* The gate is opened only when shut: a second bsem_up of a binary semaphore
\* would be lost without a trace.
NoLostOpen ==
    [][bsems'[bsem2] = 1 /\ (\E t \in Threads : DownOpen(t) \/ UpOpen(t))
         => bsems[bsem2] = 0]_vars

\* The library implements an atomic counting semaphore: csem_down and csem_up
\* take effect when they store count.
call == [t \in Threads |->
            IF pc[t] = "idle" THEN "idle"
            ELSE IF pc[t] \in {"d1", "d2", "d3", "d4"} THEN "down"
            ELSE IF pc[t] \in {"u1", "u2", "u3"} THEN "up"
            ELSE "done"]

C == INSTANCE CsemSpec

ImplementsCsem == C!CsemSafety

\* Once calls stop arriving, every call returns except csem_down calls that
\* find no unit: nobody sleeps in csem_down for good while count > 0.
Drains ==
    <>[](\A t \in Threads : pc[t] = "idle" \/ (pc[t] = "d1" /\ count = 0))
=============================================================================
