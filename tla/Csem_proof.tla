----------------------------- MODULE Csem_proof -----------------------------
(***************************************************************************)
(* Proofs about user/Csemaphore.c (Csem.tla), for any set of threads, any  *)
(* initial counts and any number of calls.                                 *)
(***************************************************************************)
EXTENDS Csem, TLAPS

\* The provers for a leaf, in this order; the later ones serve when the machine is busy.
USE SMTT(60), ZenonT(20), SMTT(61), Z3T(62)

\* At most one thread is between the gate and its decision to reopen it, and
\* the gate is shut meanwhile.
OneToken ==
    /\ \A s, t \in Threads : pc[s] \in HasToken /\ pc[t] \in HasToken => s = t
    /\ (\E t \in Threads : pc[t] \in HasToken) => bsems[bsem2] = 0

\* What a thread loaded from count is still the value of count when it stores.
LoadedIsCurrent ==
    \A t \in Threads : pc[t] \in {"d4", "u3"} => reg[t] = count

\* The gate is shut and nobody else will open it when csem_up has to; a unit
\* is left when csem_down reopens it.
OpenersAreRight ==
    \A t \in Threads :
        /\ pc[t] = "d6" => count > 0
        /\ WillOpen(t) =>
              /\ count = 1
              /\ bsems[bsem2] = 0
              /\ \A s \in Threads : pc[s] \notin HasToken

\* The gate is allocated.
GateIsBinary == bsems[bsem2] \in {0, 1}

IInv ==
    /\ TypeOK
    /\ CountProtected
    /\ NeverOverdrawn
    /\ GateMatchesCount
    /\ OneToken
    /\ LoadedIsCurrent
    /\ OpenersAreRight
    /\ GateIsBinary

-----------------------------------------------------------------------------
\* The state csem_alloc leaves satisfies the invariant.
LEMMA InitIInv == Init => IInv
<1> SUFFICES ASSUME Init PROVE IInv
  OBVIOUS
<1> USE CsemAssumption, MaxBsemAssumption DEF Init, csem_alloc
<1>1. TypeOK
  BY DEF TypeOK, BsemTypeOK, Sems
<1>2. bsems[bsem1] = 1 /\ bsems[bsem2] = IF count = 0 THEN 0 ELSE 1
  OBVIOUS
<1>3. count \in Nat /\ \A t \in Threads : pc[t] = "idle"
  OBVIOUS
<1>4. QED
  BY <1>1, <1>2, <1>3
     DEF IInv, CountProtected, NeverOverdrawn, GateMatchesCount, OneToken,
         LoadedIsCurrent, OpenersAreRight, GateIsBinary, WillOpen, Holds1,
         HasToken

\* Every step keeps the types.
LEMMA TypeStep == TypeOK /\ LoadedIsCurrent /\ [Next]_vars => TypeOK'
<1> SUFFICES ASSUME TypeOK, [Next]_vars PROVE TypeOK'
  OBVIOUS
<1> USE CsemAssumption
    DEF TypeOK, BsemTypeOK, DownPcs, UpPcs, Goto, Syscall, Load, Store, Test,
        bsem_down, bsem_up
<1>1. CASE UNCHANGED vars
  BY <1>1 DEF vars
<1>2. ASSUME NEW t \in Threads, Call(t) PROVE TypeOK'
  BY <1>2 DEF Call
<1>3. ASSUME NEW t \in Threads, csem_down(t) PROVE TypeOK'
  BY <1>3 DEF csem_down, DownGate, DownLock, DownLoad, DownStore, DownTest,
              DownOpen, DownDone
<1>4. ASSUME NEW t \in Threads, csem_up(t) PROVE TypeOK'
  BY <1>4 DEF csem_up, UpLock, UpLoad, UpStore, UpTest, UpOpen, UpDone
<1>5. QED
  BY <1>1, <1>2, <1>3, <1>4 DEF Next

\* Every step keeps the invariant: one case per step of the two functions.
LEMMA StepIInv == IInv /\ [Next]_vars => IInv'
<1> SUFFICES ASSUME IInv, [Next]_vars PROVE IInv'
  OBVIOUS
<1> USE CsemAssumption
    DEF IInv, CountProtected, NeverOverdrawn, GateMatchesCount, OneToken,
        LoadedIsCurrent, OpenersAreRight, GateIsBinary, WillOpen, Holds1,
        HasToken, Goto, Syscall, Load, Store, Test, bsem_down, bsem_up
<1>0. TypeOK' /\ TypeOK
  BY TypeStep
<1>1. CASE UNCHANGED vars
  BY <1>0, <1>1 DEF vars
<1>2. ASSUME NEW t \in Threads, Call(t) PROVE IInv'
  BY <1>0, <1>2 DEF Call, TypeOK, BsemTypeOK
<1>3. ASSUME NEW t \in Threads, DownGate(t) PROVE IInv'
  BY <1>0, <1>3 DEF DownGate, TypeOK, BsemTypeOK
<1>4. ASSUME NEW t \in Threads, DownLock(t) PROVE IInv'
  BY <1>0, <1>4 DEF DownLock, TypeOK, BsemTypeOK
<1>5. ASSUME NEW t \in Threads, DownLoad(t) PROVE IInv'
  BY <1>0, <1>5 DEF DownLoad, TypeOK, BsemTypeOK
<1>6. ASSUME NEW t \in Threads, DownStore(t) PROVE IInv'
  BY <1>0, <1>6 DEF DownStore, TypeOK, BsemTypeOK
<1>7. ASSUME NEW t \in Threads, DownTest(t) PROVE IInv'
  BY <1>0, <1>7 DEF DownTest, TypeOK, BsemTypeOK
<1>8. ASSUME NEW t \in Threads, DownOpen(t) PROVE IInv'
  BY <1>0, <1>8 DEF DownOpen, TypeOK, BsemTypeOK
<1>9. ASSUME NEW t \in Threads, DownDone(t) PROVE IInv'
  BY <1>0, <1>9 DEF DownDone, TypeOK, BsemTypeOK
<1>10. ASSUME NEW t \in Threads, UpLock(t) PROVE IInv'
  BY <1>0, <1>10 DEF UpLock, TypeOK, BsemTypeOK
<1>11. ASSUME NEW t \in Threads, UpLoad(t) PROVE IInv'
  BY <1>0, <1>11 DEF UpLoad, TypeOK, BsemTypeOK
<1>12. ASSUME NEW t \in Threads, UpStore(t) PROVE IInv'
  BY <1>0, <1>12 DEF UpStore, TypeOK, BsemTypeOK
<1>13. ASSUME NEW t \in Threads, UpTest(t) PROVE IInv'
  BY <1>0, <1>13 DEF UpTest, TypeOK, BsemTypeOK
<1>14. ASSUME NEW t \in Threads, UpOpen(t) PROVE IInv'
  BY <1>0, <1>14 DEF UpOpen, TypeOK, BsemTypeOK
<1>15. ASSUME NEW t \in Threads, UpDone(t) PROVE IInv'
  BY <1>0, <1>15 DEF UpDone, TypeOK, BsemTypeOK
<1>16. QED
  BY ZenonT(60), <1>1, <1>2, <1>3, <1>4, <1>5, <1>6, <1>7, <1>8, <1>9, <1>10, <1>11, <1>12, <1>13, <1>14, <1>15
     DEF Next, csem_down, csem_up

LEMMA Invariance == Spec => []IInv
  BY InitIInv, StepIInv, PTL DEF Spec

-----------------------------------------------------------------------------
\* csem_up and csem_down keep their variables in range.
THEOREM TypeCorrect == Spec => []TypeOK
<1>1. IInv => TypeOK
  BY DEF IInv
<1>2. QED
  BY <1>1, Invariance, PTL

\* bsem1 makes the updates of sem->count mutually exclusive.
THEOREM CountIsProtected == Spec => []CountProtected
<1>1. IInv => CountProtected
  BY DEF IInv
<1>2. QED
  BY <1>1, Invariance, PTL

\* csem_down never takes a unit that is not there.
THEOREM UnitsNeverOverdrawn == Spec => []NeverOverdrawn
<1>1. IInv => NeverOverdrawn
  BY DEF IInv
<1>2. QED
  BY <1>1, Invariance, PTL

\* Nobody waits at a gate that stays shut while units are available.
THEOREM GateCorrect == Spec => []GateMatchesCount
<1>1. IInv => GateMatchesCount
  BY DEF IInv
<1>2. QED
  BY <1>1, Invariance, PTL

\* csem_up and csem_down never bsem_up a gate that is already open.
THEOREM GateOpenedOnce == Spec => NoLostOpen
<1>1. ASSUME IInv,
             \E t \in Threads : DownOpen(t) \/ UpOpen(t)
      PROVE  bsems[bsem2] = 0
  <2>1. PICK t \in Threads : DownOpen(t) \/ UpOpen(t)
    BY <1>1
  <2>2. CASE DownOpen(t)
    BY <1>1, <2>1, <2>2
       DEF IInv, OneToken, HasToken, DownOpen, Syscall, Goto
  <2>3. CASE UpOpen(t)
    BY <1>1, <2>1, <2>3
       DEF IInv, OpenersAreRight, WillOpen, UpOpen, Syscall, Goto
  <2>4. QED
    BY <2>1, <2>2, <2>3
<1>2. IInv => [bsems'[bsem2] = 1 /\ (\E t \in Threads : DownOpen(t) \/ UpOpen(t))
                 => bsems[bsem2] = 0]_vars
  BY <1>1
<1>3. QED
  BY <1>2, Invariance, PTL DEF NoLostOpen

-----------------------------------------------------------------------------
\* A step of the library is a step of the atomic semaphore or changes nothing
\* of it.  The units move when count is stored.
LEMMA StepRefines ==
    IInv /\ [Next]_vars => [C!CsemNext]_<<count, call>>
<1> SUFFICES ASSUME IInv, [Next]_vars PROVE [C!CsemNext]_<<count, call>>
  OBVIOUS
<1> USE DEF call, Goto, Syscall, Load, Store, Test
<1>0. pc \in [Threads -> {"idle"} \cup DownPcs \cup UpPcs] /\ count \in Int
  BY DEF IInv, TypeOK
<1>1. CASE UNCHANGED vars
  BY <1>1 DEF vars
<1>2. ASSUME NEW t \in Threads, Call(t)
      PROVE  C!Invoke(t, "down") \/ C!Invoke(t, "up")
  BY ZenonT(60), <1>0, <1>2 DEF Call, C!Invoke
<1>3. ASSUME NEW t \in Threads, DownStore(t) PROVE C!Down(t)
  <2>1. reg[t] = count /\ count > 0
    BY <1>3 DEF IInv, LoadedIsCurrent, NeverOverdrawn, DownStore
  <2>2. QED
    BY ZenonT(60), <1>0, <1>3, <2>1 DEF DownStore, C!Down
<1>4. ASSUME NEW t \in Threads, UpStore(t) PROVE C!Up(t)
  <2>1. reg[t] = count
    BY <1>4 DEF IInv, LoadedIsCurrent, UpStore
  <2>2. QED
    BY ZenonT(60), <1>0, <1>4, <2>1 DEF UpStore, C!Up
<1>5. ASSUME NEW t \in Threads, DownDone(t) \/ UpDone(t) PROVE C!Return(t)
  BY ZenonT(60), <1>0, <1>5 DEF DownDone, UpDone, C!Return
<1>6. ASSUME NEW t \in Threads,
             DownGate(t) \/ DownLock(t) \/ DownLoad(t) \/ DownTest(t) \/ DownOpen(t)
      PROVE  UNCHANGED <<count, call>>
  BY <1>0, <1>6 DEF DownGate, DownLock, DownLoad, DownTest, DownOpen
<1>7. ASSUME NEW t \in Threads,
             UpLock(t) \/ UpLoad(t) \/ UpTest(t) \/ UpOpen(t)
      PROVE  UNCHANGED <<count, call>>
  BY <1>0, <1>7 DEF UpLock, UpLoad, UpTest, UpOpen
<1>8. QED
  BY <1>1, <1>2, <1>3, <1>4, <1>5, <1>6, <1>7
     DEF Next, csem_down, csem_up, C!CsemNext

\* user/Csemaphore.c implements an atomic counting semaphore.
THEOREM CsemRefinement == Spec => ImplementsCsem
<1>1. Init => C!CsemInit
  BY DEF Init, C!CsemInit, call
<1>2. QED
  BY <1>1, StepRefines, Invariance, PTL
     DEF Spec, ImplementsCsem, C!CsemSafety
=============================================================================
