----------------------------- MODULE Log_proof -----------------------------
(***************************************************************************)
(* Proof that the log (Log.tla) implements atomic transactions across      *)
(* crashes (LogSpec.tla), for any number of processes, blocks, calls and   *)
(* crashes and any size of the log.                                        *)
(***************************************************************************)
EXTENDS Log, FiniteSetTheorems, TLAPS

\* The provers for a leaf, in this order; the later ones serve when the machine is busy.
USE SMTT(60), ZenonT(20), SMTT(61), Z3T(62)

\* The calls between begin_op and end_op, and a thread in commit().
OpenOps == {t \in Ops : pc[t] = "op"}
InCommit(t) == pc[t] \in {"write_log", "install", "done"}

\* The values of the variables; log.lh.n is bounded by LOGSIZE.
Types ==
    /\ lh \in Seq(Blocks) /\ head \in Seq(Blocks)
    /\ Len(lh) <= LOGSIZE /\ Len(head) <= LOGSIZE
    /\ cache \in [Blocks -> Vals] /\ disk \in [Blocks -> Vals]
    /\ logarea \in [1 .. LOGSIZE -> Vals \cup {None}]
    /\ pc \in [Ops -> {"idle", "sleep", "begin", "op", "write_log", "install", "done"}]
    /\ tail \in Nat /\ outstanding \in Nat
    /\ committing \in BOOLEAN
    /\ boot \in {"up", "read_head", "install"}

\* log.outstanding counts the calls between begin_op and end_op.
CallsCounted == outstanding = Cardinality(OpenOps)

\* One thread commits at a time, with committing set and no call active.
OneCommitter ==
    /\ \A t \in Ops : InCommit(t) => committing
    /\ \A s, t \in Ops : InCommit(s) /\ InCommit(t) => s = t
    /\ committing => outstanding = 0
    /\ boot # "up" => \A t \in Ops : pc[t] = "idle"

\* A block is logged once, so the order of installation does not matter.
LoggedOnce ==
    /\ \A i, j \in 1 .. Len(lh) : lh[i] = lh[j] => i = j
    /\ \A i, j \in 1 .. Len(head) : head[i] = head[j] => i = j

\* A block that is not logged is the same in the cache and on disk; during
\* recovery every block is.
UnloggedIsHome ==
    \A b \in Blocks :
        boot # "up" \/ (\A i \in 1 .. Len(lh) : lh[i] # b) => cache[b] = disk[b]

\* There is a transaction only while a call or a commit is active.
LogInUse ==
    \/ lh = <<>>
    \/ outstanding > 0
    \/ boot = "install"
    \/ \E t \in Ops : pc[t] \in {"write_log", "install"}

\* The header on disk is empty but from the commit to the end of the
\* installation, and what it names was copied to the log.
HeadOnlyCommitted ==
    /\ boot = "up" /\ (\A t \in Ops : pc[t] # "install") => head = <<>>
    /\ \A i \in 1 .. Len(head) : logarea[i] \in Vals

\* The loops of write_log and install_trans did what they passed.
Copied ==
    \A t \in Ops : pc[t] = "write_log" =>
        tail <= Len(lh) /\ \A i \in 1 .. tail : logarea[i] = cache[lh[i]]

\* install_trans() runs, for a commit or for recovery.
Installing == boot = "install" \/ \E t \in Ops : pc[t] = "install"

Installed ==
    /\ Installing =>
          /\ head = lh
          /\ tail <= Len(lh)
          /\ \A i \in 1 .. tail : disk[lh[i]] = logarea[i]
    /\ \A t \in Ops : pc[t] = "install" =>
          \A i \in 1 .. Len(lh) : logarea[i] = cache[lh[i]]

\* The loop variable is reset between loops.
TailReset == Installing \/ (\E t \in Ops : pc[t] = "write_log") \/ tail = 0

\* The inductive invariant.
IInv ==
    /\ Types
    /\ CallsCounted
    /\ OneCommitter
    /\ LoggedOnce
    /\ UnloggedIsHome
    /\ LogInUse
    /\ HeadOnlyCommitted
    /\ Copied
    /\ Installed
    /\ TailReset
-----------------------------------------------------------------------------
\* The log has room for at least one block.
LEMMA SizeNat == LOGSIZE \in Nat \ {0}
  BY LogAssumption DEF LogAssumption

\* Sizes of the set of active calls.
LEMMA OpenIsFinite == IsFiniteSet(OpenOps) /\ Cardinality(OpenOps) \in Nat
<1>1. IsFiniteSet(OpenOps)
  BY LogAssumption, FS_Subset DEF LogAssumption, OpenOps
<1>2. QED
  BY <1>1, FS_CardinalityType

\* begin_op adds one active call.
LEMMA OneMore ==
  ASSUME NEW t \in Ops, pc[t] # "op", OpenOps' = OpenOps \cup {t}
  PROVE  Cardinality(OpenOps)' = Cardinality(OpenOps) + 1
<1>1. t \notin OpenOps
  BY DEF OpenOps
<1>2. QED
  BY <1>1, OpenIsFinite, FS_AddElement

\* end_op takes one away.
LEMMA OneLess ==
  ASSUME NEW t \in Ops, pc[t] = "op", OpenOps' = OpenOps \ {t}
  PROVE  Cardinality(OpenOps)' = Cardinality(OpenOps) - 1
<1>1. t \in OpenOps
  BY DEF OpenOps
<1>2. QED
  BY <1>1, OpenIsFinite, FS_RemoveElement

\* When log.outstanding is 0 no call is active.
LEMMA NoneOpen ==
  ASSUME CallsCounted
  PROVE  outstanding = 0 <=> \A t \in Ops : pc[t] # "op"
<1>1. outstanding = 0 <=> OpenOps = {}
  BY OpenIsFinite, FS_EmptySet DEF CallsCounted
<1>2. QED
  BY <1>1 DEF OpenOps

\* log_write adds a block once.
LEMMA AbsorbFacts ==
  ASSUME Types, LoggedOnce, NEW b \in Blocks, lh' = Absorb(b), Len(lh) < LOGSIZE
  PROVE  /\ lh' \in Seq(Blocks)
         /\ Len(lh') <= LOGSIZE
         /\ Len(lh) <= Len(lh')
         /\ \A i \in 1 .. Len(lh) : lh'[i] = lh[i]
         /\ \A i \in 1 .. Len(lh') : i \notin 1 .. Len(lh) => lh'[i] = b
         /\ \A i, j \in 1 .. Len(lh') : lh'[i] = lh'[j] => i = j
         /\ \E i \in 1 .. Len(lh') : lh'[i] = b
<1> USE SizeNat DEF Types
<1>1. CASE \E i \in 1 .. Len(lh) : lh[i] = b
  <2>1. lh' = lh
    BY <1>1 DEF Absorb, Range
  <2>2. QED
    BY <1>1, <2>1 DEF LoggedOnce
<1>2. CASE ~ \E i \in 1 .. Len(lh) : lh[i] = b
  <2>1. lh' = Append(lh, b)
    BY <1>2 DEF Absorb, Range
  <2>2. Len(lh') = Len(lh) + 1 /\ lh'[Len(lh) + 1] = b
        /\ \A i \in 1 .. Len(lh) : lh'[i] = lh[i]
    BY <2>1
  <2>3. lh' \in Seq(Blocks)
    BY <2>1
  <2>4. \A i, j \in 1 .. Len(lh') : lh'[i] = lh'[j] => i = j
    <3>1. \A i \in 1 .. Len(lh') : i \in 1 .. Len(lh) \/ i = Len(lh) + 1
      BY <2>2
    <3>2. \A i, j \in 1 .. Len(lh) : lh'[i] = lh'[j] => i = j
      BY <2>2 DEF LoggedOnce
    <3>3. \A i \in 1 .. Len(lh) : lh'[i] # lh'[Len(lh) + 1]
      BY <1>2, <2>2
    <3>4. QED
      BY <3>1, <3>2, <3>3
  <2>5. QED
    BY <2>2, <2>3, <2>4
<1>3. QED
  BY <1>1, <1>2
-----------------------------------------------------------------------------
\* A machine that boots with an empty log satisfies the invariant.
LEMMA InitIInv == Init => IInv
<1> SUFFICES ASSUME Init PROVE IInv
  OBVIOUS
<1> USE DEF Init
<1>1. Types
  <2>1. disk \in [Blocks -> Vals] /\ cache \in [Blocks -> Vals]
    OBVIOUS
  <2>2. logarea \in [1 .. LOGSIZE -> Vals \cup {None}]
    OBVIOUS
  <2>3. pc \in [Ops -> {"idle", "sleep", "begin", "op", "write_log", "install", "done"}]
    OBVIOUS
  <2>4. /\ lh \in Seq(Blocks) /\ head \in Seq(Blocks)
        /\ Len(lh) <= LOGSIZE /\ Len(head) <= LOGSIZE
    BY SizeNat
  <2>5. QED
    BY ZenonT(60), <2>1, <2>2, <2>3, <2>4 DEF Types
<1>2. CallsCounted
  <2>1. OpenOps = {}
    BY DEF OpenOps
  <2>2. QED
    BY <2>1, FS_EmptySet DEF CallsCounted
<1>3. OneCommitter /\ Copied /\ Installed /\ TailReset
  BY DEF OneCommitter, InCommit, Copied, Installed, Installing, TailReset
<1>4. LoggedOnce /\ UnloggedIsHome /\ LogInUse /\ HeadOnlyCommitted
  BY DEF LoggedOnce, UnloggedIsHome, LogInUse, HeadOnlyCommitted
<1>5. QED
  BY <1>1, <1>2, <1>3, <1>4 DEF IInv

\* begin_op: the call waits, or the reservation counts it.
LEMMA ReserveStep ==
  ASSUME IInv, NEW t \in Ops, pc[t] \in {"idle", "begin"}, boot = "up", Reserve(t),
         UNCHANGED <<committing, lh, cache, disk, logarea, head, tail, boot>>
  PROVE  IInv'
<1> USE DEF IInv
<1>1. CASE UNCHANGED outstanding /\ pc' = [pc EXCEPT ![t] = "sleep"]
  <2> USE <1>1
  <2>1. Types'
    BY DEF Types
  <2>2. OpenOps' = OpenOps
    BY DEF OpenOps, Types
  <2>3. CallsCounted'
    BY <2>2 DEF CallsCounted
  <2>4. OneCommitter' /\ LogInUse'
    BY DEF OneCommitter, LogInUse, InCommit, Types
  <2>5. HeadOnlyCommitted' /\ Copied' /\ Installed' /\ TailReset'
    BY DEF HeadOnlyCommitted, Copied, Installed, Installing, TailReset, Types
  <2>6. LoggedOnce' /\ UnloggedIsHome'
    BY DEF LoggedOnce, UnloggedIsHome
  <2>7. QED
    BY <2>1, <2>3, <2>4, <2>5, <2>6
<1>2. CASE /\ ~ committing
           /\ outstanding' = outstanding + 1
           /\ pc' = [pc EXCEPT ![t] = "op"]
  <2> USE <1>2
  <2>1. Types'
    BY DEF Types
  <2>2. OpenOps' = OpenOps \cup {t}
    BY DEF OpenOps, Types
  <2>3. CallsCounted'
    BY <2>2, OneMore DEF CallsCounted
  <2>4. OneCommitter' /\ LogInUse'
    BY DEF OneCommitter, LogInUse, InCommit, Types
  <2>5. HeadOnlyCommitted' /\ Copied' /\ Installed' /\ TailReset'
    BY DEF HeadOnlyCommitted, Copied, Installed, Installing, TailReset, Types
  <2>6. LoggedOnce' /\ UnloggedIsHome'
    BY DEF LoggedOnce, UnloggedIsHome
  <2>7. QED
    BY <2>1, <2>3, <2>4, <2>5, <2>6
<1>3. QED
  BY <1>1, <1>2 DEF Reserve

\* log_write: no commit is under way, so only the cache and the list of
\* logged blocks change.
LEMMA WriteStep ==
  ASSUME IInv, NEW t \in Ops, log_write(t)
  PROVE  IInv'
<1> USE DEF IInv
<1>1. CASE UNCHANGED <<cache, lh>>
  BY <1>1 DEF log_write, Types, CallsCounted, OpenOps, OneCommitter, InCommit,
     LoggedOnce, UnloggedIsHome, LogInUse, HeadOnlyCommitted, Copied, Installed,
     Installing, TailReset
<1>2. CASE /\ Len(lh) < LOGSIZE
           /\ \E b \in Blocks, v \in Vals :
                 cache' = [cache EXCEPT ![b] = v] /\ lh' = Absorb(b)
  <2> PICK b \in Blocks, v \in Vals :
             cache' = [cache EXCEPT ![b] = v] /\ lh' = Absorb(b)
    BY ZenonT(60), <1>2
  <2>0. UNCHANGED <<outstanding, committing, disk, logarea, head, pc, tail, boot>>
        /\ pc[t] = "op"
    BY DEF log_write
  <2>1. /\ lh' \in Seq(Blocks)
        /\ Len(lh') <= LOGSIZE
        /\ Len(lh) <= Len(lh')
        /\ \A i \in 1 .. Len(lh) : lh'[i] = lh[i]
        /\ \A i, j \in 1 .. Len(lh') : lh'[i] = lh'[j] => i = j
        /\ \E i \in 1 .. Len(lh') : lh'[i] = b
    BY ZenonT(60), <1>2, AbsorbFacts
  <2>2. boot = "up" /\ outstanding # 0 /\ \A u \in Ops : ~ InCommit(u)
    BY <2>0, NoneOpen DEF OneCommitter
  <2>3. Types'
    BY <2>0, <2>1 DEF Types
  <2>4. CallsCounted' /\ OneCommitter'
    BY <2>0 DEF CallsCounted, OneCommitter, OpenOps, InCommit
  <2>5. LoggedOnce'
    BY <2>0, <2>1 DEF LoggedOnce
  <2>6. UnloggedIsHome'
    <3>1. SUFFICES ASSUME NEW c \in Blocks, \A i \in 1 .. Len(lh') : lh'[i] # c
                   PROVE  cache'[c] = disk'[c]
      BY <2>0, <2>2 DEF UnloggedIsHome
    <3>2. c # b
      BY <2>1, <3>1
    <3>3. \A i \in 1 .. Len(lh) : i \in 1 .. Len(lh')
      BY <2>1 DEF Types
    <3>4. \A i \in 1 .. Len(lh) : lh[i] # c
      BY <2>1, <3>1, <3>3
    <3>5. cache[c] = disk[c]
      BY <3>4 DEF UnloggedIsHome
    <3>6. QED
      BY <2>0, <3>2, <3>5 DEF Types
  <2>7. LogInUse'
    BY <2>0, <2>2 DEF LogInUse, Types
  <2>8. HeadOnlyCommitted' /\ Copied' /\ Installed' /\ TailReset'
    BY <2>0, <2>2
       DEF HeadOnlyCommitted, Copied, Installed, Installing, TailReset, InCommit
  <2>9. QED
    BY <2>3, <2>4, <2>5, <2>6, <2>7, <2>8
<1>3. QED
  BY <1>1, <1>2, SizeNat DEF log_write, size, Types

\* end_op: the last call starts the commit, which finds the header empty and
\* the loop variable at 0.
LEMMA EndStep ==
  ASSUME IInv, NEW t \in Ops, end_op(t)
  PROVE  IInv'
<1> USE DEF IInv
<1>0. /\ UNCHANGED <<lh, cache, disk, logarea, head, tail, boot>>
      /\ pc[t] = "op" /\ outstanding' = outstanding - 1
  BY DEF end_op
<1>1. boot = "up" /\ outstanding # 0 /\ ~ committing /\ \A u \in Ops : ~ InCommit(u)
  BY <1>0, NoneOpen DEF OneCommitter
<1>2. head = <<>> /\ tail = 0
  BY <1>1 DEF HeadOnlyCommitted, TailReset, Installing, InCommit
<1>3. /\ pc' \in [Ops -> {"idle", "sleep", "begin", "op", "write_log", "install", "done"}]
      /\ pc'[t] # "op"
      /\ \A u \in Ops \ {t} : (pc'[u] = "op" <=> pc[u] = "op") /\ ~ InCommit(u)'
      /\ committing' \in BOOLEAN
      /\ committing' <=> outstanding' = 0
      /\ InCommit(t)' <=> committing'
      /\ committing' => pc'[t] = IF lh = <<>> THEN "done" ELSE "write_log"
  <2>1. CASE outstanding' = 0
    BY ZenonT(60), <1>1, <2>1 DEF end_op, Types, InCommit
  <2>2. CASE outstanding' # 0
    BY <1>1, <2>2 DEF end_op, WakeupAfter, Types, InCommit
  <2>3. QED
    BY <2>1, <2>2
<1>4. Types'
  BY <1>0, <1>1, <1>3 DEF Types
<1>5. CallsCounted'
  <2>1. OpenOps' = OpenOps \ {t}
    BY <1>3 DEF OpenOps
  <2>2. QED
    BY <1>0, <2>1, OneLess DEF CallsCounted
<1>6. OneCommitter'
  BY <1>0, <1>1, <1>3 DEF OneCommitter
<1>7. LoggedOnce' /\ UnloggedIsHome'
  BY <1>0 DEF LoggedOnce, UnloggedIsHome
<1>8. LogInUse'
  BY <1>0, <1>1, <1>3 DEF LogInUse, Types
<1>9. HeadOnlyCommitted' /\ Copied' /\ TailReset'
  BY <1>0, <1>2, <1>3 DEF HeadOnlyCommitted, Copied, TailReset, Types
<1>10. Installed'
  BY <1>0, <1>1, <1>3 DEF Installed, Installing, InCommit
<1>11. QED
  BY <1>4, <1>5, <1>6, <1>7, <1>8, <1>9, <1>10

\* write_log copies one more block.
LEMMA CopyStep ==
  ASSUME IInv, NEW t \in Ops, write_log(t)
  PROVE  IInv'
<1> USE SizeNat DEF IInv
<1>0. /\ pc[t] = "write_log" /\ tail < Len(lh)
      /\ logarea' = [logarea EXCEPT ![tail + 1] = cache[lh[tail + 1]]]
      /\ tail' = tail + 1
      /\ UNCHANGED <<outstanding, committing, lh, cache, disk, head, pc, boot>>
  BY DEF write_log
<1>1. tail + 1 \in 1 .. Len(lh) /\ tail + 1 \in 1 .. LOGSIZE /\ lh[tail + 1] \in Blocks
  BY <1>0 DEF Types
<1>2. boot = "up" /\ \A u \in Ops : pc[u] # "install"
  BY <1>0 DEF OneCommitter, InCommit
<1>3. Types'
  BY <1>0, <1>1 DEF Types
<1>4. CallsCounted' /\ OneCommitter' /\ LoggedOnce' /\ UnloggedIsHome' /\ LogInUse'
  BY <1>0 DEF CallsCounted, OpenOps, OneCommitter, InCommit, LoggedOnce, UnloggedIsHome, LogInUse
<1>5. HeadOnlyCommitted'
  BY <1>0, <1>2 DEF HeadOnlyCommitted
<1>6. Copied'
  BY <1>0, <1>1 DEF Copied, Types
<1>7. Installed' /\ TailReset'
  BY <1>0, <1>2 DEF Installed, Installing, TailReset
<1>8. QED
  BY <1>3, <1>4, <1>5, <1>6, <1>7

\* write_head: the header names what was copied.
LEMMA CommitStep ==
  ASSUME IInv, NEW t \in Ops, write_head(t)
  PROVE  IInv'
<1> USE SizeNat DEF IInv
<1>0. /\ pc[t] = "write_log" /\ tail = Len(lh) /\ head' = lh /\ tail' = 0
      /\ pc' = [pc EXCEPT ![t] = "install"]
      /\ UNCHANGED <<outstanding, committing, lh, cache, disk, logarea, boot>>
  BY DEF write_head, Goto
<1>1. boot = "up" /\ \A u \in Ops \ {t} : ~ InCommit(u)
  BY <1>0 DEF OneCommitter, InCommit
<1>2. \A i \in 1 .. Len(lh) : logarea[i] = cache[lh[i]] /\ lh[i] \in Blocks
  BY <1>0 DEF Copied, Types
<1>3. Types'
  BY <1>0 DEF Types
<1>4. CallsCounted'
  <2>1. OpenOps' = OpenOps
    BY <1>0 DEF OpenOps, Types
  <2>2. QED
    BY <1>0, <2>1 DEF CallsCounted
<1>5. OneCommitter' /\ LogInUse'
  BY <1>0, <1>1 DEF OneCommitter, LogInUse, InCommit, Types
<1>6. LoggedOnce' /\ UnloggedIsHome'
  BY <1>0 DEF LoggedOnce, UnloggedIsHome
<1>7. HeadOnlyCommitted'
  BY <1>0, <1>2 DEF HeadOnlyCommitted, Types
<1>8. Copied'
  BY <1>0, <1>1 DEF Copied, InCommit, Types
<1>9. Installed' /\ TailReset'
  BY <1>0, <1>1, <1>2 DEF Installed, Installing, TailReset, InCommit, Types
<1>10. QED
  BY <1>3, <1>4, <1>5, <1>6, <1>7, <1>8, <1>9

\* install_trans, of a commit or of recovery: a block goes home, to where the
\* cache already has it when the log is being committed.
LEMMA InstallStep ==
  ASSUME IInv, Installing, Install,
         UNCHANGED <<outstanding, committing, lh, logarea, head, pc, boot>>
  PROVE  IInv' /\ (boot = "up" => cache' = cache)
<1> USE SizeNat DEF IInv
<1> DEFINE k == tail + 1
           h == lh[k]
<1>0. /\ disk' = [disk EXCEPT ![h] = logarea[k]]
      /\ cache' = [cache EXCEPT ![h] = logarea[k]]
      /\ tail' = k /\ tail < Len(lh)
  BY DEF Install
<1>1. k \in 1 .. Len(lh) /\ h \in Blocks /\ head = lh /\ logarea[k] \in Vals
  BY <1>0 DEF Types, Installed, HeadOnlyCommitted
<1>2. \A u \in Ops : pc[u] # "write_log"
  BY DEF Installing, OneCommitter, InCommit
<1>3. boot = "up" => cache' = cache
  <2>1. SUFFICES ASSUME boot = "up" PROVE cache' = cache
    OBVIOUS
  <2>2. cache[h] = logarea[k]
    BY <1>1, <2>1 DEF Installing, Installed
  <2>3. QED
    BY <1>0, <2>2 DEF Types
<1> HIDE DEF k, h
<1>4. Types'
  BY <1>0, <1>1 DEF Types
<1>5. CallsCounted' /\ OneCommitter' /\ LoggedOnce' /\ LogInUse' /\ HeadOnlyCommitted'
  BY DEF CallsCounted, OpenOps, OneCommitter, InCommit, LoggedOnce, LogInUse, HeadOnlyCommitted
<1>6. UnloggedIsHome'
  BY <1>0, <1>1 DEF UnloggedIsHome, Types
<1>7. Copied' /\ TailReset'
  BY <1>2 DEF Copied, TailReset, Installing
<1>8. Installed'
  <2>1. \A i \in 1 .. k : disk'[lh[i]] = logarea[i]
    <3> SUFFICES ASSUME NEW i \in 1 .. k PROVE disk'[lh[i]] = logarea[i]
      OBVIOUS
    <3>1. CASE i = k
      BY <1>0, <1>1, <3>1 DEF Types, h
    <3>2. CASE i # k
      <4>1. i \in 1 .. tail /\ i \in 1 .. Len(lh)
        BY <1>0, <1>1, <3>2 DEF Types, k
      <4>2. lh[i] # h /\ lh[i] \in Blocks
        BY <1>1, <3>2, <4>1 DEF LoggedOnce, Types, h
      <4>3. QED
        BY <1>0, <4>1, <4>2 DEF Installed, Types
    <3>3. QED
      BY <3>1, <3>2
  <2>2. \A t \in Ops : pc[t] = "install" => cache' = cache
    BY <1>3 DEF OneCommitter
  <2>3. QED
    BY <1>0, <1>1, <2>1, <2>2 DEF Installed, Installing, Types
<1>9. QED
  BY <1>3, <1>4, <1>5, <1>6, <1>7, <1>8

\* The log is cleared when every block of it is home.
LEMMA EraseFacts ==
  ASSUME IInv, Installing, Erase, UNCHANGED <<cache, disk>>
  PROVE  /\ cache = disk
         /\ \A i \in 1 .. Len(head) : disk[head[i]] = logarea[i]
<1> USE DEF IInv
<1>1. head = lh /\ tail = Len(lh) /\ \A i \in 1 .. Len(lh) : disk[lh[i]] = logarea[i]
  BY DEF Erase, Installed
<1>2. ASSUME NEW b \in Blocks PROVE cache[b] = disk[b]
  <2>1. CASE boot # "up" \/ \A i \in 1 .. Len(lh) : lh[i] # b
    BY <2>1 DEF UnloggedIsHome
  <2>2. CASE boot = "up" /\ \E i \in 1 .. Len(lh) : lh[i] = b
    BY <1>1, <2>2 DEF Installing, Installed
  <2>3. QED
    BY <2>1, <2>2
<1>3. cache = disk
  BY <1>2 DEF Types
<1>4. QED
  BY <1>1, <1>3

\* commit(): the second write_head empties the log, every block being home.
LEMMA EraseStep ==
  ASSUME IInv, NEW t \in Ops, commit_erase(t)
  PROVE  IInv'
<1> USE SizeNat DEF IInv
<1>0. /\ pc[t] = "install" /\ Erase /\ pc' = [pc EXCEPT ![t] = "done"]
      /\ lh' = <<>> /\ head' = <<>> /\ tail' = 0
      /\ UNCHANGED <<outstanding, committing, cache, disk, logarea, boot>>
  BY DEF commit_erase, Goto, Erase
<1>1. boot = "up" /\ \A u \in Ops \ {t} : ~ InCommit(u)
  BY <1>0 DEF OneCommitter, InCommit
<1>2. cache = disk
  BY <1>0, EraseFacts DEF Installing
<1>3. Types'
  BY <1>0 DEF Types
<1>4. CallsCounted'
  <2>1. OpenOps' = OpenOps
    BY <1>0 DEF OpenOps, Types
  <2>2. QED
    BY <1>0, <2>1 DEF CallsCounted
<1>5. OneCommitter' /\ LogInUse'
  BY <1>0, <1>1 DEF OneCommitter, LogInUse, InCommit, Types
<1>6. LoggedOnce' /\ UnloggedIsHome' /\ HeadOnlyCommitted'
  BY <1>0, <1>2 DEF LoggedOnce, UnloggedIsHome, HeadOnlyCommitted
<1>7. Copied' /\ Installed' /\ TailReset'
  BY <1>0, <1>1 DEF Copied, Installed, Installing, TailReset, InCommit, Types
<1>8. QED
  BY <1>3, <1>4, <1>5, <1>6, <1>7

\* end_op resets log.committing after the commit.
LEMMA DoneStep ==
  ASSUME IInv, NEW t \in Ops, end_op_done(t)
  PROVE  IInv'
<1> USE SizeNat DEF IInv
<1>0. /\ pc[t] = "done" /\ committing' = FALSE
      /\ pc' = [u \in Ops |-> IF u = t THEN "idle"
                              ELSE IF pc[u] = "sleep" THEN "begin" ELSE pc[u]]
      /\ UNCHANGED <<outstanding, lh, cache, disk, logarea, head, tail, boot>>
  BY DEF end_op_done, WakeupAfter
<1>1. boot = "up" /\ outstanding = 0 /\ \A u \in Ops \ {t} : ~ InCommit(u)
  BY <1>0 DEF OneCommitter, InCommit
<1>2. \A u \in Ops : ~ InCommit(u)'
  BY <1>0, <1>1 DEF InCommit, Types
<1>3. Types'
  BY ZenonT(60), <1>0 DEF Types
<1>4. CallsCounted'
  <2>1. OpenOps' = OpenOps
    BY <1>0 DEF OpenOps, Types
  <2>2. QED
    BY <1>0, <2>1 DEF CallsCounted
<1>5. OneCommitter'
  BY <1>0, <1>1, <1>2 DEF OneCommitter
<1>6. lh = <<>> /\ tail = 0 /\ head = <<>>
  BY <1>0, <1>1 DEF LogInUse, TailReset, HeadOnlyCommitted, Installing, InCommit
<1>7. LoggedOnce' /\ UnloggedIsHome' /\ LogInUse' /\ HeadOnlyCommitted'
  BY <1>0, <1>6 DEF LoggedOnce, UnloggedIsHome, LogInUse, HeadOnlyCommitted
<1>8. Copied' /\ Installed' /\ TailReset'
  BY <1>0, <1>1, <1>2, <1>6 DEF Copied, Installed, Installing, TailReset, InCommit
<1>9. QED
  BY <1>3, <1>4, <1>5, <1>7, <1>8

\* A crash keeps the disk and the log; nobody is in a call.
LEMMA CrashStep == IInv /\ Crash => IInv'
<1> SUFFICES ASSUME IInv, Crash PROVE IInv'
  OBVIOUS
<1> USE SizeNat DEF IInv
<1>0. /\ boot' = "read_head" /\ outstanding' = 0 /\ committing' = FALSE
      /\ lh' = <<>> /\ tail' = 0 /\ cache' = disk /\ pc' = [t \in Ops |-> "idle"]
      /\ UNCHANGED <<disk, logarea, head>>
  BY DEF Crash
<1>1. Types'
  <2>1. pc' \in [Ops -> {"idle", "sleep", "begin", "op", "write_log", "install", "done"}]
    BY <1>0
  <2>2. lh' \in Seq(Blocks) /\ Len(lh') <= LOGSIZE
    BY <1>0
  <2>3. QED
    BY ZenonT(60), <1>0, <2>1, <2>2 DEF Types
<1>2. CallsCounted'
  <2>1. OpenOps' = {}
    BY <1>0 DEF OpenOps
  <2>2. QED
    BY <1>0, <2>1, FS_EmptySet DEF CallsCounted
<1>3. OneCommitter' /\ LogInUse' /\ LoggedOnce' /\ UnloggedIsHome' /\ HeadOnlyCommitted'
  BY <1>0
     DEF OneCommitter, LogInUse, LoggedOnce, UnloggedIsHome, HeadOnlyCommitted, InCommit
<1>4. Copied' /\ Installed' /\ TailReset'
  BY <1>0 DEF Copied, Installed, Installing, TailReset
<1>5. QED
  BY <1>1, <1>2, <1>3, <1>4

\* recover_from_log reads what the header names into log.lh.
LEMMA ReadHeadStep == IInv /\ read_head => IInv'
<1> SUFFICES ASSUME IInv, read_head PROVE IInv'
  OBVIOUS
<1> USE SizeNat DEF IInv
<1>0. /\ boot = "read_head" /\ boot' = "install" /\ lh' = head
      /\ UNCHANGED <<outstanding, committing, cache, disk, logarea, head, pc, tail>>
  BY DEF read_head
<1>1. (\A t \in Ops : pc[t] = "idle") /\ tail = 0
  BY <1>0 DEF OneCommitter, TailReset, Installing
<1>2. Types' /\ CallsCounted'
  BY <1>0 DEF Types, CallsCounted, OpenOps
<1>3. OneCommitter' /\ LogInUse' /\ LoggedOnce' /\ UnloggedIsHome' /\ HeadOnlyCommitted'
  BY <1>0
     DEF OneCommitter, LogInUse, LoggedOnce, UnloggedIsHome, HeadOnlyCommitted, InCommit
<1>4. Copied' /\ Installed' /\ TailReset'
  BY <1>0, <1>1 DEF Copied, Installed, Installing, TailReset, Types
<1>5. QED
  BY <1>2, <1>3, <1>4

\* recover_from_log empties the log and the system is up.
LEMMA ClearStep == IInv /\ recover_clear => IInv'
<1> SUFFICES ASSUME IInv, recover_clear PROVE IInv'
  OBVIOUS
<1> USE SizeNat DEF IInv
<1>0. /\ boot = "install" /\ boot' = "up" /\ lh' = <<>> /\ head' = <<>> /\ tail' = 0
      /\ UNCHANGED <<outstanding, committing, cache, disk, logarea, pc>>
  BY DEF recover_clear, Erase
<1>1. \A t \in Ops : pc[t] = "idle"
  BY <1>0 DEF OneCommitter
<1>2. Types' /\ CallsCounted'
  BY <1>0 DEF Types, CallsCounted, OpenOps
<1>3. OneCommitter' /\ LogInUse' /\ LoggedOnce' /\ UnloggedIsHome' /\ HeadOnlyCommitted'
  BY <1>0, <1>1
     DEF OneCommitter, LogInUse, LoggedOnce, UnloggedIsHome, HeadOnlyCommitted, InCommit
<1>4. Copied' /\ Installed' /\ TailReset'
  BY <1>0, <1>1 DEF Copied, Installed, Installing, TailReset
<1>5. QED
  BY <1>2, <1>3, <1>4

\* Every step keeps the invariant.
LEMMA NextIInv == IInv /\ [Next]_vars => IInv'
<1> SUFFICES ASSUME IInv, [Next]_vars PROVE IInv'
  OBVIOUS
<1>1. CASE UNCHANGED vars
  <2>1. Types'
    BY <1>1 DEF IInv, vars, Types
  <2>2. CallsCounted' /\ OneCommitter'
    BY <1>1 DEF IInv, vars, CallsCounted, OpenOps, OneCommitter, InCommit
  <2>3. LoggedOnce' /\ UnloggedIsHome' /\ LogInUse'
    BY <1>1 DEF IInv, vars, LoggedOnce, UnloggedIsHome, LogInUse
  <2>4. HeadOnlyCommitted' /\ Copied'
    BY <1>1 DEF IInv, vars, HeadOnlyCommitted, Copied
  <2>5. Installed' /\ TailReset'
    BY <1>1 DEF IInv, vars, Installed, Installing, TailReset
  <2>6. QED
    BY <2>1, <2>2, <2>3, <2>4, <2>5 DEF IInv
<1>2. ASSUME NEW t \in Ops, begin_op(t) \/ begin_op_again(t) PROVE IInv'
  <2>1. boot = "up" /\ pc[t] \in {"idle", "begin"} /\ Reserve(t)
        /\ UNCHANGED <<committing, lh, cache, disk, logarea, head, tail, boot>>
    BY <1>2 DEF begin_op, begin_op_again, IInv, OneCommitter
  <2>2. QED
    BY <2>1, ReserveStep
<1>3. ASSUME NEW t \in Ops, install_trans(t) PROVE IInv'
  BY <1>3, InstallStep DEF install_trans, Installing
<1>4. CASE recover_install
  BY <1>4, InstallStep DEF recover_install, Installing
<1>5. QED
  BY <1>1, <1>2, <1>3, <1>4, WriteStep, EndStep, CopyStep, CommitStep, EraseStep,
     DoneStep, CrashStep, ReadHeadStep, ClearStep
     DEF Next, Step, recover_from_log

\* The inductive invariant holds in every reachable state.
THEOREM LogInvariant == Spec => []IInv
<1>1. QED
  BY InitIInv, NextIInv, PTL DEF Spec

\* Everything written is on disk once no call and no commit is active.
THEOREM QuietMeansDurable == Spec => []QuietIsDurable
<1>1. IInv => QuietIsDurable
  <2> SUFFICES ASSUME IInv, boot = "up", outstanding = 0, ~ committing
               PROVE  disk = cache /\ head = <<>> /\ lh = <<>>
    BY DEF QuietIsDurable
  <2>1. \A t \in Ops : ~ InCommit(t)
    BY DEF IInv, OneCommitter
  <2>2. lh = <<>> /\ head = <<>>
    BY <2>1 DEF IInv, LogInUse, HeadOnlyCommitted, InCommit
  <2>3. \A b \in Blocks : cache[b] = disk[b]
    BY <2>2 DEF IInv, UnloggedIsHome
  <2>4. QED
    BY <2>2, <2>3 DEF IInv, Types
<1>2. QED
  BY <1>1, LogInvariant, PTL
-----------------------------------------------------------------------------
\* What recovery makes of each block.
RecoverySays ==
    \A b \in Blocks :
        /\ (\A i \in 1 .. Len(head) : head[i] # b) => Recovered[b] = disk[b]
        /\ \A i \in 1 .. Len(head) : head[i] = b => Recovered[b] = logarea[i]

\* What recovery makes of each block: the logged copy if the header names
\* it, the home copy if not.
LEMMA RecoveredBlock == IInv => RecoverySays
<1> SUFFICES ASSUME LoggedOnce, NEW b \in Blocks
             PROVE  /\ (\A i \in 1 .. Len(head) : head[i] # b) => Recovered[b] = disk[b]
                    /\ \A i \in 1 .. Len(head) : head[i] = b => Recovered[b] = logarea[i]
  BY DEF IInv, RecoverySays
<1> DEFINE at == {i \in 1 .. Len(head) : head[i] = b}
<1>1. Recovered[b] = IF at = {} THEN disk[b] ELSE logarea[CHOOSE i \in at : TRUE]
  BY DEF Recovered
<1>2. ASSUME NEW i \in 1 .. Len(head), head[i] = b
      PROVE  at # {} /\ (CHOOSE j \in at : TRUE) = i
  <2>1. at = {i}
    BY <1>2 DEF LoggedOnce
  <2>2. QED
    BY <2>1
<1>3. QED
  BY ZenonT(60), <1>1, <1>2

\* The same of the next state.
LEMMA RecoveredBlockAfter == IInv' => RecoverySays'
  BY RecoveredBlock, PTL

\* Two functions on Blocks that agree everywhere.
LEMMA RecoveredIs ==
  ASSUME NEW f \in [Blocks -> Vals], \A b \in Blocks : Recovered[b] = f[b]
  PROVE  Recovered = f
  BY DEF Recovered

\* Recovery brings back a value for every block.
LEMMA RecoveredType ==
  ASSUME IInv
  PROVE  Recovered \in [Blocks -> Vals]
<1>1. ASSUME NEW b \in Blocks PROVE Recovered[b] \in Vals
  <2>1. CASE \A i \in 1 .. Len(head) : head[i] # b
    BY <2>1, RecoveredBlock DEF RecoverySays, IInv, Types
  <2>2. CASE \E i \in 1 .. Len(head) : head[i] = b
    BY <2>2, RecoveredBlock DEF RecoverySays, IInv, HeadOnlyCommitted
  <2>3. QED
    BY <2>1, <2>2
<1>2. QED
  BY <1>1 DEF Recovered

\* Without a header recovery changes nothing.
LEMMA EmptyHead ==
  ASSUME IInv, head = <<>>
  PROVE  Recovered = disk
<1>1. \A b \in Blocks : Recovered[b] = disk[b]
  BY RecoveredBlock DEF RecoverySays
<1>2. QED
  BY <1>1, RecoveredIs DEF IInv, Types

\* Installing a block does not change what recovery would bring back.
LEMMA InstallKeeps ==
  ASSUME IInv, IInv', Installing, Install, UNCHANGED <<lh, logarea, head>>
  PROVE  Recovered' = Recovered
<1> DEFINE h == lh[tail + 1]
<1>1. disk' = [disk EXCEPT ![h] = logarea[tail + 1]]
      /\ head = lh /\ tail + 1 \in 1 .. Len(lh)
  BY DEF Install, Installed, IInv, Types
<1> HIDE DEF h
<1>2. ASSUME NEW b \in Blocks PROVE Recovered'[b] = Recovered[b]
  <2>1. CASE \E i \in 1 .. Len(head) : head[i] = b
    <3> PICK i \in 1 .. Len(head) : head[i] = b
      BY <2>1
    <3>1. Recovered[b] = logarea[i]
      BY RecoveredBlock DEF RecoverySays
    <3>2. Recovered'[b] = logarea'[i]
      BY RecoveredBlockAfter DEF RecoverySays
    <3>3. QED
      BY <3>1, <3>2
  <2>2. CASE \A i \in 1 .. Len(head) : head[i] # b
    <3>1. Recovered[b] = disk[b]
      BY <2>2, RecoveredBlock DEF RecoverySays
    <3>2. Recovered'[b] = disk'[b]
      BY <2>2, RecoveredBlockAfter DEF RecoverySays
    <3>3. b # h
      BY <1>1, <2>2 DEF h
    <3>4. QED
      BY <1>1, <3>1, <3>2, <3>3 DEF IInv, Types
  <2>3. QED
    BY <2>1, <2>2
<1>3. QED
  BY <1>2 DEF Recovered

\* What file system calls read: the cache, or what recovery will bring back.
current == IF boot = "up" THEN cache ELSE Recovered

\* Recovery depends on the disk, the log and the header only.
LEMMA RecoveredSame ==
  ASSUME UNCHANGED <<disk, logarea, head>>
  PROVE  Recovered' = Recovered
  BY DEF Recovered

\* Without a header in the next state recovery changes nothing there.
LEMMA EmptyHeadAfter ==
  ASSUME IInv', head' = <<>>
  PROVE  Recovered' = disk'
<1>1. \A b \in Blocks : Recovered'[b] = disk'[b]
  BY RecoveredBlockAfter DEF RecoverySays
<1>2. QED
  BY <1>1 DEF Recovered, IInv, Types

\* The initial states agree.
LEMMA InitRefines == Init => L!LogInit
<1> SUFFICES ASSUME Init PROVE L!LogInit
  OBVIOUS
<1>1. Recovered = disk /\ Recovered \in [Blocks -> Vals]
  BY InitIInv, EmptyHead, RecoveredType DEF Init
<1>2. {t \in Ops : pc[t] = "op"} = {}
  BY DEF Init
<1>3. QED
  BY <1>1, <1>2 DEF Init, L!LogInit

\* A step of the log that its callers do not see.
Stutter == UNCHANGED <<Recovered, current, OpenOps>>

\* begin_op is Begin when the reservation is made.
LEMMA ReserveRefines ==
  ASSUME IInv, NEW t \in Ops, pc[t] \in {"idle", "begin"}, boot = "up", Reserve(t),
         UNCHANGED <<cache, disk, logarea, head, boot>>
  PROVE  Stutter \/ L!Begin(t)
<1>1. Recovered' = Recovered /\ current' = current
  BY RecoveredSame DEF current
<1>2. CASE pc' = [pc EXCEPT ![t] = "sleep"]
  BY <1>1, <1>2 DEF Stutter, OpenOps, IInv, Types
<1>3. CASE pc' = [pc EXCEPT ![t] = "op"]
  <2>1. t \notin OpenOps /\ OpenOps' = OpenOps \cup {t}
    BY <1>3 DEF OpenOps, IInv, Types
  <2>2. QED
    BY <1>1, <2>1 DEF L!Begin, OpenOps, current
<1>4. QED
  BY <1>2, <1>3 DEF Reserve

\* log_write is Write, or the panic that stops the kernel.
LEMMA WriteRefines ==
  ASSUME IInv, NEW t \in Ops, log_write(t)
  PROVE  Stutter \/ L!Write(t)
<1>0. /\ UNCHANGED <<disk, logarea, head, pc, boot>> /\ pc[t] = "op"
      /\ UNCHANGED cache \/ \E b \in Blocks, v \in Vals : cache' = [cache EXCEPT ![b] = v]
  BY DEF log_write
<1>1. boot = "up"
  BY <1>0 DEF IInv, OneCommitter
<1>2. Recovered' = Recovered /\ OpenOps' = OpenOps /\ t \in OpenOps
  BY <1>0, RecoveredSame DEF OpenOps
<1>3. current = cache /\ current' = cache'
  BY <1>0, <1>1 DEF current
<1>4. QED
  BY <1>0, <1>2, <1>3 DEF Stutter, L!Write, OpenOps, current

\* end_op is End.
LEMMA EndRefines ==
  ASSUME IInv, NEW t \in Ops, end_op(t)
  PROVE  L!End(t)
<1>1. /\ UNCHANGED <<cache, disk, logarea, head, boot>> /\ pc[t] = "op"
  BY DEF end_op
<1>2. t \in OpenOps /\ OpenOps' = OpenOps \ {t}
  BY <1>1 DEF end_op, WakeupAfter, OpenOps, IInv, Types
<1>3. Recovered' = Recovered /\ current' = current
  BY <1>1, RecoveredSame DEF current
<1>4. QED
  BY <1>2, <1>3 DEF L!End, OpenOps, current

\* Copying to the log is not seen: the header does not name the copies.
LEMMA CopyRefines ==
  ASSUME IInv, IInv', NEW t \in Ops, write_log(t)
  PROVE  Stutter
<1>1. pc[t] = "write_log" /\ UNCHANGED <<cache, disk, head, pc, boot>>
  BY DEF write_log
<1>2. head = <<>> /\ head' = <<>> /\ boot = "up"
  BY <1>1 DEF IInv, OneCommitter, InCommit, HeadOnlyCommitted
<1>3. QED
  BY <1>1, <1>2, EmptyHead, EmptyHeadAfter DEF Stutter, current, OpenOps

\* write_head is Commit: what recovery brings back becomes what calls read.
LEMMA CommitRefines ==
  ASSUME IInv, IInv', NEW t \in Ops, write_head(t)
  PROVE  L!Commit
<1>0. /\ pc[t] = "write_log" /\ tail = Len(lh) /\ head' = lh
      /\ pc' = [pc EXCEPT ![t] = "install"]
      /\ UNCHANGED <<lh, cache, disk, logarea, boot>>
  BY DEF write_head, Goto
<1>1. boot = "up" /\ boot' = "up" /\ outstanding = 0
  BY <1>0 DEF IInv, OneCommitter, InCommit
<1>2. OpenOps = {} /\ OpenOps' = {}
  BY <1>0, <1>1, NoneOpen DEF IInv, OpenOps, Types
<1>3. ASSUME NEW b \in Blocks PROVE Recovered'[b] = cache[b]
  <2>1. CASE \E i \in 1 .. Len(lh) : lh[i] = b
    <3> PICK i \in 1 .. Len(lh) : lh[i] = b
      BY <2>1
    <3>1. Recovered'[b] = logarea[i]
      BY ZenonT(60), <1>0, RecoveredBlockAfter DEF RecoverySays
    <3>2. logarea[i] = cache[b]
      BY <1>0 DEF IInv, Copied
    <3>3. QED
      BY <3>1, <3>2
  <2>2. CASE \A i \in 1 .. Len(lh) : lh[i] # b
    <3>1. Recovered'[b] = disk[b]
      BY <1>0, <2>2, RecoveredBlockAfter DEF RecoverySays
    <3>2. QED
      BY <2>2, <3>1 DEF IInv, UnloggedIsHome
  <2>3. QED
    BY <2>1, <2>2
<1>4. Recovered' = cache
  BY ZenonT(60), <1>3 DEF Recovered, IInv, Types
<1>5. QED
  BY <1>0, <1>1, <1>2, <1>4 DEF L!Commit, OpenOps

\* Installing is not seen, while committing or recovering.
LEMMA InstallRefines ==
  ASSUME IInv, IInv', Installing, Install,
         UNCHANGED <<outstanding, committing, lh, logarea, head, pc, boot>>
  PROVE  Stutter
<1>1. Recovered' = Recovered
  BY InstallKeeps
<1>2. current' = current
  BY <1>1, InstallStep DEF current
<1>3. QED
  BY <1>1, <1>2 DEF Stutter, OpenOps

\* Nor is clearing the log, in either place.
LEMMA EraseRefines ==
  ASSUME IInv, IInv', Installing, Erase, UNCHANGED <<cache, disk>>, boot' = "up",
         OpenOps' = OpenOps
  PROVE  Stutter
<1>1. cache = disk /\ \A i \in 1 .. Len(head) : disk[head[i]] = logarea[i]
  BY EraseFacts
<1>2. Recovered' = disk
  BY EmptyHeadAfter DEF Erase
<1>3. ASSUME NEW b \in Blocks PROVE Recovered[b] = disk[b]
  BY <1>1, RecoveredBlock DEF RecoverySays
<1>4. Recovered = disk
  BY ZenonT(60), <1>3, RecoveredIs DEF IInv, Types
<1>5. QED
  BY <1>1, <1>2, <1>4 DEF Stutter, current

\* A crash loses what was not committed and nothing else.
LEMMA CrashRefines ==
  ASSUME IInv, Crash
  PROVE  L!Crash
<1>1. /\ boot' = "read_head" /\ pc' = [t \in Ops |-> "idle"]
      /\ UNCHANGED <<disk, logarea, head>>
  BY DEF Crash
<1>2. Recovered' = Recovered
  BY <1>1, RecoveredSame
<1>3. OpenOps' = {}
  BY <1>1 DEF OpenOps
<1>4. QED
  BY <1>1, <1>2, <1>3 DEF L!Crash, OpenOps

\* Every step of the log is a step of atomic transactions or is not seen.
LEMMA StepRefines ==
  ASSUME IInv, IInv', [Next]_vars
  PROVE  L!LogNext \/ Stutter
<1>1. CASE UNCHANGED vars
  BY <1>1, RecoveredSame DEF vars, Stutter, current, OpenOps
<1>2. ASSUME NEW t \in Ops, begin_op(t) \/ begin_op_again(t) PROVE Stutter \/ L!Begin(t)
  <2>1. boot = "up" /\ pc[t] \in {"idle", "begin"} /\ Reserve(t)
        /\ UNCHANGED <<cache, disk, logarea, head, boot>>
    BY <1>2 DEF begin_op, begin_op_again, IInv, OneCommitter
  <2>2. QED
    BY <2>1, ReserveRefines
<1>3. ASSUME NEW t \in Ops, install_trans(t) PROVE Stutter
  BY <1>3, InstallRefines DEF install_trans, Installing
<1>4. CASE recover_install
  BY <1>4, InstallRefines DEF recover_install, Installing
<1>5. ASSUME NEW t \in Ops, commit_erase(t) PROVE Stutter
  <2>1. pc[t] = "install" /\ pc' = [pc EXCEPT ![t] = "done"]
        /\ UNCHANGED <<cache, disk, boot>> /\ Erase
    BY <1>5 DEF commit_erase, Goto
  <2>2. boot = "up" /\ OpenOps' = OpenOps
    BY <2>1 DEF IInv, OneCommitter, OpenOps, Types
  <2>3. QED
    BY <2>1, <2>2, EraseRefines DEF Installing
<1>6. CASE recover_clear
  BY <1>6, EraseRefines DEF recover_clear, Installing, OpenOps
<1>7. ASSUME NEW t \in Ops, end_op_done(t) PROVE Stutter
  <2>1. UNCHANGED <<cache, disk, logarea, head, boot>> /\ OpenOps' = OpenOps
    BY <1>7 DEF end_op_done, WakeupAfter, OpenOps, IInv, Types
  <2>2. QED
    BY <2>1, RecoveredSame DEF Stutter, current
<1>8. CASE read_head
  BY <1>8, RecoveredSame DEF read_head, Stutter, current, OpenOps
<1>9. QED
  BY <1>1, <1>2, <1>3, <1>4, <1>5, <1>6, <1>7, <1>8, WriteRefines, EndRefines,
     CopyRefines, CommitRefines, CrashRefines
     DEF Next, Step, recover_from_log, L!LogNext

\* The log implements atomic transactions, whatever the size of the log and
\* wherever crashes fall.
THEOREM LogRefinement == Spec => ImplementsLog
<1>1. IInv /\ IInv' /\ [Next]_vars =>
        [L!LogNext]_<<Recovered, IF boot = "up" THEN cache ELSE Recovered,
                      {t \in Ops : pc[t] = "op"}>>
  BY StepRefines DEF Stutter, current, OpenOps
<1>2. QED
  BY <1>1, InitRefines, LogInvariant, PTL DEF Spec, ImplementsLog, L!LogSafety
=============================================================================
