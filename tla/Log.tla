-------------------------------- MODULE Log --------------------------------
(***************************************************************************)
(* The file system log (kernel/log.c): concurrent file system calls that   *)
(* share one transaction, commit, crashes at any step and recovery.        *)
(*                                                                         *)
(* A disk write is synchronous and atomic for one block, the header block  *)
(* included.  cache is what the buffer cache holds of the home blocks; a   *)
(* block of the transaction stays there because log_write pins it, and any *)
(* other block is the same in the cache and on disk.  Critical sections of *)
(* log.lock are single steps, and wakeup(&log) sends every sleeper back to *)
(* the test in begin_op.                                                   *)
(***************************************************************************)
EXTENDS Integers, Sequences, FiniteSets, Functions

CONSTANTS
    Ops,                \* processes that make file system calls
    Blocks,             \* home blocks
    Vals,
    MAXOPBLOCKS, LOGSIZE,
    OpWrites,           \* bound: log_write calls a file system call makes
    MaxOps,             \* bound: file system calls made in all
    MaxCrashes,         \* bound: crashes
    None

ASSUME LogAssumption ==
    /\ {MAXOPBLOCKS, LOGSIZE, OpWrites} \subseteq Nat \ {0}
    /\ OpWrites <= MAXOPBLOCKS
    /\ {MaxOps, MaxCrashes} \subseteq Nat
    /\ IsFiniteSet(Ops)

VARIABLES
    outstanding, committing,    \* of struct log
    lh,         \* log.lh: the block numbers of the transaction
    cache,      \* the home blocks as the buffer cache holds them
    disk,       \* the home blocks on disk
    logarea,    \* the log blocks on disk
    head,       \* the header block on disk
    pc,         \* where each process is
    left,       \* left[t]: writes t may still make in its call
    tail,       \* the loop variable of write_log and install_trans
    boot,       \* "up", or where recover_from_log is
    panic,      \* log_write called panic("too big a transaction")
    calls, crashes

vars == <<outstanding, committing, lh, cache, disk, logarea, head, pc, left, tail,
          boot, panic, calls, crashes>>

size == LOGSIZE                 \* log.size = sb->nlog, which mkfs sets to LOGSIZE

TypeOK ==
    /\ outstanding \in 0 .. Cardinality(Ops)
    /\ committing \in BOOLEAN /\ panic \in BOOLEAN
    /\ lh \in Seq(Blocks) /\ head \in Seq(Blocks)
    /\ Len(lh) <= LOGSIZE /\ Len(head) <= LOGSIZE
    /\ cache \in [Blocks -> Vals] /\ disk \in [Blocks -> Vals]
    /\ logarea \in [1 .. LOGSIZE -> Vals \cup {None}]
    /\ pc \in [Ops -> {"idle", "sleep", "begin", "op", "write_log", "install", "done"}]
    /\ left \in [Ops -> 0 .. OpWrites]
    /\ tail \in 0 .. LOGSIZE
    /\ boot \in {"up", "read_head", "install"}
    /\ calls \in 0 .. MaxOps /\ crashes \in 0 .. MaxCrashes

Init ==
    /\ outstanding = 0 /\ committing = FALSE /\ panic = FALSE
    /\ lh = <<>> /\ head = <<>>
    /\ \E v \in Vals : disk = [b \in Blocks |-> v]
    /\ cache = disk
    /\ logarea = [i \in 1 .. LOGSIZE |-> None]
    /\ pc = [t \in Ops |-> "idle"]
    /\ left = [t \in Ops |-> 0]
    /\ tail = 0 /\ boot = "up"
    /\ calls = MaxOps /\ crashes = MaxCrashes

Goto(t, from, to) == ~ panic /\ pc[t] = from /\ pc' = [pc EXCEPT ![t] = to]

\* wakeup(&log), after thread t went to l.
WakeupAfter(t, l) ==
    pc' = [u \in Ops |-> IF u = t THEN l ELSE IF pc[u] = "sleep" THEN "begin" ELSE pc[u]]
-----------------------------------------------------------------------------
\* One pass of the loop in begin_op: wait, or reserve MAXOPBLOCKS blocks.
Reserve(t) ==
    IF committing \/ Len(lh) + (outstanding + 1) * MAXOPBLOCKS > LOGSIZE
    THEN pc' = [pc EXCEPT ![t] = "sleep"] /\ UNCHANGED <<outstanding, left>>
    ELSE /\ pc' = [pc EXCEPT ![t] = "op"]
         /\ outstanding' = outstanding + 1
         /\ left' = [left EXCEPT ![t] = OpWrites]

begin_op(t) ==
    /\ ~ panic /\ boot = "up" /\ pc[t] = "idle"
    /\ calls > 0 /\ calls' = calls - 1
    /\ Reserve(t)
    /\ UNCHANGED <<committing, lh, cache, disk, logarea, head, tail, boot, panic, crashes>>

begin_op_again(t) ==
    /\ ~ panic /\ pc[t] = "begin"
    /\ Reserve(t)
    /\ UNCHANGED <<committing, lh, cache, disk, logarea, head, tail, boot, panic, calls, crashes>>

\* Fault: no log absorption.
Absorb_never(b) == Append(lh, b)

\* The transaction with block b: a block is logged once.
Absorb(b) == IF b \in Range(lh) THEN lh ELSE Append(lh, b)

\* The call changes a block it holds locked in the cache, then logs it.
log_write(t) ==
    /\ ~ panic /\ pc[t] = "op"
    /\ left[t] > 0 /\ left' = [left EXCEPT ![t] = @ - 1]
    /\ IF Len(lh) >= LOGSIZE \/ Len(lh) >= size - 1
       THEN panic' = TRUE /\ UNCHANGED <<cache, lh>>
       ELSE /\ \E b \in Blocks, v \in Vals :
                  /\ cache' = [cache EXCEPT ![b] = v]
                  /\ lh' = Absorb(b)
            /\ UNCHANGED panic
    /\ UNCHANGED <<outstanding, committing, disk, logarea, head, pc, tail, boot, calls, crashes>>

end_op(t) ==
    /\ ~ panic /\ pc[t] = "op"
    /\ outstanding' = outstanding - 1
    /\ left' = [left EXCEPT ![t] = 0]
    /\ IF outstanding' = 0
       THEN /\ committing' = TRUE
            /\ pc' = [pc EXCEPT ![t] = IF lh = <<>> THEN "done" ELSE "write_log"]
       ELSE UNCHANGED committing /\ WakeupAfter(t, "idle")
    /\ UNCHANGED <<lh, cache, disk, logarea, head, tail, boot, panic, calls, crashes>>

\* Fault: the block number is logged in place of the data.
write_log_number(t) ==
    /\ ~ panic /\ pc[t] = "write_log" /\ tail < Len(lh)
    /\ logarea' = [logarea EXCEPT ![tail + 1] = lh[tail + 1]]
    /\ tail' = tail + 1
    /\ UNCHANGED <<outstanding, committing, lh, cache, disk, head, pc, left, boot, panic, calls,
                   crashes>>

write_log(t) ==                 \* one log block
    /\ ~ panic /\ pc[t] = "write_log" /\ tail < Len(lh)
    /\ logarea' = [logarea EXCEPT ![tail + 1] = cache[lh[tail + 1]]]
    /\ tail' = tail + 1
    /\ UNCHANGED <<outstanding, committing, lh, cache, disk, head, pc, left, boot, panic, calls,
                   crashes>>

\* Fault: the header is written before the log blocks.
write_head_early(t) ==
    /\ Goto(t, "write_log", "install")
    /\ head' = lh
    /\ tail' = 0
    /\ UNCHANGED <<outstanding, committing, lh, cache, disk, logarea, left, boot, panic, calls,
                   crashes>>

\* Fault: the installation is left to recovery.
write_head_only(t) ==
    /\ Goto(t, "write_log", "done") /\ tail = Len(lh)
    /\ head' = lh
    /\ lh' = <<>> /\ tail' = 0
    /\ UNCHANGED <<outstanding, committing, cache, disk, logarea, left, boot, panic, calls, crashes>>

write_head(t) ==                \* the real commit
    /\ Goto(t, "write_log", "install") /\ tail = Len(lh)
    /\ head' = lh
    /\ tail' = 0
    /\ UNCHANGED <<outstanding, committing, lh, cache, disk, logarea, left, boot, panic, calls,
                   crashes>>

\* install_trans: one block, home on disk and in the cache.
Install ==
    /\ tail < Len(lh)
    /\ disk' = [disk EXCEPT ![lh[tail + 1]] = logarea[tail + 1]]
    /\ cache' = [cache EXCEPT ![lh[tail + 1]] = logarea[tail + 1]]
    /\ tail' = tail + 1

install_trans(t) ==
    /\ ~ panic /\ pc[t] = "install" /\ Install
    /\ UNCHANGED <<outstanding, committing, lh, logarea, head, pc, left, boot, panic, calls, crashes>>

Erase == tail = Len(lh) /\ lh' = <<>> /\ head' = <<>> /\ tail' = 0

commit_erase(t) ==              \* log.lh.n = 0; write_head()
    /\ Goto(t, "install", "done") /\ Erase
    /\ UNCHANGED <<outstanding, committing, cache, disk, logarea, left, boot, panic, calls, crashes>>

\* Fault: sleepers in begin_op are not woken.
end_op_done_silent(t) ==
    /\ Goto(t, "done", "idle")
    /\ committing' = FALSE
    /\ UNCHANGED <<outstanding, lh, cache, disk, logarea, head, left, tail, boot, panic, calls, crashes>>

end_op_done(t) ==               \* committing = 0; wakeup(&log)
    /\ ~ panic /\ pc[t] = "done"
    /\ committing' = FALSE
    /\ WakeupAfter(t, "idle")
    /\ UNCHANGED <<outstanding, lh, cache, disk, logarea, head, left, tail, boot, panic, calls, crashes>>
-----------------------------------------------------------------------------
\* The machine stops: memory is lost, what was written to disk stays.
Crash ==
    /\ crashes > 0 /\ crashes' = crashes - 1
    /\ ~ panic
    /\ boot' = "read_head"
    /\ outstanding' = 0 /\ committing' = FALSE /\ lh' = <<>> /\ tail' = 0
    /\ cache' = disk
    /\ pc' = [t \in Ops |-> "idle"]
    /\ left' = [t \in Ops |-> 0]
    /\ UNCHANGED <<disk, logarea, head, panic, calls>>

\* recover_from_log: read_head, install_trans(1), clear the log.
read_head ==
    /\ boot = "read_head"
    /\ lh' = head
    /\ boot' = "install"
    /\ UNCHANGED <<outstanding, committing, cache, disk, logarea, head, pc, left, tail, panic, calls,
                   crashes>>

recover_install ==
    /\ boot = "install" /\ Install
    /\ UNCHANGED <<outstanding, committing, lh, logarea, head, pc, left, boot, panic, calls, crashes>>

recover_clear ==
    /\ boot = "install" /\ Erase
    /\ boot' = "up"
    /\ UNCHANGED <<outstanding, committing, cache, disk, logarea, pc, left, panic, calls, crashes>>

recover_from_log == read_head \/ recover_install \/ recover_clear

Step(t) ==
    \/ begin_op_again(t) \/ end_op(t)
    \/ write_log(t) \/ write_head(t) \/ install_trans(t) \/ commit_erase(t) \/ end_op_done(t)

Next ==
    \/ \E t \in Ops : begin_op(t) \/ log_write(t) \/ Step(t)
    \/ Crash \/ recover_from_log

Spec == Init /\ [][Next]_vars

\* Runnable processes run, file system calls end, and recovery goes on.
Fairness == WF_vars(recover_from_log) /\ \A t \in Ops : WF_vars(Step(t))

FairSpec == Spec /\ Fairness
-----------------------------------------------------------------------------
\* The disk as recover_from_log would leave it.
Recovered ==
    [b \in Blocks |->
        LET at == {i \in 1 .. Len(head) : head[i] = b}
        IN  IF at = {} THEN disk[b] ELSE logarea[CHOOSE i \in at : TRUE]]

L == INSTANCE LogSpec WITH
        durable <- Recovered,
        current <- IF boot = "up" THEN cache ELSE Recovered,
        open <- {t \in Ops : pc[t] = "op"}

\* The log implements atomic transactions across crashes at any step, in commit
\* and in recovery too: what recovery brings back changes only in write_head,
\* to what the calls had written, when no call is active.
ImplementsLog == L!LogSafety

\* When no call is active and no commit is under way, everything written so far
\* is on disk and the log is empty: the last end_op returns after the install.
QuietIsDurable ==
    boot = "up" /\ outstanding = 0 /\ ~ committing =>
        disk = cache /\ head = <<>> /\ lh = <<>>

\* The space that begin_op reserves is enough: log_write never panics with "too
\* big a transaction", however calls that write at most MAXOPBLOCKS blocks
\* overlap.
NoTooBig == ~ panic

\* A process that waits in begin_op for a commit or for log space gets its turn,
\* unless the machine crashes: wakeup(&log) is never missed.
BeginReturns ==
    \A t \in Ops : pc[t] \in {"sleep", "begin"} ~> pc[t] \in {"op", "idle"}
=============================================================================
