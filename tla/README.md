# TLA+ models of the kernel

This directory holds models of the xv6-riscv kernel of this repository as it was
extended with signals, kernel threads and semaphores. They are written from the
code under `src/`; a definition has the name of the function it models wherever
TLA+ allows it, and `PROJECT.json` gives the lines for each.

## The system

| part | code | state | operations |
|---|---|---|---|
| counting semaphores | `user/Csemaphore.c` | `count`, two binary semaphores | `csem_alloc`, `csem_down`, `csem_up`, `csem_free` |
| binary semaphores | `kernel/proc.c` | `bsems[]`, `pid_lock`, one channel | `bsem_alloc`, `bsem_free`, `bsem_down`, `bsem_up` |
| sleep and wakeup | `kernel/proc.c` | `t->state`, `t->chan`, `p->lock` | `sleep`, `wakeup`, the end of a sleep in `kill` |
| scheduler, spinlocks, timer | `kernel/proc.c`, `spinlock.c`, `trap.c`, `sysproc.c` | `struct cpu`, contexts, locks | `scheduler`, `sched`, `yield`, `forkret`, `acquire`, `release`, `clockintr`, `sys_sleep` |
| signals | `kernel/proc.c`, `trap.c`, `exec.c` | pending bits, masks, handlers, flags, trap frames | `kill`, `handling_signals`, `usersignal`, `sigaction`, `sigprocmask`, `sigret`, `exec` |
| processes | `kernel/proc.c`, `user/init.c` | `p->state`, `p->parent`, `wait_lock` | `fork`, `exit`, `reparent`, `wait`, `kill` |
| kernel threads | `kernel/proc.c`, `kalloc.c` | thread slots, kernel stacks, contexts | `kthread_create`, `kthread_exit`, `kthread_join`, `Treparent` |
| file system log | `kernel/log.c` | `struct log`, log blocks and header on disk | `begin_op`, `log_write`, `end_op`, `commit`, `recover_from_log` |
| buffer cache, sleep locks | `kernel/bio.c`, `sleeplock.c` | LRU list, reference counts, sleep locks | `bget`, `bread`, `bwrite`, `brelse`, `bpin`, `bunpin` |
| pipes | `kernel/pipe.c` | ring, two counters, two ends | `pipealloc`, `pipewrite`, `piperead`, `pipeclose` |
| open files | `kernel/file.c`, `sysfile.c` | file table, descriptors | `filealloc`, `filedup`, `fileclose`, `fileread`, `filewrite`, `sys_pipe`, `sys_dup`, ... |
| disk driver | `kernel/virtio_disk.c` | descriptors, rings | `virtio_disk_rw`, `virtio_disk_intr` |
| inodes and directories | `kernel/fs.c`, `sysfile.c` | disk inodes, inode table, entries | `iget`, `ilock`, `iput`, `ialloc`, `namex`, `create`, `sys_link`, `sys_unlink`, `sys_open`, `sys_chdir` |
| contents of files | `kernel/fs.c`, `file.c` | bitmap, blocks, `addrs`, `size` | `balloc`, `bfree`, `bmap`, `itrunc`, `readi`, `writei` |
| memory | `kernel/kalloc.c`, `vm.c`, `exec.c`, `proc.c` | free list, page tables | `kalloc`, `kfree`, `walk`, `mappages`, `uvm*`, `copyin`, `copyout`, `growproc`, `exec` |
| console, UART | `kernel/console.c`, `uart.c` | input and output rings | `consoleread`, `consoleintr`, `uartputc`, `uartintr` |

They interact through three mechanisms: spinlocks, which disable interrupts;
`sleep`/`wakeup`, which everything that blocks is built on; and `p->lock`, which
is held across a context switch. The counting semaphore is built on the binary
one, the binary one on `sleep`/`wakeup`, and these on the scheduler. The models
follow that order.

What is hard about this code: several CPUs; read-modify-write of
`p->pendingSignals` without a lock; a thread that is still on its stack when its
slot is reused; one process's threads sharing signal state; wakeups sent before
the condition holds; crashes between any two disk writes. `PROJECT.json` lists
the hazards at their lines.

## Modules

| module | models | implements |
|---|---|---|
| `CsemSpec` | a counting semaphore as its callers see it | |
| `Csem` | `csem_down`, `csem_up`, each load, store and system call a step | `CsemSpec` |
| `Csem_proof` | the proofs about `Csem` | |
| `BsemSpec`, `BsemAtomic` | the semaphore table, and calls on it with one atomic effect | |
| `SleepWakeup` | `sleep` in its five steps, `wakeup` process by process, `kill` | |
| `Bsem` | the binary semaphores on top of `SleepWakeup` | `BsemAtomic` |
| `Bsem_proof` | the proofs about `Bsem` | |
| `Sched` | CPUs, interrupts, spinlocks, context switches, `sys_sleep` | |
| `SchedInv_proof`, `SchedStep_proof`, `Sched_proof` | the proofs about `Sched` | |
| `Signals` | signals of one process with one or more threads | |
| `Procs` | `fork`, `exit`, `wait`, `kill` on top of `SleepWakeup` | |
| `Procs_proof` | the proofs about `Procs` | |
| `KThreads` | the thread slots of one process slot, stacks included | |
| `LogSpec` | atomic transactions | |
| `Log` | the log, with crashes and recovery | `LogSpec` |
| `Log_proof` | the proofs about `Log` | |
| `VirtioDisk` | the disk driver, its rings and the device behind them | |
| `Bcache` | the buffer cache and sleep locks on top of `VirtioDisk` | |
| `Files` | open files, descriptors and pipes under `fork`, `exit` and `kill` | |
| `Files_proof` | the proofs about the pipes of `Files` | |
| `Fs` | inodes, directories and paths under the file system calls | |
| `Inode` | the blocks of files under `fileread` and `filewrite` | |
| `ConsoleSpec` | the console as queues of characters | |
| `Console` | the console and the UART driver | `ConsoleSpec` |
| `Vm` | physical pages and address spaces | |
| `MC...` | the instances TLC checks; `MCFileIO` has `Inode` and `Console` in one | |

`Csem` uses the four actions of `BsemSpec` as its system calls, and `Bsem`
implements the same actions through `BsemAtomic`, so the two models fit
together. `Bsem` and `Procs` use `SleepWakeup`, and `Bcache` extends `VirtioDisk`.
The models that came later (`VirtioDisk` and below) take `sleep` as one step that
gives up the lock and sleeps. `Bsem` shows that this is how the detailed `sleep`
looks to a caller that tests its condition under the lock.

An operator with a comment `Fault:` above it is a variant of the definition below
it with a plausible mistake. No specification uses it; it serves to see that
the property it is listed with in `PROJECT.json` notices the mistake.

### What the models leave out

* `Csem`: `csem_alloc` is its result, and a thread does not call `csem_free`.
* `SleepWakeup`: leaving the CPU and coming back are one step each; `Sched` has
  the details.
* `Sched`: threads are created beforehand and none exits; `kill` is elsewhere.
  The bound on `ticks` is avoided by keeping the ticks a sleeper has left.
* `Signals`: a trap frame is the code it resumes and the fate of `a0`. The stop
  loop's `yield` is waiting. `kill` has already found its process.
* `Bsem`: of `fork` only what `allocproc` does with `p->lock` and `pid_lock`. The new
  process makes no calls.
* `Procs`: one thread per process, no failing allocations, no files. `kill` is
  `SIGKILL` of a process other than init.
* `KThreads`: one process slot; threads do not block in the kernel, and closing the
  files in `exit` is one step; `wait` by the parent is one step. Two `exit`s of one
  process that overlap are left out, and so is what a thread does once its stack and
  page table have been freed under it: the model stops there.
* `Log`: the buffer cache is the contents of the blocks; a disk write is atomic.
* `VirtioDisk`: `virtio_disk_init` is the initial state, empty rings and free
  descriptors; its register protocol is left out. The device completes requests in
  any order and never fails one. `Bcache`: of the log only the pins and the
  installation, in `install_trans`. `bget` panics when every buffer is in use
  or pinned; the three calls of the instance do not get there, and the panic is not
  followed.
* `Files`: one thread per process; inodes are closed and no more. Byte n written
  to a pipe has the value n.
* `Fs`: names are model values, a directory has room for every entry, `.` is left
  out; the log makes a call atomic on the disk, so there are no crashes here.
* `Inode`: a step is what happens under the inode's lock, in `filewrite` one chunk.
  A copy from user space may fail after any byte of a block. What the buffer has then
  and the log has not is `unlogged`, until the block is logged by another write or its
  buffer is recycled. Of `sys_open` only the end, which resets the offset and
  truncates. When `balloc` finds no block the kernel panics and the model stops.
* `Console`: `^P` (a listing of processes) and the loops of a panicked kernel.
  `uartinit` is the initial state, with the FIFOs and interrupts enabled. The UART
  loses nothing that it accepted: an echo that is written while the interrupt handler
  sends output relies on the FIFO that `uartinit` enables.
* `Vm`: other users of memory take and return pages before each step, and an ELF
  file is its segments. A call is one step except where sibling threads of a process
  meet on `p->sz` and the page table, neither of which has a lock: `fork` is three
  steps (the arguments of `uvmcopy`, the copy, `np->sz = p->sz`) and `exec` may have a
  sibling's `sbrk` between reading `oldsz` and using it. Two `sbrk`s of one process do
  not overlap, and a sibling does not go on in a page table that `exec` has freed.

`FrameMatches` of `KThreads` fails: a created thread gets another trap frame than the one
`allocthread` fills. The other models with several threads assume that registers
are preserved, and check the synchronisation.

## Runs

| run | instance | what it checks |
|---|---|---|
| `Csem` | 3 threads, 2 calls each, counts 0 to 2 | `NeverOverdrawn`, the refinement `ImplementsCsem`, and `Drains`: nobody waits for good while a unit is there |
| `Bsem` | 3 threads of 2 processes, 2 semaphores, a free process slot; 4 calls, forks and kills | the refinement `ImplementsBsem`; `Drains`: nobody waits for good, `Inverted` excepted |
| `Sched` | 2 CPUs, 2 threads of 1 process, sleeps up to 1 tick | `OneCpuPerThread`, `NoPanic`, `InterruptStateKept`, no deadlock; `RunnableRuns`, `SleepReturns` |
| `Signals` | 1 thread, 1 sender, 2 signals sent, 3 calls, two signals that may have a handler | `BackupIsProgram`, two handlers set up in one pass excepted; `MaskRestored`, `KilledExitsUnlessStopped`, `ContResumes` |
| `Procs` | 4 slots, 3 forks, 1 kill | `ParentAlive`, `FreedOnlyWhenGone`, `WaitReturns` |
| `KThreads` | 3 slots, 2 pages, 2 processes in turn with 2 creations each, any calls in any order | `FreedProcessIsIdle`, what `exit` left running excepted; `StacksOwned`, stacks freed again excepted; `ProcessEnds` |
| `Log` | 3 processes, 2 blocks, 4 calls, 2 crashes | the refinement `ImplementsLog`, `BeginReturns` |
| `Bcache` | 3 threads of 2 processes, 3 buffers, 4 blocks, 7 descriptors, 3 calls or kills | `Coherent`: who holds a buffer sees what the last holder left; `NothingLost`: what was changed is in a buffer or on the disk; `DescriptorsOwned`; `SleepersJustified`: nobody sleeps for what has happened; no deadlock |
| `Files` | 2 processes, 3 files, 2 descriptors each, a pipe of 2 bytes | `RefsExact`: reference counts and open ends are the descriptors and calls that use them; `Fifo`: a pipe is a queue; `SleepersJustified` |
| `Fs` | 2 processes, 4 inodes, 12 calls to choose from, 4 made | `NoDangling`: entries and references lead to allocated inodes; `CacheCurrent`: a loaded inode agrees with the disk; `IputNeverBlocks`: what the comment in `iput` says of `acquiresleep` |
| `FileIO` | 2 files on 2 inodes of 1 direct and 2 indirect blocks, a disk of 6 blocks, 4 calls; 2 readers or 2 writers on a console with 3 and 2 characters | `ReadsWhatWasWritten`, bytes of a copy that failed within a block excepted; `BlocksOwned`; `FitsLog`: a write logs no more than its transaction may; `ConsoleSleepers`, the refinement `ImplementsConsole`; no deadlock |
| `Vm` | 2 processes with sibling threads, 38 pages, 4 programs, 3 increments | `PagesOwned`: no page is lost or has two owners; `MappedMatchesSize`: after every failure too, processes made while a sibling changed the size excepted; `CopyMatches`: `copyin`, `copyout` and `copyinstr` reach the bytes they should |

The modules with a state of their own, except `Console`, have a type invariant
`TypeOK` (that of `Bcache` covers `VirtioDisk`, those of `Bsem` and `Procs` cover
`SleepWakeup`). It holds in the instances above. The configurations leave it out to
list only what says something about the code. The proofs below establish it for
`Csem`, `Sched`, `Bsem` and `Procs`, for the variables of `Log` that its callers
depend on (`Types`), and for the pipes of `Files`. The variables of `Console` are typed by its refinement.

Seven properties have an exception. A history variable records when it applies: `setups`
for `BackupIsProgram`, `stray` for `FreedProcessIsIdle`, `stray` and `twice` for `StacksOwned`,
`torn` for `ReadsWhatWasWritten`, `raced` for `MappedMatchesSize`, and the field `cut` of a pipe
for `SleepersJustified` of `Files`; for `Drains` of `Bsem` it is the state `Inverted`. Each is a case that the code gets into, that the run
reaches and that the property would be false of. The exception is no wider than that
case, and the property without it is in the list below.

### Stated and not satisfied

The modules also state what comments and tests of the code say and the code
does not do. No run repeats these; to see a counterexample, name the property in
a configuration with the constants given. Four of them have a configuration of
their own, to be run with the module named.

| module | property | constants | what happens |
|---|---|---|---|
| `Signals` | `OneHandlerPerPass` | `SignalsNested.cfg` (`MCSignals`) | `handling_signals` goes on after `usersignal`, and the second backup replaces the program's frame by the first handler's. `proc.c:920`: "copy the current process trapframe, to the trapframe backup" |
| `Procs` | `OrphansReaped` | `ProcsOrphan.cfg` (`MCProcs`) | `reparent` wakes `initproc->main_thread` while init sleeps on `initproc`, so it sleeps on with an inherited zombie. `user/init.c:41`: "this call to wait() returns if the shell exits, or if a parentless process exits." |
| `KThreads` | `ExitStopsThreads` | `KThreadsExit.cfg` | `exit` does not wait for siblings on other CPUs and `wait` frees the process under them. `proc.c:539`: "make sure the child isn't still in exit() or swtch()." |
| `Log` | `NoTooBig` | `LogFull.cfg` | calls that write `LOGSIZE` blocks in all, as `begin_op` admits, panic in `log_write`. `param.h:11`: "max data blocks in on-disk log" |
| `Signals` | `A0Restored` | as in `Signals` | the program resumes with 0 in `a0`, the result of `sys_sigret` |
| `Signals` | `ExecResetsHandlers` | as in `Signals` | `exec` assigns the default to a local variable |
| `Signals` | `FlagTracksHandling` | `Execs = {"handler"}`, or two threads | `exec` in a handler keeps the flag; `sigret` of one thread clears it for another |
| `Signals` | `BitTurnedOff` | two threads | the second `^=` sets the bit again |
| `Signals` | `OtherBitsKept` | as in `Signals` | a signal sent between load and store of `^=` is lost |
| `Signals` | `KilledExits` (with `FairSpec`) | `BadPointers = FALSE` | a stopped process waits for SIGCONT though killed |
| `Signals` | `NoLockInUserSpace` | `BadPointers = TRUE` | the error returns of `sigaction` keep `p->lock` |
| `Procs` | `KillWakes` (with `FairSpec`) | as in `Procs` | `kill` between the test of `p->killed` and `sleep` in `wait` |
| `KThreads` | `NeverReturns` | as in `KThreads` | a slot is reused while its old thread is in `kthread_exit` |
| `KThreads` | `StacksFreedOnce` | as in `KThreads` | a kernel stack is freed twice by two processes in one slot |
| `KThreads` | `CreateFailsCleanly` | `MaxCreates = NTHREAD` | null pointer in `kthread_create` |
| `Bsem` | `Drains` without `Inverted` | as in `Bsem` | `bsem_up` has `pid_lock` and waits in `wakeup` for the `p->lock` of a free slot, which `allocproc` has while `allocpid` waits for `pid_lock` |
| `Inode` | `FailedWritesLeaveNothing` | as in `FileIO` | `writei` leaves the bytes a failing `copyin` has copied in the buffer, where `readi` finds them |
| `Vm` | `ThreadsShareSpace` | as in `Vm` | `sbrk` of a sibling between the two reads of `p->sz` in `fork`, or between `oldsz` and its use in `exec` |
| `Files` | `SleepersJustified` without the exception for `cut` | as in `Files` | a writer that finds itself killed returns without waking the readers of the bytes it wrote |
| `Fs` | `NeverPanics` | as in `Fs` | `..` of a removed current directory names an inode that may have been freed |
| `Fs` | `NlinkExact` | as in `Fs` | `create` in a directory that was removed meanwhile makes an entry nothing leads to |
| `KThreads` | `FrameMatches`, `JoinWaits` | as in `KThreads` | trapframe offset scaled twice; `kthread_join` never waits |

### Bounds

Three threads give a holder, a waiter and an intruder, which is what a lost
wakeup or a lost update takes; two semaphores are needed for a wakeup meant for
another one. In `Sched`, two CPUs and two threads of one process let a thread
migrate while its sibling is dispatched and one CPU spin for a lock that the
other one has; what a third thread or CPU adds is covered by the proofs. The
instance `ThreeThreads` of `MCSched` (two processes) is too large for the liveness
properties, and TLC confirms the invariant `IInv` of the proofs on it. Four
processes are init, a parent, its child and a grandchild, so that a zombie can
be inherited. In `Log`, `LOGSIZE` is twice `MAXOPBLOCKS` so that a third call has to
wait, and the second crash can hit the recovery from the first. Counters named
`Max...` bound the number of calls and appear only in guards. Two blocks keep `Log`
below the limit that `LogFull.cfg` exceeds.

In `Bsem` one slot of the process table is free, and `fork` takes it or fails. In
`Signals` two signals can be caught, one of them SIGCONT, with handlers that block
nothing or every signal, so that a second handler can come in the same pass, in a
later one, or not at all.

`Bcache` starts with an empty cache or one in which every buffer has been used, and
has more blocks than buffers, so that `bget` recycles. It has as many descriptors
as two requests and part of a third take, so that `alloc3_desc` fails and frees what
it got; the rings wrap around. A call can be given to `kill`, which wakes whoever of a
process sleeps, for a buffer, a descriptor or the disk. `Files` has fewer slots than its
processes can ask for (`filealloc` and `fdalloc` fail) and a pipe shorter than a
write; the counters of the ring wrap at `UINT`. `Fs` has two trees of directories
two deep, with a directory or a file at the end, and calls that meet on the same
names from both ends: a path being walked while it is removed, a link to what is
unlinked, the last inode being allocated. In `Inode` a block has two bytes, one
block is direct and two are indirect, so that a write crosses both boundaries,
runs out of the largest size or, with six blocks for two files, of blocks, and `UINT` lets `off + n` overflow.
`MCFileIO` puts inodes and the console in one instance. They share no state, so it
explores each with the other at rest, and the console with its ring indices
about to wrap. In `Vm` a page has two bytes and page tables three levels of four
entries, which is enough for addresses that are not on a page, for `exec` with
segments out of order, and for memory to run out in every allocation of a call.

Symmetry is used where the specification does not tell the elements apart: blocks
and the threads of one process in `Bcache`, processes in `Files`, `Fs` and `Inode`,
files and inodes in `Inode`. These runs check no liveness. `Vm` is explored up to the
identity of physical pages by the view `Shape`: which page `kalloc` returns has no
influence on anything but who owns it, and the view holds the number of distinct
pages, so a page with two owners is not taken for two pages.

`KThreads` lets two processes live in the slot one after the other, since a stack is freed
again only by the next one, and has fewer pages than threads to create, so that
`kalloc` fails. `KThreadsExit.cfg` is smaller and gives a short trace. `Signals` calls `exec`
from the program only. Its liveness properties make an exception for `LockLeaked`, the
state in which a failed `sigaction` has kept `p->lock`.

### Fairness

* `Csem`, `Bsem`, `Log`: weak fairness of each thread's steps inside the kernel or
  library; the scheduler is round robin. No thread has to make a call.
* `Sched`: strong fairness of CPU steps, because a spinning CPU sees the lock free
  again and again and must get it. `__sync_lock_test_and_set` does not promise
  this; the models assume that no CPU loses the race for ever. Pending timer
  interrupts are taken.
* `Signals`: the timer interrupts user code, handlers return.
* `Procs`: strong fairness as in `Sched`. init calls `wait` again and again
  (`user/init.c`).
* `KThreads`: weak fairness of each thread's steps in the kernel, and strong fairness of
  its call of `kthread_exit`: `ProcessEnds` is about programs that end their threads,
  and the timer interrupt takes a thread out of user space again and again.
* The other runs check safety, and no fairness is assumed. That nobody is left
  asleep is stated there as an invariant, `SleepersJustified` and `ConsoleSleepers`:
  whoever sleeps has nothing to wake up for.

## Proofs

`Csem_proof` proves, for every set of threads, every initial count and every bound
on calls, assuming only `CsemAssumption` and the assumption on `MAX_BSEM`:

| theorem | property |
|---|---|
| `TypeCorrect` | `TypeOK` |
| `CountIsProtected` | `CountProtected` |
| `UnitsNeverOverdrawn` | `NeverOverdrawn` |
| `GateCorrect` | `GateMatchesCount` |
| `GateOpenedOnce` | `NoLostOpen` |
| `CsemRefinement` | `ImplementsCsem` |

None of these is inductive alone. The invariant `IInv` adds that at most one
thread has passed the gate and not yet decided whether to reopen it, and the
gate is shut then (`OneToken`); that a thread in `csem_up` opens the gate only
when nobody has passed it (`OpenersAreRight`); that what a thread loaded from
`count` is still there when it stores (`LoadedIsCurrent`); and that the two
semaphores are 0 or 1 (`GateIsBinary`). `InitIInv` and `StepIInv` prove it, action
by action, and the theorems follow. For the refinement, `DownStore` and `UpStore`
map to the atomic operations and every other step to an invocation, a return or
nothing.

`Sched_proof` proves, for any number of CPUs, processes and threads and any bound on
sleeps, assuming only `SchedAssumption`:

| theorem | property |
|---|---|
| `SwitchesAreSafe` | `OneCpuPerThread` |
| `PanicsAreUnreachable` | `NoPanic` |
| `InterruptStateSurvives` | `InterruptStateKept` |
| `StateIsTrue` | `StateMatchesCpu` |

The invariant `IInv` of `SchedInv_proof` says what holds at each program point. A
lock is held by CPU c exactly when c's scheduler, the thread on c or the interrupt
handler on c is between its `acquire` and its `release` (`LocksMatch`); this is what
carries `p->lock` across `swtch`, where one thread takes it and another, or the
scheduler, releases it. `noff` and `intena` have the value that this point of the
code needs (`ThreadOK`, `SchedulerOK`, `HandlerOK`), so that `sched` finds `noff` 1 and
`pop_off` never underflows, also when the timer interrupt arrives in the middle.
While a thread is on c, c's own scheduler stands in the scan of that thread's
process (`SwitchedTo`). A thread's `state` tells where it is (`StateOK`). `OwnStep`
reduces each step to the one CPU that takes it. `MoveStep`, `ScanStep` and `HandlerStep`
reduce it further for the three kinds of code (a thread, a scheduler, the interrupt
handler), and each action has a lemma. `SchedInv_proof` has the scan of the
schedulers, `SchedStep_proof` the steps of a running thread, and `Sched_proof` the
switches from and to a thread, the timer interrupt and the theorems.

`Log_proof` proves, for any number of processes, blocks, values, calls and crashes
and any size of the log, assuming only `LogAssumption` (the processes are finitely
many, because `log.outstanding` counts them):

| theorem | property |
|---|---|
| `LogInvariant` | the invariant `IInv` |
| `QuietMeansDurable` | `QuietIsDurable` |
| `LogRefinement` | `ImplementsLog` |

The invariant says that one thread commits at a time and no call is active then
(`CallsCounted`, `OneCommitter`); that a block is logged once, so that the order of
`install_trans` does not matter (`LoggedOnce`); that a block which is not logged is the
same in the cache and on disk (`UnloggedIsHome`); that the header on disk is empty
except from the commit to the end of the installation (`HeadOnlyCommitted`); and what
the loops of `write_log` and `install_trans` have done so far (`Copied`, `Installed`).
In the refinement what is committed is what recovery would make of the disk now
(`Recovered`). `CommitRefines` shows that the first `write_head` alone changes it, to
what the calls wrote, and `InstallKeeps` and `EraseRefines` that installing a block,
in `commit` or in a recovery that may itself be cut off, and clearing the log
leave it alone.

`Bsem_proof` proves, for any number of processes, threads, semaphores and calls,
assuming `SleepAssumption` and `BsemAssumption`:

| theorem | property |
|---|---|
| `WakeupsArrive` | `NoLostWakeup` |
| `BsemRefinement` | `ImplementsBsem` |

The free slots, `fork` and its use of both locks are part of what is proved about; the
two theorems need no exception for `Inverted`, because a step that cannot be taken breaks
no invariant. `NoLostWakeup` becomes inductive with who holds `pid_lock` (`LockMatches`) and `p->lock`
(`PlockMatches`) at each point of `bsem_down`, `bsem_up`, `sleep` and `wakeup`. `sleep`
takes `p->lock` before it releases `pid_lock`: so while `pid_lock` is free, nobody has
decided to sleep for a semaphore that is not locked (`FreeLock`), and when `wakeup` has
a process's lock, each of its waiters is asleep where `wakeup` finds it (`WakeupStep`).

`Procs_proof` proves, for any number of processes, forks and kills, assuming
`SleepAssumption` and `ProcsAssumption` (each process has one thread):

| theorem | property |
|---|---|
| `ProcsInvariant` | the invariant `IInv` |
| `ParentsAreAlive` | `ParentAlive` |
| `FreeingIsSafe` | `FreedOnlyWhenGone` |
| `ExitsAreNoticed` | `NoLostChildExit` |

The invariant says where `wait_lock` and `p->lock` are held (`LockMatches`,
`PlockMatches`), what `p->state` tells about where a process is (`StateMatches`), that
the child `fork` is creating belongs to it alone although its lock is released
before `np->parent` is set (`ForkOwns`), that a process which is past `reparent` in `exit`
is nobody's parent (`ParentLives`), and that a parent which goes to sleep in `wait` has
no zombie child and no child between `wakeup(p->parent)` and `p->state = ZOMBIE`
(`SleepsJustified`). init is excepted for the children it inherits, which is where
`OrphansReaped` fails.

`Files_proof` proves, for any number of processes, files and pages, any size of calls
and any bounds, assuming `FilesAssumption`:

| theorem | property |
|---|---|
| `PipeIsAQueue` | `Fifo` |
| `PipeWakeupsArrive` | `SleepersJustified` |

The assumption says of the code that `PIPESIZE` divides the number of values of
`nread` and `nwrite` and is less than it (512 and 2^32). The first is what lets a
counter that wraps go on at the next place of the ring (`PlaceOfWrap`), the second
tells a full ring from an empty one. `PutOK` and `GetOK` show for one pipe that writing
no more than there is room for, and reading no more than there is, keep the ring in
order (`InOrder`): bytes in a row have places of their own (`PlaceDistinct`), so a new
byte replaces none that is still to be read. `SleepersJustified` is not inductive
alone. The invariant `IInv` adds who has tested the pipe and is about to sleep with its
lock (`ReaderWaits`, `WriterWaits`), and that the page is in use while an end is open
(`PipeOK`), so that `sys_pipe` never takes the page of a pipe that someone sleeps at.
`PipeMove` reduces a step of `piperead` or `pipewrite` to its pipe: the lock keeps the
others from being about to sleep there, and every sleeper the step leaves behind must
have reason to sleep. The wakeups of `piperead`, `pipewrite` and `pipeclose` see to that.
A read that stops because `copyout` failed has taken the byte it could not deliver, and
`ReadRound` covers that case. After a write that `kill` cut off (`KilledStep`) a writer cannot be asleep, since there was
room, but a reader can: this is the exception in the property.

TLC confirmed each invariant on the instance of its run before it was proved.

Only model-checked:

* `RefsExact` of `Files` counts descriptors, calls and closes of a file, with `fork`
  adding as many as the parent has; a proof would sum cardinalities over all
  processes, and none has been worked out.
* The invariants of `Bcache`, `Fs` and `Inode`: no inductive invariant has been worked
  out. That of `Bcache` relates the list, the sleep locks, the descriptors and both rings
  of the driver at once.
* The invariants of `Signals` and `KThreads`. Their exceptions depend on what was
  going on when a handler was set up or `exit` called, and no inductive invariant
  that follows those cases has been worked out.
* The invariants and the refinement of `Console` and those of `Vm`: their loops over
  characters, pages and bytes are recursive operators, and what such a loop computes
  takes an induction over data (`CopyMatches` above all).
* Liveness everywhere (`Drains`, `BeginReturns`, `WaitReturns`, `RunnableRuns` and the
  others), because fairness is beyond the proof system.

## Not modelled

* Boot (`entry.S`, `start.c`, `main.c`), the interrupt controller (`plic.c`) and the
  assembly of traps and context switches: straight-line code whose effect the
  models take as given. `printf.c`, `string.c` and `umalloc.c` have no state that the
  properties are about.
* User programs other than `Csemaphore.c`, and `mkfs`: they are callers of the kernel
  or run before it. `init` is in `Procs` as far as it calls `wait`.
* `csem_free`, and `csem_alloc` when a binary semaphore is not to be had.
* Threads that share descriptors: `Files` and `Fs` have one thread per process, as
  `p->ofile` has no lock. What a sibling does after `exec` has freed the page table it
  runs in.
* A crash while an unlinked file is open leaves its inode allocated for good; `Fs`
  has no crashes and `Log` has no inodes.
* `fork` in one thread with `exit` in another, which takes `Procs` and `KThreads` in one
  model; each has the other's part as one step.
