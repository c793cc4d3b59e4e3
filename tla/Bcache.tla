------------------------------- MODULE Bcache -------------------------------
(***************************************************************************)
(* The buffer cache (kernel/bio.c) on sleep locks (kernel/sleeplock.c) on  *)
(* the disk driver: threads that read, change, log and release blocks.     *)
(*                                                                         *)
(* A step is a critical section of bcache.lock, of the spin lock inside a  *)
(* sleep lock or of vdisk_lock.  Buffers the log has pinned (log_write)    *)
(* may differ from the disk until install_trans writes and unpins them.    *)
(***************************************************************************)
EXTENDS VirtioDisk, SequencesExt, Functions

CONSTANTS
    ProcOf,         \* ProcOf[t]: the pid of the thread's process
    MaxOps,         \* bound: calls of bread and kill in all
    MaxPins         \* bound: buffers the log pins at a time

VARIABLES
    blockno, valid, refcnt,     \* fields of struct buf
    lru,            \* the list from bcache.head.next to bcache.head.prev
    slock,          \* b->lock.pid, 0 when b->lock.locked = 0
    pinned,         \* buffers the log has pinned
    pc, at,         \* where a thread is, and its [b, k]: buffer and block
    left,           \* calls of bread and kill still to be made
    latest          \* history: the block contents the last holder left

cache == <<blockno, valid, refcnt, lru>>
vars == <<drv, dev, vlock, chan, bdisk, data, cache, slock, pinned, pc, at, left, latest>>

TypeOK ==
    /\ free \in [Descs -> BOOLEAN] /\ used_idx \in 0 .. IDX - 1
    /\ chan \in [Threads -> {None, <<"free">>} \cup ({"lock", "disk"} \X Bufs)]
    /\ refcnt \in [Bufs -> 0 .. Cardinality(Threads) + 1]
    /\ blockno \in [Bufs -> Blocks \cup {None}] /\ valid \in [Bufs -> BOOLEAN]
    /\ lru \in [1 .. Cardinality(Bufs) -> Bufs]
    /\ slock \in [Bufs -> {0} \cup {ProcOf[t] : t \in Threads}]
    /\ pc \in [Threads -> {"idle", "lock", "read", "reading", "have", "write", "writing",
                           "install", "installing", "unpin", "used", "relse"}]

\* binit leaves the cache empty; once every buffer has been used and given back it
\* holds distinct blocks.  Both are starting points; ops calls of bread and kill follow.
binit(ops) ==
    /\ blockno \in {[b \in Bufs |-> None]} \cup Injection(Bufs, Blocks)
    /\ virtio_disk_init(IF None \in Range(blockno) THEN 0 ELSE Cardinality(Bufs) % IDX)
    /\ chan = [t \in Threads |-> None]
    /\ disk = [k \in Blocks |-> 0]
    /\ valid = [b \in Bufs |-> blockno[b] # None] /\ refcnt = [b \in Bufs |-> 0]
    /\ bdisk = [b \in Bufs |-> FALSE]
    /\ data = [b \in Bufs |-> IF valid[b] THEN 0 ELSE None]
    /\ lru = SetToSeq(Bufs)
    /\ slock = [b \in Bufs |-> 0] /\ pinned = {}
    /\ pc = [t \in Threads |-> "idle"] /\ at = [t \in Threads |-> [b |-> None, k |-> None]]
    /\ left = ops /\ latest = disk

Goto(t, from, to) == pc[t] = from /\ pc' = [pc EXCEPT ![t] = to]
holdingsleep(t, b) == slock[b] = ProcOf[t]
-----------------------------------------------------------------------------
Cached(k) == {b \in Bufs : blockno[b] = k}
Unused == {i \in DOMAIN lru : refcnt[lru[i]] = 0}

\* Fault: the buffer is taken although its user still has it.
Recycle_busy == lru[Len(lru)]

\* The least recently used unused buffer.
Recycle == lru[Max(Unused)]

\* bget up to acquiresleep: a hit, or a recycled buffer.  With every buffer in use or
\* pinned bget panics ("no buffers"), which is not followed.
bget(t, k) ==
    LET b == IF Cached(k) # {} THEN CHOOSE c \in Cached(k) : TRUE ELSE Recycle IN
    /\ left > 0 /\ left' = left - 1
    /\ Goto(t, "idle", "lock")
    /\ Cached(k) = {} => Unused # {}
    /\ at' = [at EXCEPT ![t] = [b |-> b, k |-> k]]
    /\ IF Cached(k) # {}
       THEN refcnt' = [refcnt EXCEPT ![b] = @ + 1] /\ UNCHANGED <<blockno, valid>>
       ELSE /\ blockno' = [blockno EXCEPT ![b] = k]
            /\ valid' = [valid EXCEPT ![b] = FALSE]
            /\ refcnt' = [refcnt EXCEPT ![b] = 1]
    /\ UNCHANGED <<drv, dev, vlock, chan, bdisk, data, lru, slock, pinned, latest>>

\* Fault: acquiresleep does not look at locked.
Blocked_never(t) == FALSE

Blocked(t) == slock[at[t].b] # 0

\* One pass of the loop in acquiresleep; bread then looks at b->valid.
acquiresleep(t) ==
    LET b == at[t].b IN
    /\ pc[t] = "lock" /\ chan[t] = None
    /\ IF Blocked(t)
       THEN /\ chan' = [chan EXCEPT ![t] = <<"lock", b>>]
            /\ UNCHANGED <<slock, pc>>
       ELSE /\ Goto(t, "lock", IF valid[b] THEN "have" ELSE "read")
            /\ slock' = [slock EXCEPT ![b] = ProcOf[t]]
            /\ UNCHANGED chan
    /\ UNCHANGED <<drv, dev, vlock, bdisk, data, cache, pinned, at, left, latest>>

\* virtio_disk_rw, for bread, for bwrite and for the bwrite of install_trans.
virtio_disk_rw(t) ==
    LET b == at[t].b IN
    /\ \/ /\ pc[t] \in {"read", "write", "install"}
          /\ rw_start(t, b, blockno[b], pc[t] # "read")
          /\ pc' = IF chan'[t] = <<"free">> THEN pc
                   ELSE [pc EXCEPT ![t] = IF @ = "read" THEN "reading"
                                          ELSE IF @ = "write" THEN "writing" ELSE "installing"]
          /\ UNCHANGED valid
       \/ /\ pc[t] \in {"reading", "writing", "installing"}
          /\ rw_again(t, b)
          /\ UNCHANGED <<pc, valid>>
       \/ /\ pc[t] \in {"reading", "writing", "installing"}
          /\ rw_finish(t, b)
          /\ pc' = [pc EXCEPT ![t] = IF @ = "reading" THEN "have"
                                          ELSE IF @ = "writing" THEN "used" ELSE "unpin"]
          /\ valid' = [valid EXCEPT ![b] = @ \/ pc[t] = "reading"]
    /\ UNCHANGED <<blockno, refcnt, lru, slock, pinned, at, left, latest>>
-----------------------------------------------------------------------------
\* The holder changes the block and writes it through with bwrite.
bwrite(t, v) ==
    /\ Goto(t, "have", "write") /\ holdingsleep(t, at[t].b)
    /\ at[t].b \notin pinned
    /\ data' = [data EXCEPT ![at[t].b] = v] /\ latest' = [latest EXCEPT ![at[t].k] = v]
    /\ UNCHANGED <<drv, dev, vlock, chan, bdisk, cache, slock, pinned, at, left>>

\* The holder changes the block and logs it: log_write pins it the first time.
bpin(t, v) ==
    LET b == at[t].b IN
    /\ Goto(t, "have", "used") /\ holdingsleep(t, b)
    /\ b \in pinned \/ Cardinality(pinned) < MaxPins
    /\ data' = [data EXCEPT ![b] = v] /\ latest' = [latest EXCEPT ![at[t].k] = v]
    /\ refcnt' = [refcnt EXCEPT ![b] = IF b \in pinned THEN @ ELSE @ + 1]
    /\ pinned' = pinned \cup {b}
    /\ UNCHANGED <<drv, dev, vlock, chan, bdisk, blockno, valid, lru, slock, at, left>>

\* install_trans: write the pinned buffer home, then bunpin.
install_trans(t) ==
    /\ Goto(t, "have", "install") /\ at[t].b \in pinned /\ holdingsleep(t, at[t].b)
    /\ UNCHANGED <<drv, dev, vlock, chan, bdisk, data, cache, slock, pinned, at, left, latest>>

bunpin(t) ==
    /\ Goto(t, "unpin", "used")
    /\ refcnt' = [refcnt EXCEPT ![at[t].b] = @ - 1]
    /\ pinned' = pinned \ {at[t].b}
    /\ UNCHANGED <<drv, dev, vlock, chan, bdisk, data, blockno, valid, lru, slock, at, left, latest>>

\* Fault: releasesleep wakes nobody.
releasesleep_quiet(b) == slock' = [slock EXCEPT ![b] = 0] /\ UNCHANGED chan

releasesleep(b) == slock' = [slock EXCEPT ![b] = 0] /\ chan' = Wakeup(<<"lock", b>>)

\* brelse up to acquire(&bcache.lock), and from there.
brelse(t) ==
    /\ Goto(t, "have", "relse") \/ Goto(t, "used", "relse")
    /\ holdingsleep(t, at[t].b)
    /\ releasesleep(at[t].b)
    /\ UNCHANGED <<drv, dev, vlock, bdisk, data, cache, pinned, at, left, latest>>

brelse_count(t) ==
    LET b == at[t].b IN
    /\ Goto(t, "relse", "idle")
    /\ at' = [at EXCEPT ![t] = [b |-> None, k |-> None]]
    /\ refcnt' = [refcnt EXCEPT ![b] = @ - 1]
    /\ lru' = IF refcnt'[b] = 0 THEN <<b>> \o SelectSeq(lru, LAMBDA c : c # b) ELSE lru
    /\ UNCHANGED <<drv, dev, vlock, chan, bdisk, data, blockno, valid, slock, pinned, left, latest>>

\* kill wakes the threads of the process, whatever they wait for.
kill(pid) ==
    /\ left > 0 /\ left' = left - 1
    /\ \E t \in Threads : ProcOf[t] = pid /\ chan[t] # None
    /\ chan' = [t \in Threads |-> IF ProcOf[t] = pid THEN None ELSE chan[t]]
    /\ UNCHANGED <<drv, dev, vlock, bdisk, data, cache, slock, pinned, pc, at, latest>>
-----------------------------------------------------------------------------
ThreadStep(t) ==
    \/ acquiresleep(t) \/ virtio_disk_rw(t) \/ bunpin(t) \/ brelse(t) \/ brelse_count(t)

Device == \E i \in Descs : device_complete(i)
devintr == intr_ack \/ intr_next \/ intr_done

\* Every call was made and has returned.
Finished == left = 0 /\ (\A t \in Threads : pc[t] = "idle") /\ UNCHANGED vars

Next ==
    \/ \E t \in Threads : \/ ThreadStep(t)
                          \/ \E k \in Blocks : bget(t, k)
                          \/ \E v \in Vals : bwrite(t, v) \/ bpin(t, v)
                          \/ install_trans(t)
                          \/ kill(ProcOf[t])
    \/ /\ Device \/ devintr
       /\ UNCHANGED <<cache, slock, pinned, pc, at, left, latest>>
    \/ Finished

Spec == binit(MaxOps) /\ [][Next]_vars
-----------------------------------------------------------------------------
InRequest(t) == pc[t] \in {"reading", "writing", "installing"}
Locked(t) == pc[t] \notin {"idle", "lock", "relse"}
Reading(t) == Locked(t) /\ pc[t] \notin {"read", "reading"}

\* "Only one process at a time can use a buffer" (bio.c), and what it uses is the
\* block it asked for with the contents the last user left: no block is cached
\* twice, and no buffer is recycled, overwritten by the disk or handed out while
\* somebody has it.
Coherent ==
    /\ \A b, c \in Bufs : blockno[b] = blockno[c] /\ blockno[b] # None => b = c
    /\ \A t, u \in Threads : Locked(t) /\ Locked(u) /\ at[t].b = at[u].b => t = u
    /\ \A t \in Threads :
          /\ Locked(t) => blockno[at[t].b] = at[t].k /\ holdingsleep(t, at[t].b)
          /\ Reading(t) => data[at[t].b] = latest[at[t].k]

\* A block that is neither pinned nor being written is on disk as its last user
\* left it, so recycling its buffer (bget) loses nothing.
NothingLost ==
    \A k \in Blocks :
        \/ disk[k] = latest[k]
        \/ \E b \in pinned : blockno[b] = k
        \/ \E t \in Threads : at[t].k = k /\ pc[t] \in {"write", "writing"}

\* A descriptor is free or belongs to the chain of exactly one request, whose
\* buffer is the one the device was given: alloc3_desc and free_chain neither
\* leak descriptors nor hand one out twice, whatever order requests complete in.
\* virtio_disk_intr meets only requests that were made and that the device finished.
DescriptorsOwned ==
    LET R == {t \in Threads : InRequest(t)} IN
    /\ \A t \in R :
          /\ \E i \in Descs : info[i].b = at[t].b
          /\ desc[HeadOf(at[t].b)].addr.sector = at[t].k
          /\ desc[desc[HeadOf(at[t].b)].next].addr = at[t].b
    /\ {i \in Descs : ~ free[i]} = UNION {Chain(HeadOf(at[t].b)) : t \in R}
    /\ Cardinality({i \in Descs : ~ free[i]}) = 3 * Cardinality(R)
    /\ LET i == used.ring[used_idx % NUM] IN
          used_idx # used.idx => info[i].status = 0 /\ info[i].b # None

\* No wakeup is lost, so with deadlock freedom every bread returns: a sleeper waits
\* for a lock that is held, for descriptors that are not there, or for a request the
\* device has, or has reported to a handler that runs or is due.
SleepersJustified ==
    \A t \in Threads :
        /\ chan[t] = <<"lock", at[t].b>> => slock[at[t].b] # 0
        /\ chan[t] = <<"free">> => Cardinality({i \in Descs : free[i]}) < 3
        /\ chan[t] = <<"disk", at[t].b>> =>
              \/ HeadOf(at[t].b) \in inflight
              \/ (irq \/ vlock) /\ \E i \in Descs : used.ring[i] = HeadOf(at[t].b)
=============================================================================
