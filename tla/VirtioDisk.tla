----------------------------- MODULE VirtioDisk -----------------------------
(***************************************************************************)
(* The disk driver (kernel/virtio_disk.c) and the device behind it.        *)
(*                                                                         *)
(* A step of a thread is one critical section of vdisk_lock, cut where it  *)
(* sleeps; sleep() gives the lock up and sleeps in one step, which module  *)
(* Bsem justifies.  The interrupt handler shares memory with the device    *)
(* while it holds the lock, so it takes a step per access and vlock says   *)
(* that it is inside.  The device (not part of the kernel) takes the chain *)
(* off the avail ring when notified, completes chains in any order and     *)
(* raises one interrupt until that is acknowledged.  A used ring entry     *)
(* that was read is None.  desc[i].addr is what the descriptor points to:  *)
(* the request header, the buffer, or the head whose info has the status.  *)
(***************************************************************************)
EXTENDS Integers, FiniteSets, Sequences, FiniteSetsExt

CONSTANTS
    Threads, Bufs, Blocks, Vals,
    NUM,            \* descriptors
    IDX,            \* values of a ring index: 2^16 in the code, and NUM divides it
    None

ASSUME VirtioAssumption == NUM \in Nat \ {0} /\ IDX \in Nat \ {0} /\ IDX % NUM = 0

VARIABLES
    free, desc, info,
    used, used_idx,
    vlock,          \* the interrupt handler holds vdisk_lock
    chan,           \* chan[t]: what t sleeps on, or None
    bdisk, data,    \* b->disk and b->data
    disk,           \* the blocks on disk
    inflight,       \* heads of the chains the device works on
    irq             \* the device asks for an interrupt

drv == <<free, desc, info, used, used_idx>>
dev == <<inflight, irq, disk>>

Descs == 0 .. NUM - 1
Plus(i) == (i + 1) % IDX
Wakeup(c) == [u \in Threads |-> IF chan[u] = c THEN None ELSE chan[u]]

\* The driver after virtio_disk_init and n requests.
virtio_disk_init(n) ==
    /\ free = [i \in Descs |-> TRUE]
    /\ desc = [i \in Descs |-> [next |-> None, addr |-> None]]
    /\ info = [i \in Descs |-> [b |-> None, status |-> 0]]
    /\ used = [ring |-> [i \in Descs |-> None], idx |-> n] /\ used_idx = n
    /\ vlock = FALSE /\ inflight = {} /\ irq = FALSE

\* The descriptors three calls of alloc_desc return: the lowest free ones.
alloc3_desc ==
    LET F == {i \in Descs : free[i]}
        a == Min(F)  b == Min(F \ {a})  c == Min(F \ {a, b})
    IN  IF Cardinality(F) < 3 THEN <<>> ELSE <<a, b, c>>

\* virtio_disk_rw up to its first sleep: wait for descriptors, or format the
\* chain, publish it and wait for the buffer.  A failed alloc3_desc gives back
\* what it took, and each free_desc wakes the others that wait.
rw_start(t, b, k, write) ==
    LET idx == alloc3_desc IN
    /\ ~ vlock /\ chan[t] = None
    /\ IF idx = <<>>
       THEN /\ chan' = [(IF \E i \in Descs : free[i] THEN Wakeup(<<"free">>) ELSE chan)
                           EXCEPT ![t] = <<"free">>]
            /\ UNCHANGED <<drv, bdisk, inflight>>
       ELSE /\ free' = [i \in Descs |-> free[i] /\ i \notin {idx[1], idx[2], idx[3]}]
            /\ desc' = [desc EXCEPT
                  ![idx[1]] = [next |-> idx[2],
                               addr |-> [type |-> IF write THEN "OUT" ELSE "IN", sector |-> k]],
                  ![idx[2]] = [next |-> idx[3], addr |-> b],
                  ![idx[3]] = [next |-> None, addr |-> idx[1]]]
            /\ info' = [info EXCEPT ![idx[1]] = [b |-> b, status |-> 255]]
            /\ bdisk' = [bdisk EXCEPT ![b] = TRUE]
            /\ inflight' = inflight \cup {idx[1]}
            /\ chan' = [chan EXCEPT ![t] = <<"disk", b>>]
            /\ UNCHANGED <<used, used_idx>>
    /\ UNCHANGED <<irq, disk, vlock, data>>

\* The head of the chain t waits for, and the descriptors of a chain.
HeadOf(b) == CHOOSE i \in Descs : info[i].b = b
Chain(i) == {i, desc[i].next, desc[desc[i].next].next}

\* Fault: the descriptors after the head are forgotten.
free_chain_head(i) ==
    /\ free' = [free EXCEPT ![i] = TRUE]
    /\ desc' = [desc EXCEPT ![i] = [next |-> None, addr |-> None]]

free_chain(i) ==
    /\ free' = [j \in Descs |-> free[j] \/ j \in Chain(i)]
    /\ desc' = [j \in Descs |-> IF j \in Chain(i) THEN [next |-> None, addr |-> None]
                                ELSE desc[j]]

\* virtio_disk_rw after a sleep on the buffer: the device is done with it.
rw_finish(t, b) ==
    /\ ~ vlock /\ chan[t] = None
    /\ ~ bdisk[b]
    /\ info' = [info EXCEPT ![HeadOf(b)].b = None]
    /\ free_chain(HeadOf(b))
    /\ chan' = Wakeup(<<"free">>)
    /\ UNCHANGED <<used, used_idx, dev, vlock, bdisk, data>>

\* The same, woken (by kill) while the device still has the buffer.
rw_again(t, b) ==
    /\ ~ vlock /\ chan[t] = None
    /\ bdisk[b]
    /\ chan' = [chan EXCEPT ![t] = <<"disk", b>>]
    /\ UNCHANGED <<drv, dev, vlock, bdisk, data>>
-----------------------------------------------------------------------------
\* The device moves the data, writes the status, publishes the head on the used
\* ring and asks for an interrupt.
device_complete(i) ==
    LET op == desc[i].addr
        b == desc[desc[i].next].addr
        st == desc[desc[desc[i].next].next].addr
    IN
    /\ i \in inflight /\ inflight' = inflight \ {i}
    /\ IF op.type = "IN"
       THEN data' = [data EXCEPT ![b] = disk[op.sector]] /\ UNCHANGED disk
       ELSE disk' = [disk EXCEPT ![op.sector] = data[b]] /\ UNCHANGED data
    /\ info' = [info EXCEPT ![st].status = 0]
    /\ used' = [ring |-> [used.ring EXCEPT ![used.idx % NUM] = i], idx |-> Plus(used.idx)]
    /\ irq' = TRUE
    /\ UNCHANGED <<free, desc, used_idx, vlock, chan, bdisk>>

\* virtio_disk_intr: acknowledge, then take every entry of the used ring.
intr_ack ==
    /\ irq /\ ~ vlock
    /\ vlock' = TRUE /\ irq' = FALSE
    /\ UNCHANGED <<drv, chan, bdisk, data, inflight, disk>>

\* Fault: one completion per interrupt.
intr_next_one ==
    LET b == info[used.ring[used_idx % NUM]].b IN
    /\ vlock /\ used_idx # used.idx
    /\ bdisk' = [bdisk EXCEPT ![b] = FALSE]
    /\ chan' = Wakeup(<<"disk", b>>)
    /\ used' = [used EXCEPT !.ring[used_idx % NUM] = None]
    /\ used_idx' = Plus(used_idx)
    /\ vlock' = FALSE
    /\ UNCHANGED <<free, desc, info, data, dev>>

intr_next ==
    LET b == info[used.ring[used_idx % NUM]].b IN
    /\ vlock /\ used_idx # used.idx
    /\ info[used.ring[used_idx % NUM]].status = 0
    /\ bdisk' = [bdisk EXCEPT ![b] = FALSE]
    /\ chan' = Wakeup(<<"disk", b>>)
    /\ used' = [used EXCEPT !.ring[used_idx % NUM] = None]
    /\ used_idx' = Plus(used_idx)
    /\ UNCHANGED <<free, desc, info, vlock, data, dev>>

intr_done ==
    /\ vlock /\ used_idx = used.idx
    /\ vlock' = FALSE
    /\ UNCHANGED <<drv, chan, bdisk, data, dev>>
=============================================================================
