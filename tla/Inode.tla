------------------------------- MODULE Inode --------------------------------
(***************************************************************************)
(* The contents of files: balloc, bfree, bmap, itrunc, readi and writei    *)
(* (kernel/fs.c) under fileread, filewrite (kernel/file.c) and sys_open.   *)
(*                                                                         *)
(* A step is what one process does while it holds the inode's lock; in     *)
(* filewrite that is one chunk.  A block has BSIZE cells that hold a byte  *)
(* each, or a block number each when the block is an indirect block.       *)
(* Processes that work on different inodes share only the bitmap, block by *)
(* block.  content is what the files should hold; each write writes bytes  *)
(* of its own, its number.                                                 *)
(*                                                                         *)
(* blk is what bread returns.  A copyin that fails has changed the buffer  *)
(* up to the page it could not read, and writei neither undoes nor logs    *)
(* that: the bytes stay until the buffer is recycled, or for good if the   *)
(* block is logged for another reason.  They are kept in torn.             *)
(***************************************************************************)
EXTENDS Integers, FiniteSets, Sequences, FiniteSetsExt

CONSTANTS
    Procs, Files, Inodes,
    BSIZE, NDIRECT, NINDIRECT,
    NBLOCKS,        \* data blocks
    MAXOPBLOCKS,    \* blocks a transaction may log
    UINT,           \* values of an unsigned: 2^32
    Lengths,        \* bytes asked for in one call
    MaxCalls,       \* bound: calls in all
    None

ASSUME InodeAssumption == BSIZE \in Nat \ {0} /\ NINDIRECT <= BSIZE /\ MAXOPBLOCKS >= 6

VARIABLES
    bitmap,         \* blocks marked in use
    blk,            \* the blocks
    addrs, size,    \* of the inodes
    file,           \* [ip, off] of the open files
    call,           \* the filewrite a process is in, or None: [f, n, v]
    unlogged,       \* blocks whose buffer has bytes that no log_write followed, with
                    \* what the log or the disk has for them
    panic,          \* "balloc: out of blocks"
    content, left,
    torn            \* history: <<ip, offset, byte>> that failed writes left behind

vars == <<bitmap, blk, addrs, size, file, call, unlogged, panic, content, left, torn>>

MAXFILE == NDIRECT + NINDIRECT
Blocks == 1 .. NBLOCKS
Zero == [i \in 0 .. BSIZE - 1 |-> 0]
Add(a, b) == (a + b) % UINT

TypeOK ==
    /\ bitmap \subseteq Blocks /\ blk \in [Blocks -> [0 .. BSIZE - 1 -> Nat]]
    /\ addrs \in [Inodes -> [0 .. NDIRECT -> {0} \cup Blocks]]
    /\ size \in [Inodes -> 0 .. MAXFILE * BSIZE]
    /\ \A f \in Files : file[f].ip \in Inodes /\ file[f].off \in 0 .. MAXFILE * BSIZE
    /\ DOMAIN unlogged \subseteq Blocks /\ panic \in BOOLEAN

\* An empty file system; calls of open, read and write follow.
InodeInit(calls) ==
    /\ bitmap = {} /\ blk = [k \in Blocks |-> Zero]
    /\ addrs = [ip \in Inodes |-> [i \in 0 .. NDIRECT |-> 0]] /\ size = [ip \in Inodes |-> 0]
    /\ file \in [Files -> [ip : Inodes, off : {0}]]
    /\ call = [p \in Procs |-> None]
    /\ unlogged = <<>> /\ panic = FALSE
    /\ content = [ip \in Inodes |-> <<>>] /\ left = calls /\ torn = {}
-----------------------------------------------------------------------------
\* The working state of a call: bitmap, blocks, the inode's addrs, the blocks the call
\* has logged ("map", k is the bitmap block of k, one for each block at worst), and
\* how far it has come.  got is the bytes that a failing copyin left in block bad.
Work(ip, off) == [map |-> bitmap, blk |-> blk, ad |-> addrs[ip], log |-> {}, off |-> off,
                  tot |-> 0, stop |-> FALSE, full |-> FALSE, bad |-> 0, got |-> 0]

\* No block is free: panic("balloc: out of blocks").
OutOfBlocks(s) == s.map = Blocks

\* Fault: the block is not zeroed.
balloc_dirty(s) ==
    LET k == Min(Blocks \ s.map) IN
    IF OutOfBlocks(s) THEN <<0, [s EXCEPT !.full = TRUE]>> ELSE
    <<k, [s EXCEPT !.map = @ \cup {k}, !.log = @ \cup {<<"map", k>>, <<"data", k>>}]>>

\* balloc and bzero: the first free block and the state after.
balloc(s) ==
    LET k == Min(Blocks \ s.map) IN
    IF OutOfBlocks(s) THEN <<0, [s EXCEPT !.full = TRUE]>> ELSE
    <<k, [s EXCEPT !.map = @ \cup {k}, !.blk[k] = Zero,
                   !.log = @ \cup {<<"map", k>>, <<"data", k>>}]>>

\* Block bn of the inode, allocated if need be, and the state after.
bmap(s, bn) ==
    IF bn < NDIRECT
    THEN IF s.ad[bn] # 0 THEN <<s.ad[bn], s>>
         ELSE LET r == balloc(s) IN <<r[1], [r[2] EXCEPT !.ad[bn] = r[1]]>>
    ELSE LET r == IF s.ad[NDIRECT] # 0 THEN <<s.ad[NDIRECT], s>> ELSE balloc(s)
             ind == r[1]
             t == [r[2] EXCEPT !.ad[NDIRECT] = ind]
             j == bn - NDIRECT
             q == balloc(t)
         IN  IF t.full THEN <<0, t>>
             ELSE IF t.blk[ind][j] # 0 THEN <<t.blk[ind][j], t>>
             ELSE <<q[1], [q[2] EXCEPT !.blk[ind][j] = q[1], !.log = @ \cup {<<"data", ind>>}]>>

\* The block b with m bytes v from o on.
Copied(b, o, m, v) == [i \in DOMAIN b |-> IF i \in o .. o + m - 1 THEN v ELSE b[i]]

\* One pass of writei's loop.  copyin fails if the pass is the one called bad; at most
\* got bytes, and not all, were then on pages that it could read.
write_pass(s, n, v, bad, got) ==
    LET r == bmap(s, s.off \div BSIZE)
        m == Min({n - s.tot, BSIZE - (s.off % BSIZE)})
        g == Min({got, m - 1})
        o == s.off % BSIZE
    IN  IF r[2].full THEN r[2]
        ELSE IF bad = s.off \div BSIZE
        THEN [r[2] EXCEPT !.blk[r[1]] = Copied(@, o, g, v), !.stop = TRUE, !.bad = r[1], !.got = g]
        ELSE [r[2] EXCEPT !.blk[r[1]] = Copied(@, o, m, v), !.log = @ \cup {<<"data", r[1]>>},
                          !.off = @ + m, !.tot = @ + m]

\* writei: the state after, and in tot what is returned.
writei(ip, off, n, v, bad, got) ==
    LET Pass[k \in 0 .. MAXFILE] ==
            IF k = 0 THEN Work(ip, off)
            ELSE LET s == Pass[k - 1] IN
                 IF s.stop \/ s.full \/ s.tot >= n THEN s ELSE write_pass(s, n, v, bad, got)
    IN  IF off > size[ip] \/ Add(off, n) < off \/ Add(off, n) > MAXFILE * BSIZE
        THEN [Work(ip, off) EXCEPT !.tot = -1]
        ELSE [Pass[MAXFILE] EXCEPT !.log = @ \cup {<<"inode", ip>>}]

\* Fault: the length is cut before it is compared with the offset.
Readable_late(ip, off, n) == IF off + n > size[ip] THEN size[ip] - off ELSE n

\* The bytes readi may read.
Readable(ip, off, n) ==
    IF off > size[ip] \/ Add(off, n) < off THEN 0
    ELSE IF Add(off, n) > size[ip] THEN size[ip] - off ELSE n

\* What readi copies out.
readi(ip, off, n) ==
    [i \in 1 .. Readable(ip, off, n) |->
        LET o == off + i - 1
            s == Work(ip, off)
        IN  s.blk[bmap(s, o \div BSIZE)[1]][o % BSIZE]]

bfree(S) == bitmap \ S

\* The blocks itrunc frees.
Owned(ip) ==
    LET ind == addrs[ip][NDIRECT] IN
    ({addrs[ip][i] : i \in 0 .. NDIRECT}
        \cup (IF ind = 0 THEN {} ELSE {blk[ind][j] : j \in 0 .. NINDIRECT - 1})) \ {0}
-----------------------------------------------------------------------------
\* sys_open, once it has the inode and a file: off = 0, and with O_TRUNC itrunc.
sys_open(f, ip, trunc) ==
    /\ ~panic /\ left > 0 /\ left' = left - 1
    /\ \A p \in Procs : call[p] # None => call[p].f # f
    /\ file' = [file EXCEPT ![f] = [ip |-> ip, off |-> 0]]
    /\ IF trunc
       THEN /\ bitmap' = bfree(Owned(ip))
            /\ addrs' = [addrs EXCEPT ![ip] = [i \in 0 .. NDIRECT |-> 0]]
            /\ size' = [size EXCEPT ![ip] = 0]
            /\ content' = [content EXCEPT ![ip] = <<>>]
            /\ torn' = {x \in torn : x[1] # ip}
       ELSE UNCHANGED <<bitmap, addrs, size, content, torn>>
    /\ UNCHANGED <<blk, call, unlogged, panic>>

\* fileread of n bytes; copyout may fail, and off stays.
fileread(f, n) ==
    /\ ~panic /\ left > 0 /\ left' = left - 1
    /\ Readable(file[f].ip, file[f].off, n) > 0
    /\ file' = [file EXCEPT ![f].off = @ + Readable(file[f].ip, @, n)]
    /\ UNCHANGED <<bitmap, blk, addrs, size, call, unlogged, panic, content, torn>>

\* Fault: no allowance for writes that are not aligned.
MaxChunk_tight == ((MAXOPBLOCKS - 1 - 1) \div 2) * BSIZE

MaxChunk == ((MAXOPBLOCKS - 1 - 1 - 2) \div 2) * BSIZE

Chunk(n) == Min({n, MaxChunk})

\* What the file holds after r bytes v were written at off.
Written(s, off, r, v) ==
    [i \in 1 .. Max({Len(s), off + r}) |-> IF i \in off + 1 .. off + r THEN v ELSE s[i]]

\* What the call w has left unlogged: a block that it logs goes to the log with all
\* that is in the buffer, when the transaction commits.
Unlogged(w) ==
    LET seen == {k \in Blocks : <<"data", k>> \in w.log}
        bad == IF w.got = 0 THEN {} ELSE {w.bad}
    IN  [k \in (DOMAIN unlogged \cup bad) \ seen |->
            IF k \in DOMAIN unlogged THEN unlogged[k] ELSE blk[k]]

\* One chunk of the filewrite c, in a transaction of its own.
write_chunk(p, c, bad, got) ==
    LET ip == file[c.f].ip
        off == file[c.f].off
        n == Chunk(c.n)
        w == writei(ip, off, n, c.v, bad, got)
    IN
    /\ bad = MAXFILE \/ bad \in off \div BSIZE .. (off + n - 1) \div BSIZE
    /\ got > 0 => bad # MAXFILE
    /\ IF w.full
       THEN panic' = TRUE /\ UNCHANGED <<bitmap, blk, addrs, size, file, call, unlogged, content, torn>>
       ELSE
       /\ bitmap' = w.map /\ blk' = w.blk /\ addrs' = [addrs EXCEPT ![ip] = w.ad]
       /\ unlogged' = Unlogged(w)
       /\ IF w.tot >= 0
          THEN /\ size' = [size EXCEPT ![ip] = Max({@, w.off})]
               /\ file' = [file EXCEPT ![c.f].off = w.off]
               /\ content' = [content EXCEPT ![ip] = Written(@, off, w.tot, c.v)]
               /\ torn' = {x \in torn : x[1] = ip => x[2] \notin off + 1 .. off + w.tot}
                             \cup {<<ip, w.off + i, c.v>> : i \in 1 .. w.got}
          ELSE UNCHANGED <<size, file, content, torn>>
       /\ call' = [call EXCEPT ![p] = IF w.tot # n \/ c.n = n THEN None
                                      ELSE [c EXCEPT !.n = @ - w.tot]]
       /\ UNCHANGED panic

\* filewrite up to the end of its first chunk, then chunk by chunk.
filewrite(p, f, n, bad, got) ==
    /\ ~panic /\ call[p] = None
    /\ left > 0 /\ left' = left - 1
    /\ write_chunk(p, [f |-> f, n |-> n, v |-> left], bad, got)

filewrite_more(p, bad, got) ==
    /\ ~panic /\ call[p] # None
    /\ write_chunk(p, call[p], bad, got)
    /\ UNCHANGED left

\* bget gives the buffer of k to another block (Bcache.tla); bread reads k again.
bget_recycle(k) ==
    /\ ~panic /\ k \in DOMAIN unlogged
    /\ blk' = [blk EXCEPT ![k] = unlogged[k]]
    /\ unlogged' = [b \in DOMAIN unlogged \ {k} |-> unlogged[b]]
    /\ UNCHANGED <<bitmap, addrs, size, file, call, panic, content, left, torn>>

\* Every call was made and has returned, or the kernel has stopped.
Finished ==
    /\ panic \/ (left = 0 /\ \A p \in Procs : call[p] = None)
    /\ UNCHANGED vars

Next ==
    \/ \E f \in Files, ip \in Inodes, trunc \in BOOLEAN : sys_open(f, ip, trunc)
    \/ \E f \in Files, n \in Lengths : fileread(f, n)
    \/ \E p \in Procs, bad \in 0 .. MAXFILE, got \in 0 .. BSIZE - 1 :
           \/ \E f \in Files, n \in Lengths : filewrite(p, f, n, bad, got)
           \/ filewrite_more(p, bad, got)
    \/ \E k \in Blocks : bget_recycle(k)
    \/ Finished

Spec == InodeInit(MaxCalls) /\ [][Next]_vars
-----------------------------------------------------------------------------
\* What a read at off should return.
Expected(ip, off, n) ==
    IF off + n >= UINT THEN <<>>
    ELSE SubSeq(content[ip], off + 1, Min({off + n, Len(content[ip])}))

\* readi returns the bytes that writei has counted as written there, no more and no
\* less, through direct and indirect blocks, after truncation, failed writes and reuse
\* of blocks; lengths for which off + n wraps around (a negative n) read nothing or the
\* rest.  The exception is bytes of a write that failed halfway through a block: they
\* may be read, but only in their own file, where they were meant to be, and until the
\* place is written again or the file truncated.
ReadsWhatWasWritten ==
    \A ip \in Inodes : \A off \in 0 .. size[ip] + 1, n \in Lengths \cup {UINT - 1} :
        LET got == readi(ip, off, n)
            want == Expected(ip, off, n)
        IN  /\ Len(got) = Len(want)
            /\ \A i \in 1 .. Len(got) :
                   got[i] # want[i] => <<ip, off + i, got[i]>> \in torn

\* The same without the exception: a write that returns -1 has no effect on what it
\* does not count.
FailedWritesLeaveNothing ==
    \A ip \in Inodes : readi(ip, 0, MAXFILE * BSIZE) = Expected(ip, 0, MAXFILE * BSIZE)

\* A block belongs to one inode in one place, and the bitmap says which blocks do: none
\* is lost, none is given to two files, and bfree never meets a free block.
BlocksOwned ==
    /\ bitmap = UNION {Owned(ip) : ip \in Inodes}
    /\ \A ip, jp \in Inodes : ip # jp => Owned(ip) \cap Owned(jp) = {}
    /\ \A ip \in Inodes :
          Cardinality(Owned(ip)) = Cardinality({i \in 0 .. NDIRECT : addrs[ip][i] # 0})
              + IF addrs[ip][NDIRECT] = 0 THEN 0
                ELSE Cardinality({j \in 0 .. NINDIRECT - 1 : blk[addrs[ip][NDIRECT]][j] # 0})

\* "write a few blocks at a time to avoid exceeding the maximum log transaction size"
\* (filewrite): no chunk logs more than MAXOPBLOCKS blocks, even if each block has a
\* bitmap block of its own.  (A chunk cut short by a failing copyin logs no more.)
FitsLog ==
    \A f \in Files, n \in Lengths :
        Cardinality(writei(file[f].ip, file[f].off, Chunk(n), 1, MAXFILE, 0).log) <= MAXOPBLOCKS
=============================================================================
