------------------------------- MODULE Files --------------------------------
(***************************************************************************)
(* Open files, descriptors and pipes: kernel/file.c, kernel/pipe.c, the    *)
(* descriptor calls of kernel/sysfile.c and what fork, exit and kill       *)
(* (kernel/proc.c) do to them.  Processes have one thread each.            *)
(*                                                                         *)
(* A step is a critical section of ftable.lock or of a pipe's lock.  The   *)
(* test of killed and the sleep in piperead and pipewrite are two steps,   *)
(* since kill does not take the pipe's lock.  Byte n written to a pipe has *)
(* the value n, so the ring shows what was lost, repeated or reordered.    *)
(***************************************************************************)
EXTENDS Integers, FiniteSets, Sequences, FiniteSetsExt

CONSTANTS
    Procs, Inodes,
    Pages,          \* the pages kalloc has for pipes
    NFILE, NOFILE, PIPESIZE,
    UINT,           \* values of nread and nwrite: 2^32, which PIPESIZE divides
    MaxN,           \* bound: a call asks for one byte or for MaxN
    MaxBytes,       \* bound: bytes written to a pipe
    MaxOpens,       \* bound: calls of pipe, open, dup and fork
    None

ASSUME FilesAssumption ==
    /\ {PIPESIZE, UINT} \subseteq Nat \ {0} /\ UINT > PIPESIZE /\ UINT % PIPESIZE = 0
    /\ {MaxN, MaxBytes} \subseteq Nat
    /\ None \notin {"nread", "nwrite"} \X Pages

VARIABLES
    file,           \* ftable.file
    ofile,          \* p->ofile
    pipe,           \* struct pipe; history: sent and recv count bytes, cut marks a
                    \* write that ended without a wakeup
    iref,           \* ip->ref
    pc, killed, chan,
    call,           \* the call a process is in: its pipe and the bytes still to move
    closing,        \* files the call still has to close
    ff,             \* fileclose's copy of the file it has let go of, or None
    left            \* calls of pipe, open, dup and fork still to be made

vars == <<file, ofile, pipe, iref, pc, killed, chan, call, closing, ff, left>>

Files == 1 .. NFILE
Fds == 0 .. NOFILE - 1
Ends == {"nread", "nwrite"}
Ring == 0 .. PIPESIZE - 1
PipeType == [used : BOOLEAN, readopen : BOOLEAN, writeopen : BOOLEAN, nread : 0 .. UINT - 1,
             nwrite : 0 .. UINT - 1, data : [Ring -> Nat], sent : Nat, recv : Nat, cut : BOOLEAN]

TypeOK ==
    /\ file \in [Files -> [ref : Nat, type : {"NONE", "PIPE", "INODE"}, writable : BOOLEAN,
                           obj : Pages \cup Inodes \cup {None}]]
    /\ ofile \in [Procs -> [Fds -> Files \cup {None}]]
    /\ pipe \in [Pages -> PipeType]
    /\ pc \in [Procs -> {"unused", "user", "pipe1", "pipe2", "read", "rsleep", "write", "wsleep",
                         "exit", "zombie"}]
    /\ chan \in [Procs -> {None} \cup (Ends \X Pages)]

FreePage == [used |-> FALSE, readopen |-> FALSE, writeopen |-> FALSE, nread |-> 0, nwrite |-> 0,
             data |-> [i \in Ring |-> 0], sent |-> 0, recv |-> 0, cut |-> FALSE]
NoCall == [pi |-> None, n |-> 0, f0 |-> None, f1 |-> None]

NoFile == [ref |-> 0, type |-> "NONE", writable |-> FALSE, obj |-> None]

Init ==
    /\ file = [f \in Files |-> NoFile]
    /\ ofile = [p \in Procs |-> [fd \in Fds |-> None]]
    /\ pipe = [pi \in Pages |-> FreePage] /\ iref = [ip \in Inodes |-> 0]
    /\ \E p \in Procs : pc = [q \in Procs |-> IF q = p THEN "user" ELSE "unused"]
    /\ killed = [p \in Procs |-> FALSE] /\ chan = [p \in Procs |-> None]
    /\ call = [p \in Procs |-> NoCall] /\ closing = [p \in Procs |-> <<>>]
    /\ ff = [p \in Procs |-> None] /\ left = MaxOpens

\* The process is in the given place and is not in the middle of fileclose.
At(p, l) == pc[p] = l /\ closing[p] = <<>> /\ ff[p] = None /\ chan[p] = None
Bounded == left > 0 /\ left' = left - 1
Goto(p, l) == pc' = [pc EXCEPT ![p] = l]
Wakeup(e, pi) == [p \in Procs |-> IF chan[p] = <<e, pi>> THEN None ELSE chan[p]]
-----------------------------------------------------------------------------
FreeFiles == {f \in Files : file[f].ref = 0}
filealloc == Min(FreeFiles)
FreeFds(p) == {fd \in Fds : ofile[p][fd] = None}
fdalloc(p) == Min(FreeFds(p))

\* pipealloc's two calls of filealloc.
filealloc_f0(p) ==
    /\ At(p, "user") /\ Bounded /\ FreeFiles # {}
    /\ file' = [file EXCEPT ![filealloc].ref = 1]
    /\ call' = [call EXCEPT ![p].f0 = filealloc]
    /\ Goto(p, "pipe1")
    /\ UNCHANGED <<ofile, pipe, iref, killed, chan, closing, ff>>

filealloc_f1(p) ==
    /\ At(p, "pipe1")
    /\ IF FreeFiles # {}
       THEN /\ file' = [file EXCEPT ![filealloc].ref = 1]
            /\ call' = [call EXCEPT ![p].f1 = filealloc]
            /\ Goto(p, "pipe2")
            /\ UNCHANGED closing
       ELSE /\ closing' = [closing EXCEPT ![p] = <<call[p].f0>>]
            /\ call' = [call EXCEPT ![p] = NoCall]
            /\ Goto(p, "user")
            /\ UNCHANGED file
    /\ UNCHANGED <<ofile, pipe, iref, killed, chan, ff, left>>

\* The rest of pipealloc and of sys_pipe: the page, the descriptors and copyout.
\* Each of them may fail, and both files are closed then.
sys_pipe(p) ==
    LET f0 == call[p].f0
        f1 == call[p].f1
        free == {pi \in Pages : ~ pipe[pi].used}
        fd0 == fdalloc(p)
        fd1 == Min(FreeFds(p) \ {fd0})
        Opened(pi) == [file EXCEPT
            ![f0] = [@ EXCEPT !.type = "PIPE", !.writable = FALSE, !.obj = pi],
            ![f1] = [@ EXCEPT !.type = "PIPE", !.writable = TRUE, !.obj = pi]]
    IN
    /\ At(p, "pipe2") /\ Goto(p, "user") /\ call' = [call EXCEPT ![p] = NoCall]
    /\ IF free = {}
       THEN /\ closing' = [closing EXCEPT ![p] = <<f0, f1>>]
            /\ UNCHANGED <<file, pipe, ofile>>
       ELSE \E pi \in free :
            /\ pipe' = [pipe EXCEPT ![pi] = [FreePage EXCEPT !.used = TRUE, !.readopen = TRUE,
                                                             !.writeopen = TRUE]]
            /\ file' = Opened(pi)
            /\ \/ /\ Cardinality(FreeFds(p)) >= 2
                  /\ ofile' = [ofile EXCEPT ![p][fd0] = f0, ![p][fd1] = f1]
                  /\ UNCHANGED closing
               \/ /\ closing' = [closing EXCEPT ![p] = <<f0, f1>>]
                  /\ UNCHANGED ofile
    /\ UNCHANGED <<iref, killed, chan, ff, left>>

\* sys_open of an inode that namei or create found, from filealloc on.
sys_open(p, ip) ==
    /\ At(p, "user") /\ Bounded /\ FreeFiles # {}
    /\ IF FreeFds(p) # {}
       THEN /\ file' = [file EXCEPT ![filealloc] = [@ EXCEPT !.ref = 1, !.type = "INODE",
                                                              !.obj = ip]]
            /\ ofile' = [ofile EXCEPT ![p][fdalloc(p)] = filealloc]
            /\ iref' = [iref EXCEPT ![ip] = @ + 1]
            /\ UNCHANGED closing
       ELSE /\ file' = [file EXCEPT ![filealloc].ref = 1]
            /\ closing' = [closing EXCEPT ![p] = <<filealloc>>]
            /\ UNCHANGED <<ofile, iref>>
    /\ UNCHANGED <<pipe, pc, killed, chan, call, ff>>
-----------------------------------------------------------------------------
\* The descriptor is open: otherwise the call returns -1.
argfd(p, fd) == ofile[p][fd] # None

\* filedup, n times.
filedup(f, n) == [file EXCEPT ![f].ref = @ + n]

\* sys_dup: fdalloc and filedup.
sys_dup(p, fd) ==
    LET f == ofile[p][fd] IN
    /\ At(p, "user") /\ Bounded /\ argfd(p, fd) /\ FreeFds(p) # {}
    /\ ofile' = [ofile EXCEPT ![p][fdalloc(p)] = f]
    /\ file' = filedup(f, 1)
    /\ UNCHANGED <<pipe, iref, pc, killed, chan, call, closing, ff>>

sys_close(p, fd) ==
    /\ At(p, "user") /\ argfd(p, fd)
    /\ ofile' = [ofile EXCEPT ![p][fd] = None]
    /\ closing' = [closing EXCEPT ![p] = <<ofile[p][fd]>>]
    /\ UNCHANGED <<file, pipe, iref, pc, killed, chan, call, ff, left>>

\* fork: every descriptor is duplicated with filedup.
fork(p, np) ==
    /\ At(p, "user") /\ Bounded /\ pc[np] = "unused" /\ Goto(np, "user")
    /\ ofile' = [ofile EXCEPT ![np] = ofile[p]]
    /\ file' = [f \in Files |-> filedup(f, Cardinality({fd \in Fds : ofile[p][fd] = f}))[f]]
    /\ UNCHANGED <<pipe, iref, killed, chan, call, closing, ff>>

\* exit closes the descriptors one after the other; usertrap calls it for a
\* killed process.  Nobody else reads ofile, so the slot is cleared at once.
exit(p) ==
    LET open == Fds \ FreeFds(p) IN
    /\ \/ At(p, "user") /\ Goto(p, "exit") /\ UNCHANGED <<ofile, closing>>
       \/ /\ At(p, "exit") /\ open # {}
          /\ closing' = [closing EXCEPT ![p] = <<ofile[p][Min(open)]>>]
          /\ ofile' = [ofile EXCEPT ![p][Min(open)] = None]
          /\ UNCHANGED pc
       \/ At(p, "exit") /\ open = {} /\ Goto(p, "zombie") /\ UNCHANGED <<ofile, closing>>
    /\ UNCHANGED <<file, pipe, iref, killed, chan, call, ff, left>>

\* wait frees the process (freeproc).
freeproc(p) ==
    /\ pc[p] = "zombie" /\ Goto(p, "unused")
    /\ killed' = [killed EXCEPT ![p] = FALSE]
    /\ UNCHANGED <<file, ofile, pipe, iref, chan, call, closing, ff, left>>

\* Fault: the type of a file that is let go of stays.
Released_stale(f) == [file EXCEPT ![f].ref = 0]

\* What else is in a file of type FD_NONE is dead.
Released(f) == [file EXCEPT ![f] = NoFile]

\* fileclose up to release(&ftable.lock), and after it.
fileclose(p) ==
    LET f == Head(closing[p]) IN
    /\ closing[p] # <<>> /\ ff[p] = None
    /\ closing' = [closing EXCEPT ![p] = Tail(@)]
    /\ IF file[f].ref > 1
       THEN file' = [file EXCEPT ![f].ref = @ - 1] /\ UNCHANGED ff
       ELSE /\ file' = Released(f)
            /\ ff' = [ff EXCEPT ![p] = IF file[f].type = "NONE" THEN None ELSE file[f]]
    /\ UNCHANGED <<ofile, pipe, iref, pc, killed, chan, call, left>>

\* Fault: the last writer leaves without waking the readers.
pipeclose_quiet(pi, writable) ==
    LET e == IF writable THEN [pipe[pi] EXCEPT !.writeopen = FALSE]
             ELSE [pipe[pi] EXCEPT !.readopen = FALSE]
    IN  /\ pipe' = [pipe EXCEPT ![pi] = IF e.readopen \/ e.writeopen THEN e ELSE FreePage]
        /\ chan' = IF writable THEN chan ELSE Wakeup("nwrite", pi)

pipeclose(pi, writable) ==
    LET e == IF writable THEN [pipe[pi] EXCEPT !.writeopen = FALSE]
             ELSE [pipe[pi] EXCEPT !.readopen = FALSE]
    IN  /\ pipe' = [pipe EXCEPT ![pi] = IF e.readopen \/ e.writeopen THEN e ELSE FreePage]
        /\ chan' = Wakeup(IF writable THEN "nread" ELSE "nwrite", pi)

\* The pipe's lock is free: nobody is on the way from the test to the sleep.
Unlocked(pi) == \A q \in Procs : ~ (pc[q] \in {"rsleep", "wsleep"} /\ call[q].pi = pi)

fileclose_end(p) ==
    /\ ff[p] # None /\ ff' = [ff EXCEPT ![p] = None]
    /\ \/ /\ ff[p].type = "PIPE" /\ Unlocked(ff[p].obj)
          /\ pipeclose(ff[p].obj, ff[p].writable)
          /\ UNCHANGED iref
       \/ /\ ff[p].type = "INODE"
          /\ iref' = [iref EXCEPT ![ff[p].obj] = @ - 1]
          /\ UNCHANGED <<pipe, chan>>
    /\ UNCHANGED <<file, ofile, pc, killed, call, closing, left>>
-----------------------------------------------------------------------------
\* sys_read and sys_write on a pipe, up to acquire(&pi->lock).
sys_rw(p, fd, n) ==
    LET f == ofile[p][fd] IN
    /\ At(p, "user") /\ argfd(p, fd) /\ file[f].type = "PIPE"
    /\ Goto(p, IF file[f].writable THEN "write" ELSE "read")
    /\ call' = [call EXCEPT ![p].pi = file[f].obj, ![p].n = n]
    /\ UNCHANGED <<file, ofile, pipe, iref, killed, chan, closing, ff, left>>

Return(p) == Goto(p, "user") /\ call' = [call EXCEPT ![p] = NoCall]

Held(e) == (e.nwrite - e.nread) % UINT

\* What is at place i of the ring after n more bytes are written.
Byte(e, n, i) ==
    LET J == {j \in 0 .. n - 1 : (e.nwrite + j) % PIPESIZE = i}
    IN  IF J = {} THEN e.data[i] ELSE e.sent + Max(J)

\* The pipe after n more bytes are written, and after n are read.
Put(e, n) ==
    [e EXCEPT !.data = [i \in Ring |-> Byte(e, n, i)], !.nwrite = (@ + n) % UINT, !.sent = @ + n]
Get(e, n) == [e EXCEPT !.nread = (@ + n) % UINT, !.recv = @ + n]

\* Fault: the ring is full one byte later.
Room_late(e) == PIPESIZE + 1 - Held(e)

\* Bytes that can be written before nwrite == nread + PIPESIZE.
Room(e) == PIPESIZE - Held(e)

\* pipewrite from acquire or from a sleep on: it gives up, or writes until it is
\* done, copyin fails or the pipe is full.
pipewrite(p) ==
    LET pi == call[p].pi
        e == pipe[pi]
    IN
    /\ At(p, "write") /\ Unlocked(pi)
    /\ IF ~ e.readopen \/ killed[p]
       THEN Return(p) /\ UNCHANGED <<pipe, chan>>
       ELSE \E m \in 0 .. Min({call[p].n, Room(e), MaxBytes - e.sent}) :
            /\ pipe' = [pipe EXCEPT ![pi] = [Put(e, m) EXCEPT !.cut = FALSE]]
            /\ chan' = Wakeup("nread", pi)
            /\ IF m = Room(e) /\ m < call[p].n
               THEN Goto(p, "wsleep") /\ call' = [call EXCEPT ![p].n = @ - m]
               ELSE Return(p)
    /\ UNCHANGED <<file, ofile, iref, killed, closing, ff, left>>

\* The same, when kill is called after m bytes: the loop returns -1 at once and
\* leaves the readers asleep.
pipewrite_killed(p) ==
    LET pi == call[p].pi
        e == pipe[pi]
    IN
    /\ At(p, "write") /\ Unlocked(pi)
    /\ e.readopen /\ ~ killed[p]
    /\ \E m \in 1 .. Min({call[p].n - 1, Room(e), MaxBytes - e.sent}) :
          pipe' = [pipe EXCEPT ![pi] = [Put(e, m) EXCEPT !.cut = TRUE]]
    /\ killed' = [killed EXCEPT ![p] = TRUE]
    /\ Return(p)
    /\ UNCHANGED <<file, ofile, iref, chan, closing, ff, left>>

\* Fault: piperead wakes a writer only when it has emptied the pipe.
Wake_empty(e, pi) == IF Held(e) = 0 THEN Wakeup("nwrite", pi) ELSE chan

Wake_writers(e, pi) == Wakeup("nwrite", pi)

\* piperead takes what there is; if copyout fails at byte m, that one is taken too.
piperead(p) ==
    LET pi == call[p].pi
        e == pipe[pi]
        n == Min({call[p].n, Held(e)})
    IN
    /\ At(p, "read") /\ Unlocked(pi)
    /\ IF Held(e) = 0 /\ e.writeopen
       THEN \/ killed[p] /\ Return(p) /\ UNCHANGED <<pipe, chan>>
            \/ ~ killed[p] /\ Goto(p, "rsleep") /\ UNCHANGED <<pipe, chan, call>>
       ELSE \E m \in (1 .. n) \cup {n} :
            /\ pipe' = [pipe EXCEPT ![pi] = Get(e, m)]
            /\ chan' = Wake_writers(Get(e, m), pi)
            /\ Return(p)
    /\ UNCHANGED <<file, ofile, iref, killed, closing, ff, left>>

\* sleep: the lock is given up and the process sleeps.
sleep(p) ==
    /\ pc[p] \in {"rsleep", "wsleep"}
    /\ Goto(p, IF pc[p] = "rsleep" THEN "read" ELSE "write")
    /\ chan' = [chan EXCEPT ![p] = <<IF pc[p] = "rsleep" THEN "nread" ELSE "nwrite", call[p].pi>>]
    /\ UNCHANGED <<file, ofile, pipe, iref, killed, call, closing, ff, left>>

\* kill(pid, SIGKILL) by a running process.
kill(p) ==
    /\ pc[p] \notin {"unused", "zombie", "exit"} /\ ~ killed[p]
    /\ killed' = [killed EXCEPT ![p] = TRUE]
    /\ chan' = [chan EXCEPT ![p] = None]
    /\ UNCHANGED <<file, ofile, pipe, iref, pc, call, closing, ff, left>>

Next ==
    \E p \in Procs :
        \/ filealloc_f0(p) \/ filealloc_f1(p) \/ sys_pipe(p)
        \/ \E ip \in Inodes : sys_open(p, ip)
        \/ \E fd \in Fds : sys_dup(p, fd) \/ sys_close(p, fd)
        \/ \E np \in Procs : fork(p, np)
        \/ exit(p) \/ freeproc(p) \/ fileclose(p) \/ fileclose_end(p)
        \/ \E fd \in Fds, n \in {1, MaxN} : sys_rw(p, fd, n)
        \/ pipewrite(p) \/ pipewrite_killed(p) \/ piperead(p) \/ sleep(p) \/ kill(p)

Spec == Init /\ [][Next]_vars
-----------------------------------------------------------------------------
Count(S) == Cardinality(S)

\* A file is referenced once by each descriptor and by each call that has it in
\* hand, so no call meets a file that was let go of, and an inode once by each
\* open file on it and by a close of one that is under way.
CountsExact ==
    /\ \A f \in Files :
          file[f].ref = Count({pf \in Procs \X Fds : ofile[pf[1]][pf[2]] = f})
                        + Count({p \in Procs : call[p].f0 = f}) + Count({p \in Procs : call[p].f1 = f})
                        + Count({pj \in Procs \X {1, 2} : pj[2] <= Len(closing[pj[1]])
                                                          /\ closing[pj[1]][pj[2]] = f})
    /\ \A ip \in Inodes :
          iref[ip] = Count({f \in Files : file[f].type = "INODE" /\ file[f].obj = ip})
                     + Count({p \in Procs : ff[p] # None /\ ff[p].type = "INODE" /\ ff[p].obj = ip})

\* An end of a pipe is open exactly while a file for that end is, or its last close
\* has not reached pipeclose; the page of the pipe is kept exactly that long.  So the
\* pipe is neither lost nor freed under a reader or writer, whatever the order in
\* which the processes that share it close, exit and fail.
EndsOpen(pi) ==
    LET End(w, e) == e.type = "PIPE" /\ e.obj = pi /\ e.writable = w
        Has(w) == \/ \E f \in Files : file[f].ref > 0 /\ End(w, file[f])
                  \/ \E p \in Procs : ff[p] # None /\ End(w, ff[p])
    IN  /\ pipe[pi].readopen = Has(FALSE) /\ pipe[pi].writeopen = Has(TRUE)
        /\ pipe[pi].used = (pipe[pi].readopen \/ pipe[pi].writeopen)
        /\ \A p \in Procs : call[p].pi = pi => pipe[pi].used

\* filedup, fork, fileclose and the failures of sys_pipe and sys_open keep the counts
\* of the file table exact, and with them the life of pipes and inodes.
RefsExact == CountsExact /\ \A pi \in Pages : EndsOpen(pi)

\* Bytes leave a pipe as they were written, in order, once, also when nread and nwrite
\* wrap around.  (One for which copyout fails leaves it too.)
Fifo ==
    \A pi \in Pages :
        LET e == pipe[pi] IN
        /\ e.sent - e.recv = Held(e) /\ Held(e) <= PIPESIZE
        /\ \A j \in 0 .. Held(e) - 1 : e.data[(e.nread + j) % PIPESIZE] = e.recv + j

\* A reader sleeps only on a pipe that may still be written to and is empty, or was
\* last written by a process killed in the middle of pipewrite; a writer sleeps only
\* on a pipe that is full and may still be read.  No other wakeup is lost.
SleepersJustified ==
    \A p \in Procs, pi \in Pages :
        LET e == pipe[pi] IN
        /\ chan[p] = <<"nread", pi>> => (Held(e) = 0 \/ e.cut) /\ e.writeopen
        /\ chan[p] = <<"nwrite", pi>> => Room(e) = 0 /\ e.readopen
=============================================================================
