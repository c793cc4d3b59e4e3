--------------------------------- MODULE Fs ---------------------------------
(***************************************************************************)
(* Inodes, directories and path names (kernel/fs.c) under the file system  *)
(* calls of kernel/sysfile.c: open, create, mkdir, link, unlink, chdir,    *)
(* close, by processes that run at the same time.                          *)
(*                                                                         *)
(* dino and ents are what the calls have logged: a disk inode and, for a   *)
(* directory, its entries ("." left out).  mem is the in-memory inode; it  *)
(* is kept by number, since iget gives a number one table entry while it   *)
(* is referenced and a fresh one afterwards.  A step is what happens       *)
(* between taking and giving up an inode's sleep lock, cut where another   *)
(* lock or itable.lock is taken meanwhile.  File contents: module Inode.   *)
(***************************************************************************)
EXTENDS Integers, FiniteSets, Sequences, FiniteSetsExt

CONSTANTS
    Procs, Names,
    NINODES,        \* inodes on disk, the first of them the root
    Calls,          \* the calls that are made: [op, path, new], a path being a
                    \* sequence of names that starts with "/" when it is absolute
    Trees,          \* the file systems to start from: [dino, ents]
    MaxCalls,       \* bound: calls in all
    None

VARIABLES
    dino, ents,
    mem,            \* [ref, valid, lock, type, nlink]; the last two are the copies
    cwd, fd,        \* p->cwd, and the inode of p's open file or 0
    pc, c,          \* where p is in its call, and the call's variables
    puts,           \* inodes that p is about to iput
    stage,          \* where p is in iput
    left

vars == <<dino, ents, mem, cwd, fd, pc, c, puts, stage, left>>

ROOT == 1
Inums == 1 .. NINODES
Dnames == Names \cup {".."}
NoEnts == [n \in Dnames |-> 0]
NoCall == [op |-> None, path |-> <<>>, new |-> <<>>, ip |-> 0, dp |-> 0, name |-> None,
           old |-> 0, stale |-> FALSE]

TypeOK ==
    /\ dino \in [Inums -> [type : {"free", "dir", "file"}, nlink : Nat]]
    /\ ents \in [Inums -> [Dnames -> {0} \cup Inums]]
    /\ mem \in [Inums -> [ref : Nat, valid : BOOLEAN, lock : Procs \cup {None},
                          type : {"free", "dir", "file"}, nlink : Nat]]
    /\ cwd \in [Procs -> Inums] /\ fd \in [Procs -> {0} \cup Inums]
    /\ stage \in [Procs -> {"enter", "trunc", "inval", "drop"}]

\* An unused inode on disk, and one that is not in memory.
FreeInode == [type |-> "free", nlink |-> 0]
NotInMemory == [ref |-> 0, valid |-> FALSE, lock |-> None, type |-> "free", nlink |-> 0]

Init ==
    /\ \E t \in Trees : dino = t.dino /\ ents = t.ents
    /\ mem = [i \in Inums |-> IF i = ROOT THEN [NotInMemory EXCEPT !.ref = Cardinality(Procs)]
                              ELSE NotInMemory]
    /\ cwd = [p \in Procs |-> ROOT] /\ fd = [p \in Procs |-> 0]
    /\ pc = [p \in Procs |-> "idle"] /\ c = [p \in Procs |-> NoCall]
    /\ puts = [p \in Procs |-> <<>>] /\ stage = [p \in Procs |-> "enter"]
    /\ left = MaxCalls

\* Nothing happens after a panic.
Panicked == \E p \in Procs : pc[p] = "panic"

At(p, l) == ~ Panicked /\ pc[p] = l /\ puts[p] = <<>>
Iput(p, l) == ~ Panicked /\ puts[p] # <<>> /\ stage[p] = l
Goto(p, l) == pc' = [pc EXCEPT ![p] = l]
Put(p, s) == puts' = [puts EXCEPT ![p] = s]
\* The call is over once the inodes in s are put.
Return(p, s) == Goto(p, "idle") /\ Put(p, s) /\ c' = [c EXCEPT ![p] = NoCall]

Quiet == \A p \in Procs : At(p, "idle")
-----------------------------------------------------------------------------
Iget(m, i) == [m EXCEPT ![i].ref = @ + 1]

\* What ilock leaves in ip: the fields on disk, unless they are already there.
Load(i) == IF mem[i].valid THEN mem[i]
           ELSE [mem[i] EXCEPT !.valid = TRUE, !.type = dino[i].type, !.nlink = dino[i].nlink]

Ilock(p, i) == [mem EXCEPT ![i] = [Load(i) EXCEPT !.lock = p]]
Loaded(i) == [mem EXCEPT ![i] = Load(i)]
Unlock(m, i) == [m EXCEPT ![i].lock = None]

\* ilock(ip) returns: the lock is free and there is an inode of that number.
CanLock(i) == mem[i].lock = None /\ Load(i).type # "free"

\* ip->nlink += d; iupdate(ip).  The caller holds the lock and has loaded ip.
Nlink(m, i, d) == [m EXCEPT ![i].nlink = @ + d]
Iupdate(m, S) == [i \in Inums |-> IF i \in S THEN [type |-> m[i].type, nlink |-> m[i].nlink]
                                  ELSE dino[i]]

\* The inode p is about to lock, or 0.
Locks(p) ==
    IF puts[p] # <<>> \/ Panicked THEN 0
    ELSE IF pc[p] \in {"walk", "namei", "unlink_ip", "create_ip", "create_new"} THEN c[p].ip
    ELSE IF pc[p] \in {"unlink", "create", "link_dp"} THEN c[p].dp
    ELSE IF pc[p] = "link_bad" THEN c[p].old ELSE 0

\* ilock: panic("ilock: no type").
ilock_panic(p) ==
    /\ Locks(p) # 0 /\ mem[Locks(p)].lock = None /\ Load(Locks(p)).type = "free"
    /\ Goto(p, "panic")
    /\ UNCHANGED <<dino, ents, mem, cwd, fd, c, puts, stage, left>>
-----------------------------------------------------------------------------
\* Fault: references of others are not looked at.
Last_anyone(i) == mem[i].valid /\ mem[i].nlink = 0

\* The inode has no links and no other references.
Last(i) == mem[i].ref = 1 /\ mem[i].valid /\ mem[i].nlink = 0

\* iput up to release(&itable.lock).
iput_enter(p) ==
    LET i == Head(puts[p]) IN
    /\ Iput(p, "enter")
    /\ IF Last(i)
       THEN /\ mem[i].lock = None
            /\ mem' = [mem EXCEPT ![i].lock = p]
            /\ stage' = [stage EXCEPT ![p] = "trunc"]
            /\ UNCHANGED puts
       ELSE /\ mem' = [mem EXCEPT ![i] = IF @.ref = 1 THEN NotInMemory
                                         ELSE [@ EXCEPT !.ref = @ - 1]]
            /\ Put(p, Tail(puts[p]))
            /\ UNCHANGED stage
    /\ UNCHANGED <<dino, ents, cwd, fd, pc, c, left>>

\* itrunc, ip->type = 0 and iupdate.
iput_trunc(p) ==
    LET i == Head(puts[p]) IN
    /\ Iput(p, "trunc")
    /\ dino' = [dino EXCEPT ![i] = FreeInode]
    /\ ents' = [ents EXCEPT ![i] = NoEnts]
    /\ mem' = [mem EXCEPT ![i].type = "free"]
    /\ stage' = [stage EXCEPT ![p] = "inval"]
    /\ UNCHANGED <<cwd, fd, pc, c, puts, left>>

\* Fault: the copy in memory stays valid.
Invalid_kept(i) == [mem EXCEPT ![i].lock = None]

Invalid(i) == [mem EXCEPT ![i] = [NotInMemory EXCEPT !.ref = mem[i].ref]]

\* ip->valid = 0 and releasesleep, then the last critical section.
iput_inval(p) ==
    /\ Iput(p, "inval")
    /\ mem' = Invalid(Head(puts[p]))
    /\ stage' = [stage EXCEPT ![p] = "drop"]
    /\ UNCHANGED <<dino, ents, cwd, fd, pc, c, puts, left>>

iput_drop(p) ==
    LET i == Head(puts[p]) IN
    /\ Iput(p, "drop")
    /\ mem' = [mem EXCEPT ![i] = IF @.ref = 1 THEN NotInMemory ELSE [@ EXCEPT !.ref = @ - 1]]
    /\ Put(p, Tail(puts[p]))
    /\ stage' = [stage EXCEPT ![p] = "enter"]
    /\ UNCHANGED <<dino, ents, cwd, fd, pc, c, left>>
-----------------------------------------------------------------------------
\* Does the call ask for the parent of the path it walks?
Creates == {"create", "mkdir", "mknod"}
Parent(p) == c[p].op \in Creates \cup {"unlink"} \/ c[p].old # 0

\* namex up to the loop: a reference to the root or to the current directory.
Begin(p, x, path) ==
    LET abs == Head(path) = "/"
        i == IF abs THEN ROOT ELSE cwd[p]
    IN
    /\ mem' = Iget(mem, i)
    /\ c' = [c EXCEPT ![p] = [x EXCEPT !.ip = i, !.path = IF abs THEN Tail(path) ELSE path]]
    /\ Goto(p, "walk")

start(p, x) ==
    /\ At(p, "idle") /\ left > 0 /\ left' = left - 1
    /\ x.op \in {"open", "create"} => fd[p] = 0
    /\ Begin(p, [NoCall EXCEPT !.op = x.op, !.new = x.new], x.path)
    /\ UNCHANGED <<dino, ents, cwd, fd, puts, stage>>

\* Where a call goes with the inode namex found, and when it found none.
Found(p) == IF c[p].old # 0 THEN "link_dp"
            ELSE IF c[p].op \in Creates THEN "create"
            ELSE IF c[p].op = "unlink" THEN "unlink" ELSE "namei"
Missed(p, s) ==
    IF c[p].old = 0 THEN Return(p, s)
    ELSE Goto(p, "link_bad") /\ Put(p, s) /\ UNCHANGED c

\* Some directory has an entry for d (or d is the root).
Linked(d) == d = ROOT \/ \E e \in Inums, n \in Names : ents[e][n] = d

skipelem(path) == [name |-> Head(path), rest |-> Tail(path)]

\* The inode of the entry, 0 if there is none; dirlink writes one that is not there.
dirlookup(d, name) == ents[d][name]
dirlink(e, d, name, i) == [e EXCEPT ![d][name] = i]

\* One pass of namex's loop.
walk(p) ==
    LET i == c[p].ip
        name == skipelem(c[p].path).name
        next == dirlookup(i, name)
        last == Len(c[p].path) = 1
    IN
    /\ At(p, "walk") /\ CanLock(i)
    /\ \/ /\ Load(i).type # "dir" \/ (next = 0 /\ ~ (Parent(p) /\ last))
          /\ mem' = Loaded(i)
          /\ Missed(p, <<i>>)
       \/ /\ Load(i).type = "dir" /\ Parent(p) /\ last
          /\ mem' = Loaded(i)
          /\ c' = [c EXCEPT ![p].ip = 0, ![p].dp = i, ![p].name = name, ![p].path = <<>>]
          /\ Goto(p, Found(p)) /\ UNCHANGED puts
       \/ /\ Load(i).type = "dir" /\ next # 0 /\ ~ (Parent(p) /\ last)
          /\ mem' = Iget(Loaded(i), next)
          /\ c' = [c EXCEPT ![p].ip = next, ![p].path = skipelem(@).rest,
                            ![p].stale = @ \/ (name = ".." /\ ~ Linked(i))]
          /\ Put(p, <<i>>)
          /\ Goto(p, IF last THEN Found(p) ELSE "walk")
    /\ UNCHANGED <<dino, ents, cwd, fd, stage, left>>
-----------------------------------------------------------------------------
\* sys_open, sys_chdir and sys_link with the inode namei found.
namei_open(p) ==
    LET i == c[p].ip IN
    /\ At(p, "namei") /\ c[p].op = "open" /\ CanLock(i)
    /\ mem' = Loaded(i)
    /\ \/ fd' = [fd EXCEPT ![p] = i] /\ Return(p, <<>>)
       \/ Load(i).type = "dir" /\ Return(p, <<i>>) /\ UNCHANGED fd      \* omode != O_RDONLY
    /\ UNCHANGED <<dino, ents, cwd, stage, left>>

sys_chdir(p) ==
    LET i == c[p].ip IN
    /\ At(p, "namei") /\ c[p].op = "chdir" /\ CanLock(i)
    /\ mem' = Loaded(i)
    /\ IF Load(i).type = "dir"
       THEN Return(p, <<cwd[p]>>) /\ cwd' = [cwd EXCEPT ![p] = i]
       ELSE Return(p, <<i>>) /\ UNCHANGED cwd
    /\ UNCHANGED <<dino, ents, fd, stage, left>>

\* Fault: the link is counted only once the entry is there.
Link_late(i) == Loaded(i)

Link_counted(i) == Nlink(Loaded(i), i, 1)

sys_link(p) ==
    LET i == c[p].ip
        path == c[p].new
        abs == Head(path) = "/"
        j == IF abs THEN ROOT ELSE cwd[p]
    IN
    /\ At(p, "namei") /\ c[p].op = "link" /\ CanLock(i)
    /\ IF Load(i).type = "dir"
       THEN mem' = Loaded(i) /\ Return(p, <<i>>) /\ UNCHANGED dino
       ELSE /\ mem' = Iget(Link_counted(i), j)
            /\ dino' = Iupdate(Link_counted(i), {i})
            /\ c' = [c EXCEPT ![p].old = i, ![p].ip = j,
                              ![p].path = IF abs THEN Tail(path) ELSE path]
            /\ Goto(p, "walk") /\ UNCHANGED puts
    /\ UNCHANGED <<ents, cwd, fd, stage, left>>

\* dirlink and what follows: the entry is made, or there is one already, which
\* dirlookup references and dirlink puts while dp is locked.
link_dp(p) ==
    LET d == c[p].dp
        e == dirlookup(d, c[p].name)
    IN
    /\ At(p, "link_dp") /\ CanLock(d)
    /\ IF e # 0
       THEN /\ mem' = Iget(Ilock(p, d), e)
            /\ Put(p, <<e>>) /\ Goto(p, "link_exists") /\ UNCHANGED <<ents, c>>
       ELSE /\ mem' = Loaded(d)
            /\ ents' = dirlink(ents, d, c[p].name, c[p].old)
            /\ Return(p, <<d, c[p].old>>)
    /\ UNCHANGED <<dino, cwd, fd, stage, left>>

link_exists(p) ==
    /\ At(p, "link_exists") /\ Goto(p, "link_bad")
    /\ mem' = Unlock(mem, c[p].dp) /\ Put(p, <<c[p].dp>>)
    /\ c' = [c EXCEPT ![p].dp = 0]
    /\ UNCHANGED <<dino, ents, cwd, fd, stage, left>>

\* "bad:" the link is taken back.
link_bad(p) ==
    LET i == c[p].old
        m == Nlink(Loaded(i), i, -1)
    IN
    /\ At(p, "link_bad") /\ CanLock(i)
    /\ mem' = m /\ dino' = Iupdate(m, {i})
    /\ Return(p, <<i>>)
    /\ UNCHANGED <<ents, cwd, fd, stage, left>>
-----------------------------------------------------------------------------
isdirempty(i) == \A n \in Names : ents[i][n] = 0

\* sys_unlink with dp from nameiparent: ilock(dp) and dirlookup.
unlink(p) ==
    LET d == c[p].dp
        i == dirlookup(d, c[p].name)
    IN
    /\ At(p, "unlink") /\ CanLock(d)
    /\ IF c[p].name = ".." \/ i = 0
       THEN mem' = Loaded(d) /\ Return(p, <<d>>)
       ELSE /\ mem' = Iget(Ilock(p, d), i)
            /\ c' = [c EXCEPT ![p].ip = i]
            /\ Goto(p, "unlink_ip") /\ UNCHANGED puts
    /\ UNCHANGED <<dino, ents, cwd, fd, stage, left>>

Entry_gone(p, d, i) == IF Load(i).type = "dir" THEN Nlink(Ilock(p, i), d, -1) ELSE Ilock(p, i)

\* ilock(ip); the entry is cleared and dp let go of.
unlink_ip(p) ==
    LET d == c[p].dp
        i == c[p].ip
    IN
    /\ At(p, "unlink_ip") /\ CanLock(i)
    /\ IF Load(i).nlink < 1
       THEN Goto(p, "panic") /\ UNCHANGED <<dino, ents, mem, c, puts>>  \* "unlink: nlink < 1"
       ELSE IF Load(i).type = "dir" /\ ~ isdirempty(i)
       THEN /\ mem' = Unlock(Loaded(i), d) /\ Return(p, <<i, d>>)
            /\ UNCHANGED <<dino, ents>>
       ELSE /\ ents' = [ents EXCEPT ![d][c[p].name] = 0]
            /\ mem' = Unlock(Entry_gone(p, d, i), d)
            /\ dino' = Iupdate(mem', {d})
            /\ c' = [c EXCEPT ![p].dp = 0]
            /\ Goto(p, "unlink_end") /\ Put(p, <<d>>)
    /\ UNCHANGED <<cwd, fd, stage, left>>

\* ip->nlink--; iupdate(ip); iunlockput(ip).
unlink_end(p) ==
    LET i == c[p].ip
        m == Unlock(Nlink(mem, i, -1), i)
    IN
    /\ At(p, "unlink_end")
    /\ mem' = m /\ dino' = Iupdate(m, {i})
    /\ Return(p, <<i>>)
    /\ UNCHANGED <<ents, cwd, fd, stage, left>>
-----------------------------------------------------------------------------
\* create with dp from nameiparent: there is such an entry, or an inode is to be
\* allocated while dp stays locked.
create(p) ==
    LET d == c[p].dp
        i == dirlookup(d, c[p].name)
    IN
    /\ At(p, "create") /\ CanLock(d)
    /\ IF i # 0
       THEN /\ mem' = Iget(Loaded(d), i)
            /\ c' = [c EXCEPT ![p].ip = i, ![p].dp = 0]
            /\ Goto(p, "create_ip") /\ Put(p, <<d>>)
       ELSE /\ mem' = Ilock(p, d)
            /\ Goto(p, "ialloc") /\ UNCHANGED <<c, puts>>
    /\ UNCHANGED <<dino, ents, cwd, fd, stage, left>>

\* The entry's inode: open takes a file, all else fails.
create_ip(p) ==
    LET i == c[p].ip IN
    /\ At(p, "create_ip") /\ CanLock(i)
    /\ mem' = Loaded(i)
    /\ IF c[p].op = "create" /\ Load(i).type = "file"
       THEN fd' = [fd EXCEPT ![p] = i] /\ Return(p, <<>>)
       ELSE Return(p, <<i>>) /\ UNCHANGED fd
    /\ UNCHANGED <<dino, ents, cwd, stage, left>>

FreeInodes == {i \in Inums : dino[i].type = "free"}

\* The first free disk inode is marked allocated, then iget.
ialloc(p) ==
    LET i == Min(FreeInodes) IN
    /\ At(p, "ialloc")
    /\ IF FreeInodes = {}
       THEN Goto(p, "panic") /\ UNCHANGED <<dino, mem, c>>              \* "ialloc: no inodes"
       ELSE /\ dino' = [dino EXCEPT ![i] = [type |-> IF c[p].op = "mkdir" THEN "dir" ELSE "file",
                                            nlink |-> 0]]
            /\ mem' = Iget(mem, i)
            /\ c' = [c EXCEPT ![p].ip = i]
            /\ Goto(p, "create_new")
    /\ UNCHANGED <<ents, cwd, fd, puts, stage, left>>

\* The rest of create: links and entries.
create_new(p) ==
    LET d == c[p].dp
        i == c[p].ip
        dir == c[p].op = "mkdir"
        m == [Ilock(p, i) EXCEPT ![i].nlink = 1, ![d].nlink = IF dir THEN @ + 1 ELSE @]
    IN
    /\ At(p, "create_new") /\ CanLock(i)
    /\ mem' = Unlock(m, d) /\ dino' = Iupdate(m, {d, i})
    /\ ents' = dirlink(IF dir THEN dirlink(ents, i, "..", d) ELSE ents, d, c[p].name, i)
    /\ c' = [c EXCEPT ![p].dp = 0]
    /\ Goto(p, "create_end") /\ Put(p, <<d>>)
    /\ UNCHANGED <<cwd, fd, stage, left>>

\* sys_mkdir and sys_mknod put the inode, sys_open keeps it in its file.
create_end(p) ==
    LET i == c[p].ip IN
    /\ At(p, "create_end")
    /\ mem' = Unlock(mem, i)
    /\ IF c[p].op = "create" THEN Return(p, <<>>) /\ fd' = [fd EXCEPT ![p] = i]
       ELSE Return(p, <<i>>) /\ UNCHANGED fd
    /\ UNCHANGED <<dino, ents, cwd, stage, left>>

\* sys_fstat of the open file: ilock, stati, iunlock.
filestat(p) ==
    /\ At(p, "idle") /\ fd[p] # 0 /\ CanLock(fd[p])
    /\ mem' = Loaded(fd[p])
    /\ UNCHANGED <<dino, ents, cwd, fd, pc, c, puts, stage, left>>

\* The last close of the file: begin_op, iput, end_op.
close(p) ==
    /\ At(p, "idle") /\ fd[p] # 0
    /\ Put(p, <<fd[p]>>) /\ fd' = [fd EXCEPT ![p] = 0]
    /\ UNCHANGED <<dino, ents, mem, cwd, pc, c, stage, left>>

\* All calls are made and have returned, or the kernel has panicked.
Stopped == (Panicked \/ (Quiet /\ left = 0)) /\ UNCHANGED vars

Next ==
    \/ \E p \in Procs :
          \/ iput_enter(p) \/ iput_trunc(p) \/ iput_inval(p) \/ iput_drop(p)
          \/ \E x \in Calls : start(p, x)
          \/ walk(p) \/ ilock_panic(p)
          \/ namei_open(p) \/ sys_chdir(p)
          \/ sys_link(p) \/ link_dp(p) \/ link_exists(p) \/ link_bad(p)
          \/ unlink(p) \/ unlink_ip(p) \/ unlink_end(p)
          \/ create(p) \/ create_ip(p) \/ ialloc(p) \/ create_new(p) \/ create_end(p)
          \/ filestat(p)
          \/ close(p)
    \/ Stopped

Spec == Init /\ [][Next]_vars
-----------------------------------------------------------------------------
\* Entries that lead to i; the ".." of a directory that was removed is not one.
Links(i) ==
    Cardinality({x \in Inums \X Names : ents[x[1]][x[2]] = i})
    + Cardinality({d \in Inums \ {ROOT} : Linked(d) /\ ents[d][".."] = i})

\* Inodes a process has a reference to.
Held(p) == {cwd[p], fd[p], c[p].ip, c[p].dp, c[p].old} \cup {puts[p][k] : k \in 1 .. Len(puts[p])}

\* Neither an entry nor a reference in memory leads to an inode that was freed or
\* reused.  Every entry is counted in nlink on disk before it is made and until it is
\* gone, whatever create, link, unlink and their failures do at the same time; and an
\* inode in use is not freed, so ilock does not panic, unless it was reached through
\* the ".." of a removed directory.  With iput this is "if that was the last reference
\* and the inode has no links to it, free the inode" (fs.c).
NoDangling ==
    /\ \A i \in Inums : Links(i) > 0 => dino[i].type # "free" /\ dino[i].nlink >= Links(i)
    /\ \A p \in Procs :
          /\ ~ c[p].stale =>
                \A i \in Held(p) \ {0} :
                    dino[i].type = "free" => stage[p] \in {"inval", "drop"} /\ i = Head(puts[p])
          /\ pc[p] = "panic" => c[p].stale \/ FreeInodes = {}

\* What is in memory is what is on disk whenever the lock is free ("must be called
\* after every change to an ip->xxx field that lives on disk").
CacheCurrent ==
    \A i \in Inums : mem[i].valid /\ mem[i].lock = None =>
                         mem[i].type = dino[i].type /\ mem[i].nlink = dino[i].nlink

\* "ip->ref == 1 means no other process can have ip locked, so this acquiresleep()
\* won't block (or deadlock)" (iput).
IputNeverBlocks ==
    \A p \in Procs : puts[p] # <<>> /\ stage[p] = "enter" =>
        LET i == Head(puts[p]) IN mem[i].ref >= 1 /\ (Last(i) => mem[i].lock = None)

\* ilock never panics with "no type" and unlink never with "nlink < 1".  It does not
\* hold: the ".." of a removed directory may lead to a freed inode.
NeverPanics == \A p \in Procs : pc[p] = "panic" => FreeInodes = {}

\* "Number of links to inode in file system" (fs.h), between calls.  It does not hold:
\* what is created in a directory that is removed meanwhile has no entry left.
NlinkExact == Quiet => \A i \in Inums \ {ROOT} : dino[i].nlink = Links(i)
=============================================================================
