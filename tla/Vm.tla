--------------------------------- MODULE Vm ---------------------------------
(***************************************************************************)
(* Physical pages and address spaces: kernel/kalloc.c, kernel/vm.c and the *)
(* calls that build, copy, grow and free an address space: allocproc,      *)
(* freeproc, userinit, fork, growproc (kernel/proc.c), exec                *)
(* (kernel/exec.c), sys_exec, sys_sbrk.                                    *)
(*                                                                         *)
(* Processes share only the free list, so a call is one step except where  *)
(* threads of one process meet: they share p->pagetable and p->sz, which   *)
(* growproc changes under p->lock and fork and exec use without it.  fork  *)
(* has a step for each use of p->sz, and a sibling's sbrk may come between *)
(* exec's two.  Not followed: what a sibling does on a page table that     *)
(* exec has freed, and exit() while threads run (KThreads.tla).            *)
(*                                                                         *)
(* Pages that others hold meanwhile (pipes, stacks, other calls) come and  *)
(* go in steps of their own, so every kalloc may fail.  An address counts  *)
(* units of which a page has PGSIZE; a page table has FAN entries at each  *)
(* of LEVELS levels, and the table at level l that serves page v is        *)
(* <<l, v \div FAN^l>>.                                                    *)
(***************************************************************************)
EXTENDS Integers, FiniteSets, Sequences, FiniteSetsExt, TLC

CONSTANTS
    NPROC,
    NPAGES,         \* physical pages
    PGSIZE, FAN, LEVELS,
    KERNBASE,       \* the kernel's text page; the page pa of RAM is at KERNBASE + pa
    NDEV,           \* pages of device registers, from address 0 on
    UINT,           \* values of the unsigned in growproc: 2^32
    Programs,       \* programs to exec: sequences of [va, memsz, filesz]
    Increments,     \* arguments of sbrk
    MaxArgs         \* bound: arguments of exec

ASSUME VmAssumption ==
    /\ PGSIZE \in Nat \ {0} /\ FAN \in Nat \ {0, 1} /\ LEVELS \in Nat \ {0}
    \* there is less memory than an unsigned counts, and that is less than the addresses
    /\ NDEV < KERNBASE /\ KERNBASE + NPAGES < FAN ^ LEVELS - 2 * NPROC - 2
    /\ NPAGES * PGSIZE < UINT /\ UINT <= (FAN ^ LEVELS - 2) * PGSIZE

VARIABLES
    freelist,       \* kmem.freelist
    others,         \* pages in use elsewhere
    proc,           \* [used, sz, tf, tab, leaf]: p->sz, the trapframe page, the page
                    \* tables and the leaves [pa, u], with u for PTE_U
    forks,          \* forks[np]: the fork that makes np, [p, sz, copied], with the size
                    \* it copies, or Freed when exec has freed the pages meanwhile
    panic,          \* the process in whose address space the kernel panicked, or NoProc
    raced           \* history: processes made by a fork that overlapped with sbrk or exec
                    \* of a sibling, or whose exec overlapped with sbrk; their children

vars == <<freelist, others, proc, forks, panic, raced>>

Pages == 1 .. NPAGES
Procs == 0 .. NPROC - 1
initproc == 0
NoProc == -1
Freed == -1
TRAMPOLINE == FAN ^ LEVELS - 1
TRAPFRAME == FAN ^ LEVELS - 2
Root == <<LEVELS, 0>>
PGROUNDUP(a) == ((a + PGSIZE - 1) \div PGSIZE) * PGSIZE
PGROUNDDOWN(a) == (a \div PGSIZE) * PGSIZE
Unused == [used |-> FALSE, sz |-> 0, tf |-> 0, tab |-> <<>>, leaf |-> <<>>]

Live == {p \in Procs : proc[p].used}
\* Processes with a thread in user space; until fork is done the child has none.
Runs(p) == panic = NoProc /\ p \in Live \ DOMAIN forks
Children(p) == {np \in DOMAIN forks : forks[np].p = p}

TypeOK ==
    /\ freelist \subseteq Pages /\ others \subseteq Pages /\ panic \in Procs \cup {NoProc}
    /\ \A p \in Procs : proc[p].sz \in 0 .. UINT - 1 /\ proc[p].used \in BOOLEAN
    /\ DOMAIN forks \subseteq Live /\ raced \subseteq Live
-----------------------------------------------------------------------------
\* Which free page kalloc returns does not matter: the model takes the least.
\* The working state of a call: the free list and an address space; err is "" or
\* "oom" or "panic", n counts the pages a loop has mapped.
Space(x) == [free |-> freelist, tab |-> x.tab, leaf |-> x.leaf, err |-> "", n |-> 0]
Fail(m, e) == [m EXCEPT !.err = e]
Without(f, S) == [x \in DOMAIN f \ S |-> f[x]]

Least(n, S) == {x \in S : Cardinality({y \in S : y < x}) < n}

kalloc(m) == Min(m.free)
Taken(m) == [m EXCEPT !.free = @ \ {kalloc(m)}]
kfree(m, pa) == [m EXCEPT !.free = @ \cup {pa}]

\* walk with alloc: the page tables down to page v, from the root on.
walk_level(m, t) ==
    IF m.err # "" \/ t \in DOMAIN m.tab THEN m
    ELSE IF m.free = {} THEN Fail(m, "oom")
    ELSE [Taken(m) EXCEPT !.tab = @ @@ (t :> kalloc(m))]

walk(m, v) ==
    LET W[l \in 1 .. LEVELS] ==
            IF l = LEVELS THEN m ELSE walk_level(W[l + 1], <<l, v \div FAN ^ l>>)
    IN  W[1]

\* One page of mappages, once walk has returned.
Mapped(m, v, pa, u) ==
    IF m.err # "" THEN m
    ELSE IF v \in DOMAIN m.leaf THEN Fail(m, "panic")                   \* "remap"
    ELSE [m EXCEPT !.leaf = @ @@ (v :> [pa |-> pa, u |-> u])]

\* mappages: n pages from v on, to n pages from pa on.
RECURSIVE mappages(_, _, _, _, _)
mappages(m, v, n, pa, u) ==
    IF m.err # "" \/ n = 0 THEN m
    ELSE mappages(Mapped(walk(m, v), v, pa, u), v + 1, n - 1, pa + 1, u)

uvmunmap(m, v, n, do_free) ==
    LET S == v .. v + n - 1 IN
    IF m.err = "panic" \/ ~ S \subseteq DOMAIN m.leaf THEN Fail(m, "panic")  \* "not mapped"
    ELSE [m EXCEPT !.leaf = Without(@, S),
                   !.free = IF do_free THEN @ \cup {m.leaf[x].pa : x \in S} ELSE @]

freewalk(m) ==
    IF m.err = "panic" \/ DOMAIN m.leaf # {} THEN Fail(m, "panic")       \* "freewalk: leaf"
    ELSE [m EXCEPT !.free = @ \cup {m.tab[t] : t \in DOMAIN m.tab}, !.tab = <<>>]

uvmfree(m, sz) ==
    freewalk(IF sz > 0 THEN uvmunmap(m, 0, PGROUNDUP(sz) \div PGSIZE, TRUE) ELSE m)

\* Fault: a page that cannot be mapped is not given back.
Mapped_or_lost(m, pa) == IF m.err = "oom" THEN m ELSE [m EXCEPT !.n = @ + 1]

\* A page that cannot be mapped is given back.
Mapped_or_freed(m, pa) == IF m.err = "oom" THEN kfree(m, pa) ELSE [m EXCEPT !.n = @ + 1]

\* One page of memory at v: the body of the loops of uvmalloc and uvmcopy.
newpage(m, v) ==
    IF m.err # "" THEN m
    ELSE IF m.free = {} THEN Fail(m, "oom")
    ELSE Mapped_or_freed(mappages(Taken(m), v, 1, kalloc(m), TRUE), kalloc(m))

\* N pages from v on, as many as there is memory for.
newpages(m, v, N) ==
    LET G[k \in 0 .. N] == IF k = 0 THEN [m EXCEPT !.n = 0] ELSE newpage(G[k - 1], v + k - 1)
    IN  G[N]

\* Fault: the pages mapped before kalloc failed are kept.
Undo_none(m, v) == [m EXCEPT !.err = IF m.err = "panic" THEN "panic" ELSE ""]

\* uvmdealloc(pagetable, a, oldsz) in uvmalloc, uvmunmap at err: in uvmcopy.
Undo(m, v) == IF m.err = "panic" THEN m ELSE [uvmunmap(m, v, m.n, TRUE) EXCEPT !.err = ""]

\* uvmalloc: the address space after, and the size returned.
Grown(m, v, newsz) ==
    IF m.err # "" THEN [m |-> Undo(m, v), sz |-> 0] ELSE [m |-> m, sz |-> newsz]

uvmalloc(m, oldsz, newsz) ==
    LET v == PGROUNDUP(oldsz) \div PGSIZE
        last == PGROUNDUP(newsz) \div PGSIZE
    IN  IF newsz < oldsz THEN [m |-> m, sz |-> oldsz]
        ELSE Grown(newpages(m, v, IF last > v THEN last - v ELSE 0), v, newsz)

uvmdealloc(m, oldsz, newsz) ==
    LET v == PGROUNDUP(newsz) \div PGSIZE
        last == PGROUNDUP(oldsz) \div PGSIZE
    IN  IF newsz >= oldsz THEN [m |-> m, sz |-> oldsz]
        ELSE [m |-> IF v < last THEN uvmunmap(m, v, last - v, TRUE) ELSE m, sz |-> newsz]

\* uvmcopy of the N user pages leaf into m, which has none yet.
Copied(leaf, m, N) ==
    IF m.err # "" THEN [Undo(m, 0) EXCEPT !.err = "oom"]
    ELSE [m EXCEPT !.leaf = [v \in DOMAIN @ |-> IF v < N THEN [@[v] EXCEPT !.u = leaf[v].u]
                                               ELSE @[v]]]

uvmcopy(leaf, m, sz) ==
    LET N == PGROUNDUP(sz) \div PGSIZE IN
    IF 0 .. N - 1 \subseteq DOMAIN leaf THEN Copied(leaf, newpages(m, 0, N), N)
    ELSE Fail(m, "panic")                                           \* "page not present"
-----------------------------------------------------------------------------
\* proc_pagetable; tf is the trapframe page, the trampoline is kernel text.
Map_trapframe(m) ==
    IF m.err = "oom" THEN uvmfree(uvmunmap(m, TRAMPOLINE, 1, FALSE), 0) ELSE m

Map_trampoline(m, tf) ==
    IF m.err = "oom" THEN uvmfree(m, 0)
    ELSE Map_trapframe(mappages(m, TRAPFRAME, 1, tf, FALSE))

uvmcreate(m) == [Taken(m) EXCEPT !.tab = Root :> kalloc(m), !.leaf = <<>>]

proc_pagetable(m, tf) ==
    IF m.free = {} THEN Fail(m, "oom")
    ELSE Map_trampoline(mappages(uvmcreate(m), TRAMPOLINE, 1, 0, FALSE), tf)

proc_freepagetable(m, sz) ==
    uvmfree(uvmunmap(uvmunmap(m, TRAMPOLINE, 1, FALSE), TRAPFRAME, 1, FALSE), sz)

\* allocproc: the new address space; on failure the trapframe page is free again.
Allocated(m, tf) == IF m.err = "oom" THEN kfree(m, tf) ELSE m

allocproc(m) ==
    IF m.free = {} THEN Fail(m, "oom")
    ELSE Allocated(proc_pagetable(Taken(m), kalloc(m)), kalloc(m))

freeproc(m, sz, tf) == kfree(proc_freepagetable(m, sz), tf)

\* The process p with the address space m, unless the kernel has panicked.
Commit(p, m, x) ==
    IF m.err = "panic" THEN panic' = p /\ UNCHANGED <<freelist, proc>>
    ELSE /\ freelist' = m.free
         /\ proc' = [proc EXCEPT ![p] = [x EXCEPT !.tab = m.tab, !.leaf = m.leaf]]
         /\ UNCHANGED panic

Empty(free) == [free |-> free, tab |-> <<>>, leaf |-> <<>>, err |-> "", n |-> 0]

KSTACK(p) == TRAMPOLINE - (p + 1) * 2

kvmmap(m, v, pa, n) == mappages(m, v, n, pa, FALSE)

\* proc_mapstacks: a stack for the first thread of every process.
proc_mapstacks(m) ==
    LET K[p \in 0 .. NPROC] ==
            IF p = 0 THEN m
            ELSE kvmmap(Taken(K[p - 1]), KSTACK(p - 1), kalloc(K[p - 1]), 1)
    IN  K[NPROC]

\* kvmmake: devices, kernel text (one page) and the pages that kalloc hands out at their
\* own addresses, the trampoline and the stacks.
kvmmake ==
    LET devs == kvmmap(uvmcreate(Empty(Pages)), 0, -KERNBASE, NDEV)
        ram == kvmmap(devs, KERNBASE, 0, NPAGES + 1)
    IN  proc_mapstacks(kvmmap(ram, TRAMPOLINE, 0, 1))

\* uvminit: the page of initcode.
uvminit(m) == newpage(m, 0)

\* userinit: the first process, with one page.
userinit(m) ==
    /\ freelist = m.free
    /\ proc = [[p \in Procs |-> Unused] EXCEPT
                  ![initproc] = [used |-> TRUE, sz |-> PGSIZE, tf |-> kalloc(kvmmake),
                                 tab |-> m.tab, leaf |-> m.leaf]]

Init ==
    /\ userinit(uvminit(allocproc(Empty(kvmmake.free))))
    /\ others = {} /\ forks = <<>> /\ panic = NoProc /\ raced = {}

\* fork, in three steps: allocproc and the arguments of uvmcopy, p->sz among them;
\* uvmcopy; np->sz = p->sz, which reads p->sz again.
fork(p) ==
    LET np == Min(Procs \ Live)
        m == allocproc(Empty(freelist))
    IN
    /\ Runs(p) /\ Live # Procs
    /\ m.err = "" => /\ forks' = forks @@ (np :> [p |-> p, sz |-> proc[p].sz, copied |-> FALSE])
                     /\ raced' = raced \cup {x \in {np} : p \in raced}
    /\ m.err # "" => UNCHANGED <<forks, raced>>
    /\ Commit(np, m, IF m.err = "oom" THEN Unused
                     ELSE [Unused EXCEPT !.used = TRUE, !.tf = kalloc(Empty(freelist))])
    /\ UNCHANGED others

fork_uvmcopy(np) ==
    LET f == forks[np]
        m == IF f.sz = Freed THEN Fail(Space(proc[np]), "panic")
             ELSE uvmcopy(proc[f.p].leaf, Space(proc[np]), f.sz)
    IN
    /\ panic = NoProc /\ ~f.copied
    /\ IF m.err = "oom"
       THEN /\ Commit(np, freeproc(m, 0, proc[np].tf), Unused)
            /\ forks' = Without(forks, {np}) /\ raced' = raced \ {np}
       ELSE /\ Commit(np, m, proc[np])
            /\ forks' = [forks EXCEPT ![np].copied = TRUE, ![np].sz = 0] /\ UNCHANGED raced
    /\ UNCHANGED others

fork_size(np) ==
    /\ panic = NoProc /\ forks[np].copied
    /\ proc' = [proc EXCEPT ![np].sz = proc[forks[np].p].sz]
    /\ forks' = Without(forks, {np})
    /\ UNCHANGED <<freelist, others, panic, raced>>

\* growproc in the address space m of p, whose sz is an unsigned of UINT values.
Resized(p, r, n) == [m |-> r.m, sz |-> IF n > 0 /\ r.sz = 0 THEN proc[p].sz ELSE r.sz]

growproc(p, m, n) ==
    LET sz == proc[p].sz
        new == (sz + n) % UINT
    IN  Resized(p, IF n > 0 THEN uvmalloc(m, sz, new) ELSE uvmdealloc(m, sz, new), n)

sys_sbrk(p, n) ==
    LET g == growproc(p, Space(proc[p]), n) IN
    /\ Runs(p)
    /\ Commit(p, g.m, [proc[p] EXCEPT !.sz = g.sz])
    /\ raced' = raced \cup Children(p)
    /\ UNCHANGED <<others, forks>>

\* One program segment of exec: x is the image so far, [m, sz, bad], and r what
\* uvmalloc returned for the segment.
loadseg(x, r, seg, unread) ==
    LET pages == seg.va \div PGSIZE .. PGROUNDUP(seg.va + seg.filesz) \div PGSIZE - 1 IN
    IF r.sz = 0 THEN [x EXCEPT !.m = r.m, !.bad = TRUE]
    ELSE IF seg.va % PGSIZE # 0 THEN [m |-> r.m, sz |-> r.sz, bad |-> TRUE]
    ELSE IF pages \subseteq DOMAIN r.m.leaf THEN [m |-> r.m, sz |-> r.sz, bad |-> unread]
    ELSE [x EXCEPT !.m = Fail(r.m, "panic")]                 \* "address should exist"

Segment(x, seg, unread) ==
    IF x.bad THEN x
    ELSE IF seg.memsz < seg.filesz THEN [x EXCEPT !.bad = TRUE]
    ELSE loadseg(x, uvmalloc(x.m, x.sz, seg.va + seg.memsz), seg, unread)

\* bad: in exec; the new image is freed if there is one.
Dropped(x) ==
    IF Root \in DOMAIN x.m.tab THEN proc_freepagetable(x.m, x.sz) ELSE x.m

uvmclear(m, v) == [m EXCEPT !.leaf[v].u = FALSE]

\* The two pages above the program, of which the first is the guard.
Stacked(r, sz, full) ==
    IF r.sz = 0 THEN [m |-> r.m, sz |-> sz, bad |-> TRUE]
    ELSE IF r.m.err = "panic" THEN [m |-> r.m, sz |-> sz, bad |-> FALSE]
    ELSE [m |-> uvmclear(r.m, sz \div PGSIZE), sz |-> r.sz, bad |-> full]

Stack(x, sz, full) ==
    IF x.bad \/ x.m.err = "panic" THEN x
    ELSE Stacked(uvmalloc(x.m, sz, sz + 2 * PGSIZE), sz, full)

\* The image of a program: its segments, a guard page and a stack page.  Reading it
\* fails at segment cut, or, if cut = Len(segs) + 1, the arguments do not fit.
Image(new, segs, cut) ==
    LET E[k \in 0 .. Len(segs)] ==
            IF k = 0 THEN [m |-> new, sz |-> 0, bad |-> new.err # "" \/ cut = 0]
            ELSE Segment(E[k - 1], segs[k], k = cut)
    IN  Stack(E[Len(segs)], PGROUNDUP(E[Len(segs)].sz), cut = Len(segs) + 1)

\* The end of exec and of sys_exec, for the image x: m is the address space that the
\* process does not keep, freed.
Executed(p, x, m, argv) ==
    LET kept == IF x.bad THEN Space(proc[p]) ELSE x.m IN
    Commit(p, IF "panic" \in {x.m.err, m.err} THEN Fail(kept, "panic")
              ELSE [kept EXCEPT !.free = m.free \cup argv],
           [proc[p] EXCEPT !.sz = IF x.bad THEN @ ELSE x.sz])

\* exec reads p->sz into oldsz, and frees that much of the old image after the switch
\* to x; a sibling's sbrk of n comes between, or none if n = 0.
exec(p, x, n, argv) ==
    LET g == growproc(p, [Space(proc[p]) EXCEPT !.free = x.m.free], n)
        m == IF x.bad THEN Dropped(x) ELSE proc_freepagetable(g.m, proc[p].sz)
    IN
    /\ n # 0 => ~x.bad
    /\ Executed(p, x, m, argv)
    /\ IF x.bad THEN UNCHANGED <<forks, raced>>
       ELSE /\ forks' = [c \in DOMAIN forks |-> IF c \in Children(p) /\ ~forks[c].copied
                                                THEN [forks[c] EXCEPT !.sz = Freed] ELSE forks[c]]
            /\ raced' = Children(p) \cup IF m.err # "panic" THEN raced \ {p}
                                         ELSE IF n = 0 THEN raced ELSE raced \cup {p}

\* sys_exec: args pages hold the arguments during the call.  With fewer free pages
\* the ones taken are given back and nothing happens.
sys_exec(p, segs, args, cut, n) ==
    LET argv == Least(args, freelist) IN
    /\ Runs(p) /\ args <= Cardinality(freelist)
    /\ n # 0 => cut > Len(segs) + 1             \* reached only if nothing fails
    /\ exec(p, Image(proc_pagetable(Empty(freelist \ argv), proc[p].tf), segs, cut), n, argv)
    /\ UNCHANGED others

\* The parent's wait frees the process.
wait(p) ==
    /\ Runs(p) /\ p # initproc /\ Children(p) = {}
    /\ Commit(p, freeproc(Space(proc[p]), proc[p].sz, proc[p].tf), Unused)
    /\ raced' = IF panic' = NoProc THEN raced \ {p} ELSE raced
    /\ UNCHANGED <<others, forks>>

\* Other parts of the kernel (pipes, stacks, calls in progress) take all but k of the
\* free pages, and give back theirs.
kalloc_others ==
    \E k \in 0 .. Cardinality(freelist) - 1 :
        /\ panic = NoProc /\ others = {}
        /\ freelist' = Least(k, freelist) /\ others' = freelist \ freelist'
        /\ UNCHANGED <<proc, forks, panic, raced>>

kfree_others ==
    /\ panic = NoProc /\ others # {}
    /\ freelist' = freelist \cup others /\ others' = {}
    /\ UNCHANGED <<proc, forks, panic, raced>>

Next ==
    \/ \E p \in Procs :
           \/ fork(p)
           \/ wait(p)
           \/ \E n \in Increments : sys_sbrk(p, n)
           \/ \E segs \in Programs, args \in 0 .. MaxArgs, n \in Increments \cup {0} :
                  \E cut \in 0 .. Len(segs) + 2 : sys_exec(p, segs, args, cut, n)
    \/ \E np \in DOMAIN forks : fork_uvmcopy(np) \/ fork_size(np)
    \/ kalloc_others
    \/ kfree_others
    \/ panic # NoProc /\ UNCHANGED vars

Spec == Init /\ [][Next]_vars
-----------------------------------------------------------------------------
\* walkaddr: the page that serves the user address a, 0 if none does.
walkaddr(leaf, a) ==
    LET v == a \div PGSIZE IN
    IF v \in DOMAIN leaf /\ leaf[v].u THEN leaf[v].pa ELSE 0

\* Fault: the last page is copied whole.
Amount_page(s) == PGSIZE - (s.va % PGSIZE)

\* How much one turn of a copying loop moves.
Amount(s) == IF PGSIZE - (s.va % PGSIZE) > s.len THEN s.len ELSE PGSIZE - (s.va % PGSIZE)

\* One turn of the loop of copyout and copyin; out is the places copied, in order.
Turn(leaf, s) ==
    LET pa == walkaddr(leaf, PGROUNDDOWN(s.va))
        n == Amount(s)
    IN  IF s.len <= 0 \/ ~s.ok THEN s
        ELSE IF pa = 0 THEN [s EXCEPT !.ok = FALSE]
        ELSE [ok |-> TRUE, len |-> s.len - n, va |-> PGROUNDDOWN(s.va) + PGSIZE,
              out |-> s.out \o [i \in 1 .. n |-> <<pa, (s.va % PGSIZE) + i - 1>>]]

copyout(leaf, va, len) ==
    LET C[k \in 0 .. len] ==
            IF k = 0 THEN [ok |-> TRUE, len |-> len, va |-> va, out |-> <<>>]
            ELSE Turn(leaf, C[k - 1])
    IN  C[len]

\* copyinstr: TRUE if a string is copied; the first NUL at or after va is at nul.
copyinstr(leaf, va, max, nul) ==
    LET S[k \in 0 .. max] ==
            IF k = 0 THEN [len |-> max, va |-> va, end |-> "no"]
            ELSE LET s == S[k - 1]
                     n == Amount(s)
                 IN  IF s.end # "no" \/ s.len <= 0 THEN s
                     ELSE IF walkaddr(leaf, PGROUNDDOWN(s.va)) = 0
                          THEN [s EXCEPT !.end = "bad"]
                     ELSE IF nul \in s.va .. s.va + n - 1 THEN [s EXCEPT !.end = "nul"]
                     ELSE [s EXCEPT !.len = @ - n, !.va = PGROUNDDOWN(@) + PGSIZE]
    IN  S[max].end = "nul"

\* The test of fetchaddr, for a word of n bytes.
InSize(p, a, n) == ~ (a >= proc[p].sz \/ a + n > proc[p].sz)

fetchaddr(p, a, n) == InSize(p, a, n) /\ copyout(proc[p].leaf, a, n).ok

fetchstr(p, a, max, nul) == copyinstr(proc[p].leaf, a, max, nul)
-----------------------------------------------------------------------------
UserPages(p) == {v \in DOMAIN proc[p].leaf : v < TRAPFRAME}
Held(p) == {proc[p].tf} \cup {proc[p].tab[t] : t \in DOMAIN proc[p].tab}
                       \cup {proc[p].leaf[v].pa : v \in UserPages(p)}
\* Every page of RAM is at its own address in the kernel, and each stack is "surrounded
\* by invalid guard pages" (memlayout.h).
KernelMapped ==
    /\ kvmmake.err = ""
    /\ \A pa \in Pages : kvmmake.leaf[KERNBASE + pa].pa = pa
    /\ \A p \in Procs : {KSTACK(p) - 1, KSTACK(p) + 1} \cap DOMAIN kvmmake.leaf = {}

Kernel == {kvmmake.tab[t] : t \in DOMAIN kvmmake.tab}
             \cup {kvmmake.leaf[KSTACK(p)].pa : p \in Procs}
Count(p) == 1 + Cardinality(DOMAIN proc[p].tab) + Cardinality(UserPages(p))

\* Every page that kalloc hands out has one owner: it is free, or used elsewhere, or
\* it is a page table or a stack of the kernel, or one page table, one user page or
\* the trapframe of one process.  So no failing fork, exec or sbrk leaks a page and
\* none is freed while in use.
PagesOwned ==
    /\ UNION {Held(p) : p \in Live} \cup Kernel \cup freelist \cup others = Pages
    /\ Cardinality(freelist) + Cardinality(others) + MapThenSumSet(Count, Live)
         + Cardinality(DOMAIN kvmmake.tab) + NPROC = NPAGES

Matches(p) == UserPages(p) = 0 .. PGROUNDUP(proc[p].sz) \div PGSIZE - 1

\* A process has exactly the pages below its size mapped, its trapframe and the
\* trampoline, whatever calls ran out of memory; so the panics "remap", "uvmunmap:
\* not mapped", "uvmcopy: page not present", "freewalk: leaf" and "loadseg: address
\* should exist" are never reached.  The kernel reaches every page it hands out, and
\* no stack of a process runs into the next.  The exception is what fork and exec
\* do while a sibling thread changes p->sz or the page table: fork reads p->sz twice
\* and exec long before it uses it, neither under p->lock.
MappedMatchesSize ==
    /\ KernelMapped
    /\ panic \in raced \cup {NoProc}
    /\ \A p \in Live \ (raced \cup DOMAIN forks) : Matches(p)
    /\ \A p \in Live : /\ {TRAPFRAME, TRAMPOLINE} \subseteq DOMAIN proc[p].leaf
                        /\ proc[p].leaf[TRAPFRAME].pa = proc[p].tf

\* The same without the exception: threads may call fork, exec and sbrk at any time.
ThreadsShareSpace ==
    /\ panic = NoProc
    /\ \A p \in Live \ DOMAIN forks : Matches(p)

Reachable(leaf, S) == \A a \in S : walkaddr(leaf, a) # 0

\* copyout, copyin and copyinstr treat an address space as the bytes of its user
\* pages: a copy succeeds if every byte asked for is there, and moves exactly those;
\* a string is copied if its NUL is within max and the bytes up to it are there;
\* fetchaddr takes a word only if all of it is below p->sz.
CopyMatches ==
    \A p \in Live : \A va \in 0 .. 3 * PGSIZE, len \in 0 .. PGSIZE + 2 :
        LET leaf == proc[p].leaf
            c == copyout(leaf, va, len)
        IN  /\ c.ok = Reachable(leaf, va .. va + len - 1)
            /\ c.ok => c.out = [i \in 1 .. len |-> <<walkaddr(leaf, va + i - 1),
                                                   (va + i - 1) % PGSIZE>>]
            /\ len > 0 => fetchaddr(p, va, len) = (c.ok /\ va + len - 1 < proc[p].sz)
            /\ \A nul \in va .. va + len :
                  fetchstr(p, va, len, nul) =
                      (nul < va + len /\ Reachable(leaf, va .. nul))
=============================================================================
