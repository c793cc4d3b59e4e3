-------------------------------- MODULE MCVm --------------------------------
(* A small instance of Vm for TLC: four programs, of which one has a segment  *)
(* that does not start on a page and one more in the file than in memory.     *)
EXTENDS Vm

Seg(va, memsz, filesz) == [va |-> va, memsz |-> memsz, filesz |-> filesz]

MCPrograms == {<<Seg(0, 1, 1)>>,
               <<Seg(0, 3, 2), Seg(6, 2, 1)>>,
               <<Seg(2, 4, 3), Seg(0, 2, 2), Seg(3, 4, 1)>>,
               <<Seg(0, 2, 1), Seg(2, 1, 2)>>}

\* Pages are interchangeable: what matters of a state is how many are free or in use
\* elsewhere and what each process has mapped.  A page with two owners, or none,
\* makes the counts of the view differ from those of every sound state.
Shape == <<Cardinality(freelist), Cardinality(others), forks, panic, raced,
           Cardinality(freelist \cup others \cup UNION {Held(p) : p \in Live}),
           [p \in Procs |-> <<proc[p].used, proc[p].sz, DOMAIN proc[p].tab,
                              [v \in DOMAIN proc[p].leaf |-> proc[p].leaf[v].u]>>]>>

MCIncrements == {-8, -3, 3}
=============================================================================
