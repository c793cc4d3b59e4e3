-------------------------------- MODULE MCFs --------------------------------
(***************************************************************************)
(* Small file systems and a set of calls that meet in them.                *)
(***************************************************************************)
EXTENDS Fs, TLC

CONSTANTS a, b

Tree(n, t, e) == [dino |-> [i \in Inums |-> IF i <= Len(t) THEN [type |-> t[i], nlink |-> n[i]]
                                            ELSE FreeInode],
                  ents |-> [i \in Inums |-> [x \in Dnames |-> IF <<i, x>> \in DOMAIN e THEN e[<<i, x>>]
                                                              ELSE 0]]]

\* The root with a directory a that has a directory or a file b in it.
MCTrees ==
    {Tree(<<2, 2, 1>>, <<"dir", "dir", "dir">>,
          (<<1, "..">> :> 1) @@ (<<1, a>> :> 2) @@ (<<2, "..">> :> 1) @@ (<<2, b>> :> 3) @@ (<<3, "..">> :> 2)),
     Tree(<<2, 1, 1>>, <<"dir", "dir", "file">>,
          (<<1, "..">> :> 1) @@ (<<1, a>> :> 2) @@ (<<2, "..">> :> 1) @@ (<<2, b>> :> 3))}

Call(op, path) == [op |-> op, path |-> path, new |-> <<>>]

MCCalls ==
    {Call("open", <<"/", a, b>>), Call("open", <<"..">>), Call("chdir", <<"/", a, b>>),
     Call("create", <<"/", b>>), Call("create", <<"/", a, b>>), Call("mkdir", <<"/", a, b>>),
     Call("unlink", <<"/", a>>), Call("unlink", <<"/", a, b>>), Call("unlink", <<"/", a, "..">>), Call("mknod", <<"/", b>>),
     [op |-> "link", path |-> <<"/", a, b>>, new |-> <<"/", b>>],
     [op |-> "link", path |-> <<"/", b>>, new |-> <<"/", a, b>>]}

Symmetric == Permutations(Procs)
=============================================================================
