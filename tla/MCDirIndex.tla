----------------------------- MODULE MCDirIndex -----------------------------
(* Six names in leaves of two, and directories to begin with: one leaf, and two   *)
(* full leaves.  A split of the second fills the index, and one of its first leaf *)
(* leaves a chain of leaves that one hash fills. *)
EXTENDS DirIndex, TLC
CONSTANTS t1, t2, n1, n2, n3, n4, n5, n6
MCHash == (n1 :> 2) @@ (n2 :> 2) @@ (n3 :> 4) @@ (n4 :> 6) @@ (n5 :> 2) @@ (n6 :> 6)
MCStarts == {[hashes |-> <<0>>, leaves |-> <<{n1, n3}>>],
             [hashes |-> <<0, 4>>, leaves |-> <<{n1, n2}, {n3, n4}>>]}
\* One operation meets two of another thread, one after the other.
MCCalls == (t1 :> 1) @@ (t2 :> 2)
=============================================================================
