------------------------------- MODULE MCMmp -------------------------------
(* Instances of Mmp: two hosts, and the symmetry of hosts and random numbers. *)
EXTENDS Mmp, TLC
CONSTANTS h1, h2, r1, r2, r3
Perms == Permutations(Hosts) \cup Permutations(Random)
=============================================================================
