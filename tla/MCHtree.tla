------------------------------ MODULE MCHtree ------------------------------
(* Three threads on the tree lock, as writers use it, and on one key. *)
EXTENDS HtreeLock, TLC
CONSTANTS t1, t2, t3, k1
=============================================================================
