---------------------------- MODULE MCDelalloc -----------------------------
(* Instances of Delalloc. *)
EXTENDS Delalloc
CONSTANTS t1, t2, flusher
=============================================================================
