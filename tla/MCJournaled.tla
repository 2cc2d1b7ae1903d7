---------------------------- MODULE MCJournaled ----------------------------
(* Instances of Journaled. *)
EXTENDS Journaled
CONSTANTS i1, i2, b1, b2, b3
MCOld == i1 :> <<b1>> @@ i2 :> <<>>
=============================================================================
