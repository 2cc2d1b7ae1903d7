----------------------------- MODULE SparseFile -----------------------------
(***************************************************************************)
(* What the data of a file promise: a block changes only when it is        *)
(* written or when a hole is punched over it, whatever is cached,          *)
(* allocated ahead, or on its way to the disk.  Nothing more is promised   *)
(* of a block once it is torn, which only a punch over it can do.          *)
(***************************************************************************)
CONSTANTS Blocks

VARIABLES
    file,   \* what a read of a block returns: "zero", "old", "new"; "any" if it is torn
    hole    \* the blocks that a hole is being punched over

FileInit == file \in [Blocks -> {"zero", "old"}] /\ hole = {}

Written(l) ==
    /\ l \notin hole /\ file[l] # "any" /\ file' = [file EXCEPT ![l] = "new"] /\ UNCHANGED hole

\* A hole is punched from one moment on; its end changes nothing.
Punch == \E S \in SUBSET Blocks :
    /\ hole = {} /\ hole' = S
    /\ file' = [l \in Blocks |-> IF l \in S /\ file[l] # "any" THEN "zero" ELSE file[l]]
Punched == hole' = {} /\ UNCHANGED file

Torn == \E S \in SUBSET hole :
    /\ file' = [l \in Blocks |-> IF l \in S THEN "any" ELSE file[l]] /\ UNCHANGED hole

FileSpec == FileInit /\ [][(\E l \in Blocks : Written(l)) \/ Punch \/ Punched \/ Torn]_<<file, hole>>
=============================================================================
