------------------------------- MODULE Durable -------------------------------
(***************************************************************************)
(* What the journal promises those who use the files: operations change    *)
(* one file at a time, a commit keeps what they have made up to some       *)
(* moment, and after a crash every file is as the last commit has it.      *)
(***************************************************************************)
CONSTANTS Files, Lengths, Absent

VARIABLES now, going, kept,   \* the files: now, in the commit under way, on disk
          mounted

DurableVars == <<now, going, kept, mounted>>
Tree == [Files -> Lengths \cup {Absent}]

DurableInit ==
    /\ now \in Tree /\ going = now /\ kept = now
    /\ mounted = TRUE

Change == \E f \in Files, x \in Lengths \cup {Absent} :
    /\ mounted /\ now' = [now EXCEPT ![f] = x]
    /\ UNCHANGED <<going, kept, mounted>>
Freeze == going' = now /\ UNCHANGED <<now, kept, mounted>>
Commit == kept' = going /\ UNCHANGED <<now, going, mounted>>
Crash == now' = kept /\ going' = kept /\ mounted' = FALSE /\ UNCHANGED kept
Mount == mounted' = TRUE /\ UNCHANGED <<now, going, kept>>

DurableSpec == DurableInit /\ [][Change \/ Freeze \/ Commit \/ Crash \/ Mount]_DurableVars
=============================================================================
