----------------------------- MODULE OrphanList -----------------------------
(***************************************************************************)
(* The list of orphans: inodes that wait to be deleted or cut to their     *)
(* size (namei.c:3275-3440).  On disk s_last_orphan heads it and the       *)
(* i_dtime of each inode, NEXT_ORPHAN, leads to the next one; in memory it *)
(* is s_orphan, the same list, newest first.  The operators take a state   *)
(* of the file system, a record with head and next, and the list.          *)
(***************************************************************************)
EXTENDS Integers, Sequences, FiniteSets, SequencesExt

CONSTANTS Inodes,  \* the inode numbers
          None     \* 0: no inode, no block

ASSUME InodesAssumption == IsFiniteSet(Inodes) /\ None \notin Inodes

\* Who is met from s_last_orphan on: those in every set that has the first one and,
\* with an inode, the next one.
Orphans(v) == {i \in Inodes : \A C \in SUBSET Inodes :
    {v.head} \ {None} \subseteq C /\ (\A j \in C : {v.next[j]} \ {None} \subseteq C) => i \in C}
Ends(v) == v.head = None \/ \E i \in Orphans(v) : v.next[i] = None

\* The list on disk is the list in memory.
Spells(v, list) ==
    \A n \in 0 .. Len(list) :
        (IF n = 0 THEN v.head ELSE v.next[list[n]]) = IF n = Len(list) THEN None ELSE list[n + 1]

\* ext4_orphan_add: nothing if i is in the list in memory, and nothing on disk if
\* it is there already because of an error.
Listed(list, i) == IF i \in Range(list) THEN list ELSE <<i>> \o list
AddOrphan(v, list, i) ==
    IF i \in Range(list) \/ v.next[i] # None THEN v
    ELSE [v EXCEPT !.next[i] = v.head, !.head = i]

\* ext4_orphan_del: the one before i, as the list in memory has it, leads to the
\* one after i.
Place(list, i) == CHOOSE n \in DOMAIN list : list[n] = i
Unlisted(list, i) == IF i \in Range(list) THEN RemoveAt(list, Place(list, i)) ELSE list
DelOrphanHead(v, list, i) ==  \* Faulty variant: i is taken for the first of the list
    IF i \notin Range(list) THEN v ELSE [v EXCEPT !.head = v.next[i], !.next[i] = None]
DelOrphan(v, list, i) ==
    IF i \notin Range(list) THEN v
    ELSE IF Place(list, i) = 1 THEN [v EXCEPT !.head = v.next[i], !.next[i] = None]
    ELSE [v EXCEPT !.next[list[Place(list, i) - 1]] = v.next[i], !.next[i] = None]
=============================================================================
