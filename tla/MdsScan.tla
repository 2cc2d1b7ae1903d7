------------------------------ MODULE MdsScan ------------------------------
(***************************************************************************)
(* The metadata server's scanner (mds_src.c): it walks the inode table     *)
(* once, creates a node for every inode that has in-inode xattrs, copies   *)
(* the lma, link and lov xattrs into its properties and, at every good     *)
(* link xattr, asks the graph to relate all parents and children it knows. *)
(***************************************************************************)
EXTENDS Scanner

VARIABLE mds     \* the scanner's state

MdsSlot == disk[Mds][mds.i]

MdsTypeOK ==
    /\ disk \in Disks
    /\ DbTypeOK
    /\ mds \in ScannerState(Mds)

MdsInit ==
    /\ disk \in Disks
    /\ DbInit
    /\ mds = Idle

-----------------------------------------------------------------------------
\* main up to the loop: a device that does not open or is not ext4, or a
\* database that refuses the connection, ends the run at once.
MdsStart ==
    /\ mds.pc \in Stopped /\ mds.run < MaxRuns
    /\ \E up \in BOOLEAN : mds' = Started(mds.run + 1, up)
    /\ UNCHANGED <<disk, dbVars>>

MdsNode == [srv |-> Mds, run |-> mds.run, inode_number |-> mds.i]

\* A statement runs, or it fails and the scanner goes on the same.
MdsStatement(Effect, next) ==
    \/ Effect /\ mds' = next
    \/ Lose /\ mds' = [next EXCEPT !.clean = FALSE]

MdsSet(key, value, next) ==
    MdsStatement(SetWhere("MDS", mds.i, key, value), next)

\* Top of the loop: read the slot, and create its node if it has xattrs.
MdsInode ==
    /\ mds.pc = "inode" /\ mds.i <= TotalInodes[Mds]
    /\ IF MdsSlot.h_magic
       THEN MdsStatement(Create(MdsNode), [mds EXCEPT !.pc = "type"])
       ELSE mds' = [mds EXCEPT !.i = @ + 1] /\ UNCHANGED dbVars
    /\ UNCHANGED disk

\* The file type; a directory's first block is then walked for printing.
MdsType ==
    LET next == [mds EXCEPT !.k = 1,
                   !.pc = IF MdsSlot.i_mode = "dir" /\ MdsSlot.dir_spins
                          THEN "spin" ELSE "xattr"]
    IN  /\ mds.pc = "type"
        /\ \/ MdsSlot.i_mode = "dir" /\ MdsSet("inode_type", "directory", next)
           \/ MdsSlot.i_mode = "reg" /\ MdsSet("inode_type", "file", next)
           \/ MdsSlot.i_mode = "other" /\ mds' = next /\ UNCHANGED dbVars
        /\ UNCHANGED disk

\* In the xattr loop, at an entry whose name is one of names.
MdsEntry == MdsSlot.xattrs[mds.k]
MdsAt(names) ==
    /\ mds.pc = "xattr" /\ mds.k <= Len(MdsSlot.xattrs)
    /\ MdsEntry.name \in names
MdsNextEntry == [mds EXCEPT !.k = @ + 1, !.pc = "xattr"]

MdsLma ==
    /\ MdsAt({"lma"})
    /\ MdsSet("lma", MdsEntry.lma_self_fid, MdsNextEntry)
    /\ UNCHANGED disk

\* Only the first of the parents a link value holds is used; a bad magic ends
\* the whole scan, with status 0.
MdsLink ==
    /\ MdsAt({"link"})
    /\ IF MdsEntry.good_magic
       THEN MdsSet("pfid", fid_be_to_cpu(MdsEntry.lee_parent_fid[1]),
                   [mds EXCEPT !.pc = "merge"])
       ELSE mds' = [mds EXCEPT !.pc = "exited"] /\ UNCHANGED dbVars
    /\ UNCHANGED disk

\* Faulty variant: the merge is limited to the inode at hand.
MdsMergeLocal ==
    /\ mds.pc = "merge"
    /\ MdsStatement(Merge("mds_parent_of", Labelled("MDS"), "lma",
                          Numbered("MDS", mds.i), "pfid"),
                    MdsNextEntry)
    /\ UNCHANGED disk

\* The merge looks at every node there is, not at this inode's alone.
MdsMerge ==
    /\ mds.pc = "merge"
    /\ MdsStatement(Merge("mds_parent_of", Labelled("MDS"), "lma",
                          Labelled("MDS"), "pfid"),
                    MdsNextEntry)
    /\ UNCHANGED disk

MdsLov ==
    /\ MdsAt({"lov"})
    /\ \E oid \in FirstObject(MdsEntry) : MdsSet("ost_oid", oid, MdsNextEntry)
    /\ UNCHANGED disk

\* An xattr whose name is none of the three is stepped over.
MdsOther ==
    /\ MdsAt({"fid", "other"})
    /\ mds' = MdsNextEntry
    /\ UNCHANGED <<disk, dbVars>>

MdsNextInode ==
    /\ mds.pc = "xattr" /\ mds.k > Len(MdsSlot.xattrs)
    /\ mds' = [mds EXCEPT !.pc = "inode", !.i = @ + 1]
    /\ UNCHANGED <<disk, dbVars>>

MdsDone ==
    /\ mds.pc = "inode" /\ mds.i > TotalInodes[Mds]
    /\ mds' = [mds EXCEPT !.pc = "done"]
    /\ UNCHANGED <<disk, dbVars>>

\* The process is killed or its host crashes: what it wrote stays.
MdsKilled ==
    /\ mds.pc \notin Stopped
    /\ mds' = [mds EXCEPT !.pc = "killed"]
    /\ UNCHANGED <<disk, dbVars>>

\* What the program itself does next.
MdsStep ==
    \/ MdsInode \/ MdsType \/ MdsNextInode \/ MdsDone
    \/ MdsLma \/ MdsLink \/ MdsMerge \/ MdsLov \/ MdsOther

=============================================================================
