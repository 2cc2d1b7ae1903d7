------------------------------ MODULE OstScan ------------------------------
(***************************************************************************)
(* The object storage server's scanner (ost_src.c), one per server: the    *)
(* inode walk of the metadata scanner, with the xattrs an object has (lma, *)
(* fid), and at its end a statement for every inode number the metadata    *)
(* server might have used, relating files to their first object.           *)
(***************************************************************************)
EXTENDS Scanner

CONSTANT mds_total_inodes   \* the literal 700 of the code

VARIABLE oss     \* the scanners' states, one per server

ASSUME LovLoopAssumption == mds_total_inodes \in Nat

OssTypeOK ==
    /\ DOMAIN oss = Osts
    /\ \A o \in Osts : oss[o] \in ScannerState(o)

OssInit == oss = [o \in Osts |-> Idle]

OssSlot(o)  == disk[o][oss[o].i]
OssEntry(o) == OssSlot(o).xattrs[oss[o].k]
OssNode(o)  == [srv |-> o, run |-> oss[o].run, inode_number |-> oss[o].i]

-----------------------------------------------------------------------------
\* main up to the loop: a device that does not open or is not ext4, or a
\* database that refuses the connection, ends the run at once.
OssStart(o) ==
    /\ oss[o].pc \in Stopped /\ oss[o].run < MaxRuns
    /\ \E up \in BOOLEAN :
         oss' = [oss EXCEPT ![o] = Started(oss[o].run + 1, up)]
    /\ UNCHANGED <<disk, dbVars>>

\* A statement runs, or it fails and the scanner goes on the same.
OssStatement(o, Effect, next) ==
    \/ Effect /\ oss' = [oss EXCEPT ![o] = next]
    \/ Lose /\ oss' = [oss EXCEPT ![o] = [next EXCEPT !.clean = FALSE]]

\* The statement names the label and the inode number, and no server.
OssSet(o, key, value, next) ==
    OssStatement(o, SetWhere("OSS", oss[o].i, key, value), next)

OssInode(o) ==
    /\ oss[o].pc = "inode" /\ oss[o].i <= TotalInodes[o]
    /\ IF OssSlot(o).h_magic
       THEN OssStatement(o, Create(OssNode(o)), [oss[o] EXCEPT !.pc = "type"])
       ELSE oss' = [oss EXCEPT ![o].i = @ + 1] /\ UNCHANGED dbVars
    /\ UNCHANGED disk

OssType(o) ==
    LET next == [oss[o] EXCEPT !.k = 1,
                   !.pc = IF OssSlot(o).i_mode = "dir" /\ OssSlot(o).dir_spins
                          THEN "spin" ELSE "xattr"]
    IN  /\ oss[o].pc = "type"
        /\ \/ OssSlot(o).i_mode = "dir" /\ OssSet(o, "inode_type", "directory", next)
           \/ OssSlot(o).i_mode = "reg" /\ OssSet(o, "inode_type", "file", next)
           \/ OssSlot(o).i_mode = "other" /\ oss' = [oss EXCEPT ![o] = next]
                                          /\ UNCHANGED dbVars
        /\ UNCHANGED disk

OssAt(o, names) ==
    /\ oss[o].pc = "xattr" /\ oss[o].k <= Len(OssSlot(o).xattrs)
    /\ OssEntry(o).name \in names
OssNextEntry(o) == [oss[o] EXCEPT !.k = @ + 1, !.pc = "xattr"]

\* Faulty variant: the second statement is missing.
OssLmaOnly(o) ==
    /\ OssAt(o, {"lma"})
    /\ OssSet(o, "lma", OssEntry(o).lma_self_fid, OssNextEntry(o))
    /\ UNCHANGED disk

\* An lma xattr is two statements: the whole FID, then its object id alone.
OssLma(o) ==
    /\ OssAt(o, {"lma"})
    /\ OssSet(o, "lma", OssEntry(o).lma_self_fid, [oss[o] EXCEPT !.pc = "f_oid"])
    /\ UNCHANGED disk

OssFoid(o) ==
    /\ oss[o].pc = "f_oid"
    /\ OssSet(o, "f_oid", OssEntry(o).lma_self_fid.f_oid, OssNextEntry(o))
    /\ UNCHANGED disk

OssFid(o) ==
    /\ OssAt(o, {"fid"})
    /\ OssSet(o, "fid", OssEntry(o).ff_parent, [oss[o] EXCEPT !.pc = "merge"])
    /\ UNCHANGED disk

\* Faulty variant: the object's own FID is taken for its parent's.
OssMergeLma(o) ==
    /\ oss[o].pc = "merge"
    /\ OssStatement(o, Merge("OST_child_of", Labelled("OSS"), "lma",
                             Labelled("MDS"), "lma"),
                    OssNextEntry(o))
    /\ UNCHANGED disk

OssMerge(o) ==
    /\ oss[o].pc = "merge"
    /\ OssStatement(o, Merge("OST_child_of", Labelled("OSS"), "fid",
                             Labelled("MDS"), "lma"),
                    OssNextEntry(o))
    /\ UNCHANGED disk

OssOther(o) ==
    /\ OssAt(o, {"link", "lov", "other"})
    /\ oss' = [oss EXCEPT ![o] = OssNextEntry(o)]
    /\ UNCHANGED <<disk, dbVars>>

\* Faulty variant: the loop variable is not incremented.
OssSameInode(o) ==
    /\ oss[o].pc = "xattr" /\ oss[o].k > Len(OssSlot(o).xattrs)
    /\ oss' = [oss EXCEPT ![o].pc = "inode"]
    /\ UNCHANGED <<disk, dbVars>>

OssNextInode(o) ==
    /\ oss[o].pc = "xattr" /\ oss[o].k > Len(OssSlot(o).xattrs)
    /\ oss' = [oss EXCEPT ![o].pc = "inode", ![o].i = @ + 1]
    /\ UNCHANGED <<disk, dbVars>>

\* Faulty variant: the last loop counts from 0.
OssScannedFromZero(o) ==
    /\ oss[o].pc = "inode" /\ oss[o].i > TotalInodes[o]
    /\ oss' = [oss EXCEPT ![o].pc = "lov", ![o].j = 0]
    /\ UNCHANGED <<disk, dbVars>>

\* The inode walk is over: the last loop starts.
OssScanned(o) ==
    /\ oss[o].pc = "inode" /\ oss[o].i > TotalInodes[o]
    /\ oss' = [oss EXCEPT ![o].pc = "lov", ![o].j = 1]
    /\ UNCHANGED <<disk, dbVars>>

\* One metadata inode number of the last loop, whoever's objects they are.
OssLov(o) ==
    /\ oss[o].pc = "lov" /\ oss[o].j <= mds_total_inodes
    /\ OssStatement(o, Merge("LOV_parent_of", Numbered("MDS", oss[o].j), "ost_oid",
                             Labelled("OSS"), "f_oid"),
                    [oss[o] EXCEPT !.j = @ + 1])
    /\ UNCHANGED disk

\* Faulty variant: the loop may stop one number short.
OssDoneEarly(o) ==
    /\ oss[o].pc = "lov" /\ oss[o].j >= mds_total_inodes
    /\ oss' = [oss EXCEPT ![o].pc = "done"]
    /\ UNCHANGED <<disk, dbVars>>

OssDone(o) ==
    /\ oss[o].pc = "lov" /\ oss[o].j > mds_total_inodes
    /\ oss' = [oss EXCEPT ![o].pc = "done"]
    /\ UNCHANGED <<disk, dbVars>>

OssKilled(o) ==
    /\ oss[o].pc \notin Stopped
    /\ oss' = [oss EXCEPT ![o].pc = "killed"]
    /\ UNCHANGED <<disk, dbVars>>

OssStep(o) ==
    \/ OssInode(o) \/ OssType(o) \/ OssNextInode(o) \/ OssScanned(o)
    \/ OssLma(o) \/ OssFoid(o) \/ OssFid(o) \/ OssMerge(o) \/ OssOther(o)
    \/ OssLov(o) \/ OssDone(o)

=============================================================================
