---------------------------- MODULE LfsckProofs ----------------------------
(***************************************************************************)
(* Proofs about Lfsck for every set of object servers, every device and    *)
(* every bound.  The argument: whatever the scanners do, what reaches the  *)
(* graph is one of a few statements, each carrying a value the device      *)
(* holds in the slot whose number the statement names (DiskStep); such     *)
(* statements keep every property of a node a value of the node's own      *)
(* slot (DbInv), and a merge over such properties joins attested pairs.    *)
(***************************************************************************)
EXTENDS Lfsck, TLAPS

\* Where a scanner stands: past the top of the loop it is at a slot with xattrs,
\* and between the two statements of an object's lma it is still at that entry.
Located(s, scan) ==
    /\ scan.pc \notin Stopped => scan.run # 0
    /\ scan.pc \in {"type", "spin", "xattr", "merge", "f_oid"} => scan.i \in Lustre(s)
    /\ scan.pc = "f_oid" =>
         /\ scan.k <= Len(disk[s][scan.i].xattrs)
         /\ disk[s][scan.i].xattrs[scan.k].name = "lma"

ScanInv ==
    /\ disk \in Disks
    /\ mds \in ScannerState(Mds) /\ Located(Mds, mds)
    /\ DOMAIN oss = Osts /\ oss = [o \in Osts |-> oss[o]]
    /\ \A o \in Osts : oss[o] \in ScannerState(o) /\ Located(o, oss[o])
    /\ saw \in [Osts -> 0 .. MaxRuns]

\* The inode_type a slot gives its node, if any.
TypeOf(slot) == (IF slot.i_mode = "dir" THEN {"directory"} ELSE {})
                  \cup (IF slot.i_mode = "reg" THEN {"file"} ELSE {})

\* The statements, as the graph sees them.
MdsStatements ==
    \E i \in Lustre(Mds) :
      \/ \E v \in TypeOf(disk[Mds][i]) : SetWhere("MDS", i, "inode_type", v)
      \/ \E v \in LmaOf(disk[Mds][i]) : SetWhere("MDS", i, "lma", v)
      \/ \E v \in PfidOf(disk[Mds][i]) : SetWhere("MDS", i, "pfid", v)
      \/ \E v \in LovOidOf(disk[Mds][i]) : SetWhere("MDS", i, "ost_oid", v)

OssStatements(o) ==
    \E i \in Lustre(o) :
      \/ \E v \in TypeOf(disk[o][i]) : SetWhere("OSS", i, "inode_type", v)
      \/ \E v \in LmaOf(disk[o][i]) : SetWhere("OSS", i, "lma", v)
      \/ \E v \in FoidOf(disk[o][i]) : SetWhere("OSS", i, "f_oid", v)
      \/ \E v \in FfidOf(disk[o][i]) : SetWhere("OSS", i, "fid", v)

MergeParents == Merge("mds_parent_of", Labelled("MDS"), "lma", Labelled("MDS"), "pfid")
MergeStripes == Merge("OST_child_of", Labelled("OSS"), "fid", Labelled("MDS"), "lma")
MergeLov(j)  == Merge("LOV_parent_of", Numbered("MDS", j), "ost_oid", Labelled("OSS"), "f_oid")

DiskStep ==
    \/ UNCHANGED dbVars
    \/ Lose
    \/ \E n \in Node : n.inode_number \in Lustre(n.srv) /\ Create(n)
    \/ MdsStatements
    \/ \E o \in Osts : OssStatements(o)
    \/ MergeParents \/ MergeStripes \/ \E j \in Nat : MergeLov(j)

-----------------------------------------------------------------------------
(***************************************************************************)
(* What the attributes of a slot may be.                                   *)
(***************************************************************************)

\* An entry of a slot is among the attributes that bear its name.
LEMMA EntryIsAttr ==
    ASSUME NEW slot \in Slot, NEW k \in Nat \ {0}, k <= Len(slot.xattrs)
    PROVE  /\ slot.xattrs[k] \in Xattr
           /\ slot.xattrs[k] \in Attrs(slot, slot.xattrs[k].name)
<1>1. slot.xattrs \in Seq(Xattr)
  BY DEF Slot
<1>2. k \in DOMAIN slot.xattrs /\ slot.xattrs[k] \in Xattr
  BY <1>1
<1> QED
  BY <1>2 DEF Attrs

\* A slot's FIDs and object ids are FIDs and object ids.
LEMMA AttrTypes ==
    ASSUME NEW slot \in Slot
    PROVE  /\ LmaOf(slot) \subseteq Fid
           /\ PfidOf(slot) \subseteq Fid
           /\ FfidOf(slot) \subseteq Fid
           /\ LovOidOf(slot) \subseteq FOids
           /\ FoidOf(slot) \subseteq FOids
<1>1. slot.xattrs \in Seq(Xattr)
  BY DEF Slot
<1>2. \A name : \A x \in Attrs(slot, name) : x \in Xattr /\ x.name = name
  BY <1>1 DEF Attrs
<1>3. \A x \in Attrs(slot, "lma") : x.lma_self_fid \in Fid
  BY <1>2 DEF Xattr, LmaAttr, LinkAttr, LovAttr, FidAttr, OtherAttr
<1>4. \A x \in Attrs(slot, "fid") : x.ff_parent \in Fid
  BY <1>2 DEF Xattr, LmaAttr, LinkAttr, LovAttr, FidAttr, OtherAttr
<1>5. \A x \in Attrs(slot, "link") : x.good_magic =>
          x.lee_parent_fid \in Seq(BeFid) /\ x.lee_parent_fid # <<>>
  BY <1>2 DEF Xattr, LmaAttr, LinkAttr, LovAttr, FidAttr, OtherAttr
<1>6. \A x \in Attrs(slot, "link") : x.good_magic =>
          fid_be_to_cpu(x.lee_parent_fid[1]) \in Fid
  <2> SUFFICES ASSUME NEW x \in Attrs(slot, "link"), x.good_magic
               PROVE  fid_be_to_cpu(x.lee_parent_fid[1]) \in Fid
    OBVIOUS
  <2>1. x.lee_parent_fid \in Seq(BeFid) /\ x.lee_parent_fid # <<>>
    BY <1>5
  <2>2. x.lee_parent_fid[1] \in BeFid
    BY <2>1
  <2> QED
    BY <2>2 DEF BeFid, fid_be_to_cpu
<1>7. \A x \in Attrs(slot, "lov") : FirstObject(x) \subseteq FOids
  <2> SUFFICES ASSUME NEW x \in Attrs(slot, "lov")
               PROVE  FirstObject(x) \subseteq FOids
    OBVIOUS
  <2>1. x \in LovAttr
    <3>1. x \in Xattr /\ x.name = "lov"
      BY <1>2
    <3> QED
      BY <3>1 DEF Xattr, LmaAttr, LinkAttr, FidAttr, OtherAttr
  <2>2. CASE x.lmm_magic # "v1"
    BY <2>1, <2>2 DEF LovAttr, FirstObject
  <2>3. CASE x.lmm_magic = "v1"
    <3>1. x.lmm_objects \in Seq(LovObject)
      BY <2>1 DEF LovAttr
    <3>2. x.lmm_objects # <<>> => x.lmm_objects[1] \in LovObject
      BY <3>1
    <3> QED
      BY <2>3, <3>2, WidthAssumption DEF FirstObject, LovObject, Printed
  <2> QED
    BY <2>2, <2>3
<1> QED
  BY <1>3, <1>4, <1>6, <1>7 DEF LmaOf, PfidOf, FfidOf, LovOidOf, FoidOf, Fid

-----------------------------------------------------------------------------
(***************************************************************************)
(* Every step keeps each scanner where its slot is, and is a DiskStep.     *)
(***************************************************************************)

\* The slots a scan visits are slots.
LEMMA ScannedSlot ==
    ASSUME ScanInv, NEW s \in Servers, NEW i \in ScannedSlots(s)
    PROVE  /\ disk[s][i] \in Slot
           /\ i \in Lustre(s) <=> disk[s][i].h_magic
<1>1. disk[s] \in [SlotNos(s) -> Slot] /\ TotalInodes[s] \in Nat
  BY DisksAssumption, TotalInodesAssumption DEF ScanInv
<1>2. i \in SlotNos(s)
  BY <1>1 DEF ScannedSlots, SlotNos
<1> QED
  BY <1>1, <1>2 DEF Lustre

\* A scanner that goes to another point of the same slot, or loses a statement, is
\* still where its slot is.
LEMMA StaysAtSlot ==
    ASSUME NEW s \in Servers, NEW scan \in ScannerState(s), scan.run # 0,
           scan.i \in Lustre(s), NEW pc \in {"type", "spin", "xattr", "merge"},
           NEW k \in Nat \ {0}
    PROVE  /\ [scan EXCEPT !.pc = pc] \in ScannerState(s)
           /\ Located(s, [scan EXCEPT !.pc = pc])
           /\ [scan EXCEPT !.k = k, !.pc = pc] \in ScannerState(s)
           /\ Located(s, [scan EXCEPT !.k = k, !.pc = pc])
<1> DEFINE a == [scan EXCEPT !.pc = pc]
           b == [scan EXCEPT !.k = k, !.pc = pc]
<1>1. a \in ScannerState(s) /\ b \in ScannerState(s)
  BY DEF ScannerState, Pc
<1>2. a.pc = pc /\ a.i = scan.i /\ a.run = scan.run
  BY DEF ScannerState
<1>3. b.pc = pc /\ b.i = scan.i /\ b.run = scan.run
  BY DEF ScannerState
<1> HIDE DEF a, b
<1>4. Located(s, a) /\ Located(s, b)
  BY <1>2, <1>3 DEF Located
<1> QED
  BY <1>1, <1>4 DEF a, b

LEMMA StaysUnclean ==
    ASSUME NEW s \in Servers, NEW scan \in ScannerState(s), Located(s, scan)
    PROVE  /\ [scan EXCEPT !.clean = FALSE] \in ScannerState(s)
           /\ Located(s, [scan EXCEPT !.clean = FALSE])
<1> DEFINE a == [scan EXCEPT !.clean = FALSE]
<1>1. a \in ScannerState(s) /\ a.pc = scan.pc /\ a.i = scan.i /\ a.run = scan.run
         /\ a.k = scan.k
  BY DEF ScannerState
<1> HIDE DEF a
<1>2. Located(s, a)
  BY <1>1 DEF Located
<1> QED
  BY <1>1, <1>2 DEF a

\* A scanner that goes to the top of the loop, or stops.
LEMMA LeavesSlot ==
    ASSUME NEW s \in Servers, NEW scan \in ScannerState(s), scan.run # 0,
           NEW pc \in {"inode", "lov", "done", "exited", "killed"},
           NEW i \in 1 .. TotalInodes[s] + 1
    PROVE  /\ [scan EXCEPT !.pc = pc] \in ScannerState(s)
           /\ Located(s, [scan EXCEPT !.pc = pc])
           /\ [scan EXCEPT !.pc = pc, !.i = i] \in ScannerState(s)
           /\ Located(s, [scan EXCEPT !.pc = pc, !.i = i])
<1> DEFINE a == [scan EXCEPT !.pc = pc]
           b == [scan EXCEPT !.pc = pc, !.i = i]
<1>1. a \in ScannerState(s) /\ b \in ScannerState(s)
  BY DEF ScannerState, Pc
<1>2. a.pc = pc /\ a.run = scan.run /\ b.pc = pc /\ b.run = scan.run
  BY DEF ScannerState
<1> HIDE DEF a, b
<1>3. Located(s, a) /\ Located(s, b)
  BY <1>2 DEF Located
<1> QED
  BY <1>1, <1>3 DEF a, b

\* A step of the metadata scanner that leaves it at a place it may be at.
LEMMA MdsMoved ==
    ASSUME ScanInv, UNCHANGED <<disk, oss, saw>>,
           mds' \in ScannerState(Mds), Located(Mds, mds')
    PROVE  ScanInv'
  BY DEF ScanInv, Located, Lustre

LEMMA MdsMovesStep ==
    ASSUME ScanInv, MdsMoves
    PROVE  ScanInv' /\ DiskStep
<1> DEFINE slot == disk[Mds][mds.i]
<1>1. UNCHANGED <<disk, oss, saw>>
  BY DEF MdsMoves, MdsStart, MdsStep, MdsInode, MdsType, MdsNextInode, MdsDone, MdsLma,
         MdsLink, MdsMerge, MdsLov, MdsOther, MdsKilled
<1>2. mds \in ScannerState(Mds) /\ Located(Mds, mds) /\ Mds \in Servers
  BY DEF ScanInv, Servers
<1>3. TotalInodes[Mds] \in Nat /\ MaxRuns \in Nat
  BY <1>2, TotalInodesAssumption, BoundsAssumption
<1>4. mds.i \in Lustre(Mds) => mds.i \in ScannedSlots(Mds) /\ slot \in Slot
  BY <1>2, ScannedSlot DEF Lustre
<1>5. mds.i \in Lustre(Mds) => mds.i \in 1 .. TotalInodes[Mds]
  BY <1>4 DEF ScannedSlots
<1>6. ASSUME mds.pc \in {"type", "xattr", "merge"}
      PROVE  mds.i \in Lustre(Mds) /\ slot \in Slot
  BY <1>6, <1>2, <1>4 DEF Located
<1>7. SUFFICES mds' \in ScannerState(Mds) /\ Located(Mds, mds') /\ DiskStep
  BY <1>1, MdsMoved
<1>8. ASSUME NEW names, MdsAt(names)
      PROVE  /\ mds.pc = "xattr" /\ mds.i \in Lustre(Mds)
             /\ MdsEntry \in Xattr /\ MdsEntry.name \in names
             /\ MdsEntry \in Attrs(slot, MdsEntry.name)
             /\ MdsNextEntry \in ScannerState(Mds) /\ Located(Mds, MdsNextEntry)
             /\ [MdsNextEntry EXCEPT !.clean = FALSE] \in ScannerState(Mds)
             /\ Located(Mds, [MdsNextEntry EXCEPT !.clean = FALSE])
  <2>1. mds.pc = "xattr" /\ mds.i \in Lustre(Mds) /\ slot \in Slot /\ mds.k \in Nat \ {0}
    BY <1>8, <1>6, <1>2 DEF MdsAt, ScannerState
  <2>2. mds.k <= Len(slot.xattrs)
    BY <1>8 DEF MdsAt, MdsSlot
  <2>3. MdsEntry \in Xattr /\ MdsEntry \in Attrs(slot, MdsEntry.name)
    BY <2>1, <2>2, EntryIsAttr DEF MdsEntry, MdsSlot
  <2>4. MdsNextEntry \in ScannerState(Mds) /\ Located(Mds, MdsNextEntry)
    <3>1. mds.k + 1 \in Nat \ {0} /\ mds.run # 0
      BY <2>1, <1>2 DEF Located, Stopped
    <3> QED
      BY <2>1, <3>1, <1>2, StaysAtSlot DEF MdsNextEntry
  <2>5. /\ [MdsNextEntry EXCEPT !.clean = FALSE] \in ScannerState(Mds)
        /\ Located(Mds, [MdsNextEntry EXCEPT !.clean = FALSE])
    BY <2>4, <1>2, StaysUnclean
  <2> QED
    BY <1>8, <2>1, <2>3, <2>4, <2>5 DEF MdsAt
<1>9. CASE MdsStart
  <2>1. PICK up \in BOOLEAN : mds' = Started(mds.run + 1, up)
    BY <1>9 DEF MdsStart
  <2>2. mds.run + 1 \in 1 .. MaxRuns
    BY <1>9, <1>2, <1>3 DEF MdsStart, ScannerState
  <2>3. mds' \in ScannerState(Mds)
    BY <2>1, <2>2, <1>3 DEF Started, ScannerState, Pc
  <2>4. Located(Mds, mds')
    BY <2>1, <2>2 DEF Started, Located
  <2> QED
    BY <1>9, <2>3, <2>4 DEF MdsStart, DiskStep
<1>10. CASE MdsInode
  <2>1. mds.i \in ScannedSlots(Mds) /\ mds.run \in 1 .. MaxRuns
    BY <1>10, <1>2, <1>3 DEF MdsInode, ScannerState, Located, ScannedSlots, Stopped
  <2>2. CASE slot.h_magic
    <3>1. mds.i \in Lustre(Mds)
      BY <2>1, <2>2, <1>2, ScannedSlot
    <3>2. MdsNode \in Node /\ MdsNode.inode_number \in Lustre(MdsNode.srv)
      <4>1. MdsNode \in [srv: {Mds}, run: 1 .. MaxRuns, inode_number: ScannedSlots(Mds)]
        BY <2>1 DEF MdsNode
      <4> QED
        BY <4>1, <3>1, <1>2 DEF MdsNode, Node
    <3>3. \/ Create(MdsNode) /\ mds' = [mds EXCEPT !.pc = "type"]
          \/ Lose /\ mds' = [[mds EXCEPT !.pc = "type"] EXCEPT !.clean = FALSE]
      BY <1>10, <2>2 DEF MdsInode, MdsSlot, MdsStatement
    <3>4. mds' \in ScannerState(Mds) /\ Located(Mds, mds')
      <4>1. mds.k \in Nat \ {0} /\ mds.run # 0
        BY <1>2, <2>1 DEF ScannerState
      <4>2. /\ [mds EXCEPT !.pc = "type"] \in ScannerState(Mds)
            /\ Located(Mds, [mds EXCEPT !.pc = "type"])
        BY <4>1, <3>1, <1>2, StaysAtSlot
      <4> QED
        BY <4>2, <3>3, <1>2, StaysUnclean
    <3> QED
      BY <3>2, <3>3, <3>4 DEF DiskStep
  <2>3. CASE ~slot.h_magic
    <3>1. mds' = [mds EXCEPT !.i = @ + 1] /\ UNCHANGED dbVars
      BY <1>10, <2>3 DEF MdsInode, MdsSlot
    <3>2. mds' \in ScannerState(Mds) /\ Located(Mds, mds')
      BY <3>1, <1>10, <1>2, <1>3 DEF MdsInode, ScannerState, Located, Stopped
    <3> QED
      BY <3>1, <3>2 DEF DiskStep
  <2> QED
    BY <2>2, <2>3
<1>11. CASE MdsType
  <2> DEFINE pc == IF slot.i_mode = "dir" /\ slot.dir_spins THEN "spin" ELSE "xattr"
             next == [mds EXCEPT !.k = 1, !.pc = pc]
  <2>1. mds.i \in Lustre(Mds) /\ mds.run # 0
    BY <1>11, <1>6, <1>2 DEF MdsType, Located, Stopped
  <2>2. /\ next \in ScannerState(Mds) /\ Located(Mds, next)
        /\ [next EXCEPT !.clean = FALSE] \in ScannerState(Mds)
        /\ Located(Mds, [next EXCEPT !.clean = FALSE])
    <3>1. pc \in {"spin", "xattr"}
      OBVIOUS
    <3> HIDE DEF pc
    <3>2. pc \in {"type", "spin", "xattr", "merge"} /\ 1 \in Nat \ {0}
      BY <3>1
    <3>3. next \in ScannerState(Mds) /\ Located(Mds, next)
      BY <2>1, <3>2, <1>2, StaysAtSlot
    <3> HIDE DEF next
    <3> QED
      BY <3>3, <1>2, StaysUnclean
  <2>3. \/ \E v \in TypeOf(slot) : SetWhere("MDS", mds.i, "inode_type", v) /\ mds' = next
        \/ UNCHANGED dbVars /\ mds' = next
        \/ Lose /\ mds' = [next EXCEPT !.clean = FALSE]
    BY <1>11 DEF MdsType, MdsSet, MdsStatement, MdsSlot, TypeOf
  <2> HIDE DEF next
  <2> QED
    BY <2>1, <2>2, <2>3 DEF DiskStep, MdsStatements
<1>12. CASE MdsLma
  <2>1. \/ SetWhere("MDS", mds.i, "lma", MdsEntry.lma_self_fid) /\ mds' = MdsNextEntry
        \/ Lose /\ mds' = [MdsNextEntry EXCEPT !.clean = FALSE]
    BY <1>12 DEF MdsLma, MdsSet, MdsStatement
  <2>2. MdsAt({"lma"})
    BY <1>12 DEF MdsLma
  <2>3. MdsEntry.lma_self_fid \in LmaOf(slot)
    BY <2>2, <1>8 DEF LmaOf
  <2> QED
    BY <2>1, <2>2, <2>3, <1>8 DEF DiskStep, MdsStatements
<1>13. CASE MdsLink
  <2>1. MdsAt({"link"})
    BY <1>13 DEF MdsLink
  <2>2. CASE MdsEntry.good_magic
    <3> DEFINE v == fid_be_to_cpu(MdsEntry.lee_parent_fid[1])
               next == [mds EXCEPT !.pc = "merge"]
    <3>1. \/ SetWhere("MDS", mds.i, "pfid", v) /\ mds' = next
          \/ Lose /\ mds' = [next EXCEPT !.clean = FALSE]
      BY <1>13, <2>2 DEF MdsLink, MdsSet, MdsStatement
    <3>2. v \in PfidOf(slot)
      BY <2>1, <2>2, <1>8 DEF PfidOf
    <3>3. mds' \in ScannerState(Mds) /\ Located(Mds, mds')
      <4>1. mds.i \in Lustre(Mds) /\ mds.run # 0 /\ mds.k \in Nat \ {0}
        BY <2>1, <1>8, <1>2 DEF Located, Stopped, ScannerState
      <4>2. next \in ScannerState(Mds) /\ Located(Mds, next)
        BY <4>1, <1>2, StaysAtSlot
      <4> HIDE DEF next
      <4> QED
        BY <4>2, <3>1, <1>2, StaysUnclean
    <3> HIDE DEF v, next
    <3> QED
      BY <3>1, <3>2, <3>3, <2>1, <1>8 DEF DiskStep, MdsStatements
  <2>3. CASE ~MdsEntry.good_magic
    <3>1. mds' = [mds EXCEPT !.pc = "exited"] /\ UNCHANGED dbVars
      BY <1>13, <2>3 DEF MdsLink
    <3> QED
      BY <3>1, <1>2 DEF ScannerState, Located, Pc, Stopped, DiskStep
  <2> QED
    BY <2>2, <2>3
<1>14. CASE MdsMerge
  <2>1. \/ MergeParents /\ mds' = MdsNextEntry
        \/ Lose /\ mds' = [MdsNextEntry EXCEPT !.clean = FALSE]
    BY <1>14 DEF MdsMerge, MdsStatement, MergeParents
  <2>2. mds.i \in Lustre(Mds) /\ mds.run # 0
    BY <1>14, <1>6, <1>2 DEF MdsMerge, Located, Stopped
  <2>3. MdsNextEntry \in ScannerState(Mds) /\ Located(Mds, MdsNextEntry)
    <3>1. mds.k + 1 \in Nat \ {0}
      BY <1>2 DEF ScannerState
    <3> QED
      BY <2>2, <3>1, <1>2, StaysAtSlot DEF MdsNextEntry
  <2>4. mds' \in ScannerState(Mds) /\ Located(Mds, mds')
    BY <2>1, <2>3, <1>2, StaysUnclean
  <2> QED
    BY <2>1, <2>4 DEF DiskStep
<1>15. CASE MdsLov
  <2>1. MdsAt({"lov"})
    BY <1>15 DEF MdsLov
  <2>2. PICK v \in FirstObject(MdsEntry) :
          \/ SetWhere("MDS", mds.i, "ost_oid", v) /\ mds' = MdsNextEntry
          \/ Lose /\ mds' = [MdsNextEntry EXCEPT !.clean = FALSE]
    BY <1>15 DEF MdsLov, MdsSet, MdsStatement
  <2>3. v \in LovOidOf(slot)
    BY <2>1, <1>8 DEF LovOidOf
  <2> QED
    BY <2>1, <2>2, <2>3, <1>8 DEF DiskStep, MdsStatements
<1>16. CASE MdsOther
  <2>1. MdsAt({"fid", "other"}) /\ mds' = MdsNextEntry /\ UNCHANGED dbVars
    BY <1>16 DEF MdsOther
  <2> QED
    BY <2>1, <1>8 DEF DiskStep
<1>17. CASE MdsNextInode \/ MdsDone \/ MdsKilled
  <2>1. UNCHANGED dbVars
    BY <1>17 DEF MdsNextInode, MdsDone, MdsKilled
  <2>2. mds.run # 0 /\ mds.i \in 1 .. TotalInodes[Mds] + 1
    BY <1>17, <1>2 DEF MdsNextInode, MdsDone, MdsKilled, Located, Stopped, ScannerState
  <2>3. mds' \in ScannerState(Mds) /\ Located(Mds, mds')
    <3>1. CASE MdsNextInode
      <4>1. mds.i + 1 \in 1 .. TotalInodes[Mds] + 1
        BY <3>1, <1>3, <1>5, <1>6 DEF MdsNextInode
      <4> QED
        BY <3>1, <4>1, <2>2, <1>2, LeavesSlot DEF MdsNextInode
    <3>2. CASE MdsDone \/ MdsKilled
      BY <3>2, <2>2, <1>2, LeavesSlot DEF MdsDone, MdsKilled
    <3> QED
      BY <1>17, <3>1, <3>2
  <2> QED
    BY <2>1, <2>3 DEF DiskStep
<1> QED
  BY <1>9, <1>10, <1>11, <1>12, <1>13, <1>14, <1>15, <1>16, <1>17 DEF MdsMoves, MdsStep

-----------------------------------------------------------------------------
\* The same of an object scanner.
LEMMA OssMoved ==
    ASSUME ScanInv, NEW o \in Osts, UNCHANGED <<disk, mds>>, saw' \in [Osts -> 0 .. MaxRuns],
           NEW next \in ScannerState(o), Located(o, next), oss' = [oss EXCEPT ![o] = next]
    PROVE  ScanInv'
<1>1. DOMAIN oss' = Osts /\ oss' = [p \in Osts |-> oss'[p]]
  BY DEF ScanInv
<1>2. \A p \in Osts : oss'[p] = IF p = o THEN next ELSE oss[p]
  BY DEF ScanInv
<1>3. \A p \in Osts : oss'[p] \in ScannerState(p) /\ Located(p, oss'[p])
  BY <1>2 DEF ScanInv
<1>4. \A p, scan : Located(p, scan) <=> Located(p, scan)'
  BY DEF Located, Lustre
<1> QED
  BY <1>1, <1>3 DEF ScanInv, Located, Lustre

LEMMA OssMovesStep ==
    ASSUME ScanInv, NEW o \in Osts, OssMoves(o)
    PROVE  ScanInv' /\ DiskStep
<1> DEFINE scan == oss[o]
           slot == disk[o][scan.i]
           Goes(next) == oss' = [oss EXCEPT ![o] = next]
           MayBe(next) == next \in ScannerState(o) /\ Located(o, next)
<1>1. UNCHANGED <<disk, mds>> /\ saw' \in [Osts -> 0 .. MaxRuns]
  <2>1. UNCHANGED mds
    BY DEF OssMoves
  <2>2. UNCHANGED disk
    BY DEF OssMoves, OssStart, OssStep, OssInode, OssType, OssNextInode, OssScanned, OssLma,
           OssFoid, OssFid, OssMerge, OssOther, OssLov, OssDone, OssKilled
  <2>3. mds.run \in 0 .. MaxRuns /\ MaxRuns \in Nat
    BY BoundsAssumption DEF ScanInv, ScannerState
  <2>4. saw' \in [Osts -> 0 .. MaxRuns]
    BY <2>3 DEF OssMoves, ScanInv
  <2> QED
    BY <2>1, <2>2, <2>4
<1>2. scan \in ScannerState(o) /\ Located(o, scan) /\ o \in Servers
  BY DEF ScanInv, Servers
<1>3. /\ TotalInodes[o] \in Nat /\ MaxRuns \in Nat
      /\ scan.i \in 1 .. TotalInodes[o] + 1 /\ scan.k \in Nat \ {0}
  BY <1>2, TotalInodesAssumption, BoundsAssumption DEF ScannerState
<1>4. scan.i \in Lustre(o) => scan.i \in 1 .. TotalInodes[o] /\ slot \in Slot
  BY <1>2, ScannedSlot DEF Lustre, ScannedSlots
<1>5. scan.pc \notin Stopped => scan.run # 0
  BY <1>2 DEF Located
<1>6. ASSUME scan.pc \in {"type", "xattr", "merge", "f_oid"}
      PROVE  scan.i \in Lustre(o) /\ slot \in Slot /\ scan.run # 0
  BY <1>6, <1>2, <1>4 DEF Located, Stopped
<1>7. SUFFICES (\E next : Goes(next) /\ MayBe(next)) /\ DiskStep
  BY <1>1, OssMoved
<1>8. ASSUME NEW next, MayBe(next)
      PROVE  MayBe([next EXCEPT !.clean = FALSE])
  BY <1>8, <1>2, StaysUnclean
<1>9. ASSUME scan.i \in Lustre(o), scan.run # 0
      PROVE  /\ MayBe(OssNextEntry(o))
             /\ MayBe([scan EXCEPT !.pc = "type"])
             /\ MayBe([scan EXCEPT !.pc = "merge"])
             /\ MayBe([scan EXCEPT !.k = 1, !.pc = "spin"])
             /\ MayBe([scan EXCEPT !.k = 1, !.pc = "xattr"])
  <2>1. scan.k + 1 \in Nat \ {0} /\ 1 \in Nat \ {0}
    BY <1>3
  <2>2. OssNextEntry(o) = [scan EXCEPT !.k = scan.k + 1, !.pc = "xattr"]
    BY DEF OssNextEntry
  <2>3. ASSUME NEW pc \in {"type", "spin", "xattr", "merge"}, NEW k \in Nat \ {0}
        PROVE  MayBe([scan EXCEPT !.pc = pc]) /\ MayBe([scan EXCEPT !.k = k, !.pc = pc])
    BY <1>2, <1>9, StaysAtSlot
  <2> HIDE DEF scan, MayBe
  <2>4. MayBe(OssNextEntry(o))
    BY <2>1, <2>2, <2>3
  <2>5. MayBe([scan EXCEPT !.pc = "type"]) /\ MayBe([scan EXCEPT !.pc = "merge"])
    BY <2>1, <2>3
  <2>6. /\ MayBe([scan EXCEPT !.k = 1, !.pc = "spin"])
        /\ MayBe([scan EXCEPT !.k = 1, !.pc = "xattr"])
    BY <2>1, <2>3
  <2> QED
    BY <2>4, <2>5, <2>6
<1>10. ASSUME scan.run # 0, NEW pc \in {"inode", "lov", "done", "exited", "killed"},
              NEW i \in 1 .. TotalInodes[o] + 1
       PROVE  MayBe([scan EXCEPT !.pc = pc]) /\ MayBe([scan EXCEPT !.pc = pc, !.i = i])
  BY <1>10, <1>2, LeavesSlot
<1>11. ASSUME NEW names, OssAt(o, names)
       PROVE  /\ scan.pc = "xattr" /\ scan.i \in Lustre(o) /\ scan.run # 0
              /\ scan.k <= Len(slot.xattrs)
              /\ OssEntry(o) \in Xattr /\ OssEntry(o).name \in names
              /\ OssEntry(o) \in Attrs(slot, OssEntry(o).name)
  <2>1. scan.pc = "xattr" /\ scan.i \in Lustre(o) /\ slot \in Slot /\ scan.run # 0
    BY <1>11, <1>6 DEF OssAt
  <2>2. scan.k <= Len(slot.xattrs)
    BY <1>11 DEF OssAt, OssSlot
  <2>3. OssEntry(o) \in Xattr /\ OssEntry(o) \in Attrs(slot, OssEntry(o).name)
    BY <2>1, <2>2, <1>3, EntryIsAttr DEF OssEntry, OssSlot
  <2> QED
    BY <1>11, <2>1, <2>2, <2>3 DEF OssAt
<1>12. CASE OssStart(o)
  <2>1. PICK up \in BOOLEAN : Goes(Started(scan.run + 1, up))
    BY <1>12 DEF OssStart
  <2>2. scan.run + 1 \in 1 .. MaxRuns
    BY <1>12, <1>2, <1>3 DEF OssStart, ScannerState
  <2>3. Started(scan.run + 1, up) \in ScannerState(o)
    BY <2>2, <1>3 DEF Started, ScannerState, Pc
  <2>4. Located(o, Started(scan.run + 1, up))
    BY <2>2 DEF Started, Located
  <2>5. UNCHANGED dbVars
    BY <1>12 DEF OssStart
  <2> QED
    BY <2>1, <2>3, <2>4, <2>5 DEF DiskStep
<1>13. CASE OssInode(o)
  <2>1. scan.i \in ScannedSlots(o) /\ scan.run \in 1 .. MaxRuns /\ scan.run # 0
    BY <1>13, <1>2, <1>3 DEF OssInode, ScannerState, Located, ScannedSlots, Stopped
  <2>2. CASE slot.h_magic
    <3>1. scan.i \in Lustre(o)
      BY <2>1, <2>2, <1>2, ScannedSlot
    <3>2. OssNode(o) \in Node /\ OssNode(o).inode_number \in Lustre(OssNode(o).srv)
      <4>1. OssNode(o) \in [srv: {o}, run: 1 .. MaxRuns, inode_number: ScannedSlots(o)]
        BY <2>1 DEF OssNode
      <4> QED
        BY <4>1, <3>1, <1>2 DEF OssNode, Node
    <3>3. \/ Create(OssNode(o)) /\ Goes([scan EXCEPT !.pc = "type"])
          \/ Lose /\ Goes([[scan EXCEPT !.pc = "type"] EXCEPT !.clean = FALSE])
      BY <1>13, <2>2 DEF OssInode, OssSlot, OssStatement
    <3> QED
      BY <3>1, <3>2, <3>3, <2>1, <1>8, <1>9 DEF DiskStep
  <2>3. CASE ~slot.h_magic
    <3>1. Goes([scan EXCEPT !.i = @ + 1]) /\ UNCHANGED dbVars
      BY <1>13, <2>3 DEF OssInode, OssSlot
    <3>2. MayBe([scan EXCEPT !.i = @ + 1])
      BY <2>1, <1>13, <1>2, <1>3 DEF OssInode, ScannerState, Located, Stopped, ScannedSlots
    <3> QED
      BY <3>1, <3>2 DEF DiskStep
  <2> QED
    BY <2>2, <2>3
<1>14. CASE OssType(o)
  <2>1. scan.i \in Lustre(o) /\ scan.run # 0
    BY <1>14, <1>6 DEF OssType
  <2> DEFINE next == [scan EXCEPT !.k = 1, !.pc = IF slot.i_mode = "dir" /\ slot.dir_spins
                                                  THEN "spin" ELSE "xattr"]
  <2>2. MayBe(next)
    <3>1. CASE slot.i_mode = "dir" /\ slot.dir_spins
      BY <3>1, <2>1, <1>9
    <3>2. CASE ~(slot.i_mode = "dir" /\ slot.dir_spins)
      BY <3>2, <2>1, <1>9
    <3> QED
      BY <3>1, <3>2
  <2>3. \/ \E v \in TypeOf(slot) : SetWhere("OSS", scan.i, "inode_type", v) /\ Goes(next)
        \/ UNCHANGED dbVars /\ Goes(next)
        \/ Lose /\ Goes([next EXCEPT !.clean = FALSE])
    BY <1>14 DEF OssType, OssSet, OssStatement, OssSlot, TypeOf
  <2> HIDE DEF next
  <2>4. \E n : Goes(n) /\ MayBe(n)
    BY <2>2, <2>3, <1>8
  <2> QED
    BY <2>1, <2>3, <2>4 DEF DiskStep, OssStatements
<1>15. CASE OssLma(o)
  <2> DEFINE next == [scan EXCEPT !.pc = "f_oid"]
  <2>1. OssAt(o, {"lma"})
    BY <1>15 DEF OssLma
  <2>2. \/ SetWhere("OSS", scan.i, "lma", OssEntry(o).lma_self_fid) /\ Goes(next)
        \/ Lose /\ Goes([next EXCEPT !.clean = FALSE])
    BY <1>15 DEF OssLma, OssSet, OssStatement
  <2>3. OssEntry(o).lma_self_fid \in LmaOf(slot)
    BY <2>1, <1>11 DEF LmaOf
  <2>4. MayBe(next)
    <3>1. /\ next \in ScannerState(o) /\ next.pc = "f_oid" /\ next.i = scan.i
          /\ next.k = scan.k /\ next.run = scan.run
      BY <1>2 DEF ScannerState, Pc
    <3>2. /\ scan.k <= Len(disk[o][scan.i].xattrs)
          /\ disk[o][scan.i].xattrs[scan.k].name = "lma"
      BY <2>1, <1>11 DEF OssEntry, OssSlot
    <3> HIDE DEF next
    <3> QED
      BY <3>1, <3>2, <2>1, <1>11 DEF Located
  <2> HIDE DEF next
  <2> QED
    BY <2>1, <2>2, <2>3, <2>4, <1>8, <1>11 DEF DiskStep, OssStatements
<1>16. CASE OssFoid(o)
  <2>1. scan.i \in Lustre(o) /\ slot \in Slot /\ scan.run # 0
    BY <1>16, <1>6 DEF OssFoid
  <2>2. scan.k <= Len(slot.xattrs) /\ OssEntry(o).name = "lma"
    BY <1>16, <1>2 DEF OssFoid, Located, OssEntry, OssSlot
  <2>3. OssEntry(o) \in Attrs(slot, "lma")
    BY <2>1, <2>2, <1>3, EntryIsAttr DEF OssEntry, OssSlot
  <2>4. OssEntry(o).lma_self_fid.f_oid \in FoidOf(slot)
    BY <2>3 DEF FoidOf
  <2>5. \/ SetWhere("OSS", scan.i, "f_oid", OssEntry(o).lma_self_fid.f_oid)
             /\ Goes(OssNextEntry(o))
        \/ Lose /\ Goes([OssNextEntry(o) EXCEPT !.clean = FALSE])
    BY <1>16 DEF OssFoid, OssSet, OssStatement
  <2> QED
    BY <2>1, <2>4, <2>5, <1>8, <1>9 DEF DiskStep, OssStatements
<1>17. CASE OssFid(o)
  <2>1. OssAt(o, {"fid"})
    BY <1>17 DEF OssFid
  <2>2. \/ SetWhere("OSS", scan.i, "fid", OssEntry(o).ff_parent)
             /\ Goes([scan EXCEPT !.pc = "merge"])
        \/ Lose /\ Goes([[scan EXCEPT !.pc = "merge"] EXCEPT !.clean = FALSE])
    BY <1>17 DEF OssFid, OssSet, OssStatement
  <2>3. OssEntry(o).ff_parent \in FfidOf(slot)
    BY <2>1, <1>11 DEF FfidOf
  <2> QED
    BY <2>1, <2>2, <2>3, <1>8, <1>9, <1>11 DEF DiskStep, OssStatements
<1>18. CASE OssMerge(o)
  <2>1. scan.i \in Lustre(o) /\ scan.run # 0
    BY <1>18, <1>6 DEF OssMerge
  <2>2. \/ MergeStripes /\ Goes(OssNextEntry(o))
        \/ Lose /\ Goes([OssNextEntry(o) EXCEPT !.clean = FALSE])
    BY <1>18 DEF OssMerge, OssStatement, MergeStripes
  <2> QED
    BY <2>1, <2>2, <1>8, <1>9 DEF DiskStep
<1>19. CASE OssOther(o)
  <2>1. OssAt(o, {"link", "lov", "other"}) /\ Goes(OssNextEntry(o)) /\ UNCHANGED dbVars
    BY <1>19 DEF OssOther
  <2> QED
    BY <2>1, <1>9, <1>11 DEF DiskStep
<1>20. CASE OssLov(o)
  <2> DEFINE next == [scan EXCEPT !.j = @ + 1]
  <2>1. \/ MergeLov(scan.j) /\ Goes(next)
        \/ Lose /\ Goes([next EXCEPT !.clean = FALSE])
    BY <1>20 DEF OssLov, OssStatement, MergeLov
  <2>2. scan.j \in Nat
    BY <1>2 DEF ScannerState
  <2>3. MayBe(next)
    <3>1. next \in ScannerState(o) /\ next.pc = "lov" /\ next.run = scan.run
      BY <1>20, <1>2 DEF OssLov, ScannerState
    <3>2. scan.run # 0
      BY <1>20, <1>5 DEF OssLov, Stopped
    <3> HIDE DEF next
    <3> QED
      BY <3>1, <3>2 DEF Located
  <2> HIDE DEF next
  <2> QED
    BY <2>1, <2>2, <2>3, <1>8 DEF DiskStep
<1>21. CASE OssNextInode(o) \/ OssScanned(o) \/ OssDone(o) \/ OssKilled(o)
  <2>1. UNCHANGED dbVars
    BY <1>21 DEF OssNextInode, OssScanned, OssDone, OssKilled
  <2>2. scan.run # 0
    BY <1>21, <1>5 DEF OssNextInode, OssScanned, OssDone, OssKilled, Stopped
  <2>3. CASE OssNextInode(o)
    <3>1. scan.i + 1 \in 1 .. TotalInodes[o] + 1
      BY <2>3, <1>3, <1>4, <1>6 DEF OssNextInode
    <3>2. Goes([scan EXCEPT !.pc = "inode", !.i = scan.i + 1])
      BY <2>3 DEF OssNextInode
    <3> QED
      BY <3>1, <3>2, <2>1, <2>2, <1>10 DEF DiskStep
  <2>4. CASE OssScanned(o)
    <3> DEFINE next == [scan EXCEPT !.pc = "lov", !.j = 1]
    <3>1. Goes(next)
      BY <2>4 DEF OssScanned
    <3>2. next \in ScannerState(o) /\ next.pc = "lov" /\ next.run = scan.run
      <4>1. scan \in ScannerState(o) /\ 1 \in Nat \ {0} /\ "lov" \in Pc
        BY <1>2 DEF Pc
      <4> HIDE DEF scan
      <4> QED
        BY <4>1 DEF ScannerState
    <3> HIDE DEF next
    <3>3. Located(o, next)
      BY <3>2, <2>2 DEF Located
    <3> QED
      BY <3>1, <3>2, <3>3, <2>1 DEF DiskStep
  <2>5. CASE OssDone(o) \/ OssKilled(o)
    <3>1. \E pc \in {"done", "killed"} : Goes([scan EXCEPT !.pc = pc])
      BY <2>5 DEF OssDone, OssKilled
    <3> QED
      BY <3>1, <2>1, <2>2, <1>3, <1>10 DEF DiskStep
  <2> QED
    BY <1>21, <2>3, <2>4, <2>5
<1> QED
  BY <1>12, <1>13, <1>14, <1>15, <1>16, <1>17, <1>18, <1>19, <1>20, <1>21
     DEF OssMoves, OssStep

-----------------------------------------------------------------------------
(***************************************************************************)
(* What such steps keep true of the graph.                                 *)
(***************************************************************************)

\* The properties p of node n are values of n's own slot; of a node of an object
\* server, when inode numbers tell the servers apart.
FromDisk(n, p) ==
    /\ n.srv = Mds => /\ p.inode_type \in TypeOf(SlotOf(n)) \cup {Null}
                      /\ p.lma \in LmaOf(SlotOf(n)) \cup {Null}
                      /\ p.pfid \in PfidOf(SlotOf(n)) \cup {Null}
                      /\ p.ost_oid \in LovOidOf(SlotOf(n)) \cup {Null}
    /\ DisjointNumbers /\ n.srv \in Osts =>
         /\ p.inode_type \in TypeOf(SlotOf(n)) \cup {Null}
         /\ p.lma \in LmaOf(SlotOf(n)) \cup {Null}
         /\ p.fid \in FfidOf(SlotOf(n)) \cup {Null}
         /\ p.f_oid \in FoidOf(SlotOf(n)) \cup {Null}

NodesInv ==
    /\ \A n \in nodes : n.inode_number \in Lustre(n.srv)
    /\ \A n \in Node : FromDisk(n, prop[n])

DbInv == DbTypeOK /\ NodesInv /\ ParentEdgesSound /\ ObjectEdgesSound

\* What the disks say does not change.
LEMMA DiskFixed ==
    ASSUME UNCHANGED disk
    PROVE  /\ AttestedParents' = AttestedParents
           /\ \A o : AttestedStripes(o)' = AttestedStripes(o)
           /\ \A o : AttestedLov(o)' = AttestedLov(o)
           /\ \A i : Locatable(i)' <=> Locatable(i)
           /\ DisjointNumbers' <=> DisjointNumbers
           /\ \A s : Lustre(s)' = Lustre(s)
           /\ \A n, p : FromDisk(n, p)' <=> FromDisk(n, p)
<1>1. \A s : Lustre(s)' = Lustre(s)
  BY DEF Lustre
<1>2. AttestedParents' = AttestedParents
  BY DEF AttestedParents, Lustre
<1>3. \A o : AttestedStripes(o)' = AttestedStripes(o)
  BY DEF AttestedStripes, Lustre
<1>4. \A o : AttestedLov(o)' = AttestedLov(o)
  BY DEF AttestedLov, Lustre
<1>5. DisjointNumbers' <=> DisjointNumbers
  BY DEF DisjointNumbers, Lustre
<1>6. \A n, p : FromDisk(n, p)' <=> FromDisk(n, p)
  BY <1>5 DEF FromDisk, SlotOf
<1>7. \A i : Locatable(i)' <=> Locatable(i)
  BY <1>1 DEF Locatable
<1> QED
  BY <1>1, <1>2, <1>3, <1>4, <1>5, <1>6, <1>7

\* An id that can only mean the first object and is met, is met on that object.
LEMMA LocatedIsFirst ==
    ASSUME ScanInv, NEW i \in Lustre(Mds), Locatable(i), NEW o \in Osts, NEW j \in Lustre(o),
           LovOidOf(disk[Mds][i]) \cap FoidOf(disk[o][j]) # {}
    PROVE  <<i, j>> \in AttestedLov(o)
<1> DEFINE slot == disk[Mds][i]
<1>1. PICK x \in Attrs(slot, "lov") : FirstObject(x) \cap FoidOf(disk[o][j]) # {}
  BY DEF LovOidOf
<1>2. /\ x.lmm_magic = "v1" /\ x.lmm_objects # <<>> /\ x.lmm_objects[1].oi_id < OidLimit
      /\ \A p \in Osts \ {x.lmm_objects[1].l_ost_idx} : \A k \in Lustre(p) :
           Printed(x.lmm_objects[1].oi_id) \notin FoidOf(disk[p][k])
  BY <1>1 DEF Locatable
<1> DEFINE first == x.lmm_objects[1]
<1>3. Printed(first.oi_id) \in FoidOf(disk[o][j])
  BY <1>1, <1>2 DEF FirstObject
<1>4. first.l_ost_idx = o
  BY <1>2, <1>3
<1>5. first.oi_id \in Nat
  <2>1. slot \in Slot
    BY ScannedSlot DEF Lustre, Servers
  <2> HIDE DEF slot
  <2>2. x \in Xattr /\ x.name = "lov"
    BY <1>1, <2>1 DEF Attrs, Slot
  <2>3. x \in LovAttr
    BY <2>2 DEF Xattr, LmaAttr, LinkAttr, FidAttr, OtherAttr
  <2>4. x.lmm_objects \in Seq(LovObject)
    BY <2>3 DEF LovAttr
  <2>5. first \in LovObject
    BY <1>2, <2>4
  <2> QED
    BY <2>5, WidthAssumption DEF LovObject
<1>6. Printed(first.oi_id) = first.oi_id
  BY <1>2, <1>5, WidthAssumption DEF Printed
<1>7. first \in FirstOf(slot)
  BY <1>1, <1>2 DEF FirstOf
<1> QED
  BY <1>3, <1>4, <1>6, <1>7 DEF AttestedLov

LEMMA NodeServer == \A n \in Node : n.srv \in Servers /\ n.inode_number \in ScannedSlots(n.srv)
  BY DEF Node

LEMMA Labels ==
    \A n \in Node : /\ Label(n) = "MDS" => n.srv = Mds
                    /\ Label(n) = "OSS" => n.srv \in Osts
  BY NodeServer DEF Label, Servers

\* Setting a key of the nodes of a number, when each of them may have the value.
LEMMA SetWhereKeeps ==
    ASSUME ScanInv, DbInv, UNCHANGED disk, NEW label, NEW i, NEW key, NEW v,
           SetWhere(label, i, key, v),
           \A n \in Numbered(label, i) :
             [prop[n] EXCEPT ![key] = v] \in Properties
               /\ FromDisk(n, [prop[n] EXCEPT ![key] = v])
    PROVE  DbInv'
<1>1. UNCHANGED <<nodes, rels, lost, disk>>
  BY DEF SetWhere
<1>2. prop' = [n \in Node |-> IF n \in Numbered(label, i)
                              THEN [prop[n] EXCEPT ![key] = v] ELSE prop[n]]
  BY DEF SetWhere
<1>3. prop \in [Node -> Properties] /\ \A n \in Node : FromDisk(n, prop[n])
  BY DEF DbInv, DbTypeOK, NodesInv
<1>4. \A n \in Node : prop'[n] \in Properties /\ FromDisk(n, prop'[n])
  BY <1>2, <1>3
<1>5. prop' \in [Node -> Properties]
  BY <1>2, <1>4
<1>6. DbTypeOK'
  BY <1>1, <1>5 DEF DbInv, DbTypeOK
<1>7. NodesInv'
  BY <1>1, <1>4, DiskFixed DEF DbInv, NodesInv
<1>8. ParentEdgesSound' /\ ObjectEdgesSound'
  BY <1>1, DiskFixed DEF DbInv, ParentEdgesSound, ObjectEdgesSound, Links, Numbers
<1> QED
  BY <1>6, <1>7, <1>8 DEF DbInv

\* A merge makes relationships between nodes that agree, and changes nothing else.
LEMMA NewRelationships ==
    ASSUME DbTypeOK, MergeParents \/ MergeStripes \/ \E j \in Nat : MergeLov(j)
    PROVE  /\ UNCHANGED <<nodes, prop, lost>>
           /\ rels \subseteq rels'
           /\ \A r \in rels' \ rels :
                /\ r \in Relationship
                /\ r.from \in nodes /\ r.to \in nodes
                /\ \/ /\ r.type = "mds_parent_of" /\ r.from.srv = Mds /\ r.to.srv = Mds
                      /\ SameValue(r.from, "lma", r.to, "pfid")
                   \/ /\ r.type = "OST_child_of" /\ r.from.srv \in Osts /\ r.to.srv = Mds
                      /\ SameValue(r.from, "fid", r.to, "lma")
                   \/ /\ r.type = "LOV_parent_of" /\ r.from.srv = Mds /\ r.to.srv \in Osts
                      /\ SameValue(r.from, "ost_oid", r.to, "f_oid")
<1>1. nodes \subseteq Node /\ prop \in [Node -> Properties] /\ rels \subseteq Relationship
  BY DEF DbTypeOK
<1>2. CASE MergeParents
  BY <1>1, <1>2, Labels DEF MergeParents, Merge, Labelled, Relationship
<1>3. CASE MergeStripes
  BY <1>1, <1>3, Labels DEF MergeStripes, Merge, Labelled, Relationship
<1>4. CASE \E j \in Nat : MergeLov(j)
  BY <1>1, <1>4, Labels DEF MergeLov, Merge, Labelled, Numbered, Relationship
<1> QED
  BY <1>2, <1>3, <1>4

\* A merge whose pairs are attested.
LEMMA MergeKeeps ==
    ASSUME ScanInv, DbInv, UNCHANGED disk,
           MergeParents \/ MergeStripes \/ \E j \in Nat : MergeLov(j)
    PROVE  DbInv'
<1>1. UNCHANGED <<nodes, prop, lost, disk>>
  BY NewRelationships DEF DbInv
<1>2. nodes \subseteq Node /\ prop \in [Node -> Properties] /\ rels \subseteq Relationship
  BY DEF DbInv, DbTypeOK
<1>3. \A r \in rels' \ rels :
        /\ r \in Relationship
        /\ r.from \in nodes /\ r.to \in nodes
        /\ \/ /\ r.type = "mds_parent_of" /\ r.from.srv = Mds /\ r.to.srv = Mds
              /\ SameValue(r.from, "lma", r.to, "pfid")
           \/ /\ r.type = "OST_child_of" /\ r.from.srv \in Osts /\ r.to.srv = Mds
              /\ SameValue(r.from, "fid", r.to, "lma")
           \/ /\ r.type = "LOV_parent_of" /\ r.from.srv = Mds /\ r.to.srv \in Osts
              /\ SameValue(r.from, "ost_oid", r.to, "f_oid")
  BY NewRelationships DEF DbInv
<1>4. \A n \in nodes : n.inode_number \in Lustre(n.srv) /\ FromDisk(n, prop[n])
  BY <1>2 DEF DbInv, NodesInv
<1>5. \A r \in rels' \ rels :
        /\ r.type = "mds_parent_of" => Numbers(r) \in AttestedParents
        /\ DisjointNumbers /\ r.type = "OST_child_of" => Numbers(r) \in AttestedStripes(r.from.srv)
        /\ DisjointNumbers /\ r.type = "LOV_parent_of" /\ Locatable(r.from.inode_number)
             => Numbers(r) \in AttestedLov(r.to.srv)
  <2> SUFFICES ASSUME NEW r \in rels' \ rels
               PROVE  /\ r.type = "mds_parent_of" => Numbers(r) \in AttestedParents
                      /\ DisjointNumbers /\ r.type = "OST_child_of"
                           => Numbers(r) \in AttestedStripes(r.from.srv)
                      /\ DisjointNumbers /\ r.type = "LOV_parent_of"
                         /\ Locatable(r.from.inode_number)
                           => Numbers(r) \in AttestedLov(r.to.srv)
    OBVIOUS
  <2>1. /\ r.from.inode_number \in Lustre(r.from.srv) /\ FromDisk(r.from, prop[r.from])
        /\ r.to.inode_number \in Lustre(r.to.srv) /\ FromDisk(r.to, prop[r.to])
    BY <1>3, <1>4
  <2>2. CASE r.type = "mds_parent_of"
    BY <2>1, <2>2, <1>3 DEF FromDisk, SameValue, SlotOf, Numbers, AttestedParents
  <2>3. CASE DisjointNumbers /\ r.type = "OST_child_of"
    BY <2>1, <2>3, <1>3 DEF FromDisk, SameValue, SlotOf, Numbers, AttestedStripes
  <2>4. CASE DisjointNumbers /\ r.type = "LOV_parent_of" /\ Locatable(r.from.inode_number)
    <3>1. /\ r.from.srv = Mds /\ r.from.inode_number \in Lustre(Mds)
          /\ r.to.srv \in Osts /\ r.to.inode_number \in Lustre(r.to.srv)
          /\ SameValue(r.from, "ost_oid", r.to, "f_oid")
      BY <2>1, <2>4, <1>3
    <3>2. LovOidOf(SlotOf(r.from)) \cap FoidOf(SlotOf(r.to)) # {}
      BY <2>1, <2>4, <3>1 DEF FromDisk, SameValue
    <3>3. LovOidOf(disk[Mds][r.from.inode_number]) \cap
            FoidOf(disk[r.to.srv][r.to.inode_number]) # {}
      BY <3>1, <3>2 DEF SlotOf
    <3> QED
      BY <2>4, <3>1, <3>3, LocatedIsFirst DEF Numbers
  <2> QED
    BY <2>2, <2>3, <2>4
<1>6. DbTypeOK'
  BY <1>1, <1>2, <1>3 DEF DbInv, DbTypeOK
<1>7. NodesInv'
  BY <1>1, DiskFixed DEF DbInv, NodesInv
<1>8. ParentEdgesSound' /\ ObjectEdgesSound'
  BY <1>3, <1>5, DiskFixed DEF DbInv, ParentEdgesSound, ObjectEdgesSound, Links, Numbers
<1> QED
  BY <1>6, <1>7, <1>8 DEF DbInv

\* The SETs of the two scanners carry values of the slot of the number they name.
LEMMA SetsKeep ==
    ASSUME ScanInv, DbInv, UNCHANGED disk, MdsStatements \/ \E o \in Osts : OssStatements(o)
    PROVE  DbInv'
<1>1. /\ nodes \subseteq Node
      /\ \A n \in Node : prop[n] \in Properties /\ FromDisk(n, prop[n])
  BY DEF DbInv, DbTypeOK, NodesInv
<1>2. CASE MdsStatements
  <2>1. PICK i \in Lustre(Mds) :
          \/ \E v \in TypeOf(disk[Mds][i]) : SetWhere("MDS", i, "inode_type", v)
          \/ \E v \in LmaOf(disk[Mds][i]) : SetWhere("MDS", i, "lma", v)
          \/ \E v \in PfidOf(disk[Mds][i]) : SetWhere("MDS", i, "pfid", v)
          \/ \E v \in LovOidOf(disk[Mds][i]) : SetWhere("MDS", i, "ost_oid", v)
    BY <1>2 DEF MdsStatements
  <2>2. \A n \in Numbered("MDS", i) : n \in Node /\ n.srv = Mds /\ SlotOf(n) = disk[Mds][i]
    BY <1>1, Labels DEF Numbered, Labelled, SlotOf
  <2>3. disk[Mds][i] \in Slot
    BY ScannedSlot DEF Lustre, Servers
  <2>4. /\ LmaOf(disk[Mds][i]) \subseteq Fid /\ PfidOf(disk[Mds][i]) \subseteq Fid
        /\ LovOidOf(disk[Mds][i]) \subseteq FOids
    BY <2>3, AttrTypes
  <2>5. \A n \in Numbered("MDS", i) : n.srv \notin Osts
    BY <2>2, ServersAssumption
  <2>6. CASE \E v \in TypeOf(disk[Mds][i]) : SetWhere("MDS", i, "inode_type", v)
    <3>1. PICK v \in TypeOf(disk[Mds][i]) : SetWhere("MDS", i, "inode_type", v)
      BY <2>6
    <3>2. \A n \in Numbered("MDS", i) : [prop[n] EXCEPT !["inode_type"] = v] \in Properties
                                        /\ FromDisk(n, [prop[n] EXCEPT !["inode_type"] = v])
      BY <3>1, <2>2, <2>4, <2>5, <1>1 DEF FromDisk, Properties, TypeOf
    <3> QED
      BY <3>1, <3>2, SetWhereKeeps
  <2>7. CASE \E v \in LmaOf(disk[Mds][i]) : SetWhere("MDS", i, "lma", v)
    <3>1. PICK v \in LmaOf(disk[Mds][i]) : SetWhere("MDS", i, "lma", v)
      BY <2>7
    <3>2. \A n \in Numbered("MDS", i) : [prop[n] EXCEPT !["lma"] = v] \in Properties
                                        /\ FromDisk(n, [prop[n] EXCEPT !["lma"] = v])
      BY <2>2, <2>4, <2>5, <1>1 DEF FromDisk, Properties
    <3> QED
      BY <3>1, <3>2, SetWhereKeeps
  <2>8. CASE \E v \in PfidOf(disk[Mds][i]) : SetWhere("MDS", i, "pfid", v)
    <3>1. PICK v \in PfidOf(disk[Mds][i]) : SetWhere("MDS", i, "pfid", v)
      BY <2>8
    <3>2. \A n \in Numbered("MDS", i) : [prop[n] EXCEPT !["pfid"] = v] \in Properties
                                        /\ FromDisk(n, [prop[n] EXCEPT !["pfid"] = v])
      BY <2>2, <2>4, <2>5, <1>1 DEF FromDisk, Properties
    <3> QED
      BY <3>1, <3>2, SetWhereKeeps
  <2>9. CASE \E v \in LovOidOf(disk[Mds][i]) : SetWhere("MDS", i, "ost_oid", v)
    <3>1. PICK v \in LovOidOf(disk[Mds][i]) : SetWhere("MDS", i, "ost_oid", v)
      BY <2>9
    <3>2. \A n \in Numbered("MDS", i) : [prop[n] EXCEPT !["ost_oid"] = v] \in Properties
                                        /\ FromDisk(n, [prop[n] EXCEPT !["ost_oid"] = v])
      BY <2>2, <2>4, <2>5, <1>1 DEF FromDisk, Properties
    <3> QED
      BY <3>1, <3>2, SetWhereKeeps
  <2> QED
    BY <2>1, <2>6, <2>7, <2>8, <2>9
<1>3. ASSUME NEW o \in Osts, OssStatements(o)
      PROVE  DbInv'
  <2>1. PICK i \in Lustre(o) :
          \/ \E v \in TypeOf(disk[o][i]) : SetWhere("OSS", i, "inode_type", v)
          \/ \E v \in LmaOf(disk[o][i]) : SetWhere("OSS", i, "lma", v)
          \/ \E v \in FoidOf(disk[o][i]) : SetWhere("OSS", i, "f_oid", v)
          \/ \E v \in FfidOf(disk[o][i]) : SetWhere("OSS", i, "fid", v)
    BY <1>3 DEF OssStatements
  <2>2. \A n \in Numbered("OSS", i) :
          /\ n \in Node /\ n.srv \in Osts /\ n.srv # Mds
          /\ n.inode_number = i /\ i \in Lustre(n.srv)
    BY <1>1, Labels, ServersAssumption DEF Numbered, Labelled, DbInv, NodesInv
  <2>3. \A n \in Numbered("OSS", i) : DisjointNumbers => SlotOf(n) = disk[o][i]
    BY <2>2 DEF DisjointNumbers, SlotOf
  <2>4. disk[o][i] \in Slot
    BY ScannedSlot DEF Lustre, Servers
  <2>5. /\ LmaOf(disk[o][i]) \subseteq Fid /\ FfidOf(disk[o][i]) \subseteq Fid
        /\ FoidOf(disk[o][i]) \subseteq FOids
    BY <2>4, AttrTypes
  <2>6. CASE \E v \in TypeOf(disk[o][i]) : SetWhere("OSS", i, "inode_type", v)
    <3>1. PICK v \in TypeOf(disk[o][i]) : SetWhere("OSS", i, "inode_type", v)
      BY <2>6
    <3>2. \A n \in Numbered("OSS", i) : [prop[n] EXCEPT !["inode_type"] = v] \in Properties
                                        /\ FromDisk(n, [prop[n] EXCEPT !["inode_type"] = v])
      BY <3>1, <2>2, <2>3, <1>1 DEF FromDisk, Properties, TypeOf
    <3> QED
      BY <3>1, <3>2, SetWhereKeeps
  <2>7. CASE \E v \in LmaOf(disk[o][i]) : SetWhere("OSS", i, "lma", v)
    <3>1. PICK v \in LmaOf(disk[o][i]) : SetWhere("OSS", i, "lma", v)
      BY <2>7
    <3>2. \A n \in Numbered("OSS", i) : [prop[n] EXCEPT !["lma"] = v] \in Properties
                                        /\ FromDisk(n, [prop[n] EXCEPT !["lma"] = v])
      BY <2>2, <2>3, <2>5, <1>1 DEF FromDisk, Properties
    <3> QED
      BY <3>1, <3>2, SetWhereKeeps
  <2>8. CASE \E v \in FoidOf(disk[o][i]) : SetWhere("OSS", i, "f_oid", v)
    <3>1. PICK v \in FoidOf(disk[o][i]) : SetWhere("OSS", i, "f_oid", v)
      BY <2>8
    <3>2. \A n \in Numbered("OSS", i) : [prop[n] EXCEPT !["f_oid"] = v] \in Properties
                                        /\ FromDisk(n, [prop[n] EXCEPT !["f_oid"] = v])
      BY <2>2, <2>3, <2>5, <1>1 DEF FromDisk, Properties
    <3> QED
      BY <3>1, <3>2, SetWhereKeeps
  <2>9. CASE \E v \in FfidOf(disk[o][i]) : SetWhere("OSS", i, "fid", v)
    <3>1. PICK v \in FfidOf(disk[o][i]) : SetWhere("OSS", i, "fid", v)
      BY <2>9
    <3>2. \A n \in Numbered("OSS", i) : [prop[n] EXCEPT !["fid"] = v] \in Properties
                                        /\ FromDisk(n, [prop[n] EXCEPT !["fid"] = v])
      BY <2>2, <2>3, <2>5, <1>1 DEF FromDisk, Properties
    <3> QED
      BY <3>1, <3>2, SetWhereKeeps
  <2> QED
    BY <2>1, <2>6, <2>7, <2>8, <2>9
<1> QED
  BY <1>2, <1>3

LEMMA DiskStepKeeps ==
    ASSUME ScanInv, DbInv, UNCHANGED disk, DiskStep
    PROVE  DbInv'
<1>1. ASSUME nodes' \subseteq Node, \A n \in nodes' : n.inode_number \in Lustre(n.srv),
             UNCHANGED <<prop, rels>>, lost' \in 0 .. MaxLost
      PROVE  DbInv'
  <2>1. DbTypeOK' /\ NodesInv'
    BY <1>1, DiskFixed DEF DbInv, DbTypeOK, NodesInv
  <2>2. ParentEdgesSound' /\ ObjectEdgesSound'
    BY <1>1, DiskFixed DEF DbInv, ParentEdgesSound, ObjectEdgesSound, Links, Numbers
  <2> QED
    BY <2>1, <2>2 DEF DbInv
<1>2. /\ nodes \subseteq Node /\ lost \in 0 .. MaxLost
      /\ \A n \in nodes : n.inode_number \in Lustre(n.srv)
  BY DEF DbInv, DbTypeOK, NodesInv
<1>3. CASE UNCHANGED dbVars
  BY <1>1, <1>2, <1>3 DEF dbVars
<1>4. CASE Lose
  BY <1>1, <1>2, <1>4, BoundsAssumption DEF Lose
<1>5. CASE \E n \in Node : n.inode_number \in Lustre(n.srv) /\ Create(n)
  BY <1>1, <1>2, <1>5 DEF Create
<1> QED
  BY <1>3, <1>4, <1>5, SetsKeep, MergeKeeps DEF DiskStep

-----------------------------------------------------------------------------
(***************************************************************************)
(* The invariant and what follows from it.                                 *)
(***************************************************************************)
IInv == ScanInv /\ DbInv

LEMMA InitIInv == Init => IInv
<1> SUFFICES ASSUME Init PROVE IInv
  OBVIOUS
<1>1. TotalInodes \in [Servers -> Nat] /\ MaxRuns \in Nat /\ MaxLost \in Nat
  BY TotalInodesAssumption, BoundsAssumption
<1>2. \A s \in Servers : Idle \in ScannerState(s) /\ Located(s, Idle)
  BY <1>1 DEF Idle, ScannerState, Located, Pc, Stopped
<1>3. ScanInv
  BY <1>1, <1>2 DEF Init, MdsInit, OssInit, ScanInv, Servers
<1>4. NoProperties \in Properties /\ \A n \in Node : FromDisk(n, NoProperties)
  BY DEF NoProperties, Properties, FromDisk
<1>5. DbTypeOK /\ NodesInv
  BY <1>1, <1>4 DEF Init, MdsInit, DbInit, DbTypeOK, NodesInv
<1>6. ParentEdgesSound /\ ObjectEdgesSound
  BY DEF Init, MdsInit, DbInit, ParentEdgesSound, ObjectEdgesSound, Links
<1> QED
  BY <1>3, <1>5, <1>6 DEF IInv, DbInv

\* The devices do not change.
LEMMA NextDisk == [Next]_vars => UNCHANGED disk
  BY DEF vars, Next, MdsMoves, MdsStart, MdsStep, MdsInode, MdsType, MdsNextInode, MdsDone,
     MdsLma, MdsLink, MdsMerge, MdsLov, MdsOther, MdsKilled, OssMoves, OssStart, OssStep,
     OssInode, OssType, OssNextInode, OssScanned, OssLma, OssFoid, OssFid, OssMerge,
     OssOther, OssLov, OssDone, OssKilled

LEMMA NextIInv == IInv /\ [Next]_vars => IInv'
<1> SUFFICES ASSUME IInv, [Next]_vars PROVE IInv'
  OBVIOUS
<1>1. CASE Next
  <2>1. ScanInv' /\ DiskStep
    BY <1>1, MdsMovesStep, OssMovesStep DEF Next, IInv
  <2>2. UNCHANGED disk
    BY NextDisk
  <2> QED
    BY <2>1, <2>2, DiskStepKeeps DEF IInv
<1>2. CASE UNCHANGED vars
  <2>1. UNCHANGED <<disk, mds, oss, saw>> /\ UNCHANGED dbVars
    BY <1>2 DEF vars
  <2>2. ScanInv'
    BY <2>1 DEF IInv, ScanInv, Located, Lustre
  <2> QED
    BY <2>1, <2>2, DiskStepKeeps DEF IInv, DiskStep
<1> QED
  BY <1>1, <1>2

LEMMA SpecIInv == Spec => []IInv
  BY InitIInv, NextIInv, PTL DEF Spec

\* Every variable keeps its type, on every device, for any number of servers, runs
\* and lost statements.
THEOREM TypeCorrect == Spec => []TypeOK
<1>1. IInv => TypeOK
  BY DEF IInv, ScanInv, DbInv, TypeOK, MdsTypeOK, OssTypeOK
<1> QED
  BY <1>1, SpecIInv, PTL

\* No mds_parent_of relationship is ever made that the metadata device does not
\* attest, whatever scanners run, crash, overlap or lose (mds_src.c:282-289).
THEOREM ParentsSound == Spec => []ParentEdgesSound
<1>1. IInv => ParentEdgesSound
  BY DEF IInv, DbInv
<1> QED
  BY <1>1, SpecIInv, PTL

\* With inode numbers that tell the object servers apart, no OST_child_of
\* relationship is made that the devices do not attest, in any order of the scans,
\* and no LOV_parent_of relationship of a file whose printed id can only mean its
\* first object leads elsewhere (ost_src.c:277-284, 307-315).
THEOREM ObjectsSound == Spec => []ObjectEdgesSound
<1>1. IInv => ObjectEdgesSound
  BY DEF IInv, DbInv
<1> QED
  BY <1>1, SpecIInv, PTL

-----------------------------------------------------------------------------
(***************************************************************************)
(* Proofs that what is written stays: on well-formed devices a slot has at *)
(* most one value for each property, so a property that comes from its     *)
(* node's own slot (FromDisk) can only be SET to what it is, and the ends  *)
(* of a relationship go on agreeing.                                       *)
(***************************************************************************)
\* A node's properties other than its object id, none of them changed once set.
Kept(n) == \A key \in FidKeys : prop[n][key] # Null => prop'[n][key] = prop[n][key]

\* At most one value.
Single(S) == \A x, y \in S : x = y

\* A slot of a well-formed device has one value of each kind.
LEMMA OneOfEach ==
    ASSUME WellFormed, ScanInv, NEW s \in Servers, NEW i \in Lustre(s)
    PROVE  /\ Single(TypeOf(disk[s][i])) /\ Single(LmaOf(disk[s][i]))
           /\ Single(PfidOf(disk[s][i])) /\ Single(FfidOf(disk[s][i]))
           /\ Single(FoidOf(disk[s][i]))
<1> DEFINE slot == disk[s][i]
<1>1. i \in SlotNos(s)
  <2>1. TotalInodes[s] \in Nat
    BY TotalInodesAssumption
  <2> QED
    BY <2>1 DEF Lustre, ScannedSlots, SlotNos
<1>2. \A k, l \in DOMAIN slot.xattrs :
        slot.xattrs[k].name = slot.xattrs[l].name /\ slot.xattrs[k].name # "other" => k = l
  BY <1>1 DEF WellFormed
<1>3. ASSUME NEW name, name # "other"
      PROVE  Single(Attrs(slot, name))
  BY <1>2, <1>3 DEF Attrs, Single
<1>4. Single(Attrs(slot, "lma")) /\ Single(Attrs(slot, "link")) /\ Single(Attrs(slot, "fid"))
  BY <1>3
<1>5. Single(TypeOf(slot))
  BY DEF TypeOf, Single
<1>6. Single(LmaOf(slot)) /\ Single(FoidOf(slot))
  BY <1>4 DEF LmaOf, FoidOf, Single
<1>7. Single(PfidOf(slot)) /\ Single(FfidOf(slot))
  BY <1>4 DEF PfidOf, FfidOf, Single
<1> QED
  BY <1>5, <1>6, <1>7

\* A SET of the only value that its nodes may have keeps what they have.
LEMMA SetOnce ==
    ASSUME DbTypeOK, NEW label, NEW i, NEW S, NEW v \in S, Single(S),
           NEW key \in FidKeys, SetWhere(label, i, key, v),
           \A n \in Numbered(label, i) : prop[n][key] \in S \cup {Null}
    PROVE  \A n \in nodes : Kept(n)
<1> SUFFICES ASSUME NEW n \in nodes, NEW k \in FidKeys, prop[n][k] # Null
             PROVE  prop'[n][k] = prop[n][k]
  BY DEF Kept
<1>1. n \in Node
  BY DEF DbTypeOK
<1>2. prop'[n] = IF n \in Numbered(label, i) THEN [prop[n] EXCEPT ![key] = v] ELSE prop[n]
  BY <1>1 DEF SetWhere
<1>3. CASE n \in Numbered(label, i) /\ k = key
  <2>1. prop[n][key] \in S
    BY <1>3
  <2>2. prop[n][key] = v
    BY <2>1 DEF Single
  <2> QED
    BY <1>2, <1>3, <2>2
<1>4. CASE n \notin Numbered(label, i) \/ k # key
  BY <1>2, <1>4
<1> QED
  BY <1>3, <1>4

\* So does every step on devices that are well-formed and whose numbers are apart.
LEMMA StepKeeps ==
    ASSUME IInv, WellFormed, DisjointNumbers, DiskStep
    PROVE  \A n \in nodes : Kept(n)
<1>1. ScanInv /\ DbTypeOK /\ nodes \subseteq Node /\ \A n \in Node : FromDisk(n, prop[n])
  BY DEF IInv, DbInv, DbTypeOK, NodesInv
<1>2. ASSUME prop' = prop
      PROVE  \A n \in nodes : Kept(n)
  BY <1>2 DEF Kept
<1>3. CASE MdsStatements
  <2>1. PICK i \in Lustre(Mds) :
          \/ \E v \in TypeOf(disk[Mds][i]) : SetWhere("MDS", i, "inode_type", v)
          \/ \E v \in LmaOf(disk[Mds][i]) : SetWhere("MDS", i, "lma", v)
          \/ \E v \in PfidOf(disk[Mds][i]) : SetWhere("MDS", i, "pfid", v)
          \/ \E v \in LovOidOf(disk[Mds][i]) : SetWhere("MDS", i, "ost_oid", v)
    BY <1>3 DEF MdsStatements
  <2>2. \A n \in Numbered("MDS", i) :
          /\ prop[n].inode_type \in TypeOf(disk[Mds][i]) \cup {Null}
          /\ prop[n].lma \in LmaOf(disk[Mds][i]) \cup {Null}
          /\ prop[n].pfid \in PfidOf(disk[Mds][i]) \cup {Null}
    BY <1>1, Labels DEF Numbered, Labelled, FromDisk, SlotOf
  <2>3. /\ Single(TypeOf(disk[Mds][i])) /\ Single(LmaOf(disk[Mds][i]))
        /\ Single(PfidOf(disk[Mds][i]))
    BY <1>1, OneOfEach DEF Servers
  <2>4. CASE \E v \in TypeOf(disk[Mds][i]) : SetWhere("MDS", i, "inode_type", v)
    <3>1. PICK v \in TypeOf(disk[Mds][i]) : SetWhere("MDS", i, "inode_type", v)
      BY <2>4
    <3>2. \A n \in Numbered("MDS", i) : prop[n]["inode_type"] \in TypeOf(disk[Mds][i]) \cup {Null}
      BY <2>2
    <3>3. "inode_type" \in FidKeys
      BY DEF FidKeys
    <3> QED
      BY <1>1, <2>3, <3>1, <3>2, <3>3, SetOnce
  <2>5. CASE \E v \in LmaOf(disk[Mds][i]) : SetWhere("MDS", i, "lma", v)
    <3>1. PICK v \in LmaOf(disk[Mds][i]) : SetWhere("MDS", i, "lma", v)
      BY <2>5
    <3>2. \A n \in Numbered("MDS", i) : prop[n]["lma"] \in LmaOf(disk[Mds][i]) \cup {Null}
      BY <2>2
    <3>3. "lma" \in FidKeys
      BY DEF FidKeys
    <3> QED
      BY <1>1, <2>3, <3>1, <3>2, <3>3, SetOnce
  <2>6. CASE \E v \in PfidOf(disk[Mds][i]) : SetWhere("MDS", i, "pfid", v)
    <3>1. PICK v \in PfidOf(disk[Mds][i]) : SetWhere("MDS", i, "pfid", v)
      BY <2>6
    <3>2. \A n \in Numbered("MDS", i) : prop[n]["pfid"] \in PfidOf(disk[Mds][i]) \cup {Null}
      BY <2>2
    <3>3. "pfid" \in FidKeys
      BY DEF FidKeys
    <3> QED
      BY <1>1, <2>3, <3>1, <3>2, <3>3, SetOnce
  <2>7. CASE \E v \in LovOidOf(disk[Mds][i]) : SetWhere("MDS", i, "ost_oid", v)
    BY <1>1, <2>7 DEF SetWhere, Kept, FidKeys
  <2> QED
    BY <2>1, <2>4, <2>5, <2>6, <2>7
<1>4. ASSUME NEW o \in Osts, OssStatements(o)
      PROVE  \A n \in nodes : Kept(n)
  <2>1. PICK i \in Lustre(o) :
          \/ \E v \in TypeOf(disk[o][i]) : SetWhere("OSS", i, "inode_type", v)
          \/ \E v \in LmaOf(disk[o][i]) : SetWhere("OSS", i, "lma", v)
          \/ \E v \in FoidOf(disk[o][i]) : SetWhere("OSS", i, "f_oid", v)
          \/ \E v \in FfidOf(disk[o][i]) : SetWhere("OSS", i, "fid", v)
    BY <1>4 DEF OssStatements
  <2>2. \A n \in Numbered("OSS", i) : n \in Node /\ n.srv \in Osts /\ SlotOf(n) = disk[o][i]
    BY <1>1, Labels DEF Numbered, Labelled, SlotOf, IInv, DbInv, NodesInv, DisjointNumbers
  <2>3. \A n \in Numbered("OSS", i) :
          /\ prop[n].inode_type \in TypeOf(disk[o][i]) \cup {Null}
          /\ prop[n].lma \in LmaOf(disk[o][i]) \cup {Null}
          /\ prop[n].f_oid \in FoidOf(disk[o][i]) \cup {Null}
          /\ prop[n].fid \in FfidOf(disk[o][i]) \cup {Null}
    BY <1>1, <2>2 DEF FromDisk
  <2>4. /\ Single(TypeOf(disk[o][i])) /\ Single(LmaOf(disk[o][i]))
        /\ Single(FoidOf(disk[o][i])) /\ Single(FfidOf(disk[o][i]))
    BY <1>1, OneOfEach DEF Servers
  <2>5. CASE \E v \in TypeOf(disk[o][i]) : SetWhere("OSS", i, "inode_type", v)
    <3>1. PICK v \in TypeOf(disk[o][i]) : SetWhere("OSS", i, "inode_type", v)
      BY <2>5
    <3>2. \A n \in Numbered("OSS", i) : prop[n]["inode_type"] \in TypeOf(disk[o][i]) \cup {Null}
      BY <2>3
    <3>3. "inode_type" \in FidKeys
      BY DEF FidKeys
    <3> QED
      BY <1>1, <2>4, <3>1, <3>2, <3>3, SetOnce
  <2>6. CASE \E v \in LmaOf(disk[o][i]) : SetWhere("OSS", i, "lma", v)
    <3>1. PICK v \in LmaOf(disk[o][i]) : SetWhere("OSS", i, "lma", v)
      BY <2>6
    <3>2. \A n \in Numbered("OSS", i) : prop[n]["lma"] \in LmaOf(disk[o][i]) \cup {Null}
      BY <2>3
    <3>3. "lma" \in FidKeys
      BY DEF FidKeys
    <3> QED
      BY <1>1, <2>4, <3>1, <3>2, <3>3, SetOnce
  <2>7. CASE \E v \in FoidOf(disk[o][i]) : SetWhere("OSS", i, "f_oid", v)
    <3>1. PICK v \in FoidOf(disk[o][i]) : SetWhere("OSS", i, "f_oid", v)
      BY <2>7
    <3>2. \A n \in Numbered("OSS", i) : prop[n]["f_oid"] \in FoidOf(disk[o][i]) \cup {Null}
      BY <2>3
    <3>3. "f_oid" \in FidKeys
      BY DEF FidKeys
    <3> QED
      BY <1>1, <2>4, <3>1, <3>2, <3>3, SetOnce
  <2>8. CASE \E v \in FfidOf(disk[o][i]) : SetWhere("OSS", i, "fid", v)
    <3>1. PICK v \in FfidOf(disk[o][i]) : SetWhere("OSS", i, "fid", v)
      BY <2>8
    <3>2. \A n \in Numbered("OSS", i) : prop[n]["fid"] \in FfidOf(disk[o][i]) \cup {Null}
      BY <2>3
    <3>3. "fid" \in FidKeys
      BY DEF FidKeys
    <3> QED
      BY <1>1, <2>4, <3>1, <3>2, <3>3, SetOnce
  <2> QED
    BY <2>1, <2>5, <2>6, <2>7, <2>8
<1>5. CASE MergeParents \/ MergeStripes \/ \E j \in Nat : MergeLov(j)
  BY <1>1, <1>2, <1>5, NewRelationships
<1>6. CASE UNCHANGED dbVars \/ Lose \/ \E n \in Node : Create(n)
  BY <1>2, <1>6 DEF dbVars, Lose, Create
<1> QED
  BY <1>3, <1>4, <1>5, <1>6 DEF DiskStep

\* Every step of the specification is a step on the graph of that kind.
LEMMA NextDiskStep == IInv /\ [Next]_vars => DiskStep /\ UNCHANGED disk
<1> SUFFICES ASSUME IInv, [Next]_vars PROVE DiskStep /\ UNCHANGED disk
  OBVIOUS
<1>1. CASE Next
  BY <1>1, MdsMovesStep, OssMovesStep, NextDisk DEF Next, IInv
<1>2. CASE UNCHANGED vars
  BY <1>2 DEF vars, DiskStep
<1> QED
  BY <1>1, <1>2

\* Nothing a scanner has written is ever overwritten with something else: on
\* well-formed devices whose inode numbers are apart, every later run, kill,
\* overlap and lost statement leaves it as it is (mds_src.c:256, ost_src.c:246).
THEOREM NothingOverwritten == Spec => WrittenOnce
<1>1. IInv /\ [Next]_vars =>
        [WellFormed /\ DisjointNumbers =>
           \A n \in nodes, key \in FidKeys :
             prop[n][key] # Null => prop'[n][key] = prop[n][key]]_vars
  BY NextDiskStep, StepKeeps DEF Kept
<1> QED
  BY <1>1, SpecIInv, PTL DEF Spec, WrittenOnce

-----------------------------------------------------------------------------
\* The merge that made a relationship could have made it now.
AgreeInv == IInv /\ EdgesAgree

LEMMA InitAgree == Init => AgreeInv
<1>1. Init => EdgesAgree
  BY DEF Init, MdsInit, DbInit, EdgesAgree
<1> QED
  BY <1>1, InitIInv DEF AgreeInv

LEMMA NextAgree == AgreeInv /\ [Next]_vars => AgreeInv'
<1> SUFFICES ASSUME IInv, EdgesAgree, [Next]_vars,
                    WellFormed', DisjointNumbers', NEW r \in rels'
             PROVE  /\ {r.from, r.to} \subseteq nodes'
                    /\ r.type = "mds_parent_of" => SameValue(r.from, "lma", r.to, "pfid")'
                    /\ r.type = "OST_child_of" => SameValue(r.from, "fid", r.to, "lma")'
  BY NextIInv DEF AgreeInv, EdgesAgree
<1>1. DiskStep /\ UNCHANGED disk /\ DbTypeOK
  BY NextDiskStep DEF IInv, DbInv
<1>2. WellFormed /\ DisjointNumbers
  BY <1>1 DEF WellFormed, DisjointNumbers, Lustre
<1>3. \A n \in nodes : Kept(n)
  BY <1>1, <1>2, StepKeeps
<1>4. \A n, p, k, l : n \in nodes /\ p \in nodes /\ k \in FidKeys /\ l \in FidKeys
                        /\ SameValue(n, k, p, l) => SameValue(n, k, p, l)'
  BY <1>3 DEF Kept, SameValue
<1>5. nodes \subseteq nodes'
  BY <1>1, NewRelationships DEF DiskStep, dbVars, Lose, Create, MdsStatements, OssStatements,
     SetWhere
<1>6. CASE r \in rels
  <2>1. /\ {r.from, r.to} \subseteq nodes
        /\ r.type = "mds_parent_of" => SameValue(r.from, "lma", r.to, "pfid")
        /\ r.type = "OST_child_of" => SameValue(r.from, "fid", r.to, "lma")
    BY <1>2, <1>6 DEF EdgesAgree
  <2> QED
    BY <2>1, <1>4, <1>5 DEF FidKeys
<1>7. CASE r \notin rels
  <2>1. MergeParents \/ MergeStripes \/ \E j \in Nat : MergeLov(j)
    BY <1>1, <1>7 DEF DiskStep, dbVars, Lose, Create, MdsStatements, OssStatements, SetWhere
  <2>2. /\ r.from \in nodes /\ r.to \in nodes
        /\ r.type = "mds_parent_of" => SameValue(r.from, "lma", r.to, "pfid")
        /\ r.type = "OST_child_of" => SameValue(r.from, "fid", r.to, "lma")
    BY <2>1, <1>1, <1>7, NewRelationships
  <2> QED
    BY <2>2, <1>4, <1>5 DEF FidKeys
<1> QED
  BY <1>6, <1>7

\* The ends of a relationship exist and go on agreeing on what it was merged on,
\* whatever is SET or merged afterwards (mds_src.c:287, ost_src.c:282).
THEOREM RelationshipsAgree == Spec => []EdgesAgree
<1>1. AgreeInv => EdgesAgree
  BY DEF AgreeInv
<1> QED
  BY <1>1, InitAgree, NextAgree, PTL DEF Spec

=============================================================================
