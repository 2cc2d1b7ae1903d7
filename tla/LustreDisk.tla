----------------------------- MODULE LustreDisk -----------------------------
(***************************************************************************)
(* What a scanner finds on an unmounted ldiskfs device: the inode table of *)
(* every server, slot by slot, and the extended attributes in each slot.   *)
(* Device bytes are abstracted to what the scanners tell apart: the header *)
(* magic, the file type and, for each xattr whose name starts with one of  *)
(* the prefixes the code compares, the fields it goes on to print into a   *)
(* graph statement.                                                        *)
(***************************************************************************)
EXTENDS Naturals, Sequences

CONSTANTS
    Mds,          \* the metadata server
    Osts,         \* the object storage servers that are scanned
    AllOsts,      \* those a lov xattr may name
    TotalInodes,  \* s_inodes_count of each server's superblock
    Disks,        \* the device images the system may be started on
    FSeqs, FOids, FVers, \* the values of the three fields of a struct lu_fid
    OiIds,        \* the values of oi_id, which has 64 bits
    OidLimit      \* 2^32: what '%x' prints, and what f_oid holds, is below it

Servers == {Mds} \cup Osts

\* struct lu_fid in CPU byte order, and the 16 big-endian bytes of one.
Fid   == [f_seq: FSeqs, f_oid: FOids, f_ver: FVers]
BeFid == [be: Fid]

\* The value a big-endian FID has once its three fields are swapped.
fid_be_to_cpu(src) == src.be

(***************************************************************************)
(* Extended attributes, by the name prefix the code matches.  A link value *)
(* holds one parent for each hard link.  A lov value is a plain layout     *)
(* ("v1"), a layout with a pool name ("v3") or a composite one ("comp");   *)
(* word is what lies in the value where a plain layout has its first       *)
(* object: the pool name, or the lcme_id of the first component.           *)
(***************************************************************************)
LmaAttr   == [name: {"lma"}, lma_self_fid: Fid]
LinkAttr  == [name: {"link"}, good_magic: {TRUE}, lee_parent_fid: Seq(BeFid) \ {<<>>}]
               \cup [name: {"link"}, good_magic: {FALSE}]
LovObject == [l_ost_idx: AllOsts, oi_seq: FSeqs, oi_id: OiIds]
LovAttr   == [name: {"lov"}, lmm_magic: {"v1"}, lmm_objects: Seq(LovObject)]
               \cup [name: {"lov"}, lmm_magic: {"v3", "comp"},
                     lmm_objects: Seq(LovObject), word: FOids]
FidAttr   == [name: {"fid"}, ff_parent: Fid]
OtherAttr == [name: {"other"}]
Xattr     == LmaAttr \cup LinkAttr \cup LovAttr \cup FidAttr \cup OtherAttr

\* One slot of an inode table.  dir_spins: the walk of the directory's first
\* block meets a live entry with rec_len 0 and never advances.
Slot == [h_magic: BOOLEAN, i_mode: {"dir", "reg", "other"}, dir_spins: BOOLEAN,
         xattrs: Seq(Xattr)]

\* Slot 0 holds inode 1; slot TotalInodes is the first one past the table.
SlotNos(s) == 0 .. TotalInodes[s]

ASSUME TotalInodesAssumption == TotalInodes \in [Servers -> Nat]
ASSUME ServersAssumption == Mds \notin Osts /\ Osts \subseteq AllOsts
ASSUME WidthAssumption ==
    /\ OidLimit \in Nat \ {0} /\ OiIds \subseteq Nat
    /\ FOids \subseteq 0 .. OidLimit - 1
    /\ \A id \in OiIds : id % OidLimit \in FOids
ASSUME DisksAssumption ==
    \A d \in Disks : \A s \in Servers : d[s] \in [SlotNos(s) -> Slot]

-----------------------------------------------------------------------------
(***************************************************************************)
(* What one xattr makes a scanner write.                                   *)
(***************************************************************************)

\* An oi_id printed with '%x': its low 32 bits.
Printed(id) == id % OidLimit

\* What the code prints for a lov value: the id in lmm_objects[0] of a plain
\* layout; the bytes at that offset for the others; past the end of the value,
\* anything, when the layout has no object (a directory's default layout).
FirstObject(x) ==
    IF x.lmm_magic # "v1"      THEN {x.word}
    ELSE IF x.lmm_objects = <<>> THEN FOids
    ELSE {Printed(x.lmm_objects[1].oi_id)}

\* The attributes of a slot that bear a name, and what they say.
Attrs(slot, name) == {x \in {slot.xattrs[k] : k \in DOMAIN slot.xattrs} : x.name = name}
LmaOf(slot)   == {x.lma_self_fid : x \in Attrs(slot, "lma")}
PfidOf(slot)  == {fid_be_to_cpu(x.lee_parent_fid[1]) :
                     x \in {y \in Attrs(slot, "link") : y.good_magic}}
LovOidOf(slot) == UNION {FirstObject(x) : x \in Attrs(slot, "lov")}
FfidOf(slot)  == {x.ff_parent : x \in Attrs(slot, "fid")}
FoidOf(slot)  == {x.lma_self_fid.f_oid : x \in Attrs(slot, "lma")}

\* The slots a scan of server s visits.
ScannedSlots(s) == 1 .. TotalInodes[s]

=============================================================================
