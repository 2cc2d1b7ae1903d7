------------------------------- MODULE Lfsck -------------------------------
(***************************************************************************)
(* The whole check: the metadata scanner and one object scanner per object *)
(* storage server, writing to one graph database.                          *)
(***************************************************************************)
EXTENDS MdsScan, OstScan

CONSTANT Sequential   \* whether the operator waits for the metadata scan to
                      \* end before object scans, and for those before another

VARIABLE saw          \* history: the metadata run each object scan found done
                      \* and clean when it started, 0 if none

vars == <<disk, dbVars, mds, oss, saw>>

TypeOK ==
    /\ MdsTypeOK
    /\ OssTypeOK
    /\ saw \in [Osts -> 0 .. MaxRuns]

Init ==
    /\ MdsInit
    /\ OssInit
    /\ saw = [o \in Osts |-> 0]

MdsMoves ==
    /\ \/ /\ Sequential => \A o \in Osts : oss[o].pc \in Stopped
          /\ MdsStart
       \/ MdsStep
       \/ MdsKilled
    /\ UNCHANGED <<oss, saw>>

OssMoves(o) ==
    /\ \/ /\ Sequential => mds.pc = "done"
          /\ OssStart(o)
          /\ saw' = [saw EXCEPT ![o] =
                       IF mds.pc = "done" /\ mds.clean THEN mds.run ELSE 0]
       \/ (OssStep(o) \/ OssKilled(o)) /\ UNCHANGED saw
    /\ UNCHANGED mds

Next == MdsMoves \/ \E o \in Osts : OssMoves(o)

\* Each scanner is a process of its own, which the system keeps scheduling;
\* nothing makes anybody start one.
Fairness == WF_vars(MdsStep /\ UNCHANGED <<oss, saw>>)
            /\ \A o \in Osts : WF_vars(OssStep(o) /\ UNCHANGED <<mds, saw>>)

Spec == Init /\ [][Next]_vars /\ Fairness

-----------------------------------------------------------------------------
(***************************************************************************)
(* What the images say.                                                    *)
(***************************************************************************)

\* The slot a node was created from, and the slots that get a node.
SlotOf(n) == disk[n.srv][n.inode_number]
Lustre(s) == {i \in ScannedSlots(s) : disk[s][i].h_magic}

\* Inode i of the metadata server is the (first) parent of inode j.
AttestedParents ==
    {ij \in Lustre(Mds) \X Lustre(Mds) :
        LmaOf(disk[Mds][ij[1]]) \cap PfidOf(disk[Mds][ij[2]]) # {}}

\* Inode i of object server o names metadata inode j as the file it is part of.
AttestedStripes(o) ==
    {ij \in Lustre(o) \X Lustre(Mds) :
        FfidOf(disk[o][ij[1]]) \cap LmaOf(disk[Mds][ij[2]]) # {}}

\* The first objects that the plain layouts of a slot name.
FirstOf(slot) ==
    {x.lmm_objects[1] : x \in {y \in Attrs(slot, "lov") :
                                 y.lmm_magic = "v1" /\ y.lmm_objects # <<>>}}

\* Inode j of o is the first object of metadata inode i: on that server, and of
\* that id, all of whose 64 bits count.
AttestedLov(o) ==
    {ij \in Lustre(Mds) \X Lustre(o) :
        \E object \in FirstOf(disk[Mds][ij[1]]) :
          object.l_ost_idx = o /\ object.oi_id \in FoidOf(disk[o][ij[2]])}

\* What is printed of metadata inode i's lov xattr, which is all that the join
\* goes by, can only mean its first object: the layout is plain, the id has no
\* more than 32 bits, and no other server that is scanned uses it.
Locatable(i) ==
    \A x \in Attrs(disk[Mds][i], "lov") :
      /\ x.lmm_magic = "v1" /\ x.lmm_objects # <<>>
      /\ x.lmm_objects[1].oi_id < OidLimit
      /\ \A o \in Osts \ {x.lmm_objects[1].l_ost_idx} : \A j \in Lustre(o) :
           Printed(x.lmm_objects[1].oi_id) \notin FoidOf(disk[o][j])

\* No two xattrs of a slot of the same kind (ldiskfs never stores two of one
\* name), and every link value good.
WellFormed ==
    \A s \in Servers : \A i \in SlotNos(s) :
      LET xs == disk[s][i].xattrs
      IN  /\ \A k, l \in DOMAIN xs : xs[k].name = xs[l].name /\ xs[k].name # "other" => k = l
          /\ \A k \in DOMAIN xs : xs[k].name = "link" => xs[k].good_magic

\* Where in a table the xattrs of a name are, in the order of a scan.
Positions(s, name) ==
    UNION {{i} \X {k \in DOMAIN disk[s][i].xattrs : disk[s][i].xattrs[k].name = name} :
             i \in Lustre(s)}
Before(p, q) == p[1] < q[1] \/ (p[1] = q[1] /\ p[2] < q[2])

\* A link xattr comes after the lma of every inode that has children: the merge
\* at it, or at a later one, sees the lma.
LinkAfterLma ==
    \A ij \in AttestedParents : \A p \in Positions(Mds, "lma") :
      p[1] = ij[1] => \E q \in Positions(Mds, "link") : Before(p, q)

\* No inode number is in use on two object servers.
DisjointNumbers == \A o, p \in Osts : o # p => Lustre(o) \cap Lustre(p) = {}

\* Those that the last loop of an object scan can tell from what is printed.
DefiniteLov(o) ==
    {ij \in AttestedLov(o) : Locatable(ij[1]) /\ ij[1] <= mds_total_inodes}

-----------------------------------------------------------------------------
(***************************************************************************)
(* Properties.                                                             *)
(***************************************************************************)
Links(type) == {r \in rels : r.type = type}
Numbers(r) == <<r.from.inode_number, r.to.inode_number>>

\* No parent is made up: however often the scanners run, crash, overlap and lose
\* statements, every mds_parent_of relationship joins two metadata inodes the
\* second of which names the first as its parent on disk (mds_src.c:286).
ParentEdgesSound ==
    \A r \in Links("mds_parent_of") :
      r.from.srv = Mds /\ r.to.srv = Mds /\ Numbers(r) \in AttestedParents

\* No OST_child_of relationship is made up either, as long as no two object
\* servers use one inode number, and no LOV_parent_of relationship of a file
\* whose printed id can only mean its first object: it leads to the inode of that
\* id on that server.  The statements of ost_src.c name an inode number, or an
\* id's low half, and never the server (ost_src.c:246, 281, 311).
ObjectEdgesSound ==
    DisjointNumbers =>
      /\ \A r \in Links("OST_child_of") :
           /\ r.from.srv \in Osts /\ r.to.srv = Mds
           /\ Numbers(r) \in AttestedStripes(r.from.srv)
      /\ \A r \in Links("LOV_parent_of") :
           /\ r.from.srv = Mds /\ r.to.srv \in Osts
           /\ Locatable(r.from.inode_number) => Numbers(r) \in AttestedLov(r.to.srv)

\* A metadata scan that ends in done with every statement executed leaves no
\* parent unlinked, for the nodes of earlier, crashed or lossy runs as well: a
\* re-run repairs them, because SET and merge work on every node of a number.
ParentsComplete ==
    WellFormed /\ LinkAfterLma /\ mds.pc = "done" /\ mds.clean =>
      \A a, b \in Labelled("MDS") :
        <<a.inode_number, b.inode_number>> \in AttestedParents =>
          [type |-> "mds_parent_of", from |-> a, to |-> b] \in rels

\* Object scan o ended clean, over what a clean metadata scan had left.
OssComplete(o) ==
    /\ oss[o].pc = "done" /\ oss[o].clean
    /\ saw[o] # 0 /\ saw[o] = mds.run

\* After a clean metadata scan and a clean object scan begun after it, each
\* object is linked to its file and each file, up to number mds_total_inodes,
\* to the first object its printed id means, for the nodes of earlier runs as
\* well (ost_src.c:281, 311).
ObjectsComplete ==
    WellFormed /\ DisjointNumbers =>
      \A o \in Osts : OssComplete(o) =>
        \A a \in Labelled("MDS"), b \in {n \in nodes : n.srv = o} :
          /\ <<b.inode_number, a.inode_number>> \in AttestedStripes(o) =>
               [type |-> "OST_child_of", from |-> b, to |-> a] \in rels
          /\ <<a.inode_number, b.inode_number>> \in DefiniteLov(o) =>
               [type |-> "LOV_parent_of", from |-> a, to |-> b] \in rels

\* The one value of a set of at most one, Null when there is none.
OnlyOf(S) == IF S = {} THEN Null ELSE CHOOSE v \in S : TRUE

\* A clean scan leaves one node of its own for every inode with xattrs, and on
\* that node, as on those of earlier runs, exactly the values on the disk.
NodesFaithful ==
    WellFormed /\ DisjointNumbers =>
      \A s \in Servers :
        LET scan == IF s = Mds THEN mds ELSE oss[s]
        IN  scan.pc = "done" /\ scan.clean =>
              /\ {n.inode_number : n \in {m \in nodes : m.srv = s /\ m.run = scan.run}}
                   = Lustre(s)
              /\ \A n \in {m \in nodes : m.srv = s} :
                   /\ prop[n].lma = OnlyOf(LmaOf(SlotOf(n)))
                   /\ prop[n].pfid = IF s = Mds THEN OnlyOf(PfidOf(SlotOf(n))) ELSE Null
                   /\ prop[n].fid = IF s = Mds THEN Null ELSE OnlyOf(FfidOf(SlotOf(n)))
                   /\ prop[n].f_oid = IF s = Mds THEN Null ELSE OnlyOf(FoidOf(SlotOf(n)))

\* A scanner never overwrites what an earlier run, another scanner or itself has
\* written with something else: runs are repeatable (mds_src.c:256, ost_src.c:246).
FidKeys == {"lma", "pfid", "fid", "f_oid", "inode_type"}
WrittenOnce ==
    [][WellFormed /\ DisjointNumbers =>
         \A n \in nodes, key \in FidKeys :
           prop[n][key] # Null => prop'[n][key] = prop[n][key]]_vars

\* A relationship joins nodes that exist and still agree on the properties it was
\* merged on, whatever was SET since (mds_src.c:287, ost_src.c:282).
EdgesAgree ==
    WellFormed /\ DisjointNumbers =>
      \A r \in rels :
        /\ {r.from, r.to} \subseteq nodes
        /\ r.type = "mds_parent_of" => SameValue(r.from, "lma", r.to, "pfid")
        /\ r.type = "OST_child_of" => SameValue(r.from, "fid", r.to, "lma")

\* A scanner that runs comes to an end, however its statements fare, unless it
\* is caught in a directory block whose walk never ends (mds_src.c:188-198).
ScansEnd ==
    /\ mds.pc \notin Stopped ~> mds.pc \in Stopped \cup {"spin"}
    /\ \A o \in Osts : oss[o].pc \notin Stopped ~> oss[o].pc \in Stopped \cup {"spin"}

-----------------------------------------------------------------------------
(***************************************************************************)
(* Refinement: the links of each kind, nodes of one inode taken together,  *)
(* are a LinkGraph, on well-formed devices.                                *)
(***************************************************************************)
ParentGraph == INSTANCE LinkGraph WITH
    Pairs <- Nat \X Nat, attested <- AttestedParents,
    links <- {Numbers(r) : r \in Links("mds_parent_of")},
    published <- WellFormed /\ LinkAfterLma /\ mds.pc = "done" /\ mds.clean

\* The parents of the metadata server are delivered by its scanner as LinkGraph
\* promises: none made up, none withdrawn, none missing when a clean scan ends.
ParentsRefine == ParentGraph!Spec

\* The links of all object servers, each with its server.
OnServer(o, pairs) == {<<o, ij[1], ij[2]>> : ij \in pairs}
AllComplete == \A o \in Osts : OssComplete(o)

StripeGraph == INSTANCE LinkGraph WITH
    Pairs <- Osts \X Nat \X Nat,
    attested <- UNION {OnServer(o, AttestedStripes(o)) : o \in Osts},
    links <- {<<r.from.srv, Numbers(r)[1], Numbers(r)[2]>> : r \in Links("OST_child_of")},
    published <- AllComplete

\* So are the links from objects to files (ost_src.c:281), published when every
\* object scan has ended clean over what a clean metadata scan left ...
StripesRefine == StripeGraph!Spec

LovGraph == INSTANCE LinkGraph WITH
    Pairs <- Osts \X Nat \X Nat,
    attested <- UNION {OnServer(o, DefiniteLov(o)) : o \in Osts},
    links <- {<<r.to.srv, Numbers(r)[1], Numbers(r)[2]>> :
                r \in {q \in Links("LOV_parent_of") : Locatable(q.from.inode_number)}},
    published <- AllComplete

\* ... and those from the files whose printed id can only mean their first object
\* to that object (ost_src.c:307-315).
LovRefines == LovGraph!Spec

=============================================================================
