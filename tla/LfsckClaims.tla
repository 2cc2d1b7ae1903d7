---------------------------- MODULE LfsckClaims ----------------------------
(***************************************************************************)
(* What comments and the design notes of the repository say of the check   *)
(* and the code does not do.  Each run of MCClaims refutes one of these.   *)
(***************************************************************************)
EXTENDS Lfsck

\* Both scans ended with every statement executed.
BothClean(o) ==
    /\ mds.pc = "done" /\ mds.clean
    /\ oss[o].pc = "done" /\ oss[o].clean

\* ost_src.c:310 "create the LOV_parent relationship from MDS to OSS when MDS.Lov
\* = OSS.LMA": once both scans are over.  Violated when they run side by side: the
\* metadata scan sets ost_oid after the object scan's only look at that number.
LovParentCreated ==
    \A o \in Osts : BothClean(o) =>
      \A a \in Labelled("MDS"), b \in Labelled("OSS") :
        a.inode_number <= mds_total_inodes /\ SameValue(a, "ost_oid", b, "f_oid") =>
          [type |-> "LOV_parent_of", from |-> a, to |-> b] \in rels

\* The objects a plain layout names.
StripesOf(slot) ==
    UNION {{x.lmm_objects[k] : k \in DOMAIN x.lmm_objects} : x \in Attrs(slot, "lov")}

\* Node n of an object server is the object a layout names.
IsObject(n, object) ==
    /\ n.srv = object.l_ost_idx
    /\ \E x \in Attrs(SlotOf(n), "lma") : x.lma_self_fid.f_oid = object.oi_id

\* neo4j_pseudo.c:23 "use ost_id and object_id to locate an unique ost object":
\* a LOV_parent_of relationship leads to an object the file's layout names.  Violated
\* with two servers: ost_src.c:311 joins by the id alone, and ids are per server.
LovEdgesAreObjects ==
    \A r \in Links("LOV_parent_of") :
      \E object \in StripesOf(SlotOf(r.from)) : IsObject(r.to, object)

=============================================================================
