--------------------------- MODULE LfsckComplete ---------------------------
(***************************************************************************)
(* Proofs that nothing is missing.  The argument: a scan that has lost no  *)
(* statement has, for every slot and entry behind it, created its node and *)
(* set what the entry says on every node of the slot (Progress), and a     *)
(* property once set stays set.  A merge that comes after two entries then *)
(* relates every pair of nodes they make agree (ParentProgress and the     *)
(* like), and at the end of a scan every entry is behind it.               *)
(***************************************************************************)
EXTENDS LfsckProofs

\* A scan that is under way or done, every statement of which took effect.
Sure(scan) == scan.clean /\ scan.pc \notin {"idle", "exited", "killed"}

\* Entry k of slot i is behind the scan.
Past(scan, i, k) ==
    \/ i < scan.i
    \/ i = scan.i /\ k < scan.k /\ scan.pc \in {"xattr", "merge", "f_oid"}

\* Slot i has got its node.
Entered(scan, i) ==
    \/ i < scan.i
    \/ i = scan.i /\ scan.pc \in {"type", "spin", "xattr", "merge", "f_oid"}

\* The properties that an entry of a name sets.
KeysOf(s, name) ==
    {key \in {"lma", "pfid", "ost_oid", "f_oid", "fid"} :
       \/ name = "lma" /\ (key = "lma" \/ (key = "f_oid" /\ s # Mds))
       \/ s = Mds /\ name = "link" /\ key = "pfid"
       \/ s = Mds /\ name = "lov" /\ key = "ost_oid"
       \/ s # Mds /\ name = "fid" /\ key = "fid"}

Entry(s, i, k) == disk[s][i].xattrs[k]
Entries(s, i) == DOMAIN disk[s][i].xattrs
NodesOf(s, i) == {n \in nodes : n.srv = s /\ n.inode_number = i}
Have(s, i, keys) == \A n \in NodesOf(s, i), key \in keys : prop[n][key] # Null

\* What a scan of s that is sure has done.
Created(s, scan) ==
    \A i \in Lustre(s) : Entered(scan, i) =>
      [srv |-> s, run |-> scan.run, inode_number |-> i] \in nodes
Written(s, scan) ==
    \A i \in Lustre(s) : \A k \in Entries(s, i) :
      Past(scan, i, k) => Have(s, i, KeysOf(s, Entry(s, i, k).name))
Halfway(s, scan) ==
    /\ scan.pc = "merge" =>
         /\ scan.k \in Entries(s, scan.i)
         /\ Entry(s, scan.i, scan.k).name = IF s = Mds THEN "link" ELSE "fid"
         /\ Have(s, scan.i, KeysOf(s, Entry(s, scan.i, scan.k).name))
    /\ scan.pc = "f_oid" => Have(s, scan.i, {"lma"})
Progress(s, scan) == Sure(scan) => Created(s, scan) /\ Written(s, scan) /\ Halfway(s, scan)

\* The walk of the inode table is over when the scan is.
Ended(s, scan) ==
    /\ scan.pc \in {"lov", "done"} => scan.i = TotalInodes[s] + 1
    /\ s # Mds /\ scan.pc = "done" => scan.j > mds_total_inodes

\* No scanner of the one kind sets what the other kind's nodes have.
Foreign ==
    \A n \in Node : /\ n.srv = Mds => prop[n].fid = Null /\ prop[n].f_oid = Null
                    /\ n.srv # Mds => prop[n].pfid = Null

\* Every pair of a parent and a child whose entries a merge has come after.
MdsEdge(a, b) == [type |-> "mds_parent_of", from |-> a, to |-> b]
ParentProgress ==
    WellFormed /\ Sure(mds) =>
      \A q \in Positions(Mds, "link") : Past(mds, q[1], q[2]) =>
        \A a, b \in Labelled("MDS") :
          \A p \in Positions(Mds, "lma"), r \in Positions(Mds, "link") :
            /\ p[1] = a.inode_number /\ r[1] = b.inode_number
            /\ Before(p, q) /\ ~Before(q, r)
            /\ <<a.inode_number, b.inode_number>> \in AttestedParents
            => MdsEdge(a, b) \in rels

\* Object scan o has begun after a clean metadata scan, and none has begun since.
After(o) == saw[o] # 0 /\ saw[o] = mds.run
SawInv == \A o \in Osts : /\ saw[o] <= mds.run
                          /\ After(o) => mds.pc = "done" /\ mds.clean

StripeProgress(o) ==
    WellFormed /\ DisjointNumbers /\ Sure(oss[o]) /\ After(o) =>
      \A i \in Lustre(o) : \A k \in Entries(o, i) :
        Entry(o, i, k).name = "fid" /\ Past(oss[o], i, k) =>
          \A b \in NodesOf(o, i), a \in Labelled("MDS") :
            <<i, a.inode_number>> \in AttestedStripes(o) =>
              [type |-> "OST_child_of", from |-> b, to |-> a] \in rels

LovProgress(o) ==
    WellFormed /\ DisjointNumbers /\ Sure(oss[o]) /\ After(o) /\ oss[o].pc \in {"lov", "done"} =>
      \A a \in Labelled("MDS"), b \in {n \in nodes : n.srv = o} :
        a.inode_number < oss[o].j /\ <<a.inode_number, b.inode_number>> \in DefiniteLov(o) =>
          [type |-> "LOV_parent_of", from |-> a, to |-> b] \in rels

WorkInv ==
    /\ Foreign /\ SawInv
    /\ Progress(Mds, mds) /\ Ended(Mds, mds) /\ ParentProgress
    /\ \A o \in Osts : /\ Progress(o, oss[o]) /\ Ended(o, oss[o])
                       /\ StripeProgress(o) /\ LovProgress(o)

CompleteInv == IInv /\ WorkInv

-----------------------------------------------------------------------------
(***************************************************************************)
(* What every step does to the graph.                                      *)
(***************************************************************************)
WriteKeys == {"lma", "pfid", "ost_oid", "f_oid", "fid"}

\* Nodes and relationships stay, and properties that are set stay set.
Grows ==
    /\ UNCHANGED disk /\ nodes \subseteq nodes' /\ rels \subseteq rels'
    /\ \A n \in Node, key \in WriteKeys : prop[n][key] # Null => prop'[n][key] # Null

LEMMA SetGrows ==
    ASSUME DbTypeOK, UNCHANGED disk, NEW label, NEW i, NEW key, NEW v,
           v # Null \/ key \notin WriteKeys, SetWhere(label, i, key, v)
    PROVE  Grows
<1>1. prop' = [n \in Node |-> IF n \in Numbered(label, i)
                              THEN [prop[n] EXCEPT ![key] = v] ELSE prop[n]]
  BY DEF SetWhere
<1>2. prop \in [Node -> Properties]
  BY DEF DbTypeOK
<1>3. ASSUME NEW n \in Node, NEW k \in WriteKeys, prop[n][k] # Null
      PROVE  prop'[n][k] # Null
  <2>1. prop[n] \in Properties /\ k \in DOMAIN prop[n]
    BY <1>2 DEF Properties, WriteKeys
  <2>2. [prop[n] EXCEPT ![key] = v][k] = IF k = key THEN v ELSE prop[n][k]
    BY <2>1
  <2> QED
    BY <1>1, <1>3, <2>2
<1> QED
  BY <1>3 DEF SetWhere, Grows

LEMMA StepGrows ==
    ASSUME IInv, UNCHANGED disk, DiskStep
    PROVE  Grows
<1>1. DbTypeOK /\ ScanInv
  BY DEF IInv, DbInv
<1>2. CASE MdsStatements
  <2>1. PICK i \in Lustre(Mds) :
          \/ \E v \in TypeOf(disk[Mds][i]) : SetWhere("MDS", i, "inode_type", v)
          \/ \E v \in LmaOf(disk[Mds][i]) : SetWhere("MDS", i, "lma", v)
          \/ \E v \in PfidOf(disk[Mds][i]) : SetWhere("MDS", i, "pfid", v)
          \/ \E v \in LovOidOf(disk[Mds][i]) : SetWhere("MDS", i, "ost_oid", v)
    BY <1>2 DEF MdsStatements
  <2>2. disk[Mds][i] \in Slot
    BY <1>1, ScannedSlot DEF Lustre, Servers
  <2>3. /\ \A v \in LmaOf(disk[Mds][i]) \cup PfidOf(disk[Mds][i]) : v # Null
        /\ \A v \in LovOidOf(disk[Mds][i]) : v # Null
    BY <2>2, AttrTypes, NullAssumption
  <2>4. "inode_type" \notin WriteKeys
    BY DEF WriteKeys
  <2> QED
    BY <1>1, <2>1, <2>3, <2>4, SetGrows
<1>3. ASSUME NEW o \in Osts, OssStatements(o)
      PROVE  Grows
  <2>1. PICK i \in Lustre(o) :
          \/ \E v \in TypeOf(disk[o][i]) : SetWhere("OSS", i, "inode_type", v)
          \/ \E v \in LmaOf(disk[o][i]) : SetWhere("OSS", i, "lma", v)
          \/ \E v \in FoidOf(disk[o][i]) : SetWhere("OSS", i, "f_oid", v)
          \/ \E v \in FfidOf(disk[o][i]) : SetWhere("OSS", i, "fid", v)
    BY <1>3 DEF OssStatements
  <2>2. disk[o][i] \in Slot
    BY <1>1, ScannedSlot DEF Lustre, Servers
  <2>3. /\ \A v \in LmaOf(disk[o][i]) \cup FfidOf(disk[o][i]) : v # Null
        /\ \A v \in FoidOf(disk[o][i]) : v # Null
    BY <2>2, AttrTypes, NullAssumption
  <2>4. "inode_type" \notin WriteKeys
    BY DEF WriteKeys
  <2> QED
    BY <1>1, <2>1, <2>3, <2>4, SetGrows
<1>4. CASE MergeParents \/ MergeStripes \/ \E j \in Nat : MergeLov(j)
  BY <1>1, <1>4, NewRelationships DEF Grows
<1>5. CASE UNCHANGED dbVars \/ Lose \/ \E n \in Node : Create(n)
  BY <1>5 DEF dbVars, Lose, Create, Grows
<1> QED
  BY <1>2, <1>3, <1>4, <1>5 DEF DiskStep

LEMMA StepForeign ==
    ASSUME IInv, UNCHANGED disk, DiskStep, Foreign
    PROVE  Foreign'
<1>1. DbTypeOK /\ nodes \subseteq Node /\ prop \in [Node -> Properties]
  BY DEF IInv, DbInv, DbTypeOK
<1>2. ASSUME NEW label, NEW i, NEW key, NEW v, SetWhere(label, i, key, v),
             \/ label = "MDS" /\ key \notin {"fid", "f_oid"}
             \/ label = "OSS" /\ key # "pfid"
      PROVE  Foreign'
  <2>1. \A n \in Node : n \in Numbered(label, i) =>
          (label = "MDS" => n.srv = Mds) /\ (label = "OSS" => n.srv # Mds)
    BY <1>1, Labels, ServersAssumption DEF Numbered, Labelled
  <2>2. \A n \in Node : prop'[n] = IF n \in Numbered(label, i)
                                   THEN [prop[n] EXCEPT ![key] = v] ELSE prop[n]
    BY <1>2 DEF SetWhere
  <2>3. \A n \in Node, k \in WriteKeys :
          prop'[n][k] = IF n \in Numbered(label, i) /\ k = key THEN v ELSE prop[n][k]
    BY <1>1, <2>2 DEF Properties, WriteKeys
  <2> QED
    BY <1>2, <2>1, <2>3 DEF Foreign, WriteKeys
<1>3. CASE MdsStatements
  <2>1. PICK i, key, v : SetWhere("MDS", i, key, v) /\ key \notin {"fid", "f_oid"}
    BY <1>3 DEF MdsStatements
  <2> QED
    BY <1>2, <2>1
<1>4. CASE \E o \in Osts : OssStatements(o)
  <2>1. PICK o \in Osts : OssStatements(o)
    BY <1>4
  <2>2. PICK i, key, v : SetWhere("OSS", i, key, v) /\ key # "pfid"
    BY <2>1 DEF OssStatements
  <2> QED
    BY <1>2, <2>2
<1>5. CASE MergeParents \/ MergeStripes \/ \E j \in Nat : MergeLov(j)
  BY <1>1, <1>5, NewRelationships DEF Foreign
<1>6. CASE UNCHANGED dbVars \/ Lose \/ \E n \in Node : Create(n)
  BY <1>6 DEF dbVars, Lose, Create, Foreign
<1> QED
  BY <1>3, <1>4, <1>5, <1>6 DEF DiskStep

\* Only a scanner at the top of its loop creates a node, its own.
LEMMA MdsCreates ==
    ASSUME MdsMoves, NEW n \in nodes' \ nodes
    PROVE  mds.pc = "inode" /\ n = MdsNode /\ n.srv = Mds /\ n.inode_number = mds.i
  BY DEF MdsMoves, MdsStart, MdsStep, MdsInode, MdsType, MdsNextInode, MdsDone, MdsLma,
         MdsLink, MdsMerge, MdsLov, MdsOther, MdsKilled, MdsSet, MdsStatement, dbVars,
         Create, SetWhere, Merge, Lose, MdsNode

LEMMA OssCreates ==
    ASSUME NEW o \in Osts, OssMoves(o), NEW n \in nodes' \ nodes
    PROVE  oss[o].pc = "inode" /\ n = OssNode(o) /\ n.srv = o /\ n.inode_number = oss[o].i
  BY DEF OssMoves, OssStart, OssStep, OssInode, OssType, OssNextInode, OssScanned, OssLma,
         OssFoid, OssFid, OssMerge, OssOther, OssLov, OssDone, OssKilled, OssSet,
         OssStatement, dbVars, Create, SetWhere, Merge, Lose, OssNode

\* A scan that does not move is still as far when another server's has moved.
LEMMA OtherProgress ==
    ASSUME IInv, Grows, NEW s, NEW scan, \A n \in nodes' \ nodes : n.srv # s,
           Progress(s, scan)
    PROVE  Progress(s, scan)'
<1>1. nodes \subseteq Node
  BY DEF IInv, DbInv, DbTypeOK
<1>2. \A i : NodesOf(s, i)' \subseteq NodesOf(s, i)
  BY DEF NodesOf
<1>3. \A i, keys : keys \subseteq WriteKeys /\ Have(s, i, keys) => Have(s, i, keys)'
  BY <1>1, <1>2 DEF Have, Grows, NodesOf
<1>4. UNCHANGED disk /\ Lustre(s)' = Lustre(s)
  BY DEF Grows, Lustre
<1>5. \A name : KeysOf(s, name) \subseteq WriteKeys
  BY DEF KeysOf, WriteKeys
<1>6. {"lma"} \subseteq WriteKeys
  BY DEF WriteKeys
<1>7. Created(s, scan) => Created(s, scan)'
  BY <1>4 DEF Created, Grows
<1>8. Written(s, scan) => Written(s, scan)'
  BY <1>3, <1>4, <1>5 DEF Written, Entries, Entry
<1>9. Halfway(s, scan) => Halfway(s, scan)'
  BY <1>3, <1>4, <1>5, <1>6 DEF Halfway, Entries, Entry
<1> QED
  BY <1>7, <1>8, <1>9 DEF Progress

\* A scan that moves to where everything behind it is done.
LEMMA OwnProgress ==
    ASSUME IInv, Grows, NEW s, NEW old, NEW new, Progress(s, old), Sure(old),
           new.run = old.run,
           \A n \in nodes' \ nodes : n.srv = s /\ old.pc = "inode" /\ n.inode_number = old.i,
           \A i \in Lustre(s) : Entered(new, i) =>
             \/ Entered(old, i)
             \/ [srv |-> s, run |-> old.run, inode_number |-> i] \in nodes',
           \A i \in Lustre(s) : \A k \in Entries(s, i) : Past(new, i, k) =>
             Past(old, i, k) \/ Have(s, i, KeysOf(s, Entry(s, i, k).name))',
           Halfway(s, new)'
    PROVE  Progress(s, new)'
<1>1. Created(s, old) /\ Written(s, old)
  BY DEF Progress
<1>2. UNCHANGED disk /\ Lustre(s)' = Lustre(s)
  BY DEF Grows, Lustre
<1>3. \A i : (Entries(s, i))' = Entries(s, i) /\ \A k : (Entry(s, i, k))' = Entry(s, i, k)
  BY <1>2 DEF Entries, Entry
<1>4. Created(s, new)'
  BY <1>1, <1>2 DEF Created, Grows
<1>5. Written(s, new)'
  <2> SUFFICES ASSUME NEW i \in Lustre(s), NEW k \in Entries(s, i), Past(old, i, k)
               PROVE  Have(s, i, KeysOf(s, Entry(s, i, k).name))'
    BY <1>2, <1>3 DEF Written
  <2>1. Have(s, i, KeysOf(s, Entry(s, i, k).name))
    BY <1>1 DEF Written
  <2>2. ~(old.pc = "inode" /\ i = old.i)
    <3>1. i \in Nat
      BY DEF Lustre, ScannedSlots
    <3> QED
      BY <3>1 DEF Past
  <2>3. NodesOf(s, i)' \subseteq NodesOf(s, i) /\ NodesOf(s, i) \subseteq Node
    BY <2>2 DEF NodesOf, IInv, DbInv, DbTypeOK
  <2>4. KeysOf(s, Entry(s, i, k).name) \subseteq WriteKeys
    BY DEF KeysOf, WriteKeys
  <2> QED
    BY <1>3, <2>1, <2>3, <2>4 DEF Have, Grows
<1> QED
  BY <1>4, <1>5 DEF Progress

\* A SET that has taken effect.
LEMMA SetHave ==
    ASSUME DbTypeOK, NEW s, NEW i, NEW key \in WriteKeys, NEW v, v # Null,
           SetWhere(IF s = Mds THEN "MDS" ELSE "OSS", i, key, v)
    PROVE  Have(s, i, {key})'
<1>1. nodes' = nodes /\ nodes \subseteq Node /\ prop \in [Node -> Properties]
  BY DEF SetWhere, DbTypeOK
<1>2. \A n \in NodesOf(s, i)' : n \in Node
          /\ n \in Numbered(IF s = Mds THEN "MDS" ELSE "OSS", i)
  BY <1>1 DEF NodesOf, Numbered, Labelled, Label
<1>3. \A n \in NodesOf(s, i)' : prop'[n] = [prop[n] EXCEPT ![key] = v] /\ key \in DOMAIN prop[n]
  BY <1>1, <1>2 DEF SetWhere, Properties, WriteKeys
<1> QED
  BY <1>3 DEF Have

\* What may be SET is not Null.
LEMMA EntryValues ==
    ASSUME IInv, NEW s \in Servers, NEW i \in Lustre(s), NEW k \in Nat \ {0},
           k <= Len(disk[s][i].xattrs)
    PROVE  /\ k \in Entries(s, i)
           /\ Entry(s, i, k).name = "lma" =>
                Entry(s, i, k).lma_self_fid # Null /\ Entry(s, i, k).lma_self_fid.f_oid # Null
           /\ Entry(s, i, k).name = "link" /\ Entry(s, i, k).good_magic =>
                fid_be_to_cpu(Entry(s, i, k).lee_parent_fid[1]) # Null
           /\ Entry(s, i, k).name = "lov" => \A v \in FirstObject(Entry(s, i, k)) : v # Null
           /\ Entry(s, i, k).name = "fid" => Entry(s, i, k).ff_parent # Null
<1> DEFINE slot == disk[s][i]
<1>1. slot \in Slot
  BY ScannedSlot DEF Lustre, IInv
<1>2. slot.xattrs[k] \in Attrs(slot, slot.xattrs[k].name) /\ slot.xattrs \in Seq(Xattr)
  BY <1>1, EntryIsAttr DEF Slot
<1>3. k \in Entries(s, i)
  BY <1>2 DEF Entries
<1>4. /\ \A v \in LmaOf(slot) \cup PfidOf(slot) \cup FfidOf(slot) : v # Null
      /\ \A v \in LovOidOf(slot) \cup FoidOf(slot) : v # Null
  BY <1>1, AttrTypes, NullAssumption
<1>5. slot.xattrs[k] = Entry(s, i, k)
  BY DEF Entry
<1> HIDE DEF slot
<1>6. Entry(s, i, k) \in Attrs(slot, Entry(s, i, k).name)
  BY <1>2, <1>5
<1> QED
  BY <1>3, <1>4, <1>6 DEF LmaOf, PfidOf, FfidOf, LovOidOf, FoidOf

-----------------------------------------------------------------------------
(***************************************************************************)
(* The metadata scan.                                                      *)
(***************************************************************************)
LEMMA MdsProgress ==
    ASSUME IInv, Grows, MdsMoves, Progress(Mds, mds), Ended(Mds, mds)
    PROVE  Progress(Mds, mds)' /\ Ended(Mds, mds)'
<1> PICK old : mds = old
  OBVIOUS
<1> PICK new : mds' = new
  OBVIOUS
<1>1. old \in ScannerState(Mds) /\ Located(Mds, old) /\ Mds \in Servers
  BY DEF IInv, ScanInv, Servers
<1>2. /\ TotalInodes[Mds] \in Nat /\ old.i \in Nat /\ old.k \in Nat \ {0}
      /\ old.i <= TotalInodes[Mds] + 1
  BY <1>1, TotalInodesAssumption DEF ScannerState
<1>3. \A i \in Lustre(Mds) : i \in Nat /\ 1 <= i /\ i <= TotalInodes[Mds]
  BY <1>2 DEF Lustre, ScannedSlots
<1>4. DbTypeOK /\ nodes \subseteq Node
  BY DEF IInv, DbInv, DbTypeOK
<1>5. UNCHANGED disk
  BY DEF Grows
<1>6. \A n \in nodes' \ nodes : n.srv = Mds /\ old.pc = "inode" /\ n.inode_number = old.i
  BY MdsCreates
<1>7. ASSUME MdsStart
      PROVE  Progress(Mds, new)' /\ Ended(Mds, new)'
  <2>1. \E up \in BOOLEAN : new = Started(old.run + 1, up)
    BY <1>7 DEF MdsStart
  <2>2. new.pc \in {"inode", "exited"} /\ new.i = 1
    BY <2>1 DEF Started
  <2>3. Lustre(Mds)' = Lustre(Mds)
    BY <1>5 DEF Lustre
  <2> QED
    BY <2>2, <2>3, <1>3 DEF Progress, Ended, Sure, Created, Written, Halfway, Entered, Past
<1>8. ASSUME MdsKilled
      PROVE  Progress(Mds, new)' /\ Ended(Mds, new)'
  <2>1. new.pc = "killed"
    BY <1>8, <1>1 DEF MdsKilled, ScannerState
  <2> QED
    BY <2>1 DEF Progress, Ended, Sure
<1>9. ASSUME MdsStep
      PROVE  Ended(Mds, new)'
  <2>1. new.pc \in {"lov", "done"} => old.pc = "inode" /\ old.i > TotalInodes[Mds] /\ new.i = old.i
    BY <1>9, <1>1 DEF MdsStep, MdsInode, MdsType, MdsNextInode, MdsDone, MdsLma, MdsLink,
       MdsMerge, MdsLov, MdsOther, MdsSet, MdsStatement, MdsAt, MdsNextEntry, ScannerState
  <2> QED
    BY <2>1, <1>2 DEF Ended
<1>10. ASSUME MdsStep, Sure(new), new.run = old.run, Sure(old),
              \A i \in Lustre(Mds) : Entered(new, i) =>
                \/ Entered(old, i)
                \/ [srv |-> Mds, run |-> old.run, inode_number |-> i] \in nodes',
              \A i \in Lustre(Mds) : \A k \in Entries(Mds, i) : Past(new, i, k) =>
                Past(old, i, k) \/ Have(Mds, i, KeysOf(Mds, Entry(Mds, i, k).name))',
              Halfway(Mds, new)'
       PROVE  Progress(Mds, new)'
  BY <1>10, <1>6, OwnProgress
<1>11. ASSUME MdsStep, Sure(new)
       PROVE  Progress(Mds, new)'
  <2> USE DEF ScannerState
  <2>1. CASE MdsInode
    <3>1. CASE old.i \notin Lustre(Mds)
      <4>1. new = [old EXCEPT !.i = @ + 1]
        <5>1. ~disk[Mds][old.i].h_magic
          BY <2>1, <3>1, <1>1, <1>2, ScannedSlot DEF MdsInode, ScannedSlots, Lustre, IInv
        <5> QED
          BY <2>1, <5>1 DEF MdsInode, MdsSlot
      <4> QED
        BY <4>1, <3>1, <2>1, <1>1, <1>2, <1>3, <1>10, <1>11
           DEF Sure, Entered, Past, Halfway, MdsInode
    <3>2. CASE old.i \in Lustre(Mds)
      <4>1. Create(MdsNode) /\ new = [old EXCEPT !.pc = "type"]
        <5>1. disk[Mds][old.i].h_magic
          BY <3>2 DEF Lustre
        <5> QED
          BY <2>1, <5>1, <1>1, <1>11 DEF MdsInode, MdsSlot, MdsStatement, Sure
      <4>2. [srv |-> Mds, run |-> old.run, inode_number |-> old.i] \in nodes'
        BY <4>1 DEF Create, MdsNode
      <4> QED
        BY <4>1, <4>2, <2>1, <1>1, <1>2, <1>3, <1>10, <1>11
           DEF Sure, Entered, Past, Halfway, MdsInode
    <3> QED
      BY <3>1, <3>2
  <2> DEFINE entry == Entry(Mds, old.i, old.k)
             Next1 == [old EXCEPT !.k = old.k + 1, !.pc = "xattr"]
  <2>2. ASSUME NEW names, MdsAt(names)
        PROVE  /\ old.pc = "xattr" /\ old.i \in Lustre(Mds)
               /\ old.k \in Entries(Mds, old.i) /\ entry.name \in names
               /\ entry.name = "lma" => entry.lma_self_fid # Null
               /\ entry.name = "link" /\ entry.good_magic =>
                    fid_be_to_cpu(entry.lee_parent_fid[1]) # Null
               /\ entry.name = "lov" => \A v \in FirstObject(entry) : v # Null
    <3>1. old.pc = "xattr" /\ old.i \in Lustre(Mds)
      BY <2>2, <1>1 DEF MdsAt, Located
    <3>2. old.k <= Len(disk[Mds][old.i].xattrs) /\ entry.name \in names
      BY <2>2 DEF MdsAt, MdsSlot, MdsEntry, Entry
    <3> HIDE DEF entry
    <3> QED
      BY <3>1, <3>2, <1>1, <1>2, EntryValues DEF entry
  <2>3. ASSUME Sure(old), new = Next1, old.pc \in {"xattr", "merge"},
               NEW name, entry.name = name,
               old.k \in Entries(Mds, old.i) => Have(Mds, old.i, KeysOf(Mds, name))'
        PROVE  Progress(Mds, new)'
    <3>1. new.pc = "xattr" /\ new.i = old.i /\ new.k = old.k + 1 /\ new.run = old.run
      BY <2>3, <1>1
    <3>2. ASSUME NEW i \in Lustre(Mds), NEW k \in Entries(Mds, i), Past(new, i, k)
          PROVE  Past(old, i, k) \/ (i = old.i /\ k = old.k)
      <4>1. k \in Nat
        BY <1>1, ScannedSlot DEF Entries, Slot, Lustre, IInv
      <4> QED
        BY <3>1, <3>2, <4>1, <2>3, <1>2, <1>3 DEF Past
    <3>3. \A i \in Lustre(Mds) : Entered(new, i) => Entered(old, i)
      BY <3>1, <2>3 DEF Entered
    <3>4. \A i \in Lustre(Mds) : \A k \in Entries(Mds, i) : Past(new, i, k) =>
            Past(old, i, k) \/ Have(Mds, i, KeysOf(Mds, Entry(Mds, i, k).name))'
      <4>1. Entry(Mds, old.i, old.k)' = Entry(Mds, old.i, old.k)
        BY <1>5 DEF Entry
      <4> QED
        BY <4>1, <3>2, <2>3
    <3>5. Halfway(Mds, new)'
      BY <3>1 DEF Halfway
    <3> QED
      BY <3>1, <3>3, <3>4, <3>5, <2>3, <1>10, <1>11
  <2>4. CASE MdsLma
    <3>1. MdsAt({"lma"})
      BY <2>4 DEF MdsLma
    <3>2. /\ SetWhere("MDS", old.i, "lma", entry.lma_self_fid)
          /\ new = Next1 /\ old.clean
      BY <2>4, <1>1, <1>11 DEF MdsLma, MdsSet, MdsStatement, MdsNextEntry, Sure, MdsEntry,
         MdsSlot, Entry
    <3>3. KeysOf(Mds, "lma") = {"lma"} /\ "lma" \in WriteKeys
      BY DEF KeysOf, WriteKeys
    <3> HIDE DEF entry
    <3>4. entry.name = "lma" /\ entry.lma_self_fid # Null /\ Sure(old)
      BY <3>1, <3>2, <2>2 DEF Sure
    <3>5. Have(Mds, old.i, {"lma"})'
      BY <3>2, <3>3, <3>4, <1>4, SetHave
    <3> QED
      BY <3>1, <3>2, <3>3, <3>4, <3>5, <2>2, <2>3
  <2>5. CASE MdsLink
    <3>1. MdsAt({"link"})
      BY <2>5 DEF MdsLink
    <3>2. entry.good_magic
      BY <2>5, <1>11, <1>1 DEF MdsLink, Sure, MdsEntry, MdsSlot, Entry
    <3>3. /\ SetWhere("MDS", old.i, "pfid", fid_be_to_cpu(entry.lee_parent_fid[1]))
          /\ new = [old EXCEPT !.pc = "merge"] /\ old.clean
      BY <2>5, <3>2, <1>1, <1>11 DEF MdsLink, MdsSet, MdsStatement, Sure, MdsEntry,
         MdsSlot, Entry
    <3>4. KeysOf(Mds, "link") = {"pfid"} /\ "pfid" \in WriteKeys
      BY DEF KeysOf, WriteKeys
    <3>5. Entry(Mds, old.i, old.k)' = entry /\ Entries(Mds, old.i)' = Entries(Mds, old.i)
      BY <1>5 DEF Entry, Entries
    <3> HIDE DEF entry
    <3>6. entry.name = "link" /\ fid_be_to_cpu(entry.lee_parent_fid[1]) # Null /\ Sure(old)
      BY <3>1, <3>2, <3>3, <2>2 DEF Sure
    <3>7. Have(Mds, old.i, {"pfid"})'
      BY <3>3, <3>4, <3>6, <1>4, SetHave
    <3>8. new.pc = "merge" /\ new.i = old.i /\ new.k = old.k /\ new.run = old.run
      BY <3>3, <1>1
    <3>9. Halfway(Mds, new)'
      BY <3>1, <3>4, <3>5, <3>6, <3>7, <3>8, <2>2 DEF Halfway
    <3> QED
      BY <3>1, <3>6, <3>8, <3>9, <2>2, <1>10, <1>11 DEF Entered, Past
  <2>6. CASE MdsMerge
    <3>1. new = Next1 /\ old.pc = "merge" /\ Sure(old) /\ UNCHANGED <<nodes, prop>>
      BY <2>6, <1>1, <1>11 DEF MdsMerge, MdsStatement, Merge, MdsNextEntry, Sure
    <3>2. Have(Mds, old.i, KeysOf(Mds, entry.name))
      BY <3>1 DEF Progress, Halfway
    <3>3. PICK name : entry.name = name
      OBVIOUS
    <3>4. Have(Mds, old.i, KeysOf(Mds, name))'
      BY <3>1, <3>2, <3>3 DEF Have, NodesOf
    <3> QED
      BY <3>1, <3>3, <3>4, <2>3
  <2>7. CASE MdsLov
    <3>1. MdsAt({"lov"})
      BY <2>7 DEF MdsLov
    <3>2. PICK oid \in FirstObject(entry) :
            SetWhere("MDS", old.i, "ost_oid", oid) /\ new = Next1 /\ old.clean
      BY <2>7, <1>1, <1>11 DEF MdsLov, MdsSet, MdsStatement, MdsNextEntry, Sure, MdsEntry,
         MdsSlot, Entry
    <3>3. KeysOf(Mds, "lov") = {"ost_oid"} /\ "ost_oid" \in WriteKeys
      BY DEF KeysOf, WriteKeys
    <3> HIDE DEF entry
    <3>4. entry.name = "lov" /\ oid # Null /\ Sure(old)
      BY <3>1, <3>2, <2>2 DEF Sure
    <3>5. Have(Mds, old.i, {"ost_oid"})'
      BY <3>2, <3>3, <3>4, <1>4, SetHave
    <3> QED
      BY <3>1, <3>2, <3>3, <3>4, <3>5, <2>2, <2>3
  <2>8. CASE MdsOther
    <3>1. MdsAt({"fid", "other"})
      BY <2>8 DEF MdsOther
    <3>2. new = Next1 /\ old.clean
      BY <2>8, <1>1, <1>11 DEF MdsOther, MdsNextEntry, Sure
    <3>3. PICK name : entry.name = name
      OBVIOUS
    <3> HIDE DEF entry
    <3>4. name \in {"fid", "other"} /\ Sure(old)
      BY <3>1, <3>2, <3>3, <2>2 DEF Sure
    <3>5. KeysOf(Mds, name) = {}
      BY <3>4 DEF KeysOf
    <3>6. Have(Mds, old.i, KeysOf(Mds, name))'
      BY <3>5 DEF Have
    <3> QED
      BY <3>1, <3>2, <3>3, <3>4, <3>6, <2>2, <2>3
  <2>9. CASE MdsType
    <3>1. \E pc \in {"spin", "xattr"} : new = [old EXCEPT !.k = 1, !.pc = pc]
      BY <2>9, <1>1, <1>11 DEF MdsType, MdsSet, MdsStatement, Sure
    <3>2. /\ new.pc \in {"spin", "xattr"} /\ new.k = 1 /\ new.i = old.i /\ new.run = old.run
          /\ old.pc = "type" /\ Sure(old)
      BY <3>1, <2>9, <1>1, <1>11 DEF Sure, MdsType
    <3>3. ASSUME NEW i \in Lustre(Mds), NEW k \in Entries(Mds, i), Past(new, i, k)
          PROVE  Past(old, i, k)
      <4>1. k \in Nat /\ k >= 1
        BY <1>1, ScannedSlot DEF Entries, Slot, Lustre, IInv
      <4> QED
        BY <3>2, <3>3, <4>1, <1>2, <1>3 DEF Past
    <3>4. Halfway(Mds, new)' /\ \A i \in Lustre(Mds) : Entered(new, i) => Entered(old, i)
      BY <3>2 DEF Halfway, Entered
    <3> QED
      BY <3>2, <3>3, <3>4, <1>10, <1>11
  <2>10. CASE MdsNextInode
    <3>1. new = [old EXCEPT !.pc = "inode", !.i = old.i + 1]
      BY <2>10 DEF MdsNextInode
    <3>2. /\ new.pc = "inode" /\ new.i = old.i + 1 /\ new.run = old.run
          /\ old.pc = "xattr" /\ old.k > Len(disk[Mds][old.i].xattrs) /\ Sure(old)
      BY <3>1, <2>10, <1>1, <1>11 DEF MdsNextInode, MdsSlot, Sure
    <3>3. ASSUME NEW i \in Lustre(Mds), NEW k \in Entries(Mds, i), Past(new, i, k)
          PROVE  Past(old, i, k)
      <4>1. k \in Nat /\ k <= Len(disk[Mds][i].xattrs) /\ Len(disk[Mds][i].xattrs) \in Nat
        BY <1>1, ScannedSlot DEF Entries, Slot, Lustre, IInv
      <4> QED
        BY <3>2, <3>3, <4>1, <1>2, <1>3 DEF Past
    <3>4. Halfway(Mds, new)' /\ \A i \in Lustre(Mds) : Entered(new, i) => Entered(old, i)
      BY <3>2, <1>2, <1>3 DEF Halfway, Entered
    <3> QED
      BY <3>2, <3>3, <3>4, <1>10, <1>11
  <2>11. CASE MdsDone
    <3>1. new.pc = "done" /\ new.i = old.i /\ new.run = old.run /\ Sure(old)
      BY <2>11, <1>1, <1>11 DEF MdsDone, Sure
    <3>2. \A i \in Lustre(Mds) : Entered(new, i) => Entered(old, i)
      BY <3>1 DEF Entered
    <3>3. \A i, k : Past(new, i, k) => Past(old, i, k)
      BY <3>1 DEF Past
    <3>4. Halfway(Mds, new)'
      BY <3>1 DEF Halfway
    <3> QED
      BY <3>1, <3>2, <3>3, <3>4, <1>10, <1>11
  <2> QED
    BY <1>11, <2>1, <2>4, <2>5, <2>6, <2>7, <2>8, <2>9, <2>10, <2>11 DEF MdsStep
<1> QED
  BY <1>7, <1>8, <1>9, <1>11 DEF MdsMoves, Progress

\* An entry that a step of the metadata scan puts behind it is the one it stood
\* at; if that is a link, the step is the merge.
LEMMA MdsForward ==
    ASSUME IInv, MdsMoves, Sure(mds'), NEW i \in Lustre(Mds), NEW k \in Entries(Mds, i),
           Past(mds', i, k)
    PROVE  /\ Sure(mds)
           /\ \/ Past(mds, i, k)
              \/ /\ i = mds.i /\ k = mds.k
                 /\ Entry(Mds, i, k).name = "link" =>
                      mds.pc = "merge" /\ MergeParents /\ UNCHANGED <<nodes, prop>>
<1> PICK old : mds = old
  OBVIOUS
<1> PICK new : mds' = new
  OBVIOUS
<1>1. old \in ScannerState(Mds) /\ Located(Mds, old)
  BY DEF IInv, ScanInv
<1>2. old.i \in Nat /\ old.k \in Nat
  BY <1>1, TotalInodesAssumption DEF ScannerState, Servers
<1>3. i \in Nat /\ 1 <= i /\ k \in Nat /\ 1 <= k /\ k <= Len(disk[Mds][i].xattrs)
  <2>1. disk[Mds][i].xattrs \in Seq(Xattr)
    BY ScannedSlot DEF Lustre, IInv, Servers, Slot
  <2> QED
    BY <2>1 DEF Lustre, ScannedSlots, Entries
<1>4. Sure(new) /\ Past(new, i, k)
  OBVIOUS
<1> USE DEF ScannerState
<1>5. CASE MdsStart \/ MdsKilled
  BY <1>5, <1>1, <1>3, <1>4 DEF MdsStart, MdsKilled, Started, Sure, Past
<1>6. CASE MdsInode
  <2>1. old.pc = "inode" /\ old.clean
    BY <1>6, <1>1, <1>4 DEF MdsInode, MdsStatement, Sure
  <2>2. \/ new.pc = "type" /\ new.i = old.i
        \/ new.pc = "inode" /\ new.i = old.i + 1 /\ ~disk[Mds][old.i].h_magic
    BY <1>6, <1>1, <1>4 DEF MdsInode, MdsSlot, MdsStatement, Sure
  <2> QED
    BY <2>1, <2>2, <1>2, <1>3, <1>4 DEF Past, Lustre, Sure
<1>7. CASE MdsType
  <2>1. new.k = 1 /\ new.i = old.i /\ Sure(old)
    BY <1>7, <1>1, <1>4 DEF MdsType, MdsSet, MdsStatement, Sure
  <2> QED
    BY <2>1, <1>2, <1>3, <1>4 DEF Past
<1>8. CASE MdsNextInode
  <2>1. /\ new.pc = "inode" /\ new.i = old.i + 1 /\ Sure(old) /\ old.pc = "xattr"
        /\ old.k > Len(disk[Mds][old.i].xattrs)
    BY <1>8, <1>1, <1>4 DEF MdsNextInode, MdsSlot, Sure
  <2> QED
    BY <2>1, <1>2, <1>3, <1>4 DEF Past
<1>9. CASE MdsDone
  <2>1. new.pc = "done" /\ new.i = old.i /\ Sure(old)
    BY <1>9, <1>1, <1>4 DEF MdsDone, Sure
  <2> QED
    BY <2>1, <1>4 DEF Past
<1>10. CASE MdsLma \/ MdsLov \/ MdsOther
  <2>1. /\ new.k = old.k + 1 /\ new.i = old.i /\ Sure(old) /\ old.pc = "xattr"
        /\ Entry(Mds, old.i, old.k).name # "link"
    BY <1>10, <1>1, <1>4 DEF MdsLma, MdsLov, MdsOther, MdsAt, MdsSet, MdsStatement,
       MdsNextEntry, MdsEntry, MdsSlot, Entry, Sure
  <2> QED
    BY <2>1, <1>2, <1>3, <1>4 DEF Past
<1>11. CASE MdsLink
  <2>1. new.k = old.k /\ new.i = old.i /\ Sure(old) /\ old.pc = "xattr"
    BY <1>11, <1>1, <1>4 DEF MdsLink, MdsAt, MdsSet, MdsStatement, Sure
  <2> QED
    BY <2>1, <1>4 DEF Past
<1>12. CASE MdsMerge
  <2>1. /\ new.k = old.k + 1 /\ new.i = old.i /\ Sure(old) /\ old.pc = "merge"
        /\ MergeParents /\ UNCHANGED <<nodes, prop>>
    BY <1>12, <1>1, <1>4 DEF MdsMerge, MdsStatement, MdsNextEntry, Sure, MergeParents, Merge
  <2> QED
    BY <2>1, <1>2, <1>3, <1>4 DEF Past
<1> QED
  BY <1>5, <1>6, <1>7, <1>8, <1>9, <1>10, <1>11, <1>12 DEF MdsMoves, MdsStep

LEMMA PositionIs ==
    ASSUME NEW s, NEW name, NEW q \in Positions(s, name)
    PROVE  /\ q = <<q[1], q[2]>> /\ q[1] \in Lustre(s) /\ q[2] \in Entries(s, q[1])
           /\ Entry(s, q[1], q[2]).name = name
  BY DEF Positions, Entries, Entry

LEMMA PositionNumbers ==
    ASSUME IInv, NEW s \in Servers, NEW i \in Lustre(s), NEW k \in Entries(s, i)
    PROVE  i \in Nat /\ 1 <= i /\ k \in Nat /\ 1 <= k
<1>1. disk[s][i].xattrs \in Seq(Xattr)
  BY ScannedSlot DEF Lustre, IInv, Slot
<1> QED
  BY <1>1 DEF Lustre, ScannedSlots, Entries

\* A merge leaves no pair that agrees without its relationship.
LEMMA MergeMakes ==
    ASSUME NEW type, NEW as, NEW ka, NEW bs, NEW kb, Merge(type, as, ka, bs, kb),
           NEW a \in as, NEW b \in bs, SameValue(a, ka, b, kb)
    PROVE  [type |-> type, from |-> a, to |-> b] \in rels'
<1>1. <<a, b>> \in {xy \in as \X bs : SameValue(xy[1], ka, xy[2], kb)}
  OBVIOUS
<1>2. [type |-> type, from |-> <<a, b>>[1], to |-> <<a, b>>[2]] \in
        {[type |-> type, from |-> ab[1], to |-> ab[2]] :
            ab \in {xy \in as \X bs : SameValue(xy[1], ka, xy[2], kb)}}
  BY <1>1
<1> QED
  BY <1>2 DEF Merge

\* Nodes whose properties are set and whose slots agree, agree.
LEMMA ParentsAgree ==
    ASSUME IInv, WellFormed, NEW a \in Labelled("MDS"), NEW b \in Labelled("MDS"),
           prop[a].lma # Null, prop[b].pfid # Null,
           <<a.inode_number, b.inode_number>> \in AttestedParents
    PROVE  SameValue(a, "lma", b, "pfid")
<1>1. /\ a \in Node /\ a.srv = Mds /\ a.inode_number \in Lustre(Mds)
      /\ b \in Node /\ b.srv = Mds /\ b.inode_number \in Lustre(Mds)
  BY Labels DEF Labelled, IInv, DbInv, DbTypeOK, NodesInv
<1>2. prop[a].lma \in LmaOf(SlotOf(a)) /\ prop[b].pfid \in PfidOf(SlotOf(b))
  BY <1>1 DEF IInv, DbInv, NodesInv, FromDisk
<1>3. Single(LmaOf(SlotOf(a))) /\ Single(PfidOf(SlotOf(b)))
  BY <1>1, OneOfEach DEF SlotOf, IInv, Servers
<1>4. LmaOf(SlotOf(a)) \cap PfidOf(SlotOf(b)) # {}
  BY <1>1 DEF AttestedParents, SlotOf
<1> QED
  BY <1>2, <1>3, <1>4 DEF SameValue, Single

LEMMA ParentsMoved ==
    ASSUME IInv, Grows, MdsMoves, Progress(Mds, mds), ParentProgress
    PROVE  ParentProgress'
<1>1. UNCHANGED disk
  BY DEF Grows
<1>2. /\ Lustre(Mds)' = Lustre(Mds) /\ AttestedParents' = AttestedParents
      /\ WellFormed' = WellFormed
      /\ \A name : (Positions(Mds, name))' = Positions(Mds, name)
  BY <1>1, DiskFixed DEF WellFormed, Positions, Lustre
<1> SUFFICES ASSUME WellFormed, Sure(mds'), NEW q \in Positions(Mds, "link"),
                    Past(mds', q[1], q[2]),
                    NEW a \in Labelled("MDS")', NEW b \in Labelled("MDS")',
                    NEW p \in Positions(Mds, "lma"), NEW r \in Positions(Mds, "link"),
                    p[1] = a.inode_number, r[1] = b.inode_number,
                    Before(p, q), ~Before(q, r),
                    <<a.inode_number, b.inode_number>> \in AttestedParents
             PROVE  MdsEdge(a, b) \in rels'
  BY <1>2 DEF ParentProgress, Sure, Past
<1>3. /\ q[1] \in Lustre(Mds) /\ q[2] \in Entries(Mds, q[1]) /\ q = <<q[1], q[2]>>
      /\ p[1] \in Lustre(Mds) /\ p[2] \in Entries(Mds, p[1])
      /\ r[1] \in Lustre(Mds) /\ r[2] \in Entries(Mds, r[1]) /\ r = <<r[1], r[2]>>
      /\ Entry(Mds, q[1], q[2]).name = "link" /\ Entry(Mds, p[1], p[2]).name = "lma"
      /\ Entry(Mds, r[1], r[2]).name = "link"
  BY PositionIs
<1>4. /\ q[1] \in Nat /\ q[2] \in Nat /\ p[1] \in Nat /\ p[2] \in Nat
      /\ r[1] \in Nat /\ r[2] \in Nat
  BY <1>3, PositionNumbers DEF Servers
<1>5. mds.i \in Nat /\ mds.k \in Nat
  BY TotalInodesAssumption DEF IInv, ScanInv, ScannerState, Servers
<1>6. /\ Sure(mds)
      /\ \/ Past(mds, q[1], q[2])
         \/ /\ q[1] = mds.i /\ q[2] = mds.k
            /\ mds.pc = "merge" /\ MergeParents /\ UNCHANGED <<nodes, prop>>
  BY <1>3, MdsForward
<1>7. p[1] <= q[1] /\ r[1] <= q[1]
  BY <1>4 DEF Before
<1>8. CASE Past(mds, q[1], q[2])
  <2>1. a \in Labelled("MDS") /\ b \in Labelled("MDS")
    <3>1. mds.pc = "inode" => q[1] < mds.i
      BY <1>8 DEF Past
    <3>2. a \in nodes /\ b \in nodes
      BY <3>1, <1>4, <1>5, <1>7, MdsCreates DEF Labelled
    <3> QED
      BY <3>2 DEF Labelled
  <2>2. MdsEdge(a, b) \in rels
    BY <2>1, <1>6, <1>8 DEF ParentProgress
  <2> QED
    BY <2>2 DEF Grows
<1>9. CASE ~Past(mds, q[1], q[2])
  <2>1. /\ q[1] = mds.i /\ q[2] = mds.k /\ mds.pc = "merge" /\ MergeParents
        /\ UNCHANGED <<nodes, prop>> /\ Sure(mds)
    BY <1>6, <1>9
  <2>2. a \in Labelled("MDS") /\ b \in Labelled("MDS")
    BY <2>1 DEF Labelled
  <2>3. a \in NodesOf(Mds, p[1]) /\ b \in NodesOf(Mds, r[1])
    BY <2>2, Labels DEF NodesOf, Labelled, IInv, DbInv, DbTypeOK
  <2>4. "lma" \in KeysOf(Mds, "lma") /\ "pfid" \in KeysOf(Mds, "link")
    BY DEF KeysOf
  <2>5. Written(Mds, mds) /\ Halfway(Mds, mds)
    BY <2>1 DEF Progress
  <2>6. prop[a].lma # Null
    <3>1. Past(mds, p[1], p[2])
      BY <2>1 DEF Before, Past
    <3> QED
      BY <3>1, <2>3, <2>4, <2>5, <1>3 DEF Written, Have
  <2>7. prop[b].pfid # Null
    <3>1. CASE Past(mds, r[1], r[2])
      BY <3>1, <2>3, <2>4, <2>5, <1>3 DEF Written, Have
    <3>2. CASE ~Past(mds, r[1], r[2])
      <4>1. r[1] = mds.i /\ r[2] = mds.k
        BY <3>2, <2>1, <1>4, <1>5 DEF Before, Past
      <4> QED
        BY <4>1, <2>1, <2>3, <2>4, <2>5, <1>3 DEF Halfway, Have
    <3> QED
      BY <3>1, <3>2
  <2>8. SameValue(a, "lma", b, "pfid")
    BY <2>2, <2>6, <2>7, ParentsAgree
  <2> QED
    BY <2>1, <2>2, <2>8, MergeMakes DEF MergeParents, MdsEdge
<1> QED
  BY <1>8, <1>9

-----------------------------------------------------------------------------
(***************************************************************************)
(* The object scans.                                                       *)
(***************************************************************************)
LEMMA OssProgress ==
    ASSUME IInv, Grows, NEW o \in Osts, OssMoves(o), Progress(o, oss[o]), Ended(o, oss[o])
    PROVE  Progress(o, oss[o])' /\ Ended(o, oss[o])'
<1> PICK old : oss[o] = old
  OBVIOUS
<1> PICK new : oss'[o] = new
  OBVIOUS
<1>1. /\ old \in ScannerState(o) /\ Located(o, old) /\ o \in Servers /\ o # Mds
      /\ o \in DOMAIN oss
  BY ServersAssumption DEF IInv, ScanInv, Servers
<1>2. /\ TotalInodes[o] \in Nat /\ old.i \in Nat /\ old.k \in Nat \ {0} /\ old.j \in Nat
      /\ old.i <= TotalInodes[o] + 1 /\ mds_total_inodes \in Nat
  BY <1>1, TotalInodesAssumption, LovLoopAssumption DEF ScannerState
<1>3. \A i \in Lustre(o) : i \in Nat /\ 1 <= i /\ i <= TotalInodes[o]
  BY <1>2 DEF Lustre, ScannedSlots
<1>4. DbTypeOK /\ nodes \subseteq Node
  BY DEF IInv, DbInv, DbTypeOK
<1>5. UNCHANGED disk
  BY DEF Grows
<1>6. \A n \in nodes' \ nodes : n.srv = o /\ old.pc = "inode" /\ n.inode_number = old.i
  BY OssCreates
<1>12. \A next : oss' = [oss EXCEPT ![o] = next] => new = next
  BY <1>1
<1>7. ASSUME OssStart(o)
      PROVE  Progress(o, new)' /\ Ended(o, new)'
  <2>1. \E up \in BOOLEAN : new = Started(old.run + 1, up)
    BY <1>7, <1>1 DEF OssStart
  <2>2. new.pc \in {"inode", "exited"} /\ new.i = 1
    BY <2>1 DEF Started
  <2>3. Lustre(o)' = Lustre(o)
    BY <1>5 DEF Lustre
  <2> QED
    BY <2>2, <2>3, <1>3 DEF Progress, Ended, Sure, Created, Written, Halfway, Entered, Past
<1>8. ASSUME OssKilled(o)
      PROVE  Progress(o, new)' /\ Ended(o, new)'
  <2>1. new.pc = "killed"
    BY <1>8, <1>1 DEF OssKilled, ScannerState
  <2> QED
    BY <2>1 DEF Progress, Ended, Sure
<1>9. ASSUME OssStep(o)
      PROVE  Ended(o, new)'
  <2>1. CASE OssScanned(o)
    <3>1. new.i = old.i /\ old.i > TotalInodes[o] /\ new.pc = "lov"
      BY <2>1, <1>1 DEF OssScanned, ScannerState
    <3> QED
      BY <3>1, <1>2 DEF Ended
  <2>2. CASE OssLov(o)
    <3>1. new.i = old.i /\ old.pc = "lov" /\ new.pc = "lov"
      <4>1. old.pc = "lov" /\ \/ new = [old EXCEPT !.j = @ + 1]
                              \/ new = [[old EXCEPT !.j = @ + 1] EXCEPT !.clean = FALSE]
        BY <2>2, <1>12 DEF OssLov, OssStatement
      <4> QED
        BY <4>1, <1>1 DEF ScannerState
    <3> QED
      BY <3>1, <1>2 DEF Ended
  <2>3. CASE OssDone(o)
    <3>1. /\ new.i = old.i /\ old.pc = "lov" /\ new.pc = "done" /\ new.j = old.j
          /\ old.j > mds_total_inodes
      BY <2>3, <1>1 DEF OssDone, ScannerState
    <3> QED
      BY <3>1, <1>2 DEF Ended
  <2>4. CASE ~(OssScanned(o) \/ OssLov(o) \/ OssDone(o))
    <3> DEFINE Next1 == [old EXCEPT !.k = @ + 1, !.pc = "xattr"]
               Next2 == [old EXCEPT !.k = 1, !.pc = IF OssSlot(o).i_mode = "dir"
                                                       /\ OssSlot(o).dir_spins
                                                    THEN "spin" ELSE "xattr"]
               Becomes(next) == new = next \/ new = [next EXCEPT !.clean = FALSE]
    <3>1. ASSUME OssInode(o)
          PROVE  new.pc \notin {"lov", "done"}
      <4>1. /\ old.pc = "inode"
            /\ \/ new = [old EXCEPT !.i = @ + 1]
               \/ Becomes([old EXCEPT !.pc = "type"])
        BY <3>1, <1>12 DEF OssInode, OssStatement
      <4> QED
        BY <4>1, <1>1 DEF ScannerState
    <3>2. ASSUME OssType(o)
          PROVE  new.pc \notin {"lov", "done"}
      <4>1. Becomes(Next2)
        BY <3>2, <1>12 DEF OssType, OssSet, OssStatement
      <4> QED
        BY <4>1, <1>1 DEF ScannerState
    <3>3. ASSUME OssFoid(o) \/ OssMerge(o) \/ OssOther(o)
          PROVE  new.pc \notin {"lov", "done"}
      <4>1. Becomes(Next1)
        BY <3>3, <1>12 DEF OssFoid, OssMerge, OssOther, OssSet, OssStatement, OssNextEntry
      <4> QED
        BY <4>1, <1>1 DEF ScannerState
    <3>4. ASSUME OssLma(o) \/ OssFid(o)
          PROVE  new.pc \notin {"lov", "done"}
      <4>1. Becomes([old EXCEPT !.pc = "f_oid"]) \/ Becomes([old EXCEPT !.pc = "merge"])
        BY <3>4, <1>12 DEF OssLma, OssFid, OssSet, OssStatement
      <4> QED
        BY <4>1, <1>1 DEF ScannerState
    <3>5. ASSUME OssNextInode(o)
          PROVE  new.pc \notin {"lov", "done"}
      BY <3>5, <1>1, <1>12 DEF OssNextInode, ScannerState
    <3>6. new.pc \notin {"lov", "done"}
      BY <2>4, <1>9, <3>1, <3>2, <3>3, <3>4, <3>5 DEF OssStep
    <3> QED
      BY <3>6 DEF Ended
  <2> QED
    BY <2>1, <2>2, <2>3, <2>4
<1>10. ASSUME OssStep(o), Sure(new), new.run = old.run, Sure(old),
              \A i \in Lustre(o) : Entered(new, i) =>
                \/ Entered(old, i)
                \/ [srv |-> o, run |-> old.run, inode_number |-> i] \in nodes',
              \A i \in Lustre(o) : \A k \in Entries(o, i) : Past(new, i, k) =>
                Past(old, i, k) \/ Have(o, i, KeysOf(o, Entry(o, i, k).name))',
              Halfway(o, new)'
       PROVE  Progress(o, new)'
  BY <1>10, <1>6, OwnProgress
<1>11. ASSUME OssStep(o), Sure(new)
       PROVE  Progress(o, new)'
  <2> USE DEF ScannerState
  <2> DEFINE entry == Entry(o, old.i, old.k)
             Next1 == [old EXCEPT !.k = old.k + 1, !.pc = "xattr"]
  <2>1. CASE OssInode(o)
    <3>1. CASE old.i \notin Lustre(o)
      <4>1. new = [old EXCEPT !.i = @ + 1]
        <5>1. ~disk[o][old.i].h_magic
          BY <2>1, <3>1, <1>1, <1>2, ScannedSlot DEF OssInode, ScannedSlots, Lustre, IInv
        <5> QED
          BY <2>1, <5>1, <1>1 DEF OssInode, OssSlot
      <4> QED
        BY <4>1, <3>1, <2>1, <1>1, <1>2, <1>3, <1>10, <1>11
           DEF Sure, Entered, Past, Halfway, OssInode
    <3>2. CASE old.i \in Lustre(o)
      <4>1. Create(OssNode(o)) /\ new = [old EXCEPT !.pc = "type"]
        <5>1. disk[o][old.i].h_magic
          BY <3>2 DEF Lustre
        <5> QED
          BY <2>1, <5>1, <1>1, <1>11, <1>12 DEF OssInode, OssSlot, OssStatement, Sure
      <4>2. [srv |-> o, run |-> old.run, inode_number |-> old.i] \in nodes'
        BY <4>1 DEF Create, OssNode
      <4> QED
        BY <4>1, <4>2, <2>1, <1>1, <1>2, <1>3, <1>10, <1>11
           DEF Sure, Entered, Past, Halfway, OssInode
    <3> QED
      BY <3>1, <3>2
  <2>2. ASSUME NEW names, OssAt(o, names)
        PROVE  /\ old.pc = "xattr" /\ old.i \in Lustre(o)
               /\ old.k \in Entries(o, old.i) /\ entry.name \in names
               /\ entry.name = "lma" => entry.lma_self_fid # Null
               /\ entry.name = "fid" => entry.ff_parent # Null
    <3>1. old.pc = "xattr" /\ old.i \in Lustre(o)
      BY <2>2, <1>1 DEF OssAt, Located
    <3>2. old.k <= Len(disk[o][old.i].xattrs) /\ entry.name \in names
      BY <2>2 DEF OssAt, OssSlot, OssEntry, Entry
    <3> HIDE DEF entry
    <3> QED
      BY <3>1, <3>2, <1>1, <1>2, EntryValues DEF entry
  <2>3. ASSUME Sure(old), new = Next1, old.pc \in {"xattr", "merge", "f_oid"},
               NEW name, entry.name = name,
               old.k \in Entries(o, old.i) => Have(o, old.i, KeysOf(o, name))'
        PROVE  Progress(o, new)'
    <3>1. new.pc = "xattr" /\ new.i = old.i /\ new.k = old.k + 1 /\ new.run = old.run
      BY <2>3, <1>1
    <3>2. ASSUME NEW i \in Lustre(o), NEW k \in Entries(o, i), Past(new, i, k)
          PROVE  Past(old, i, k) \/ (i = old.i /\ k = old.k)
      <4>1. k \in Nat
        BY <1>1, ScannedSlot DEF Entries, Slot, Lustre, IInv
      <4> QED
        BY <3>1, <3>2, <4>1, <2>3, <1>2, <1>3 DEF Past
    <3>3. \A i \in Lustre(o) : Entered(new, i) => Entered(old, i)
      BY <3>1, <2>3 DEF Entered
    <3>4. \A i \in Lustre(o) : \A k \in Entries(o, i) : Past(new, i, k) =>
            Past(old, i, k) \/ Have(o, i, KeysOf(o, Entry(o, i, k).name))'
      <4>1. Entry(o, old.i, old.k)' = Entry(o, old.i, old.k)
        BY <1>5 DEF Entry
      <4> QED
        BY <4>1, <3>2, <2>3
    <3>5. Halfway(o, new)'
      BY <3>1 DEF Halfway
    <3> QED
      BY <3>1, <3>3, <3>4, <3>5, <2>3, <1>10, <1>11
  <2>4. CASE OssLma(o)
    <3>1. OssAt(o, {"lma"})
      BY <2>4 DEF OssLma
    <3>2. /\ SetWhere("OSS", old.i, "lma", entry.lma_self_fid)
          /\ new = [old EXCEPT !.pc = "f_oid"] /\ old.clean
      BY <2>4, <1>1, <1>11 DEF OssLma, OssSet, OssStatement, Sure, OssEntry, OssSlot, Entry
    <3> HIDE DEF entry
    <3>3. entry.lma_self_fid # Null /\ Sure(old) /\ "lma" \in WriteKeys
      BY <3>1, <3>2, <2>2 DEF Sure, WriteKeys
    <3>4. Have(o, old.i, {"lma"})'
      BY <3>2, <3>3, <1>1, <1>4, SetHave
    <3>5. new.pc = "f_oid" /\ new.i = old.i /\ new.k = old.k /\ new.run = old.run
      BY <3>2, <1>1
    <3>6. Halfway(o, new)'
      BY <3>4, <3>5 DEF Halfway
    <3> QED
      BY <3>1, <3>3, <3>5, <3>6, <2>2, <1>10, <1>11 DEF Entered, Past
  <2>5. CASE OssFoid(o)
    <3>1. old.pc = "f_oid" /\ old.k <= Len(disk[o][old.i].xattrs) /\ entry.name = "lma"
          /\ old.i \in Lustre(o)
      BY <2>5, <1>1 DEF OssFoid, Located, Entry
    <3>2. /\ SetWhere("OSS", old.i, "f_oid", entry.lma_self_fid.f_oid)
          /\ new = Next1 /\ old.clean
      BY <2>5, <1>1, <1>11 DEF OssFoid, OssSet, OssStatement, OssNextEntry, Sure, OssEntry,
         OssSlot, Entry
    <3>3. entry.lma_self_fid.f_oid # Null
      <4> HIDE DEF entry
      <4> QED
        BY <3>1, <1>1, <1>2, EntryValues DEF entry
    <3> HIDE DEF entry
    <3>4. Sure(old) /\ "f_oid" \in WriteKeys
      BY <3>1, <3>2 DEF Sure, WriteKeys
    <3>5. Have(o, old.i, {"f_oid"})'
      BY <3>2, <3>3, <3>4, <1>1, <1>4, SetHave
    <3>6. Have(o, old.i, {"lma"})
      BY <3>1, <3>4 DEF Progress, Halfway
    <3>7. nodes' = nodes
      BY <3>2 DEF SetWhere
    <3>8. Have(o, old.i, {"lma"})'
      BY <3>6, <3>7, <1>4 DEF Have, NodesOf, Grows, WriteKeys
    <3>9. KeysOf(o, "lma") = {"lma", "f_oid"}
      BY <1>1 DEF KeysOf
    <3>10. Have(o, old.i, KeysOf(o, "lma"))'
      BY <3>5, <3>8, <3>9 DEF Have
    <3> QED
      BY <3>1, <3>2, <3>4, <3>10, <2>3
  <2>6. CASE OssFid(o)
    <3>1. OssAt(o, {"fid"})
      BY <2>6 DEF OssFid
    <3>2. /\ SetWhere("OSS", old.i, "fid", entry.ff_parent)
          /\ new = [old EXCEPT !.pc = "merge"] /\ old.clean
      BY <2>6, <1>1, <1>11 DEF OssFid, OssSet, OssStatement, Sure, OssEntry, OssSlot, Entry
    <3>3. KeysOf(o, "fid") = {"fid"} /\ "fid" \in WriteKeys
      BY <1>1 DEF KeysOf, WriteKeys
    <3>4. Entry(o, old.i, old.k)' = entry /\ Entries(o, old.i)' = Entries(o, old.i)
      BY <1>5 DEF Entry, Entries
    <3> HIDE DEF entry
    <3>5. entry.name = "fid" /\ entry.ff_parent # Null /\ Sure(old)
      BY <3>1, <3>2, <2>2 DEF Sure
    <3>6. Have(o, old.i, {"fid"})'
      BY <3>2, <3>3, <3>5, <1>1, <1>4, SetHave
    <3>7. new.pc = "merge" /\ new.i = old.i /\ new.k = old.k /\ new.run = old.run
      BY <3>2, <1>1
    <3>8. Halfway(o, new)'
      BY <3>1, <3>3, <3>4, <3>5, <3>6, <3>7, <2>2, <1>1 DEF Halfway
    <3>9. \A i \in Lustre(o) : Entered(new, i) =>
            \/ Entered(old, i)
            \/ [srv |-> o, run |-> old.run, inode_number |-> i] \in nodes'
      BY <3>1, <3>7, <2>2 DEF Entered
    <3>10. \A i \in Lustre(o) : \A k \in Entries(o, i) : Past(new, i, k) =>
            Past(old, i, k) \/ Have(o, i, KeysOf(o, Entry(o, i, k).name))'
      BY <3>1, <3>7, <2>2 DEF Past
    <3> QED
      BY <3>5, <3>7, <3>8, <3>9, <3>10, <1>10, <1>11
  <2>7. CASE OssMerge(o)
    <3>1. new = Next1 /\ old.pc = "merge" /\ Sure(old) /\ UNCHANGED <<nodes, prop>>
      BY <2>7, <1>1, <1>11, <1>12 DEF OssMerge, OssStatement, Merge, OssNextEntry, Sure
    <3>2. Have(o, old.i, KeysOf(o, entry.name))
      BY <3>1 DEF Progress, Halfway
    <3>3. PICK name : entry.name = name
      OBVIOUS
    <3>4. Have(o, old.i, KeysOf(o, name))'
      BY <3>1, <3>2, <3>3 DEF Have, NodesOf
    <3> QED
      BY <3>1, <3>3, <3>4, <2>3
  <2>8. CASE OssOther(o)
    <3>1. OssAt(o, {"link", "lov", "other"})
      BY <2>8 DEF OssOther
    <3>2. new = Next1 /\ old.clean
      BY <2>8, <1>1, <1>11 DEF OssOther, OssNextEntry, Sure
    <3>3. PICK name : entry.name = name
      OBVIOUS
    <3> HIDE DEF entry
    <3>4. name \in {"link", "lov", "other"} /\ Sure(old)
      BY <3>1, <3>2, <3>3, <2>2 DEF Sure
    <3>5. KeysOf(o, name) = {}
      BY <3>4, <1>1 DEF KeysOf
    <3>6. Have(o, old.i, KeysOf(o, name))'
      BY <3>5 DEF Have
    <3> QED
      BY <3>1, <3>2, <3>3, <3>4, <3>6, <2>2, <2>3
  <2>9. CASE OssType(o)
    <3>1. \E pc \in {"spin", "xattr"} : new = [old EXCEPT !.k = 1, !.pc = pc]
      <4> DEFINE next == [old EXCEPT !.k = 1,
                            !.pc = IF OssSlot(o).i_mode = "dir" /\ OssSlot(o).dir_spins
                                   THEN "spin" ELSE "xattr"]
      <4>1. new = next \/ new = [next EXCEPT !.clean = FALSE]
        BY <2>9, <1>12 DEF OssType, OssSet, OssStatement
      <4> QED
        BY <4>1, <1>1, <1>11 DEF Sure
    <3>2. /\ new.pc \in {"spin", "xattr"} /\ new.k = 1 /\ new.i = old.i /\ new.run = old.run
          /\ old.pc = "type" /\ Sure(old)
      BY <3>1, <2>9, <1>1, <1>11 DEF Sure, OssType
    <3>3. ASSUME NEW i \in Lustre(o), NEW k \in Entries(o, i), Past(new, i, k)
          PROVE  Past(old, i, k)
      <4>1. k \in Nat /\ k >= 1
        BY <1>1, ScannedSlot DEF Entries, Slot, Lustre, IInv
      <4> QED
        BY <3>2, <3>3, <4>1, <1>2, <1>3 DEF Past
    <3>4. Halfway(o, new)' /\ \A i \in Lustre(o) : Entered(new, i) => Entered(old, i)
      BY <3>2 DEF Halfway, Entered
    <3> QED
      BY <3>2, <3>3, <3>4, <1>10, <1>11
  <2>10. CASE OssNextInode(o)
    <3>1. new = [old EXCEPT !.pc = "inode", !.i = old.i + 1]
      BY <2>10, <1>1 DEF OssNextInode
    <3>2. /\ new.pc = "inode" /\ new.i = old.i + 1 /\ new.run = old.run
          /\ old.pc = "xattr" /\ old.k > Len(disk[o][old.i].xattrs) /\ Sure(old)
      BY <3>1, <2>10, <1>1, <1>11 DEF OssNextInode, OssSlot, Sure
    <3>3. ASSUME NEW i \in Lustre(o), NEW k \in Entries(o, i), Past(new, i, k)
          PROVE  Past(old, i, k)
      <4>1. k \in Nat /\ k <= Len(disk[o][i].xattrs) /\ Len(disk[o][i].xattrs) \in Nat
        BY <1>1, ScannedSlot DEF Entries, Slot, Lustre, IInv
      <4> QED
        BY <3>2, <3>3, <4>1, <1>2, <1>3 DEF Past
    <3>4. Halfway(o, new)' /\ \A i \in Lustre(o) : Entered(new, i) => Entered(old, i)
      BY <3>2, <1>2, <1>3 DEF Halfway, Entered
    <3> QED
      BY <3>2, <3>3, <3>4, <1>10, <1>11
  <2>11. CASE OssScanned(o) \/ OssLov(o) \/ OssDone(o)
    <3>1. new.pc \in {"lov", "done"} /\ new.i = old.i /\ new.run = old.run /\ Sure(old)
      <4>1. CASE OssScanned(o) \/ OssDone(o)
        BY <2>11, <4>1, <1>1, <1>11, <1>12 DEF OssScanned, OssDone, Sure
      <4>2. CASE OssLov(o)
        <5>1. old.pc = "lov" /\ \/ new = [old EXCEPT !.j = @ + 1]
                                \/ new = [[old EXCEPT !.j = @ + 1] EXCEPT !.clean = FALSE]
          BY <4>2, <1>12 DEF OssLov, OssStatement
        <5> QED
          BY <5>1, <1>1, <1>11 DEF Sure
      <4> QED
        BY <2>11, <4>1, <4>2
    <3>2. \A i \in Lustre(o) : Entered(new, i) => Entered(old, i)
      BY <3>1 DEF Entered
    <3>3. \A i, k : Past(new, i, k) => Past(old, i, k)
      BY <3>1 DEF Past
    <3>4. Halfway(o, new)'
      BY <3>1 DEF Halfway
    <3> QED
      BY <3>1, <3>2, <3>3, <3>4, <1>10, <1>11
  <2> QED
    BY <1>11, <2>1, <2>4, <2>5, <2>6, <2>7, <2>8, <2>9, <2>10, <2>11 DEF OssStep
<1> QED
  BY <1>7, <1>8, <1>9, <1>11 DEF OssMoves, Progress

\* An entry that a step of an object scan puts behind it is the one it stood at;
\* if that is a fid, the step is the merge.
LEMMA OssForward ==
    ASSUME IInv, NEW o \in Osts, OssMoves(o), NEW old, oss[o] = old, NEW new, oss'[o] = new,
           Sure(new), NEW i \in Lustre(o), NEW k \in Entries(o, i), Past(new, i, k)
    PROVE  /\ Sure(old) /\ saw' = saw
           /\ \/ Past(old, i, k)
              \/ /\ i = old.i /\ k = old.k
                 /\ Entry(o, i, k).name = "fid" =>
                      old.pc = "merge" /\ MergeStripes /\ UNCHANGED <<nodes, prop>>
<1>1. old \in ScannerState(o) /\ Located(o, old) /\ o \in DOMAIN oss
  BY DEF IInv, ScanInv
<1>2. old.i \in Nat /\ old.k \in Nat
  BY <1>1, TotalInodesAssumption DEF ScannerState, Servers
<1>3. i \in Nat /\ 1 <= i /\ k \in Nat /\ 1 <= k /\ k <= Len(disk[o][i].xattrs)
  <2>1. disk[o][i].xattrs \in Seq(Xattr)
    BY ScannedSlot DEF Lustre, IInv, Servers, Slot
  <2> QED
    BY <2>1 DEF Lustre, ScannedSlots, Entries
<1>4. Sure(new) /\ Past(new, i, k)
  OBVIOUS
<1>5. \A next : oss' = [oss EXCEPT ![o] = next] => new = next
  BY <1>1
<1>6. /\ new.clean /\ new.pc \notin {"idle", "exited", "killed"}
      /\ {"pc", "run", "i", "k", "j", "clean"} \subseteq DOMAIN old
  BY <1>1 DEF Sure, ScannerState
<1>7. CASE OssStart(o)
  <2>1. \E up \in BOOLEAN : new = Started(old.run + 1, up)
    BY <1>7, <1>5 DEF OssStart
  <2>2. new.i = 1 /\ new.pc \in {"inode", "exited"}
    BY <2>1 DEF Started
  <2> QED
    BY <2>2, <1>3, <1>4 DEF Past
<1>8. CASE OssKilled(o)
  <2>1. new.pc = "killed"
    BY <1>8, <1>1, <1>5 DEF OssKilled, ScannerState
  <2> QED
    BY <2>1, <1>4 DEF Sure
<1> DEFINE Either(next) == {next, [next EXCEPT !.clean = FALSE]}
           Next1 == [old EXCEPT !.k = @ + 1, !.pc = "xattr"]
<1>9. ASSUME OssStep(o)
      PROVE  saw' = saw
  BY <1>9, <1>5, <1>1 DEF OssMoves, OssStart, OssStep, OssInode, OssType, OssNextInode,
     OssScanned, OssLma, OssFoid, OssFid, OssMerge, OssOther, OssLov, OssDone, OssAt, Stopped
<1>10. CASE OssInode(o)
  <2>1. old.pc = "inode" /\ \/ new \in Either([old EXCEPT !.pc = "type"])
                            \/ new = [old EXCEPT !.i = @ + 1] /\ ~disk[o][old.i].h_magic
    BY <1>10, <1>5 DEF OssInode, OssSlot, OssStatement
  <2>2. old.clean /\ \/ new.pc = "type" /\ new.i = old.i
                     \/ new.pc = "inode" /\ new.i = old.i + 1 /\ ~disk[o][old.i].h_magic
    BY <2>1, <1>6
  <2> QED
    BY <2>1, <2>2, <1>2, <1>3, <1>4, <1>9, <1>10 DEF Past, Sure, Lustre, OssStep
<1>11. CASE OssType(o)
  <2> DEFINE next == [old EXCEPT !.k = 1, !.pc = IF OssSlot(o).i_mode = "dir"
                                                    /\ OssSlot(o).dir_spins
                                                 THEN "spin" ELSE "xattr"]
  <2>1. old.pc = "type" /\ new \in Either(next)
    BY <1>11, <1>5 DEF OssType, OssSet, OssStatement
  <2>2. new.k = 1 /\ new.i = old.i /\ old.clean
    BY <2>1, <1>6
  <2> QED
    BY <2>1, <2>2, <1>2, <1>3, <1>4, <1>9, <1>11 DEF Past, Sure, OssStep
<1>12. CASE OssNextInode(o)
  <2>1. /\ new.pc = "inode" /\ new.i = old.i + 1 /\ old.clean /\ old.pc = "xattr"
        /\ old.k > Len(disk[o][old.i].xattrs)
    BY <1>12, <1>1, <1>5, <1>6 DEF OssNextInode, OssSlot
  <2> QED
    BY <2>1, <1>2, <1>3, <1>4, <1>9, <1>12 DEF Past, Sure, OssStep
<1>13. CASE OssScanned(o) \/ OssLov(o) \/ OssDone(o)
  <2>1. /\ old.pc \in {"inode", "lov"}
        /\ \/ new = [old EXCEPT !.pc = "lov", !.j = 1] \/ new = [old EXCEPT !.pc = "done"]
           \/ new \in Either([old EXCEPT !.j = @ + 1]) /\ old.pc = "lov"
    BY <1>13, <1>1, <1>5, <1>6 DEF OssScanned, OssLov, OssDone, OssStatement
  <2>2. new.pc \in {"lov", "done"} /\ new.i = old.i /\ old.clean
    BY <2>1, <1>6
  <2> QED
    BY <2>1, <2>2, <1>4, <1>9, <1>13 DEF Past, Sure, OssStep
<1>14. CASE OssFoid(o) \/ OssOther(o)
  <2>1. /\ old.pc \in {"xattr", "f_oid"} /\ new \in Either(Next1)
        /\ Entry(o, old.i, old.k).name # "fid"
    BY <1>14, <1>1, <1>5 DEF OssFoid, OssOther, OssSet, OssStatement, OssNextEntry, OssAt,
       OssEntry, OssSlot, Entry, Located
  <2>2. new.k = old.k + 1 /\ new.i = old.i /\ old.clean
    BY <2>1, <1>6
  <2> QED
    BY <2>1, <2>2, <1>2, <1>3, <1>4, <1>9, <1>14 DEF Past, Sure, OssStep
<1>15. CASE OssLma(o) \/ OssFid(o)
  <2>1. /\ old.pc = "xattr"
        /\ new \in Either([old EXCEPT !.pc = "f_oid"]) \/ new \in Either([old EXCEPT !.pc = "merge"])
    BY <1>15, <1>5 DEF OssLma, OssFid, OssAt, OssSet, OssStatement
  <2>2. new.k = old.k /\ new.i = old.i /\ old.clean
    BY <2>1, <1>6
  <2> QED
    BY <2>1, <2>2, <1>4, <1>9, <1>15 DEF Past, Sure, OssStep
<1>16. CASE OssMerge(o)
  <2>1. old.pc = "merge" /\ new \in Either(Next1) /\ (MergeStripes \/ ~new.clean)
    <3>1. \/ MergeStripes /\ oss' = [oss EXCEPT ![o] = Next1]
          \/ oss' = [oss EXCEPT ![o] = [Next1 EXCEPT !.clean = FALSE]]
      BY <1>16 DEF OssMerge, OssStatement, MergeStripes, OssNextEntry
    <3>2. old.pc = "merge"
      BY <1>16 DEF OssMerge
    <3>3. Next1.clean = old.clean /\ [Next1 EXCEPT !.clean = FALSE].clean = FALSE
      BY <1>6
    <3> QED
      BY <3>1, <3>2, <3>3, <1>5
  <2>2. /\ new.k = old.k + 1 /\ new.i = old.i /\ old.clean /\ MergeStripes
        /\ UNCHANGED <<nodes, prop>>
    BY <2>1, <1>6 DEF MergeStripes, Merge
  <2> QED
    BY <2>1, <2>2, <1>2, <1>3, <1>4, <1>9, <1>16 DEF Past, Sure, OssStep
<1> QED
  BY <1>7, <1>8, <1>10, <1>11, <1>12, <1>13, <1>14, <1>15, <1>16 DEF OssMoves, OssStep

\* What a scan that is at its end has done.
LEMMA AllBehind ==
    ASSUME IInv, NEW s \in Servers, NEW scan, Sure(scan), scan.pc \in {"lov", "done"},
           Ended(s, scan), Progress(s, scan)
    PROVE  /\ \A i \in Lustre(s) : [srv |-> s, run |-> scan.run, inode_number |-> i] \in nodes
           /\ \A n \in nodes : n.srv = s => \A k \in Entries(s, n.inode_number) :
                \A key \in KeysOf(s, Entry(s, n.inode_number, k).name) : prop[n][key] # Null
<1>1. scan.i = TotalInodes[s] + 1 /\ Created(s, scan) /\ Written(s, scan)
  BY DEF Ended, Progress
<1>2. \A i \in Lustre(s) : i < scan.i
  BY <1>1, TotalInodesAssumption DEF Lustre, ScannedSlots
<1>3. \A n \in nodes : n.inode_number \in Lustre(n.srv)
  BY DEF IInv, DbInv, NodesInv
<1> QED
  BY <1>1, <1>2, <1>3 DEF Created, Written, Entered, Past, Have, NodesOf

\* A slot whose attributes of a name say something has an entry of that name.
LEMMA EntryOf ==
    ASSUME NEW s, NEW i
    PROVE  /\ LmaOf(disk[s][i]) # {} => \E k \in Entries(s, i) : Entry(s, i, k).name = "lma"
           /\ PfidOf(disk[s][i]) # {} => \E k \in Entries(s, i) : Entry(s, i, k).name = "link"
           /\ LovOidOf(disk[s][i]) # {} => \E k \in Entries(s, i) : Entry(s, i, k).name = "lov"
           /\ FfidOf(disk[s][i]) # {} => \E k \in Entries(s, i) : Entry(s, i, k).name = "fid"
<1>1. \A name : Attrs(disk[s][i], name) # {} =>
        \E k \in Entries(s, i) : Entry(s, i, k).name = name
  BY DEF Attrs, Entries, Entry
<1>2. /\ LmaOf(disk[s][i]) # {} => Attrs(disk[s][i], "lma") # {}
      /\ PfidOf(disk[s][i]) # {} => Attrs(disk[s][i], "link") # {}
      /\ LovOidOf(disk[s][i]) # {} => Attrs(disk[s][i], "lov") # {}
      /\ FfidOf(disk[s][i]) # {} => Attrs(disk[s][i], "fid") # {}
  BY DEF LmaOf, PfidOf, LovOidOf, FfidOf
<1> QED
  BY <1>1, <1>2

\* A file and an object whose properties are set and whose slots agree, agree.
LEMMA StripesAgree ==
    ASSUME IInv, WellFormed, DisjointNumbers, NEW o \in Osts,
           NEW b \in nodes, b.srv = o, NEW a \in Labelled("MDS"),
           prop[b].fid # Null, prop[a].lma # Null,
           <<b.inode_number, a.inode_number>> \in AttestedStripes(o)
    PROVE  SameValue(b, "fid", a, "lma")
<1>1. /\ a \in Node /\ a.srv = Mds /\ a.inode_number \in Lustre(Mds)
      /\ b \in Node /\ b.inode_number \in Lustre(o)
  BY Labels DEF Labelled, IInv, DbInv, DbTypeOK, NodesInv
<1>2. prop[b].fid \in FfidOf(SlotOf(b)) /\ prop[a].lma \in LmaOf(SlotOf(a))
  BY <1>1 DEF IInv, DbInv, NodesInv, FromDisk
<1>3. Single(FfidOf(SlotOf(b))) /\ Single(LmaOf(SlotOf(a)))
  BY <1>1, OneOfEach DEF SlotOf, IInv, Servers
<1>4. FfidOf(SlotOf(b)) \cap LmaOf(SlotOf(a)) # {}
  BY <1>1 DEF AttestedStripes, SlotOf
<1> QED
  BY <1>2, <1>3, <1>4 DEF SameValue, Single

\* Where the lov xattr can only mean the first object, what is printed of it is that
\* object's id.
LEMMA DefiniteOids ==
    ASSUME IInv, WellFormed, NEW o \in Osts, NEW ij \in DefiniteLov(o)
    PROVE  /\ LovOidOf(disk[Mds][ij[1]]) \subseteq FoidOf(disk[o][ij[2]])
           /\ LovOidOf(disk[Mds][ij[1]]) # {}
<1> DEFINE slot == disk[Mds][ij[1]]
<1>1. /\ ij[1] \in Lustre(Mds) /\ Locatable(ij[1])
      /\ \E object \in FirstOf(slot) : object.oi_id \in FoidOf(disk[o][ij[2]])
  BY DEF DefiniteLov, AttestedLov
<1>2. slot \in Slot /\ ij[1] \in SlotNos(Mds)
  <2>1. TotalInodes[Mds] \in Nat
    BY TotalInodesAssumption DEF Servers
  <2> QED
    BY <1>1, <2>1, ScannedSlot DEF Lustre, Servers, IInv, SlotNos, ScannedSlots
<1>3. PICK x \in Attrs(slot, "lov") :
        x.lmm_magic = "v1" /\ x.lmm_objects # <<>> /\ x.lmm_objects[1].oi_id \in FoidOf(disk[o][ij[2]])
  BY <1>1 DEF FirstOf
<1>4. \A y \in Attrs(slot, "lov") : y = x
  BY <1>2, <1>3 DEF WellFormed, Attrs, Servers
<1>5. x.lmm_objects[1].oi_id \in Nat
  <2> HIDE DEF slot
  <2>1. x \in Xattr /\ x.name = "lov"
    BY <1>2, <1>3 DEF Attrs, Slot
  <2>2. x \in LovAttr
    BY <2>1 DEF Xattr, LmaAttr, LinkAttr, FidAttr, OtherAttr
  <2>3. x.lmm_objects \in Seq(LovObject)
    BY <2>2 DEF LovAttr
  <2>4. x.lmm_objects[1] \in LovObject
    BY <1>3, <2>3
  <2> DEFINE first == x.lmm_objects[1]
  <2>5. first.oi_id \in OiIds
    <3> HIDE DEF first
    <3>1. first \in LovObject
      BY <2>4 DEF first
    <3> QED
      BY <3>1 DEF LovObject
  <2> QED
    BY <2>5, WidthAssumption
<1>6. x.lmm_objects[1].oi_id < OidLimit
  BY <1>1, <1>3 DEF Locatable
<1>7. FirstObject(x) = {x.lmm_objects[1].oi_id}
  BY <1>3, <1>5, <1>6, WidthAssumption DEF FirstObject, Printed
<1> QED
  BY <1>3, <1>4, <1>7 DEF LovOidOf

LEMMA LovAgree ==
    ASSUME IInv, WellFormed, DisjointNumbers, NEW o \in Osts,
           NEW a \in Labelled("MDS"), NEW b \in nodes, b.srv = o,
           prop[a].ost_oid # Null, prop[b].f_oid # Null,
           <<a.inode_number, b.inode_number>> \in DefiniteLov(o)
    PROVE  SameValue(a, "ost_oid", b, "f_oid")
<1>1. /\ a \in Node /\ a.srv = Mds /\ a.inode_number \in Lustre(Mds)
      /\ b \in Node /\ b.inode_number \in Lustre(o)
  BY Labels DEF Labelled, IInv, DbInv, DbTypeOK, NodesInv
<1>2. prop[a].ost_oid \in LovOidOf(SlotOf(a)) /\ prop[b].f_oid \in FoidOf(SlotOf(b))
  BY <1>1 DEF IInv, DbInv, NodesInv, FromDisk
<1>3. Single(FoidOf(SlotOf(b)))
  BY <1>1, OneOfEach DEF SlotOf, IInv, Servers
<1>4. LovOidOf(SlotOf(a)) \subseteq FoidOf(SlotOf(b))
  BY <1>1, DefiniteOids DEF SlotOf
<1> QED
  BY <1>2, <1>3, <1>4 DEF SameValue, Single

\* What the disks say does not change, what a complete graph is included.
LEMMA DiskSame ==
    ASSUME UNCHANGED disk
    PROVE  /\ WellFormed' <=> WellFormed
           /\ DisjointNumbers' <=> DisjointNumbers
           /\ LinkAfterLma' <=> LinkAfterLma
           /\ \A s, i : (Entries(s, i))' = Entries(s, i)
           /\ \A s, i, k : (Entry(s, i, k))' = Entry(s, i, k)
           /\ \A s, name : (Positions(s, name))' = Positions(s, name)
           /\ \A o : AttestedStripes(o)' = AttestedStripes(o)
           /\ \A o : DefiniteLov(o)' = DefiniteLov(o)
           /\ \A i : Locatable(i)' <=> Locatable(i)
           /\ \A s : Lustre(s)' = Lustre(s)
<1>1. /\ AttestedParents' = AttestedParents
      /\ \A o : AttestedLov(o)' = AttestedLov(o)
      /\ \A o : AttestedStripes(o)' = AttestedStripes(o)
      /\ \A s : Lustre(s)' = Lustre(s)
      /\ DisjointNumbers' <=> DisjointNumbers
      /\ \A i : Locatable(i)' <=> Locatable(i)
  BY DiskFixed
<1>2. WellFormed' <=> WellFormed
  BY DEF WellFormed
<1>3. \A s, name : (Positions(s, name))' = Positions(s, name)
  BY <1>1 DEF Positions
<1>4. LinkAfterLma' <=> LinkAfterLma
  BY <1>1, <1>3 DEF LinkAfterLma
<1>5. \A o : DefiniteLov(o)' = DefiniteLov(o)
  BY <1>1 DEF DefiniteLov
<1> QED
  BY <1>1, <1>2, <1>3, <1>4, <1>5 DEF Entries, Entry

\* A metadata scan that starts, or runs, is not one that an object scan has seen.
LEMMA MdsUnseen ==
    ASSUME IInv, SawInv, MdsMoves
    PROVE  SawInv' /\ \A o \in Osts : ~After(o)'
<1> PICK old : mds = old
  OBVIOUS
<1> PICK new : mds' = new
  OBVIOUS
<1>1. old \in ScannerState(Mds) /\ saw' = saw /\ saw \in [Osts -> 0 .. MaxRuns]
  BY DEF IInv, ScanInv, MdsMoves
<1>2. old.run \in Nat /\ MaxRuns \in Nat
  BY <1>1, BoundsAssumption DEF ScannerState
<1>3. CASE MdsStart
  <2>1. \E up \in BOOLEAN : new = Started(old.run + 1, up)
    BY <1>3 DEF MdsStart
  <2>2. new.run = old.run + 1
    BY <2>1 DEF Started
  <2> QED
    BY <2>2, <1>1, <1>2 DEF SawInv, After
<1>4. CASE MdsStep \/ MdsKilled
  <2>1. old.pc # "done" /\ new.run = old.run
    BY <1>4, <1>1 DEF MdsStep, MdsInode, MdsType, MdsNextInode, MdsDone, MdsLma, MdsLink,
       MdsMerge, MdsLov, MdsOther, MdsKilled, MdsSet, MdsStatement, MdsNextEntry, MdsAt,
       Stopped, ScannerState
  <2> QED
    BY <2>1, <1>1, <1>2 DEF SawInv, After
<1> QED
  BY <1>3, <1>4 DEF MdsMoves

LEMMA OssSees ==
    ASSUME IInv, SawInv, NEW o \in Osts, OssMoves(o)
    PROVE  SawInv'
<1>1. mds' = mds /\ saw \in [Osts -> 0 .. MaxRuns] /\ mds.run \in Nat
  BY BoundsAssumption DEF OssMoves, IInv, ScanInv, ScannerState
<1>2. \A p \in Osts : \/ saw'[p] = saw[p]
                      \/ saw'[p] = IF mds.pc = "done" /\ mds.clean THEN mds.run ELSE 0
  BY <1>1 DEF OssMoves
<1> QED
  BY <1>1, <1>2 DEF SawInv, After

LEMMA StripesMoved ==
    ASSUME IInv, Grows, SawInv, NEW o \in Osts, OssMoves(o), Progress(o, oss[o]),
           Progress(Mds, mds), Ended(Mds, mds), StripeProgress(o)
    PROVE  StripeProgress(o)'
<1> PICK old : oss[o] = old
  OBVIOUS
<1> PICK new : oss'[o] = new
  OBVIOUS
<1>1. UNCHANGED disk
  BY DEF Grows
<1> SUFFICES ASSUME WellFormed, DisjointNumbers, Sure(new), After(o)',
                    NEW i \in Lustre(o), NEW k \in Entries(o, i),
                    Entry(o, i, k).name = "fid", Past(new, i, k),
                    NEW b \in NodesOf(o, i)', NEW a \in Labelled("MDS")',
                    <<i, a.inode_number>> \in AttestedStripes(o)
             PROVE  [type |-> "OST_child_of", from |-> b, to |-> a] \in rels'
  BY <1>1, DiskSame DEF StripeProgress, Sure, Past
<1>2. /\ Sure(old) /\ saw' = saw
      /\ \/ Past(old, i, k)
         \/ /\ i = old.i /\ k = old.k
            /\ old.pc = "merge" /\ MergeStripes /\ UNCHANGED <<nodes, prop>>
  BY OssForward
<1>3. mds' = mds
  BY DEF OssMoves
<1>4. After(o) /\ mds.pc = "done" /\ mds.clean
  BY <1>2, <1>3 DEF After, SawInv
<1>5. i \in Nat /\ o # Mds /\ o \in Servers
  BY ServersAssumption DEF Lustre, ScannedSlots, Servers
<1>6. \A n \in nodes' \ nodes : n.srv = o /\ old.pc = "inode" /\ n.inode_number = old.i
  BY OssCreates
<1>7. nodes' \subseteq Node
  <2>1. DiskStep
    BY OssMovesStep DEF IInv
  <2>2. DbTypeOK'
    BY <1>1, <2>1, DiskStepKeeps DEF IInv, DbInv
  <2> QED
    BY <2>2 DEF DbTypeOK
<1>8. a \in Labelled("MDS")
  BY <1>5, <1>6, <1>7, Labels DEF Labelled
<1>9. CASE Past(old, i, k)
  <2>1. ~(old.pc = "inode" /\ i = old.i)
    BY <1>5, <1>9 DEF Past
  <2>2. b \in NodesOf(o, i)
    BY <2>1, <1>6 DEF NodesOf
  <2>3. [type |-> "OST_child_of", from |-> b, to |-> a] \in rels
    BY <2>2, <1>2, <1>4, <1>8, <1>9 DEF StripeProgress
  <2> QED
    BY <2>3 DEF Grows
<1>10. CASE ~Past(old, i, k)
  <2>1. /\ i = old.i /\ k = old.k /\ old.pc = "merge" /\ MergeStripes
        /\ UNCHANGED <<nodes, prop>>
    BY <1>2, <1>10
  <2>2. b \in NodesOf(o, i) /\ b \in nodes /\ b.srv = o /\ b.inode_number = i
    BY <2>1 DEF NodesOf
  <2>3. prop[b].fid # Null
    <3>1. Have(o, i, KeysOf(o, "fid"))
      BY <1>2, <2>1 DEF Progress, Halfway
    <3>2. "fid" \in KeysOf(o, "fid")
      BY <1>5 DEF KeysOf
    <3> QED
      BY <2>2, <3>1, <3>2 DEF Have
  <2>4. prop[a].lma # Null
    <3>1. a \in nodes /\ a.srv = Mds
      BY <1>8, Labels DEF Labelled, IInv, DbInv, DbTypeOK
    <3>2. LmaOf(disk[Mds][a.inode_number]) # {}
      BY DEF AttestedStripes
    <3>3. PICK l \in Entries(Mds, a.inode_number) : Entry(Mds, a.inode_number, l).name = "lma"
      BY <3>2, EntryOf
    <3>4. "lma" \in KeysOf(Mds, "lma")
      BY DEF KeysOf
    <3>5. Sure(mds)
      BY <1>4 DEF Sure
    <3> QED
      BY <1>4, <3>1, <3>3, <3>4, <3>5, AllBehind DEF Servers
  <2>5. SameValue(b, "fid", a, "lma")
    BY <1>8, <2>2, <2>3, <2>4, StripesAgree
  <2>6. b \in Labelled("OSS")
    BY <1>5, <2>2 DEF Labelled, Label
  <2> QED
    BY <1>8, <2>1, <2>5, <2>6, MergeMakes DEF MergeStripes
<1> QED
  BY <1>9, <1>10

\* In its last loop an object scan counts numbers, and merges at each of them.
LEMMA LovForward ==
    ASSUME IInv, NEW o \in Osts, OssMoves(o), NEW old, oss[o] = old, NEW new, oss'[o] = new,
           Sure(new), new.pc \in {"lov", "done"}
    PROVE  /\ Sure(old) /\ saw' = saw /\ UNCHANGED <<nodes, prop>>
           /\ \/ old.pc = "inode" /\ new.j = 1
              \/ old.pc = "lov" /\ new.j = old.j
              \/ old.pc = "lov" /\ new.j = old.j + 1 /\ MergeLov(old.j)
           /\ new.pc = "done" => rels' = rels
<1>1. old \in ScannerState(o) /\ o \in DOMAIN oss
  BY DEF IInv, ScanInv
<1>2. /\ new.clean /\ new.pc \notin {"idle", "exited", "killed"}
      /\ {"pc", "run", "i", "k", "j", "clean"} \subseteq DOMAIN old
  BY <1>1 DEF Sure, ScannerState
<1>3. \A next : oss' = [oss EXCEPT ![o] = next] => new = next
  BY <1>1
<1> DEFINE Either(next) == {next, [next EXCEPT !.clean = FALSE]}
<1>4. CASE OssStart(o)
  <2>1. \E up \in BOOLEAN : new = Started(old.run + 1, up)
    BY <1>4, <1>3 DEF OssStart
  <2> QED
    BY <2>1 DEF Started
<1>5. CASE OssKilled(o)
  <2>1. new.pc = "killed"
    BY <1>5, <1>1, <1>2 DEF OssKilled
  <2> QED
    BY <2>1
<1>6. ASSUME OssStep(o)
      PROVE  saw' = saw
  BY <1>6, <1>3, <1>1 DEF OssMoves, OssStart, OssStep, OssInode, OssType, OssNextInode,
     OssScanned, OssLma, OssFoid, OssFid, OssMerge, OssOther, OssLov, OssDone, OssAt, Stopped
<1>7. CASE OssInode(o) \/ OssNextInode(o)
  <2>1. \/ new = [old EXCEPT !.pc = "inode", !.i = old.i + 1]
        \/ new \in Either([old EXCEPT !.pc = "type"])
        \/ new = [old EXCEPT !.i = @ + 1] /\ old.pc = "inode"
    BY <1>7, <1>1, <1>3 DEF OssInode, OssNextInode, OssStatement
  <2>2. new.pc \in {"type", "inode"}
    BY <2>1, <1>2
  <2> QED
    BY <2>2
<1>8. CASE OssType(o)
  <2> DEFINE next == [old EXCEPT !.k = 1, !.pc = IF OssSlot(o).i_mode = "dir"
                                                    /\ OssSlot(o).dir_spins
                                                 THEN "spin" ELSE "xattr"]
  <2>1. new \in Either(next)
    BY <1>8, <1>3 DEF OssType, OssSet, OssStatement
  <2>2. new.pc \in {"spin", "xattr"}
    BY <2>1, <1>2
  <2> QED
    BY <2>2
<1>9. CASE OssFoid(o) \/ OssOther(o) \/ OssMerge(o)
  <2>1. new \in Either([old EXCEPT !.k = @ + 1, !.pc = "xattr"])
    BY <1>9, <1>3 DEF OssFoid, OssOther, OssMerge, OssSet, OssStatement, OssNextEntry
  <2>2. new.pc = "xattr"
    BY <2>1, <1>2
  <2> QED
    BY <2>2
<1>10. CASE OssLma(o) \/ OssFid(o)
  <2>1. new \in Either([old EXCEPT !.pc = "f_oid"]) \cup Either([old EXCEPT !.pc = "merge"])
    BY <1>10, <1>3 DEF OssLma, OssFid, OssSet, OssStatement
  <2>2. new.pc \in {"f_oid", "merge"}
    BY <2>1, <1>2
  <2> QED
    BY <2>2
<1>11. CASE OssScanned(o)
  <2>1. new = [old EXCEPT !.pc = "lov", !.j = 1] /\ old.pc = "inode" /\ UNCHANGED dbVars
    BY <1>11, <1>1, <1>3 DEF OssScanned
  <2>2. new.j = 1 /\ old.clean
    BY <2>1, <1>2
  <2> QED
    BY <2>1, <2>2, <1>6, <1>11 DEF OssStep, Sure, dbVars
<1>12. CASE OssLov(o)
  <2> DEFINE next == [old EXCEPT !.j = @ + 1]
  <2>1. /\ old.pc = "lov"
        /\ \/ MergeLov(old.j) /\ new = next
           \/ new = [next EXCEPT !.clean = FALSE]
    BY <1>12, <1>3 DEF OssLov, OssStatement, MergeLov
  <2>2. new = next => new.j = old.j + 1 /\ old.clean /\ new.pc = old.pc
    BY <1>2
  <2>3. new # [next EXCEPT !.clean = FALSE]
    BY <1>2
  <2> QED
    BY <2>1, <2>2, <2>3, <1>6, <1>12 DEF OssStep, Sure, MergeLov, Merge
<1>13. CASE OssDone(o)
  <2>1. new = [old EXCEPT !.pc = "done"] /\ old.pc = "lov" /\ UNCHANGED dbVars
    BY <1>13, <1>1, <1>3 DEF OssDone
  <2>2. new.j = old.j /\ old.clean
    BY <2>1, <1>2
  <2> QED
    BY <2>1, <2>2, <1>6, <1>13 DEF OssStep, Sure, dbVars
<1> QED
  BY <1>4, <1>5, <1>7, <1>8, <1>9, <1>10, <1>11, <1>12, <1>13 DEF OssMoves, OssStep

LEMMA LovMoved ==
    ASSUME IInv, Grows, SawInv, NEW o \in Osts, OssMoves(o),
           Progress(o, oss[o]), Ended(o, oss[o]),
           Progress(Mds, mds), Ended(Mds, mds), LovProgress(o)
    PROVE  LovProgress(o)'
<1> PICK old : oss[o] = old
  OBVIOUS
<1> PICK new : oss'[o] = new
  OBVIOUS
<1>1. UNCHANGED disk
  BY DEF Grows
<1> SUFFICES ASSUME WellFormed, DisjointNumbers, Sure(new), After(o)',
                    new.pc \in {"lov", "done"},
                    NEW a \in Labelled("MDS")', NEW b \in nodes', b.srv = o,
                    a.inode_number < new.j,
                    <<a.inode_number, b.inode_number>> \in DefiniteLov(o)
             PROVE  [type |-> "LOV_parent_of", from |-> a, to |-> b] \in rels'
  BY <1>1, DiskSame DEF LovProgress, Sure
<1>2. /\ Sure(old) /\ saw' = saw /\ UNCHANGED <<nodes, prop>>
      /\ \/ old.pc = "inode" /\ new.j = 1
         \/ old.pc = "lov" /\ new.j = old.j
         \/ old.pc = "lov" /\ new.j = old.j + 1 /\ MergeLov(old.j)
  BY LovForward
<1>3. a \in Labelled("MDS") /\ a \in nodes /\ a.srv = Mds /\ b \in nodes /\ b \in Labelled("OSS")
  BY <1>2, Labels, ServersAssumption DEF Labelled, Label, IInv, DbInv, DbTypeOK
<1>4. a.inode_number \in Nat /\ 1 <= a.inode_number /\ old.j \in Nat
  BY <1>3 DEF IInv, DbInv, NodesInv, Lustre, ScannedSlots, ScanInv, ScannerState
<1>5. After(o) /\ mds.pc = "done" /\ mds.clean
  BY <1>2 DEF After, SawInv, OssMoves
<1>6. CASE old.pc = "lov" /\ a.inode_number < old.j
  <2>1. [type |-> "LOV_parent_of", from |-> a, to |-> b] \in rels
    BY <1>2, <1>3, <1>5, <1>6 DEF LovProgress
  <2> QED
    BY <2>1 DEF Grows
<1>7. CASE old.pc = "lov" /\ a.inode_number = old.j /\ MergeLov(old.j)
  <2>1. LovOidOf(disk[Mds][a.inode_number]) # {} /\ FoidOf(disk[o][b.inode_number]) # {}
    BY DefiniteOids
  <2>2. prop[a].ost_oid # Null
    <3>1. PICK l \in Entries(Mds, a.inode_number) : Entry(Mds, a.inode_number, l).name = "lov"
      BY <2>1, EntryOf
    <3>2. "ost_oid" \in KeysOf(Mds, "lov")
      BY DEF KeysOf
    <3>3. Sure(mds)
      BY <1>5 DEF Sure
    <3> QED
      BY <1>3, <1>5, <3>1, <3>2, <3>3, AllBehind DEF Servers
  <2>3. prop[b].f_oid # Null
    <3>1. PICK l \in Entries(o, b.inode_number) : Entry(o, b.inode_number, l).name = "lma"
      <4>1. LmaOf(disk[o][b.inode_number]) # {}
        BY <2>1 DEF LmaOf, FoidOf
      <4> QED
        BY ONLY <4>1, EntryOf
    <3>2. "f_oid" \in KeysOf(o, "lma")
      <4>1. o # Mds
        BY ServersAssumption
      <4> QED
        BY <4>1 DEF KeysOf
    <3> QED
      BY <1>2, <1>3, <1>7, <3>1, <3>2, AllBehind DEF Servers
  <2>4. SameValue(a, "ost_oid", b, "f_oid")
    BY <1>3, <2>2, <2>3, LovAgree
  <2>5. a \in Numbered("MDS", old.j)
    BY <1>3, <1>7 DEF Numbered
  <2> QED
    BY <1>3, <1>7, <2>4, <2>5, MergeMakes DEF MergeLov
<1> QED
  BY <1>2, <1>4, <1>6, <1>7

\* A scan that does not move, and what it has seen, while no node of its own or of
\* the metadata server is created.
LEMMA ObjectsStay ==
    ASSUME IInv, Grows, NEW o \in Osts, oss'[o] = oss[o], saw'[o] = saw[o], mds' = mds,
           \A n \in nodes' \ nodes : n \in Node /\ n.srv # o /\ n.srv # Mds,
           StripeProgress(o), LovProgress(o)
    PROVE  StripeProgress(o)' /\ LovProgress(o)'
<1>1. UNCHANGED disk /\ rels \subseteq rels'
  BY DEF Grows
<1>2. \A i : NodesOf(o, i)' \subseteq NodesOf(o, i)
  BY DEF NodesOf
<1>3. Labelled("MDS")' \subseteq Labelled("MDS")
  BY Labels DEF Labelled
<1>4. \A n \in nodes' : n.srv = o => n \in nodes
  OBVIOUS
<1>5. StripeProgress(o)'
  BY <1>1, <1>2, <1>3, DiskSame DEF StripeProgress, After
<1>6. LovProgress(o)'
  BY <1>1, <1>3, <1>4, DiskSame DEF LovProgress, After
<1> QED
  BY <1>5, <1>6

-----------------------------------------------------------------------------
(***************************************************************************)
(* The invariant, and that nothing is missing.                             *)
(***************************************************************************)
LEMMA InitComplete == Init => CompleteInv
<1> SUFFICES ASSUME Init PROVE CompleteInv
  OBVIOUS
<1>1. /\ mds = Idle /\ saw = [o \in Osts |-> 0] /\ oss = [o \in Osts |-> Idle]
      /\ prop = [n \in Node |-> NoProperties]
  BY DEF Init, MdsInit, OssInit, DbInit
<1>2. Idle.pc = "idle" /\ Idle.run = 0
  BY DEF Idle
<1>3. Foreign
  BY <1>1 DEF Foreign, NoProperties
<1>4. SawInv
  BY <1>1, <1>2 DEF SawInv, After
<1>5. \A s : Progress(s, Idle) /\ Ended(s, Idle)
  BY <1>2 DEF Progress, Ended, Sure
<1>6. ParentProgress /\ \A o \in Osts : StripeProgress(o) /\ LovProgress(o)
  BY <1>1, <1>2 DEF ParentProgress, StripeProgress, LovProgress, Sure
<1> QED
  BY <1>1, <1>3, <1>4, <1>5, <1>6, InitIInv DEF CompleteInv, WorkInv

\* A step of the metadata scanner.
LEMMA MdsComplete ==
    ASSUME CompleteInv, MdsMoves
    PROVE  WorkInv'
<1>1. IInv /\ WorkInv
  BY DEF CompleteInv
<1>2. DiskStep /\ UNCHANGED disk
  BY <1>1, NextDiskStep DEF Next
<1>3. Grows /\ Foreign'
  BY <1>1, <1>2, StepGrows, StepForeign DEF WorkInv
<1>4. SawInv' /\ \A o \in Osts : ~After(o)'
  BY <1>1, MdsUnseen DEF WorkInv
<1>5. Progress(Mds, mds)' /\ Ended(Mds, mds)'
  BY <1>1, <1>3, MdsProgress DEF WorkInv
<1>6. ParentProgress'
  BY <1>1, <1>3, ParentsMoved DEF WorkInv
<1>7. ASSUME NEW o \in Osts
      PROVE  /\ Progress(o, oss[o])' /\ Ended(o, oss[o])'
             /\ StripeProgress(o)' /\ LovProgress(o)'
  <2>1. oss'[o] = oss[o]
    BY DEF MdsMoves
  <2>2. \A n \in nodes' \ nodes : n.srv # o
    BY MdsCreates, ServersAssumption
  <2>3. Progress(o, oss[o])'
    BY <1>1, <1>3, <2>1, <2>2, OtherProgress DEF WorkInv
  <2>4. Ended(o, oss[o])'
    BY <1>1, <2>1 DEF WorkInv, Ended
  <2>5. StripeProgress(o)' /\ LovProgress(o)'
    BY <1>4 DEF StripeProgress, LovProgress
  <2> QED
    BY <2>3, <2>4, <2>5
<1> QED
  BY <1>3, <1>4, <1>5, <1>6, <1>7 DEF WorkInv

\* A metadata scan that does not move, while no metadata node is created.
LEMMA ParentsStay ==
    ASSUME IInv, Grows, mds' = mds, \A n \in nodes' \ nodes : n \in Node /\ n.srv # Mds,
           ParentProgress
    PROVE  ParentProgress'
<1>1. UNCHANGED disk /\ rels \subseteq rels' /\ Labelled("MDS")' \subseteq Labelled("MDS")
  BY Labels DEF Grows, Labelled
<1>2. /\ Positions(Mds, "lma")' = Positions(Mds, "lma")
      /\ Positions(Mds, "link")' = Positions(Mds, "link")
      /\ AttestedParents' = AttestedParents /\ (WellFormed' <=> WellFormed)
  BY <1>1, DiskSame, DiskFixed
<1> QED
  BY <1>1, <1>2 DEF ParentProgress

\* A step of an object scanner.
LEMMA OssComplete1 ==
    ASSUME CompleteInv, NEW p \in Osts, OssMoves(p)
    PROVE  WorkInv'
<1>1. IInv /\ WorkInv
  BY DEF CompleteInv
<1>2. DiskStep /\ UNCHANGED disk
  BY <1>1, NextDiskStep DEF Next
<1>3. Grows /\ Foreign'
  BY <1>1, <1>2, StepGrows, StepForeign DEF WorkInv
<1>4. DbTypeOK'
  BY <1>1, <1>2, DiskStepKeeps DEF IInv, DbInv
<1>5. \A n \in nodes' \ nodes : n \in Node /\ n.srv = p /\ n.srv # Mds
  BY <1>4, OssCreates, ServersAssumption DEF DbTypeOK
<1>6. mds' = mds /\ \A o \in Osts : o # p => oss'[o] = oss[o] /\ saw'[o] = saw[o]
  BY <1>1 DEF OssMoves, OssStart, OssStep, OssInode, OssType, OssNextInode, OssScanned,
     OssLma, OssFoid, OssFid, OssMerge, OssOther, OssLov, OssDone, OssKilled, OssSet,
     OssStatement, IInv, ScanInv
<1>7. SawInv'
  BY <1>1, OssSees DEF WorkInv
<1>8. Progress(Mds, mds)' /\ Ended(Mds, mds)'
  <2>1. Progress(Mds, mds)'
    BY <1>1, <1>3, <1>5, <1>6, OtherProgress DEF WorkInv
  <2> QED
    BY <2>1, <1>1, <1>6 DEF WorkInv, Ended
<1>9. ParentProgress'
  BY <1>1, <1>3, <1>5, <1>6, ParentsStay DEF WorkInv
<1>10. ASSUME NEW o \in Osts
       PROVE  /\ Progress(o, oss[o])' /\ Ended(o, oss[o])'
              /\ StripeProgress(o)' /\ LovProgress(o)'
  <2>1. CASE o = p
    <3>1. Progress(p, oss[p])' /\ Ended(p, oss[p])'
      BY <1>1, <1>3, OssProgress DEF WorkInv
    <3>2. StripeProgress(p)'
      BY <1>1, <1>3, StripesMoved DEF WorkInv
    <3>3. LovProgress(p)'
      BY <1>1, <1>3, LovMoved DEF WorkInv
    <3> QED
      BY <2>1, <3>1, <3>2, <3>3
  <2>2. CASE o # p
    <3>1. oss'[o] = oss[o] /\ saw'[o] = saw[o]
      BY <1>6, <2>2
    <3>2. Progress(o, oss[o])'
      BY <1>1, <1>3, <1>5, <2>2, <3>1, OtherProgress DEF WorkInv
    <3>3. Ended(o, oss[o])'
      BY <1>1, <3>1 DEF WorkInv, Ended
    <3>4. StripeProgress(o)' /\ LovProgress(o)'
      BY <1>1, <1>3, <1>5, <1>6, <2>2, <3>1, ObjectsStay DEF WorkInv
    <3> QED
      BY <3>2, <3>3, <3>4
  <2> QED
    BY <2>1, <2>2
<1> QED
  BY <1>3, <1>7, <1>8, <1>9, <1>10 DEF WorkInv

LEMMA NextComplete == CompleteInv /\ [Next]_vars => CompleteInv'
<1> SUFFICES ASSUME CompleteInv, [Next]_vars PROVE CompleteInv'
  OBVIOUS
<1>1. IInv'
  BY NextIInv DEF CompleteInv
<1>2. CASE Next
  BY <1>1, <1>2, MdsComplete, OssComplete1 DEF Next, CompleteInv
<1>3. CASE UNCHANGED vars
  <2>1. UNCHANGED <<disk, nodes, prop, rels, mds, oss, saw>>
    BY <1>3 DEF vars, dbVars
  <2>2. Grows /\ nodes' \ nodes = {}
    BY <2>1 DEF Grows
  <2>3. Foreign' /\ SawInv'
    BY <2>1 DEF CompleteInv, WorkInv, Foreign, SawInv, After
  <2>4. Progress(Mds, mds)' /\ Ended(Mds, mds)' /\ ParentProgress'
    BY <2>1, <2>2, OtherProgress, ParentsStay DEF CompleteInv, WorkInv, Ended
  <2>5. ASSUME NEW o \in Osts
        PROVE  /\ Progress(o, oss[o])' /\ Ended(o, oss[o])'
               /\ StripeProgress(o)' /\ LovProgress(o)'
    BY <2>1, <2>2, OtherProgress, ObjectsStay DEF CompleteInv, WorkInv, Ended
  <2> QED
    BY <1>1, <2>3, <2>4, <2>5 DEF CompleteInv, WorkInv
<1> QED
  BY <1>2, <1>3

LEMMA SpecComplete == Spec => []CompleteInv
  BY InitComplete, NextComplete, PTL DEF Spec

LEMMA ParentsDone ==
    ASSUME CompleteInv
    PROVE  ParentsComplete
<1> SUFFICES ASSUME WellFormed, LinkAfterLma, mds.pc = "done", mds.clean,
                    NEW a \in Labelled("MDS"), NEW b \in Labelled("MDS"),
                    <<a.inode_number, b.inode_number>> \in AttestedParents
             PROVE  MdsEdge(a, b) \in rels
  BY DEF ParentsComplete, MdsEdge
<1>1. IInv /\ ParentProgress /\ Ended(Mds, mds) /\ Sure(mds)
  BY DEF CompleteInv, WorkInv, Sure
<1>2. a.inode_number \in Lustre(Mds) /\ b.inode_number \in Lustre(Mds)
  BY DEF AttestedParents
<1>3. PICK k \in Entries(Mds, a.inode_number) : Entry(Mds, a.inode_number, k).name = "lma"
  <2>1. LmaOf(disk[Mds][a.inode_number]) # {}
    BY DEF AttestedParents
  <2> QED
    BY <2>1, EntryOf
<1>4. PICK l \in Entries(Mds, b.inode_number) : Entry(Mds, b.inode_number, l).name = "link"
  <2>1. PfidOf(disk[Mds][b.inode_number]) # {}
    BY DEF AttestedParents
  <2> QED
    BY <2>1, EntryOf
<1> DEFINE p == <<a.inode_number, k>>
           r == <<b.inode_number, l>>
<1>5. p \in Positions(Mds, "lma") /\ r \in Positions(Mds, "link")
  BY <1>2, <1>3, <1>4 DEF Positions, Entries, Entry
<1>6. PICK z \in Positions(Mds, "link") : Before(p, z)
  BY <1>5 DEF LinkAfterLma
<1>7. \A q \in Positions(Mds, "link") \cup Positions(Mds, "lma") :
        q[1] \in Nat /\ q[2] \in Nat /\ q[1] < mds.i
  <2> SUFFICES ASSUME NEW q \in Positions(Mds, "link") \cup Positions(Mds, "lma")
               PROVE  q[1] \in Nat /\ q[2] \in Nat /\ q[1] < mds.i
    OBVIOUS
  <2>1. q[1] \in Lustre(Mds) /\ q[2] \in Entries(Mds, q[1])
    BY PositionIs
  <2>2. q[1] \in Nat /\ q[2] \in Nat /\ q[1] <= TotalInodes[Mds]
    BY <1>1, <2>1, PositionNumbers DEF Servers, Lustre, ScannedSlots
  <2>3. mds.i = TotalInodes[Mds] + 1 /\ TotalInodes[Mds] \in Nat
    BY <1>1, TotalInodesAssumption DEF Ended, Servers
  <2> QED
    BY <2>2, <2>3
<1>8. \E q \in Positions(Mds, "link") : Before(p, q) /\ ~Before(q, r)
  <2>1. CASE Before(z, r)
    BY <1>5, <1>6, <1>7, <2>1 DEF Before
  <2>2. CASE ~Before(z, r)
    BY <1>6, <2>2
  <2> QED
    BY <2>1, <2>2
<1>9. PICK q \in Positions(Mds, "link") : Before(p, q) /\ ~Before(q, r)
  BY <1>8
<1>10. Past(mds, q[1], q[2])
  BY <1>7 DEF Past
<1>11. p[1] = a.inode_number /\ r[1] = b.inode_number
  OBVIOUS
<1> HIDE DEF p, r
<1> QED
  BY <1>1, <1>5, <1>9, <1>10, <1>11 DEF ParentProgress

\* No parent is missing: when a metadata scan has ended without losing a statement,
\* every two nodes of inodes the first of which the second names as its parent are
\* related, however many runs, crashes and losses there were before (mds_src.c:286).
THEOREM AllParents == Spec => []ParentsComplete
<1>1. CompleteInv => ParentsComplete
  BY ParentsDone
<1> QED
  BY <1>1, SpecComplete, PTL

LEMMA ObjectsDone ==
    ASSUME CompleteInv
    PROVE  ObjectsComplete
<1> SUFFICES ASSUME WellFormed, DisjointNumbers, NEW o \in Osts, OssComplete(o),
                    NEW a \in Labelled("MDS"), NEW b \in {n \in nodes : n.srv = o}
             PROVE  /\ <<b.inode_number, a.inode_number>> \in AttestedStripes(o) =>
                         [type |-> "OST_child_of", from |-> b, to |-> a] \in rels
                    /\ <<a.inode_number, b.inode_number>> \in DefiniteLov(o) =>
                         [type |-> "LOV_parent_of", from |-> a, to |-> b] \in rels
  BY DEF ObjectsComplete
<1>1. /\ IInv /\ StripeProgress(o) /\ LovProgress(o) /\ Ended(o, oss[o])
      /\ Sure(oss[o]) /\ oss[o].pc = "done" /\ After(o)
  BY DEF CompleteInv, WorkInv, OssComplete, Sure, After
<1>2. oss[o].i = TotalInodes[o] + 1 /\ oss[o].j > mds_total_inodes /\ TotalInodes[o] \in Nat
  BY <1>1, ServersAssumption, TotalInodesAssumption DEF Ended, Servers
<1>3. oss[o].j \in Nat /\ mds_total_inodes \in Nat
  BY <1>1, LovLoopAssumption DEF IInv, ScanInv, ScannerState
<1>4. ASSUME <<b.inode_number, a.inode_number>> \in AttestedStripes(o)
      PROVE  [type |-> "OST_child_of", from |-> b, to |-> a] \in rels
  <2>1. FfidOf(disk[o][b.inode_number]) # {} /\ b.inode_number \in Lustre(o)
    BY <1>4 DEF AttestedStripes
  <2>2. PICK k \in Entries(o, b.inode_number) : Entry(o, b.inode_number, k).name = "fid"
    BY <2>1, EntryOf
  <2>3. Past(oss[o], b.inode_number, k)
    BY <1>2, <2>1 DEF Past, Lustre, ScannedSlots
  <2>4. b \in NodesOf(o, b.inode_number)
    BY DEF NodesOf
  <2> QED
    BY <1>1, <1>4, <2>1, <2>2, <2>3, <2>4 DEF StripeProgress
<1>5. ASSUME <<a.inode_number, b.inode_number>> \in DefiniteLov(o)
      PROVE  [type |-> "LOV_parent_of", from |-> a, to |-> b] \in rels
  <2>1. a.inode_number <= mds_total_inodes /\ a.inode_number \in Nat
    BY <1>5 DEF DefiniteLov, AttestedLov, Lustre, ScannedSlots
  <2>2. a.inode_number < oss[o].j
    BY <1>2, <1>3, <2>1
  <2> QED
    BY <1>1, <1>5, <2>2 DEF LovProgress
<1> QED
  BY <1>4, <1>5

\* Nor is a file's or an object's link: object scan o, begun after a clean metadata
\* scan, has linked every node it meets and every one earlier runs left, to files
\* and from them, when it ends without losing a statement (ost_src.c:281, 311).
THEOREM AllObjects == Spec => []ObjectsComplete
<1>1. CompleteInv => ObjectsComplete
  BY ObjectsDone
<1> QED
  BY <1>1, SpecComplete, PTL

\* The one value that a property may have, and has if there is one.
LEMMA OnlyIs ==
    ASSUME NEW S, Single(S), NEW v \in S \cup {Null}, S # {} => v # Null
    PROVE  v = OnlyOf(S)
  BY DEF Single, OnlyOf

LEMMA NodesDone ==
    ASSUME CompleteInv
    PROVE  NodesFaithful
<1> SUFFICES ASSUME WellFormed, DisjointNumbers, NEW s \in Servers,
                    NEW scan, scan = IF s = Mds THEN mds ELSE oss[s],
                    scan.pc = "done", scan.clean
             PROVE  /\ {n.inode_number : n \in {m \in nodes : m.srv = s /\ m.run = scan.run}}
                         = Lustre(s)
                    /\ \A n \in {m \in nodes : m.srv = s} :
                         /\ prop[n].lma = OnlyOf(LmaOf(SlotOf(n)))
                         /\ prop[n].pfid = IF s = Mds THEN OnlyOf(PfidOf(SlotOf(n))) ELSE Null
                         /\ prop[n].fid = IF s = Mds THEN Null ELSE OnlyOf(FfidOf(SlotOf(n)))
                         /\ prop[n].f_oid = IF s = Mds THEN Null ELSE OnlyOf(FoidOf(SlotOf(n)))
  BY DEF NodesFaithful
<1>1. IInv /\ Foreign /\ Progress(s, scan) /\ Ended(s, scan) /\ Sure(scan)
  BY DEF CompleteInv, WorkInv, Servers, Sure
<1>2. \A n \in nodes : n \in Node /\ n.inode_number \in Lustre(n.srv) /\ FromDisk(n, prop[n])
  BY <1>1 DEF IInv, DbInv, DbTypeOK, NodesInv
<1>3. /\ \A i \in Lustre(s) : [srv |-> s, run |-> scan.run, inode_number |-> i] \in nodes
      /\ \A n \in nodes : n.srv = s => \A k \in Entries(s, n.inode_number) :
           \A key \in KeysOf(s, Entry(s, n.inode_number, k).name) : prop[n][key] # Null
  BY <1>1, AllBehind
<1>4. {n.inode_number : n \in {m \in nodes : m.srv = s /\ m.run = scan.run}} = Lustre(s)
  <2>1. ASSUME NEW i \in Lustre(s)
        PROVE  \E n \in {m \in nodes : m.srv = s /\ m.run = scan.run} : i = n.inode_number
    <3>1. [srv |-> s, run |-> scan.run, inode_number |-> i]
            \in {m \in nodes : m.srv = s /\ m.run = scan.run}
      BY <1>3
    <3> QED
      BY <3>1
  <2>2. \A n \in {m \in nodes : m.srv = s /\ m.run = scan.run} : n.inode_number \in Lustre(s)
    BY <1>2
  <2> QED
    BY <2>1, <2>2
<1>5. ASSUME NEW n \in nodes, n.srv = s
      PROVE  /\ prop[n].lma = OnlyOf(LmaOf(SlotOf(n)))
             /\ prop[n].pfid = IF s = Mds THEN OnlyOf(PfidOf(SlotOf(n))) ELSE Null
             /\ prop[n].fid = IF s = Mds THEN Null ELSE OnlyOf(FfidOf(SlotOf(n)))
             /\ prop[n].f_oid = IF s = Mds THEN Null ELSE OnlyOf(FoidOf(SlotOf(n)))
  <2> DEFINE slot == SlotOf(n)
             i == n.inode_number
  <2>1. i \in Lustre(s) /\ slot = disk[s][i] /\ FromDisk(n, prop[n]) /\ n \in Node
    BY <1>2, <1>5 DEF SlotOf
  <2>2. Single(LmaOf(slot)) /\ Single(PfidOf(slot)) /\ Single(FfidOf(slot)) /\ Single(FoidOf(slot))
    BY <1>1, <2>1, OneOfEach DEF IInv
  <2>3. \A k \in Entries(s, i) : \A key \in KeysOf(s, Entry(s, i, k).name) : prop[n][key] # Null
    BY <1>3, <1>5
  <2>4. /\ LmaOf(slot) # {} => \E k \in Entries(s, i) : Entry(s, i, k).name = "lma"
        /\ PfidOf(slot) # {} => \E k \in Entries(s, i) : Entry(s, i, k).name = "link"
        /\ FfidOf(slot) # {} => \E k \in Entries(s, i) : Entry(s, i, k).name = "fid"
    BY <2>1, EntryOf
  <2>5. FoidOf(slot) # {} => LmaOf(slot) # {}
    BY DEF FoidOf, LmaOf
  <2> HIDE DEF slot, i
  <2>6. prop[n].lma = OnlyOf(LmaOf(slot))
    <3>1. "lma" \in KeysOf(s, "lma")
      BY DEF KeysOf
    <3>2. LmaOf(slot) # {} => prop[n].lma # Null
      BY <2>3, <2>4, <3>1
    <3>3. prop[n].lma \in LmaOf(slot) \cup {Null}
      BY <1>5, <2>1 DEF FromDisk, slot, Servers
    <3> QED
      BY <2>2, <3>2, <3>3, OnlyIs
  <2>7. CASE s = Mds
    <3>1. "pfid" \in KeysOf(s, "link")
      BY <2>7 DEF KeysOf
    <3>2. PfidOf(slot) # {} => prop[n].pfid # Null
      BY <2>3, <2>4, <3>1
    <3>3. prop[n].pfid \in PfidOf(slot) \cup {Null}
      BY <1>5, <2>1, <2>7 DEF FromDisk, slot
    <3>4. prop[n].pfid = OnlyOf(PfidOf(slot))
      BY <2>2, <3>2, <3>3, OnlyIs
    <3> QED
      BY <1>1, <1>5, <2>1, <2>6, <2>7, <3>4 DEF Foreign, slot
  <2>8. CASE s # Mds
    <3>1. "fid" \in KeysOf(s, "fid") /\ "f_oid" \in KeysOf(s, "lma")
      BY <2>8 DEF KeysOf
    <3>2. (FfidOf(slot) # {} => prop[n].fid # Null) /\ (FoidOf(slot) # {} => prop[n].f_oid # Null)
      BY <2>3, <2>4, <2>5, <3>1
    <3>3. prop[n].fid \in FfidOf(slot) \cup {Null} /\ prop[n].f_oid \in FoidOf(slot) \cup {Null}
      BY <1>5, <2>1, <2>8 DEF FromDisk, slot, Servers
    <3>4. prop[n].fid = OnlyOf(FfidOf(slot)) /\ prop[n].f_oid = OnlyOf(FoidOf(slot))
      BY <2>2, <3>2, <3>3, OnlyIs
    <3> QED
      BY <1>1, <1>5, <2>1, <2>6, <2>8, <3>4 DEF Foreign, slot
  <2> QED
    BY <2>7, <2>8
<1> QED
  BY <1>4, <1>5

\* A clean scan leaves a node for every inode with xattrs and none else, and on all
\* nodes of its server exactly what is on the disk (mds_src.c:256, ost_src.c:246).
THEOREM AllNodes == Spec => []NodesFaithful
<1>1. CompleteInv => NodesFaithful
  BY NodesDone
<1> QED
  BY <1>1, SpecComplete, PTL

-----------------------------------------------------------------------------
(***************************************************************************)
(* Proofs that the links of each kind are a LinkGraph.  The argument: when *)
(* a graph is published its links are all the attested ones, because none  *)
(* is missing (above) and none is made up (LfsckProofs); links only grow,  *)
(* within the attested ones; and the step that publishes is the end of a   *)
(* scan, which leaves the graph alone.                                     *)
(***************************************************************************)
ParentLinks == {Numbers(r) : r \in Links("mds_parent_of")}
ParentsPublished == WellFormed /\ LinkAfterLma /\ mds.pc = "done" /\ mds.clean

\* A link in the graph is attested, and stays.
LEMMA ParentLinksGrow ==
    ASSUME CompleteInv, CompleteInv', [Next]_vars
    PROVE  /\ ParentLinks \subseteq AttestedParents
           /\ ParentLinks' \subseteq AttestedParents
           /\ ParentLinks \subseteq ParentLinks'
<1>1. DiskStep /\ UNCHANGED disk /\ IInv /\ IInv'
  BY NextDiskStep DEF CompleteInv
<1>2. rels \subseteq rels'
  BY <1>1, StepGrows DEF Grows
<1>3. ParentLinks \subseteq AttestedParents
  BY <1>1 DEF IInv, DbInv, ParentEdgesSound, ParentLinks
<1>4. ParentLinks' \subseteq AttestedParents'
  BY <1>1 DEF IInv, DbInv, ParentEdgesSound, ParentLinks
<1>5. AttestedParents' = AttestedParents
  BY <1>1, DiskFixed
<1> QED
  BY <1>2, <1>3, <1>4, <1>5 DEF ParentLinks, Links, Numbers

\* Published links are all there are.
LEMMA ParentsAll == CompleteInv /\ ParentsPublished => ParentLinks = AttestedParents
<1> SUFFICES ASSUME CompleteInv, ParentsPublished
             PROVE  ParentLinks = AttestedParents
  OBVIOUS
<1>1. IInv /\ Progress(Mds, mds) /\ Ended(Mds, mds) /\ Sure(mds) /\ mds.pc = "done"
  BY DEF CompleteInv, WorkInv, ParentsPublished, Sure
<1>2. ParentLinks \subseteq AttestedParents
  BY <1>1 DEF IInv, DbInv, ParentEdgesSound, ParentLinks
<1>3. ASSUME NEW i, NEW j, <<i, j>> \in AttestedParents
      PROVE  <<i, j>> \in ParentLinks
  <2> DEFINE a == [srv |-> Mds, run |-> mds.run, inode_number |-> i]
             b == [srv |-> Mds, run |-> mds.run, inode_number |-> j]
  <2>1. i \in Lustre(Mds) /\ j \in Lustre(Mds)
    BY <1>3 DEF AttestedParents
  <2>2. a \in nodes /\ b \in nodes
    BY <1>1, <2>1, AllBehind DEF Servers
  <2>3. a \in Labelled("MDS") /\ b \in Labelled("MDS")
    BY <2>2 DEF Labelled, Label
  <2>4. [type |-> "mds_parent_of", from |-> a, to |-> b] \in rels
    BY <1>3, <2>3, ParentsDone DEF ParentsComplete, ParentsPublished
  <2>5. Numbers([type |-> "mds_parent_of", from |-> a, to |-> b]) = <<i, j>>
    BY DEF Numbers
  <2> QED
    BY <2>4, <2>5 DEF ParentLinks, Links
<1>4. \A ij \in AttestedParents : ij = <<ij[1], ij[2]>>
  BY DEF AttestedParents
<1> QED
  BY <1>2, <1>3, <1>4

\* A metadata scan that comes to its end leaves the graph alone.
LEMMA MdsEnds ==
    ASSUME IInv, MdsMoves, mds'.pc = "done"
    PROVE  rels' = rels
<1> PICK old : mds = old
  OBVIOUS
<1> PICK new : mds' = new
  OBVIOUS
<1>1. {"pc", "run", "i", "k", "j", "clean"} \subseteq DOMAIN old
  BY DEF IInv, ScanInv, ScannerState
<1> DEFINE Either(next) == {next, [next EXCEPT !.clean = FALSE]}
<1>2. CASE MdsStart \/ MdsKilled \/ MdsDone \/ MdsNextInode \/ MdsOther
  BY <1>2 DEF MdsStart, MdsKilled, MdsDone, MdsNextInode, MdsOther, dbVars
<1>3. CASE MdsInode
  <2>1. UNCHANGED dbVars \/ new \in Either([old EXCEPT !.pc = "type"])
    BY <1>3 DEF MdsInode, MdsStatement
  <2> QED
    BY <2>1, <1>1 DEF dbVars
<1>4. CASE MdsType \/ MdsLma \/ MdsLov \/ MdsLink
  <2>1. UNCHANGED dbVars \/ Lose \/ \E l, i, k, v : SetWhere(l, i, k, v)
    BY <1>4 DEF MdsType, MdsLma, MdsLov, MdsLink, MdsSet, MdsStatement
  <2> QED
    BY <2>1 DEF dbVars, Lose, SetWhere
<1>5. CASE MdsMerge
  <2>1. new \in Either([old EXCEPT !.k = @ + 1, !.pc = "xattr"])
    BY <1>5 DEF MdsMerge, MdsStatement, MdsNextEntry
  <2>2. new.pc = "xattr"
    BY <2>1, <1>1
  <2> QED
    BY <2>2
<1> QED
  BY <1>2, <1>3, <1>4, <1>5 DEF MdsMoves, MdsStep

\* A step of the check is one of LinkGraph, or leaves its variables.
LEMMA ParentsStep ==
    ASSUME CompleteInv, CompleteInv', [Next]_vars
    PROVE  [ParentGraph!Next]_<<AttestedParents, ParentLinks, ParentsPublished>>
<1>1. UNCHANGED disk
  BY NextDisk
<1>2. /\ AttestedParents' = AttestedParents
      /\ (WellFormed' <=> WellFormed) /\ (LinkAfterLma' <=> LinkAfterLma)
  BY <1>1, DiskFixed, DiskSame
<1>3. /\ ParentLinks \subseteq AttestedParents /\ ParentLinks' \subseteq AttestedParents
      /\ ParentLinks \subseteq ParentLinks'
  BY ParentLinksGrow
<1>4. CASE ParentsPublished
  <2>1. ParentLinks' = ParentLinks
    BY <1>3, <1>4, ParentsAll
  <2> QED
    BY <1>2, <1>4, <2>1 DEF ParentGraph!Next, ParentGraph!Withdraw, ParentLinks, ParentsPublished
<1>5. CASE ~ParentsPublished /\ ~ParentsPublished'
  <2>1. ParentGraph!Add
    <3>1. ParentLinks' = ParentLinks \cup (ParentLinks' \ ParentLinks)
      BY <1>3
    <3>2. ParentLinks' \ ParentLinks \in SUBSET (AttestedParents \ ParentLinks)
      BY <1>3
    <3> QED
      BY <1>2, <1>5, <3>1, <3>2 DEF ParentGraph!Add, ParentLinks, ParentsPublished
  <2> QED
    BY <2>1 DEF ParentGraph!Next
<1>6. CASE ~ParentsPublished /\ ParentsPublished'
  <2>1. mds'.pc = "done" /\ mds'.clean /\ mds' # mds
    BY <1>2, <1>6 DEF ParentsPublished
  <2>2. MdsMoves
    BY <2>1 DEF vars, Next, OssMoves
  <2>3. ParentLinks' = ParentLinks
    BY <2>1, <2>2, MdsEnds DEF ParentLinks, Links, Numbers, CompleteInv
  <2>4. ParentLinks' = AttestedParents'
    <3>1. (CompleteInv /\ ParentsPublished => ParentLinks = AttestedParents)'
      BY ParentsAll, PTL
    <3> QED
      BY <1>6, <3>1
  <2>5. ParentGraph!Publish
    BY <1>2, <1>6, <2>3, <2>4 DEF ParentGraph!Publish, ParentLinks, ParentsPublished
  <2> QED
    BY <2>5 DEF ParentGraph!Next
<1> QED
  BY <1>4, <1>5, <1>6

LEMMA ParentsStart ==
    ASSUME Init
    PROVE  ParentGraph!Init
<1>1. AttestedParents \in SUBSET (Nat \X Nat)
  BY DEF AttestedParents, Lustre, ScannedSlots
<1>2. Links("mds_parent_of") = {} /\ mds.pc = "idle"
  BY DEF Init, MdsInit, DbInit, Links, Idle
<1> QED
  BY <1>1, <1>2 DEF ParentGraph!Init

\* The metadata scanner implements LinkGraph: whatever the scanners do and however
\* they fail, a parent link that appears is attested, none is withdrawn, and at
\* the end of a clean scan none is missing (mds_src.c:286-291).
THEOREM ParentsImplement == Spec => ParentsRefine
<1>1. Init => ParentGraph!Init
  BY ParentsStart
<1>2. CompleteInv /\ CompleteInv' /\ [Next]_vars => [ParentGraph!Next]_(ParentGraph!vars)
  BY ParentsStep DEF ParentGraph!vars, ParentLinks, ParentsPublished
<1> QED
  BY <1>1, <1>2, SpecComplete, PTL DEF Spec, ParentsRefine, ParentGraph!Spec

-----------------------------------------------------------------------------
(***************************************************************************)
(* The links between objects and files, on devices that are well-formed    *)
(* and whose inode numbers are apart: elsewhere nothing is promised.       *)
(***************************************************************************)
Apart == WellFormed /\ DisjointNumbers

LEMMA ApartStays == Apart /\ [Next]_vars => Apart'
  BY NextDisk, DiskSame DEF Apart

\* The step that completes the last object scan leaves the graph alone.
LEMMA ObjectsEnd ==
    ASSUME CompleteInv, [Next]_vars, ~AllComplete, AllComplete'
    PROVE  rels' = rels
<1>1. PICK o \in Osts : ~OssComplete(o) /\ OssComplete(o)'
  BY DEF AllComplete
<1>2. IInv /\ SawInv
  BY DEF CompleteInv, WorkInv
<1>3. CASE MdsMoves
  BY <1>1, <1>2, <1>3, MdsUnseen DEF OssComplete, After
<1>4. CASE \E p \in Osts : OssMoves(p)
  <2>1. PICK p \in Osts : OssMoves(p)
    BY <1>4
  <2>2. CASE p = o
    <3>1. Sure(oss'[o]) /\ oss'[o].pc = "done"
      BY <1>1 DEF OssComplete, Sure
    <3> QED
      BY <1>2, <2>1, <2>2, <3>1, LovForward
  <2>3. CASE p # o
    <3>1. mds' = mds /\ oss'[o] = oss[o] /\ saw'[o] = saw[o]
      BY <1>2, <2>1, <2>3 DEF OssMoves, OssStart, OssStep, OssInode, OssType, OssNextInode,
         OssScanned, OssLma, OssFoid, OssFid, OssMerge, OssOther, OssLov, OssDone,
         OssKilled, OssSet, OssStatement, IInv, ScanInv
    <3> QED
      BY <1>1, <3>1 DEF OssComplete
  <2> QED
    BY <2>2, <2>3
<1>5. CASE UNCHANGED vars
  BY <1>5 DEF vars, dbVars
<1> QED
  BY <1>3, <1>4, <1>5 DEF Next

\* When every object scan is complete, its slots and the metadata server's have nodes.
LEMMA AllHaveNodes ==
    ASSUME CompleteInv, NEW o \in Osts, OssComplete(o), NEW i \in Lustre(o), NEW j \in Lustre(Mds)
    PROVE  \E b \in nodes, a \in Labelled("MDS") :
             b.srv = o /\ b.inode_number = i /\ a.inode_number = j
<1>1. /\ IInv /\ Progress(o, oss[o]) /\ Ended(o, oss[o]) /\ Progress(Mds, mds) /\ Ended(Mds, mds)
      /\ Sure(oss[o]) /\ oss[o].pc = "done"
  BY DEF CompleteInv, WorkInv, OssComplete, Sure
<1>2. Sure(mds) /\ mds.pc = "done"
  BY DEF CompleteInv, WorkInv, SawInv, OssComplete, After, Sure
<1> DEFINE b == [srv |-> o, run |-> oss[o].run, inode_number |-> i]
           a == [srv |-> Mds, run |-> mds.run, inode_number |-> j]
<1>3. b \in nodes
  BY <1>1, AllBehind DEF Servers
<1>4. a \in nodes
  BY <1>1, <1>2, AllBehind DEF Servers
<1>5. a \in Labelled("MDS")
  BY <1>4 DEF Labelled, Label
<1> QED
  BY <1>3, <1>5

StripeLinks == {<<r.from.srv, Numbers(r)[1], Numbers(r)[2]>> : r \in Links("OST_child_of")}
StripePairs == UNION {OnServer(o, AttestedStripes(o)) : o \in Osts}

LEMMA StripesSound == CompleteInv /\ Apart => StripeLinks \subseteq StripePairs
<1> SUFFICES ASSUME CompleteInv, Apart, NEW r \in Links("OST_child_of")
             PROVE  <<r.from.srv, Numbers(r)[1], Numbers(r)[2]>> \in StripePairs
  BY DEF StripeLinks
<1>1. r.from.srv \in Osts /\ Numbers(r) \in AttestedStripes(r.from.srv)
  BY DEF CompleteInv, IInv, DbInv, ObjectEdgesSound, Apart
<1> QED
  BY <1>1 DEF StripePairs, OnServer

LEMMA StripesAll == CompleteInv /\ Apart /\ AllComplete => StripeLinks = StripePairs
<1> SUFFICES ASSUME CompleteInv, Apart, AllComplete,
                    NEW o \in Osts, NEW ij \in AttestedStripes(o)
             PROVE  <<o, ij[1], ij[2]>> \in StripeLinks
  BY StripesSound DEF StripePairs, OnServer
<1>1. ij[1] \in Lustre(o) /\ ij[2] \in Lustre(Mds) /\ ij = <<ij[1], ij[2]>>
  BY DEF AttestedStripes
<1>2. OssComplete(o)
  BY DEF AllComplete
<1>3. PICK b \in nodes, a \in Labelled("MDS") :
        b.srv = o /\ b.inode_number = ij[1] /\ a.inode_number = ij[2]
  BY <1>1, <1>2, AllHaveNodes
<1> DEFINE r == [type |-> "OST_child_of", from |-> b, to |-> a]
<1>4. r \in rels
  BY <1>1, <1>2, <1>3, ObjectsDone DEF ObjectsComplete, Apart
<1>5. r \in Links("OST_child_of") /\ <<r.from.srv, Numbers(r)[1], Numbers(r)[2]>> = <<o, ij[1], ij[2]>>
  BY <1>3, <1>4 DEF Links, Numbers
<1> QED
  BY <1>5 DEF StripeLinks

LEMMA StripesStep ==
    ASSUME CompleteInv, CompleteInv', Apart, [Next]_vars
    PROVE  [StripeGraph!Next]_<<StripePairs, StripeLinks, AllComplete>>
<1>1. UNCHANGED disk /\ Apart'
  BY NextDisk, ApartStays
<1>2. StripePairs' = StripePairs
  BY <1>1, DiskFixed DEF StripePairs, OnServer
<1>3. StripeLinks \subseteq StripeLinks'
  <2>1. rels \subseteq rels'
    BY NextDiskStep, StepGrows DEF Grows, CompleteInv
  <2> QED
    BY <2>1 DEF StripeLinks, Links, Numbers
<1>4. /\ StripeLinks' \subseteq StripePairs'
      /\ AllComplete' => StripeLinks' = StripePairs'
  <2>1. (CompleteInv /\ Apart => StripeLinks \subseteq StripePairs)'
    BY StripesSound, PTL
  <2>2. (CompleteInv /\ Apart /\ AllComplete => StripeLinks = StripePairs)'
    BY StripesAll, PTL
  <2> QED
    BY <1>1, <2>1, <2>2
<1>5. CASE AllComplete
  <2>1. StripeLinks' = StripeLinks
    BY <1>2, <1>3, <1>4, <1>5, StripesAll
  <2> QED
    BY <1>2, <1>5, <2>1 DEF StripeGraph!Next, StripeGraph!Withdraw, StripePairs, StripeLinks,
       AllComplete
<1>6. CASE ~AllComplete /\ ~AllComplete'
  <2>1. /\ StripeLinks' = StripeLinks \cup (StripeLinks' \ StripeLinks)
        /\ StripeLinks' \ StripeLinks \in SUBSET (StripePairs \ StripeLinks)
    BY <1>2, <1>3, <1>4
  <2>2. StripeGraph!Add
    BY <1>2, <1>6, <2>1 DEF StripeGraph!Add, StripePairs, StripeLinks, AllComplete
  <2> QED
    BY <2>2 DEF StripeGraph!Next
<1>7. CASE ~AllComplete /\ AllComplete'
  <2>1. StripeLinks' = StripeLinks
    BY <1>7, ObjectsEnd DEF StripeLinks, Links, Numbers
  <2>2. StripeGraph!Publish
    BY <1>2, <1>4, <1>7, <2>1 DEF StripeGraph!Publish, StripePairs, StripeLinks, AllComplete
  <2> QED
    BY <2>2 DEF StripeGraph!Next
<1> QED
  BY <1>5, <1>6, <1>7

LEMMA StripesStart ==
    ASSUME Init, Osts # {}
    PROVE  StripeGraph!Init
<1>1. StripePairs \in SUBSET (Osts \X Nat \X Nat)
  BY DEF StripePairs, OnServer, AttestedStripes, Lustre, ScannedSlots
<1>2. Links("OST_child_of") = {}
  BY DEF Init, MdsInit, DbInit, Links
<1>3. ~AllComplete
  BY DEF Init, OssInit, AllComplete, OssComplete, Idle
<1> QED
  BY <1>1, <1>2, <1>3 DEF StripeGraph!Init, StripePairs

\* On such devices the object scanners implement LinkGraph as well, with their links
\* from objects to files: attested, never withdrawn, and all there when every object
\* scan has ended clean after a clean metadata scan (ost_src.c:281).
THEOREM StripesImplement == Spec /\ Apart /\ Osts # {} => StripesRefine
<1>1. Init /\ Osts # {} => StripeGraph!Init
  BY StripesStart
<1>2. CompleteInv /\ CompleteInv' /\ Apart /\ [Next]_vars => [StripeGraph!Next]_(StripeGraph!vars)
  BY StripesStep DEF StripeGraph!vars, StripePairs, StripeLinks
<1> QED
  BY <1>1, <1>2, SpecComplete, ApartStays, PTL DEF Spec, StripesRefine, StripeGraph!Spec

-----------------------------------------------------------------------------
(***************************************************************************)
(* The links from files to their first objects, where what is printed of a *)
(* file's lov xattr can only mean that object.                             *)
(***************************************************************************)
\* The last loop of an object scan ends at mds_total_inodes.
LovBounded == \A r \in Links("LOV_parent_of") : r.from.inode_number <= mds_total_inodes

LEMMA MergesOf ==
    ASSUME IInv, Next
    PROVE  \/ rels' = rels \/ MergeParents \/ MergeStripes
           \/ \E j \in Nat : j <= mds_total_inodes /\ MergeLov(j)
<1>1. \A o \in Osts : oss[o].j \in Nat
  BY DEF IInv, ScanInv, ScannerState
<1>2. CASE MdsMoves
  BY <1>2 DEF MdsMoves, MdsStart, MdsStep, MdsInode, MdsType, MdsNextInode, MdsDone, MdsLma,
     MdsLink, MdsMerge, MdsLov, MdsOther, MdsKilled, MdsSet, MdsStatement, dbVars,
     Create, SetWhere, Lose, MergeParents
<1>3. CASE \E o \in Osts : OssMoves(o)
  BY <1>1, <1>3 DEF OssMoves, OssStart, OssStep, OssInode, OssType, OssNextInode, OssScanned,
     OssLma, OssFoid, OssFid, OssMerge, OssOther, OssLov, OssDone, OssKilled, OssSet,
     OssStatement, dbVars, Create, SetWhere, Lose, MergeStripes, MergeLov
<1> QED
  BY <1>2, <1>3 DEF Next

LEMMA LovBoundedStays == IInv /\ LovBounded /\ [Next]_vars => LovBounded'
<1> SUFFICES ASSUME IInv, LovBounded, [Next]_vars, NEW r \in rels', r.type = "LOV_parent_of",
                    r \notin rels
             PROVE  r.from.inode_number <= mds_total_inodes
  BY DEF LovBounded, Links
<1>1. CASE MergeParents \/ MergeStripes
  BY <1>1 DEF MergeParents, MergeStripes, Merge
<1>2. CASE \E j \in Nat : j <= mds_total_inodes /\ MergeLov(j)
  BY <1>2 DEF MergeLov, Merge, Numbered
<1>3. CASE rels' = rels \/ UNCHANGED vars
  BY <1>3 DEF vars, dbVars
<1> QED
  BY <1>1, <1>2, <1>3, MergesOf

LovInv == CompleteInv /\ LovBounded

LEMMA LovInvHolds == Spec => []LovInv
<1>1. Init => LovBounded
  BY DEF Init, MdsInit, DbInit, LovBounded, Links
<1>2. LovInv /\ [Next]_vars => LovInv'
  BY NextComplete, LovBoundedStays DEF LovInv, CompleteInv
<1> QED
  BY <1>1, <1>2, InitComplete, PTL DEF Spec, LovInv

LovLinks == {<<r.to.srv, Numbers(r)[1], Numbers(r)[2]>> :
               r \in {q \in Links("LOV_parent_of") : Locatable(q.from.inode_number)}}
LovPairs == UNION {OnServer(o, DefiniteLov(o)) : o \in Osts}

LEMMA LovSound == LovInv /\ Apart => LovLinks \subseteq LovPairs
<1> SUFFICES ASSUME LovInv, Apart, NEW r \in Links("LOV_parent_of"),
                    Locatable(r.from.inode_number)
             PROVE  <<r.to.srv, Numbers(r)[1], Numbers(r)[2]>> \in LovPairs
  BY DEF LovLinks
<1>1. r.to.srv \in Osts /\ Numbers(r) \in AttestedLov(r.to.srv)
  BY DEF LovInv, CompleteInv, IInv, DbInv, ObjectEdgesSound, Apart
<1>2. Numbers(r)[1] <= mds_total_inodes
  BY DEF LovInv, LovBounded, Numbers
<1>3. Numbers(r) \in DefiniteLov(r.to.srv)
  BY <1>1, <1>2 DEF DefiniteLov, Numbers
<1> QED
  BY <1>1, <1>3 DEF LovPairs, OnServer

LEMMA LovAll == LovInv /\ Apart /\ AllComplete => LovLinks = LovPairs
<1> SUFFICES ASSUME LovInv, Apart, AllComplete,
                    NEW o \in Osts, NEW ij \in DefiniteLov(o)
             PROVE  <<o, ij[1], ij[2]>> \in LovLinks
  BY LovSound DEF LovPairs, OnServer
<1>1. ij[1] \in Lustre(Mds) /\ ij[2] \in Lustre(o) /\ ij = <<ij[1], ij[2]>>
  BY DEF DefiniteLov, AttestedLov
<1>2. OssComplete(o) /\ CompleteInv
  BY DEF AllComplete, LovInv
<1>3. PICK b \in nodes, a \in Labelled("MDS") :
        b.srv = o /\ b.inode_number = ij[2] /\ a.inode_number = ij[1]
  BY <1>1, <1>2, AllHaveNodes
<1> DEFINE r == [type |-> "LOV_parent_of", from |-> a, to |-> b]
<1>4. r \in rels
  BY <1>1, <1>2, <1>3, ObjectsDone DEF ObjectsComplete, Apart
<1>5. r \in Links("LOV_parent_of") /\ <<r.to.srv, Numbers(r)[1], Numbers(r)[2]>> = <<o, ij[1], ij[2]>>
  BY <1>3, <1>4 DEF Links, Numbers
<1> QED
  BY <1>3, <1>5 DEF LovLinks, DefiniteLov

LEMMA LovStep ==
    ASSUME LovInv, LovInv', Apart, [Next]_vars
    PROVE  [LovGraph!Next]_<<LovPairs, LovLinks, AllComplete>>
<1>1. UNCHANGED disk /\ Apart' /\ CompleteInv
  BY NextDisk, ApartStays DEF LovInv
<1>2. LovPairs' = LovPairs
  BY <1>1, DiskSame DEF LovPairs, OnServer
<1>3. LovLinks \subseteq LovLinks'
  <2>1. rels \subseteq rels'
    BY <1>1, NextDiskStep, StepGrows DEF Grows, CompleteInv
  <2> QED
    BY <1>1, <2>1, DiskSame DEF LovLinks, Links, Numbers
<1>4. /\ LovLinks' \subseteq LovPairs'
      /\ AllComplete' => LovLinks' = LovPairs'
  <2>1. (LovInv /\ Apart => LovLinks \subseteq LovPairs)'
    BY LovSound, PTL
  <2>2. (LovInv /\ Apart /\ AllComplete => LovLinks = LovPairs)'
    BY LovAll, PTL
  <2> QED
    BY <1>1, <2>1, <2>2
<1>5. CASE AllComplete
  <2>1. LovLinks' = LovLinks
    BY <1>2, <1>3, <1>4, <1>5, LovAll
  <2> QED
    BY <1>2, <1>5, <2>1 DEF LovGraph!Next, LovGraph!Withdraw, LovPairs, LovLinks, AllComplete
<1>6. CASE ~AllComplete /\ ~AllComplete'
  <2>1. /\ LovLinks' = LovLinks \cup (LovLinks' \ LovLinks)
        /\ LovLinks' \ LovLinks \in SUBSET (LovPairs \ LovLinks)
    BY <1>2, <1>3, <1>4
  <2>2. LovGraph!Add
    BY <1>2, <1>6, <2>1 DEF LovGraph!Add, LovPairs, LovLinks, AllComplete
  <2> QED
    BY <2>2 DEF LovGraph!Next
<1>7. CASE ~AllComplete /\ AllComplete'
  <2>1. LovLinks' = LovLinks
    BY <1>1, <1>7, ObjectsEnd, DiskSame DEF LovLinks, Links, Numbers
  <2>2. LovGraph!Publish
    BY <1>2, <1>4, <1>7, <2>1 DEF LovGraph!Publish, LovPairs, LovLinks, AllComplete
  <2> QED
    BY <2>2 DEF LovGraph!Next
<1> QED
  BY <1>5, <1>6, <1>7

LEMMA LovStart ==
    ASSUME Init, Osts # {}
    PROVE  LovGraph!Init
<1>1. LovPairs \in SUBSET (Osts \X Nat \X Nat)
  BY DEF LovPairs, OnServer, DefiniteLov, AttestedLov, Lustre, ScannedSlots
<1>2. Links("LOV_parent_of") = {}
  BY DEF Init, MdsInit, DbInit, Links
<1>3. ~AllComplete
  BY DEF Init, OssInit, AllComplete, OssComplete, Idle
<1> QED
  BY <1>1, <1>2, <1>3 DEF LovGraph!Init, LovPairs

\* So do they with the links from the files whose printed id can only mean their
\* first object: composite layouts, ids above 2^32 and ids that another server uses
\* as well are where the links may lead astray (ost_src.c:307-315).
THEOREM LovImplements == Spec /\ Apart /\ Osts # {} => LovRefines
<1>1. Init /\ Osts # {} => LovGraph!Init
  BY LovStart
<1>2. LovInv /\ LovInv' /\ Apart /\ [Next]_vars => [LovGraph!Next]_(LovGraph!vars)
  BY LovStep DEF LovGraph!vars, LovPairs, LovLinks
<1> QED
  BY <1>1, <1>2, LovInvHolds, ApartStays, PTL DEF Spec, LovRefines, LovGraph!Spec

=============================================================================
