----------------------------- MODULE Neo4jGraph -----------------------------
(***************************************************************************)
(* The graph database the scanners write to, as far as their Cypher        *)
(* statements use it (external: libneo4j-client and the Neo4j server are   *)
(* not part of the repository).  A statement is one transaction.  No       *)
(* scanner looks at the result of neo4j_run, so a statement that fails is  *)
(* lost without a trace; MaxLost bounds how many are.                      *)
(***************************************************************************)
EXTENDS LustreDisk

CONSTANTS
    MaxRuns,   \* bound: how often each scanner is started
    MaxLost,   \* bound: how many statements fail
    Null       \* the value of a property never set

VARIABLES
    nodes,     \* the nodes created so far
    prop,      \* their properties
    rels,      \* the relationships between them
    lost       \* how many statements have failed

dbVars == <<nodes, prop, rels, lost>>

ASSUME BoundsAssumption == MaxRuns \in Nat /\ MaxLost \in Nat
ASSUME NullAssumption == Null \notin Fid \cup FOids

\* A node is known by the run of the scanner that CREATEd it and the value of
\* its inode_number: nothing else tells two nodes of one inode apart.
Node == UNION {[srv: {s}, run: 1 .. MaxRuns, inode_number: ScannedSlots(s)] : s \in Servers}

\* All object storage servers share one label.
Label(n) == IF n.srv = Mds THEN "MDS" ELSE "OSS"

Properties ==
    [inode_type: {"directory", "file", Null},
     lma: Fid \cup {Null}, pfid: Fid \cup {Null}, fid: Fid \cup {Null},
     ost_oid: FOids \cup {Null}, f_oid: FOids \cup {Null}]

NoProperties == [inode_type |-> Null, lma |-> Null, pfid |-> Null, fid |-> Null,
                 ost_oid |-> Null, f_oid |-> Null]

Relationship == [type: {"mds_parent_of", "OST_child_of", "LOV_parent_of"},
                 from: Node, to: Node]

DbTypeOK ==
    /\ nodes \subseteq Node
    /\ prop \in [Node -> Properties]
    /\ rels \subseteq Relationship
    /\ lost \in 0 .. MaxLost

DbInit ==
    /\ nodes = {}
    /\ prop = [n \in Node |-> NoProperties]
    /\ rels = {}
    /\ lost = 0

-----------------------------------------------------------------------------
\* CREATE (n:LABEL {inode_number: ...}): always a new node.
Create(n) ==
    /\ nodes' = nodes \cup {n}
    /\ UNCHANGED <<prop, rels, lost>>

\* match (n:LABEL), and match (n:LABEL) where n.inode_number = ino.
Labelled(label) == {n \in nodes : Label(n) = label}

\* Faulty variants: the inode number, or the label, is left out of the match.
NumberedAll(label, ino) == Labelled(label)
NumberedAnyLabel(label, ino) == {n \in nodes : n.inode_number = ino}

Numbered(label, ino) == {n \in Labelled(label) : n.inode_number = ino}

\* Faulty variant: only one of the matches is set.
SetOne(label, ino, key, value) ==
    LET hit == {CHOOSE n \in Numbered(label, ino) : TRUE}
    IN  /\ prop' = [n \in Node |-> IF Numbered(label, ino) # {} /\ n \in hit
                                   THEN [prop[n] EXCEPT ![key] = value] ELSE prop[n]]
        /\ UNCHANGED <<nodes, rels, lost>>

\* ... set n.key = value, on every match.
SetWhere(label, ino, key, value) ==
    /\ prop' = [n \in Node |-> IF n \in Numbered(label, ino)
                               THEN [prop[n] EXCEPT ![key] = value] ELSE prop[n]]
    /\ UNCHANGED <<nodes, rels, lost>>

\* where a.ka = b.kb: in Cypher null equals nothing, itself included.
SameValue(a, ka, b, kb) == prop[a][ka] # Null /\ prop[a][ka] = prop[b][kb]

\* Faulty variant: the relationship points the other way.
MergeReversed(type, as, ka, bs, kb) ==
    /\ rels' = rels \cup
         {[type |-> type, from |-> ab[2], to |-> ab[1]] :
            ab \in {xy \in as \X bs : SameValue(xy[1], ka, xy[2], kb)}}
    /\ UNCHANGED <<nodes, prop, lost>>

\* match a in as, b in bs where a.ka = b.kb merge (a)-[:type]->(b): a
\* relationship between every such pair that has none yet.
Merge(type, as, ka, bs, kb) ==
    /\ rels' = rels \cup
         {[type |-> type, from |-> ab[1], to |-> ab[2]] :
            ab \in {xy \in as \X bs : SameValue(xy[1], ka, xy[2], kb)}}
    /\ UNCHANGED <<nodes, prop, lost>>

\* The statement fails and the scanner does not notice.
Lose ==
    /\ lost < MaxLost
    /\ lost' = lost + 1
    /\ UNCHANGED <<nodes, prop, rels>>

=============================================================================
