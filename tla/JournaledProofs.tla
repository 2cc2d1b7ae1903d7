--------------------------- MODULE JournaledProofs ---------------------------
(***************************************************************************)
(* Journaled: its types; that every commit may be interrupted by a crash;  *)
(* that the list of orphans on disk is the one in memory; that with        *)
(* delayed allocation data and extents survive; and that all of it         *)
(* implements Durable.                                                     *)
(*                                                                         *)
(* The inductive invariant says where an inode may be in its operation     *)
(* (Steps), whose each block is in the views of the running transaction,   *)
(* the committing one and the last commit, and what a transaction knows of *)
(* the blocks in which its view differs from the one before (Blocking),    *)
(* what the journal would replay over a block (Journaling), where the data *)
(* of a block are (Written, Delayed), that a file that never had a name    *)
(* has no more blocks than its size says (Nameless), that a file that is   *)
(* going to be cut is on the list (Marked), and which sequence each view's *)
(* list of orphans spells (Lists; the last three until a handle fails).    *)
(***************************************************************************)
EXTENDS Journaled, FiniteSetTheorems, SequenceTheorems, WellFoundedInduction, TLAPS

-----------------------------------------------------------------------------
(***************************************************************************)
(* The inductive invariant.                                                *)
(***************************************************************************)

\* The types, with sequences of any length.
FsViews == [used : SUBSET Inodes, links : [Inodes -> {0, 1}], size : [Inodes -> Nat],
            blocks : [Inodes -> Seq(Blocks)], leaf : [Inodes -> Blocks \cup {None}],
            map : SUBSET Blocks, head : Inodes \cup {None}, next : [Inodes -> Inodes \cup {None}]]
Contents == [kind : {"data", "extents", "other"}, of : Inodes \cup {None}]
Types ==
    /\ fs \in FsViews /\ going \in FsViews /\ disk \in FsViews
    /\ running \in Txs /\ ending \in Txs
    /\ logged \in [Blocks -> Inodes \cup {None}] /\ content \in [Blocks -> Contents]
    /\ dirty \in SUBSET Blocks /\ inflight \in SUBSET Blocks
    /\ list \in Seq(Inodes) /\ IsInjective(list)
    /\ open \in [Inodes -> {"closed", "open", "tmpfile"}]
    /\ step \in [Inodes -> {"idle", "asked", "sized", "doomed", "cutting", "paused"}]
    /\ target \in [Inodes -> 0 .. MaxSize]
    /\ phase \in {"up", "recovering"} /\ committing \in BOOLEAN /\ errors \in BOOLEAN

\* A file has no fewer blocks than its size and no more than the bound; an inode that
\* is not in use has nothing.
Shaped(v) == \A i \in Inodes :
    /\ v.size[i] <= Len(v.blocks[i]) /\ Len(v.blocks[i]) <= MaxSize
    /\ v.leaf[i] # None => v.blocks[i] # <<>>
    /\ i \notin v.used => v.links[i] = 0 /\ v.blocks[i] = <<>>

\* Where an inode may be in its operation.
Steps == \A i \in Inodes :
    /\ step[i] # "idle" => i \in fs.used
    /\ step[i] = "asked" => phase = "up" /\ target[i] <= fs.size[i]
    /\ step[i] \in {"asked", "sized"} => InUse(i)
    /\ step[i] = "doomed" => ~InUse(i)
    /\ step[i] \in {"cutting", "paused"} /\ ~InUse(i) => fs.size[i] = 0
    /\ phase = "recovering" => open[i] = "closed"

\* Each block has at most one use.
Leaves(v) == Range(v.leaf) \ {None}
Sole(v) ==
    /\ v.map = DataOf(v) \cup Leaves(v)
    /\ \A i, j \in Inodes : \A n \in DOMAIN v.blocks[i], m \in DOMAIN v.blocks[j] :
        v.blocks[i][n] = v.blocks[j][m] => i = j /\ n = m
    /\ \A i, j \in Inodes : \A n \in DOMAIN v.blocks[j] : v.leaf[i] # v.blocks[j][n]
    /\ \A i, j \in Inodes : v.leaf[i] # None /\ v.leaf[i] = v.leaf[j] => i = j

\* What a transaction tx knows of the difference between the view v before it and
\* its own view w: the blocks it has freed or revoked are not in w, what it has
\* not freed is where it was, and extents it has not logged are in their old block.
Frees(v, w, tx) ==
    /\ tx.pend \cap w.map = {} /\ tx.revoked \subseteq tx.pend /\ tx.meta \subseteq Leaves(w)
    /\ \A i \in Inodes :
        /\ v.leaf[i] # None => w.leaf[i] = v.leaf[i] \/ v.leaf[i] \in tx.revoked
        /\ w.leaf[i] # None => w.leaf[i] = v.leaf[i] \/ w.leaf[i] \in tx.meta
        /\ \A n \in DOMAIN v.blocks[i] :
            \/ n \in DOMAIN w.blocks[i] /\ w.blocks[i][n] = v.blocks[i][n]
            \/ v.blocks[i][n] \in tx.pend
Blocking ==
    /\ Sole(fs) /\ Sole(going) /\ Sole(disk)
    /\ Frees(going, fs, running) /\ Frees(disk, going, ending)
    /\ ending.pend \cap fs.map = {}
    /\ ~committing => going = disk /\ ending = NoTx

\* What a replay would write: extents of the last commit over their own block.
Journaling ==
    /\ \A b \in Blocks : logged[b] # None => disk.leaf[logged[b]] = b
    /\ \A i \in Inodes : disk.leaf[i] # None => Replayed[disk.leaf[i]] = Extents(i)

\* Data in memory are of blocks of files, and none of blocks that are being cut; with
\* delayed allocation, data are on the device or under writeback.
Written ==
    /\ dirty \cup inflight \subseteq DataOf(fs)
    /\ \A i \in Inodes : step[i] \in {"cutting", "paused"} =>
        (dirty \cup inflight) \cap Beyond(fs, i, fs.size[i]) = {}
Delayed ==
    /\ \A i \in Inodes : \A n \in DOMAIN fs.blocks[i] :
        fs.blocks[i][n] \in inflight \/ content[fs.blocks[i][n]] = Data(i)
    /\ \A i \in Inodes : \A n \in DOMAIN going.blocks[i] :
        going.blocks[i][n] \in inflight \/ content[going.blocks[i][n]] = Data(i)
    /\ \A i \in Inodes : \A n \in DOMAIN disk.blocks[i] : content[disk.blocks[i][n]] = Data(i)

\* The list on disk spells s, and every inode with something to do is in s.
Spelled(v, s) ==
    /\ s \in Seq(Inodes) /\ IsInjective(s) /\ Spells(v, s)
    /\ \A i \in Inodes \ Range(s) : v.next[i] = None
Done(v, S) ==
    /\ S \subseteq v.used
    /\ \A i \in v.used \ S : v.links[i] = 1 /\ v.size[i] = Len(v.blocks[i])
Listing(v, s) == Spelled(v, s) /\ Done(v, Range(s))
Listable(v) == \E s \in Seq(Inodes) : Listing(v, s)
ListingUp == phase = "up" =>
    /\ Listing(fs, list)
    /\ \A i \in Range(list) : step[i] # "idle" \/ (fs.links[i] = 0 /\ open[i] # "closed")
ListingAgain == phase = "recovering" =>
    /\ Listable(fs)
    /\ step = AllIdle => list = <<>>
    /\ \A i \in Inodes : step[i] # "idle" => list = <<i>> /\ fs.head = i
\* A file that never had a name has no blocks but those up to its size, unless it is
\* being cut.
Nameless == \A i \in Inodes : open[i] = "tmpfile" =>
    /\ phase = "up" /\ fs.links[i] = 0
    /\ ~errors /\ step[i] = "idle" => fs.size[i] = Len(fs.blocks[i])
\* Between setattr's handle and the cut a file is on the list.
Marked == phase = "up" /\ ~errors => \A i \in Inodes : step[i] = "sized" => i \in Range(list)
Lists == ~errors => Listable(going) /\ Listable(disk) /\ ListingUp /\ ListingAgain

Forms == Types /\ Shaped(fs) /\ Shaped(going) /\ Shaped(disk) /\ Steps
Inv == Forms /\ Blocking /\ Journaling /\ Written

-----------------------------------------------------------------------------
(***************************************************************************)
(* Lists.                                                                  *)
(***************************************************************************)

\* A set of numbers has a least one.
LEMMA LeastOf ==
  ASSUME NEW S \in SUBSET Nat, S # {}
  PROVE  \E k \in S : \A j \in S : k <= j
<1> DEFINE R == {ss \in Nat \X Nat : ss[1] < ss[2]}
<1>1. IsWellFoundedOn(R, Nat)
  BY NatLessThanWellFounded, Zenon DEF OpToRel
<1>2. PICK k \in S : \A j \in S : <<j, k>> \notin R
  BY <1>1, WFMin
<1>3. \A j \in S : j < k => <<j, k>> \in R
  OBVIOUS
<1> HIDE DEF R
<1>4. \A j \in S : ~(j < k)
  BY <1>2, <1>3
<1> QED
  BY <1>4

\* One more in front of a list.
LEMMA ConsIs ==
  ASSUME NEW s \in Seq(Inodes), IsInjective(s), NEW i \in Inodes \ Range(s)
  PROVE  /\ <<i>> \o s \in Seq(Inodes) /\ IsInjective(<<i>> \o s)
         /\ Range(<<i>> \o s) = Range(s) \cup {i}
         /\ Len(<<i>> \o s) = Len(s) + 1 /\ (<<i>> \o s)[1] = i
         /\ \A k \in 1 .. Len(s) : (<<i>> \o s)[k + 1] = s[k]
<1> DEFINE t == <<i>> \o s
<1>1. t \in Seq(Inodes) /\ Len(t) = Len(s) + 1 /\ DOMAIN t = 1 .. Len(s) + 1 /\ DOMAIN s = 1 .. Len(s)
  OBVIOUS
<1>2. t[1] = i /\ \A k \in 1 .. Len(s) : t[k + 1] = s[k]
  OBVIOUS
<1>3. Len(s) \in Nat /\ \A k \in 2 .. Len(s) + 1 : k - 1 \in 1 .. Len(s) /\ t[k] = s[k - 1]
  <2>1. Len(s) \in Nat /\ \A k \in 2 .. Len(s) + 1 : k - 1 \in 1 .. Len(s) /\ (k - 1) + 1 = k
    OBVIOUS
  <2> HIDE DEF t
  <2> QED
    BY <1>2, <2>1
<1> HIDE DEF t
<1>4. \A k \in 1 .. Len(s) : s[k] \in Range(s) /\ s[k] # i
  BY <1>1 DEF Range
<1>5. IsInjective(t)
  <2> SUFFICES ASSUME NEW a \in DOMAIN t, NEW b \in DOMAIN t, t[a] = t[b] PROVE a = b
    BY DEF IsInjective
  <2>1. CASE a = 1 \/ b = 1
    BY <1>1, <1>2, <1>3, <1>4, <2>1
  <2>2. CASE a # 1 /\ b # 1
    <3>1. a \in 2 .. Len(s) + 1 /\ b \in 2 .. Len(s) + 1
      BY <1>1, <1>3, <2>2
    <3>2. a - 1 = b - 1
      BY <1>1, <1>3, <3>1 DEF IsInjective
    <3> QED
      BY <3>1, <3>2
  <2> QED
    BY <2>1, <2>2
<1>6. Range(t) = Range(s) \cup {i}
  <2>1. ASSUME NEW x \in Range(t) PROVE x \in Range(s) \cup {i}
    <3>1. PICK k \in DOMAIN t : t[k] = x
      BY DEF Range
    <3> QED
      BY <1>1, <1>2, <1>3, <1>4, <3>1
  <2>2. ASSUME NEW x \in Range(s) PROVE x \in Range(t)
    <3>1. PICK k \in 1 .. Len(s) : s[k] = x
      BY <1>1 DEF Range
    <3>2. k + 1 \in DOMAIN t /\ t[k + 1] = x
      BY <1>1, <1>2, <1>3, <3>1
    <3> QED
      BY <3>2 DEF Range
  <2>3. i \in Range(t)
    BY <1>1, <1>2, <1>3 DEF Range
  <2> QED
    BY <2>1, <2>2, <2>3
<1> QED
  BY <1>1, <1>2, <1>5, <1>6 DEF t

LEMMA PlaceIs ==
  ASSUME NEW s \in Seq(Inodes), NEW i \in Range(s)
  PROVE  Place(s, i) \in 1 .. Len(s) /\ s[Place(s, i)] = i
BY DEF Place, Range

\* One less in a list.
LEMMA RemoveIs ==
  ASSUME NEW s \in Seq(Inodes), IsInjective(s), NEW i \in Range(s)
  PROVE  /\ Unlisted(s, i) \in Seq(Inodes) /\ IsInjective(Unlisted(s, i))
         /\ Range(Unlisted(s, i)) = Range(s) \ {i}
         /\ Len(Unlisted(s, i)) = Len(s) - 1
         /\ \A k \in 1 .. Len(Unlisted(s, i)) :
              Unlisted(s, i)[k] = IF k < Place(s, i) THEN s[k] ELSE s[k + 1]
<1> DEFINE p == Place(s, i)
           t == Unlisted(s, i)
<1>1. p \in 1 .. Len(s) /\ s[p] = i /\ Len(s) \in Nat /\ DOMAIN s = 1 .. Len(s)
  BY PlaceIs
<1>2. t = SubSeq(s, 1, p - 1) \o SubSeq(s, p + 1, Len(s))
  BY DEF Unlisted, RemoveAt
<1> DEFINE u == SubSeq(s, 1, p - 1)
           w == SubSeq(s, p + 1, Len(s))
<1>3. u \in Seq(Inodes) /\ Len(u) = p - 1 /\ \A k \in 1 .. p - 1 : u[k] = s[k]
  BY <1>1
<1>4. w \in Seq(Inodes) /\ Len(w) = Len(s) - p /\ \A k \in 1 .. Len(s) - p : w[k] = s[k + p]
  BY <1>1
<1>5. t = u \o w
  BY <1>2 DEF u, w
<1> HIDE DEF u, w, p, t
<1>6. u \in Seq(Inodes) /\ w \in Seq(Inodes)
  BY <1>3, <1>4
<1>7. Len(u) = p - 1 /\ Len(w) = Len(s) - p
  BY <1>3, <1>4
<1>8. /\ t \in Seq(Inodes) /\ Len(t) = Len(u) + Len(w)
      /\ \A k \in 1 .. Len(u) + Len(w) : t[k] = IF k <= Len(u) THEN u[k] ELSE w[k - Len(u)]
  BY <1>5, <1>6, ConcatProperties
<1>9. Len(t) = Len(s) - 1 /\ DOMAIN t = 1 .. Len(s) - 1
  <2>1. Len(t) = Len(s) - 1
    BY <1>1, <1>7, <1>8
  <2> QED
    BY <1>8, <2>1, LenProperties
<1>10. ASSUME NEW k \in 1 .. Len(t) PROVE t[k] = IF k < p THEN s[k] ELSE s[k + 1]
  <2>1. k \in 1 .. Len(s) - 1 /\ t[k] = IF k <= p - 1 THEN u[k] ELSE w[k - (p - 1)]
    BY <1>7, <1>8, <1>9
  <2>2. CASE k < p
    <3>1. k \in 1 .. p - 1
      BY <1>1, <2>1, <2>2
    <3> QED
      BY <1>3, <2>1, <2>2, <3>1
  <2>3. CASE ~(k < p)
    <3>1. k - (p - 1) \in 1 .. Len(s) - p /\ (k - (p - 1)) + p = k + 1 /\ ~(k <= p - 1)
      BY <1>1, <2>1, <2>3
    <3>2. w[k - (p - 1)] = s[(k - (p - 1)) + p]
      BY <1>4, <3>1
    <3> QED
      BY <2>1, <2>3, <3>1, <3>2
  <2> QED
    BY <2>2, <2>3
<1> DEFINE at(k) == IF k < p THEN k ELSE k + 1
<1>11. \A k \in 1 .. Len(t) : at(k) \in 1 .. Len(s) /\ at(k) # p /\ t[k] = s[at(k)]
  BY <1>1, <1>9, <1>10
<1>12. IsInjective(t)
  <2> SUFFICES ASSUME NEW a \in DOMAIN t, NEW b \in DOMAIN t, t[a] = t[b] PROVE a = b
    BY DEF IsInjective
  <2>1. a \in 1 .. Len(t) /\ b \in 1 .. Len(t)
    BY <1>9
  <2>2. at(a) \in DOMAIN s /\ at(b) \in DOMAIN s /\ s[at(a)] = s[at(b)]
    BY <1>1, <1>11, <2>1
  <2>3. at(a) = at(b)
    <3> HIDE DEF at
    <3> QED
      BY <2>2 DEF IsInjective
  <2> QED
    BY <1>1, <1>9, <2>1, <2>3
<1>13. Range(t) = Range(s) \ {i}
  <2>1. ASSUME NEW x \in Range(t) PROVE x \in Range(s) \ {i}
    <3>1. PICK k \in 1 .. Len(t) : t[k] = x
      BY <1>9 DEF Range
    <3>2. at(k) \in DOMAIN s /\ s[at(k)] = x /\ at(k) # p
      BY <1>1, <1>11, <3>1
    <3> HIDE DEF at
    <3> QED
      BY <1>1, <3>2 DEF Range, IsInjective
  <2>2. ASSUME NEW x \in Range(s) \ {i} PROVE x \in Range(t)
    <3>1. PICK k \in 1 .. Len(s) : s[k] = x /\ k # p
      BY <1>1 DEF Range
    <3> DEFINE m == IF k < p THEN k ELSE k - 1
    <3>2. m \in 1 .. Len(t) /\ at(m) = k
      BY <1>1, <1>9, <3>1
    <3>3. t[m] = x /\ m \in DOMAIN t
      BY <1>9, <1>11, <3>1, <3>2
    <3> QED
      BY <3>3 DEF Range
  <2> QED
    BY <2>1, <2>2
<1> QED
  BY <1>8, <1>9, <1>10, <1>12, <1>13 DEF p, t

\* What ext4_orphan_add and ext4_orphan_del leave alone.
SameFiles(w, v) == w.used = v.used /\ w.links = v.links /\ w.size = v.size
                   /\ w.blocks = v.blocks /\ w.leaf = v.leaf /\ w.map = v.map
LEMMA AddKeeps ==
  ASSUME NEW v \in FsViews, NEW s \in Seq(Inodes), NEW i \in Inodes
  PROVE  /\ AddOrphan(v, s, i) \in FsViews /\ SameFiles(AddOrphan(v, s, i), v)
         /\ AddOrphan(v, s, i) # v => /\ AddOrphan(v, s, i).head = i
                                      /\ AddOrphan(v, s, i).next = [v.next EXCEPT ![i] = v.head]
BY DEF AddOrphan, FsViews, SameFiles

LEMMA DelIs ==
  ASSUME NEW v \in FsViews, NEW s \in Seq(Inodes), NEW i \in Range(s)
  PROVE  /\ DelOrphan(v, s, i).head = IF Place(s, i) = 1 THEN v.next[i] ELSE v.head
         /\ \A j \in Inodes : DelOrphan(v, s, i).next[j] =
              IF j = i THEN None
              ELSE IF Place(s, i) # 1 /\ j = s[Place(s, i) - 1] THEN v.next[i] ELSE v.next[j]
BY DEF DelOrphan, FsViews

LEMMA DelKeeps ==
  ASSUME NEW v \in FsViews, NEW s \in Seq(Inodes), NEW i \in Inodes
  PROVE  DelOrphan(v, s, i) \in FsViews /\ SameFiles(DelOrphan(v, s, i), v)
<1>1. CASE i \notin Range(s)
  BY <1>1 DEF DelOrphan, SameFiles
<1>2. CASE i \in Range(s) /\ Place(s, i) = 1
  BY <1>2 DEF DelOrphan, SameFiles, FsViews
<1>3. CASE i \in Range(s) /\ Place(s, i) # 1
  <2>1. s[Place(s, i) - 1] \in Inodes
    BY <1>3, PlaceIs
  <2> QED
    BY <1>3, <2>1 DEF DelOrphan, SameFiles, FsViews
<1> QED
  BY <1>1, <1>2, <1>3

\* Spells, step by step.
LEMMA SpellsIs ==
  ASSUME NEW v, NEW s \in Seq(Inodes)
  PROVE  Spells(v, s) <=> /\ v.head = IF s = <<>> THEN None ELSE s[1]
                          /\ \A n \in 1 .. Len(s) :
                               v.next[s[n]] = IF n = Len(s) THEN None ELSE s[n + 1]
<1>1. Len(s) \in Nat /\ (s = <<>> <=> 0 = Len(s)) /\ 0 + 1 = 1
  OBVIOUS
<1>2. 0 .. Len(s) = {0} \cup 1 .. Len(s) /\ 0 \notin 1 .. Len(s)
  BY <1>1
<1> QED
  BY <1>1, <1>2 DEF Spells

LEMMA SpelledAdd ==
  ASSUME NEW v \in FsViews, NEW s, Spelled(v, s), NEW i \in Inodes
  PROVE  Spelled(AddOrphan(v, s, i), Listed(s, i))
<1>1. CASE i \in Range(s)
  BY <1>1 DEF AddOrphan, Listed
<1>2. CASE i \notin Range(s)
  <2>1. s \in Seq(Inodes) /\ IsInjective(s) /\ v.next[i] = None
    BY <1>2 DEF Spelled
  <2> DEFINE t == <<i>> \o s
             w == AddOrphan(v, s, i)
  <2>2. Listed(s, i) = t
    BY <1>2 DEF Listed
  <2>3. w.head = i /\ w.next = [v.next EXCEPT ![i] = v.head]
    BY <1>2, <2>1 DEF AddOrphan, FsViews
  <2>4. /\ t \in Seq(Inodes) /\ IsInjective(t) /\ Range(t) = Range(s) \cup {i}
        /\ Len(t) = Len(s) + 1 /\ t[1] = i /\ \A k \in 1 .. Len(s) : t[k + 1] = s[k]
    BY <1>2, <2>1, ConsIs
  <2>5. /\ v.head = IF s = <<>> THEN None ELSE s[1]
        /\ \A n \in 1 .. Len(s) : v.next[s[n]] = IF n = Len(s) THEN None ELSE s[n + 1]
    BY <2>1, SpellsIs DEF Spelled
  <2> HIDE DEF t, w
  <2>6. ASSUME NEW n \in 1 .. Len(t) PROVE w.next[t[n]] = IF n = Len(t) THEN None ELSE t[n + 1]
    <3>1. CASE n = 1
      <4>1. w.next[i] = v.head
        BY <2>3 DEF FsViews
      <4>2. s # <<>> => 1 \in 1 .. Len(s) /\ t[2] = s[1]
        BY <2>1, <2>4
      <4>3. s = <<>> <=> Len(t) = 1
        BY <2>1, <2>4
      <4> QED
        BY <2>4, <2>5, <3>1, <4>1, <4>2, <4>3
    <3>2. CASE n # 1
      <4>1. n - 1 \in 1 .. Len(s) /\ (n - 1) + 1 = n
        BY <2>1, <2>4, <3>2
      <4>2. t[n] = s[n - 1] /\ s[n - 1] \in Range(s) /\ s[n - 1] \in Inodes
        BY <2>1, <2>4, <4>1 DEF Range
      <4>3. w.next[t[n]] = v.next[s[n - 1]]
        BY <1>2, <2>3, <4>2 DEF FsViews
      <4>4. n # Len(t) => n \in 1 .. Len(s) /\ t[n + 1] = s[n]
        BY <2>1, <2>4, <4>1
      <4>5. n = Len(t) <=> n - 1 = Len(s)
        BY <2>1, <2>4, <4>1
      <4> QED
        BY <2>5, <4>1, <4>3, <4>4, <4>5
    <3> QED
      BY <3>1, <3>2
  <2>7. t # <<>>
    BY <2>1, <2>4
  <2>8. Spells(w, t)
    BY <2>3, <2>4, <2>6, <2>7, SpellsIs
  <2>9. \A j \in Inodes \ Range(t) : w.next[j] = None
    BY <2>3, <2>4 DEF Spelled, FsViews
  <2> QED
    BY <2>2, <2>4, <2>8, <2>9 DEF Spelled, w
<1> QED
  BY <1>1, <1>2

LEMMA SpelledDel ==
  ASSUME NEW v \in FsViews, NEW s, Spelled(v, s), NEW i \in Inodes
  PROVE  Spelled(DelOrphan(v, s, i), Unlisted(s, i))
<1>1. CASE i \notin Range(s)
  BY <1>1 DEF DelOrphan, Unlisted
<1>2. CASE i \in Range(s)
  <2> DEFINE p == Place(s, i)
             t == Unlisted(s, i)
             w == DelOrphan(v, s, i)
  <2>1. s \in Seq(Inodes) /\ IsInjective(s) /\ Len(s) \in Nat /\ DOMAIN s = 1 .. Len(s)
    BY DEF Spelled
  <2>2. p \in 1 .. Len(s) /\ s[p] = i
    BY <1>2, <2>1, PlaceIs
  <2> HIDE DEF p, t
  <2>3. /\ t \in Seq(Inodes) /\ IsInjective(t) /\ Range(t) = Range(s) \ {i}
        /\ Len(t) = Len(s) - 1
        /\ \A k \in 1 .. Len(t) : t[k] = IF k < p THEN s[k] ELSE s[k + 1]
    BY <1>2, <2>1, RemoveIs DEF p, t
  <2>4. /\ v.head = IF s = <<>> THEN None ELSE s[1]
        /\ \A n \in 1 .. Len(s) : v.next[s[n]] = IF n = Len(s) THEN None ELSE s[n + 1]
    BY <2>1, SpellsIs DEF Spelled
  <2>5. /\ w.head = IF p = 1 THEN v.next[i] ELSE v.head
        /\ \A j \in Inodes : w.next[j] = IF j = i THEN None
                                         ELSE IF p # 1 /\ j = s[p - 1] THEN v.next[i] ELSE v.next[j]
    <3>1. s \in Seq(Inodes) /\ i \in Range(s)
      BY <1>2, <2>1
    <3> QED
      BY <3>1, DelIs DEF p
  <2>12. Len(t) = Len(s) - 1 /\ Len(s) \in Nat /\ p \in 1 .. Len(s)
    BY <2>1, <2>2, <2>3
  <2>6. v.next \in [Inodes -> Inodes \cup {None}] /\ \A n \in 1 .. Len(s) : s[n] \in Inodes
    BY <2>1 DEF FsViews
  <2> HIDE DEF w
  <2>7. /\ w.next[i] = None
        /\ \A j \in Inodes : j # i /\ (p = 1 \/ j # s[p - 1]) => w.next[j] = v.next[j]
        /\ p # 1 => w.next[s[p - 1]] = v.next[i]
    <3>1. p # 1 => p - 1 \in 1 .. Len(s) /\ s[p - 1] \in Inodes /\ s[p - 1] # i
      BY <2>1, <2>2, <2>6 DEF IsInjective
    <3> QED
      BY <2>5, <2>6, <3>1
  <2>8. ASSUME NEW n \in 1 .. Len(t) PROVE w.next[t[n]] = IF n = Len(t) THEN None ELSE t[n + 1]
    <3>1. CASE n < p - 1
      <4>1. n \in 1 .. Len(s) /\ n + 1 \in 1 .. Len(t) /\ n + 1 < p /\ n < p /\ n # Len(s) /\ p # 1
        BY <2>12, <3>1
      <4>2. p - 1 \in 1 .. Len(s) /\ n # p - 1 /\ n # p
        BY <2>12, <4>1, <3>1
      <4>3. s[n] # i /\ s[n] # s[p - 1]
        BY <2>1, <2>2, <4>1, <4>2 DEF IsInjective
      <4> QED
        BY <2>3, <2>4, <2>6, <2>7, <3>1, <4>1, <4>3
    <3>2. CASE n = p - 1
      <4>1. n \in 1 .. Len(s) /\ n < p /\ p # 1 /\ t[n] = s[p - 1] /\ w.next[t[n]] = v.next[s[p]]
        <5>1. n \in 1 .. Len(s) /\ n < p /\ p # 1
          BY <2>12, <3>2
        <5> QED
          BY <2>2, <2>3, <2>7, <3>2, <5>1
      <4>2. n = Len(t) <=> p = Len(s)
        BY <2>12, <3>2
      <4>3. n # Len(t) => n + 1 \in 1 .. Len(t) /\ n + 1 = p /\ ~(n + 1 < p)
        BY <2>12, <3>2
      <4> QED
        BY <2>2, <2>3, <2>4, <4>1, <4>2, <4>3
    <3>3. CASE n >= p
      <4>1. n + 1 \in 1 .. Len(s) /\ ~(n < p) /\ t[n] = s[n + 1] /\ n + 1 # p
        <5>1. n + 1 \in 1 .. Len(s) /\ ~(n < p) /\ n + 1 # p
          BY <2>12, <3>3
        <5> QED
          BY <2>3, <5>1
      <4>2. s[n + 1] # i /\ (p # 1 => s[n + 1] # s[p - 1])
        <5>1. p # 1 => p - 1 \in 1 .. Len(s) /\ n + 1 # p - 1
          BY <2>12, <3>3
        <5> QED
          BY <2>1, <2>2, <4>1, <5>1 DEF IsInjective
      <4>3. w.next[t[n]] = v.next[s[n + 1]]
        BY <2>6, <2>7, <4>1, <4>2
      <4>4. n = Len(t) <=> n + 1 = Len(s)
        BY <2>12
      <4>5. n # Len(t) => n + 1 \in 1 .. Len(t) /\ ~(n + 1 < p) /\ t[n + 1] = s[(n + 1) + 1]
        <5>1. n # Len(t) => n + 1 \in 1 .. Len(t) /\ ~(n + 1 < p)
          BY <2>12, <3>3
        <5> QED
          BY <2>3, <5>1
      <4> QED
        BY <2>4, <4>1, <4>3, <4>4, <4>5
    <3> QED
      BY <2>12, <3>1, <3>2, <3>3
  <2>9. w.head = IF t = <<>> THEN None ELSE t[1]
    <3>1. s # <<>> /\ v.head = s[1] /\ (t = <<>> <=> Len(s) = 1)
      <4>1. Len(s) # 0 /\ (Len(t) = 0 <=> Len(s) = 1)
        BY <2>12
      <4>2. (s = <<>> <=> Len(s) = 0) /\ (t = <<>> <=> Len(t) = 0)
        BY <2>1, <2>3, EmptySeq
      <4> QED
        BY <2>4, <4>1, <4>2
    <3>2. CASE p = 1
      <4>1. t # <<>> => 1 \in 1 .. Len(t) /\ ~(1 < p) /\ 1 + 1 = 2
        BY <2>12, <3>1, <3>2
      <4>2. 1 \in 1 .. Len(s) /\ (1 = Len(s) <=> t = <<>>)
        BY <2>12, <3>1
      <4> QED
        BY <2>2, <2>3, <2>4, <2>5, <3>1, <3>2, <4>1, <4>2
    <3>3. CASE p # 1
      <4>1. t # <<>> /\ 1 \in 1 .. Len(t) /\ 1 < p
        BY <2>12, <3>1, <3>3
      <4> QED
        BY <2>3, <2>5, <3>1, <3>3, <4>1
    <3> QED
      BY <3>2, <3>3
  <2>10. Spells(w, t)
    BY <2>3, <2>8, <2>9, SpellsIs
  <2>11. \A j \in Inodes \ Range(t) : w.next[j] = None
    <3>1. p # 1 => s[p - 1] \in Range(s)
      BY <2>1, <2>2 DEF Range
    <3>2. p # 1 => s[p - 1] # i
      BY <2>1, <2>2 DEF IsInjective
    <3> QED
      BY <2>3, <2>7, <3>1, <3>2 DEF Spelled
  <2> QED
    BY <2>3, <2>10, <2>11 DEF Spelled, w, t
<1> QED
  BY <1>1, <1>2

\* Walking the list on disk meets whom it spells, and comes to an end.
LEMMA OrphansAre ==
  ASSUME NEW v \in FsViews, NEW s, Spelled(v, s)
  PROVE  Orphans(v) = Range(s) /\ Ends(v)
<1>1. s \in Seq(Inodes) /\ Len(s) \in Nat /\ DOMAIN s = 1 .. Len(s)
  BY DEF Spelled
<1>7. Len(s) \in Nat
  BY DEF Spelled
<1>2. /\ v.head = IF s = <<>> THEN None ELSE s[1]
      /\ \A n \in 1 .. Len(s) : v.next[s[n]] = IF n = Len(s) THEN None ELSE s[n + 1]
  BY <1>1, SpellsIs DEF Spelled
<1>3. \A n \in 1 .. Len(s) : s[n] \in Inodes /\ s[n] \in Range(s) /\ s[n] # None
  BY <1>1, InodesAssumption DEF Range
<1>4. ASSUME NEW i \in Orphans(v) PROVE i \in Range(s)
  <2>1. Range(s) \in SUBSET Inodes
    BY <1>1, <1>3 DEF Range
  <2>2. {v.head} \ {None} \subseteq Range(s)
    <3>1. s # <<>> => 1 \in 1 .. Len(s)
      BY <1>1
    <3> QED
      BY <1>2, <1>3, <3>1
  <2>3. ASSUME NEW j \in Range(s) PROVE {v.next[j]} \ {None} \subseteq Range(s)
    <3>1. PICK n \in 1 .. Len(s) : s[n] = j
      BY <1>1 DEF Range
    <3>2. n # Len(s) => n + 1 \in 1 .. Len(s)
      BY <1>7
    <3> QED
      BY <1>2, <1>3, <3>1, <3>2
  <2> QED
    BY <2>1, <2>2, <2>3 DEF Orphans
<1>5. ASSUME NEW i \in Range(s) PROVE i \in Orphans(v)
  <2>1. i \in Inodes
    BY <1>1, <1>3 DEF Range
  <2> SUFFICES ASSUME NEW C \in SUBSET Inodes, {v.head} \ {None} \subseteq C,
                      \A j \in C : {v.next[j]} \ {None} \subseteq C, i \notin C
               PROVE  FALSE
    BY <2>1 DEF Orphans
  <2> DEFINE missed == {n \in 1 .. Len(s) : s[n] \notin C}
  <2>2. missed # {} /\ missed \in SUBSET Nat
    BY <1>1 DEF Range
  <2>3. PICK k \in missed : \A n \in missed : k <= n
    BY <2>2, LeastOf
  <2>4. CASE k = 1
    <3>1. 1 \in 1 .. Len(s) /\ s[1] \notin C /\ s # <<>>
      BY <1>1, <2>3, <2>4
    <3> QED
      BY <1>2, <1>3, <3>1
  <2>5. CASE k # 1
    <3>1. k - 1 \in 1 .. Len(s) /\ k - 1 # Len(s) /\ (k - 1) + 1 = k /\ ~(k <= k - 1)
      BY <1>1, <2>3, <2>5
    <3>2. s[k - 1] \in C
      BY <2>3, <3>1
    <3>3. v.next[s[k - 1]] = s[k]
      BY <1>2, <3>1
    <3> QED
      BY <1>3, <2>3, <3>2, <3>3
  <2> QED
    BY <2>4, <2>5
<1>6. Ends(v)
  <2>1. CASE s = <<>>
    BY <1>2, <2>1 DEF Ends
  <2>2. CASE s # <<>>
    <3>1. Len(s) \in 1 .. Len(s)
      BY <1>1, <2>2
    <3>2. s[Len(s)] \in Orphans(v) /\ v.next[s[Len(s)]] = None
      BY <1>2, <1>3, <1>5, <3>1
    <3> QED
      BY <3>2 DEF Ends
  <2> QED
    BY <2>1, <2>2
<1> QED
  BY <1>4, <1>5, <1>6

\* A list without repetition is no longer than the set of inodes.
LEMMA ListBound ==
  ASSUME NEW s \in Seq(Inodes), IsInjective(s)
  PROVE  Len(s) \in 0 .. Cardinality(Inodes) /\ s \in [1 .. Len(s) -> Inodes]
<1>1. Len(s) \in Nat /\ s \in [1 .. Len(s) -> Inodes]
  OBVIOUS
<1>2. IsFiniteSet(1 .. Len(s)) /\ Cardinality(1 .. Len(s)) = Len(s)
  BY <1>1, FS_Interval
<1>3. s \in Injection(1 .. Len(s), Inodes)
  BY <1>1 DEF Injection, IsInjective
<1>4. Cardinality(1 .. Len(s)) <= Cardinality(Inodes)
  BY <1>3, FS_Injection, InodesAssumption
<1>5. Cardinality(Inodes) \in Nat
  BY InodesAssumption, FS_CardinalityType
<1> QED
  BY <1>1, <1>2, <1>4, <1>5

-----------------------------------------------------------------------------
(***************************************************************************)
(* What each step does to the files, without the list of orphans.          *)
(***************************************************************************)

Has(v, U, L, Z) == v \in FsViews /\ v.used = U /\ v.links = L /\ v.size = Z
SameBlocks(w, v) == w.blocks = v.blocks /\ w.leaf = v.leaf /\ w.map = v.map

\* A step that changes no block: not what the transactions and the journal know of
\* them, and not what the device has in them.
Calm ==
    /\ fs' \in FsViews /\ SameBlocks(fs', fs)
    /\ UNCHANGED <<going, disk, committing, running, ending, logged, content, inflight>>
    /\ dirty' \in SUBSET Blocks

LEMMA CreateDoes ==
  ASSUME Types, NEW i \in Inodes, Create(i)
  PROVE  /\ Calm /\ UNCHANGED <<dirty, list, step, target, phase, errors>>
         /\ Has(fs', fs.used \cup {i}, [fs.links EXCEPT ![i] = 1], fs.size)
         /\ fs'.head = fs.head /\ fs'.next = [fs.next EXCEPT ![i] = None]
         /\ open' = Set(open, i, "open") /\ i \notin fs.used /\ phase = "up"
BY DEF Types, Create, Up, FsViews, Calm, SameBlocks, Has, data

LEMMA TmpFileDoes ==
  ASSUME Types, NEW i \in Inodes, TmpFile(i)
  PROVE  /\ Calm /\ UNCHANGED <<dirty, step, target, phase, errors>>
         /\ Has(fs', fs.used \cup {i}, fs.links, fs.size)
         /\ \E v \in FsViews :
              /\ v.head = fs.head /\ v.next = [fs.next EXCEPT ![i] = None]
              /\ fs' = AddOrphan(v, list, i) /\ list' = Listed(list, i)
         /\ open' = Set(open, i, "tmpfile") /\ i \notin fs.used /\ phase = "up"
<1> DEFINE v == [fs EXCEPT !.used = @ \cup {i}, !.next[i] = None]
<1>1. /\ v \in FsViews /\ SameBlocks(v, fs) /\ Has(v, fs.used \cup {i}, fs.links, fs.size)
      /\ v.head = fs.head /\ v.next = [fs.next EXCEPT ![i] = None]
  BY DEF Types, FsViews, SameBlocks, Has
<1>2. fs' = AddOrphan(v, list, i)
  BY DEF TmpFile
<1> HIDE DEF v
<1>3. fs' \in FsViews /\ SameFiles(fs', v)
  BY <1>1, <1>2, AddKeeps DEF Types
<1>4. \E x \in FsViews :
        /\ x.head = fs.head /\ x.next = [fs.next EXCEPT ![i] = None]
        /\ fs' = AddOrphan(x, list, i) /\ list' = Listed(list, i)
  BY <1>1, <1>2 DEF TmpFile
<1> QED
  BY <1>1, <1>3, <1>4 DEF TmpFile, Up, Types, Calm, SameBlocks, SameFiles, Has, data

LEMMA LinkDoes ==
  ASSUME Types, NEW i \in Inodes, Link(i)
  PROVE  /\ Calm /\ UNCHANGED <<dirty, step, target, phase, errors>>
         /\ Has(fs', fs.used, [fs.links EXCEPT ![i] = 1], fs.size)
         /\ \E v \in FsViews :
              /\ v.head = fs.head /\ v.next = fs.next
              /\ fs' = DelOrphan(v, list, i) /\ list' = Unlisted(list, i)
         /\ open' = Set(open, i, "open") /\ i \in fs.used /\ step[i] = "idle" /\ phase = "up"
<1> DEFINE v == [fs EXCEPT !.links[i] = 1]
<1>1. /\ v \in FsViews /\ SameBlocks(v, fs) /\ Has(v, fs.used, [fs.links EXCEPT ![i] = 1], fs.size)
      /\ v.head = fs.head /\ v.next = fs.next
  BY DEF Types, FsViews, SameBlocks, Has
<1>2. fs' = DelOrphan(v, list, i)
  BY DEF Link
<1> HIDE DEF v
<1>3. fs' \in FsViews /\ SameFiles(fs', v)
  BY <1>1, <1>2, DelKeeps DEF Types
<1>4. \E x \in FsViews :
        /\ x.head = fs.head /\ x.next = fs.next
        /\ fs' = DelOrphan(x, list, i) /\ list' = Unlisted(list, i)
  BY <1>1, <1>2 DEF Link
<1> QED
  BY <1>1, <1>3, <1>4 DEF Link, Up, Idle, Types, Calm, SameBlocks, SameFiles, Has, data

LEMMA UnlinkDoes ==
  ASSUME Types, NEW i \in Inodes, Unlink(i)
  PROVE  /\ Calm /\ UNCHANGED <<dirty, open, target, phase, errors>>
         /\ Has(fs', fs.used, [fs.links EXCEPT ![i] = 0], fs.size)
         /\ \E v \in FsViews :
              /\ v.head = fs.head /\ v.next = fs.next
              /\ fs' = AddOrphan(v, list, i) /\ list' = Listed(list, i)
         /\ Goto(i, IF open[i] = "closed" THEN "doomed" ELSE "idle")
         /\ i \in fs.used /\ step[i] = "idle" /\ fs.links[i] = 1 /\ phase = "up"
<1> DEFINE v == [fs EXCEPT !.links[i] = 0]
<1>1. /\ v \in FsViews /\ SameBlocks(v, fs) /\ Has(v, fs.used, [fs.links EXCEPT ![i] = 0], fs.size)
      /\ v.head = fs.head /\ v.next = fs.next
  BY DEF Types, FsViews, SameBlocks, Has
<1>2. fs' = AddOrphan(v, list, i)
  BY DEF Unlink
<1> HIDE DEF v
<1>3. fs' \in FsViews /\ SameFiles(fs', v)
  BY <1>1, <1>2, AddKeeps DEF Types
<1>4. \E x \in FsViews :
        /\ x.head = fs.head /\ x.next = fs.next
        /\ fs' = AddOrphan(x, list, i) /\ list' = Listed(list, i)
  BY <1>1, <1>2 DEF Unlink
<1> QED
  BY <1>1, <1>3, <1>4 DEF Unlink, Up, Idle, Types, Calm, SameBlocks, SameFiles, Has, data

LEMMA ResizeDoes ==
  ASSUME Types, NEW i \in Inodes, Resize(i)
  PROVE  /\ Calm /\ UNCHANGED <<dirty, open, phase, errors>>
         /\ Has(fs', fs.used, fs.links, [fs.size EXCEPT ![i] = target[i]])
         /\ \E v \in FsViews :
              /\ v.head = fs.head /\ v.next = fs.next
              /\ fs' = AddOrphan(v, list, i) /\ list' = Listed(list, i)
         /\ Goto(i, "sized") /\ target' = Set(target, i, 0) /\ step[i] = "asked"
<1> DEFINE v == [fs EXCEPT !.size[i] = target[i]]
<1>1. /\ v \in FsViews /\ SameBlocks(v, fs) /\ Has(v, fs.used, fs.links, [fs.size EXCEPT ![i] = target[i]])
      /\ v.head = fs.head /\ v.next = fs.next
  <2>1. target[i] \in Nat
    BY JournaledAssumption DEF Types
  <2> QED
    BY <2>1 DEF Types, FsViews, SameBlocks, Has
<1>2. fs' = AddOrphan(v, list, i)
  BY DEF Resize
<1> HIDE DEF v
<1>3. fs' \in FsViews /\ SameFiles(fs', v)
  BY <1>1, <1>2, AddKeeps DEF Types
<1>4. \E x \in FsViews :
        /\ x.head = fs.head /\ x.next = fs.next
        /\ fs' = AddOrphan(x, list, i) /\ list' = Listed(list, i)
  BY <1>1, <1>2 DEF Resize
<1> QED
  BY <1>1, <1>3, <1>4 DEF Resize, Types, Calm, SameBlocks, SameFiles, Has, data, sys

LEMMA StartCutDoes ==
  ASSUME Types, NEW i \in Inodes, StartCut(i)
  PROVE  /\ Calm /\ UNCHANGED <<open, target, phase, errors>>
         /\ Has(fs', fs.used, fs.links, fs.size)
         /\ fs' = AddOrphan(fs, list, i) /\ list' = Listed(list, i)
         /\ GoOn(i) /\ step[i] = "sized"
         /\ inflight \cap Beyond(fs, i, fs.size[i]) = {} /\ dirty' = dirty \ Beyond(fs, i, fs.size[i])
<1>1. fs' = AddOrphan(fs, list, i) /\ fs \in FsViews /\ list \in Seq(Inodes)
  BY DEF Types, StartCut
<1>2. fs' \in FsViews /\ SameFiles(fs', fs)
  BY <1>1, AddKeeps
<1> QED
  BY <1>1, <1>2 DEF StartCut, Dropped, Types, Calm, SameBlocks, SameFiles, Has, sys

LEMMA StartEvictDoes ==
  ASSUME Types, NEW i \in Inodes, StartEvict(i)
  PROVE  /\ Calm /\ UNCHANGED <<list, open, target, phase, errors>>
         /\ Has(fs', fs.used, fs.links, [fs.size EXCEPT ![i] = 0])
         /\ fs'.head = fs.head /\ fs'.next = fs.next
         /\ GoOn(i) /\ step[i] = "doomed"
         /\ inflight \cap Beyond(fs, i, 0) = {} /\ dirty' = dirty \ Beyond(fs, i, 0)
BY DEF Types, StartEvict, Dropped, FsViews, Calm, SameBlocks, Has, sys

\* The end of a truncation, or of a deletion; a file that is open without a name keeps
\* its place on the list.
Finish(i) == FinishCut(i) \/ FinishEvict(i)
Keeps(i) == InUse(i) /\ fs.links[i] # 1
LEMMA FinishDoes ==
  ASSUME Types, NEW i \in Inodes, Finish(i)
  PROVE  /\ Calm /\ UNCHANGED <<dirty, open, target, phase, errors>>
         /\ Has(fs', IF InUse(i) THEN fs.used ELSE fs.used \ {i}, fs.links, fs.size)
         /\ Keeps(i) => fs' = fs /\ list' = list
         /\ ~Keeps(i) => /\ fs'.head = DelOrphan(fs, list, i).head
                         /\ fs'.next = DelOrphan(fs, list, i).next /\ list' = Unlisted(list, i)
         /\ Goto(i, "idle") /\ step[i] = "cutting" /\ Len(fs.blocks[i]) <= fs.size[i]
<1> DEFINE v == DelOrphan(fs, list, i)
<1>1. v \in FsViews /\ SameFiles(v, fs) /\ fs \in FsViews
  BY DelKeeps DEF Types
<1>2. /\ fs' = IF Keeps(i) THEN fs ELSE IF InUse(i) THEN v ELSE [v EXCEPT !.used = @ \ {i}]
      /\ list' = IF Keeps(i) THEN list ELSE Unlisted(list, i)
  BY DEF Finish, FinishCut, FinishEvict, Keeps
<1> HIDE DEF v
<1>3. /\ fs' \in FsViews /\ SameBlocks(fs', fs)
      /\ ~Keeps(i) => fs'.head = v.head /\ fs'.next = v.next
      /\ Has(fs', IF InUse(i) THEN fs.used ELSE fs.used \ {i}, fs.links, fs.size)
  BY <1>1, <1>2 DEF FsViews, SameFiles, SameBlocks, Has, Keeps
<1> QED
  BY <1>2, <1>3 DEF Finish, FinishCut, FinishEvict, Types, Calm, data, sys, v

LEMMA RewriteDoes ==
  ASSUME Types, NEW i \in Inodes, Rewrite(i)
  PROVE  /\ Calm /\ UNCHANGED <<list, open, step, target, phase, errors>>
         /\ Has(fs', fs.used, fs.links, [fs.size EXCEPT ![i] = fs.size[i] + 1])
         /\ fs'.head = fs.head /\ fs'.next = fs.next
         /\ fs.size[i] < Len(fs.blocks[i])
         /\ dirty' = dirty \cup {fs.blocks[i][fs.size[i] + 1]} /\ dirty' \subseteq dirty \cup DataOf(fs)
         /\ i \in fs.used /\ step[i] = "idle" /\ phase = "up"
<1>1. fs.size[i] + 1 \in DOMAIN fs.blocks[i] /\ fs.blocks[i] \in Seq(Blocks)
  BY DEF Types, Rewrite, FsViews
<1>2. fs.blocks[i][fs.size[i] + 1] \in Used(fs, i) /\ fs.blocks[i][fs.size[i] + 1] \in Blocks
  BY <1>1 DEF Used, Range
<1>3. fs.blocks[i][fs.size[i] + 1] \in DataOf(fs)
  BY <1>2 DEF DataOf
<1>4. /\ fs' \in FsViews /\ SameBlocks(fs', fs) /\ fs'.head = fs.head /\ fs'.next = fs.next
      /\ Has(fs', fs.used, fs.links, [fs.size EXCEPT ![i] = fs.size[i] + 1])
  <2>1. fs.size[i] \in Nat
    BY DEF Types, FsViews
  <2>2. fs.size[i] + 1 \in Nat
    BY <2>1
  <2> QED
    BY <2>2 DEF Types, Rewrite, FsViews, SameBlocks, Has
<1> QED
  BY <1>2, <1>3, <1>4 DEF Types, Rewrite, Up, Idle, Calm, mem

\* A file grows by the block b, and by l for its extents if it is one.
Grows(i, b, l) ==
    /\ b \in Available /\ l \in Available \cup {None} /\ l # b
    /\ MayWrite(i) /\ Len(fs.blocks[i]) < MaxSize
    /\ l # None => fs.leaf[i] = None
    /\ Has(fs', fs.used, fs.links,
           IF step[i] = "sized" THEN fs.size ELSE [fs.size EXCEPT ![i] = fs.size[i] + 1])
    /\ fs'.head = fs.head /\ fs'.next = fs.next
    /\ fs'.blocks = [fs.blocks EXCEPT ![i] = Append(fs.blocks[i], b)]
    /\ fs'.leaf = IF l = None THEN fs.leaf ELSE [fs.leaf EXCEPT ![i] = l]
    /\ fs'.map = fs.map \cup {b} \cup ({fs'.leaf[i]} \ {None})
    /\ running' = Logs(running, fs'.leaf[i])
LEMMA WriteDoes ==
  ASSUME Types, NEW i \in Inodes, Write(i)
  PROVE  /\ \E b \in Blocks, l \in Blocks \cup {None} :
              /\ Grows(i, b, l)
              /\ dirty' = IF Delalloc THEN dirty ELSE dirty \cup {b}
              /\ inflight' = IF Delalloc THEN inflight \cup {b} ELSE inflight
         /\ UNCHANGED <<going, disk, committing, ending, logged, content, list, open, step, target, phase, errors>>
         /\ InUse(i) /\ step'[i] = step[i] /\ phase = "up"
<1> DEFINE leaf(l) == IF fs.leaf[i] = None /\ Len(fs.blocks[i]) = RootMax THEN l ELSE fs.leaf[i]
<1>1. PICK b \in Available, l \in Available \cup {None} :
        /\ MayWrite(i) /\ Len(fs.blocks[i]) < MaxSize
        /\ (fs.leaf[i] = None /\ Len(fs.blocks[i]) = RootMax) <=> l # None
        /\ l # b
        /\ fs' = [fs EXCEPT !.blocks[i] = Append(@, b), !.leaf[i] = leaf(l),
                            !.size[i] = IF step[i] = "sized" THEN @ ELSE @ + 1,
                            !.map = @ \cup {b} \cup ({leaf(l)} \ {None})]
        /\ running' = Logs(running, leaf(l))
        /\ dirty' = IF Delalloc THEN dirty ELSE dirty \cup {b}
        /\ inflight' = IF Delalloc THEN inflight \cup {b} ELSE inflight
  BY DEF Write
<1>2. b \in Blocks /\ l \in Blocks \cup {None} /\ leaf(l) \in Blocks \cup {None}
  BY DEF Available, Types, FsViews
<1>3. fs.size[i] \in Nat /\ Append(fs.blocks[i], b) \in Seq(Blocks)
  BY <1>2 DEF Types, FsViews
<1>4. fs.size[i] + 1 \in Nat
  BY <1>3
<1> HIDE DEF leaf
<1>5. /\ Has(fs', fs.used, fs.links,
             IF step[i] = "sized" THEN fs.size ELSE [fs.size EXCEPT ![i] = fs.size[i] + 1])
      /\ fs'.head = fs.head /\ fs'.next = fs.next
      /\ fs'.blocks = [fs.blocks EXCEPT ![i] = Append(fs.blocks[i], b)]
      /\ fs'.leaf = [fs.leaf EXCEPT ![i] = leaf(l)]
      /\ fs'.map = fs.map \cup {b} \cup ({leaf(l)} \ {None})
  BY <1>1, <1>2, <1>3, <1>4 DEF Types, FsViews, Has
<1>6. fs'.leaf = (IF l = None THEN fs.leaf ELSE [fs.leaf EXCEPT ![i] = l]) /\ fs'.leaf[i] = leaf(l)
  <2>1. leaf(l) = IF l = None THEN fs.leaf[i] ELSE l
    BY <1>1 DEF leaf
  <2>2. fs.leaf \in [Inodes -> Blocks \cup {None}]
    BY DEF Types, FsViews
  <2>3. l = None => fs.leaf = [fs.leaf EXCEPT ![i] = leaf(l)]
    BY <2>1, <2>2
  <2> QED
    BY <1>5, <2>1, <2>2, <2>3
<1>7. Grows(i, b, l)
  BY <1>1, <1>5, <1>6 DEF Grows
<1> QED
  BY <1>1, <1>2, <1>7 DEF Write, Up, mem

\* A file loses its last block, and its block of extents if nothing is left.
LastOne(i) == Len(fs.blocks[i]) = 1 /\ fs.leaf[i] # None
Shrinks(i, b) ==
    /\ fs.blocks[i] # <<>> /\ b = fs.blocks[i][Len(fs.blocks[i])] /\ fs.size[i] < Len(fs.blocks[i])
    /\ Has(fs', fs.used, fs.links, fs.size)
    /\ fs'.head = fs.head /\ fs'.next = fs.next
    /\ fs'.blocks = [fs.blocks EXCEPT ![i] = SubSeq(fs.blocks[i], 1, Len(fs.blocks[i]) - 1)]
    /\ fs'.leaf = IF LastOne(i) THEN [fs.leaf EXCEPT ![i] = None] ELSE fs.leaf
    /\ fs'.map = fs.map \ ({b} \cup (IF LastOne(i) THEN {fs.leaf[i]} ELSE {}))
    /\ running' = IF LastOne(i) THEN Revoked(Freed(Freed(running, b), fs.leaf[i]), fs.leaf[i])
                  ELSE Logs(Freed(running, b), fs.leaf[i])
LEMMA CutDoes ==
  ASSUME Types, NEW i \in Inodes, Cut(i)
  PROVE  /\ \E b \in Blocks : Shrinks(i, b)
         /\ UNCHANGED <<going, disk, committing, ending, logged, content, dirty, inflight,
                        list, open, target, phase, errors>>
         /\ GoOn(i) /\ step[i] = "cutting"
<1> DEFINE s == fs.blocks[i]
           n == Len(s)
           l == fs.leaf[i]
<1>1. s \in Seq(Blocks) /\ n \in Nat /\ fs.size[i] \in Nat /\ n > fs.size[i]
  BY DEF Types, FsViews, Cut
<1>2. s # <<>> /\ s[n] \in Blocks /\ SubSeq(s, 1, n - 1) \in Seq(Blocks)
  BY <1>1
<1>3. l \in Blocks \cup {None}
  BY DEF Types, FsViews
<1>4. /\ fs' = [fs EXCEPT !.blocks[i] = SubSeq(s, 1, n - 1), !.leaf[i] = IF LastOne(i) THEN None ELSE l,
                          !.map = @ \ ({s[n]} \cup (IF LastOne(i) THEN {l} ELSE {}))]
      /\ running' = IF LastOne(i) THEN Revoked(Freed(Freed(running, s[n]), l), l)
                    ELSE Logs(Freed(running, s[n]), l)
  BY DEF Cut, LastOne
<1> HIDE DEF s, n
<1>5. /\ Has(fs', fs.used, fs.links, fs.size)
      /\ fs'.head = fs.head /\ fs'.next = fs.next
      /\ fs'.blocks = [fs.blocks EXCEPT ![i] = SubSeq(s, 1, n - 1)]
      /\ fs'.leaf = [fs.leaf EXCEPT ![i] = IF LastOne(i) THEN None ELSE l]
      /\ fs'.map = fs.map \ ({s[n]} \cup (IF LastOne(i) THEN {l} ELSE {}))
  BY <1>2, <1>3, <1>4 DEF Types, FsViews, Has
<1>6. fs'.leaf = IF LastOne(i) THEN [fs.leaf EXCEPT ![i] = None] ELSE fs.leaf
  BY <1>5 DEF Types, FsViews
<1>8. Shrinks(i, s[n])
  BY <1>1, <1>2, <1>4, <1>5, <1>6 DEF Shrinks, s, n
<1> QED
  BY <1>2, <1>8 DEF Cut, data, sys

-----------------------------------------------------------------------------
(***************************************************************************)
(* The initial states.                                                     *)
(***************************************************************************)

LEMMA OldIs ==
  /\ OldFs \in FsViews /\ OldFs.links \in [Inodes -> {0, 1}]
  /\ OldFs.blocks = Old /\ OldFs.leaf = Nobody /\ OldFs.head = None /\ OldFs.next = Nobody
  /\ \A i \in Inodes : /\ OldFs.size[i] = Len(Old[i]) /\ Old[i] \in Seq(Blocks)
                       /\ i \in OldFs.used <=> Old[i] # <<>>
                       /\ OldFs.links[i] = IF i \in OldFs.used THEN 1 ELSE 0
  /\ OldFs.map = DataOf(OldFs)
<1> DEFINE there == {i \in Inodes : Old[i] # <<>>}
<1>1. \A i \in Inodes : Old[i] \in Seq(Blocks) /\ Len(Old[i]) \in Nat /\ DOMAIN Old[i] = 1 .. Len(Old[i])
  BY JournaledAssumption
<1>2. \A i \in Inodes : Range(Old[i]) \subseteq Blocks
  BY <1>1 DEF Range
<1>3. OldFs = [used |-> there, links |-> [i \in Inodes |-> IF i \in there THEN 1 ELSE 0],
               size |-> [i \in Inodes |-> Len(Old[i])], blocks |-> Old, leaf |-> Nobody,
               map |-> UNION {Range(Old[i]) : i \in there}, head |-> None, next |-> Nobody]
  BY DEF OldFs
<1>4. Nobody \in [Inodes -> Blocks \cup {None}] /\ Nobody \in [Inodes -> Inodes \cup {None}]
  BY DEF Nobody
<1>5. UNION {Range(Old[i]) : i \in there} \in SUBSET Blocks
  BY <1>2
<1>6. OldFs \in FsViews
  BY <1>1, <1>3, <1>4, <1>5, JournaledAssumption DEF FsViews
<1>7. \A i \in Inodes \ there : Range(Old[i]) = {}
  BY <1>1 DEF Range
<1>8. DataOf(OldFs) = UNION {Range(Old[i]) : i \in Inodes}
  BY <1>3 DEF DataOf, Used
<1>9. UNION {Range(Old[i]) : i \in Inodes} = UNION {Range(Old[i]) : i \in there}
  BY <1>7
<1> QED
  BY <1>1, <1>3, <1>6, <1>8, <1>9

LEMMA InitInv == Init => Inv /\ (Delalloc => Delayed) /\ Lists /\ Nameless /\ Marked
<1> SUFFICES ASSUME Init PROVE Inv /\ (Delalloc => Delayed) /\ Lists /\ Nameless /\ Marked
  OBVIOUS
<1>1. \A i \in Inodes : \A n \in DOMAIN Old[i] : Old[i][n] \in OldFs.map /\ Old[i][n] \in Blocks
  BY OldIs DEF DataOf, Used, Range
<1>2. ASSUME NEW i \in Inodes, NEW n \in DOMAIN Old[i] PROVE content[Old[i][n]] = Data(i)
  <2> DEFINE b == Old[i][n]
  <2>1. content[b] = Data(CHOOSE j \in Inodes : b \in Range(Old[j]))
    BY <1>1 DEF Init, OldContent
  <2>2. b \in Range(Old[i])
    BY DEF Range
  <2>3. ASSUME NEW j \in Inodes, b \in Range(Old[j]) PROVE j = i
    BY <2>3, JournaledAssumption DEF Range
  <2>4. (CHOOSE j \in Inodes : b \in Range(Old[j])) = i
    BY <2>2, <2>3
  <2> QED
    BY <2>1, <2>4
<1>3. Types
  <2>1. content \in [Blocks -> Contents]
    <3>1. ASSUME NEW b \in Blocks PROVE OldContent[b] \in Contents
      <4>1. CASE b \in OldFs.map
        <5>1. PICK i \in Inodes : b \in Range(Old[i])
          BY <4>1, OldIs DEF DataOf, Used
        <5>2. OldContent[b] = Data(CHOOSE j \in Inodes : b \in Range(Old[j]))
          BY <4>1 DEF OldContent
        <5>3. (CHOOSE j \in Inodes : b \in Range(Old[j])) \in Inodes
          BY <5>1
        <5> QED
          BY <5>2, <5>3 DEF Data, Contents
      <4>2. CASE b \notin OldFs.map
        BY <4>2 DEF OldContent, Other, Contents
      <4> QED
        BY <4>1, <4>2
    <3> QED
      BY <3>1 DEF Init, OldContent
  <2>2. NoTx \in Txs
    BY DEF NoTx, Txs
  <2>3. list \in Seq(Inodes) /\ IsInjective(list)
    BY DEF Init, IsInjective
  <2>4. target \in [Inodes -> 0 .. MaxSize]
    BY JournaledAssumption DEF Init, Zero
  <2> QED
    BY <2>1, <2>2, <2>3, <2>4, OldIs DEF Init, Types, Closed, AllIdle
<1>4. Shaped(OldFs)
  <2>1. \A i \in Inodes : Len(Old[i]) \in Nat /\ Len(Old[i]) <= MaxSize
    BY JournaledAssumption
  <2> QED
    BY <2>1, OldIs DEF Shaped, Nobody
<1>5. Steps
  BY DEF Init, Steps, AllIdle, Closed
<1>6. Blocking
  <2>1. Leaves(OldFs) = {}
    BY OldIs DEF Leaves, Nobody, Range
  <2>2. Sole(OldFs)
    <3>1. \A i, j \in Inodes : \A n \in DOMAIN Old[j] : Nobody[i] # Old[j][n]
      BY <1>1, JournaledAssumption DEF Nobody
    <3> QED
      BY <2>1, <3>1, OldIs, JournaledAssumption DEF Sole, Nobody
  <2>3. Frees(OldFs, OldFs, NoTx)
    BY DEF Frees, NoTx
  <2> QED
    BY <2>2, <2>3 DEF Init, Blocking, NoTx
<1>7. Journaling
  BY OldIs, <1>3 DEF Init, Journaling, Nobody, Types
<1>8. Written
  BY DEF Init, Written, AllIdle
<1>9. Delayed
  BY <1>2, OldIs DEF Init, Delayed
<1>10. Lists
  <2>1. <<>> \in Seq(Inodes) /\ Range(<<>>) = {} /\ Len(<<>>) = 0
    BY DEF Range
  <2>2. Listing(OldFs, <<>>)
    <3>2. \A n \in 0 .. 0 : n = 0
      OBVIOUS
    <3>1. Spells(OldFs, <<>>)
      BY <2>1, <3>2, OldIs DEF Spells
    <3> QED
      BY <2>1, <3>1, OldIs DEF Listing, Spelled, Done, IsInjective, Nobody, FsViews
  <2> QED
    BY <2>1, <2>2 DEF Init, Lists, Listable, ListingUp, ListingAgain, AllIdle
<1>11. Nameless
  BY DEF Init, Nameless, Closed
<1>12. Marked
  BY DEF Init, Marked, AllIdle
<1> QED
  BY <1>3, <1>4, <1>5, <1>6, <1>7, <1>8, <1>9, <1>10, <1>11, <1>12 DEF Init, Inv, Forms

-----------------------------------------------------------------------------
(***************************************************************************)
(* Forms: the types, the shape of files, and where an inode may be.        *)
(***************************************************************************)

LEMMA ListedKeeps ==
  ASSUME NEW s \in Seq(Inodes), IsInjective(s), NEW i \in Inodes
  PROVE  /\ Listed(s, i) \in Seq(Inodes) /\ IsInjective(Listed(s, i))
         /\ Range(Listed(s, i)) = Range(s) \cup {i}
BY ConsIs DEF Listed

LEMMA UnlistedKeeps ==
  ASSUME NEW s \in Seq(Inodes), IsInjective(s), NEW i \in Inodes
  PROVE  /\ Unlisted(s, i) \in Seq(Inodes) /\ IsInjective(Unlisted(s, i))
         /\ Range(Unlisted(s, i)) = Range(s) \ {i}
BY RemoveIs DEF Unlisted

\* The types of what a step on one inode changes.
LEMMA SetKeeps ==
  ASSUME Types, NEW i \in Inodes
  PROVE  /\ \A x \in {"closed", "open", "tmpfile"} :
              Set(open, i, x) \in [Inodes -> {"closed", "open", "tmpfile"}]
         /\ \A x \in {"idle", "asked", "sized", "doomed", "cutting", "paused"} :
              Set(step, i, x) \in [Inodes -> {"idle", "asked", "sized", "doomed", "cutting", "paused"}]
         /\ \A x \in 0 .. MaxSize : Set(target, i, x) \in [Inodes -> 0 .. MaxSize]
         /\ 0 \in 0 .. MaxSize
BY JournaledAssumption DEF Types, Set

\* A step that changes no block leaves the shape of files.
Fits ==
    /\ list' \in Seq(Inodes) /\ IsInjective(list')
    /\ open' \in [Inodes -> {"closed", "open", "tmpfile"}]
    /\ step' \in [Inodes -> {"idle", "asked", "sized", "doomed", "cutting", "paused"}]
    /\ target' \in [Inodes -> 0 .. MaxSize]
    /\ phase' \in {"up", "recovering"} /\ errors' \in BOOLEAN
    /\ \A j \in Inodes :
         /\ fs'.size[j] <= Len(fs.blocks[j])
         /\ j \notin fs'.used => fs'.links[j] = 0 /\ fs.blocks[j] = <<>>
         /\ step'[j] # "idle" => j \in fs'.used
         /\ step'[j] = "asked" => phase' = "up" /\ target'[j] <= fs'.size[j]
         /\ step'[j] \in {"asked", "sized"} => fs'.links[j] = 1 \/ open'[j] # "closed"
         /\ step'[j] = "doomed" => fs'.links[j] # 1 /\ open'[j] = "closed"
         /\ step'[j] \in {"cutting", "paused"} /\ fs'.links[j] # 1 /\ open'[j] = "closed" => fs'.size[j] = 0
         /\ phase' = "recovering" => open'[j] = "closed"
LEMMA CalmForms ==
  ASSUME Forms, Calm, Fits
  PROVE  Forms'
<1>1. Types'
  BY DEF Forms, Types, Calm, Fits
<1>2. Shaped(fs')
  BY DEF Forms, Shaped, Calm, SameBlocks, Fits
<1>3. Shaped(going)' /\ Shaped(disk)'
  BY DEF Forms, Shaped, Calm
<1>4. Steps'
  BY DEF Steps, Fits, InUse
<1> QED
  BY <1>1, <1>2, <1>3, <1>4 DEF Forms, Shaped

LEMMA FormsFacts ==
  ASSUME Forms
  PROVE  /\ \A j \in Inodes : /\ fs.size[j] \in Nat /\ fs.links[j] \in {0, 1}
                              /\ fs.size[j] <= Len(fs.blocks[j]) /\ Len(fs.blocks[j]) \in Nat
                              /\ fs.blocks[j] \in Seq(Blocks) /\ target[j] \in Nat
                              /\ (j \notin fs.used => fs.links[j] = 0 /\ fs.blocks[j] = <<>>)
         /\ fs.links \in [Inodes -> {0, 1}] /\ fs.size \in [Inodes -> Nat]
         /\ step \in [Inodes -> {"idle", "asked", "sized", "doomed", "cutting", "paused"}]
         /\ list \in Seq(Inodes) /\ IsInjective(list)
         /\ Types /\ Shaped(fs) /\ Steps /\ MaxSize \in Nat
<1>1. /\ \A j \in Inodes : /\ fs.size[j] \in Nat /\ fs.links[j] \in {0, 1}
                           /\ fs.size[j] <= Len(fs.blocks[j])
                           /\ fs.blocks[j] \in Seq(Blocks) /\ target[j] \in 0 .. MaxSize
                           /\ (j \notin fs.used => fs.links[j] = 0 /\ fs.blocks[j] = <<>>)
      /\ fs.links \in [Inodes -> {0, 1}] /\ fs.size \in [Inodes -> Nat]
      /\ step \in [Inodes -> {"idle", "asked", "sized", "doomed", "cutting", "paused"}]
      /\ list \in Seq(Inodes) /\ IsInjective(list)
      /\ Types /\ Shaped(fs) /\ Steps /\ MaxSize \in Nat
  BY JournaledAssumption DEF Forms, Types, FsViews, Shaped
<1>2. \A j \in Inodes : Len(fs.blocks[j]) \in Nat /\ target[j] \in Nat
  BY <1>1
<1> QED
  BY <1>1, <1>2

LEMMA OpenIs ==
  ASSUME Types, NEW i \in Inodes, NEW x \in {"closed", "open", "tmpfile"}, open' = Set(open, i, x)
  PROVE  /\ open' \in [Inodes -> {"closed", "open", "tmpfile"}] /\ open'[i] = x
         /\ \A j \in Inodes : j # i => open'[j] = open[j]
BY DEF Types, Set

LEMMA FormsCreate ==
  ASSUME Forms, NEW i \in Inodes, Create(i) PROVE Forms'
<1>1. /\ Calm /\ UNCHANGED <<dirty, list, step, target, phase, errors>>
      /\ Has(fs', fs.used \cup {i}, [fs.links EXCEPT ![i] = 1], fs.size)
      /\ open' = Set(open, i, "open") /\ i \notin fs.used /\ phase = "up"
  BY FormsFacts, CreateDoes
<1>2. /\ open' \in [Inodes -> {"closed", "open", "tmpfile"}] /\ open'[i] = "open"
      /\ \A j \in Inodes : j # i => open'[j] = open[j]
  BY <1>1, OpenIs, FormsFacts
<1>9. Fits
  BY <1>1, <1>2, FormsFacts DEF Fits, Has, Types, Steps, InUse
<1> QED
  BY <1>1, <1>9, CalmForms

LEMMA FormsTmpFile ==
  ASSUME Forms, NEW i \in Inodes, TmpFile(i) PROVE Forms'
<1>1. /\ Calm /\ UNCHANGED <<dirty, step, target, phase, errors>>
      /\ Has(fs', fs.used \cup {i}, fs.links, fs.size)
      /\ list' = Listed(list, i) /\ open' = Set(open, i, "tmpfile") /\ i \notin fs.used /\ phase = "up"
  BY FormsFacts, TmpFileDoes
<1>2. /\ open' \in [Inodes -> {"closed", "open", "tmpfile"}] /\ open'[i] = "tmpfile"
      /\ \A j \in Inodes : j # i => open'[j] = open[j]
  BY <1>1, OpenIs, FormsFacts
<1>3. list' \in Seq(Inodes) /\ IsInjective(list')
  BY <1>1, ListedKeeps, FormsFacts
<1>9. Fits
  BY <1>1, <1>2, <1>3, FormsFacts DEF Fits, Has, Types, Steps, InUse
<1> QED
  BY <1>1, <1>9, CalmForms

LEMMA FormsLink ==
  ASSUME Forms, NEW i \in Inodes, Link(i) PROVE Forms'
<1>1. /\ Calm /\ UNCHANGED <<dirty, step, target, phase, errors>>
      /\ Has(fs', fs.used, [fs.links EXCEPT ![i] = 1], fs.size)
      /\ list' = Unlisted(list, i) /\ open' = Set(open, i, "open")
      /\ i \in fs.used /\ step[i] = "idle" /\ phase = "up"
  BY FormsFacts, LinkDoes
<1>2. /\ open' \in [Inodes -> {"closed", "open", "tmpfile"}] /\ open'[i] = "open"
      /\ \A j \in Inodes : j # i => open'[j] = open[j]
  BY <1>1, OpenIs, FormsFacts
<1>3. list' \in Seq(Inodes) /\ IsInjective(list')
  BY <1>1, UnlistedKeeps, FormsFacts
<1>9. Fits
  BY <1>1, <1>2, <1>3, FormsFacts DEF Fits, Has, Types, Steps, InUse
<1> QED
  BY <1>1, <1>9, CalmForms

LEMMA FormsUnlink ==
  ASSUME Forms, NEW i \in Inodes, Unlink(i) PROVE Forms'
<1>1. /\ Calm /\ UNCHANGED <<dirty, open, target, phase, errors>>
      /\ Has(fs', fs.used, [fs.links EXCEPT ![i] = 0], fs.size)
      /\ list' = Listed(list, i) /\ Goto(i, IF open[i] = "closed" THEN "doomed" ELSE "idle")
      /\ i \in fs.used /\ step[i] = "idle" /\ fs.links[i] = 1 /\ phase = "up"
  BY FormsFacts, UnlinkDoes
<1>2. /\ step' \in [Inodes -> {"idle", "asked", "sized", "doomed", "cutting", "paused"}]
      /\ step'[i] \in {"doomed", "idle"} /\ (step'[i] = "doomed" => open[i] = "closed")
      /\ \A j \in Inodes : j # i => step'[j] = step[j]
  BY <1>1, FormsFacts DEF Goto, Set
<1>3. list' \in Seq(Inodes) /\ IsInjective(list')
  BY <1>1, ListedKeeps, FormsFacts
<1>9. Fits
  BY <1>1, <1>2, <1>3, FormsFacts DEF Fits, Has, Types, Steps, InUse
<1> QED
  BY <1>1, <1>9, CalmForms

LEMMA FormsResize ==
  ASSUME Forms, NEW i \in Inodes, Resize(i) PROVE Forms'
<1>1. /\ Calm /\ UNCHANGED <<dirty, open, phase, errors>>
      /\ Has(fs', fs.used, fs.links, [fs.size EXCEPT ![i] = target[i]])
      /\ list' = Listed(list, i) /\ Goto(i, "sized") /\ target' = Set(target, i, 0) /\ step[i] = "asked"
  BY FormsFacts, ResizeDoes
<1>2. /\ step' \in [Inodes -> {"idle", "asked", "sized", "doomed", "cutting", "paused"}]
      /\ step'[i] = "sized" /\ \A j \in Inodes : j # i => step'[j] = step[j]
  BY <1>1, FormsFacts DEF Goto, Set
<1>3. list' \in Seq(Inodes) /\ IsInjective(list')
  BY <1>1, ListedKeeps, FormsFacts
<1>4. target' \in [Inodes -> 0 .. MaxSize] /\ \A j \in Inodes : j # i => target'[j] = target[j]
  BY <1>1, SetKeeps, FormsFacts DEF Set, Types
<1>5. target[i] <= Len(fs.blocks[i])
  <2>1. target[i] <= fs.size[i]
    BY <1>1, FormsFacts DEF Steps
  <2> QED
    BY <2>1, FormsFacts
<1>9. Fits
  BY <1>1, <1>2, <1>3, <1>4, <1>5, FormsFacts DEF Fits, Has, Types, Steps, InUse
<1> QED
  BY <1>1, <1>9, CalmForms

LEMMA FormsStartCut ==
  ASSUME Forms, NEW i \in Inodes, StartCut(i) PROVE Forms'
<1>1. /\ Calm /\ UNCHANGED <<open, target, phase, errors>>
      /\ Has(fs', fs.used, fs.links, fs.size)
      /\ list' = Listed(list, i) /\ GoOn(i) /\ step[i] = "sized"
  BY FormsFacts, StartCutDoes
<1>2. /\ step' \in [Inodes -> {"idle", "asked", "sized", "doomed", "cutting", "paused"}]
      /\ step'[i] \in {"cutting", "paused"} /\ \A j \in Inodes : j # i => step'[j] = step[j]
  BY <1>1, FormsFacts DEF Goto, GoOn, Set
<1>3. list' \in Seq(Inodes) /\ IsInjective(list')
  BY <1>1, ListedKeeps, FormsFacts
<1>9. Fits
  BY <1>1, <1>2, <1>3, FormsFacts DEF Fits, Has, Types, Steps, InUse
<1> QED
  BY <1>1, <1>9, CalmForms

LEMMA FormsStartEvict ==
  ASSUME Forms, NEW i \in Inodes, StartEvict(i) PROVE Forms'
<1>1. /\ Calm /\ UNCHANGED <<list, open, target, phase, errors>>
      /\ Has(fs', fs.used, fs.links, [fs.size EXCEPT ![i] = 0])
      /\ GoOn(i) /\ step[i] = "doomed"
  BY FormsFacts, StartEvictDoes
<1>2. /\ step' \in [Inodes -> {"idle", "asked", "sized", "doomed", "cutting", "paused"}]
      /\ step'[i] \in {"cutting", "paused"} /\ \A j \in Inodes : j # i => step'[j] = step[j]
  BY <1>1, FormsFacts DEF Goto, GoOn, Set
<1>3. 0 <= Len(fs.blocks[i])
  BY FormsFacts
<1>9. Fits
  BY <1>1, <1>2, <1>3, FormsFacts DEF Fits, Has, Types, Steps, InUse
<1> QED
  BY <1>1, <1>9, CalmForms

LEMMA FormsFinish ==
  ASSUME Forms, NEW i \in Inodes, Finish(i) PROVE Forms'
<1>1. /\ Calm /\ UNCHANGED <<dirty, open, target, phase, errors>>
      /\ Has(fs', IF InUse(i) THEN fs.used ELSE fs.used \ {i}, fs.links, fs.size)
      /\ list' = list \/ list' = Unlisted(list, i)
      /\ Goto(i, "idle") /\ step[i] = "cutting" /\ Len(fs.blocks[i]) <= fs.size[i]
  BY FormsFacts, FinishDoes
<1>2. /\ step' \in [Inodes -> {"idle", "asked", "sized", "doomed", "cutting", "paused"}]
      /\ step'[i] = "idle" /\ \A j \in Inodes : j # i => step'[j] = step[j]
  BY <1>1, FormsFacts DEF Goto, Set
<1>3. list' \in Seq(Inodes) /\ IsInjective(list')
  BY <1>1, UnlistedKeeps, FormsFacts
<1>4. ~InUse(i) => fs.links[i] = 0 /\ fs.blocks[i] = <<>>
  <2>1. ~InUse(i) => fs.size[i] = 0 /\ Len(fs.blocks[i]) = 0
    BY <1>1, FormsFacts DEF Steps
  <2> QED
    BY <2>1, FormsFacts, EmptySeq DEF InUse
<1>9. Fits
  BY <1>1, <1>2, <1>3, <1>4, FormsFacts DEF Fits, Has, Types, Steps, InUse
<1> QED
  BY <1>1, <1>9, CalmForms

LEMMA FormsRewrite ==
  ASSUME Forms, NEW i \in Inodes, Rewrite(i) PROVE Forms'
<1>1. /\ Calm /\ UNCHANGED <<list, open, step, target, phase, errors>>
      /\ Has(fs', fs.used, fs.links, [fs.size EXCEPT ![i] = fs.size[i] + 1])
      /\ fs.size[i] < Len(fs.blocks[i]) /\ step[i] = "idle"
  BY FormsFacts, RewriteDoes
<1>2. fs.size[i] + 1 <= Len(fs.blocks[i])
  BY <1>1, FormsFacts
<1>9. Fits
  BY <1>1, <1>2, FormsFacts DEF Fits, Has, Types, Steps, InUse
<1> QED
  BY <1>1, <1>9, CalmForms

\* The steps that change no file.
Still(v, w) == Has(w, v.used, v.links, v.size) /\ w.next = v.next
LEMMA StillCalm ==
  ASSUME Types, UNCHANGED <<view, content, inflight>>, dirty' \in SUBSET Blocks
  PROVE  Calm /\ Still(fs, fs')
BY DEF Types, view, Calm, SameBlocks, Still, Has

LEMMA FormsOpen ==
  ASSUME Forms, NEW i \in Inodes, Open(i) PROVE Forms'
<1>1. /\ Calm /\ Still(fs, fs') /\ UNCHANGED <<list, step, target, phase, errors>>
      /\ open' = Set(open, i, "open") /\ fs.links[i] = 1 /\ phase = "up"
  BY FormsFacts, StillCalm DEF Open, data, Up, Types
<1>2. /\ open' \in [Inodes -> {"closed", "open", "tmpfile"}] /\ open'[i] = "open"
      /\ \A j \in Inodes : j # i => open'[j] = open[j]
  BY <1>1, OpenIs, FormsFacts
<1>9. Fits
  BY <1>1, <1>2, FormsFacts DEF Fits, Still, Has, Types, Steps, InUse
<1> QED
  BY <1>1, <1>9, CalmForms

LEMMA FormsClose ==
  ASSUME Forms, NEW i \in Inodes, Close(i) PROVE Forms'
<1>1. /\ Calm /\ Still(fs, fs') /\ UNCHANGED <<list, target, phase, errors>>
      /\ open' = Set(open, i, "closed") /\ Goto(i, IF fs.links[i] = 0 THEN "doomed" ELSE "idle")
      /\ i \in fs.used /\ step[i] = "idle" /\ phase = "up"
  BY FormsFacts, StillCalm DEF Close, data, Up, Idle, Types
<1>2. /\ open' \in [Inodes -> {"closed", "open", "tmpfile"}] /\ open'[i] = "closed"
      /\ \A j \in Inodes : j # i => open'[j] = open[j]
  BY <1>1, OpenIs, FormsFacts
<1>3. /\ step' \in [Inodes -> {"idle", "asked", "sized", "doomed", "cutting", "paused"}]
      /\ step'[i] \in {"doomed", "idle"} /\ (step'[i] = "doomed" => fs.links[i] = 0)
      /\ \A j \in Inodes : j # i => step'[j] = step[j]
  BY <1>1, FormsFacts DEF Goto, Set
<1>4. /\ fs'.size = fs.size /\ fs'.links = fs.links /\ fs'.used = fs.used
      /\ UNCHANGED <<list, target, phase, errors>>
  BY <1>1 DEF Still, Has
<1>5. ASSUME NEW j \in Inodes
      PROVE  /\ fs'.size[j] <= Len(fs.blocks[j])
             /\ j \notin fs'.used => fs'.links[j] = 0 /\ fs.blocks[j] = <<>>
             /\ step'[j] # "idle" => j \in fs'.used
             /\ step'[j] = "asked" => phase' = "up" /\ target'[j] <= fs'.size[j]
             /\ step'[j] \in {"asked", "sized"} => fs'.links[j] = 1 \/ open'[j] # "closed"
             /\ step'[j] = "doomed" => fs'.links[j] # 1 /\ open'[j] = "closed"
             /\ step'[j] \in {"cutting", "paused"} /\ fs'.links[j] # 1 /\ open'[j] = "closed" => fs'.size[j] = 0
             /\ phase' = "recovering" => open'[j] = "closed"
  <2>1. CASE j = i
    BY <1>1, <1>2, <1>3, <1>4, <2>1, FormsFacts
  <2>2. CASE j # i
    BY <1>2, <1>3, <1>4, <2>2, FormsFacts DEF Steps, InUse
  <2> QED
    BY <2>1, <2>2
<1>9. Fits
  BY <1>1, <1>2, <1>3, <1>4, <1>5, FormsFacts DEF Fits, Types
<1> QED
  BY <1>1, <1>9, CalmForms

LEMMA FormsAsk ==
  ASSUME Forms, NEW i \in Inodes, Ask(i) PROVE Forms'
<1>1. PICK n \in 0 .. MaxSize :
        /\ Up /\ Idle(i) /\ InUse(i) /\ n < fs.size[i] /\ Goto(i, "asked") /\ target' = Set(target, i, n)
        /\ UNCHANGED <<view, data, list, open>>
  BY DEF Ask
<1>2. Calm /\ Still(fs, fs') /\ UNCHANGED <<list, open, phase, errors>> /\ phase = "up"
  BY <1>1, FormsFacts, StillCalm DEF data, Up, Types
<1>3. target' \in [Inodes -> 0 .. MaxSize] /\ target'[i] = n /\ \A j \in Inodes : j # i => target'[j] = target[j]
  BY <1>1, SetKeeps, FormsFacts DEF Set, Types
<1>4. /\ step' \in [Inodes -> {"idle", "asked", "sized", "doomed", "cutting", "paused"}]
      /\ step'[i] = "asked" /\ \A j \in Inodes : j # i => step'[j] = step[j]
  BY <1>1, FormsFacts DEF Goto, Set
<1>5. i \in fs.used /\ InUse(i) /\ n <= fs.size[i]
  BY <1>1, FormsFacts DEF Idle
<1>9. Fits
  BY <1>2, <1>3, <1>4, <1>5, FormsFacts DEF Fits, Still, Has, Types, Steps, InUse
<1> QED
  BY <1>2, <1>9, CalmForms

LEMMA FormsHandleFails ==
  ASSUME Forms, NEW i \in Inodes, HandleFails(i) PROVE Forms'
<1>1. /\ Calm /\ Still(fs, fs') /\ UNCHANGED <<open, phase>> /\ errors' = TRUE /\ Goto(i, "idle")
      /\ list' = list \/ list' = Unlisted(list, i)
      /\ target' = Set(target, i, 0)
  <2>1. dirty' \in SUBSET Blocks
    BY FormsFacts DEF HandleFails, Dropped, Types, data
  <2> QED
    BY <2>1, FormsFacts, StillCalm DEF HandleFails, Dropped, data
<1>4. target' \in [Inodes -> 0 .. MaxSize] /\ \A j \in Inodes : j # i => target'[j] = target[j]
  BY <1>1, SetKeeps, FormsFacts DEF Set, Types
<1>2. list' \in Seq(Inodes) /\ IsInjective(list')
  BY <1>1, UnlistedKeeps, FormsFacts
<1>3. /\ step' \in [Inodes -> {"idle", "asked", "sized", "doomed", "cutting", "paused"}]
      /\ step'[i] = "idle" /\ \A j \in Inodes : j # i => step'[j] = step[j]
  BY <1>1, FormsFacts DEF Goto, Set
<1>9. Fits
  BY <1>1, <1>2, <1>3, <1>4, FormsFacts DEF Fits, Still, Has, Types, Steps, InUse
<1> QED
  BY <1>1, <1>9, CalmForms

LEMMA FormsResume ==
  ASSUME Forms, NEW i \in Inodes, Resume(i) PROVE Forms'
<1>1. /\ Calm /\ Still(fs, fs') /\ UNCHANGED <<list, open, target, phase, errors>>
      /\ Goto(i, "cutting") /\ step[i] = "paused"
  BY FormsFacts, StillCalm DEF Resume, data, sys, Types
<1>3. /\ step' \in [Inodes -> {"idle", "asked", "sized", "doomed", "cutting", "paused"}]
      /\ step'[i] = "cutting" /\ \A j \in Inodes : j # i => step'[j] = step[j]
  BY <1>1, FormsFacts DEF Goto, Set
<1>9. Fits
  BY <1>1, <1>3, FormsFacts DEF Fits, Still, Has, Types, Steps, InUse
<1> QED
  BY <1>1, <1>9, CalmForms

\* One step of ext4_orphan_cleanup: it takes the first inode, or gives the list up.
Takes(i) ==
    /\ fs.head = i /\ i \in fs.used /\ ~errors /\ UNCHANGED fs
    /\ list' = <<i>> \o list /\ Goto(i, IF fs.links[i] = 0 THEN "doomed" ELSE "sized")
GivesUp == fs' = [fs EXCEPT !.head = None] /\ UNCHANGED <<list, step>>
LEMMA RecoverDoes ==
  ASSUME Types, Recover
  PROVE  /\ Calm /\ Still(fs, fs') /\ UNCHANGED <<dirty, open, target, phase, errors>>
         /\ phase = "recovering" /\ step = AllIdle
         /\ \/ \E i \in Inodes : Takes(i)
            \/ GivesUp /\ (errors \/ fs.head \notin fs.used)
<1>1. fs.head \in Inodes
  BY DEF Recover, Types, FsViews
<1>2. CASE ~errors /\ fs.head \in fs.used
  <2>1. Takes(fs.head)
    BY <1>2 DEF Recover, Takes, GoodOrphan
  <2> QED
    BY <1>1, <2>1 DEF Recover, Recovering, Takes, Types, Calm, SameBlocks, Still, Has, data, sys
<1>3. CASE ~(~errors /\ fs.head \in fs.used)
  <2>1. GivesUp
    BY <1>3 DEF Recover, GivesUp, GoodOrphan
  <2>2. Still(fs, fs') /\ SameBlocks(fs', fs)
    BY <2>1 DEF GivesUp, Types, FsViews, SameBlocks, Still, Has
  <2> QED
    BY <1>3, <2>1, <2>2 DEF Recover, Recovering, Types, Calm, Still, Has, data, sys
<1> QED
  BY <1>2, <1>3

LEMMA FormsRecover ==
  ASSUME Forms, Lists, Recover PROVE Forms'
<1>1. /\ Calm /\ Still(fs, fs') /\ UNCHANGED <<dirty, open, target, phase, errors>>
      /\ phase = "recovering" /\ step = AllIdle
  BY RecoverDoes, FormsFacts
<1>5. /\ open' \in [Inodes -> {"closed", "open", "tmpfile"}] /\ target' \in [Inodes -> 0 .. MaxSize]
      /\ phase' \in {"up", "recovering"} /\ errors' \in BOOLEAN
      /\ \A j \in Inodes : open'[j] = "closed"
  BY <1>1, FormsFacts DEF Types, Steps
<1>6. /\ fs'.used = fs.used /\ fs'.links = fs.links /\ fs'.size = fs.size
      /\ \A j \in Inodes : /\ fs'.size[j] <= Len(fs.blocks[j])
                           /\ j \notin fs'.used => fs'.links[j] = 0 /\ fs.blocks[j] = <<>>
                           /\ fs'.links[j] \in {0, 1}
  BY <1>1, FormsFacts DEF Still, Has
<1>2. ASSUME \E i \in Inodes : Takes(i) PROVE Fits
  <2>0. PICK i \in Inodes : Takes(i)
    BY <1>2
  <2>1. list = <<>>
    BY <1>1, <2>0 DEF Lists, ListingAgain, Takes
  <2>2. list' \in Seq(Inodes) /\ IsInjective(list')
    BY <2>0, <2>1 DEF Takes, IsInjective
  <2>3. /\ step' \in [Inodes -> {"idle", "asked", "sized", "doomed", "cutting", "paused"}]
        /\ step'[i] = (IF fs.links[i] = 0 THEN "doomed" ELSE "sized")
        /\ \A j \in Inodes : j # i => step'[j] = "idle"
    BY <1>1, <2>0, FormsFacts DEF Takes, Goto, Set, AllIdle
  <2>4. fs' = fs /\ i \in fs.used
    BY <2>0 DEF Takes
  <2> QED
    BY <1>5, <1>6, <2>2, <2>3, <2>4 DEF Fits
<1>3. ASSUME GivesUp PROVE Fits
  <2>1. UNCHANGED <<list, step>>
    BY <1>3 DEF GivesUp
  <2> QED
    <3>1. list' \in Seq(Inodes) /\ IsInjective(list')
      BY <2>1, FormsFacts
    <3>2. /\ step' \in [Inodes -> {"idle", "asked", "sized", "doomed", "cutting", "paused"}]
          /\ \A j \in Inodes : step'[j] = "idle"
      BY <1>1, <2>1 DEF AllIdle
    <3> QED
      BY <1>5, <1>6, <3>1, <3>2 DEF Fits
<1>4. Fits
  <2>0. Types
    BY FormsFacts
  <2>1. (\E i \in Inodes : Takes(i)) \/ (GivesUp /\ (errors \/ fs.head \notin fs.used))
    BY <2>0, RecoverDoes
  <2>2. (\E i \in Inodes : Takes(i)) \/ GivesUp
    BY <2>1
  <2> QED
    BY <1>2, <1>3, <2>2
<1> QED
  BY <1>1, <1>4, CalmForms

LEMMA FormsMounted ==
  ASSUME Forms, Mounted PROVE Forms'
<1>1. /\ Calm /\ Still(fs, fs') /\ UNCHANGED <<list, open, step, target, errors>>
      /\ phase' = "up" /\ step = AllIdle
  BY FormsFacts, StillCalm DEF Mounted, Recovering, data, mem, Types
<1>9. Fits
  BY <1>1, FormsFacts DEF Fits, Still, Has, Types, Steps, AllIdle
<1> QED
  BY <1>1, <1>9, CalmForms

\* The owner of a block of data.
LEMMA OwnerIs ==
  ASSUME NEW b \in DataOf(fs)
  PROVE  Owner(b) \in Inodes /\ b \in Used(fs, Owner(b))
BY DEF Owner, DataOf

LEMMA FormsDataOut ==
  ASSUME Forms, Written, NEW b \in Blocks, DataOut(b) PROVE Forms'
<1>1. b \in DataOf(fs)
  BY DEF DataOut, Written
<1>2. Data(Owner(b)) \in Contents
  BY <1>1, OwnerIs DEF Data, Contents
<1>3. content' \in [Blocks -> Contents] /\ dirty' \in SUBSET Blocks /\ inflight' \in SUBSET Blocks
  BY <1>2 DEF DataOut, Set, Forms, Types
<1> QED
  BY <1>3 DEF DataOut, view, mem, sys, Forms, Types, Shaped, Steps, InUse

LEMMA FormsFreeze ==
  ASSUME Forms, Freeze PROVE Forms'
<1>1. NoTx \in Txs
  BY DEF NoTx, Txs
<1> QED
  BY <1>1 DEF Freeze, data, mem, sys, Forms, Types, Shaped, Steps, InUse

LEMMA LeafOwnerIs ==
  ASSUME NEW v \in FsViews, NEW b \in Leaves(v)
  PROVE  LeafOwner(v, b) \in Inodes /\ v.leaf[LeafOwner(v, b)] = b
<1>1. \E i \in Inodes : v.leaf[i] = b
  BY DEF Leaves, Range, FsViews
<1> QED
  BY <1>1 DEF LeafOwner

LEMMA FormsCommit ==
  ASSUME Forms, Blocking, Commit PROVE Forms'
<1>1. NoTx \in Txs
  BY DEF NoTx, Txs
<1>2. \A b \in ending.meta : LeafOwner(going, b) \in Inodes
  BY LeafOwnerIs DEF Blocking, Frees, Forms, Types
<1>3. logged' \in [Blocks -> Inodes \cup {None}]
  BY <1>2 DEF Commit, Forms, Types
<1> QED
  BY <1>1, <1>3 DEF Commit, data, mem, sys, Forms, Types, Shaped, Steps, InUse

LEMMA ReplayedIs ==
  ASSUME Types
  PROVE  /\ Replayed \in [Blocks -> Contents]
         /\ \A b \in Blocks : Replayed[b] = IF logged[b] # None THEN Extents(logged[b]) ELSE content[b]
BY DEF Types, Replayed, Extents, Contents

LEMMA FormsCrash ==
  ASSUME Forms, Crash PROVE Forms'
<1>1. NoTx \in Txs /\ content' \in [Blocks -> Contents]
  BY ReplayedIs, FormsFacts DEF Crash, NoTx, Txs
<1>2. <<>> \in Seq(Inodes) /\ IsInjective(<<>>)
  BY DEF IsInjective
<1>3. Zero \in [Inodes -> 0 .. MaxSize]
  BY JournaledAssumption DEF Zero
<1>4. Types'
  BY <1>1, <1>2, <1>3 DEF Crash, Forms, Types, Closed, AllIdle
<1> QED
  BY <1>4 DEF Crash, Forms, Shaped, Steps, AllIdle, Closed

LEMMA GoesOn ==
  ASSUME Forms, NEW i \in Inodes, GoOn(i)
  PROVE  /\ step' \in [Inodes -> {"idle", "asked", "sized", "doomed", "cutting", "paused"}]
         /\ \A j \in Inodes \ {i} : step'[j] = step[j]
         /\ step'[i] \in {"cutting", "paused"}
BY DEF Forms, Types, GoOn, Goto, Set

\* A file that grows or shrinks keeps its shape.
LEMMA FormsBlocks ==
  ASSUME Forms, NEW i \in Inodes, fs' \in FsViews,
         fs'.used = fs.used, fs'.links = fs.links,
         \A j \in Inodes : /\ fs'.size[j] <= Len(fs'.blocks[j]) /\ Len(fs'.blocks[j]) <= MaxSize
                           /\ fs'.leaf[j] # None => fs'.blocks[j] # <<>>
                           /\ j # i => fs'.blocks[j] = fs.blocks[j] /\ fs'.size[j] = fs.size[j],
         step' \in [Inodes -> {"idle", "asked", "sized", "doomed", "cutting", "paused"}],
         \A j \in Inodes \ {i} : step'[j] = step[j],
         i \in fs.used,
         \/ step[i] = "cutting" /\ step'[i] \in {"cutting", "paused"} /\ fs'.size = fs.size
         \/ step'[i] = step[i] /\ step[i] \in {"idle", "asked", "sized"} /\ fs.size[i] <= fs'.size[i],
         running' \in Txs, dirty' \in SUBSET Blocks, inflight' \in SUBSET Blocks,
         UNCHANGED <<going, disk, committing, ending, logged, content, list, open, target, phase, errors>>
  PROVE  Forms'
<1>2. Types'
  BY DEF Forms, Types
<1>3. Shaped(fs')
  BY FormsFacts DEF Shaped
<1>4. Shaped(going)' /\ Shaped(disk)'
  BY DEF Forms, Shaped
<1>5. Steps'
  <2> SUFFICES ASSUME NEW j \in Inodes
               PROVE  /\ step'[j] # "idle" => j \in fs.used
                      /\ step'[j] = "asked" => phase = "up" /\ target[j] <= fs'.size[j]
                      /\ step'[j] \in {"asked", "sized"} => InUse(j)
                      /\ step'[j] = "doomed" => ~InUse(j)
                      /\ step'[j] \in {"cutting", "paused"} /\ ~InUse(j) => fs'.size[j] = 0
                      /\ phase = "recovering" => open[j] = "closed"
    BY DEF Steps, InUse
  <2>1. CASE j # i
    BY <2>1, FormsFacts DEF Steps
  <2>2. CASE j = i
    <3>1. fs.size[i] \in Nat /\ fs'.size[i] \in Nat /\ target[i] \in Nat
      BY FormsFacts DEF FsViews
    <3> QED
      BY <2>2, <3>1, FormsFacts DEF Steps
  <2> QED
    BY <2>1, <2>2
<1> QED
  BY <1>2, <1>3, <1>4, <1>5 DEF Forms, Shaped

LEMMA LogsKeeps ==
  ASSUME NEW tx \in Txs, NEW l \in Blocks \cup {None}
  PROVE  /\ Logs(tx, l) \in Txs /\ Logs(tx, l).pend = tx.pend
         /\ Logs(tx, l).meta = tx.meta \cup ({l} \ {None})
         /\ Logs(tx, l).revoked = IF l = None THEN tx.revoked ELSE tx.revoked \ {l}
BY DEF Logs, Txs

\* What Write leaves of the blocks of i.
LEMMA GrowsBlocks ==
  ASSUME Forms, NEW i \in Inodes, NEW b \in Blocks, NEW l \in Blocks \cup {None}, Grows(i, b, l)
  PROVE  /\ fs' \in FsViews /\ running' \in Txs
         /\ \A j \in Inodes \ {i} : fs'.blocks[j] = fs.blocks[j] /\ fs'.leaf[j] = fs.leaf[j]
         /\ Len(fs.blocks[i]) \in Nat /\ Len(fs'.blocks[i]) = Len(fs.blocks[i]) + 1
         /\ \A n \in 1 .. Len(fs.blocks[i]) : fs'.blocks[i][n] = fs.blocks[i][n]
         /\ fs'.blocks[i][Len(fs.blocks[i]) + 1] = b
         /\ fs'.leaf[i] = IF l = None THEN fs.leaf[i] ELSE l
         /\ fs'.leaf[i] \in Blocks \cup {None}
<1>1. fs.blocks[i] \in Seq(Blocks) /\ fs.blocks \in [Inodes -> Seq(Blocks)] /\ fs.leaf \in [Inodes -> Blocks \cup {None}]
  BY DEF Forms, Types, FsViews
<1>2. /\ Len(fs.blocks[i]) \in Nat /\ Append(fs.blocks[i], b) \in Seq(Blocks)
      /\ Len(Append(fs.blocks[i], b)) = Len(fs.blocks[i]) + 1
      /\ Append(fs.blocks[i], b)[Len(fs.blocks[i]) + 1] = b
      /\ \A n \in 1 .. Len(fs.blocks[i]) : Append(fs.blocks[i], b)[n] = fs.blocks[i][n]
  BY <1>1
<1>3. fs'.blocks[i] = Append(fs.blocks[i], b) /\ \A j \in Inodes \ {i} : fs'.blocks[j] = fs.blocks[j]
  BY <1>1 DEF Grows
<1>4. /\ fs'.leaf[i] = IF l = None THEN fs.leaf[i] ELSE l
      /\ fs'.leaf[i] \in Blocks \cup {None} /\ \A j \in Inodes \ {i} : fs'.leaf[j] = fs.leaf[j]
  BY <1>1 DEF Grows
<1>5. fs' \in FsViews
  BY DEF Grows, Has
<1>6. running' \in Txs
  BY <1>4, LogsKeeps DEF Grows, Forms, Types
<1> QED
  BY <1>2, <1>3, <1>4, <1>5, <1>6

LEMMA FormsWrite ==
  ASSUME Forms, NEW i \in Inodes, Write(i) PROVE Forms'
<1>1. /\ \E b \in Blocks, l \in Blocks \cup {None} :
           /\ Grows(i, b, l)
           /\ dirty' = IF Delalloc THEN dirty ELSE dirty \cup {b}
           /\ inflight' = IF Delalloc THEN inflight \cup {b} ELSE inflight
      /\ UNCHANGED <<going, disk, committing, ending, logged, content, list, open, step, target, phase, errors>>
      /\ InUse(i) /\ phase = "up"
  BY WriteDoes, FormsFacts
<1>2. PICK b \in Blocks, l \in Blocks \cup {None} :
           /\ Grows(i, b, l)
           /\ dirty' = IF Delalloc THEN dirty ELSE dirty \cup {b}
           /\ inflight' = IF Delalloc THEN inflight \cup {b} ELSE inflight
  BY <1>1
<1>3. dirty' \in SUBSET Blocks /\ inflight' \in SUBSET Blocks
  BY <1>2, FormsFacts DEF Types
<1>4. /\ fs' \in FsViews /\ running' \in Txs
      /\ \A j \in Inodes \ {i} : fs'.blocks[j] = fs.blocks[j] /\ fs'.leaf[j] = fs.leaf[j]
      /\ Len(fs.blocks[i]) \in Nat /\ Len(fs'.blocks[i]) = Len(fs.blocks[i]) + 1
  BY <1>2, GrowsBlocks
<1>5. /\ fs'.used = fs.used /\ fs'.links = fs.links
      /\ fs'.size[i] = (IF step[i] = "sized" THEN fs.size[i] ELSE fs.size[i] + 1)
      /\ \A j \in Inodes \ {i} : fs'.size[j] = fs.size[j]
      /\ step[i] # "sized" => fs.size[i] = Len(fs.blocks[i])
      /\ step[i] \in {"idle", "asked", "sized"} /\ i \in fs.used
      /\ Len(fs.blocks[i]) < MaxSize
  BY <1>2, FormsFacts DEF Grows, Has, MayWrite, Idle, Steps
<1>6. /\ fs'.size[i] <= Len(fs'.blocks[i]) /\ Len(fs'.blocks[i]) <= MaxSize /\ Len(fs'.blocks[i]) # 0
      /\ fs.size[i] <= fs'.size[i]
  BY <1>4, <1>5, FormsFacts
<1>7. fs'.blocks[i] # <<>>
  BY <1>6
<1>8. \A j \in Inodes : /\ fs'.size[j] <= Len(fs'.blocks[j]) /\ Len(fs'.blocks[j]) <= MaxSize
                        /\ fs'.leaf[j] # None => fs'.blocks[j] # <<>>
                        /\ j # i => fs'.blocks[j] = fs.blocks[j] /\ fs'.size[j] = fs.size[j]
  BY <1>4, <1>5, <1>6, <1>7 DEF Forms, Shaped
<1> QED
  BY <1>1, <1>3, <1>4, <1>5, <1>6, <1>8, FormsFacts, FormsBlocks

\* What Cut leaves of the blocks of i.
LEMMA ShrinksBlocks ==
  ASSUME Forms, NEW i \in Inodes, NEW b \in Blocks, Shrinks(i, b)
  PROVE  /\ fs' \in FsViews /\ running' \in Txs
         /\ \A j \in Inodes \ {i} : fs'.blocks[j] = fs.blocks[j] /\ fs'.leaf[j] = fs.leaf[j]
         /\ Len(fs.blocks[i]) \in Nat \ {0} /\ Len(fs'.blocks[i]) = Len(fs.blocks[i]) - 1
         /\ \A n \in 1 .. Len(fs.blocks[i]) - 1 : fs'.blocks[i][n] = fs.blocks[i][n]
         /\ fs.blocks[i][Len(fs.blocks[i])] = b
         /\ fs'.leaf[i] = IF LastOne(i) THEN None ELSE fs.leaf[i]
         /\ running'.pend = running.pend \cup {b} \cup (IF LastOne(i) THEN {fs.leaf[i]} ELSE {})
         /\ running'.meta = IF LastOne(i) THEN running.meta \ {fs.leaf[i]} ELSE running.meta \cup ({fs.leaf[i]} \ {None})
         /\ running'.revoked = IF LastOne(i) THEN running.revoked \cup {fs.leaf[i]} ELSE running.revoked \ ({fs.leaf[i]} \ {None})
<1>1. fs.blocks[i] \in Seq(Blocks) /\ fs.blocks \in [Inodes -> Seq(Blocks)] /\ fs.leaf \in [Inodes -> Blocks \cup {None}]
  BY DEF Forms, Types, FsViews
<1>2. /\ Len(fs.blocks[i]) \in Nat \ {0}
  BY <1>1 DEF Shrinks
<1>3. /\ SubSeq(fs.blocks[i], 1, Len(fs.blocks[i]) - 1) \in Seq(Blocks)
      /\ Len(SubSeq(fs.blocks[i], 1, Len(fs.blocks[i]) - 1)) = Len(fs.blocks[i]) - 1
      /\ \A n \in 1 .. Len(fs.blocks[i]) - 1 : SubSeq(fs.blocks[i], 1, Len(fs.blocks[i]) - 1)[n] = fs.blocks[i][n]
  BY <1>1, <1>2
<1>4. /\ fs'.blocks[i] = SubSeq(fs.blocks[i], 1, Len(fs.blocks[i]) - 1)
      /\ \A j \in Inodes \ {i} : fs'.blocks[j] = fs.blocks[j]
  BY <1>1 DEF Shrinks
<1>5. /\ fs'.leaf[i] = IF LastOne(i) THEN None ELSE fs.leaf[i]
      /\ \A j \in Inodes \ {i} : fs'.leaf[j] = fs.leaf[j]
  BY <1>1 DEF Shrinks
<1>6. fs' \in FsViews /\ fs.blocks[i][Len(fs.blocks[i])] = b
  BY DEF Shrinks, Has
<1>7. /\ running' \in Txs
      /\ running'.pend = running.pend \cup {b} \cup (IF LastOne(i) THEN {fs.leaf[i]} ELSE {})
      /\ running'.meta = IF LastOne(i) THEN running.meta \ {fs.leaf[i]} ELSE running.meta \cup ({fs.leaf[i]} \ {None})
      /\ running'.revoked = IF LastOne(i) THEN running.revoked \cup {fs.leaf[i]} ELSE running.revoked \ ({fs.leaf[i]} \ {None})
  <2>1. running \in Txs /\ fs.leaf[i] \in Blocks \cup {None} /\ Freed(running, b) \in Txs
    BY <1>1 DEF Forms, Types, Freed, Txs
  <2>2. CASE LastOne(i)
    <3>1. fs.leaf[i] \in Blocks
      BY <2>1, <2>2 DEF LastOne
    <3> QED
      BY <2>1, <2>2, <3>1 DEF Shrinks, Revoked, Freed, Txs
  <2>3. CASE ~LastOne(i)
    <3>1. running' = Logs(Freed(running, b), fs.leaf[i])
      BY <2>3 DEF Shrinks
    <3>2. Freed(running, b).pend = running.pend \cup {b} /\ Freed(running, b).meta = running.meta
          /\ Freed(running, b).revoked = running.revoked
      BY <2>1 DEF Freed, Txs
    <3>3. LET tx == Logs(Freed(running, b), fs.leaf[i])
          IN  /\ tx \in Txs /\ tx.pend = running.pend \cup {b}
              /\ tx.meta = running.meta \cup ({fs.leaf[i]} \ {None})
              /\ tx.revoked = IF fs.leaf[i] = None THEN running.revoked ELSE running.revoked \ {fs.leaf[i]}
      <4>1. Freed(running, b) \in Txs /\ fs.leaf[i] \in Blocks \cup {None}
        BY <2>1
      <4>2. LET tx == Logs(Freed(running, b), fs.leaf[i])
            IN  /\ tx \in Txs /\ tx.pend = Freed(running, b).pend
                /\ tx.meta = Freed(running, b).meta \cup ({fs.leaf[i]} \ {None})
                /\ tx.revoked = IF fs.leaf[i] = None THEN Freed(running, b).revoked
                                ELSE Freed(running, b).revoked \ {fs.leaf[i]}
        BY <4>1, LogsKeeps, Zenon
      <4> QED
        BY <3>2, <4>2
    <3> QED
      BY <2>3, <3>1, <3>3
  <2> QED
    BY <2>2, <2>3
<1> QED
  BY <1>2, <1>3, <1>4, <1>5, <1>6, <1>7

LEMMA FormsCut ==
  ASSUME Forms, NEW i \in Inodes, Cut(i) PROVE Forms'
<1>1. /\ \E b \in Blocks : Shrinks(i, b)
      /\ UNCHANGED <<going, disk, committing, ending, logged, content, dirty, inflight,
                     list, open, target, phase, errors>>
      /\ GoOn(i) /\ step[i] = "cutting"
  BY CutDoes, FormsFacts
<1>2. PICK b \in Blocks : Shrinks(i, b)
  BY <1>1
<1>3. dirty' \in SUBSET Blocks /\ inflight' \in SUBSET Blocks
  BY <1>1, FormsFacts DEF Types
<1>4. /\ fs' \in FsViews /\ running' \in Txs
      /\ \A j \in Inodes \ {i} : fs'.blocks[j] = fs.blocks[j] /\ fs'.leaf[j] = fs.leaf[j]
      /\ Len(fs.blocks[i]) \in Nat \ {0} /\ Len(fs'.blocks[i]) = Len(fs.blocks[i]) - 1
      /\ fs'.leaf[i] = IF LastOne(i) THEN None ELSE fs.leaf[i]
  BY <1>2, ShrinksBlocks
<1>5. /\ fs'.used = fs.used /\ fs'.links = fs.links /\ fs'.size = fs.size
      /\ fs.size[i] < Len(fs.blocks[i])
  BY <1>2, FormsFacts DEF Shrinks, Has
<1>6. fs'.size[i] <= Len(fs'.blocks[i]) /\ Len(fs'.blocks[i]) <= MaxSize
  <2>1. Len(fs.blocks[i]) <= MaxSize
    BY DEF Forms, Shaped
  <2> QED
    BY <1>4, <1>5, <2>1, FormsFacts
<1>7. fs'.leaf[i] # None => fs'.blocks[i] # <<>>
  <2>1. fs'.leaf[i] # None => Len(fs.blocks[i]) # 1
    BY <1>2, <1>4 DEF LastOne
  <2>2. fs'.leaf[i] # None => Len(fs'.blocks[i]) # 0
    BY <1>4, <2>1
  <2> QED
    BY <2>2
<1>8. \A j \in Inodes : /\ fs'.size[j] <= Len(fs'.blocks[j]) /\ Len(fs'.blocks[j]) <= MaxSize
                        /\ fs'.leaf[j] # None => fs'.blocks[j] # <<>>
                        /\ j # i => fs'.blocks[j] = fs.blocks[j] /\ fs'.size[j] = fs.size[j]
  BY <1>4, <1>5, <1>6, <1>7 DEF Forms, Shaped
<1>9. i \in fs.used
  BY <1>1, FormsFacts DEF Steps
<1> QED
  BY <1>1, <1>3, <1>4, <1>5, <1>8, <1>9, GoesOn, FormsBlocks

-----------------------------------------------------------------------------
(***************************************************************************)
(* Blocks: what the transactions know of them.                             *)
(***************************************************************************)

\* Which blocks the files of a view have.
LEMMA MapIs ==
  ASSUME NEW v \in FsViews
  PROVE  /\ \A x : x \in DataOf(v) <=> \E j \in Inodes : \E n \in DOMAIN v.blocks[j] : x = v.blocks[j][n]
         /\ \A x : x \in Leaves(v) <=> x # None /\ \E j \in Inodes : x = v.leaf[j]
<1>1. \A x : x \in DataOf(v) <=> \E j \in Inodes : x \in Range(v.blocks[j])
  BY DEF DataOf, Used
<1>2. \A x : x \in DataOf(v) <=> \E j \in Inodes : \E n \in DOMAIN v.blocks[j] : x = v.blocks[j][n]
  BY <1>1 DEF Range
<1>3. DOMAIN v.leaf = Inodes
  BY DEF FsViews
<1>4. \A x : x \in Leaves(v) <=> x # None /\ \E j \in Inodes : x = v.leaf[j]
  BY <1>3 DEF Leaves, Range
<1> QED
  BY <1>2, <1>4

LEMMA BlockIs ==
  ASSUME NEW v \in FsViews, NEW i \in Inodes, NEW n \in DOMAIN v.blocks[i]
  PROVE  v.blocks[i][n] \in Blocks
<1>1. v.blocks[i] \in Seq(Blocks)
  BY DEF FsViews
<1> QED
  BY <1>1

LEMMA SoleIs ==
  ASSUME NEW v \in FsViews, Sole(v)
  PROVE  /\ \A j \in Inodes : \A n \in DOMAIN v.blocks[j] : v.blocks[j][n] \in v.map
         /\ \A j \in Inodes : v.leaf[j] # None => v.leaf[j] \in v.map
BY MapIs DEF Sole

LEMMA SoleSame ==
  ASSUME NEW v, NEW w, SameBlocks(w, v), Sole(v)
  PROVE  Sole(w)
BY DEF SameBlocks, Sole, DataOf, Used, Leaves

LEMMA FreesSame ==
  ASSUME NEW u, NEW v, NEW w, NEW tx, SameBlocks(w, v), Frees(u, v, tx)
  PROVE  Frees(u, w, tx)
BY DEF SameBlocks, Frees, Leaves

LEMMA FreesNothing ==
  ASSUME NEW v PROVE Frees(v, v, NoTx)
BY DEF Frees, NoTx

LEMMA BlockingFacts ==
  ASSUME Blocking
  PROVE  /\ Sole(fs) /\ Sole(going) /\ Sole(disk)
         /\ Frees(going, fs, running) /\ Frees(disk, going, ending)
         /\ ending.pend \cap fs.map = {}
BY DEF Blocking

LEMMA CalmBlocking ==
  ASSUME Blocking, Calm PROVE Blocking'
<1>1. Sole(fs') /\ Frees(going, fs', running) /\ fs'.map = fs.map
  BY BlockingFacts, SoleSame, FreesSame DEF Calm, SameBlocks
<1> QED
  BY <1>1 DEF Blocking, Calm

\* How the blocks of the files before and after Write correspond.
LEMMA GrowsPoints ==
  ASSUME Forms, NEW i \in Inodes, NEW b \in Blocks, NEW l \in Blocks \cup {None}, Grows(i, b, l)
  PROVE  /\ \A j \in Inodes : \A n \in DOMAIN fs'.blocks[j] :
              \/ j = i /\ n = Len(fs.blocks[i]) + 1 /\ fs'.blocks[j][n] = b
              \/ n \in DOMAIN fs.blocks[j] /\ fs'.blocks[j][n] = fs.blocks[j][n]
         /\ \A j \in Inodes : \A n \in DOMAIN fs.blocks[j] :
              n \in DOMAIN fs'.blocks[j] /\ fs'.blocks[j][n] = fs.blocks[j][n]
         /\ Len(fs.blocks[i]) + 1 \in DOMAIN fs'.blocks[i] /\ fs'.blocks[i][Len(fs.blocks[i]) + 1] = b
         /\ \A j \in Inodes : \/ fs'.leaf[j] = fs.leaf[j]
                              \/ j = i /\ l # None /\ fs.leaf[i] = None /\ fs'.leaf[j] = l
<1>1. /\ fs' \in FsViews
      /\ \A j \in Inodes \ {i} : fs'.blocks[j] = fs.blocks[j] /\ fs'.leaf[j] = fs.leaf[j]
      /\ Len(fs.blocks[i]) \in Nat /\ Len(fs'.blocks[i]) = Len(fs.blocks[i]) + 1
      /\ \A n \in 1 .. Len(fs.blocks[i]) : fs'.blocks[i][n] = fs.blocks[i][n]
      /\ fs'.blocks[i][Len(fs.blocks[i]) + 1] = b
      /\ fs'.leaf[i] = IF l = None THEN fs.leaf[i] ELSE l
  BY GrowsBlocks
<1>2. l # None => fs.leaf[i] = None
  BY DEF Grows
<1>3. DOMAIN fs.blocks[i] = 1 .. Len(fs.blocks[i]) /\ DOMAIN fs'.blocks[i] = 1 .. Len(fs'.blocks[i])
  BY <1>1, FormsFacts DEF FsViews
<1>4. Len(fs.blocks[i]) + 1 \in DOMAIN fs'.blocks[i]
  BY <1>1, <1>3
<1>5. \A n \in DOMAIN fs'.blocks[i] : n = Len(fs.blocks[i]) + 1 \/ n \in DOMAIN fs.blocks[i]
  BY <1>1, <1>3
<1>6. \A n \in DOMAIN fs.blocks[i] : n \in DOMAIN fs'.blocks[i]
  BY <1>1, <1>3
<1> QED
  BY <1>1, <1>2, <1>3, <1>4, <1>5, <1>6

LEMMA GrowsSole ==
  ASSUME Forms, Blocking, NEW i \in Inodes, NEW b \in Blocks, NEW l \in Blocks \cup {None}, Grows(i, b, l)
  PROVE  Sole(fs')
<1>1. /\ \A j \in Inodes : \A n \in DOMAIN fs'.blocks[j] :
           \/ j = i /\ n = Len(fs.blocks[i]) + 1 /\ fs'.blocks[j][n] = b
           \/ n \in DOMAIN fs.blocks[j] /\ fs'.blocks[j][n] = fs.blocks[j][n]
      /\ \A j \in Inodes : \A n \in DOMAIN fs.blocks[j] :
           n \in DOMAIN fs'.blocks[j] /\ fs'.blocks[j][n] = fs.blocks[j][n]
      /\ Len(fs.blocks[i]) + 1 \in DOMAIN fs'.blocks[i] /\ fs'.blocks[i][Len(fs.blocks[i]) + 1] = b
      /\ \A j \in Inodes : \/ fs'.leaf[j] = fs.leaf[j]
                           \/ j = i /\ l # None /\ fs.leaf[i] = None /\ fs'.leaf[j] = l
  BY GrowsPoints
<1>2. /\ b \notin fs.map /\ l \notin fs.map /\ l # b /\ b # None
      /\ fs'.map = fs.map \cup {b} \cup ({fs'.leaf[i]} \ {None})
  <2>1. None \notin fs.map
    BY FormsFacts, JournaledAssumption DEF Types, FsViews
  <2> QED
    BY <2>1, JournaledAssumption DEF Grows, Available
<1>3. fs \in FsViews /\ fs' \in FsViews /\ Sole(fs)
  BY FormsFacts, GrowsBlocks, BlockingFacts DEF Types
<1>4. /\ \A j \in Inodes : \A n \in DOMAIN fs.blocks[j] : fs.blocks[j][n] \in fs.map
      /\ \A j \in Inodes : fs.leaf[j] # None => fs.leaf[j] \in fs.map
  BY <1>3, SoleIs
<1>5. fs'.map = DataOf(fs') \cup Leaves(fs')
  <2>1. ASSUME NEW x \in fs'.map PROVE x \in DataOf(fs') \cup Leaves(fs')
    <3>1. CASE x = b
      BY <1>1, <1>3, <3>1, MapIs
    <3>2. CASE x = fs'.leaf[i] /\ x # None
      BY <1>3, <3>2, MapIs
    <3>3. CASE x \in fs.map
      <4>1. x \in DataOf(fs) \/ x \in Leaves(fs)
        BY <1>3, <3>3 DEF Sole
      <4>2. CASE x \in DataOf(fs)
        <5>1. PICK j \in Inodes : \E n \in DOMAIN fs.blocks[j] : x = fs.blocks[j][n]
          BY <1>3, <4>2, MapIs
        <5>2. \E n \in DOMAIN fs'.blocks[j] : x = fs'.blocks[j][n]
          BY <1>1, <5>1
        <5> QED
          BY <1>3, <5>2, MapIs
      <4>3. CASE x \in Leaves(fs)
        <5>1. PICK j \in Inodes : x # None /\ x = fs.leaf[j]
          BY <1>3, <4>3, MapIs
        <5>2. x = fs'.leaf[j]
          BY <1>1, <5>1
        <5> QED
          BY <1>3, <5>1, <5>2, MapIs
      <4> QED
        BY <4>1, <4>2, <4>3
    <3> QED
      BY <1>2, <3>1, <3>2, <3>3
  <2>2. ASSUME NEW x \in DataOf(fs') PROVE x \in fs'.map
    <3>1. PICK j \in Inodes : \E n \in DOMAIN fs'.blocks[j] : x = fs'.blocks[j][n]
      BY <1>3, MapIs
    <3> QED
      BY <1>1, <1>2, <1>4, <3>1
  <2>3. ASSUME NEW x \in Leaves(fs') PROVE x \in fs'.map
    <3>1. PICK j \in Inodes : x # None /\ x = fs'.leaf[j]
      BY <1>3, MapIs
    <3> QED
      BY <1>1, <1>2, <1>4, <3>1
  <2> QED
    BY <2>1, <2>2, <2>3
<1>6. ASSUME NEW j \in Inodes, NEW k \in Inodes, NEW n \in DOMAIN fs'.blocks[j], NEW m \in DOMAIN fs'.blocks[k],
             fs'.blocks[j][n] = fs'.blocks[k][m]
      PROVE  j = k /\ n = m
  <2>1. \/ j = i /\ n = Len(fs.blocks[i]) + 1 /\ fs'.blocks[j][n] = b
        \/ n \in DOMAIN fs.blocks[j] /\ fs'.blocks[j][n] = fs.blocks[j][n]
    BY <1>1
  <2>2. \/ k = i /\ m = Len(fs.blocks[i]) + 1 /\ fs'.blocks[k][m] = b
        \/ m \in DOMAIN fs.blocks[k] /\ fs'.blocks[k][m] = fs.blocks[k][m]
    BY <1>1
  <2> QED
    BY <1>2, <1>3, <1>4, <1>6, <2>1, <2>2 DEF Sole
<1>7. ASSUME NEW j \in Inodes, NEW k \in Inodes, NEW n \in DOMAIN fs'.blocks[k]
      PROVE  fs'.leaf[j] # fs'.blocks[k][n]
  <2>1. \/ k = i /\ n = Len(fs.blocks[i]) + 1 /\ fs'.blocks[k][n] = b
        \/ n \in DOMAIN fs.blocks[k] /\ fs'.blocks[k][n] = fs.blocks[k][n]
    BY <1>1
  <2>2. fs'.leaf[j] = fs.leaf[j] \/ fs'.leaf[j] = l
    BY <1>1
  <2> QED
    BY <1>2, <1>3, <1>4, <2>1, <2>2 DEF Sole
<1>8. ASSUME NEW j \in Inodes, NEW k \in Inodes, fs'.leaf[j] # None, fs'.leaf[j] = fs'.leaf[k]
      PROVE  j = k
  BY <1>1, <1>2, <1>3, <1>4, <1>8 DEF Sole
<1> QED
  BY <1>5, <1>6, <1>7, <1>8 DEF Sole

LEMMA GrowsBlocking ==
  ASSUME Forms, Blocking, NEW i \in Inodes, NEW b \in Blocks, NEW l \in Blocks \cup {None}, Grows(i, b, l),
         UNCHANGED <<going, disk, committing, ending>>
  PROVE  Blocking'
<1>1. /\ \A j \in Inodes : \A n \in DOMAIN fs.blocks[j] :
           n \in DOMAIN fs'.blocks[j] /\ fs'.blocks[j][n] = fs.blocks[j][n]
      /\ \A j \in Inodes : \/ fs'.leaf[j] = fs.leaf[j]
                           \/ j = i /\ l # None /\ fs.leaf[i] = None /\ fs'.leaf[j] = l
  BY GrowsPoints
<1>2. /\ b \notin running.pend \cup ending.pend /\ (l # None => l \notin running.pend \cup ending.pend)
      /\ fs'.map = fs.map \cup {b} \cup ({fs'.leaf[i]} \ {None})
  BY DEF Grows, Available
<1>3. fs \in FsViews /\ fs' \in FsViews /\ Sole(fs) /\ running \in Txs
  BY FormsFacts, GrowsBlocks, BlockingFacts DEF Types
<1>4. \A j \in Inodes : fs.leaf[j] # None => fs.leaf[j] \in fs.map
  BY <1>3, SoleIs
<1>5. /\ running.pend \cap fs.map = {} /\ running.revoked \subseteq running.pend
      /\ running.meta \subseteq Leaves(fs) /\ ending.pend \cap fs.map = {}
  BY BlockingFacts DEF Frees
<1>6. /\ running'.pend = running.pend
      /\ running'.meta = running.meta \cup ({fs'.leaf[i]} \ {None})
      /\ running'.revoked = IF fs'.leaf[i] = None THEN running.revoked ELSE running.revoked \ {fs'.leaf[i]}
  <2>1. fs'.leaf[i] \in Blocks \cup {None} /\ running' = Logs(running, fs'.leaf[i])
    BY GrowsBlocks DEF Grows
  <2> QED
    BY <1>3, <2>1, LogsKeeps
<1>7. fs'.leaf[i] # None => fs'.leaf[i] \notin running.pend \cup ending.pend
  BY <1>1, <1>2, <1>4, <1>5
<1>8. running'.revoked = running.revoked
  BY <1>5, <1>6, <1>7
<1>9. running'.meta \subseteq Leaves(fs')
  <2>1. ASSUME NEW x \in running.meta PROVE x \in Leaves(fs')
    <3>1. PICK j \in Inodes : x # None /\ x = fs.leaf[j]
      BY <1>3, <1>5, MapIs
    <3>2. x = fs'.leaf[j]
      BY <1>1, <3>1
    <3> QED
      BY <1>3, <3>1, <3>2, MapIs
  <2>2. fs'.leaf[i] # None => fs'.leaf[i] \in Leaves(fs')
    BY <1>3, MapIs
  <2> QED
    BY <1>6, <2>1, <2>2
<1>10. Frees(going, fs', running')
  <2>1. running'.pend \cap fs'.map = {} /\ running'.revoked \subseteq running'.pend
    BY <1>2, <1>5, <1>6, <1>7, <1>8
  <2>2. ASSUME NEW j \in Inodes
        PROVE  /\ going.leaf[j] # None => fs'.leaf[j] = going.leaf[j] \/ going.leaf[j] \in running'.revoked
               /\ fs'.leaf[j] # None => fs'.leaf[j] = going.leaf[j] \/ fs'.leaf[j] \in running'.meta
    <3>1. /\ going.leaf[j] # None => fs.leaf[j] = going.leaf[j] \/ going.leaf[j] \in running.revoked
          /\ fs.leaf[j] # None => fs.leaf[j] = going.leaf[j] \/ fs.leaf[j] \in running.meta
      BY BlockingFacts DEF Frees
    <3> QED
      BY <1>1, <1>6, <1>8, <3>1
  <2>3. ASSUME NEW j \in Inodes, NEW n \in DOMAIN going.blocks[j]
        PROVE  \/ n \in DOMAIN fs'.blocks[j] /\ fs'.blocks[j][n] = going.blocks[j][n]
               \/ going.blocks[j][n] \in running'.pend
    <3>1. \/ n \in DOMAIN fs.blocks[j] /\ fs.blocks[j][n] = going.blocks[j][n]
          \/ going.blocks[j][n] \in running.pend
      BY BlockingFacts DEF Frees
    <3> QED
      BY <1>1, <1>6, <3>1
  <2> QED
    BY <1>9, <2>1, <2>2, <2>3 DEF Frees
<1>11. ending.pend \cap fs'.map = {}
  BY <1>2, <1>5, <1>7
<1>12. Sole(fs')
  BY GrowsSole
<1> QED
  BY <1>10, <1>11, <1>12 DEF Blocking

\* And before and after Cut.
LEMMA ShrinksPoints ==
  ASSUME Forms, NEW i \in Inodes, NEW b \in Blocks, Shrinks(i, b)
  PROVE  /\ \A j \in Inodes : \A n \in DOMAIN fs.blocks[j] :
              \/ j = i /\ n = Len(fs.blocks[i]) /\ fs.blocks[j][n] = b
              \/ n \in DOMAIN fs'.blocks[j] /\ fs'.blocks[j][n] = fs.blocks[j][n]
         /\ \A j \in Inodes : \A n \in DOMAIN fs'.blocks[j] :
              /\ n \in DOMAIN fs.blocks[j] /\ fs'.blocks[j][n] = fs.blocks[j][n]
              /\ j = i => n # Len(fs.blocks[i])
         /\ Len(fs.blocks[i]) \in DOMAIN fs.blocks[i] /\ fs.blocks[i][Len(fs.blocks[i])] = b
         /\ \A j \in Inodes : fs'.leaf[j] = IF j = i /\ LastOne(i) THEN None ELSE fs.leaf[j]
<1>1. /\ fs' \in FsViews
      /\ \A j \in Inodes \ {i} : fs'.blocks[j] = fs.blocks[j] /\ fs'.leaf[j] = fs.leaf[j]
      /\ Len(fs.blocks[i]) \in Nat \ {0} /\ Len(fs'.blocks[i]) = Len(fs.blocks[i]) - 1
      /\ \A n \in 1 .. Len(fs.blocks[i]) - 1 : fs'.blocks[i][n] = fs.blocks[i][n]
      /\ fs.blocks[i][Len(fs.blocks[i])] = b
      /\ fs'.leaf[i] = IF LastOne(i) THEN None ELSE fs.leaf[i]
  BY ShrinksBlocks
<1>2. DOMAIN fs.blocks[i] = 1 .. Len(fs.blocks[i]) /\ DOMAIN fs'.blocks[i] = 1 .. Len(fs'.blocks[i])
  BY <1>1, FormsFacts DEF FsViews
<1>3. Len(fs.blocks[i]) \in DOMAIN fs.blocks[i]
  BY <1>1, <1>2
<1>4. \A n \in DOMAIN fs.blocks[i] : n = Len(fs.blocks[i]) \/ n \in DOMAIN fs'.blocks[i]
  BY <1>1, <1>2
<1>5. \A n \in DOMAIN fs'.blocks[i] :
        n \in DOMAIN fs.blocks[i] /\ n # Len(fs.blocks[i]) /\ n \in 1 .. Len(fs.blocks[i]) - 1
  BY <1>1, <1>2
<1> QED
  BY <1>1, <1>3, <1>4, <1>5

LEMMA ShrinksSole ==
  ASSUME Forms, Blocking, NEW i \in Inodes, NEW b \in Blocks, Shrinks(i, b)
  PROVE  Sole(fs')
<1>1. /\ \A j \in Inodes : \A n \in DOMAIN fs.blocks[j] :
           \/ j = i /\ n = Len(fs.blocks[i]) /\ fs.blocks[j][n] = b
           \/ n \in DOMAIN fs'.blocks[j] /\ fs'.blocks[j][n] = fs.blocks[j][n]
      /\ \A j \in Inodes : \A n \in DOMAIN fs'.blocks[j] :
           /\ n \in DOMAIN fs.blocks[j] /\ fs'.blocks[j][n] = fs.blocks[j][n]
           /\ j = i => n # Len(fs.blocks[i])
      /\ Len(fs.blocks[i]) \in DOMAIN fs.blocks[i] /\ fs.blocks[i][Len(fs.blocks[i])] = b
      /\ \A j \in Inodes : fs'.leaf[j] = IF j = i /\ LastOne(i) THEN None ELSE fs.leaf[j]
  BY ShrinksPoints
<1>2. fs'.map = fs.map \ ({b} \cup (IF LastOne(i) THEN {fs.leaf[i]} ELSE {}))
  BY DEF Shrinks
<1>3. fs \in FsViews /\ fs' \in FsViews /\ Sole(fs)
  BY FormsFacts, ShrinksBlocks, BlockingFacts DEF Types
<1>4. /\ \A j \in Inodes : \A n \in DOMAIN fs.blocks[j] : fs.blocks[j][n] \in fs.map
      /\ \A j \in Inodes : fs.leaf[j] # None => fs.leaf[j] \in fs.map
  BY <1>3, SoleIs
<1>5. fs'.map = DataOf(fs') \cup Leaves(fs')
  <2>1. ASSUME NEW x \in fs'.map PROVE x \in DataOf(fs') \cup Leaves(fs')
    <3>1. x \in fs.map /\ x # b /\ (LastOne(i) => x # fs.leaf[i])
      BY <1>2
    <3>2. x \in DataOf(fs) \/ x \in Leaves(fs)
      BY <1>3, <3>1 DEF Sole
    <3>3. CASE x \in DataOf(fs)
      <4>1. PICK j \in Inodes : \E n \in DOMAIN fs.blocks[j] : x = fs.blocks[j][n]
        BY <1>3, <3>3, MapIs
      <4>2. \E n \in DOMAIN fs'.blocks[j] : x = fs'.blocks[j][n]
        BY <1>1, <3>1, <4>1
      <4> QED
        BY <1>3, <4>2, MapIs
    <3>4. CASE x \in Leaves(fs)
      <4>1. PICK j \in Inodes : x # None /\ x = fs.leaf[j]
        BY <1>3, <3>4, MapIs
      <4>2. x = fs'.leaf[j]
        BY <1>1, <3>1, <4>1
      <4> QED
        BY <1>3, <4>1, <4>2, MapIs
    <3> QED
      BY <3>2, <3>3, <3>4
  <2>2. ASSUME NEW x \in DataOf(fs') PROVE x \in fs'.map
    <3>1. PICK j \in Inodes : \E n \in DOMAIN fs'.blocks[j] : x = fs'.blocks[j][n]
      BY <1>3, MapIs
    <3>2. PICK n \in DOMAIN fs'.blocks[j] : x = fs'.blocks[j][n]
      BY <3>1
    <3>3. n \in DOMAIN fs.blocks[j] /\ x = fs.blocks[j][n] /\ (j = i => n # Len(fs.blocks[i]))
      BY <1>1, <3>2
    <3>4. x # b /\ x # fs.leaf[i]
      BY <1>1, <1>3, <3>3 DEF Sole
    <3> QED
      BY <1>2, <1>4, <3>3, <3>4
  <2>3. ASSUME NEW x \in Leaves(fs') PROVE x \in fs'.map
    <3>1. PICK j \in Inodes : x # None /\ x = fs'.leaf[j]
      BY <1>3, MapIs
    <3>2. x = fs.leaf[j] /\ ~(j = i /\ LastOne(i))
      BY <1>1, <3>1
    <3>3. x # b /\ (LastOne(i) => x # fs.leaf[i])
      BY <1>1, <1>3, <3>1, <3>2 DEF Sole
    <3> QED
      BY <1>2, <1>4, <3>1, <3>2, <3>3
  <2> QED
    BY <2>1, <2>2, <2>3
<1>6. ASSUME NEW j \in Inodes, NEW k \in Inodes, NEW n \in DOMAIN fs'.blocks[j], NEW m \in DOMAIN fs'.blocks[k],
             fs'.blocks[j][n] = fs'.blocks[k][m]
      PROVE  j = k /\ n = m
  BY <1>1, <1>3, <1>6 DEF Sole
<1>7. ASSUME NEW j \in Inodes, NEW k \in Inodes, NEW n \in DOMAIN fs'.blocks[k]
      PROVE  fs'.leaf[j] # fs'.blocks[k][n]
  <2>1. n \in DOMAIN fs.blocks[k] /\ fs'.blocks[k][n] = fs.blocks[k][n] /\ fs.blocks[k][n] # None
    <3>1. None \notin fs.map
      BY <1>3, JournaledAssumption DEF FsViews
    <3> QED
      BY <1>1, <1>4, <3>1
  <2> QED
    BY <1>1, <1>3, <2>1 DEF Sole
<1>8. ASSUME NEW j \in Inodes, NEW k \in Inodes, fs'.leaf[j] # None, fs'.leaf[j] = fs'.leaf[k]
      PROVE  j = k
  BY <1>1, <1>3, <1>8 DEF Sole
<1> QED
  BY <1>5, <1>6, <1>7, <1>8 DEF Sole

LEMMA ShrinksBlocking ==
  ASSUME Forms, Blocking, NEW i \in Inodes, NEW b \in Blocks, Shrinks(i, b),
         UNCHANGED <<going, disk, committing, ending>>
  PROVE  Blocking'
<1>1. /\ \A j \in Inodes : \A n \in DOMAIN fs.blocks[j] :
           \/ j = i /\ n = Len(fs.blocks[i]) /\ fs.blocks[j][n] = b
           \/ n \in DOMAIN fs'.blocks[j] /\ fs'.blocks[j][n] = fs.blocks[j][n]
      /\ Len(fs.blocks[i]) \in DOMAIN fs.blocks[i] /\ fs.blocks[i][Len(fs.blocks[i])] = b
      /\ \A j \in Inodes : fs'.leaf[j] = IF j = i /\ LastOne(i) THEN None ELSE fs.leaf[j]
  BY ShrinksPoints
<1>2. fs'.map = fs.map \ ({b} \cup (IF LastOne(i) THEN {fs.leaf[i]} ELSE {}))
  BY DEF Shrinks
<1>3. fs \in FsViews /\ fs' \in FsViews /\ Sole(fs)
  BY FormsFacts, ShrinksBlocks, BlockingFacts DEF Types
<1>4. \A j \in Inodes : fs.leaf[j] # None => fs.leaf[j] \in fs.map
  BY <1>3, SoleIs
<1>5. /\ running.pend \cap fs.map = {} /\ running.revoked \subseteq running.pend
      /\ running.meta \subseteq Leaves(fs) /\ ending.pend \cap fs.map = {}
  BY BlockingFacts DEF Frees
<1>6. /\ running'.pend = running.pend \cup {b} \cup (IF LastOne(i) THEN {fs.leaf[i]} ELSE {})
      /\ running'.meta = IF LastOne(i) THEN running.meta \ {fs.leaf[i]} ELSE running.meta \cup ({fs.leaf[i]} \ {None})
      /\ running'.revoked = IF LastOne(i) THEN running.revoked \cup {fs.leaf[i]} ELSE running.revoked \ ({fs.leaf[i]} \ {None})
  BY ShrinksBlocks
<1>7. running.revoked \subseteq running'.revoked /\ (LastOne(i) => fs.leaf[i] \in running'.revoked)
  BY <1>4, <1>5, <1>6
<1>8. running'.pend \cap fs'.map = {} /\ running'.revoked \subseteq running'.pend
  BY <1>2, <1>5, <1>6
<1>9. ASSUME NEW x \in running'.meta PROVE x \in Leaves(fs')
  <2>1. x \in running.meta \/ (x = fs.leaf[i] /\ x # None /\ ~LastOne(i))
    BY <1>6
  <2>2. CASE x = fs.leaf[i] /\ x # None /\ ~LastOne(i)
    <3>1. x = fs'.leaf[i]
      BY <1>1, <2>2
    <3> QED
      BY <1>3, <2>2, <3>1, MapIs
  <2>3. CASE x \in running.meta
    <3>1. PICK j \in Inodes : x # None /\ x = fs.leaf[j]
      BY <1>3, <1>5, <2>3, MapIs
    <3>2. ~(j = i /\ LastOne(i))
      BY <1>6, <3>1
    <3>3. x = fs'.leaf[j]
      BY <1>1, <3>1, <3>2
    <3> QED
      BY <1>3, <3>1, <3>3, MapIs
  <2> QED
    BY <2>1, <2>2, <2>3
<1>10. ASSUME NEW j \in Inodes
       PROVE  /\ going.leaf[j] # None => fs'.leaf[j] = going.leaf[j] \/ going.leaf[j] \in running'.revoked
              /\ fs'.leaf[j] # None => fs'.leaf[j] = going.leaf[j] \/ fs'.leaf[j] \in running'.meta
  <2>1. /\ going.leaf[j] # None => fs.leaf[j] = going.leaf[j] \/ going.leaf[j] \in running.revoked
        /\ fs.leaf[j] # None => fs.leaf[j] = going.leaf[j] \/ fs.leaf[j] \in running.meta
    BY BlockingFacts DEF Frees
  <2>2. CASE j = i /\ LastOne(i)
    BY <1>1, <1>7, <2>1, <2>2
  <2>3. CASE ~(j = i /\ LastOne(i))
    <3>1. fs'.leaf[j] = fs.leaf[j]
      BY <1>1, <2>3
    <3>2. fs.leaf[j] # None /\ LastOne(i) => fs.leaf[j] # fs.leaf[i]
      BY <1>3, <2>3 DEF Sole
    <3>3. fs.leaf[j] # None /\ fs.leaf[j] \in running.meta => fs.leaf[j] \in running'.meta
      BY <1>6, <3>2
    <3> QED
      BY <1>7, <2>1, <3>1, <3>3
  <2> QED
    BY <2>2, <2>3
<1>11. ASSUME NEW j \in Inodes, NEW n \in DOMAIN going.blocks[j]
       PROVE  \/ n \in DOMAIN fs'.blocks[j] /\ fs'.blocks[j][n] = going.blocks[j][n]
              \/ going.blocks[j][n] \in running'.pend
  <2>1. \/ n \in DOMAIN fs.blocks[j] /\ fs.blocks[j][n] = going.blocks[j][n]
        \/ going.blocks[j][n] \in running.pend
    BY BlockingFacts DEF Frees
  <2>2. b \in running'.pend /\ running.pend \subseteq running'.pend
    BY <1>6
  <2> QED
    BY <1>1, <2>1, <2>2
<1>12. Frees(going, fs', running')
  BY <1>8, <1>9, <1>10, <1>11 DEF Frees
<1>13. ending.pend \cap fs'.map = {}
  BY <1>2, <1>5
<1>14. Sole(fs')
  BY ShrinksSole
<1> QED
  BY <1>12, <1>13, <1>14 DEF Blocking

\* What jbd2 and a crash make of it.
LEMMA FreezeBlocking ==
  ASSUME Blocking, Freeze PROVE Blocking'
<1>1. /\ ~committing /\ committing' = TRUE /\ going' = fs /\ ending' = running /\ running' = NoTx
      /\ fs' = fs /\ disk' = disk
  BY DEF Freeze
<1>2. going = disk /\ ending = NoTx
  BY <1>1 DEF Blocking
<1>3. Frees(fs, fs, NoTx) /\ Frees(disk, fs, running) /\ running.pend \cap fs.map = {}
  BY <1>2, BlockingFacts, FreesNothing DEF Frees
<1> QED
  BY <1>1, <1>3, BlockingFacts DEF Blocking

LEMMA CommitBlocking ==
  ASSUME Blocking, Commit PROVE Blocking'
<1>1. /\ committing' = FALSE /\ disk' = going /\ ending' = NoTx
      /\ fs' = fs /\ going' = going /\ running' = running
  BY DEF Commit
<1>2. Frees(going, going, NoTx) /\ NoTx.pend = {}
  BY FreesNothing DEF NoTx
<1> QED
  BY <1>1, <1>2, BlockingFacts DEF Blocking

LEMMA CrashBlocking ==
  ASSUME Blocking, Crash PROVE Blocking'
<1>1. /\ committing' = FALSE /\ disk' = disk /\ ending' = NoTx
      /\ fs' = disk /\ going' = disk /\ running' = NoTx
  BY DEF Crash
<1>2. Frees(disk, disk, NoTx) /\ NoTx.pend = {}
  BY FreesNothing DEF NoTx
<1> QED
  BY <1>1, <1>2, BlockingFacts DEF Blocking

-----------------------------------------------------------------------------
(***************************************************************************)
(* What the journal would replay, and where the data are.                  *)
(***************************************************************************)

\* A block of extents of the last commit is not a block of data now: its release
\* would have to be committed first.
LEMMA LeafStays ==
  ASSUME Forms, Blocking, NEW b \in DataOf(fs), NEW i \in Inodes
  PROVE  disk.leaf[i] # b
<1>1. b \in fs.map /\ b # None
  BY BlockingFacts, FormsFacts, JournaledAssumption DEF Sole, Types, FsViews
<1> SUFFICES ASSUME disk.leaf[i] = b PROVE FALSE
  OBVIOUS
<1>2. going.leaf[i] = b
  BY <1>1, BlockingFacts DEF Frees
<1>3. fs.leaf[i] = b
  BY <1>1, <1>2, BlockingFacts DEF Frees
<1>5. fs \in FsViews
  BY FormsFacts DEF Types
<1>4. \E j \in Inodes : \E n \in DOMAIN fs.blocks[j] : b = fs.blocks[j][n]
  BY <1>5, MapIs
<1> QED
  BY <1>3, <1>4, BlockingFacts DEF Sole

\* And a block of data of either commit that is a block of data now has the same file.
LEMMA DataStays ==
  ASSUME Blocking, NEW b \in fs.map, NEW i \in Inodes
  PROVE  /\ \A n \in DOMAIN going.blocks[i] : going.blocks[i][n] = b =>
              n \in DOMAIN fs.blocks[i] /\ fs.blocks[i][n] = b
         /\ \A n \in DOMAIN disk.blocks[i] : disk.blocks[i][n] = b =>
              n \in DOMAIN fs.blocks[i] /\ fs.blocks[i][n] = b
<1>1. \A n \in DOMAIN going.blocks[i] : going.blocks[i][n] = b =>
        n \in DOMAIN fs.blocks[i] /\ fs.blocks[i][n] = b
  BY BlockingFacts DEF Frees
<1>2. \A n \in DOMAIN disk.blocks[i] : disk.blocks[i][n] = b =>
        n \in DOMAIN going.blocks[i] /\ going.blocks[i][n] = b
  BY BlockingFacts DEF Frees
<1> QED
  BY <1>1, <1>2

LEMMA SameJournaling ==
  ASSUME Journaling, UNCHANGED <<disk, logged, content>> PROVE Journaling'
BY DEF Journaling, Replayed

LEMMA DataOutJournaling ==
  ASSUME Forms, Blocking, Journaling, Written, NEW b \in Blocks, DataOut(b) PROVE Journaling'
<1>1. b \in DataOf(fs) /\ content' = Set(content, b, Data(Owner(b))) /\ disk' = disk /\ logged' = logged
  BY DEF DataOut, Written, view
<1>2. Types /\ Types'
  BY FormsFacts, FormsDataOut DEF Forms
<1>3. ASSUME NEW i \in Inodes, disk.leaf[i] # None PROVE Replayed'[disk.leaf[i]] = Extents(i)
  <2>1. disk.leaf[i] \in Blocks /\ disk.leaf[i] # b /\ Replayed[disk.leaf[i]] = Extents(i)
    <3>1. disk.leaf[i] \in Blocks \cup {None}
      BY <1>2 DEF Types, FsViews
    <3>2. disk.leaf[i] # b
      BY <1>1, LeafStays
    <3> QED
      BY <1>3, <3>1, <3>2 DEF Journaling
  <2>2. content'[disk.leaf[i]] = content[disk.leaf[i]]
    BY <1>1, <1>2, <2>1 DEF Set, Types
  <2> QED
    BY <1>1, <2>1, <2>2 DEF Replayed
<1> QED
  BY <1>1, <1>3 DEF Journaling

LEMMA CommitJournaling ==
  ASSUME Forms, Blocking, Journaling, Commit PROVE Journaling'
<1>1. /\ logged' = [b \in Blocks |-> IF b \in ending.meta THEN LeafOwner(going, b)
                                    ELSE IF b \in ending.revoked THEN None ELSE logged[b]]
      /\ disk' = going /\ content' = content
  BY DEF Commit, data
<1>2. Types /\ going \in FsViews
  BY FormsFacts DEF Types
<1>3. \A b \in ending.meta : LeafOwner(going, b) \in Inodes /\ going.leaf[LeafOwner(going, b)] = b
  BY <1>2, LeafOwnerIs, BlockingFacts DEF Frees
<1>4. \A j \in Inodes : /\ disk.leaf[j] # None => going.leaf[j] = disk.leaf[j] \/ disk.leaf[j] \in ending.revoked
                        /\ going.leaf[j] # None => going.leaf[j] = disk.leaf[j] \/ going.leaf[j] \in ending.meta
  BY BlockingFacts DEF Frees
<1>5. ASSUME NEW b \in Blocks, logged'[b] # None PROVE going.leaf[logged'[b]] = b
  <2>1. CASE b \in ending.meta
    BY <1>1, <1>3, <2>1
  <2>2. CASE b \notin ending.meta
    <3>1. logged'[b] = logged[b] /\ b \notin ending.revoked
      BY <1>1, <1>5, <2>2
    <3>2. logged[b] \in Inodes /\ disk.leaf[logged[b]] = b /\ b # None
      BY <1>2, <1>5, <3>1, JournaledAssumption DEF Types, Journaling
    <3> QED
      BY <1>4, <3>1, <3>2
  <2> QED
    BY <2>1, <2>2
<1>6. ASSUME NEW i \in Inodes, going.leaf[i] # None PROVE Replayed'[going.leaf[i]] = Extents(i)
  <2> DEFINE b == going.leaf[i]
  <2>1. b \in Blocks /\ b \in going.map
    BY <1>2, <1>6, SoleIs, BlockingFacts DEF FsViews
  <2>2. b \notin ending.revoked
    BY <2>1, BlockingFacts DEF Frees
  <2>3. CASE b \in ending.meta
    <3>1. LeafOwner(going, b) = i
      BY <1>3, <1>6, <2>3, BlockingFacts DEF Sole
    <3>2. i # None
      BY InodesAssumption
    <3>3. logged'[b] = i
      BY <1>1, <2>1, <2>3, <3>1
    <3> QED
      BY <2>1, <3>2, <3>3 DEF Replayed
  <2>4. CASE b \notin ending.meta
    <3>1. b = disk.leaf[i]
      BY <1>4, <1>6, <2>4
    <3>2. Replayed[b] = Extents(i)
      BY <1>6, <3>1 DEF Journaling
    <3>3. logged'[b] = logged[b] /\ content'[b] = content[b]
      BY <1>1, <2>1, <2>2, <2>4
    <3> QED
      BY <2>1, <3>2, <3>3 DEF Replayed
  <2> QED
    BY <2>3, <2>4
<1> QED
  BY <1>1, <1>5, <1>6 DEF Journaling

LEMMA CrashJournaling ==
  ASSUME Forms, Blocking, Journaling, Crash PROVE Journaling'
<1>1. logged' = [b \in Blocks |-> None] /\ disk' = disk /\ content' = Replayed
  BY DEF Crash
<1>2. ASSUME NEW i \in Inodes, disk.leaf[i] # None PROVE Replayed'[disk.leaf[i]] = Extents(i)
  <2>1. disk.leaf[i] \in Blocks
    BY <1>2, FormsFacts DEF Types, FsViews
  <2>2. Replayed'[disk.leaf[i]] = content'[disk.leaf[i]]
    BY <1>1, <2>1 DEF Replayed
  <2> QED
    BY <1>1, <1>2, <2>2 DEF Journaling
<1> QED
  BY <1>1, <1>2 DEF Journaling

\* Beyond the size of a file are blocks of it.
LEMMA BeyondIs ==
  ASSUME Forms, NEW i \in Inodes
  PROVE  /\ \A n \in Nat : Beyond(fs, i, n) \subseteq Used(fs, i)
         /\ \A x : x \in Used(fs, i) <=> \E n \in DOMAIN fs.blocks[i] : x = fs.blocks[i][n]
         /\ Used(fs, i) \subseteq DataOf(fs)
<1>1. DOMAIN fs.blocks[i] = 1 .. Len(fs.blocks[i]) /\ Len(fs.blocks[i]) \in Nat
  BY FormsFacts
<1>2. \A n \in Nat : \A k \in n + 1 .. Len(fs.blocks[i]) : k \in DOMAIN fs.blocks[i]
  BY <1>1
<1>3. \A x : x \in Used(fs, i) <=> \E n \in DOMAIN fs.blocks[i] : x = fs.blocks[i][n]
  BY DEF Used, Range
<1> QED
  BY <1>2, <1>3 DEF Beyond, DataOf

LEMMA CalmWritten ==
  ASSUME Calm, Written, dirty' \cup inflight \subseteq DataOf(fs),
         \A j \in Inodes : step'[j] \in {"cutting", "paused"} =>
           (dirty' \cup inflight) \cap Beyond(fs, j, fs'.size[j]) = {}
  PROVE  Written'
<1>1. DataOf(fs') = DataOf(fs) /\ \A j \in Inodes : Beyond(fs', j, fs'.size[j]) = Beyond(fs, j, fs'.size[j])
  BY DEF Calm, SameBlocks, DataOf, Used, Beyond
<1> QED
  BY <1>1 DEF Written, Calm

\* Most steps add nothing to the page cache, and bring no inode to where its blocks are cut.
LEMMA PlainWritten ==
  ASSUME Calm, Written, dirty' \subseteq dirty,
         \A j \in Inodes : step'[j] \in {"cutting", "paused"} =>
           \/ step[j] \in {"cutting", "paused"} /\ fs'.size[j] = fs.size[j]
           \/ (dirty' \cup inflight) \cap Beyond(fs, j, fs'.size[j]) = {}
  PROVE  Written'
<1>1. dirty' \cup inflight \subseteq DataOf(fs)
  BY DEF Written
<1>2. ASSUME NEW j \in Inodes, step'[j] \in {"cutting", "paused"}
      PROVE  (dirty' \cup inflight) \cap Beyond(fs, j, fs'.size[j]) = {}
  BY <1>2 DEF Written
<1> QED
  BY <1>1, <1>2, CalmWritten

LEMMA RewriteWritten ==
  ASSUME Forms, Blocking, Written, NEW i \in Inodes, Rewrite(i) PROVE Written'
<1>1. /\ Calm /\ step' = step
      /\ Has(fs', fs.used, fs.links, [fs.size EXCEPT ![i] = fs.size[i] + 1])
      /\ fs.size[i] < Len(fs.blocks[i]) /\ step[i] = "idle"
      /\ dirty' = dirty \cup {fs.blocks[i][fs.size[i] + 1]} /\ dirty' \subseteq dirty \cup DataOf(fs)
  BY RewriteDoes, FormsFacts
<1>2. dirty' \cup inflight \subseteq DataOf(fs)
  BY <1>1 DEF Written
<1>3. fs.size[i] + 1 \in DOMAIN fs.blocks[i]
  BY <1>1, FormsFacts
<1>4. ASSUME NEW j \in Inodes, step'[j] \in {"cutting", "paused"}
      PROVE  (dirty' \cup inflight) \cap Beyond(fs, j, fs'.size[j]) = {}
  <2>1. j # i /\ fs'.size[j] = fs.size[j] /\ fs.size[j] \in Nat
    BY <1>1, <1>4, FormsFacts DEF Has
  <2>2. Beyond(fs, j, fs.size[j]) \subseteq Used(fs, j)
    BY <2>1, BeyondIs
  <2>3. fs.blocks[i][fs.size[i] + 1] \notin Used(fs, j)
    BY <1>3, <2>1, BeyondIs, BlockingFacts DEF Sole
  <2> QED
    BY <1>1, <1>4, <2>1, <2>2, <2>3 DEF Written
<1> QED
  BY <1>1, <1>2, <1>4, CalmWritten

LEMMA WriteWritten ==
  ASSUME Forms, Blocking, Written, NEW i \in Inodes, NEW b \in Blocks, NEW l \in Blocks \cup {None}, Grows(i, b, l),
         step' = step, dirty' \subseteq dirty \cup {b}, inflight' \subseteq inflight \cup {b}
  PROVE  Written'
<1>1. /\ \A j \in Inodes : \A n \in DOMAIN fs.blocks[j] :
           n \in DOMAIN fs'.blocks[j] /\ fs'.blocks[j][n] = fs.blocks[j][n]
      /\ Len(fs.blocks[i]) + 1 \in DOMAIN fs'.blocks[i] /\ fs'.blocks[i][Len(fs.blocks[i]) + 1] = b
  BY GrowsPoints
<1>2. fs \in FsViews /\ fs' \in FsViews
  BY FormsFacts, GrowsBlocks DEF Types
<1>3. ASSUME NEW x \in DataOf(fs) PROVE x \in DataOf(fs')
  <2>1. PICK j \in Inodes : \E n \in DOMAIN fs.blocks[j] : x = fs.blocks[j][n]
    BY <1>2, MapIs
  <2>2. \E n \in DOMAIN fs'.blocks[j] : x = fs'.blocks[j][n]
    BY <1>1, <2>1
  <2> QED
    BY <1>2, <2>2, MapIs
<1>4. b \in DataOf(fs')
  BY <1>1, <1>2, MapIs
<1>5. dirty' \cup inflight' \subseteq DataOf(fs')
  BY <1>3, <1>4 DEF Written
<1>6. ASSUME NEW j \in Inodes, step[j] \in {"cutting", "paused"}
      PROVE  (dirty' \cup inflight') \cap Beyond(fs', j, fs'.size[j]) = {}
  <2>1. j # i
    BY <1>6 DEF Grows, MayWrite, Idle
  <2>2. fs'.blocks[j] = fs.blocks[j]
    BY <2>1, GrowsBlocks
  <2>3. fs'.size[j] = fs.size[j] /\ fs.size[j] \in Nat
    BY <2>1, FormsFacts DEF Grows, Has
  <2>4. Beyond(fs', j, fs'.size[j]) = Beyond(fs, j, fs.size[j])
    BY <2>2, <2>3 DEF Beyond
  <2>5. b \notin Beyond(fs, j, fs.size[j])
    <3>1. \A n \in DOMAIN fs.blocks[j] : fs.blocks[j][n] \in fs.map
      BY <1>2, SoleIs, BlockingFacts
    <3>2. b \notin fs.map
      BY DEF Grows, Available
    <3> QED
      BY <2>3, <3>1, <3>2, BeyondIs
  <2> QED
    BY <1>6, <2>4, <2>5 DEF Written
<1> QED
  BY <1>5, <1>6 DEF Written

LEMMA CutWritten ==
  ASSUME Forms, Blocking, Written, NEW i \in Inodes, NEW b \in Blocks, Shrinks(i, b),
         step[i] = "cutting", GoOn(i), UNCHANGED <<dirty, inflight>>
  PROVE  Written'
<1>1. \A j \in Inodes : \A n \in DOMAIN fs.blocks[j] :
           \/ j = i /\ n = Len(fs.blocks[i]) /\ fs.blocks[j][n] = b
           \/ n \in DOMAIN fs'.blocks[j] /\ fs'.blocks[j][n] = fs.blocks[j][n]
  BY ShrinksPoints
<1>2. fs \in FsViews /\ fs' \in FsViews
  BY FormsFacts, ShrinksBlocks DEF Types
<1>3. /\ \A j \in Inodes \ {i} : fs'.blocks[j] = fs.blocks[j]
      /\ Len(fs.blocks[i]) \in Nat \ {0} /\ Len(fs'.blocks[i]) = Len(fs.blocks[i]) - 1
      /\ \A n \in 1 .. Len(fs.blocks[i]) - 1 : fs'.blocks[i][n] = fs.blocks[i][n]
      /\ fs.blocks[i][Len(fs.blocks[i])] = b
  BY ShrinksBlocks
<1>4. fs'.size = fs.size /\ fs.size[i] < Len(fs.blocks[i])
  BY DEF Shrinks, Has
<1>5. b \notin dirty \cup inflight
  <2>1. Len(fs.blocks[i]) \in fs.size[i] + 1 .. Len(fs.blocks[i])
    BY <1>3, <1>4, FormsFacts
  <2>2. b \in Beyond(fs, i, fs.size[i])
    BY <1>3, <2>1 DEF Beyond
  <2> QED
    BY <2>2 DEF Written
<1>6. ASSUME NEW x \in dirty \cup inflight PROVE x \in DataOf(fs')
  <2>1. PICK j \in Inodes : \E n \in DOMAIN fs.blocks[j] : x = fs.blocks[j][n]
    BY <1>2, MapIs DEF Written
  <2>2. \E n \in DOMAIN fs'.blocks[j] : x = fs'.blocks[j][n]
    BY <1>1, <1>5, <2>1
  <2> QED
    BY <1>2, <2>2, MapIs
<1>7. ASSUME NEW j \in Inodes, step'[j] \in {"cutting", "paused"}
      PROVE  (dirty \cup inflight) \cap Beyond(fs', j, fs.size[j]) = {}
  <2>1. step[j] \in {"cutting", "paused"}
    BY <1>7, GoesOn
  <2>2. (dirty \cup inflight) \cap Beyond(fs, j, fs.size[j]) = {}
    BY <2>1 DEF Written
  <2>3. Beyond(fs', j, fs.size[j]) \subseteq Beyond(fs, j, fs.size[j])
    <3>1. CASE j # i
      BY <1>3, <3>1 DEF Beyond
    <3>2. CASE j = i
      <4>1. \A k \in fs.size[i] + 1 .. Len(fs.blocks[i]) - 1 :
              k \in fs.size[i] + 1 .. Len(fs.blocks[i]) /\ k \in 1 .. Len(fs.blocks[i]) - 1
        BY <1>3, FormsFacts
      <4> QED
        BY <1>3, <3>2, <4>1 DEF Beyond
    <3> QED
      BY <3>1, <3>2
  <2> QED
    BY <2>2, <2>3
<1> QED
  BY <1>4, <1>6, <1>7 DEF Written

LEMMA DataOutWritten ==
  ASSUME Written, NEW b \in Blocks, DataOut(b) PROVE Written'
BY DEF Written, DataOut, view, mem, DataOf, Used, Beyond

LEMMA SameWritten ==
  ASSUME Written, UNCHANGED <<fs, dirty, inflight, step>> PROVE Written'
BY DEF Written, DataOf, Used, Beyond

LEMMA CrashWritten ==
  ASSUME Crash PROVE Written'
BY DEF Crash, Written, AllIdle

LEMMA CalmDelayed ==
  ASSUME Calm, Delayed PROVE Delayed'
BY DEF Calm, SameBlocks, Delayed

LEMMA WriteDelayed ==
  ASSUME Forms, Delayed, NEW i \in Inodes, NEW b \in Blocks, NEW l \in Blocks \cup {None}, Grows(i, b, l),
         inflight' = inflight \cup {b}, UNCHANGED <<going, disk, content>>
  PROVE  Delayed'
<1>1. \A j \in Inodes : \A n \in DOMAIN fs'.blocks[j] :
           \/ fs'.blocks[j][n] = b
           \/ n \in DOMAIN fs.blocks[j] /\ fs'.blocks[j][n] = fs.blocks[j][n]
  BY GrowsPoints
<1> QED
  BY <1>1 DEF Delayed

LEMMA CutDelayed ==
  ASSUME Forms, Delayed, NEW i \in Inodes, NEW b \in Blocks, Shrinks(i, b),
         UNCHANGED <<going, disk, content, inflight>>
  PROVE  Delayed'
<1>1. \A j \in Inodes : \A n \in DOMAIN fs'.blocks[j] :
        n \in DOMAIN fs.blocks[j] /\ fs'.blocks[j][n] = fs.blocks[j][n]
  BY ShrinksPoints
<1> QED
  BY <1>1 DEF Delayed

LEMMA DataOutDelayed ==
  ASSUME Forms, Blocking, Written, Delayed, NEW b \in Blocks, DataOut(b) PROVE Delayed'
<1>1. /\ content' = Set(content, b, Data(Owner(b))) /\ inflight' = inflight \ {b}
      /\ fs' = fs /\ going' = going /\ disk' = disk
  BY DEF DataOut, view
<1>2. content \in [Blocks -> Contents] /\ fs \in FsViews /\ b \in DataOf(fs)
  BY FormsFacts DEF Types, DataOut, Written
<1>3. content'[b] = Data(Owner(b)) /\ \A x \in Blocks \ {b} : content'[x] = content[x]
  BY <1>1, <1>2 DEF Set
<1>4. b \in fs.map
  BY <1>2, BlockingFacts DEF Sole
<1>5. ASSUME NEW i \in Inodes, NEW n \in DOMAIN fs.blocks[i], fs.blocks[i][n] = b PROVE Owner(b) = i
  <2>1. PICK m \in DOMAIN fs.blocks[Owner(b)] : b = fs.blocks[Owner(b)][m]
    BY <1>2, OwnerIs, BeyondIs
  <2> QED
    BY <1>2, <1>5, <2>1, OwnerIs, BlockingFacts DEF Sole
<1>6. \A i \in Inodes : /\ \A n \in DOMAIN fs.blocks[i] : fs.blocks[i][n] \in Blocks
                        /\ \A n \in DOMAIN going.blocks[i] : going.blocks[i][n] \in Blocks
                        /\ \A n \in DOMAIN disk.blocks[i] : disk.blocks[i][n] \in Blocks
  <2>1. fs \in FsViews /\ going \in FsViews /\ disk \in FsViews
    BY FormsFacts DEF Types
  <2> QED
    BY <2>1, BlockIs
<1>7. ASSUME NEW i \in Inodes, NEW n \in DOMAIN fs.blocks[i]
      PROVE  fs.blocks[i][n] \in inflight' \/ content'[fs.blocks[i][n]] = Data(i)
  BY <1>1, <1>3, <1>5, <1>6 DEF Delayed
<1>8. ASSUME NEW i \in Inodes, NEW n \in DOMAIN going.blocks[i]
      PROVE  going.blocks[i][n] \in inflight' \/ content'[going.blocks[i][n]] = Data(i)
  <2>1. going.blocks[i][n] = b => Owner(b) = i
    BY <1>4, <1>5, DataStays
  <2> QED
    BY <1>1, <1>3, <1>6, <2>1 DEF Delayed
<1>9. ASSUME NEW i \in Inodes, NEW n \in DOMAIN disk.blocks[i]
      PROVE  content'[disk.blocks[i][n]] = Data(i)
  <2>1. disk.blocks[i][n] = b => Owner(b) = i
    BY <1>4, <1>5, DataStays
  <2> QED
    BY <1>1, <1>3, <1>6, <2>1 DEF Delayed
<1> QED
  BY <1>1, <1>7, <1>8, <1>9 DEF Delayed

LEMMA FreezeDelayed ==
  ASSUME Delayed, Freeze PROVE Delayed'
<1>1. going' = fs /\ fs' = fs /\ disk' = disk /\ content' = content /\ inflight' = inflight
  BY DEF Freeze, data
<1> QED
  BY <1>1 DEF Delayed

LEMMA CommitDelayed ==
  ASSUME Forms, Delayed, Commit PROVE Delayed'
<1>1. /\ committing /\ disk' = going /\ going' = going /\ fs' = fs /\ content' = content /\ inflight' = inflight
      /\ \A i \in Inodes : Filed(i) => Used(going, i) \cap (dirty \cup inflight) = {}
  BY DEF Commit, data
<1>2. ASSUME NEW i \in Inodes, NEW n \in DOMAIN going.blocks[i] PROVE content[going.blocks[i][n]] = Data(i)
  <2>1. going.blocks[i][n] \in Used(going, i)
    BY DEF Used, Range
  <2>2. CASE Filed(i)
    BY <1>1, <2>1, <2>2 DEF Delayed
  <2>3. CASE ~Filed(i)
    <3>1. going.blocks[i][n] \in Used(disk, i)
      BY <1>1, <2>1, <2>3 DEF Filed
    <3>2. PICK m \in DOMAIN disk.blocks[i] : disk.blocks[i][m] = going.blocks[i][n]
      BY <3>1 DEF Used, Range
    <3> QED
      BY <3>2 DEF Delayed
  <2> QED
    BY <2>2, <2>3
<1> QED
  BY <1>1, <1>2 DEF Delayed

\* A block of data of the last commit is not replayed over.
LEMMA DataReplayed ==
  ASSUME Forms, Blocking, Journaling, Delayed, NEW i \in Inodes, NEW n \in DOMAIN disk.blocks[i]
  PROVE  Replayed[disk.blocks[i][n]] = Data(i)
<1>1. disk.blocks[i][n] \in Blocks /\ Types
  <2>1. disk \in FsViews /\ Types
    BY FormsFacts DEF Types
  <2> QED
    BY <2>1, BlockIs
<1>2. logged[disk.blocks[i][n]] \in Inodes \cup {None}
  BY <1>1 DEF Types
<1>3. logged[disk.blocks[i][n]] = None
  BY <1>1, <1>2, BlockingFacts DEF Journaling, Sole
<1> QED
  BY <1>1, <1>3 DEF Replayed, Delayed

LEMMA CrashDelayed ==
  ASSUME Forms, Blocking, Journaling, Delayed, Crash PROVE Delayed'
<1>1. fs' = disk /\ going' = disk /\ disk' = disk /\ content' = Replayed
  BY DEF Crash
<1> QED
  BY <1>1, DataReplayed DEF Delayed

-----------------------------------------------------------------------------
(***************************************************************************)
(* The invariant but for the lists, step by step.                          *)
(***************************************************************************)

\* Steps that change no block.
LEMMA CalmInv ==
  ASSUME Inv, Calm, Forms', Written', Delalloc => Delayed
  PROVE  Inv' /\ (Delalloc => Delayed')
<1>1. Blocking'
  BY CalmBlocking DEF Inv
<1>2. Journaling'
  BY SameJournaling DEF Inv, Calm
<1> QED
  BY <1>1, <1>2, CalmDelayed DEF Inv

\* A step that neither adds to the page cache nor begins to cut.
LEMMA QuietInv ==
  ASSUME Inv, Calm, Forms', Delalloc => Delayed, dirty' \subseteq dirty, fs'.size = fs.size,
         \A j \in Inodes : step'[j] \in {"cutting", "paused"} => step[j] \in {"cutting", "paused"}
  PROVE  Inv' /\ (Delalloc => Delayed')
<1>1. Written'
  BY PlainWritten DEF Inv
<1> QED
  BY <1>1, CalmInv

LEMMA NamesInv ==
  ASSUME Inv, Delalloc => Delayed, NEW i \in Inodes,
         Create(i) \/ TmpFile(i) \/ Link(i) \/ Unlink(i) \/ Open(i) \/ Close(i)
  PROVE  Inv' /\ (Delalloc => Delayed')
<1>1. Forms /\ Types
  BY FormsFacts DEF Inv
<1>2. CASE Create(i)
  <2>1. Calm /\ dirty' = dirty /\ step' = step /\ fs'.size = fs.size
    BY <1>1, <1>2, CreateDoes DEF Has
  <2> QED
    BY <1>1, <1>2, <2>1, FormsCreate, QuietInv
<1>3. CASE TmpFile(i)
  <2>1. Calm /\ dirty' = dirty /\ step' = step /\ fs'.size = fs.size
    BY <1>1, <1>3, TmpFileDoes DEF Has
  <2> QED
    BY <1>1, <1>3, <2>1, FormsTmpFile, QuietInv
<1>4. CASE Link(i)
  <2>1. Calm /\ dirty' = dirty /\ step' = step /\ fs'.size = fs.size
    BY <1>1, <1>4, LinkDoes DEF Has
  <2> QED
    BY <1>1, <1>4, <2>1, FormsLink, QuietInv
<1>5. CASE Unlink(i)
  <2>1. /\ Calm /\ dirty' = dirty /\ fs'.size = fs.size
        /\ Goto(i, IF open[i] = "closed" THEN "doomed" ELSE "idle")
    BY <1>1, <1>5, UnlinkDoes DEF Has
  <2>2. \A j \in Inodes : step'[j] \in {"cutting", "paused"} => step[j] \in {"cutting", "paused"}
    BY <1>1, <2>1 DEF Goto, Set, Types
  <2> QED
    BY <1>1, <1>5, <2>1, <2>2, FormsUnlink, QuietInv
<1>6. CASE Open(i)
  <2>1. Calm /\ dirty' = dirty /\ step' = step /\ fs'.size = fs.size
    BY <1>1, <1>6, StillCalm DEF Open, data, Types, Still, Has
  <2> QED
    BY <1>1, <1>6, <2>1, FormsOpen, QuietInv
<1>7. CASE Close(i)
  <2>1. /\ Calm /\ dirty' = dirty /\ fs'.size = fs.size
        /\ Goto(i, IF fs.links[i] = 0 THEN "doomed" ELSE "idle")
    BY <1>1, <1>7, StillCalm DEF Close, data, Types, Still, Has
  <2>2. \A j \in Inodes : step'[j] \in {"cutting", "paused"} => step[j] \in {"cutting", "paused"}
    BY <1>1, <2>1 DEF Goto, Set, Types
  <2> QED
    BY <1>1, <1>7, <2>1, <2>2, FormsClose, QuietInv
<1> QED
  BY <1>2, <1>3, <1>4, <1>5, <1>6, <1>7

LEMMA BlocksInv ==
  ASSUME Inv, Delalloc => Delayed, NEW i \in Inodes, Write(i) \/ Rewrite(i) \/ Cut(i)
  PROVE  Inv' /\ (Delalloc => Delayed')
<1>1. Forms /\ Types /\ Blocking /\ Journaling /\ Written
  BY FormsFacts DEF Inv
<1>2. CASE Write(i)
  <2>1. /\ \E b \in Blocks, l \in Blocks \cup {None} :
             /\ Grows(i, b, l)
             /\ dirty' = IF Delalloc THEN dirty ELSE dirty \cup {b}
             /\ inflight' = IF Delalloc THEN inflight \cup {b} ELSE inflight
        /\ UNCHANGED <<going, disk, committing, ending, logged, content, step>>
    BY <1>1, <1>2, WriteDoes
  <2>2. PICK b \in Blocks, l \in Blocks \cup {None} :
             /\ Grows(i, b, l)
             /\ dirty' = IF Delalloc THEN dirty ELSE dirty \cup {b}
             /\ inflight' = IF Delalloc THEN inflight \cup {b} ELSE inflight
    BY <2>1
  <2>3. Written'
    BY <1>1, <2>1, <2>2, WriteWritten
  <2>4. Blocking'
    BY <1>1, <2>1, <2>2, GrowsBlocking
  <2>5. Delalloc => Delayed'
    BY <1>1, <2>1, <2>2, WriteDelayed
  <2>6. Journaling'
    BY <1>1, <2>1, SameJournaling
  <2> QED
    BY <1>1, <1>2, <2>3, <2>4, <2>5, <2>6, FormsWrite DEF Inv
<1>3. CASE Rewrite(i)
  <2>1. Calm /\ Forms' /\ Written'
    BY <1>1, <1>3, RewriteDoes, FormsRewrite, RewriteWritten
  <2> QED
    BY <2>1, CalmInv
<1>4. CASE Cut(i)
  <2>1. /\ \E b \in Blocks : Shrinks(i, b)
        /\ UNCHANGED <<going, disk, committing, ending, logged, content, dirty, inflight>>
        /\ GoOn(i) /\ step[i] = "cutting"
    BY <1>1, <1>4, CutDoes
  <2>2. PICK b \in Blocks : Shrinks(i, b)
    BY <2>1
  <2>3. Written'
    BY <1>1, <2>1, <2>2, CutWritten
  <2>4. Blocking'
    BY <1>1, <2>1, <2>2, ShrinksBlocking
  <2>5. Delalloc => Delayed'
    BY <1>1, <2>1, <2>2, CutDelayed
  <2>6. Journaling'
    BY <1>1, <2>1, SameJournaling
  <2> QED
    BY <1>1, <1>4, <2>3, <2>4, <2>5, <2>6, FormsCut DEF Inv
<1> QED
  BY <1>2, <1>3, <1>4

LEMMA CuttingInv ==
  ASSUME Inv, Delalloc => Delayed, NEW i \in Inodes,
         Ask(i) \/ HandleFails(i) \/ Resize(i) \/ StartCut(i) \/ StartEvict(i) \/ Resume(i) \/ Finish(i)
  PROVE  Inv' /\ (Delalloc => Delayed')
<1>1. Forms /\ Types /\ Written
  BY FormsFacts DEF Inv
<1>2. CASE Ask(i)
  <2>1. Calm /\ dirty' = dirty /\ fs'.size = fs.size /\ Goto(i, "asked")
    BY <1>1, <1>2, StillCalm DEF Ask, data, Types, Still, Has
  <2>2. \A j \in Inodes : step'[j] \in {"cutting", "paused"} => step[j] \in {"cutting", "paused"}
    BY <1>1, <2>1 DEF Goto, Set, Types
  <2> QED
    BY <1>1, <1>2, <2>1, <2>2, FormsAsk, QuietInv
<1>3. CASE HandleFails(i)
  <2>1. Calm /\ dirty' \subseteq dirty /\ fs'.size = fs.size /\ Goto(i, "idle")
    <3>1. dirty' \subseteq dirty /\ dirty' \in SUBSET Blocks /\ UNCHANGED <<view, content, inflight>> /\ Goto(i, "idle")
      BY <1>1, <1>3 DEF HandleFails, Dropped, Types, data
    <3> QED
      BY <1>1, <3>1, StillCalm DEF Still, Has
  <2>2. \A j \in Inodes : step'[j] \in {"cutting", "paused"} => step[j] \in {"cutting", "paused"}
    BY <1>1, <2>1 DEF Goto, Set, Types
  <2> QED
    BY <1>1, <1>3, <2>1, <2>2, FormsHandleFails, QuietInv
<1>4. CASE Resize(i)
  <2>1. /\ Calm /\ dirty' = dirty /\ Goto(i, "sized") /\ step[i] = "asked"
        /\ Has(fs', fs.used, fs.links, [fs.size EXCEPT ![i] = target[i]])
    BY <1>1, <1>4, ResizeDoes
  <2>2. \A j \in Inodes : step'[j] \in {"cutting", "paused"} =>
          step[j] \in {"cutting", "paused"} /\ fs'.size[j] = fs.size[j]
    BY <1>1, <2>1 DEF Goto, Set, Types, Has, FsViews
  <2>3. Written'
    BY <1>1, <2>1, <2>2, PlainWritten
  <2> QED
    BY <1>1, <1>4, <2>1, <2>3, FormsResize, CalmInv
<1>5. CASE StartCut(i)
  <2>1. /\ Calm /\ Has(fs', fs.used, fs.links, fs.size) /\ GoOn(i)
        /\ inflight \cap Beyond(fs, i, fs.size[i]) = {} /\ dirty' = dirty \ Beyond(fs, i, fs.size[i])
    BY <1>1, <1>5, StartCutDoes
  <2>2. \A j \in Inodes : step'[j] \in {"cutting", "paused"} =>
          \/ step[j] \in {"cutting", "paused"} /\ fs'.size[j] = fs.size[j]
          \/ (dirty' \cup inflight) \cap Beyond(fs, j, fs'.size[j]) = {}
    BY <1>1, <2>1, GoesOn DEF Has
  <2>3. Written'
    BY <1>1, <2>1, <2>2, PlainWritten
  <2> QED
    BY <1>1, <1>5, <2>1, <2>3, FormsStartCut, CalmInv
<1>6. CASE StartEvict(i)
  <2>1. /\ Calm /\ Has(fs', fs.used, fs.links, [fs.size EXCEPT ![i] = 0]) /\ GoOn(i)
        /\ inflight \cap Beyond(fs, i, 0) = {} /\ dirty' = dirty \ Beyond(fs, i, 0)
    BY <1>1, <1>6, StartEvictDoes
  <2>2. fs'.size[i] = 0 /\ \A j \in Inodes \ {i} : fs'.size[j] = fs.size[j]
    BY <1>1, <2>1, FormsFacts DEF Has
  <2>3. \A j \in Inodes : step'[j] \in {"cutting", "paused"} =>
          \/ step[j] \in {"cutting", "paused"} /\ fs'.size[j] = fs.size[j]
          \/ (dirty' \cup inflight) \cap Beyond(fs, j, fs'.size[j]) = {}
    BY <1>1, <2>1, <2>2, GoesOn
  <2>4. Written'
    BY <1>1, <2>1, <2>3, PlainWritten
  <2> QED
    BY <1>1, <1>6, <2>1, <2>4, FormsStartEvict, CalmInv
<1>7. CASE Resume(i)
  <2>1. Calm /\ dirty' = dirty /\ fs'.size = fs.size /\ Goto(i, "cutting") /\ step[i] = "paused"
    BY <1>1, <1>7, StillCalm DEF Resume, data, Types, Still, Has
  <2>2. \A j \in Inodes : step'[j] \in {"cutting", "paused"} => step[j] \in {"cutting", "paused"}
    BY <1>1, <2>1 DEF Goto, Set, Types
  <2> QED
    BY <1>1, <1>7, <2>1, <2>2, FormsResume, QuietInv
<1>8. CASE Finish(i)
  <2>1. Calm /\ dirty' = dirty /\ fs'.size = fs.size /\ Goto(i, "idle")
    BY <1>1, <1>8, FinishDoes DEF Has
  <2>2. \A j \in Inodes : step'[j] \in {"cutting", "paused"} => step[j] \in {"cutting", "paused"}
    BY <1>1, <2>1 DEF Goto, Set, Types
  <2> QED
    BY <1>1, <1>8, <2>1, <2>2, FormsFinish, QuietInv
<1> QED
  BY <1>2, <1>3, <1>4, <1>5, <1>6, <1>7, <1>8

LEMMA JbdInv ==
  ASSUME Inv, Delalloc => Delayed, (\E b \in Blocks : DataOut(b)) \/ Freeze \/ Commit \/ Crash
  PROVE  Inv' /\ (Delalloc => Delayed')
<1>1. Forms /\ Types /\ Blocking /\ Journaling /\ Written
  BY FormsFacts DEF Inv
<1>2. ASSUME NEW b \in Blocks, DataOut(b) PROVE Inv' /\ (Delalloc => Delayed')
  <2>1. Blocking'
    BY <1>1, <1>2, SoleSame, FreesSame DEF DataOut, view, Blocking
  <2> QED
    BY <1>1, <1>2, <2>1, FormsDataOut, DataOutJournaling, DataOutWritten, DataOutDelayed DEF Inv
<1>3. CASE Freeze
  <2>1. Journaling' /\ Written'
    BY <1>1, <1>3, SameJournaling, SameWritten DEF Freeze, data, mem
  <2> QED
    BY <1>1, <1>3, <2>1, FormsFreeze, FreezeBlocking, FreezeDelayed DEF Inv
<1>4. CASE Commit
  <2>1. Written'
    BY <1>1, <1>4, SameWritten DEF Commit, data, mem
  <2> QED
    BY <1>1, <1>4, <2>1, FormsCommit, CommitBlocking, CommitJournaling, CommitDelayed DEF Inv
<1>5. CASE Crash
  BY <1>1, <1>5, FormsCrash, CrashBlocking, CrashJournaling, CrashWritten, CrashDelayed DEF Inv
<1> QED
  BY <1>2, <1>3, <1>4, <1>5

LEMMA MountInv ==
  ASSUME Inv, Lists, Delalloc => Delayed, Recover \/ Mounted
  PROVE  Inv' /\ (Delalloc => Delayed')
<1>1. Forms /\ Types
  BY FormsFacts DEF Inv
<1>2. CASE Recover
  <2>1. Calm /\ dirty' = dirty /\ fs'.size = fs.size /\ step = AllIdle
    BY <1>1, <1>2, RecoverDoes DEF Still, Has
  <2>2. \A j \in Inodes : step'[j] \in {"cutting", "paused"} => step[j] \in {"cutting", "paused"}
    <3>1. (\E i \in Inodes : Takes(i)) \/ GivesUp
      BY <1>1, <1>2, RecoverDoes
    <3>2. ASSUME NEW i \in Inodes, Takes(i), NEW j \in Inodes PROVE step'[j] \notin {"cutting", "paused"}
      BY <2>1, <3>2 DEF Takes, Goto, Set, AllIdle
    <3>3. CASE GivesUp
      BY <3>3 DEF GivesUp
    <3> QED
      BY <3>1, <3>2, <3>3
  <2> QED
    BY <1>1, <1>2, <2>1, <2>2, FormsRecover, QuietInv
<1>3. CASE Mounted
  <2>1. Calm /\ dirty' = dirty /\ fs'.size = fs.size /\ step' = step
    BY <1>1, <1>3, StillCalm DEF Mounted, data, mem, Types, Still, Has
  <2> QED
    BY <1>1, <1>3, <2>1, FormsMounted, QuietInv
<1> QED
  BY <1>2, <1>3

LEMMA StutterInv ==
  ASSUME Inv, Delalloc => Delayed, UNCHANGED vars
  PROVE  Inv' /\ (Delalloc => Delayed')
<1>1. Types /\ Steps /\ Shaped(fs)
  BY FormsFacts DEF Inv
<1>2. Calm /\ step' = step /\ fs'.size = fs.size /\ dirty' = dirty
  BY <1>1, StillCalm DEF vars, data, mem, Types, Still, Has
<1>3. Forms'
  BY DEF Inv, Forms, Types, Shaped, Steps, InUse, vars, view, data, mem, sys
<1> QED
  BY <1>2, <1>3, QuietInv

LEMMA NextInv ==
  ASSUME Inv, Lists, Delalloc => Delayed, [Next]_vars
  PROVE  Inv' /\ (Delalloc => Delayed')
<1>1. ASSUME NEW i \in Inodes,
             \/ Create(i) \/ TmpFile(i) \/ Link(i) \/ Unlink(i) \/ Open(i) \/ Close(i)
             \/ Write(i) \/ Rewrite(i) \/ Ask(i) \/ HandleFails(i) \/ Proceed(i)
      PROVE  Inv' /\ (Delalloc => Delayed')
  BY <1>1, NamesInv, BlocksInv, CuttingInv DEF Proceed, Finish
<1> QED
  BY <1>1, JbdInv, MountInv, StutterInv DEF Next

-----------------------------------------------------------------------------
(***************************************************************************)
(* The lists of orphans, step by step.                                     *)
(***************************************************************************)

\* Steps on one inode leave the tmpfiles of others.
LEMMA NamelessStep ==
  ASSUME Nameless, NEW i \in Inodes,
         \A j \in Inodes \ {i} : /\ open'[j] = open[j] /\ step'[j] = step[j] /\ fs'.links[j] = fs.links[j]
                                 /\ fs'.size[j] = fs.size[j] /\ fs'.blocks[j] = fs.blocks[j],
         phase' = phase, errors => errors',
         open'[i] = "tmpfile" => /\ phase = "up" /\ fs'.links[i] = 0
                                 /\ ~errors' /\ step'[i] = "idle" => fs'.size[i] = Len(fs'.blocks[i])
  PROVE  Nameless'
BY DEF Nameless

LEMMA SetIs ==
  ASSUME Types, NEW i \in Inodes
  PROVE  /\ \A x : Set(step, i, x)[i] = x /\ \A j \in Inodes \ {i} : Set(step, i, x)[j] = step[j]
         /\ \A x : Set(open, i, x)[i] = x /\ \A j \in Inodes \ {i} : Set(open, i, x)[j] = open[j]
BY DEF Types, Set

LEMMA NamelessNames ==
  ASSUME Inv, Nameless, NEW i \in Inodes,
         Create(i) \/ TmpFile(i) \/ Link(i) \/ Unlink(i) \/ Open(i) \/ Close(i)
  PROVE  Nameless'
<1>1. Forms /\ Types /\ Steps /\ Shaped(fs)
  BY FormsFacts DEF Inv
<1>8. phase' = phase /\ phase = "up" /\ errors' = errors
  BY DEF Create, TmpFile, Link, Unlink, Open, Close, Up
<1>2. CASE Create(i)
  <2>1. /\ Calm /\ step' = step /\ open' = Set(open, i, "open")
        /\ Has(fs', fs.used \cup {i}, [fs.links EXCEPT ![i] = 1], fs.size)
    BY <1>1, <1>2, CreateDoes
  <2>3. /\ fs'.size = fs.size /\ fs'.blocks = fs.blocks
        /\ \A j \in Inodes \ {i} : fs'.links[j] = fs.links[j]
    BY <1>1, <2>1, FormsFacts DEF Has, Calm, SameBlocks
  <2> QED
    BY <1>1, <1>8, <2>1, <2>3, SetIs, NamelessStep
<1>3. CASE TmpFile(i)
  <2>1. /\ Calm /\ step' = step /\ open' = Set(open, i, "tmpfile") /\ i \notin fs.used
        /\ Has(fs', fs.used \cup {i}, fs.links, fs.size)
    BY <1>1, <1>3, TmpFileDoes
  <2>2. fs.links[i] = 0 /\ step[i] = "idle" /\ fs.blocks[i] = <<>> /\ fs.size[i] <= Len(fs.blocks[i]) /\ fs.size[i] \in Nat
    BY <1>1, <1>8, <2>1, FormsFacts DEF Steps
  <2>3. fs.size[i] = Len(fs.blocks[i])
    BY <2>2
  <2> QED
    BY <1>1, <1>8, <2>1, <2>2, <2>3, SetIs, NamelessStep DEF Has, Calm, SameBlocks
<1>4. CASE Link(i)
  <2>1. /\ Calm /\ step' = step /\ open' = Set(open, i, "open")
        /\ Has(fs', fs.used, [fs.links EXCEPT ![i] = 1], fs.size)
    BY <1>1, <1>4, LinkDoes
  <2>3. /\ fs'.size = fs.size /\ fs'.blocks = fs.blocks
        /\ \A j \in Inodes \ {i} : fs'.links[j] = fs.links[j]
    BY <1>1, <2>1, FormsFacts DEF Has, Calm, SameBlocks
  <2> QED
    BY <1>1, <1>8, <2>1, <2>3, SetIs, NamelessStep
<1>5. CASE Unlink(i)
  <2>1. /\ Calm /\ open' = open /\ Goto(i, IF open[i] = "closed" THEN "doomed" ELSE "idle")
        /\ Has(fs', fs.used, [fs.links EXCEPT ![i] = 0], fs.size) /\ fs.links[i] = 1
    BY <1>1, <1>5, UnlinkDoes
  <2>2. open[i] # "tmpfile"
    BY <2>1 DEF Nameless
  <2>3. /\ fs'.size = fs.size /\ fs'.blocks = fs.blocks
        /\ \A j \in Inodes \ {i} : fs'.links[j] = fs.links[j]
    BY <1>1, <2>1, FormsFacts DEF Has, Calm, SameBlocks
  <2> QED
    BY <1>1, <1>8, <2>1, <2>2, <2>3, SetIs, NamelessStep DEF Goto
<1>6. CASE Open(i)
  <2>1. fs' = fs /\ step' = step /\ open' = Set(open, i, "open")
    BY <1>6 DEF Open, view
  <2> QED
    BY <1>1, <1>8, <2>1, SetIs, NamelessStep
<1>7. CASE Close(i)
  <2>1. fs' = fs /\ open' = Set(open, i, "closed") /\ Goto(i, IF fs.links[i] = 0 THEN "doomed" ELSE "idle")
    BY <1>7 DEF Close, view
  <2> QED
    BY <1>1, <1>8, <2>1, SetIs, NamelessStep DEF Goto
<1> QED
  BY <1>2, <1>3, <1>4, <1>5, <1>6, <1>7

LEMMA NamelessBlocks ==
  ASSUME Inv, Nameless, NEW i \in Inodes, Write(i) \/ Rewrite(i) \/ Cut(i)
  PROVE  Nameless'
<1>1. Forms /\ Types /\ Steps
  BY FormsFacts DEF Inv
<1>2. CASE Write(i)
  <2>1. /\ \E b \in Blocks, l \in Blocks \cup {None} :
             /\ Grows(i, b, l)
             /\ dirty' = IF Delalloc THEN dirty ELSE dirty \cup {b}
             /\ inflight' = IF Delalloc THEN inflight \cup {b} ELSE inflight
        /\ UNCHANGED <<open, step, phase, errors>>
    BY <1>1, <1>2, WriteDoes
  <2>2. PICK b \in Blocks, l \in Blocks \cup {None} : Grows(i, b, l)
    BY <2>1
  <2>3. /\ \A j \in Inodes \ {i} : fs'.blocks[j] = fs.blocks[j]
        /\ Len(fs'.blocks[i]) = Len(fs.blocks[i]) + 1
    BY <1>1, <2>2, GrowsBlocks
  <2>4. /\ fs'.links = fs.links /\ \A j \in Inodes \ {i} : fs'.size[j] = fs.size[j]
        /\ step[i] = "idle" => fs'.size[i] = fs.size[i] + 1 /\ fs.size[i] = Len(fs.blocks[i])
    BY <1>1, <2>2, FormsFacts DEF Grows, Has, MayWrite, Idle
  <2>5. open[i] = "tmpfile" => /\ phase = "up" /\ fs.links[i] = 0
                               /\ step[i] = "idle" => fs'.size[i] = Len(fs'.blocks[i])
    BY <2>3, <2>4 DEF Nameless
  <2> QED
    BY <2>1, <2>3, <2>4, <2>5, NamelessStep
<1>3. CASE Rewrite(i)
  <2>1. /\ Calm /\ UNCHANGED <<open, step, phase, errors>>
        /\ Has(fs', fs.used, fs.links, [fs.size EXCEPT ![i] = fs.size[i] + 1])
        /\ fs.size[i] < Len(fs.blocks[i]) /\ step[i] = "idle"
    BY <1>1, <1>3, RewriteDoes
  <2>2. open[i] = "tmpfile" => errors /\ phase = "up" /\ fs.links[i] = 0
    BY <1>1, <2>1, FormsFacts DEF Nameless
  <2> QED
    BY <1>1, <2>1, <2>2, FormsFacts, NamelessStep DEF Has, Calm, SameBlocks
<1>4. CASE Cut(i)
  <2>1. (\E b \in Blocks : Shrinks(i, b)) /\ UNCHANGED <<open, phase, errors>> /\ GoOn(i) /\ step[i] = "cutting"
    BY <1>1, <1>4, CutDoes
  <2>2. PICK b \in Blocks : Shrinks(i, b)
    BY <2>1
  <2>3. \A j \in Inodes \ {i} : fs'.blocks[j] = fs.blocks[j] /\ step'[j] = step[j]
    <3>1. \A j \in Inodes \ {i} : fs'.blocks[j] = fs.blocks[j]
      BY <1>1, <2>2, ShrinksBlocks
    <3>2. \A j \in Inodes \ {i} : step'[j] = step[j]
      BY <1>1, <2>1, GoesOn
    <3> QED
      BY <3>1, <3>2
  <2>4. fs'.links = fs.links /\ fs'.size = fs.size
    BY <2>2 DEF Shrinks, Has
  <2>5. step'[i] # "idle" /\ (open[i] = "tmpfile" => phase = "up" /\ fs.links[i] = 0)
    BY <1>1, <2>1, GoesOn DEF Nameless
  <2> QED
    BY <2>1, <2>3, <2>4, <2>5, NamelessStep
<1> QED
  BY <1>2, <1>3, <1>4

LEMMA NamelessCutting ==
  ASSUME Inv, Nameless, NEW i \in Inodes,
         Ask(i) \/ HandleFails(i) \/ Resize(i) \/ StartCut(i) \/ StartEvict(i) \/ Resume(i) \/ Finish(i)
  PROVE  Nameless'
<1>1. Forms /\ Types /\ Steps
  BY FormsFacts DEF Inv
<1>3. UNCHANGED <<open, phase>> /\ (errors => errors')
  BY DEF Ask, HandleFails, Resize, StartCut, StartEvict, Resume, Finish, FinishCut, FinishEvict, Up, sys
<1>4. \A j \in Inodes \ {i} : step'[j] = step[j]
  <2>1. (\E x : Goto(i, x)) \/ GoOn(i)
    BY DEF Ask, HandleFails, Resize, StartCut, StartEvict, Resume, Finish, FinishCut, FinishEvict
  <2> QED
    BY <1>1, <2>1, GoesOn, SetIs DEF Goto
<1>5. fs'.blocks = fs.blocks /\ fs'.links = fs.links /\ \A j \in Inodes \ {i} : fs'.size[j] = fs.size[j]
  <2>1. CASE Ask(i) \/ HandleFails(i) \/ Resume(i)
    BY <2>1 DEF Ask, HandleFails, Resume, view
  <2>2. CASE Resize(i)
    BY <1>1, <2>2, ResizeDoes, FormsFacts DEF Has, Calm, SameBlocks
  <2>3. CASE StartCut(i)
    BY <1>1, <2>3, StartCutDoes DEF Has, Calm, SameBlocks
  <2>4. CASE StartEvict(i)
    BY <1>1, <2>4, StartEvictDoes, FormsFacts DEF Has, Calm, SameBlocks
  <2>5. CASE Finish(i)
    BY <1>1, <2>5, FinishDoes DEF Has, Calm, SameBlocks
  <2> QED
    BY <2>1, <2>2, <2>3, <2>4, <2>5
<1>6. open[i] = "tmpfile" => phase = "up" /\ fs'.links[i] = 0
  BY <1>5 DEF Nameless
<1>7. ~errors' /\ step'[i] = "idle" => fs'.size[i] = Len(fs'.blocks[i])
  <2>1. CASE Ask(i) \/ Resize(i) \/ Resume(i)
    <3>1. \E x \in {"asked", "sized", "cutting"} : Goto(i, x)
      BY <2>1 DEF Ask, Resize, Resume
    <3> QED
      BY <1>1, <3>1, SetIs DEF Goto
  <2>2. CASE StartCut(i) \/ StartEvict(i)
    BY <1>1, <2>2, GoesOn DEF StartCut, StartEvict
  <2>3. CASE HandleFails(i)
    BY <2>3 DEF HandleFails
  <2>4. CASE Finish(i)
    <3>1. fs'.size = fs.size /\ Len(fs.blocks[i]) <= fs.size[i]
      BY <1>1, <2>4, FinishDoes DEF Has
    <3> QED
      BY <1>1, <1>5, <3>1, FormsFacts
  <2> QED
    BY <2>1, <2>2, <2>3, <2>4
<1> QED
  BY <1>3, <1>4, <1>5, <1>6, <1>7, NamelessStep

LEMMA NamelessNext ==
  ASSUME Inv, Nameless, [Next]_vars PROVE Nameless'
<1>1. Types
  BY FormsFacts DEF Inv
<1>2. ASSUME NEW i \in Inodes,
             \/ Create(i) \/ TmpFile(i) \/ Link(i) \/ Unlink(i) \/ Open(i) \/ Close(i)
             \/ Write(i) \/ Rewrite(i) \/ Ask(i) \/ HandleFails(i) \/ Proceed(i)
      PROVE  Nameless'
  BY <1>2, NamelessNames, NamelessBlocks, NamelessCutting DEF Proceed, Finish
<1>3. CASE (\E b \in Blocks : DataOut(b)) \/ Freeze \/ Commit \/ Mounted \/ UNCHANGED vars
  BY <1>3 DEF DataOut, Freeze, Commit, Mounted, vars, view, mem, sys, Nameless
<1>4. CASE Crash
  BY <1>4 DEF Crash, Nameless, Closed
<1>5. CASE Recover
  <2>1. /\ Still(fs, fs') /\ Calm /\ UNCHANGED <<open, phase, errors>> /\ phase = "recovering"
        /\ ((\E i \in Inodes : Takes(i)) \/ GivesUp)
    BY <1>1, <1>5, RecoverDoes
  <2> QED
    BY <2>1 DEF Nameless
<1> QED
  BY <1>2, <1>3, <1>4, <1>5 DEF Next

LEMMA SpelledSame ==
  ASSUME NEW v, NEW w, NEW s, Spelled(v, s), w.head = v.head, \A j \in Inodes : w.next[j] = v.next[j]
  PROVE  Spelled(w, s)
<1>1. s \in Seq(Inodes) /\ \A n \in 1 .. Len(s) : s[n] \in Inodes
  BY DEF Spelled
<1>2. Spells(v, s) /\ \A j \in Inodes \ Range(s) : v.next[j] = None
  BY DEF Spelled
<1>3. Spells(w, s)
  BY <1>1, <1>2, SpellsIs
<1> QED
  BY <1>1, <1>2, <1>3 DEF Spelled

\* A list that is there starts with the first of its sequence.
LEMMA HeadIs ==
  ASSUME NEW v, NEW s, Spelled(v, s)
  PROVE  /\ s = <<>> => v.head = None
         /\ s # <<>> => 1 \in 1 .. Len(s) /\ v.head = s[1] /\ s[1] \in Range(s) /\ s[1] \in Inodes /\ s[1] # None
<1>1. s \in Seq(Inodes) /\ v.head = IF s = <<>> THEN None ELSE s[1]
  BY SpellsIs DEF Spelled
<1>2. s # <<>> => 1 \in 1 .. Len(s)
  BY <1>1
<1>3. s # <<>> => s[1] \in Inodes /\ s[1] \in Range(s)
  BY <1>1, <1>2 DEF Range
<1> QED
  BY <1>1, <1>2, <1>3, InodesAssumption

\* Whom a list says nothing of is on it only for a reason.
Listless(v, i) == v.links[i] = 1 /\ v.size[i] = Len(v.blocks[i])
LEMMA OnList ==
  ASSUME NEW v, NEW s, Listing(v, s), NEW i \in v.used, ~Listless(v, i)
  PROVE  i \in Range(s)
BY DEF Listing, Done, Listless

\* Steps of users, which change neither commit.
LEMMA UpLists ==
  ASSUME Lists, phase = "up", UNCHANGED <<going, disk, phase, errors>>,
         ~errors => /\ Listing(fs', list')
                    /\ \A j \in Range(list') : step'[j] # "idle" \/ (fs'.links[j] = 0 /\ open'[j] # "closed")
  PROVE  Lists'
BY DEF Lists, ListingUp, ListingAgain, Listable, Listing, Done

LEMMA ListsUp ==
  ASSUME Lists, phase = "up", ~errors
  PROVE  /\ Spelled(fs, list) /\ Done(fs, Range(list)) /\ Listing(fs, list)
         /\ list \in Seq(Inodes) /\ Range(list) \subseteq Inodes
         /\ \A j \in Range(list) : step[j] # "idle" \/ (fs.links[j] = 0 /\ open[j] # "closed")
<1>1. Spelled(fs, list) /\ Done(fs, Range(list)) /\ Listing(fs, list)
  BY DEF Lists, ListingUp, Listing
<1>2. list \in Seq(Inodes)
  BY <1>1 DEF Spelled
<1>3. Range(list) \subseteq Inodes
  BY <1>2 DEF Range
<1> QED
  BY <1>1, <1>2, <1>3 DEF Lists, ListingUp

LEMMA CreateLists ==
  ASSUME Inv, Lists, NEW i \in Inodes, Create(i) PROVE Lists'
<1>1. Forms /\ Types /\ Steps
  BY FormsFacts DEF Inv
<1>2. /\ Calm /\ UNCHANGED <<list, step, phase, errors>>
      /\ Has(fs', fs.used \cup {i}, [fs.links EXCEPT ![i] = 1], fs.size)
      /\ fs'.head = fs.head /\ fs'.next = [fs.next EXCEPT ![i] = None]
      /\ open' = Set(open, i, "open") /\ i \notin fs.used /\ phase = "up"
  BY <1>1, CreateDoes
<1>3. /\ fs'.links[i] = 1 /\ (\A j \in Inodes \ {i} : fs'.links[j] = fs.links[j])
      /\ fs'.size = fs.size /\ fs'.blocks = fs.blocks /\ fs'.used = fs.used \cup {i}
  BY <1>1, <1>2, FormsFacts DEF Has, Calm, SameBlocks
<1>4. fs.size[i] = Len(fs.blocks[i])
  <2>1. fs.blocks[i] = <<>> /\ fs.size[i] <= Len(fs.blocks[i]) /\ fs.size[i] \in Nat
    BY <1>1, <1>2, FormsFacts
  <2> QED
    BY <2>1
<1>5. ASSUME ~errors
      PROVE  /\ Listing(fs', list')
             /\ \A j \in Range(list') : step'[j] # "idle" \/ (fs'.links[j] = 0 /\ open'[j] # "closed")
  <2>1. /\ Spelled(fs, list) /\ Done(fs, Range(list)) /\ Range(list) \subseteq Inodes
        /\ \A j \in Range(list) : step[j] # "idle" \/ (fs.links[j] = 0 /\ open[j] # "closed")
    BY <1>2, <1>5, ListsUp
  <2>2. i \notin Range(list)
    BY <1>2, <2>1 DEF Done
  <2>3. \A j \in Inodes : fs'.next[j] = fs.next[j]
    BY <1>1, <1>2, <2>1, <2>2 DEF Spelled, Types, FsViews
  <2>4. Spelled(fs', list)
    <3>1. fs'.head = fs.head /\ Spelled(fs, list)
      BY <1>2, <2>1
    <3> QED
      BY <2>3, <3>1, SpelledSame
  <2>5. Done(fs', Range(list))
    BY <1>1, <1>3, <1>4, <2>1 DEF Done, Types, FsViews
  <2>6. \A j \in Range(list) : fs'.links[j] = fs.links[j] /\ open'[j] = open[j] /\ step'[j] = step[j]
    BY <1>1, <1>2, <1>3, <2>1, <2>2, SetIs
  <2> QED
    BY <1>2, <2>1, <2>4, <2>5, <2>6 DEF Listing
<1> QED
  BY <1>2, <1>5, UpLists DEF Calm

LEMMA TmpFileLists ==
  ASSUME Inv, Lists, NEW i \in Inodes, TmpFile(i) PROVE Lists'
<1>1. Forms /\ Types /\ Steps
  BY FormsFacts DEF Inv
<1>2. /\ Calm /\ UNCHANGED <<step, phase, errors>>
      /\ Has(fs', fs.used \cup {i}, fs.links, fs.size)
      /\ open' = Set(open, i, "tmpfile") /\ i \notin fs.used /\ phase = "up"
  BY <1>1, TmpFileDoes
<1>3. PICK v \in FsViews :
        /\ v.head = fs.head /\ v.next = [fs.next EXCEPT ![i] = None]
        /\ fs' = AddOrphan(v, list, i) /\ list' = Listed(list, i)
  BY <1>1, TmpFileDoes
<1>4. /\ fs'.links = fs.links /\ fs'.size = fs.size /\ fs'.blocks = fs.blocks /\ fs'.used = fs.used \cup {i}
      /\ fs.links[i] = 0 /\ step[i] = "idle"
  BY <1>1, <1>2, FormsFacts DEF Has, Calm, SameBlocks, Steps
<1>5. ASSUME ~errors
      PROVE  /\ Listing(fs', list')
             /\ \A j \in Range(list') : step'[j] # "idle" \/ (fs'.links[j] = 0 /\ open'[j] # "closed")
  <2>1. /\ Spelled(fs, list) /\ Done(fs, Range(list)) /\ Range(list) \subseteq Inodes /\ list \in Seq(Inodes)
        /\ \A j \in Range(list) : step[j] # "idle" \/ (fs.links[j] = 0 /\ open[j] # "closed")
    BY <1>2, <1>5, ListsUp
  <2>2. i \notin Range(list)
    BY <1>2, <2>1 DEF Done
  <2>3. \A j \in Inodes : v.next[j] = fs.next[j]
    BY <1>1, <1>3, <2>1, <2>2 DEF Spelled, Types, FsViews
  <2>4. Spelled(v, list)
    <3>1. v.head = fs.head /\ Spelled(fs, list)
      BY <1>3, <2>1
    <3> QED
      BY <2>3, <3>1, SpelledSame
  <2>5. Spelled(fs', list')
    BY <1>3, <2>4, SpelledAdd
  <2>6. Range(list') = Range(list) \cup {i}
    BY <1>1, <1>3, FormsFacts, ListedKeeps
  <2>7. Done(fs', Range(list'))
    BY <1>4, <2>1, <2>6 DEF Done
  <2>8. \A j \in Range(list) : open'[j] = open[j]
    BY <1>1, <1>2, <2>1, <2>2, SetIs
  <2>9. open'[i] = "tmpfile"
    BY <1>1, <1>2, SetIs
  <2> QED
    BY <1>2, <1>4, <2>1, <2>5, <2>6, <2>7, <2>8, <2>9 DEF Listing
<1> QED
  BY <1>2, <1>5, UpLists DEF Calm

LEMMA LinkLists ==
  ASSUME Inv, Nameless, Lists, NEW i \in Inodes, Link(i) PROVE Lists'
<1>1. Forms /\ Types /\ Steps
  BY FormsFacts DEF Inv
<1>2. /\ Calm /\ UNCHANGED <<step, phase, errors>>
      /\ Has(fs', fs.used, [fs.links EXCEPT ![i] = 1], fs.size)
      /\ open' = Set(open, i, "open") /\ i \in fs.used /\ step[i] = "idle" /\ phase = "up"
  BY <1>1, LinkDoes
<1>3. PICK v \in FsViews :
        /\ v.head = fs.head /\ v.next = fs.next
        /\ fs' = DelOrphan(v, list, i) /\ list' = Unlisted(list, i)
  BY <1>1, LinkDoes
<1>4. /\ fs'.links[i] = 1 /\ (\A j \in Inodes \ {i} : fs'.links[j] = fs.links[j])
      /\ fs'.size = fs.size /\ fs'.blocks = fs.blocks /\ fs'.used = fs.used
  BY <1>1, <1>2, FormsFacts DEF Has, Calm, SameBlocks
<1>5. ~errors => fs.size[i] = Len(fs.blocks[i])
  BY DEF Link, Idle, Nameless
<1>6. ASSUME ~errors
      PROVE  /\ Listing(fs', list')
             /\ \A j \in Range(list') : step'[j] # "idle" \/ (fs'.links[j] = 0 /\ open'[j] # "closed")
  <2>1. /\ Spelled(fs, list) /\ Done(fs, Range(list)) /\ Range(list) \subseteq Inodes /\ list \in Seq(Inodes)
        /\ \A j \in Range(list) : step[j] # "idle" \/ (fs.links[j] = 0 /\ open[j] # "closed")
    BY <1>2, <1>6, ListsUp
  <2>2. Spelled(v, list)
    BY <1>3, <2>1, SpelledSame
  <2>3. Spelled(fs', list')
    BY <1>3, <2>2, SpelledDel
  <2>4. Range(list') = Range(list) \ {i}
    BY <1>1, <1>3, FormsFacts, UnlistedKeeps
  <2>5. Done(fs', Range(list'))
    BY <1>1, <1>4, <1>5, <1>6, <2>1, <2>4 DEF Done, Types, FsViews
  <2>6. \A j \in Range(list') : fs'.links[j] = fs.links[j] /\ open'[j] = open[j] /\ step'[j] = step[j]
    BY <1>1, <1>2, <1>4, <2>1, <2>4, SetIs
  <2> QED
    BY <2>1, <2>3, <2>4, <2>5, <2>6 DEF Listing
<1> QED
  BY <1>2, <1>6, UpLists DEF Calm

LEMMA UnlinkLists ==
  ASSUME Inv, Lists, NEW i \in Inodes, Unlink(i) PROVE Lists'
<1>1. Forms /\ Types /\ Steps
  BY FormsFacts DEF Inv
<1>2. /\ Calm /\ UNCHANGED <<open, phase, errors>>
      /\ Has(fs', fs.used, [fs.links EXCEPT ![i] = 0], fs.size)
      /\ Goto(i, IF open[i] = "closed" THEN "doomed" ELSE "idle")
      /\ i \in fs.used /\ phase = "up"
  BY <1>1, UnlinkDoes
<1>3. PICK v \in FsViews :
        /\ v.head = fs.head /\ v.next = fs.next
        /\ fs' = AddOrphan(v, list, i) /\ list' = Listed(list, i)
  BY <1>1, UnlinkDoes
<1>4. /\ fs'.links[i] = 0 /\ (\A j \in Inodes \ {i} : fs'.links[j] = fs.links[j])
      /\ fs'.size = fs.size /\ fs'.blocks = fs.blocks /\ fs'.used = fs.used
  BY <1>1, <1>2, FormsFacts DEF Has, Calm, SameBlocks
<1>5. /\ step'[i] = (IF open[i] = "closed" THEN "doomed" ELSE "idle")
      /\ \A j \in Inodes \ {i} : step'[j] = step[j]
  BY <1>1, <1>2, SetIs DEF Goto
<1>6. ASSUME ~errors
      PROVE  /\ Listing(fs', list')
             /\ \A j \in Range(list') : step'[j] # "idle" \/ (fs'.links[j] = 0 /\ open'[j] # "closed")
  <2>1. /\ Spelled(fs, list) /\ Done(fs, Range(list)) /\ Range(list) \subseteq Inodes /\ list \in Seq(Inodes)
        /\ \A j \in Range(list) : step[j] # "idle" \/ (fs.links[j] = 0 /\ open[j] # "closed")
    BY <1>2, <1>6, ListsUp
  <2>2. Spelled(v, list)
    BY <1>3, <2>1, SpelledSame
  <2>3. Spelled(fs', list')
    BY <1>3, <2>2, SpelledAdd
  <2>4. Range(list') = Range(list) \cup {i}
    BY <1>1, <1>3, FormsFacts, ListedKeeps
  <2>5. Done(fs', Range(list'))
    BY <1>1, <1>2, <1>4, <2>1, <2>4 DEF Done, Types, FsViews
  <2>6. \A j \in Range(list) \ {i} : step'[j] = step[j] /\ fs'.links[j] = fs.links[j]
    BY <1>4, <1>5, <2>1
  <2> QED
    BY <1>2, <1>4, <1>5, <2>1, <2>3, <2>4, <2>5, <2>6 DEF Listing
<1> QED
  BY <1>2, <1>6, UpLists DEF Calm

\* Open, Close and Ask change no file.
LEMMA StillLists ==
  ASSUME Inv, Lists, NEW i \in Inodes, Open(i) \/ Close(i) \/ Ask(i) PROVE Lists'
<1>1. Types
  BY FormsFacts DEF Inv
<1>2. /\ UNCHANGED <<fs, going, disk, list, phase, errors>> /\ phase = "up" /\ step[i] = "idle"
      /\ \/ step' = step /\ fs.links[i] = 1 /\ open' = Set(open, i, "open")
         \/ Goto(i, IF fs.links[i] = 0 THEN "doomed" ELSE "idle") /\ open' = Set(open, i, "closed")
         \/ Goto(i, "asked") /\ open' = open
  BY DEF Open, Close, Ask, Up, Idle, view
<1>3. ASSUME ~errors
      PROVE  /\ Listing(fs', list')
             /\ \A j \in Range(list') : step'[j] # "idle" \/ (fs'.links[j] = 0 /\ open'[j] # "closed")
  <2>1. /\ Listing(fs, list) /\ Range(list) \subseteq Inodes
        /\ \A j \in Range(list) : step[j] # "idle" \/ (fs.links[j] = 0 /\ open[j] # "closed")
    BY <1>2, <1>3, ListsUp
  <2>2. \A j \in Range(list) : step'[j] # "idle" \/ (fs.links[j] = 0 /\ open'[j] # "closed")
    BY <1>1, <1>2, <2>1, SetIs DEF Goto
  <2> QED
    BY <1>2, <2>1, <2>2
<1> QED
  BY <1>2, <1>3, UpLists

\* What a step on the inode i does to none of the others.
Alone(i) ==
    /\ fs'.used = fs.used
    /\ \A j \in Inodes \ {i} : /\ fs'.links[j] = fs.links[j] /\ step'[j] = step[j]
                               /\ Listless(fs, j) => Listless(fs', j)

LEMMA DoneStill ==
  ASSUME Types, NEW i \in Inodes, Alone(i), NEW S, Done(fs, S), i \in S \/ Listless(fs', i)
  PROVE  Done(fs', S)
<1>1. fs.used \subseteq Inodes
  BY DEF Types, FsViews
<1>2. S \subseteq fs'.used
  BY DEF Done, Alone
<1>3. ASSUME NEW j \in fs'.used \ S PROVE Listless(fs', j)
  <2>1. CASE j = i
    BY <1>3, <2>1
  <2>2. CASE j # i
    <3>1. j \in Inodes \ {i} /\ j \in fs.used \ S
      BY <1>1, <1>3, <2>2 DEF Alone
    <3>2. Listless(fs, j)
      BY <3>1 DEF Done, Listless
    <3> QED
      BY <3>1, <3>2 DEF Alone
  <2> QED
    BY <2>1, <2>2
<1> QED
  BY <1>2, <1>3 DEF Done, Listless

\* Steps that change no list.
LEMMA SameLists ==
  ASSUME Types, Lists, UNCHANGED <<going, disk, list, open, phase, errors>>,
         fs'.head = fs.head, \A j \in Inodes : fs'.next[j] = fs.next[j],
         NEW i \in Inodes, i \in fs.used, Alone(i), fs'.links[i] = fs.links[i],
         Listless(fs, i) => Listless(fs', i),
         step'[i] = "idle" <=> step[i] = "idle"
  PROVE  Lists'
<1>1. ASSUME NEW s, Listing(fs, s) PROVE Listing(fs', s)
  <2>1. Spelled(fs, s) /\ Done(fs, Range(s))
    BY <1>1 DEF Listing
  <2>2. Spelled(fs', s)
    BY <2>1, SpelledSame
  <2>3. i \in Range(s) \/ Listless(fs', i)
    BY <1>1, OnList
  <2>4. Done(fs', Range(s))
    BY <2>1, <2>3, DoneStill
  <2> QED
    BY <2>2, <2>4 DEF Listing
<1>2. ASSUME ~errors PROVE ListingUp'
  <2> SUFFICES ASSUME phase = "up" PROVE ListingUp'
    BY DEF ListingUp
  <2>1. /\ Listing(fs, list) /\ Range(list) \subseteq Inodes
        /\ \A j \in Range(list) : step[j] # "idle" \/ (fs.links[j] = 0 /\ open[j] # "closed")
    BY <1>2, ListsUp
  <2>2. Listing(fs', list)
    BY <1>1, <2>1
  <2>3. \A j \in Range(list) : step'[j] # "idle" \/ (fs'.links[j] = 0 /\ open[j] # "closed")
    BY <2>1 DEF Alone
  <2> QED
    BY <2>2, <2>3 DEF ListingUp, Listing, Done
<1>3. ASSUME ~errors PROVE ListingAgain'
  <2> SUFFICES ASSUME phase = "recovering" PROVE ListingAgain'
    BY DEF ListingAgain
  <2>1. /\ Listable(fs) /\ (step = AllIdle => list = <<>>)
        /\ \A j \in Inodes : step[j] # "idle" => list = <<j>> /\ fs.head = j
    BY <1>3 DEF Lists, ListingAgain
  <2>2. Listable(fs')
    BY <1>1, <2>1 DEF Listable
  <2>3. \A j \in Inodes : step'[j] # "idle" => step[j] # "idle"
    BY DEF Alone
  <2>4. step' = AllIdle => step = AllIdle
    <3>1. ASSUME step' = AllIdle PROVE \A j \in Inodes : step[j] = "idle"
      BY <3>1 DEF Alone, AllIdle
    <3>2. step \in [Inodes -> {"idle", "asked", "sized", "doomed", "cutting", "paused"}]
      BY DEF Types
    <3> QED
      BY <3>1, <3>2 DEF AllIdle
  <2>5. Listable(fs)' /\ list' = list /\ fs'.head = fs.head
    BY <2>2 DEF Listable, Listing, Done, Spelled, Spells
  <2> QED
    BY <2>1, <2>3, <2>4, <2>5 DEF ListingAgain
<1>4. ~errors => Listable(going)' /\ Listable(disk)'
  BY DEF Lists, Listable, Listing, Done
<1> QED
  BY <1>2, <1>3, <1>4 DEF Lists

\* Steps that put an inode on the list.
LEMMA AddedLists ==
  ASSUME Types, Lists, phase = "up", UNCHANGED <<going, disk, open, phase, errors>>,
         NEW i \in Inodes, i \in fs.used, Alone(i), step'[i] # "idle",
         NEW v \in FsViews, v.head = fs.head, v.next = fs.next,
         fs' = AddOrphan(v, list, i), list' = Listed(list, i)
  PROVE  Lists'
<1>1. ASSUME ~errors
      PROVE  /\ Listing(fs', list')
             /\ \A j \in Range(list') : step'[j] # "idle" \/ (fs'.links[j] = 0 /\ open'[j] # "closed")
  <2>1. /\ Spelled(fs, list) /\ Done(fs, Range(list)) /\ Range(list) \subseteq Inodes /\ list \in Seq(Inodes)
        /\ \A j \in Range(list) : step[j] # "idle" \/ (fs.links[j] = 0 /\ open[j] # "closed")
    BY <1>1, ListsUp
  <2>2. Spelled(v, list)
    BY <2>1, SpelledSame
  <2>3. Spelled(fs', list')
    BY <2>2, SpelledAdd
  <2>4. Range(list') = Range(list) \cup {i}
    BY <2>1, ListedKeeps DEF Types
  <2>5. Done(fs, Range(list'))
    BY <2>1, <2>4 DEF Done
  <2>6. Done(fs', Range(list'))
    BY <2>4, <2>5, DoneStill
  <2>7. \A j \in Range(list) \ {i} : step'[j] = step[j] /\ fs'.links[j] = fs.links[j]
    BY <2>1 DEF Alone
  <2> QED
    BY <2>1, <2>3, <2>4, <2>6, <2>7 DEF Listing
<1> QED
  BY <1>1, UpLists

LEMMA ResizeLists ==
  ASSUME Inv, Lists, NEW i \in Inodes, Resize(i) PROVE Lists'
<1>1. Forms /\ Types /\ Steps
  BY FormsFacts DEF Inv
<1>2. /\ Calm /\ UNCHANGED <<open, phase, errors>>
      /\ Has(fs', fs.used, fs.links, [fs.size EXCEPT ![i] = target[i]])
      /\ Goto(i, "sized") /\ step[i] = "asked"
  BY <1>1, ResizeDoes
<1>3. PICK v \in FsViews :
        /\ v.head = fs.head /\ v.next = fs.next
        /\ fs' = AddOrphan(v, list, i) /\ list' = Listed(list, i)
  BY <1>1, ResizeDoes
<1>4. i \in fs.used /\ phase = "up"
  BY <1>1, <1>2 DEF Steps
<1>5. step'[i] = "sized" /\ \A j \in Inodes \ {i} : step'[j] = step[j]
  BY <1>1, <1>2, SetIs DEF Goto
<1>6. fs'.used = fs.used /\ fs'.links = fs.links /\ fs'.blocks = fs.blocks
      /\ \A j \in Inodes \ {i} : fs'.size[j] = fs.size[j]
  BY <1>1, <1>2, FormsFacts DEF Has, Calm, SameBlocks
<1>7. Alone(i)
  BY <1>5, <1>6 DEF Alone, Listless
<1>8. UNCHANGED <<going, disk, open, phase, errors>>
  BY <1>2 DEF Calm
<1> QED
  BY <1>1, <1>3, <1>4, <1>5, <1>7, <1>8, AddedLists

\* An inode that orphan cleanup works on is alone on the list in memory.
LEMMA CleanupIs ==
  ASSUME Types, Lists, ~errors, phase = "recovering", NEW i \in Inodes, step[i] # "idle"
  PROVE  list = <<i>> /\ fs.head = i /\ i \in Range(list) /\ Range(list) = {i}
<1>1. list = <<i>> /\ fs.head = i
  BY DEF Lists, ListingAgain
<1>2. Range(<<i>>) = {i}
  BY DEF Range
<1> QED
  BY <1>1, <1>2

LEMMA StartCutLists ==
  ASSUME Inv, Lists, NEW i \in Inodes, StartCut(i) PROVE Lists'
<1>1. Forms /\ Types /\ Steps
  BY FormsFacts DEF Inv
<1>2. /\ Calm /\ UNCHANGED <<open, phase, errors>> /\ Has(fs', fs.used, fs.links, fs.size)
      /\ fs' = AddOrphan(fs, list, i) /\ list' = Listed(list, i) /\ GoOn(i) /\ step[i] = "sized"
  BY <1>1, StartCutDoes
<1>3. step'[i] # "idle" /\ \A j \in Inodes \ {i} : step'[j] = step[j]
  BY <1>1, <1>2, GoesOn
<1>4. i \in fs.used /\ fs \in FsViews
  BY <1>1, <1>2 DEF Steps, Types
<1>5. fs'.used = fs.used /\ fs'.links = fs.links /\ fs'.blocks = fs.blocks /\ fs'.size = fs.size
  BY <1>2 DEF Has, Calm, SameBlocks
<1>6. Alone(i)
  BY <1>3, <1>5 DEF Alone, Listless
<1>7. UNCHANGED <<going, disk, open, phase, errors>>
  BY <1>2 DEF Calm
<1>8. CASE phase = "up"
  BY <1>1, <1>2, <1>3, <1>4, <1>6, <1>7, <1>8, AddedLists
<1>9. CASE phase = "recovering" /\ ~errors
  <2>1. i \in Range(list)
    BY <1>1, <1>2, <1>9, CleanupIs
  <2>2. fs' = fs /\ list' = list
    BY <1>2, <2>1 DEF AddOrphan, Listed
  <2>3. fs'.head = fs.head /\ fs'.next = fs.next /\ Listless(fs, i) => Listless(fs', i)
    BY <2>2
  <2> QED
    BY <1>1, <1>2, <1>3, <1>4, <1>6, <1>7, <2>2, <2>3, SameLists
<1>10. CASE errors
  BY <1>7, <1>10 DEF Lists
<1> QED
  BY <1>1, <1>8, <1>9, <1>10 DEF Types

LEMMA StartEvictLists ==
  ASSUME Inv, Lists, NEW i \in Inodes, StartEvict(i) PROVE Lists'
<1>1. Forms /\ Types /\ Steps
  BY FormsFacts DEF Inv
<1>2. /\ Calm /\ UNCHANGED <<list, open, phase, errors>>
      /\ Has(fs', fs.used, fs.links, [fs.size EXCEPT ![i] = 0])
      /\ fs'.head = fs.head /\ fs'.next = fs.next /\ GoOn(i) /\ step[i] = "doomed"
  BY <1>1, StartEvictDoes
<1>3. step'[i] # "idle" /\ \A j \in Inodes \ {i} : step'[j] = step[j]
  BY <1>1, <1>2, GoesOn
<1>4. i \in fs.used /\ fs.links[i] # 1
  BY <1>1, <1>2 DEF Steps, InUse
<1>5. fs'.used = fs.used /\ fs'.links = fs.links /\ fs'.blocks = fs.blocks
      /\ \A j \in Inodes \ {i} : fs'.size[j] = fs.size[j]
  BY <1>1, <1>2, FormsFacts DEF Has, Calm, SameBlocks
<1>6. Alone(i)
  BY <1>3, <1>5 DEF Alone, Listless
<1>7. UNCHANGED <<going, disk, list, open, phase, errors>>
  BY <1>2 DEF Calm
<1>8. ~Listless(fs, i)
  BY <1>4 DEF Listless
<1>9. fs'.links[i] = fs.links[i] /\ \A j \in Inodes : fs'.next[j] = fs.next[j]
  BY <1>2, <1>5
<1> QED
  BY <1>1, <1>2, <1>3, <1>4, <1>6, <1>7, <1>8, <1>9, SameLists

LEMMA RewriteLists ==
  ASSUME Inv, Lists, NEW i \in Inodes, Rewrite(i) PROVE Lists'
<1>1. Forms /\ Types /\ Steps
  BY FormsFacts DEF Inv
<1>2. /\ Calm /\ UNCHANGED <<list, open, step, phase, errors>>
      /\ Has(fs', fs.used, fs.links, [fs.size EXCEPT ![i] = fs.size[i] + 1])
      /\ fs'.head = fs.head /\ fs'.next = fs.next /\ fs.size[i] < Len(fs.blocks[i])
      /\ i \in fs.used /\ step[i] = "idle"
  BY <1>1, RewriteDoes
<1>3. fs'.used = fs.used /\ fs'.links = fs.links /\ fs'.blocks = fs.blocks
      /\ \A j \in Inodes \ {i} : fs'.size[j] = fs.size[j]
  BY <1>1, <1>2, FormsFacts DEF Has, Calm, SameBlocks
<1>4. Alone(i)
  BY <1>2, <1>3 DEF Alone, Listless
<1>5. UNCHANGED <<going, disk, list, open, phase, errors>>
  BY <1>2 DEF Calm
<1>6. ~Listless(fs, i)
  <2>1. fs.size[i] \in Nat /\ Len(fs.blocks[i]) \in Nat /\ fs.size[i] < Len(fs.blocks[i])
    BY <1>1, <1>2, FormsFacts
  <2> QED
    BY <2>1 DEF Listless
<1>7. fs'.links[i] = fs.links[i] /\ \A j \in Inodes : fs'.next[j] = fs.next[j]
  BY <1>2, <1>3
<1> QED
  BY <1>1, <1>2, <1>4, <1>5, <1>6, <1>7, SameLists

LEMMA WriteLists ==
  ASSUME Inv, Marked, Lists, NEW i \in Inodes, Write(i) PROVE Lists'
<1>1. Forms /\ Types /\ Steps
  BY FormsFacts DEF Inv
<1>2. /\ UNCHANGED <<going, disk, list, open, step, phase, errors>>
      /\ phase = "up"
  BY <1>1, WriteDoes
<1>3. PICK b \in Blocks, l \in Blocks \cup {None} : Grows(i, b, l)
  BY <1>1, WriteDoes
<1>4. /\ \A j \in Inodes \ {i} : fs'.blocks[j] = fs.blocks[j]
      /\ Len(fs'.blocks[i]) = Len(fs.blocks[i]) + 1
  BY <1>1, <1>3, GrowsBlocks
<1>5. /\ fs'.head = fs.head /\ fs'.next = fs.next
      /\ step[i] # "sized" => fs.size[i] = Len(fs.blocks[i]) /\ fs'.size[i] = fs.size[i] + 1
      /\ i \in fs.used
  BY <1>1, <1>3, FormsFacts DEF Grows, Has, MayWrite, Idle, Steps
<1>6. fs'.used = fs.used /\ fs'.links = fs.links /\ \A j \in Inodes \ {i} : fs'.size[j] = fs.size[j]
  BY <1>1, <1>3, FormsFacts DEF Grows, Has
<1>7. Alone(i)
  BY <1>2, <1>4, <1>6 DEF Alone, Listless
<1>8. step[i] # "sized" /\ Listless(fs, i) => Listless(fs', i)
  BY <1>4, <1>5, <1>6 DEF Listless
<1>9. fs'.links[i] = fs.links[i] /\ \A j \in Inodes : fs'.next[j] = fs.next[j]
  BY <1>5, <1>6
<1>10. CASE step[i] # "sized"
  BY <1>1, <1>2, <1>5, <1>7, <1>8, <1>9, <1>10, SameLists
<1>11. CASE step[i] = "sized"
  <2>1. ASSUME ~errors
        PROVE  /\ Listing(fs', list')
               /\ \A j \in Range(list') : step'[j] # "idle" \/ (fs'.links[j] = 0 /\ open'[j] # "closed")
    <3>1. /\ Spelled(fs, list) /\ Done(fs, Range(list))
          /\ \A j \in Range(list) : step[j] # "idle" \/ (fs.links[j] = 0 /\ open[j] # "closed")
      BY <1>2, <2>1, ListsUp
    <3>2. i \in Range(list)
      BY <1>2, <1>11, <2>1 DEF Marked
    <3>3. Spelled(fs', list)
      BY <1>5, <1>9, <3>1, SpelledSame
    <3>4. Done(fs', Range(list))
      BY <1>1, <1>7, <3>1, <3>2, DoneStill
    <3> QED
      BY <1>2, <1>6, <3>1, <3>3, <3>4 DEF Listing
  <2> QED
    BY <1>2, <2>1, UpLists
<1> QED
  BY <1>10, <1>11

LEMMA CutLists ==
  ASSUME Inv, Lists, NEW i \in Inodes, Cut(i) PROVE Lists'
<1>1. Forms /\ Types /\ Steps
  BY FormsFacts DEF Inv
<1>2. /\ UNCHANGED <<going, disk, list, open, phase, errors>> /\ GoOn(i) /\ step[i] = "cutting"
  BY <1>1, CutDoes
<1>3. PICK b \in Blocks : Shrinks(i, b)
  BY <1>1, CutDoes
<1>4. \A j \in Inodes \ {i} : fs'.blocks[j] = fs.blocks[j]
  BY <1>1, <1>3, ShrinksBlocks
<1>5. /\ Has(fs', fs.used, fs.links, fs.size)
      /\ fs'.head = fs.head /\ fs'.next = fs.next /\ fs.size[i] < Len(fs.blocks[i])
  BY <1>3 DEF Shrinks
<1>6. fs'.used = fs.used /\ fs'.links = fs.links /\ fs'.size = fs.size
  BY <1>5 DEF Has
<1>7. step'[i] # "idle" /\ \A j \in Inodes \ {i} : step'[j] = step[j]
  BY <1>1, <1>2, GoesOn
<1>8. Alone(i)
  BY <1>4, <1>6, <1>7 DEF Alone, Listless
<1>9. ~Listless(fs, i)
  <2>1. fs.size[i] \in Nat /\ Len(fs.blocks[i]) \in Nat /\ fs.size[i] < Len(fs.blocks[i])
    BY <1>1, <1>5, FormsFacts
  <2> QED
    BY <2>1 DEF Listless
<1>10. fs'.links[i] = fs.links[i] /\ \A j \in Inodes : fs'.next[j] = fs.next[j]
  BY <1>5, <1>6
<1>11. i \in fs.used
  BY <1>1, <1>2 DEF Steps
<1> QED
  BY <1>1, <1>2, <1>5, <1>7, <1>8, <1>9, <1>10, <1>11, SameLists

LEMMA ResumeLists ==
  ASSUME Inv, Lists, NEW i \in Inodes, Resume(i) PROVE Lists'
<1>1. Forms /\ Types /\ Steps
  BY FormsFacts DEF Inv
<1>2. UNCHANGED <<fs, going, disk, list, open, phase, errors>> /\ Goto(i, "cutting") /\ step[i] = "paused"
  BY DEF Resume, view, sys
<1>3. step'[i] # "idle" /\ \A j \in Inodes \ {i} : step'[j] = step[j]
  BY <1>1, <1>2, SetIs DEF Goto
<1>4. i \in fs.used
  BY <1>1, <1>2 DEF Steps
<1>5. Alone(i) /\ Listless(fs, i) => Listless(fs', i)
  BY <1>2, <1>3 DEF Alone, Listless
<1>6. Alone(i)
  BY <1>2, <1>3 DEF Alone, Listless
<1>7. UNCHANGED <<going, disk, list, open, phase, errors>> /\ fs'.links[i] = fs.links[i]
      /\ fs'.head = fs.head /\ \A j \in Inodes : fs'.next[j] = fs.next[j]
  BY <1>2
<1> QED
  BY <1>1, <1>2, <1>3, <1>4, <1>5, <1>6, <1>7, SameLists

LEMMA HandleFailsLists ==
  ASSUME NEW i \in Inodes, HandleFails(i) PROVE Lists'
BY DEF HandleFails, Lists

\* The end of a truncation takes the inode from the list, unless it keeps its place.
LEMMA FinishLists ==
  ASSUME Inv, Lists, NEW i \in Inodes, Finish(i) PROVE Lists'
<1>1. Forms /\ Types /\ Steps
  BY FormsFacts DEF Inv
<1>0. /\ Calm /\ UNCHANGED <<open, phase, errors>>
      /\ Has(fs', IF InUse(i) THEN fs.used ELSE fs.used \ {i}, fs.links, fs.size)
      /\ Keeps(i) => fs' = fs /\ list' = list
      /\ ~Keeps(i) => /\ fs'.head = DelOrphan(fs, list, i).head
                      /\ fs'.next = DelOrphan(fs, list, i).next /\ list' = Unlisted(list, i)
      /\ Goto(i, "idle") /\ step[i] = "cutting" /\ Len(fs.blocks[i]) <= fs.size[i]
  BY <1>1, FinishDoes
<1>3. step'[i] = "idle" /\ \A j \in Inodes \ {i} : step'[j] = step[j]
  BY <1>0, <1>1, SetIs DEF Goto
<1>12. CASE Keeps(i)
  <2>1. fs' = fs /\ list' = list /\ fs.links[i] = 0 /\ open[i] # "closed"
    BY <1>0, <1>1, <1>12, FormsFacts DEF Keeps, InUse
  <2>2. phase = "up"
    BY <1>1, <2>1 DEF Steps, Types
  <2>3. ASSUME ~errors
        PROVE  /\ Listing(fs', list')
               /\ \A j \in Range(list') : step'[j] # "idle" \/ (fs'.links[j] = 0 /\ open'[j] # "closed")
    <3>1. /\ Listing(fs, list) /\ Range(list) \subseteq Inodes
          /\ \A j \in Range(list) : step[j] # "idle" \/ (fs.links[j] = 0 /\ open[j] # "closed")
      BY <2>2, <2>3, ListsUp
    <3> QED
      BY <1>0, <1>3, <2>1, <3>1
  <2> QED
    BY <1>0, <2>2, <2>3, UpLists DEF Calm
<1> SUFFICES ASSUME ~Keeps(i) PROVE Lists'
  BY <1>12
<1>2. /\ Calm /\ UNCHANGED <<open, phase, errors>>
      /\ Has(fs', IF fs.links[i] = 1 THEN fs.used ELSE fs.used \ {i}, fs.links, fs.size)
      /\ fs'.head = DelOrphan(fs, list, i).head /\ fs'.next = DelOrphan(fs, list, i).next
      /\ list' = Unlisted(list, i)
      /\ Goto(i, "idle") /\ step[i] = "cutting" /\ Len(fs.blocks[i]) <= fs.size[i]
  BY <1>0 DEF Keeps, InUse
<1>4. /\ fs'.used = (IF fs.links[i] = 1 THEN fs.used ELSE fs.used \ {i})
      /\ fs'.links = fs.links /\ fs'.size = fs.size /\ fs'.blocks = fs.blocks
  BY <1>2 DEF Has, Calm, SameBlocks
<1>5. fs.size[i] = Len(fs.blocks[i])
  <2>1. fs.size[i] \in Nat /\ Len(fs.blocks[i]) \in Nat /\ fs.size[i] <= Len(fs.blocks[i]) /\ Len(fs.blocks[i]) <= fs.size[i]
    BY <1>1, <1>2, FormsFacts
  <2> QED
    BY <2>1
<1>6. fs.used \subseteq Inodes /\ fs \in FsViews
  BY <1>1 DEF Types, FsViews
<1>7. ASSUME NEW s, Listing(fs, s), DelOrphan(fs, list, i) = DelOrphan(fs, s, i)
      PROVE  Listing(fs', Unlisted(s, i)) /\ Range(Unlisted(s, i)) = Range(s) \ {i}
  <2>1. Spelled(fs, s) /\ Done(fs, Range(s)) /\ s \in Seq(Inodes) /\ IsInjective(s)
    BY <1>7 DEF Listing, Spelled
  <2>2. Spelled(DelOrphan(fs, s, i), Unlisted(s, i))
    BY <1>6, <2>1, SpelledDel
  <2>3. fs'.head = DelOrphan(fs, s, i).head /\ fs'.next = DelOrphan(fs, s, i).next
    BY <1>2, <1>7
  <2>4. Spelled(fs', Unlisted(s, i))
    BY <2>2, <2>3, SpelledSame
  <2>5. Range(Unlisted(s, i)) = Range(s) \ {i}
    BY <2>1, UnlistedKeeps
  <2>6. Done(fs', Range(s) \ {i})
    BY <1>4, <1>5, <1>6, <2>1 DEF Done, Types, FsViews
  <2> QED
    BY <2>4, <2>5, <2>6 DEF Listing
<1>8. ASSUME phase = "up", ~errors
      PROVE  /\ Listing(fs', list')
             /\ \A j \in Range(list') : step'[j] # "idle" \/ (fs'.links[j] = 0 /\ open'[j] # "closed")
  <2>1. /\ Listing(fs, list) /\ Range(list) \subseteq Inodes
        /\ \A j \in Range(list) : step[j] # "idle" \/ (fs.links[j] = 0 /\ open[j] # "closed")
    BY <1>8, ListsUp
  <2>2. Listing(fs', Unlisted(list, i)) /\ Range(Unlisted(list, i)) = Range(list) \ {i}
    BY <1>7, <2>1
  <2> QED
    BY <1>2, <1>3, <1>4, <2>1, <2>2
<1>9. CASE phase = "up"
  BY <1>2, <1>8, <1>9, UpLists DEF Calm
<1>10. CASE phase = "recovering" /\ ~errors
  <2>1. list = <<i>> /\ fs.head = i
    BY <1>1, <1>2, <1>10, CleanupIs
  <2>2. \A j \in Inodes \ {i} : step[j] = "idle"
    <3>1. ASSUME NEW j \in Inodes \ {i}, step[j] # "idle" PROVE FALSE
      BY <1>1, <1>10, <2>1, <3>1, CleanupIs
    <3> QED
      BY <3>1
  <2>3. list' = <<>>
    <3>1. i \in Range(list) /\ list \in Seq(Inodes) /\ IsInjective(list)
      BY <1>1, <1>2, <1>10, CleanupIs DEF Types
    <3>2. Len(Unlisted(list, i)) = Len(list) - 1 /\ Unlisted(list, i) \in Seq(Inodes)
      BY <3>1, RemoveIs
    <3>3. Len(list) = 1
      BY <2>1
    <3> QED
      BY <1>2, <3>2, <3>3, EmptySeq
  <2>4. PICK s \in Seq(Inodes) : Listing(fs, s)
    BY <1>10 DEF Lists, ListingAgain, Listable
  <2>5. s # <<>> /\ s[1] = i /\ i \in Range(s)
    BY <2>1, <2>4, HeadIs, InodesAssumption DEF Listing
  <2>6. DelOrphan(fs, list, i) = DelOrphan(fs, s, i)
    <3>1. Place(s, i) = 1
      <4>1. 1 \in DOMAIN s
        BY <2>4, <2>5, HeadIs DEF Listing
      <4>2. Place(s, i) \in DOMAIN s /\ s[Place(s, i)] = i
        BY <2>4, <2>5, PlaceIs
      <4> QED
        BY <2>4, <2>5, <4>1, <4>2 DEF Listing, Spelled, IsInjective
    <3>2. Place(list, i) = 1 /\ i \in Range(list)
      BY <2>1 DEF Place, Range
    <3> QED
      BY <2>5, <3>1, <3>2 DEF DelOrphan
  <2>7. Listing(fs', Unlisted(s, i))
    BY <1>7, <2>4, <2>6
  <2>8. Listable(fs)'
    <3>1. Unlisted(s, i) \in Seq(Inodes)
      BY <2>7 DEF Listing, Spelled
    <3> QED
      BY <2>7, <3>1 DEF Listable, Listing, Done, Spelled, Spells
  <2>9. \A j \in Inodes : step'[j] = "idle"
    BY <1>3, <2>2
  <2>10. ListingAgain' /\ ListingUp'
    BY <1>2, <1>10, <2>3, <2>8, <2>9 DEF ListingAgain, ListingUp
  <2> QED
    BY <1>2, <1>10, <2>10 DEF Lists, Calm, Listable, Listing, Done
<1>11. CASE errors
  BY <1>2, <1>11 DEF Lists
<1> QED
  BY <1>1, <1>9, <1>10, <1>11 DEF Types

LEMMA CuttingLists ==
  ASSUME Inv, Lists, NEW i \in Inodes, Proceed(i) \/ HandleFails(i) PROVE Lists'
BY ResizeLists, StartCutLists, StartEvictLists, CutLists, ResumeLists, FinishLists, HandleFailsLists
DEF Proceed, Finish

\* jbd2: each view hands its list on.
LEMMA JbdLists ==
  ASSUME Types, Lists, (\E b \in Blocks : DataOut(b)) \/ Freeze \/ Commit PROVE Lists'
<1>1. UNCHANGED <<fs, list, open, step, phase, errors>> /\ going' \in {going, fs} /\ disk' \in {disk, going}
  BY DEF DataOut, Freeze, Commit, view, mem, sys
<1>2. ~errors => Listable(going) /\ Listable(disk) /\ ListingUp /\ ListingAgain
  BY DEF Lists
<1>3. ~errors => Listable(fs)
  BY <1>2 DEF Types, ListingUp, ListingAgain, Listable, Listing, Spelled
<1>4. ~errors => ListingUp' /\ ListingAgain'
  BY <1>1, <1>2 DEF ListingUp, ListingAgain, Listable, Listing, Done
<1>5. ~errors => Listable(going)' /\ Listable(disk)'
  <2>1. ASSUME ~errors PROVE Listable(going)'
    <3>1. CASE going' = going
      BY <1>2, <2>1, <3>1 DEF Listable
    <3>2. CASE going' = fs
      BY <1>3, <2>1, <3>2 DEF Listable
    <3> QED
      BY <1>1, <3>1, <3>2
  <2>2. ASSUME ~errors PROVE Listable(disk)'
    <3>1. CASE disk' = disk
      BY <1>2, <2>2, <3>1 DEF Listable
    <3>2. CASE disk' = going
      BY <1>2, <2>2, <3>2 DEF Listable
    <3> QED
      BY <1>1, <3>1, <3>2
  <2> QED
    BY <2>1, <2>2
<1> QED
  BY <1>1, <1>4, <1>5 DEF Lists

LEMMA CrashLists ==
  ASSUME Lists, Crash PROVE Lists'
<1>1. /\ fs' = disk /\ going' = disk /\ disk' = disk /\ list' = <<>> /\ step' = AllIdle
      /\ phase' = "recovering" /\ errors' = errors
  BY DEF Crash
<1>2. \A j \in Inodes : step'[j] = "idle"
  BY <1>1 DEF AllIdle
<1>3. ~errors => Listable(disk)
  BY DEF Lists
<1>4. ~errors => Listable(disk)' /\ Listable(going)' /\ Listable(fs)'
  BY <1>1, <1>3 DEF Listable
<1> QED
  BY <1>1, <1>2, <1>4 DEF Lists, ListingUp, ListingAgain

LEMMA MountLists ==
  ASSUME Inv, Lists, Recover \/ Mounted PROVE Lists'
<1>1. Types
  BY FormsFacts DEF Inv
<1>2. UNCHANGED <<going, disk, open, errors>> /\ phase = "recovering" /\ step = AllIdle
  BY DEF Recover, Mounted, Recovering, view, mem, sys
<1>3. ASSUME ~errors PROVE list = <<>> /\ Listable(going) /\ Listable(disk) /\ \E s \in Seq(Inodes) : Listing(fs, s)
  BY <1>2, <1>3 DEF Lists, ListingAgain, Listable
<1>4. ASSUME ~errors, Recover PROVE Lists'
  <2>1. PICK s \in Seq(Inodes) : Listing(fs, s)
    BY <1>3, <1>4
  <2>2. fs.head \in fs.used
    <3>1. fs.head # None
      BY <1>4 DEF Recover
    <3>2. fs.head \in Range(s)
      BY <2>1, <3>1, HeadIs DEF Listing
    <3> QED
      BY <2>1, <3>2 DEF Listing, Done
  <2>3. PICK i \in Inodes : Takes(i)
    BY <1>1, <1>4, <2>2, RecoverDoes
  <2>4. /\ fs' = fs /\ fs.head = i /\ list' = <<i>>
        /\ \A j \in Inodes \ {i} : step'[j] = "idle"
    <3>1. \A j \in Inodes : step[j] = "idle"
      BY <1>2 DEF AllIdle
    <3>2. <<i>> \o <<>> = <<i>>
      OBVIOUS
    <3> QED
      BY <1>1, <1>3, <1>4, <2>3, <3>1, <3>2, SetIs DEF Takes, Goto
  <2>5. step'[i] # "idle"
    BY <1>1, <2>3, SetIs DEF Takes, Goto
  <2>6. step' # AllIdle /\ phase' = phase
    BY <1>4, <2>5 DEF AllIdle, Recover, sys
  <2>7. ListingUp'
    BY <1>2, <2>6 DEF ListingUp
  <2>8. ListingAgain'
    <3>1. Listable(fs)'
      BY <2>1, <2>4 DEF Listable
    <3> QED
      BY <2>4, <2>6, <3>1 DEF ListingAgain
  <2>9. Listable(going)' /\ Listable(disk)'
    BY <1>2, <1>3, <1>4 DEF Listable
  <2> QED
    BY <2>7, <2>8, <2>9 DEF Lists
<1>5. ASSUME ~errors, Mounted PROVE Lists'
  <2>1. PICK s \in Seq(Inodes) : Listing(fs, s)
    BY <1>3, <1>5
  <2>2. fs.head = None /\ phase' = "up" /\ UNCHANGED <<fs, list, step>>
    BY <1>5 DEF Mounted, view, mem
  <2>3. s = <<>>
    BY <2>1, <2>2, HeadIs DEF Listing
  <2>4. Listing(fs, list)
    BY <1>3, <1>5, <2>1, <2>3
  <2>5. ListingUp'
    <3>1. Listing(fs', list')
      BY <2>2, <2>4
    <3>2. Range(list') = {}
      BY <1>3, <1>5, <2>2 DEF Range
    <3> QED
      BY <3>1, <3>2 DEF ListingUp
  <2>6. ListingAgain'
    BY <2>2 DEF ListingAgain
  <2>7. Listable(going)' /\ Listable(disk)'
    BY <1>2, <1>3, <1>5 DEF Listable
  <2> QED
    BY <2>5, <2>6, <2>7 DEF Lists
<1> QED
  BY <1>2, <1>4, <1>5 DEF Lists

LEMMA ListsNext ==
  ASSUME Inv, Nameless, Marked, Lists, [Next]_vars PROVE Lists'
<1>1. ASSUME NEW i \in Inodes,
             \/ Create(i) \/ TmpFile(i) \/ Link(i) \/ Unlink(i) \/ Open(i) \/ Close(i)
             \/ Write(i) \/ Rewrite(i) \/ Ask(i) \/ HandleFails(i) \/ Proceed(i)
      PROVE  Lists'
  BY <1>1, CreateLists, TmpFileLists, LinkLists, UnlinkLists, StillLists, WriteLists, RewriteLists, CuttingLists
<1>2. CASE UNCHANGED vars
  BY <1>2 DEF vars, view, mem, sys, Lists, ListingUp, ListingAgain, Listable, Listing, Done
<1>3. Types
  BY FormsFacts DEF Inv
<1> QED
  BY <1>1, <1>2, <1>3, JbdLists, CrashLists, MountLists DEF Next

-----------------------------------------------------------------------------
(***************************************************************************)
(* Theorems.                                                               *)
(***************************************************************************)

\* A step that takes nobody who waits for the cut from the list.
LEMMA MarkedStep ==
  ASSUME Marked, phase' = phase, errors => errors',
         \A j \in Inodes : step'[j] = "sized" => j \in Range(list') \/
                           (step[j] = "sized" /\ (j \in Range(list) => j \in Range(list')))
  PROVE  Marked'
BY DEF Marked

LEMMA MarkedNext ==
  ASSUME Inv, Marked, [Next]_vars PROVE Marked'
<1>1. Types
  BY FormsFacts DEF Inv
<1>2. /\ \A i \in Inodes : Range(Listed(list, i)) = Range(list) \cup {i}
      /\ \A i \in Inodes : Range(Unlisted(list, i)) = Range(list) \ {i}
  BY <1>1, ListedKeeps, UnlistedKeeps DEF Types
<1>3. ASSUME NEW i \in Inodes, Create(i) \/ Open(i) \/ Write(i) \/ Rewrite(i) PROVE Marked'
  BY <1>3 DEF Create, Open, Write, Rewrite, Up, mem, Marked
<1>4. ASSUME NEW i \in Inodes, TmpFile(i) PROVE Marked'
  BY <1>2, <1>4, MarkedStep DEF TmpFile, Up
<1>5. ASSUME NEW i \in Inodes, Link(i) PROVE Marked'
  BY <1>2, <1>5, MarkedStep DEF Link, Up, Idle
<1>6. ASSUME NEW i \in Inodes, Unlink(i) \/ Close(i) \/ Ask(i) \/ Cut(i) \/ Resume(i) PROVE Marked'
  <2>1. \A j \in Inodes : step'[j] = "sized" => step[j] = "sized"
    <3>1. (\E x \in {"doomed", "idle", "asked", "cutting", "paused"} : Goto(i, x))
      BY <1>6 DEF Unlink, Close, Ask, Cut, Resume, GoOn
    <3> QED
      BY <1>1, <3>1, SetIs DEF Goto
  <2>2. phase' = phase /\ errors' = errors /\ (list' = list \/ list' = Listed(list, i))
    BY <1>6 DEF Unlink, Close, Ask, Cut, Resume, Up, sys
  <2> QED
    BY <1>2, <2>1, <2>2, MarkedStep
<1>7. ASSUME NEW i \in Inodes, Resize(i) \/ StartCut(i) \/ StartEvict(i) PROVE Marked'
  <2>1. \A j \in Inodes \ {i} : step'[j] = step[j]
    <3>1. (\E x \in {"sized", "cutting", "paused"} : Goto(i, x))
      BY <1>7 DEF Resize, StartCut, StartEvict, GoOn
    <3> QED
      BY <1>1, <3>1, SetIs DEF Goto
  <2>2. phase' = phase /\ errors' = errors /\ (list' = list \/ list' = Listed(list, i))
        /\ (Resize(i) => list' = Listed(list, i))
    BY <1>7 DEF Resize, StartCut, StartEvict, sys
  <2>3. Resize(i) \/ step'[i] # "sized"
    BY <1>1, <1>7, SetIs DEF StartCut, StartEvict, GoOn, Goto
  <2> QED
    BY <1>2, <2>1, <2>2, <2>3, MarkedStep
<1>8. ASSUME NEW i \in Inodes, FinishCut(i) \/ FinishEvict(i) PROVE Marked'
  <2>1. /\ phase' = phase /\ errors' = errors /\ (list' = list \/ list' = Unlisted(list, i))
        /\ Goto(i, "idle")
    BY <1>8 DEF FinishCut, FinishEvict, sys
  <2>2. step'[i] = "idle" /\ \A j \in Inodes \ {i} : step'[j] = step[j]
    BY <1>1, <2>1, SetIs DEF Goto
  <2> QED
    BY <1>2, <2>1, <2>2, MarkedStep
<1>9. ASSUME NEW i \in Inodes, HandleFails(i) PROVE Marked'
  BY <1>9 DEF HandleFails, Marked
<1>10. ASSUME NEW b \in Blocks, DataOut(b) PROVE Marked'
  BY <1>10 DEF DataOut, mem, sys, Marked
<1>11. ASSUME Freeze \/ Commit \/ UNCHANGED vars PROVE Marked'
  BY <1>11 DEF Freeze, Commit, vars, mem, sys, Marked
<1>12. ASSUME Crash \/ Recover PROVE Marked'
  BY <1>12 DEF Crash, Recover, Recovering, sys, Marked
<1>13. ASSUME Mounted PROVE Marked'
  BY <1>13 DEF Mounted, Recovering, mem, Marked, AllIdle
<1> QED
  BY <1>3, <1>4, <1>5, <1>6, <1>7, <1>8, <1>9, <1>10, <1>11, <1>12, <1>13 DEF Next, Proceed

Safe == Inv /\ Nameless /\ Marked /\ Lists /\ (Delalloc => Delayed)

\* The inductive invariant holds.
THEOREM SafeAlways == Spec => []Safe
<1>1. Init => Safe
  BY InitInv DEF Safe
<1>2. Safe /\ [Next]_vars => Safe'
  <2> SUFFICES ASSUME Safe, [Next]_vars PROVE Safe'
    OBVIOUS
  <2>1. Inv' /\ (Delalloc => Delayed')
    BY NextInv DEF Safe
  <2>2. Nameless'
    BY NamelessNext DEF Safe
  <2>3. Lists'
    BY ListsNext DEF Safe
  <2>4. Marked'
    BY MarkedNext DEF Safe
  <2> QED
    BY <2>1, <2>2, <2>3, <2>4 DEF Safe
<1> QED
  BY <1>1, <1>2, PTL DEF Spec

LEMMA ViewIs ==
  ASSUME NEW v \in FsViews, Shaped(v)
  PROVE  v \in Views
<1>1. MaxSize \in Nat
  BY JournaledAssumption
<1>2. ASSUME NEW i \in Inodes
      PROVE  v.size[i] \in 0 .. MaxSize /\ v.blocks[i] \in UNION {[1 .. n -> Blocks] : n \in 0 .. MaxSize}
  <2>1. v.size[i] \in Nat /\ v.blocks[i] \in Seq(Blocks) /\ v.size[i] <= Len(v.blocks[i]) /\ Len(v.blocks[i]) <= MaxSize
    BY DEF FsViews, Shaped
  <2>2. Len(v.blocks[i]) \in 0 .. MaxSize /\ v.blocks[i] \in [1 .. Len(v.blocks[i]) -> Blocks]
    BY <1>1, <2>1
  <2>3. v.size[i] \in 0 .. MaxSize
    BY <1>1, <2>1, <2>2
  <2> QED
    BY <2>2, <2>3
<1> DEFINE short == UNION {[1 .. n -> Blocks] : n \in 0 .. MaxSize}
<1>3. v.size \in [Inodes -> 0 .. MaxSize] /\ v.blocks \in [Inodes -> short]
  <2>1. v.size \in [Inodes -> Nat] /\ v.blocks \in [Inodes -> Seq(Blocks)]
    BY DEF FsViews
  <2> HIDE DEF short
  <2>2. \A i \in Inodes : v.size[i] \in 0 .. MaxSize /\ v.blocks[i] \in short
    BY <1>2 DEF short
  <2> QED
    BY <2>1, <2>2
<1> HIDE DEF short
<1>4. v \in [used : SUBSET Inodes, links : [Inodes -> {0, 1}], size : [Inodes -> 0 .. MaxSize],
             blocks : [Inodes -> short], leaf : [Inodes -> Blocks \cup {None}],
             map : SUBSET Blocks, head : Inodes \cup {None}, next : [Inodes -> Inodes \cup {None}]]
  BY <1>3 DEF FsViews
<1> QED
  BY <1>4 DEF Views, short

\* Types; and no transaction both logs a block and revokes it, nor logs one that it has
\* freed.
THEOREM JournaledTypes == Spec => []TypeOK
<1>1. Safe => TypeOK
  <2> SUFFICES ASSUME Safe PROVE TypeOK
    OBVIOUS
  <2>1. Types /\ Shaped(fs) /\ Shaped(going) /\ Shaped(disk) /\ Blocking
    BY DEF Safe, Inv, Forms
  <2>2. fs \in Views /\ going \in Views /\ disk \in Views
    BY <2>1, ViewIs DEF Types
  <2>3. list \in UNION {[1 .. n -> Inodes] : n \in 0 .. Cardinality(Inodes)}
    BY <2>1, ListBound DEF Types
  <2>4. ASSUME NEW v, NEW w, NEW tx, Frees(v, w, tx), Sole(w)
        PROVE  tx.meta \cap (tx.revoked \cup tx.pend) = {}
    BY <2>4 DEF Frees, Sole
  <2>5. /\ running.meta \cap (running.revoked \cup running.pend) = {}
        /\ ending.meta \cap (ending.revoked \cup ending.pend) = {}
    BY <2>1, <2>4 DEF Blocking
  <2> QED
    BY <2>1, <2>2, <2>3, <2>5 DEF Types, TypeOK, Contents
<1> QED
  BY <1>1, SafeAlways, PTL

LEMMA WholeIs ==
  ASSUME NEW v \in FsViews, Shaped(v), Sole(v), ~errors => Listable(v)
  PROVE  Whole(v)
<1>1. v.map = DataOf(v) \cup (Range(v.leaf) \ {None})
  BY DEF Sole, Leaves
<1>2. \A i, j \in Inodes : i # j => Used(v, i) \cap Used(v, j) = {}
  BY DEF Sole, Used, Range
<1>3. \A i \in Inodes \ v.used : v.blocks[i] = <<>> /\ v.leaf[i] = None
  BY DEF Shaped
<1>4. v.used \subseteq Inodes
  BY DEF FsViews
<1>5. \A i \in v.used : Len(v.blocks[i]) >= v.size[i]
  <2>1. ASSUME NEW i \in v.used PROVE Len(v.blocks[i]) >= v.size[i]
    <3>1. v.size[i] \in Nat /\ Len(v.blocks[i]) \in Nat /\ v.size[i] <= Len(v.blocks[i])
      BY <1>4 DEF FsViews, Shaped
    <3> QED
      BY <3>1
  <2> QED
    BY <2>1
<1>6. ASSUME ~errors
      PROVE  /\ Ends(v) /\ Orphans(v) \subseteq v.used
             /\ \A i \in v.used : i \in Orphans(v) \/ (v.links[i] = 1 /\ Len(v.blocks[i]) = v.size[i])
  <2>1. PICK s \in Seq(Inodes) : Spelled(v, s) /\ Done(v, Range(s))
    BY <1>6 DEF Listable, Listing
  <2>2. Orphans(v) = Range(s) /\ Ends(v)
    BY <2>1, OrphansAre
  <2> QED
    BY <2>1, <2>2 DEF Done
<1> QED
  BY <1>1, <1>2, <1>3, <1>5, <1>6 DEF Whole

\* Each commit leaves a file system that a crash may interrupt: its bitmap has the blocks
\* of files, each of one file, and no others, and what has no name or more blocks than
\* its size is on the list of orphans (ext4_truncate, inode.c:4101).
THEOREM RestartableAlways == Spec => []Restartable
<1>1. Safe => Restartable
  BY WholeIs DEF Safe, Inv, Forms, Types, Blocking, Lists, Restartable
<1> QED
  BY <1>1, SafeAlways, PTL

\* With delayed allocation, whenever the host crashes, the replay leaves a file that has
\* a name with its own data in every block up to its size and its own extents in their
\* block (ext4_free_blocks, ext4_forget; mballoc.c:4920, ext4_jbd2.c:161).
THEOREM DataSurvives == ASSUME Delalloc PROVE Spec => []DataSurvive
<1>1. Safe => DataSurvive
  <2> SUFFICES ASSUME Safe, NEW i \in Inodes, disk.links[i] = 1
               PROVE  /\ \A n \in 1 .. disk.size[i] : Replayed[disk.blocks[i][n]] = Data(i)
                      /\ disk.leaf[i] # None => Replayed[disk.leaf[i]] = Extents(i)
    BY DEF DataSurvive
  <2>1. Forms /\ Types /\ Shaped(disk) /\ Blocking /\ Journaling /\ Delayed
    BY DEF Safe, Inv, Forms
  <2>2. ASSUME NEW n \in 1 .. disk.size[i] PROVE Replayed[disk.blocks[i][n]] = Data(i)
    <3>1. disk.size[i] \in Nat /\ disk.blocks[i] \in Seq(Blocks) /\ disk.size[i] <= Len(disk.blocks[i])
      BY <2>1 DEF Types, FsViews, Shaped
    <3>2. n \in DOMAIN disk.blocks[i]
      BY <3>1
    <3> QED
      BY <2>1, <3>2, DataReplayed
  <2> QED
    BY <2>1, <2>2 DEF Journaling
<1> QED
  BY <1>1, SafeAlways, PTL

\* As long as no handle has failed to start, the list of orphans on disk is the one in
\* memory, in the same order, which ext4_orphan_del relies on (namei.c:3405-3430), and
\* whoever is on it is being cut or deleted, or is open without a name (inode.c:4132).
THEOREM ListsInStep == Spec => []ListsAgree
<1>1. Safe => ListsAgree
  BY DEF Safe, Lists, ListingUp, Listing, Spelled, ListsAgree
<1> QED
  BY <1>1, SafeAlways, PTL

-----------------------------------------------------------------------------
(***************************************************************************)
(* Journaled implements Durable.                                           *)
(***************************************************************************)

Promises == \/ Promised!Change \/ Promised!Freeze \/ Promised!Commit
            \/ Promised!Crash \/ Promised!Mount

\* What users see is a tree of lengths.
LEMMA VisibleIs ==
  ASSUME NEW v \in FsViews, Shaped(v)
  PROVE  Visible(v) \in [Inodes -> (0 .. MaxSize) \cup {-1}]
<1>1. \A i \in Inodes : v.size[i] \in 0 .. MaxSize
  BY ViewIs DEF Views
<1> QED
  BY <1>1 DEF Visible

\* A step on one inode changes that file only, and while orphans are cleaned up none
\* that has a name.
LEMMA OneShows ==
  ASSUME Inv, Inv', UNCHANGED <<going, disk, phase>>, NEW i \in Inodes,
         \A j \in Inodes \ {i} : fs'.links[j] = fs.links[j] /\ fs'.size[j] = fs.size[j],
         phase # "up" => fs'.links[i] = fs.links[i] /\ (fs.links[i] = 0 \/ fs'.size[i] = fs.size[i])
  PROVE  Promises \/ UNCHANGED Promised!DurableVars
<1>1. Visible(fs) \in [Inodes -> (0 .. MaxSize) \cup {-1}] /\ Visible(fs') \in [Inodes -> (0 .. MaxSize) \cup {-1}]
  <2>1. fs \in FsViews /\ Shaped(fs) /\ fs' \in FsViews /\ Shaped(fs')
    BY DEF Inv, Forms, Types, Shaped
  <2> QED
    BY <2>1, VisibleIs
<1>2. /\ \A j \in Inodes \ {i} : Visible(fs')[j] = Visible(fs)[j]
      /\ phase # "up" => Visible(fs')[i] = Visible(fs)[i]
  BY DEF Visible
<1>3. /\ Visible(fs)' = Visible(fs') /\ Visible(going)' = Visible(going) /\ Visible(disk)' = Visible(disk)
      /\ (phase = "up")' = (phase = "up")
  BY DEF Visible
<1> HIDE DEF Visible
<1>4. CASE phase = "up"
  <2>1. Visible(fs') = [Visible(fs) EXCEPT ![i] = Visible(fs')[i]] /\ Visible(fs')[i] \in (0 .. MaxSize) \cup {-1}
    BY <1>1, <1>2
  <2>2. Promised!Change
    BY <1>3, <1>4, <2>1 DEF Promised!Change
  <2> QED
    BY <2>2 DEF Promises
<1>5. CASE phase # "up"
  <2>1. Visible(fs') = Visible(fs)
    BY <1>1, <1>2, <1>5
  <2> QED
    BY <1>3, <2>1 DEF Promised!DurableVars
<1> QED
  BY <1>4, <1>5

LEMMA NamesShow ==
  ASSUME Inv, Inv', NEW i \in Inodes,
         \/ Create(i) \/ TmpFile(i) \/ Link(i) \/ Unlink(i) \/ Open(i) \/ Close(i)
         \/ Write(i) \/ Rewrite(i) \/ Ask(i)
  PROVE  Promises \/ UNCHANGED Promised!DurableVars
<1>1. Types /\ fs.links \in [Inodes -> {0, 1}] /\ fs.size \in [Inodes -> Nat]
  BY FormsFacts DEF Inv
<1>2. phase = "up" /\ UNCHANGED <<going, disk, phase>>
  BY DEF Create, TmpFile, Link, Unlink, Open, Close, Write, Rewrite, Ask, Up, view
<1>3. \A j \in Inodes \ {i} : fs'.links[j] = fs.links[j] /\ fs'.size[j] = fs.size[j]
  <2>1. CASE Open(i) \/ Close(i) \/ Ask(i)
    BY <2>1 DEF Open, Close, Ask, view
  <2>2. CASE Create(i) \/ Link(i)
    BY <1>1, <2>2, CreateDoes, LinkDoes DEF Has
  <2>3. CASE TmpFile(i) \/ Unlink(i)
    BY <1>1, <2>3, TmpFileDoes, UnlinkDoes DEF Has
  <2>4. CASE Rewrite(i)
    BY <1>1, <2>4, RewriteDoes DEF Has
  <2>5. CASE Write(i)
    <3>1. PICK b \in Blocks, l \in Blocks \cup {None} : Grows(i, b, l)
      BY <1>1, <2>5, WriteDoes
    <3>2. Has(fs', fs.used, fs.links,
              IF step[i] = "sized" THEN fs.size ELSE [fs.size EXCEPT ![i] = fs.size[i] + 1])
      BY <3>1 DEF Grows
    <3> QED
      BY <1>1, <3>2 DEF Has
  <2> QED
    BY <2>1, <2>2, <2>3, <2>4, <2>5
<1> QED
  BY <1>2, <1>3, OneShows

LEMMA CuttingShows ==
  ASSUME Inv, Inv', NEW i \in Inodes, Proceed(i) \/ HandleFails(i)
  PROVE  Promises \/ UNCHANGED Promised!DurableVars
<1>1. Types /\ Steps /\ fs.size \in [Inodes -> Nat] /\ \A j \in Inodes : fs.links[j] \in {0, 1}
  BY FormsFacts DEF Inv
<1>2. UNCHANGED <<going, disk, phase>>
  <2>1. CASE Resize(i) \/ StartCut(i) \/ StartEvict(i) \/ FinishCut(i) \/ FinishEvict(i)
    BY <2>1 DEF Resize, StartCut, StartEvict, FinishCut, FinishEvict, sys
  <2>2. CASE Cut(i)
    BY <2>2 DEF Cut, sys
  <2>3. CASE Resume(i) \/ HandleFails(i)
    BY <2>3 DEF Resume, HandleFails, view, sys
  <2> QED
    BY <2>1, <2>2, <2>3 DEF Proceed
<1>3. fs'.links = fs.links
      /\ (\A j \in Inodes \ {i} : fs'.size[j] = fs.size[j])
      /\ (phase # "up" => fs.links[i] = 0 \/ fs'.size[i] = fs.size[i])
  <2>1. CASE Resize(i)
    <3>1. Has(fs', fs.used, fs.links, [fs.size EXCEPT ![i] = target[i]]) /\ step[i] = "asked"
      BY <1>1, <2>1, ResizeDoes
    <3> QED
      BY <1>1, <3>1 DEF Has, Steps
  <2>2. CASE StartEvict(i)
    <3>1. Has(fs', fs.used, fs.links, [fs.size EXCEPT ![i] = 0]) /\ step[i] = "doomed"
      BY <1>1, <2>2, StartEvictDoes
    <3>2. fs.links[i] = 0
      BY <1>1, <3>1 DEF Steps, InUse
    <3> QED
      BY <1>1, <3>1, <3>2 DEF Has
  <2>3. CASE StartCut(i)
    BY <1>1, <2>3, StartCutDoes DEF Has
  <2>4. CASE Finish(i)
    BY <1>1, <2>4, FinishDoes DEF Has
  <2>5. CASE Cut(i)
    <3>1. PICK b \in Blocks : Shrinks(i, b)
      BY <1>1, <2>5, CutDoes
    <3> QED
      BY <3>1 DEF Shrinks, Has
  <2>6. CASE Resume(i) \/ HandleFails(i)
    BY <2>6 DEF Resume, HandleFails, view
  <2> QED
    BY <2>1, <2>2, <2>3, <2>4, <2>5, <2>6 DEF Proceed, Finish
<1> QED
  BY <1>2, <1>3, OneShows

LEMMA JbdShows ==
  ASSUME Inv, (\E b \in Blocks : DataOut(b)) \/ Freeze \/ Commit \/ Crash \/ Recover \/ Mounted \/ UNCHANGED vars
  PROVE  Promises \/ UNCHANGED Promised!DurableVars
<1>1. CASE (\E b \in Blocks : DataOut(b)) \/ UNCHANGED vars
  BY <1>1 DEF DataOut, vars, view, sys, Visible, Promised!DurableVars
<1>2. CASE Freeze
  <2>1. going' = fs /\ UNCHANGED <<fs, disk, phase>>
    BY <1>2 DEF Freeze, sys
  <2> QED
    BY <2>1 DEF Promises, Promised!Freeze, Visible
<1>3. CASE Commit
  <2>1. disk' = going /\ UNCHANGED <<fs, going, phase>>
    BY <1>3 DEF Commit, sys
  <2> QED
    BY <2>1 DEF Promises, Promised!Commit, Visible
<1>4. CASE Crash
  <2>1. fs' = disk /\ going' = disk /\ disk' = disk /\ phase' = "recovering"
    BY <1>4 DEF Crash
  <2>2. (phase = "up")' = FALSE
    BY <2>1
  <2>3. Visible(fs)' = Visible(disk) /\ Visible(going)' = Visible(disk) /\ Visible(disk)' = Visible(disk)
    BY <2>1 DEF Visible
  <2>4. Promised!Crash
    BY <2>2, <2>3 DEF Promised!Crash
  <2> QED
    BY <2>4 DEF Promises
<1>5. CASE Recover
  <2>1. Still(fs, fs') /\ UNCHANGED <<going, disk, phase>>
    BY <1>5, FormsFacts, RecoverDoes DEF Inv, Calm
  <2>2. fs'.links = fs.links /\ fs'.size = fs.size
    BY <2>1 DEF Still, Has
  <2> QED
    BY <2>1, <2>2 DEF Promised!DurableVars, Visible
<1>6. CASE Mounted
  <2>1. UNCHANGED <<fs, going, disk>> /\ phase' = "up"
    BY <1>6 DEF Mounted, view
  <2>2. (phase = "up")' = TRUE
    BY <2>1
  <2>3. Visible(fs)' = Visible(fs) /\ Visible(going)' = Visible(going) /\ Visible(disk)' = Visible(disk)
    BY <2>1 DEF Visible
  <2>4. Promised!Mount
    BY <2>2, <2>3 DEF Promised!Mount
  <2> QED
    BY <2>4 DEF Promises
<1> QED
  BY <1>1, <1>2, <1>3, <1>4, <1>5, <1>6

\* Files survive as the journal promises (Durable): operations change one file, commits
\* keep a moment, crashes go back to the last commit, and the cleanup of orphans changes
\* no file that has a name.
THEOREM FilesAreDurable == Spec => FilesDurable
<1>1. Init => Promised!DurableInit
  <2> SUFFICES ASSUME Init PROVE Promised!DurableInit
    OBVIOUS
  <2>1. fs \in FsViews /\ Shaped(fs)
    BY InitInv DEF Inv, Forms, Types
  <2>2. Visible(fs) \in Promised!Tree
    BY <2>1, VisibleIs DEF Promised!Tree
  <2> QED
    BY <2>2 DEF Init, Promised!DurableInit
<1>2. Safe /\ Safe' /\ [Next]_vars => [Promises]_(Promised!DurableVars)
  <2> SUFFICES ASSUME Safe, Safe', [Next]_vars PROVE Promises \/ UNCHANGED Promised!DurableVars
    OBVIOUS
  <2>1. Inv /\ Inv'
    BY DEF Safe
  <2>2. ASSUME NEW i \in Inodes,
               \/ Create(i) \/ TmpFile(i) \/ Link(i) \/ Unlink(i) \/ Open(i) \/ Close(i)
               \/ Write(i) \/ Rewrite(i) \/ Ask(i) \/ HandleFails(i) \/ Proceed(i)
        PROVE  Promises \/ UNCHANGED Promised!DurableVars
    BY <2>1, <2>2, NamesShow, CuttingShows
  <2> QED
    BY <2>1, <2>2, JbdShows DEF Next
<1> QED
  BY <1>1, <1>2, SafeAlways, PTL DEF Spec, FilesDurable, Promised!DurableSpec, Promises

=============================================================================
