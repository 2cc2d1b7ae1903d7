--------------------------- MODULE DelallocProofs ---------------------------
(***************************************************************************)
(* Proofs about Delalloc, for every number of threads, flushers, blocks    *)
(* and calls: what the status tree says is so, each delayed block has its  *)
(* reservation, the data are those last written (Delalloc implements       *)
(* SparseFile), and types are kept.  Only of torn blocks, those looked up  *)
(* or zeroed in the middle of a punch of them, nothing is claimed but the  *)
(* reservations and the types.                                             *)
(*                                                                         *)
(* The argument: who fills, maps or writes back a page has it locked, so   *)
(* that what he saw of it stays so (Holds); whoever changes the extents    *)
(* keeps the shared holders of i_data_sem out, so that a gap that was      *)
(* found is one when it is put in the status tree (Maps); what a punch has *)
(* dropped stays away until the blocks are gone, but for torn blocks,      *)
(* since all who bring pages back, except read(2), are locked out (Apart,  *)
(* Punches); and a page that is neither dirty nor under writeback says     *)
(* what the disk says, so that it does not matter when it is evicted       *)
(* (Good).                                                                 *)
(***************************************************************************)
EXTENDS Delalloc, FiniteSetTheorems, TLAPS

Kinds == {"none", "write", "mkwrite", "fault", "read", "fallocate", "punch", "flush"}
Places == {"idle", "mmap", "page", "look", "tree", "gap", "add", "held", "copy", "zero", "disk",
           "allocate", "drop", "cut", "remove", "drain", "again", "map", "submit"}
States == {"none", "hole", "delayed", "unwritten", "both", "written"}
CallSet == [kind : Kinds, first : Blocks, at : Blocks, last : Blocks]

Shapes ==
    /\ tree \in [Blocks -> {"hole", "unwritten", "written"}]
    /\ disk \in [Blocks -> {"zero", "old", "new", "junk"}]
    /\ status \in [Blocks -> States]
    /\ page \in [Blocks -> {"absent", "zero", "old", "new", "junk"}]
    /\ buffer \in [Blocks -> {"none", "mapped", "delay", "unwritten"}]
    /\ dirty \subseteq Blocks /\ writeback \subseteq Blocks /\ reserved \in Int
    /\ call \in [Actors -> CallSet] /\ pc \in [Actors -> Places]
    /\ gap \in [Actors -> SUBSET Blocks]
    /\ calls \in 0 .. MaxCalls /\ torn \subseteq Blocks

\* Each kind of call has its places.
Placed(t) ==
    /\ call[t].first <= call[t].at /\ call[t].at <= call[t].last
    /\ pc[t] = "mmap" => call[t].at = call[t].first
    /\ pc[t] = "page" => ~Does(t, {"read"})
    /\ Does(t, {"none"}) => pc[t] = "idle"
    /\ Writes(t) => pc[t] \in {"page", "look", "tree", "gap", "add", "held", "copy"}
    /\ Reads(t) => pc[t] \in {"page", "look", "tree", "gap", "zero", "disk"}
    /\ Flushes(t) => pc[t] \in {"page", "look", "tree", "gap", "map", "submit"}
    /\ Does(t, {"fallocate"}) => pc[t] \in {"look", "tree", "gap", "allocate"}
    /\ Does(t, {"punch"}) => pc[t] \in {"mmap", "drop", "cut", "remove", "drain", "again"}

\* What the holder of the lock of a page has seen of it.
Locks(t) == (Writes(t) \/ Reads(t) \/ Flushes(t)) /\ pc[t] # "page"
LocksIt(t, l) == Locks(t) /\ call[t].at = l
Holds(t) ==
    LET l == call[t].at IN
    /\ Writes(t) /\ pc[t] \in {"tree", "gap", "add", "held"} => buffer[l] = "none"
    /\ pc[t] = "copy" => buffer[l] # "none"
    /\ Reads(t) /\ Locks(t) => page[l] = "absent"
    /\ Flushes(t) /\ Locks(t) => l \in dirty
    /\ pc[t] = "submit" => buffer[l] = "mapped"

\* A gap that was found is one until it is put in the status tree.
Maps(t) ==
    /\ \A l \in gap[t] : pc[t] = "gap" /\ tree[l] = "hole"
    /\ pc[t] = "gap" => tree[call[t].at] = "hole"

\* What will be filled in is what the block says.
OnDisk(l) == IF tree[l] = "written" THEN disk[l] ELSE "zero"
Fills(t) ==
    LET l == call[t].at IN
    l \notin torn =>
        /\ pc[t] = "zero" => OnDisk(l) = "zero"
        /\ pc[t] = "disk" => tree[l] = "written"

\* The pages behind a punch are gone, and the status tree has forgotten their blocks.
DroppedBy(t) == {l \in Blocks :
    /\ Does(t, {"punch"}) /\ l \in Span(t)
    /\ pc[t] \in {"cut", "remove", "drain", "again"} \/ (pc[t] = "drop" /\ l < call[t].at)}
Known(l) == status[l] \in {"unwritten", "both", "written"}
Punches(t) ==
    /\ \A l \in DroppedBy(t) :
        l \notin dirty /\ l \notin writeback /\ buffer[l] = "none" /\ (page[l] = "absent" \/ l \in torn)
    /\ pc[t] \in {"remove", "drain", "again"} => \A l \in Blocks : l \in Span(t) \ torn => ~Known(l)

\* What two calls never do at once.
Mutexed(t) == Does(t, {"write", "fallocate", "punch"})
Apart(t, u) ==
    /\ Locks(t) /\ Locks(u) => call[t].at # call[u].at
    /\ ~(Mutexed(t) /\ Mutexed(u))
    /\ Does(t, {"punch"}) /\ pc[t] # "mmap" => ~Does(u, {"mkwrite", "fault"})
    /\ Reads(u) /\ Locks(u) /\ call[u].at \in DroppedBy(t) => call[u].at \in torn

\* A page that is clean says what the disk says, and only written blocks go there.
Copied(l) == \E t \in Actors : pc[t] = "copy" /\ call[t].at = l
Submitted(l) == \E t \in Actors : pc[t] = "submit" /\ call[t].at = l
Good(l) ==
    /\ l \in dirty => page[l] # "absent" /\ buffer[l] # "none"
    /\ l \in writeback => page[l] # "absent"
    /\ status[l] = "delayed" => buffer[l] = "delay"
    /\ buffer[l] = "delay" => l \in dirty \/ Copied(l)
    /\ l \notin torn =>
        /\ status[l] = "hole" => tree[l] = "hole"
        /\ status[l] \in {"unwritten", "both"} => tree[l] = "unwritten"
        /\ status[l] = "written" => tree[l] = "written"
        /\ l \in writeback => tree[l] = "written"
        /\ buffer[l] = "mapped" => tree[l] = "written"
        /\ tree[l] = "written" => disk[l] # "junk" \/ l \in writeback \/ Submitted(l)
        /\ page[l] # "absent" /\ l \notin dirty /\ l \notin writeback => page[l] = OnDisk(l)
        /\ page[l] # "junk"

Actor(t) == Placed(t) /\ Holds(t) /\ Maps(t) /\ Fills(t) /\ Punches(t)
IInv ==
    /\ Shapes /\ ReservedEnough
    /\ \A t \in Actors : Actor(t)
    /\ \A t, u \in Actors : t # u => Apart(t, u)
    /\ \A l \in Blocks : Good(l)

\* A step of the file, or none.
FileStep == (\E l \in Blocks : Data!Written(l)) \/ Data!Punch \/ Data!Punched \/ Data!Torn
Sound == IInv' /\ [FileStep]_<<Contents, Hole>>
-----------------------------------------------------------------------------
(***************************************************************************)
(* Lemmas about the reservations, gaps and calls.                          *)
(***************************************************************************)
\* Every block of a gap is a hole.
LEMMA GapIsHole ==
  ASSUME NEW l \in Blocks, tree[l] = "hole"
  PROVE  GapAt(l) \subseteq Blocks /\ \A k \in GapAt(l) : tree[k] = "hole"
<1>1. ASSUME NEW k \in GapAt(l) PROVE k \in Blocks /\ tree[k] = "hole"
  <2>1. k \in Blocks /\ \A j \in (k .. l) : tree[j] = "hole"
    BY <1>1 DEF GapAt
  <2>2. \A j \in (l .. k) : tree[j] = "hole"
    BY <1>1 DEF GapAt
  <2>3. k \in k .. l \/ k \in l .. k
    BY <2>1, DelallocAssumption DEF Blocks
  <2> QED
    BY <2>1, <2>2, <2>3
<1> QED
  BY <1>1

LEMMA IdleIsCall ==
  /\ Idle \in CallSet
  /\ Idle.kind = "none" /\ Idle.at <= Idle.last
BY DelallocAssumption DEF Idle, CallSet, Kinds, Blocks

LEMMA DelayedFinite == IsFiniteSet(Blocks) /\ IsFiniteSet(Delayed) /\ IsFiniteSet(Delayed')
<1>1. IsFiniteSet(Blocks)
  BY FS_Interval, DelallocAssumption DEF Blocks
<1> QED
  BY <1>1, FS_Subset DEF Delayed, Blocks

\* Reservations are kept when no more blocks become delayed than are reserved for.
LEMMA Reserved ==
  ASSUME ReservedEnough, reserved \in Int, NEW l,
         \/ Delayed' \subseteq Delayed /\ reserved' = reserved
         \/ Delayed' = Delayed \cup {l} /\ reserved' = reserved + 1
         \/ l \in Delayed /\ Delayed' = Delayed \ {l} /\ reserved' = reserved - 1
  PROVE  ReservedEnough'
<1>1. Cardinality(Delayed) \in Nat /\ Cardinality(Delayed') \in Nat
  BY DelayedFinite, FS_CardinalityType
<1>2. CASE Delayed' \subseteq Delayed /\ reserved' = reserved
  <2>1. Cardinality(Delayed') <= Cardinality(Delayed)
    BY <1>2, DelayedFinite, FS_Subset
  <2> QED
    BY <1>1, <1>2, <2>1 DEF ReservedEnough
<1>3. CASE Delayed' = Delayed \cup {l} /\ reserved' = reserved + 1
  <2>1. Cardinality(Delayed') <= Cardinality(Delayed) + 1
    BY <1>1, <1>3, DelayedFinite, FS_AddElement
  <2> QED
    BY <1>1, <1>3, <2>1 DEF ReservedEnough
<1>4. CASE l \in Delayed /\ Delayed' = Delayed \ {l} /\ reserved' = reserved - 1
  <2>1. Cardinality(Delayed') = Cardinality(Delayed) - 1
    BY <1>4, DelayedFinite, FS_RemoveElement
  <2> QED
    BY <1>1, <1>4, <2>1 DEF ReservedEnough
<1> QED
  BY <1>2, <1>3, <1>4

\* What does not touch the buffers and the reservations keeps what they say.
LEMMA BuffersKept ==
  ASSUME ReservedEnough, reserved \in Int, UNCHANGED <<buffer, reserved>>
  PROVE  ReservedEnough'
BY Reserved DEF Delayed, Blocks

LEMMA ZeroedAre ==
  ASSUME NEW l \in Blocks, NEW Z \in ZeroedWith(l)
  PROVE  \A k \in Z : k # l /\ k \in Blocks /\ tree[k] = "unwritten"
<1>1. CASE Z = {}
  BY <1>1
<1>2. CASE Z # {}
  <2>1. PICK e \in (0 .. l) \X (l + 1 .. Last) :
          /\ \A k \in e[1] .. e[2] : tree[k] = "unwritten"
          /\ Z = (e[1] .. e[2]) \ {l} \/ Z = e[1] .. l - 1
    BY <1>2 DEF ZeroedWith
  <2>2. PICK a \in 0 .. l, b \in l + 1 .. Last : e[1] = a /\ e[2] = b
    BY <2>1
  <2>3. ASSUME NEW k \in Z PROVE k \in a .. b /\ k # l /\ k \in Blocks
    BY <2>1, <2>2, <2>3, DelallocAssumption DEF Blocks
  <2> QED
    BY <2>1, <2>2, <2>3
<1> QED
  BY <1>1, <1>2

\* The holders of locks, and the blocks of a hole.
LEMMA LockedIs == \A l : Locked(l) <=> \E t \in Actors : LocksIt(t, l)
BY DEF Locked, LocksIt, Locks

LEMMA InHole == \A l : l \in Hole <=> \E u \in Actors : Does(u, {"punch"}) /\ pc[u] # "mmap" /\ l \in Span(u)
BY DEF Hole

LEMMA InHoleNext ==
  \A l : l \in Hole' <=> \E u \in Actors : Does(u, {"punch"})' /\ pc'[u] # "mmap" /\ l \in Span(u)'
BY DEF Hole

\* What a call has behind it is gone, or it is torn and a read is about it.
LEMMA NotDropped ==
  ASSUME IInv, NEW t \in Actors, NEW u \in Actors, u # t, call[t].kind \notin {"none", "punch"}, pc[t] # "page",
         call[t].at \in DroppedBy(u)
  PROVE  Reads(t) /\ call[t].at \in torn
<1> DEFINE l == call[t].at
<1>1. Does(u, {"punch"}) /\ pc[u] # "mmap"
  BY DEF DroppedBy
<1>2. l \notin dirty
  BY DEF IInv, Actor, Punches
<1>3. Apart(t, u) /\ Apart(u, t) /\ Holds(t)
  BY DEF IInv, Actor
<1>4. call[t].kind \in Kinds
  BY DEF IInv, Shapes, CallSet
<1>5. ~Mutexed(t) /\ ~Does(t, {"mkwrite", "fault"})
  BY <1>1, <1>3 DEF Apart, Mutexed, Does
<1>6. ~Flushes(t)
  BY <1>2, <1>3 DEF Holds, Locks
<1>7. Does(t, {"read"})
  BY <1>4, <1>5, <1>6 DEF Kinds, Does, Mutexed, Flushes
<1>8. Reads(t) /\ Locks(t)
  BY <1>7 DEF Reads, Locks, Does
<1> QED
  BY <1>3, <1>8 DEF Apart
-----------------------------------------------------------------------------
(***************************************************************************)
(* What a step of one actor leaves to another.                             *)
(***************************************************************************)
Removes(u) == pc[u] \in {"remove", "drain", "again"}
Same(u) == call'[u] = call[u] /\ pc'[u] = pc[u] /\ gap'[u] = gap[u]
Leaves(u) ==
    /\ pc[u] = "gap" => \A l \in Blocks : tree[l] = "hole" => tree'[l] = "hole"
    /\ \A l \in Blocks :
        /\ LocksIt(u, l) => page'[l] = page[l] /\ buffer'[l] = buffer[l] /\ (l \in dirty <=> l \in dirty')
        /\ Reads(u) /\ LocksIt(u, l) /\ l \notin torn' =>
              OnDisk(l)' = OnDisk(l) /\ (tree[l] = "written" => tree'[l] = "written")
        /\ l \in DroppedBy(u) =>
              l \notin dirty' /\ l \notin writeback' /\ buffer'[l] = "none" /\ (page'[l] = "absent" \/ l \in torn')
        /\ Removes(u) /\ l \in Span(u) /\ l \notin torn' => ~Known(l)'

LEMMA SameIs ==
  ASSUME NEW u \in Actors, Same(u)
  PROVE  /\ Writes(u)' = Writes(u) /\ Reads(u)' = Reads(u) /\ Flushes(u)' = Flushes(u)
         /\ \A kinds : Does(u, kinds)' = Does(u, kinds)
         /\ Locks(u)' = Locks(u) /\ Span(u)' = Span(u) /\ DroppedBy(u)' = DroppedBy(u)
         /\ Mutexed(u)' = Mutexed(u) /\ \A l : LocksIt(u, l)' = LocksIt(u, l)
BY DEF Same, Writes, Reads, Flushes, Does, Locks, Span, DroppedBy, Mutexed, LocksIt, Blocks

LEMMA ActorKept ==
  ASSUME Shapes, NEW u \in Actors, Actor(u), Same(u), Leaves(u), torn \subseteq torn'
  PROVE  Actor(u)'
<1> DEFINE l == call[u].at
<1>1. l \in Blocks /\ call'[u] = call[u] /\ pc'[u] = pc[u] /\ gap'[u] = gap[u] /\ gap[u] \subseteq Blocks
  BY DEF Shapes, CallSet, Same
<1>2. Placed(u)'
  BY <1>1, SameIs DEF Actor, Placed
<1>3. Holds(u)'
  <2>1. Locks(u) => page'[l] = page[l] /\ buffer'[l] = buffer[l] /\ (l \in dirty <=> l \in dirty')
    BY <1>1 DEF Leaves, LocksIt
  <2>2. (Writes(u) \/ Flushes(u)) /\ pc[u] # "page" => Locks(u)
    BY DEF Locks
  <2>3. pc[u] = "copy" => Writes(u)
    BY <1>1 DEF Actor, Placed, Shapes, CallSet, Kinds, Reads, Writes, Flushes, Does
  <2>4. pc[u] = "submit" => Flushes(u)
    BY <1>1 DEF Actor, Placed, Shapes, CallSet, Kinds, Reads, Writes, Flushes, Does
  <2> QED
    BY <1>1, <2>1, <2>2, <2>3, <2>4, SameIs DEF Actor, Holds
<1>4. Maps(u)'
  BY <1>1 DEF Actor, Maps, Leaves
<1>5. Fills(u)'
  <2>1. pc[u] \in {"zero", "disk"} => Reads(u) /\ LocksIt(u, l)
    BY <1>1 DEF Actor, Placed, Shapes, CallSet, Kinds, Reads, Writes, Flushes, Does, LocksIt, Locks
  <2>2. l \notin torn' /\ pc[u] \in {"zero", "disk"} =>
          OnDisk(l)' = OnDisk(l) /\ (tree[l] = "written" => tree'[l] = "written")
    BY <1>1, <2>1 DEF Leaves
  <2>3. l \notin torn' => l \notin torn
    OBVIOUS
  <2>4. OnDisk(call[u].at)' = OnDisk(l)'
    BY <1>1 DEF OnDisk
  <2> QED
    BY <1>1, <2>2, <2>3, <2>4 DEF Actor, Fills
<1>6. Punches(u)'
  <2>1. DroppedBy(u)' = DroppedBy(u) /\ Span(u)' = Span(u) /\ DroppedBy(u) \subseteq Blocks
    BY SameIs DEF DroppedBy
  <2>2. \A k \in DroppedBy(u) :
          k \notin dirty' /\ k \notin writeback' /\ buffer'[k] = "none" /\ (page'[k] = "absent" \/ k \in torn')
    BY <2>1 DEF Leaves
  <2>3. Removes(u) => \A k \in Blocks : k \in Span(u) \ torn' => ~Known(k)'
    BY DEF Leaves
  <2> QED
    BY <1>1, <2>1, <2>2, <2>3 DEF Punches, Removes, Blocks
<1> QED
  BY <1>2, <1>3, <1>4, <1>5, <1>6 DEF Actor

LEMMA ApartSame ==
  ASSUME NEW u \in Actors, NEW v \in Actors, Apart(u, v), Same(u), Same(v), torn \subseteq torn'
  PROVE  Apart(u, v)'
<1>1. call'[u] = call[u] /\ pc'[u] = pc[u] /\ call'[v] = call[v]
  BY DEF Same
<1> QED
  BY <1>1, SameIs DEF Apart

\* A step of t keeps the invariant.
LEMMA Together ==
  ASSUME IInv, NEW t \in Actors, Shapes', ReservedEnough', torn \subseteq torn', Actor(t)',
         \A u \in Actors \ {t} : Same(u) /\ Leaves(u) /\ Apart(t, u)' /\ Apart(u, t)',
         \A l \in Blocks : Good(l)'
  PROVE  IInv'
<1>1. \A u \in Actors : Actor(u)'
  BY ActorKept DEF IInv
<1>2. \A u, v \in Actors : u # v => Apart(u, v)'
  BY ApartSame DEF IInv
<1>3. \A l \in Blocks' : Good(l)'
  BY DEF Blocks
<1>4. \A u \in Actors' : Actor(u)'
  BY <1>1 DEF Actors
<1>5. \A u, v \in Actors' : u # v => Apart(u, v)'
  BY <1>2 DEF Actors
<1> QED
  BY <1>3, <1>4, <1>5 DEF IInv

\* A step of nobody does.
LEMMA TogetherAlone ==
  ASSUME IInv, Shapes', ReservedEnough', UNCHANGED <<call, pc, gap, torn>>,
         \A u \in Actors : Leaves(u), \A l \in Blocks : Good(l)'
  PROVE  IInv'
<1>1. \A u \in Actors : Same(u)
  BY DEF Same
<1>2. \A u \in Actors : Actor(u)'
  BY <1>1, ActorKept DEF IInv
<1>3. \A u, v \in Actors : u # v => Apart(u, v)'
  BY <1>1, ApartSame DEF IInv
<1>4. \A l \in Blocks' : Good(l)'
  BY DEF Blocks
<1> QED
  BY <1>2, <1>3, <1>4 DEF IInv, Actors

\* Who takes no more locks than he has stays apart from the others.
LEMMA ApartKept ==
  ASSUME IInv, NEW t \in Actors, NEW u \in Actors \ {t}, Same(u), torn \subseteq torn',
         call'[t].kind \in {"none", call[t].kind},
         Locks(t)' => Locks(t) /\ call'[t].at = call[t].at,
         Does(t, {"punch"})' /\ pc'[t] # "mmap" => pc[t] # "mmap",
         \A l \in DroppedBy(t)' : l \in DroppedBy(t) \/ ~Locked(l)
  PROVE  Apart(t, u)' /\ Apart(u, t)'
<1>1. Apart(t, u) /\ Apart(u, t) /\ call'[u] = call[u] /\ pc'[u] = pc[u]
  BY DEF IInv, Same
<1>2. \A kinds \in SUBSET (Kinds \ {"none"}) : Does(t, kinds)' => Does(t, kinds)
  BY DEF Does
<1>3. /\ Does(t, {"punch"})' => Does(t, {"punch"})
      /\ Does(t, {"mkwrite", "fault"})' => Does(t, {"mkwrite", "fault"})
      /\ Mutexed(t)' => Mutexed(t) /\ (Reads(t)' => Reads(t))
  BY <1>2 DEF Kinds, Mutexed, Reads, Does
<1>4. ASSUME Reads(u), Locks(u), call[u].at \in DroppedBy(t)' PROVE call[u].at \in torn'
  <2>1. Locked(call[u].at)
    BY <1>4, LockedIs DEF LocksIt
  <2>2. call[u].at \in DroppedBy(t)
    BY <1>4, <2>1
  <2> QED
    BY <1>1, <1>4, <2>2 DEF Apart
<1>5. Reads(t)' => Reads(t)
  BY <1>2 DEF Kinds, Reads, Does
<1>6. Mutexed(t)' => Mutexed(t)
  BY <1>3 DEF Mutexed
<1>7. Apart(t, u)'
  BY <1>1, <1>3, <1>4, <1>6, SameIs DEF Apart
<1>8. Apart(u, t)'
  BY <1>1, <1>3, <1>5, <1>6, SameIs DEF Apart
<1> QED
  BY <1>7, <1>8

\* Where only the status tree changes, and says no more than before, nobody is disturbed.
LEMMA LeavesQuiet ==
  ASSUME IInv, NEW u \in Actors, UNCHANGED <<tree, disk, page, buffer, dirty, writeback>>, torn \subseteq torn',
         \A l \in Blocks : Known(l)' => Known(l)
  PROVE  Leaves(u)
<1>1. Punches(u) /\ DroppedBy(u) \subseteq Blocks
  BY DEF IInv, Actor, DroppedBy
<1>2. Removes(u) => \A l \in Blocks : l \in Span(u) /\ l \notin torn' => ~Known(l)'
  BY <1>1 DEF Punches, Removes
<1>3. \A l \in Blocks : l \in DroppedBy(u) =>
        l \notin dirty' /\ l \notin writeback' /\ buffer'[l] = "none" /\ (page'[l] = "absent" \/ l \in torn')
  BY <1>1 DEF Punches
<1> QED
  BY <1>2, <1>3 DEF Leaves, OnDisk

\* Nor where a call changes only what is about its own block.
LEMMA LeavesMine ==
  ASSUME IInv, NEW t \in Actors, NEW u \in Actors \ {t},
         call[t].kind \notin {"none", "punch"}, pc[t] # "page", UNCHANGED <<tree, disk, torn>>,
         UNCHANGED page \/ Locks(t),
         Reads(t) \/ ~Locks(t) => UNCHANGED <<buffer, dirty, writeback>>,
         \A l \in Blocks : l # call[t].at =>
           /\ page'[l] = page[l] /\ buffer'[l] = buffer[l]
           /\ (l \in dirty' <=> l \in dirty) /\ (l \in writeback' <=> l \in writeback)
           /\ Known(l)' => Known(l)
  PROVE  Leaves(u)
<1> DEFINE a == call[t].at
<1>1. Punches(u) /\ DroppedBy(u) \subseteq Blocks /\ Apart(t, u)
  BY DEF IInv, Actor, DroppedBy
<1>2. a \in DroppedBy(u) => Reads(t) /\ a \in torn
  BY NotDropped
<1>3. \A l \in Blocks : l \in DroppedBy(u) =>
        l \notin dirty' /\ l \notin writeback' /\ buffer'[l] = "none" /\ (page'[l] = "absent" \/ l \in torn')
  <2> SUFFICES ASSUME NEW l \in Blocks, l \in DroppedBy(u)
               PROVE  l \notin dirty' /\ l \notin writeback' /\ buffer'[l] = "none" /\ (page'[l] = "absent" \/ l \in torn')
    OBVIOUS
  <2>1. l \notin dirty /\ l \notin writeback /\ buffer[l] = "none" /\ (page[l] = "absent" \/ l \in torn)
    BY <1>1 DEF Punches
  <2> QED
    BY <1>2, <2>1
<1>4. Removes(u) => \A l \in Blocks : l \in Span(u) /\ l \notin torn' => ~Known(l)'
  <2>1. Removes(u) => \A l \in Blocks : l \in Span(u) => l \in DroppedBy(u)
    <3>1. Removes(u) => Does(u, {"punch"})
      BY DEF Removes, IInv, Actor, Placed, Shapes, CallSet, Kinds, Does, Writes, Reads, Flushes
    <3> QED
      BY <3>1 DEF Removes, DroppedBy
  <2> QED
    BY <1>1, <1>2, <2>1 DEF Punches, Removes
<1>5. \A l \in Blocks : LocksIt(u, l) => page'[l] = page[l] /\ buffer'[l] = buffer[l] /\ (l \in dirty <=> l \in dirty')
  <2>1. ASSUME NEW l \in Blocks, LocksIt(u, l), l = a PROVE UNCHANGED <<page, buffer, dirty>>
    BY <1>1, <2>1 DEF Apart, LocksIt
  <2> QED
    BY <2>1
<1> QED
  BY <1>3, <1>4, <1>5 DEF Leaves, OnDisk

LEMMA GoodQuiet ==
  ASSUME IInv, NEW l \in Blocks, UNCHANGED <<tree, disk, page, buffer, dirty, writeback>>, torn \subseteq torn',
         status'[l] \in {"none", status[l]}, Copied(l) => Copied(l)', Submitted(l) => Submitted(l)'
  PROVE  Good(l)'
<1>1. Good(l)
  BY DEF IInv
<1>2. l \notin torn' => l \notin torn
  OBVIOUS
<1>3. OnDisk(l)' = OnDisk(l)
  BY DEF OnDisk
<1> QED
  BY <1>1, <1>2, <1>3 DEF Good

\* Another block than the one that a step of t is about.
LEMMA GoodOther ==
  ASSUME IInv, NEW t \in Actors, NEW l \in Blocks, l # call[t].at, \A u \in Actors \ {t} : Same(u),
         tree'[l] = tree[l], disk'[l] = disk[l], page'[l] = page[l], buffer'[l] = buffer[l],
         l \in dirty' <=> l \in dirty, l \in writeback' <=> l \in writeback, torn \subseteq torn',
         status'[l] \in {"none", status[l]} \/ (status'[l] = "hole" /\ tree[l] = "hole")
  PROVE  Good(l)'
<1>1. Good(l)
  BY DEF IInv
<1>2. l \notin torn' => l \notin torn
  OBVIOUS
<1>3. OnDisk(l)' = OnDisk(l)
  BY DEF OnDisk
<1>4. Copied(l) => Copied(l)'
  BY DEF Copied, Same
<1>5. Submitted(l) => Submitted(l)'
  BY DEF Submitted, Same
<1> QED
  BY <1>1, <1>2, <1>3, <1>4, <1>5 DEF Good

\* Who copies and submits stays there.
LEMMA CopiedSame ==
  ASSUME NEW t \in Actors, \A u \in Actors \ {t} : Same(u), NEW l, pc[t] \notin {"copy", "submit"}
  PROVE  (Copied(l) => Copied(l)') /\ (Submitted(l) => Submitted(l)')
BY DEF Copied, Submitted, Same

-----------------------------------------------------------------------------
(***************************************************************************)
(* What is read.                                                           *)
(***************************************************************************)
Value(l) == IF page[l] # "absent" THEN page[l] ELSE OnDisk(l)

LEMMA ContentsAre ==
  Contents = [l \in Blocks |-> IF l \in torn THEN "any" ELSE IF l \in Hole THEN "zero" ELSE Value(l)]
BY DEF Contents, Value, OnDisk

LEMMA ContentsNext ==
  Contents' = [l \in Blocks |-> IF l \in torn' THEN "any" ELSE IF l \in Hole' THEN "zero" ELSE Value(l)']
BY DEF Contents, Value, OnDisk, Blocks

LEMMA HoleSame ==
  ASSUME NEW t \in Actors, \A u \in Actors \ {t} : Same(u),
         (Does(t, {"punch"}) /\ pc[t] # "mmap") <=> (Does(t, {"punch"})' /\ pc'[t] # "mmap"),
         Does(t, {"punch"}) /\ pc[t] # "mmap" => Span(t)' = Span(t)
  PROVE  Hole' = Hole
<1>1. \A u \in Actors : (Does(u, {"punch"}) /\ pc[u] # "mmap") <=> (Does(u, {"punch"})' /\ pc'[u] # "mmap")
  BY DEF Same, Does
<1>2. \A u \in Actors : Does(u, {"punch"}) /\ pc[u] # "mmap" => Span(u)' = Span(u)
  BY DEF Same, Span
<1>3. \A l : l \in Hole' <=> l \in Hole
  BY <1>1, <1>2, InHole, InHoleNext
<1> QED
  BY <1>3

\* Nothing is read that was not read before, but for blocks that get torn.
LEMMA FileSame ==
  ASSUME Hole' = Hole, torn \subseteq torn', torn' \ torn \subseteq Hole,
         \A l \in Blocks : l \notin Hole /\ l \notin torn' => Value(l)' = Value(l)
  PROVE  [FileStep]_<<Contents, Hole>>
<1> DEFINE S == torn' \ torn
<1>1. Contents' = [l \in Blocks |-> IF l \in S THEN "any" ELSE Contents[l]]
  BY ContentsAre, ContentsNext
<1>2. S \in SUBSET Hole
  OBVIOUS
<1>3. Data!Torn
  BY <1>1, <1>2 DEF Data!Torn
<1> QED
  BY <1>3 DEF FileStep

\* Only one hole is punched at a time.
LEMMA OneHole ==
  ASSUME IInv, NEW t \in Actors, Mutexed(t)
  PROVE  \A u \in Actors \ {t} : ~Does(u, {"punch"})
BY DEF IInv, Apart, Mutexed, Does
-----------------------------------------------------------------------------
(***************************************************************************)
(* Calls begin, and take their other locks.                                *)
(***************************************************************************)
LEMMA StartsKeep ==
  ASSUME IInv, NEW t \in Actors, NEW kind \in Kinds \ {"none"}, NEW a \in Blocks, NEW b \in a .. Last,
         NEW where, Starts(t, kind, a, b, where), calls' \in 0 .. MaxCalls,
         torn' = IF kind = "read" THEN torn \cup ({a} \cap Dropped) ELSE torn,
         where = IF kind = "punch" THEN "mmap" ELSE IF kind \in {"read", "fallocate"} THEN "look" ELSE "page",
         kind = "read" => page[a] = "absent" /\ ~Locked(a),
         kind \in {"write", "fallocate", "punch"} => ~Mutex,
         kind \in {"mkwrite", "fault"} => ~MmapExclusive
  PROVE  Sound
<1> DEFINE c == [kind |-> kind, first |-> a, at |-> a, last |-> b]
<1>1. c \in CallSet /\ c.kind = kind /\ c.first = a /\ c.at = a /\ c.last = b /\ b \in Blocks /\ a <= b
  BY DelallocAssumption DEF Blocks, CallSet
<1>2. /\ UNCHANGED <<tree, disk, status, reserved, page, buffer, dirty, writeback, gap>>
      /\ call[t] = Idle /\ call' = [call EXCEPT ![t] = c] /\ pc' = [pc EXCEPT ![t] = where]
  BY DEF Starts, Go, blocks, cache
<1>3. call[t].kind = "none" /\ pc[t] = "idle"
  BY <1>2 DEF Idle, IInv, Actor, Placed, Does
<1>4. call'[t] = c /\ pc'[t] = where /\ \A u \in Actors \ {t} : Same(u)
  BY <1>2 DEF IInv, Shapes, Same
<1> HIDE DEF c
<1>5. torn \subseteq torn' /\ torn' \ torn \subseteq Dropped /\ Dropped \subseteq Blocks
  BY DEF Dropped
<1>6. Shapes'
  <2>1. call' \in [Actors -> CallSet] /\ pc' \in [Actors -> Places]
    BY <1>1, <1>2 DEF IInv, Shapes, Places
  <2>2. torn' \subseteq Blocks
    BY <1>5 DEF IInv, Shapes
  <2> QED
    BY <1>2, <2>1, <2>2 DEF IInv, Shapes, Blocks, Actors, CallSet
<1>7. ReservedEnough'
  BY <1>2, BuffersKept DEF IInv, Shapes
<1>8. Locks(t)' => kind = "read"
  BY <1>1, <1>4 DEF Locks, Writes, Reads, Flushes, Does, Kinds
<1>9. DroppedBy(t)' = {} /\ ~Removes(t)'
  BY <1>1, <1>4 DEF DroppedBy, Removes, Does
<1>10. Actor(t)'
  <2>1. Placed(t)'
    <3>1. /\ call'[t].kind = kind /\ call'[t].first = a /\ call'[t].at = a /\ call'[t].last = b
          /\ pc'[t] = where /\ a <= a /\ a <= b
      BY <1>1, <1>4, DelallocAssumption DEF Blocks
    <3> QED
      BY <3>1 DEF Placed, Writes, Reads, Flushes, Does, Kinds
  <2>2. Holds(t)'
    BY <1>1, <1>2, <1>4, <1>8 DEF Holds, Locks, Writes, Reads, Flushes, Does
  <2>3. gap[t] = {}
    BY <1>3 DEF IInv, Actor, Maps
  <2>4. Maps(t)' /\ Fills(t)'
    BY <1>2, <1>4, <2>3 DEF Maps, Fills
  <2>5. Punches(t)'
    BY <1>9 DEF Punches, Removes
  <2> QED
    BY <2>1, <2>2, <2>4, <2>5 DEF Actor
<1>11. \A u \in Actors \ {t} : Leaves(u)
  BY <1>2, <1>5, LeavesQuiet DEF Known
<1>12. ASSUME NEW u \in Actors \ {t} PROVE Apart(t, u)' /\ Apart(u, t)'
  <2>1. Same(u) /\ call'[u] = call[u] /\ pc'[u] = pc[u]
    BY <1>4 DEF Same
  <2>2. Locks(t)' => ~LocksIt(u, a)
    BY <1>8, LockedIs
  <2>3. Mutexed(t)' => ~Mutexed(u)
    BY <1>1, <1>4 DEF Mutexed, Mutex, Does
  <2>4. Does(u, {"punch"}) /\ pc[u] # "mmap" => ~Does(t, {"mkwrite", "fault"})'
    BY <1>1, <1>4 DEF MmapExclusive, Does
  <2>5. ~(Does(t, {"punch"})' /\ pc'[t] # "mmap")
    BY <1>1, <1>4 DEF Does
  <2>6. Locks(t)' /\ a \in DroppedBy(u) => a \in torn'
    <3>1. a \in DroppedBy(u) => a \in Dropped
      BY DEF DroppedBy, Dropped
    <3> QED
      BY <1>8, <3>1
  <2> QED
    BY <1>1, <1>4, <1>9, <2>1, <2>2, <2>3, <2>4, <2>5, <2>6, SameIs DEF Apart, LocksIt
<1>13. \A l \in Blocks : Good(l)'
  BY <1>2, <1>3, <1>4, <1>5, CopiedSame, GoodQuiet
<1>14. Hole' = Hole
  BY <1>1, <1>3, <1>4, HoleSame DEF Does
<1>15. Dropped \subseteq Hole
  BY InHole DEF Dropped
<1>16. [FileStep]_<<Contents, Hole>>
  BY <1>2, <1>5, <1>14, <1>15, FileSame DEF Value, OnDisk
<1> QED
  BY <1>4, <1>5, <1>6, <1>7, <1>10, <1>11, <1>12, <1>13, <1>16, Together DEF Sound

LEMMA CallsKeep ==
  ASSUME IInv, NEW t \in Actors,
         Write(t) \/ Mkwrite(t) \/ Fault(t) \/ Read(t) \/ Fallocate(t) \/ Punch(t) \/ Flush(t)
  PROVE  Sound
<1>1. ASSUME calls < MaxCalls, calls' = calls + 1 PROVE calls' \in 0 .. MaxCalls
  BY <1>1, DelallocAssumption DEF IInv, Shapes
<1>2. \A l \in Blocks : l \in l .. Last
  BY DelallocAssumption DEF Blocks
<1>3. CASE \E l \in Blocks : Calls(t, "write", l, l, "page") /\ ~Mutex /\ UNCHANGED torn
  BY <1>1, <1>2, <1>3, StartsKeep DEF Calls, Kinds
<1>4. CASE \E l \in Blocks, kind \in {"mkwrite", "fault"} :
             Calls(t, kind, l, l, "page") /\ ~MmapExclusive /\ UNCHANGED torn
  BY <1>1, <1>2, <1>4, StartsKeep DEF Calls, Kinds
<1>5. CASE \E l \in Blocks : page[l] = "absent" /\ ~Locked(l) /\ Calls(t, "read", l, l, "look")
                             /\ torn' = torn \cup ({l} \cap Dropped)
  BY <1>1, <1>2, <1>5, StartsKeep DEF Calls, Kinds
<1>6. CASE Fallocate(t)
  BY <1>1, <1>6, StartsKeep DEF Fallocate, Calls, Kinds
<1>7. CASE Punch(t)
  BY <1>1, <1>7, StartsKeep DEF Punch, Calls, Kinds
<1>8. CASE Flush(t)
  <2>1. PICK l \in Blocks : Starts(t, "flush", l, l, "page") /\ UNCHANGED <<calls, torn>>
    BY <1>8 DEF Flush, IInv, Shapes
  <2>2. calls' \in 0 .. MaxCalls
    BY <2>1 DEF IInv, Shapes
  <2> QED
    BY <1>2, <2>1, <2>2, StartsKeep DEF Kinds
<1> QED
  BY <1>3, <1>4, <1>5, <1>6, <1>7, <1>8 DEF Write, Mkwrite, Fault, Read

\* A call that ends knows and holds nothing.
LEMMA EndKeeps ==
  ASSUME IInv, NEW t \in Actors, End(t), UNCHANGED gap, pc[t] # "gap"
  PROVE  /\ \A u \in Actors \ {t} : Same(u)
         /\ call' \in [Actors -> CallSet] /\ pc' \in [Actors -> Places]
         /\ call'[t].kind = "none" /\ pc'[t] = "idle" /\ ~Locks(t)' /\ DroppedBy(t)' = {}
         /\ Actor(t)'
<1>1. call'[t] = Idle /\ pc'[t] = "idle" /\ \A u \in Actors \ {t} : Same(u)
  BY DEF End, Go, Same, IInv, Shapes
<1>2. call' \in [Actors -> CallSet] /\ pc' \in [Actors -> Places]
  BY IdleIsCall DEF End, Go, IInv, Shapes, Places
<1>3. /\ call'[t].kind = "none" /\ call'[t].first = 0 /\ call'[t].at = 0 /\ call'[t].last = 0
      /\ gap'[t] = {}
  BY <1>1 DEF Idle, IInv, Actor, Maps
<1>4. ~Locks(t)' /\ DroppedBy(t)' = {}
  BY <1>3 DEF Locks, DroppedBy, Writes, Reads, Flushes, Does
<1>5. Placed(t)'
  BY <1>1, <1>3 DEF Placed, Writes, Reads, Flushes, Does
<1>6. Holds(t)' /\ Maps(t)' /\ Fills(t)'
  BY <1>1, <1>3, <1>4 DEF Holds, Maps, Fills, Writes, Reads, Flushes, Does
<1>7. Punches(t)'
  BY <1>1, <1>4 DEF Punches
<1> QED
  BY <1>1, <1>2, <1>3, <1>4, <1>5, <1>6, <1>7 DEF Actor

\* A step that goes elsewhere in the same call.
LEMMA GoIs ==
  ASSUME IInv, NEW t \in Actors, NEW p \in Places, Go(t, p), UNCHANGED call,
         \A u \in Actors \ {t} : gap'[u] = gap[u]
  PROVE  /\ \A u \in Actors \ {t} : Same(u)
         /\ pc' \in [Actors -> Places] /\ pc'[t] = p /\ call'[t] = call[t]
         /\ Writes(t)' = Writes(t) /\ Reads(t)' = Reads(t) /\ Flushes(t)' = Flushes(t)
         /\ \A kinds : Does(t, kinds)' = Does(t, kinds)
         /\ Span(t)' = Span(t) /\ Mutexed(t)' = Mutexed(t)
BY DEF Go, Same, IInv, Shapes, Writes, Reads, Flushes, Does, Span, Mutexed

\* Where a call is tells what it is.
LEMMA PlaceTells ==
  ASSUME IInv, NEW t \in Actors
  PROVE  /\ call[t].kind \in Kinds /\ call[t].at \in Blocks /\ Placed(t)
         /\ call[t].first \in Blocks /\ call[t].last \in Blocks
         /\ pc[t] \in {"add", "held", "copy"} => Writes(t)
         /\ pc[t] \in {"zero", "disk"} => Reads(t)
         /\ pc[t] \in {"map", "submit"} => Flushes(t)
         /\ pc[t] = "allocate" => Does(t, {"fallocate"})
         /\ pc[t] \in {"mmap", "drop", "cut", "remove", "drain", "again"} => Does(t, {"punch"})
         /\ pc[t] \in {"page", "look", "tree", "gap"} => call[t].kind \notin {"none", "punch"}
<1>1. call[t].kind \in Kinds /\ call[t].at \in Blocks /\ Placed(t) /\ call[t].first \in Blocks /\ call[t].last \in Blocks
  BY DEF IInv, Actor, Shapes, CallSet
<1> QED
  BY <1>1 DEF Placed, Kinds, Writes, Reads, Flushes, Does

LEMMA GetPageKeeps == ASSUME IInv, NEW t \in Actors, GetPage(t) PROVE Sound
<1> DEFINE l == call[t].at
<1>1. /\ pc[t] = "page" /\ ~Locked(l) /\ gap[t] = {}
      /\ UNCHANGED <<tree, disk, status, reserved, page, buffer, dirty, writeback, gap, calls, torn>>
  BY DEF GetPage, blocks, cache, IInv, Actor, Maps
<1>2. l \in Blocks /\ Placed(t) /\ call[t].kind \in Kinds /\ call[t].kind \notin {"none", "punch"}
  BY <1>1, PlaceTells
<1>3. ReservedEnough'
  BY <1>1, BuffersKept DEF IInv, Shapes
<1>4. \A u \in Actors \ {t} : Leaves(u)
  BY <1>1, LeavesQuiet DEF Known
<1>5. CASE End(t)
  <2>1. /\ \A u \in Actors \ {t} : Same(u)
        /\ call' \in [Actors -> CallSet] /\ pc' \in [Actors -> Places]
        /\ call'[t].kind = "none" /\ pc'[t] = "idle" /\ ~Locks(t)' /\ DroppedBy(t)' = {}
        /\ Actor(t)'
    BY <1>1, <1>5, EndKeeps
  <2>2. Shapes'
    BY <1>1, <2>1 DEF IInv, Shapes, Blocks, Actors, CallSet
  <2>3. \A u \in Actors \ {t} : Apart(t, u)' /\ Apart(u, t)'
    BY <1>1, <2>1, ApartKept DEF Does
  <2>4. \A k \in Blocks : Good(k)'
    BY <1>1, <2>1, CopiedSame, GoodQuiet
  <2>5. Hole' = Hole
    BY <1>2, <2>1, HoleSame DEF Does
  <2>6. [FileStep]_<<Contents, Hole>>
    BY <1>1, <2>5, FileSame DEF Value, OnDisk
  <2> QED
    BY <1>1, <1>3, <1>4, <2>1, <2>2, <2>3, <2>4, <2>6, Together DEF Sound
<1>6. CASE Go(t, "look") /\ UNCHANGED call /\ (Does(t, {"fault"}) => page[l] = "absent")
           /\ (Flushes(t) => l \in dirty)
  <2>1. /\ \A u \in Actors \ {t} : Same(u)
        /\ pc' \in [Actors -> Places] /\ pc'[t] = "look" /\ call'[t] = call[t]
        /\ Writes(t)' = Writes(t) /\ Reads(t)' = Reads(t) /\ Flushes(t)' = Flushes(t)
        /\ \A kinds : Does(t, kinds)' = Does(t, kinds)
        /\ Span(t)' = Span(t) /\ Mutexed(t)' = Mutexed(t)
    BY <1>1, <1>6, GoIs DEF Places
  <2>2. Shapes'
    BY <1>1, <1>6, <2>1 DEF IInv, Shapes, Blocks, Actors, CallSet
  <2>3. Actor(t)'
    <3>1. Placed(t)'
      BY <1>1, <1>2, <2>1 DEF Placed, Does
    <3>2. Reads(t) => page[l] = "absent"
      BY <1>1, <1>2, <1>6 DEF Placed, Reads, Does
    <3>3. Holds(t)' /\ Maps(t)' /\ Fills(t)'
      BY <1>1, <1>6, <2>1, <3>2 DEF Holds, Maps, Fills, Locks
    <3>4. Punches(t)'
      BY <1>2, <2>1 DEF Punches, DroppedBy, Does
    <3> QED
      BY <3>1, <3>3, <3>4 DEF Actor
  <2>4. ASSUME NEW u \in Actors \ {t} PROVE Apart(t, u)' /\ Apart(u, t)'
    <3>1. Apart(t, u) /\ Apart(u, t) /\ Same(u) /\ call'[u] = call[u] /\ pc'[u] = pc[u] /\ torn' = torn
      BY <1>1, <2>1 DEF IInv, Same
    <3>2. ~LocksIt(u, l)
      BY <1>1, LockedIs
    <3>3. DroppedBy(t)' = {} /\ DroppedBy(t) = {}
      BY <1>2, <2>1 DEF DroppedBy, Does
    <3>4. Reads(t) => Does(t, {"fault"})
      BY <1>1, <1>2 DEF Placed, Reads, Does
    <3>5. Reads(t) => DroppedBy(u) = {}
      <4>1. Does(t, {"fault"}) => Does(t, {"mkwrite", "fault"})
        BY DEF Does
      <4>2. DroppedBy(u) # {} => Does(u, {"punch"}) /\ pc[u] # "mmap"
        BY DEF DroppedBy
      <4> QED
        BY <3>1, <3>4, <4>1, <4>2 DEF Apart
    <3>6. /\ ~Does(t, {"punch"})' /\ (Does(t, {"mkwrite", "fault"})' <=> Does(t, {"mkwrite", "fault"}))
          /\ Locks(u)' = Locks(u) /\ DroppedBy(u)' = DroppedBy(u) /\ Mutexed(u)' = Mutexed(u)
          /\ Does(u, {"punch"})' = Does(u, {"punch"})
      BY <1>2, <2>1, <3>1, SameIs DEF Does
    <3>7. Apart(t, u)'
      BY <2>1, <3>1, <3>2, <3>3, <3>6 DEF Apart, LocksIt
    <3>8. Apart(u, t)'
      BY <2>1, <3>1, <3>2, <3>5, <3>6 DEF Apart, LocksIt
    <3> QED
      BY <3>7, <3>8
  <2>5. \A k \in Blocks : Good(k)'
    BY <1>1, <2>1, CopiedSame, GoodQuiet
  <2>6. Hole' = Hole
    BY <1>2, <2>1, HoleSame DEF Does
  <2>7. [FileStep]_<<Contents, Hole>>
    BY <1>1, <2>6, FileSame DEF Value, OnDisk
  <2> QED
    BY <1>1, <1>3, <1>4, <2>1, <2>2, <2>3, <2>4, <2>5, <2>7, Together DEF Sound
<1> QED
  BY <1>5, <1>6 DEF GetPage

\* From here on the blocks count as zeroes.
LEMMA GetMmapKeeps == ASSUME IInv, NEW t \in Actors, GetMmap(t) PROVE Sound
<1>1. /\ pc[t] = "mmap" /\ gap[t] = {} /\ ~MmapShared /\ Go(t, "drop")
      /\ UNCHANGED <<tree, disk, status, reserved, page, buffer, dirty, writeback, call, gap, calls, torn>>
  BY DEF GetMmap, blocks, cache, IInv, Actor, Maps
<1>2. Does(t, {"punch"}) /\ Mutexed(t) /\ Placed(t)
  BY <1>1, PlaceTells DEF Mutexed, Does
<1>3. /\ \A u \in Actors \ {t} : Same(u)
      /\ pc' \in [Actors -> Places] /\ pc'[t] = "drop" /\ call'[t] = call[t]
      /\ Writes(t)' = Writes(t) /\ Reads(t)' = Reads(t) /\ Flushes(t)' = Flushes(t)
      /\ \A kinds : Does(t, kinds)' = Does(t, kinds)
      /\ Span(t)' = Span(t) /\ Mutexed(t)' = Mutexed(t)
  BY <1>1, GoIs DEF Places
<1>4. Shapes'
  BY <1>1, <1>3 DEF IInv, Shapes, Blocks, Actors, CallSet
<1>5. ReservedEnough'
  BY <1>1, BuffersKept DEF IInv, Shapes
<1>6. \A u \in Actors \ {t} : Leaves(u)
  BY <1>1, LeavesQuiet DEF Known
<1>7. DroppedBy(t)' = {}
  <2>1. call[t].at = call[t].first /\ call[t].first \in Blocks /\ call[t].last \in Blocks
    BY <1>1, <1>2 DEF Placed, IInv, Shapes, CallSet
  <2> QED
    BY <1>3, <2>1, DelallocAssumption DEF DroppedBy, Blocks, Span
<1>8. Actor(t)'
  <2>1. Placed(t)'
    BY <1>1, <1>2, <1>3 DEF Placed, Writes, Reads, Flushes, Does
  <2>2. Holds(t)' /\ Maps(t)' /\ Fills(t)'
    BY <1>1, <1>2, <1>3 DEF Holds, Maps, Fills, Locks, Writes, Reads, Flushes, Does
  <2>3. Punches(t)'
    BY <1>3, <1>7 DEF Punches
  <2> QED
    BY <2>1, <2>2, <2>3 DEF Actor
<1>9. ASSUME NEW u \in Actors \ {t} PROVE Apart(t, u)' /\ Apart(u, t)'
  <2>1. Apart(t, u) /\ Apart(u, t) /\ Same(u) /\ call'[u] = call[u] /\ pc'[u] = pc[u] /\ torn' = torn
    BY <1>1, <1>3 DEF IInv, Same
  <2>2. ~Does(u, {"mkwrite", "fault"}) /\ ~Locks(t)' /\ ~Does(t, {"mkwrite", "fault"})'
    BY <1>1, <1>2, <1>3 DEF MmapShared, Locks, Writes, Reads, Flushes, Does
  <2> QED
    BY <1>3, <1>7, <2>1, <2>2, SameIs DEF Apart
<1>10. \A k \in Blocks : Good(k)'
  BY <1>1, <1>3, CopiedSame, GoodQuiet
<1>11. Hole = {} /\ Hole' = Span(t)
  <2>1. \A u \in Actors \ {t} : ~Does(u, {"punch"}) /\ ~Does(u, {"punch"})'
    BY <1>2, <1>3, OneHole, SameIs
  <2>2. \A l : l \notin Hole
    BY <1>1, <2>1, InHole
  <2>3. \A l : l \in Hole' <=> l \in Span(t)
    BY <1>2, <1>3, <2>1, InHoleNext
  <2> QED
    BY <2>2, <2>3
<1>12. Span(t) \subseteq Blocks
  BY DelallocAssumption DEF Span, Blocks, IInv, Shapes, CallSet
<1>13. Contents' = [l \in Blocks |-> IF l \in Span(t) /\ Contents[l] # "any" THEN "zero" ELSE Contents[l]]
  <2>1. \A l \in Blocks : Value(l)' = Value(l)
    BY <1>1 DEF Value, OnDisk
  <2>2. \A l \in Blocks : l \notin torn => Value(l) # "any"
    BY DEF IInv, Shapes, Value, OnDisk
  <2>3. \A l \in Blocks : Contents[l] = IF l \in torn THEN "any" ELSE Value(l)
    BY <1>11, ContentsAre
  <2>4. Contents' = [l \in Blocks |-> IF l \in torn THEN "any" ELSE IF l \in Span(t) THEN "zero" ELSE Value(l)]
    BY <1>1, <1>11, <2>1, ContentsNext
  <2> QED
    BY <2>2, <2>3, <2>4
<1>14. Data!Punch
  BY <1>11, <1>12, <1>13 DEF Data!Punch
<1> QED
  BY <1>1, <1>3, <1>4, <1>5, <1>6, <1>8, <1>9, <1>10, <1>14, Together DEF Sound, FileStep
-----------------------------------------------------------------------------
(***************************************************************************)
(* Punching a hole.                                                        *)
(***************************************************************************)

\* The steps that remove the blocks, and wait in between.
LEMMA PunchGoes ==
  ASSUME IInv, NEW t \in Actors, pc[t] \in {"cut", "remove", "drain", "again"},
         NEW p \in {"remove", "drain", "again"}, Go(t, p), UNCHANGED <<call, gap, torn>>
  PROVE  /\ \A u \in Actors \ {t} : Same(u) /\ Apart(t, u)' /\ Apart(u, t)'
         /\ pc' \in [Actors -> Places] /\ pc'[t] = p /\ call'[t] = call[t] /\ Span(t)' = Span(t)
         /\ DroppedBy(t) = Span(t) /\ DroppedBy(t)' = Span(t) /\ Span(t) \subseteq Blocks
         /\ Hole' = Hole /\ Placed(t)' /\ Holds(t)' /\ Maps(t)' /\ Fills(t)'
<1>1. Does(t, {"punch"}) /\ Placed(t) /\ gap[t] = {}
  BY PlaceTells DEF IInv, Actor, Maps
<1>2. /\ \A u \in Actors \ {t} : Same(u)
      /\ pc' \in [Actors -> Places] /\ pc'[t] = p /\ call'[t] = call[t]
      /\ Writes(t)' = Writes(t) /\ Reads(t)' = Reads(t) /\ Flushes(t)' = Flushes(t)
      /\ \A kinds : Does(t, kinds)' = Does(t, kinds)
      /\ Span(t)' = Span(t) /\ Mutexed(t)' = Mutexed(t)
  BY GoIs DEF Places
<1>3. Span(t) \subseteq Blocks
  BY PlaceTells, DelallocAssumption DEF Span, Blocks
<1>4. DroppedBy(t) = Span(t) /\ DroppedBy(t)' = Span(t)
  BY <1>1, <1>2, <1>3 DEF DroppedBy, Blocks
<1>5. Hole' = Hole
  BY <1>1, <1>2, HoleSame
<1>6. Placed(t)' /\ Holds(t)' /\ Maps(t)' /\ Fills(t)'
  <2>1. Placed(t)'
    BY <1>1, <1>2 DEF Placed, Writes, Reads, Flushes, Does
  <2>2. Holds(t)'
    BY <1>1, <1>2 DEF Holds, Locks, Writes, Reads, Flushes, Does
  <2>3. Maps(t)' /\ Fills(t)'
    BY <1>1, <1>2 DEF Maps, Fills
  <2> QED
    BY <2>1, <2>2, <2>3
<1>7. \A u \in Actors \ {t} : Apart(t, u)' /\ Apart(u, t)'
  <2>1. ~Locks(t)'
    BY <1>1, <1>2 DEF Locks, Writes, Reads, Flushes, Does
  <2> QED
    BY <1>2, <1>4, <2>1, ApartKept
<1> QED
  BY <1>2, <1>3, <1>4, <1>5, <1>6, <1>7

LEMMA RestartKeeps == ASSUME IInv, NEW t \in Actors, Restart(t) PROVE Sound
<1>1. /\ pc[t] = "drain" /\ Go(t, "again")
      /\ UNCHANGED <<tree, disk, status, reserved, page, buffer, dirty, writeback, call, gap, calls, torn>>
  BY DEF Restart, blocks, cache
<1>2. /\ \A u \in Actors \ {t} : Same(u) /\ Apart(t, u)' /\ Apart(u, t)'
      /\ pc' \in [Actors -> Places] /\ pc'[t] = "again" /\ call'[t] = call[t] /\ Span(t)' = Span(t)
      /\ DroppedBy(t) = Span(t) /\ DroppedBy(t)' = Span(t)
      /\ Hole' = Hole /\ Placed(t)' /\ Holds(t)' /\ Maps(t)' /\ Fills(t)'
  BY <1>1, PunchGoes
<1>3. Shapes'
  BY <1>1, <1>2 DEF IInv, Shapes, Blocks, Actors, CallSet
<1>4. ReservedEnough'
  BY <1>1, BuffersKept DEF IInv, Shapes
<1>5. \A u \in Actors \ {t} : Leaves(u)
  BY <1>1, LeavesQuiet DEF Known
<1>6. Punches(t)'
  <2>1. Punches(t)
    BY DEF IInv, Actor
  <2> QED
    BY <1>1, <1>2, <2>1 DEF Punches, Known, Blocks
<1>7. \A k \in Blocks : Good(k)'
  BY <1>1, <1>2, CopiedSame, GoodQuiet
<1>8. [FileStep]_<<Contents, Hole>>
  BY <1>1, <1>2, FileSame DEF Value, OnDisk
<1> QED
  BY <1>1, <1>2, <1>3, <1>4, <1>5, <1>6, <1>7, <1>8, Together DEF Sound, Actor

\* The hole leaves the status tree before the first removal.
LEMMA CutKeeps == ASSUME IInv, NEW t \in Actors, Cut(t) PROVE Sound
<1>1. PICK p \in {"remove", "drain", "again"} : p # "again" /\ Go(t, p)
  BY DEF Cut
<1>2. /\ pc[t] \in {"cut", "again"}
      /\ status' = IF pc[t] = "cut" THEN Are(Span(t), "none") ELSE status
      /\ UNCHANGED <<tree, disk, reserved, page, buffer, dirty, writeback, call, gap, calls, torn>>
  BY DEF Cut, cache
<1>3. /\ \A u \in Actors \ {t} : Same(u) /\ Apart(t, u)' /\ Apart(u, t)'
      /\ pc' \in [Actors -> Places] /\ pc'[t] = p /\ call'[t] = call[t] /\ Span(t)' = Span(t)
      /\ DroppedBy(t) = Span(t) /\ DroppedBy(t)' = Span(t)
      /\ Hole' = Hole /\ Placed(t)' /\ Holds(t)' /\ Maps(t)' /\ Fills(t)'
  BY <1>1, <1>2, PunchGoes
<1>4. status' \in [Blocks -> States] /\ \A k \in Blocks : status'[k] \in {"none", status[k]}
  BY <1>2 DEF Are, IInv, Shapes, States
<1>5. Shapes'
  BY <1>2, <1>3, <1>4 DEF IInv, Shapes, Blocks, Actors, CallSet
<1>6. ReservedEnough'
  BY <1>2, BuffersKept DEF IInv, Shapes
<1>7. \A k \in Blocks : Known(k)' => Known(k)
  BY <1>4 DEF Known
<1>8. \A u \in Actors \ {t} : Leaves(u)
  BY <1>2, <1>7, LeavesQuiet
<1>9. Punches(t)'
  <2>1. Punches(t)
    BY DEF IInv, Actor
  <2>2. \A k \in Blocks : k \in Span(t) \ torn => ~Known(k)'
    <3>1. CASE pc[t] = "cut"
      BY <1>2, <3>1 DEF Are, Known
    <3>2. CASE pc[t] = "again"
      BY <1>7, <2>1, <3>2 DEF Punches
    <3> QED
      BY <1>2, <3>1, <3>2
  <2> QED
    BY <1>2, <1>3, <2>1, <2>2 DEF Punches, Blocks
<1>10. \A k \in Blocks : Good(k)'
  BY <1>2, <1>3, <1>4, CopiedSame, GoodQuiet
<1>11. [FileStep]_<<Contents, Hole>>
  BY <1>2, <1>3, FileSame DEF Value, OnDisk
<1> QED
  BY <1>2, <1>3, <1>5, <1>6, <1>8, <1>9, <1>10, <1>11, Together DEF Sound, Actor

\* Blocks go, all of which were dropped before.
LEMMA RemoveKeeps == ASSUME IInv, NEW t \in Actors, Remove(t) PROVE Sound
<1>1. PICK a \in Span(t) :
        /\ tree' = [l \in Blocks |-> IF l \in a .. call[t].last THEN "hole" ELSE tree[l]]
        /\ disk' = [l \in Blocks |-> IF l \in a .. call[t].last THEN "junk" ELSE disk[l]]
        /\ IF \A l \in Left(t) : a <= l THEN End(t) ELSE Go(t, "drain") /\ UNCHANGED call
  BY DEF Remove
<1>2. /\ pc[t] = "remove" /\ UNCHANGED <<status, reserved, page, buffer, dirty, writeback, gap, calls, torn>>
  BY DEF Remove, cache
<1>3. Does(t, {"punch"}) /\ Mutexed(t) /\ Punches(t) /\ call[t].first \in Blocks /\ call[t].last \in Blocks
  BY <1>2, PlaceTells DEF IInv, Actor, Mutexed, Does
<1>4. DroppedBy(t) = Span(t) /\ Span(t) \subseteq Blocks /\ a .. call[t].last \subseteq Span(t)
  BY <1>2, <1>3, DelallocAssumption DEF DroppedBy, Span, Blocks
<1>5. \A l \in Blocks : l \notin a .. call[t].last => tree'[l] = tree[l] /\ disk'[l] = disk[l]
  BY <1>1
<1>6. \A l \in Blocks : l \in a .. call[t].last => tree'[l] = "hole"
  BY <1>1
<1>7. tree' \in [Blocks -> {"hole", "unwritten", "written"}] /\ disk' \in [Blocks -> {"zero", "old", "new", "junk"}]
  BY <1>1 DEF IInv, Shapes
<1>8. ReservedEnough'
  BY <1>2, BuffersKept DEF IInv, Shapes
<1>9. ASSUME NEW u \in Actors \ {t} PROVE Leaves(u)
  <2>1. \A l \in Blocks : tree[l] = "hole" => tree'[l] = "hole"
    BY <1>5, <1>6
  <2>2. ~Does(u, {"punch"})
    BY <1>3, OneHole
  <2>3. DroppedBy(u) = {} /\ ~Removes(u)
    BY <2>2, PlaceTells DEF DroppedBy, Removes
  <2>4. ASSUME NEW l \in Blocks, Reads(u), LocksIt(u, l), l \notin torn'
        PROVE  OnDisk(l)' = OnDisk(l) /\ (tree[l] = "written" => tree'[l] = "written")
    <3>1. l \notin Span(t)
      BY <1>2, <1>4, <2>4 DEF IInv, Apart, LocksIt
    <3> QED
      BY <1>4, <1>5, <3>1 DEF OnDisk
  <2> QED
    BY <1>2, <2>1, <2>3, <2>4 DEF Leaves
<1>10. ASSUME \A k : (Copied(k) => Copied(k)') /\ (Submitted(k) => Submitted(k)')
       PROVE  \A l \in Blocks : Good(l)'
  <2> SUFFICES ASSUME NEW l \in Blocks PROVE Good(l)'
    OBVIOUS
  <2>1. Good(l)
    BY DEF IInv
  <2>2. CASE l \notin a .. call[t].last
    <3>1. tree'[l] = tree[l] /\ disk'[l] = disk[l] /\ OnDisk(l)' = OnDisk(l)
      BY <1>5, <2>2 DEF OnDisk
    <3> QED
      BY <1>2, <1>10, <2>1, <3>1 DEF Good
  <2>3. CASE l \in a .. call[t].last
    <3>1. l \in Span(t) /\ tree'[l] = "hole"
      BY <1>4, <1>6, <2>3
    <3>2. l \notin dirty /\ l \notin writeback /\ buffer[l] = "none" /\ (page[l] = "absent" \/ l \in torn)
      BY <1>3, <1>4, <3>1 DEF Punches
    <3>3. l \notin torn => ~Known(l)
      BY <1>2, <1>3, <3>1 DEF Punches
    <3> QED
      BY <1>2, <2>1, <3>1, <3>2, <3>3 DEF Good, Known
  <2> QED
    BY <2>2, <2>3
<1>11. \A l \in Blocks : l \notin Hole => Value(l)' = Value(l)
  <2>1. Span(t) \subseteq Hole
    BY <1>2, <1>3, InHole
  <2> QED
    BY <1>2, <1>4, <1>5, <2>1 DEF Value, OnDisk
<1>12. CASE \A l \in Left(t) : a <= l
  <2>1. End(t)
    BY <1>1, <1>12
  <2>2. /\ \A u \in Actors \ {t} : Same(u)
        /\ call' \in [Actors -> CallSet] /\ pc' \in [Actors -> Places]
        /\ call'[t].kind = "none" /\ pc'[t] = "idle" /\ ~Locks(t)' /\ DroppedBy(t)' = {}
        /\ Actor(t)'
    BY <1>2, <2>1, EndKeeps
  <2>3. Shapes'
    BY <1>2, <1>7, <2>2 DEF IInv, Shapes, Blocks, Actors, CallSet
  <2>4. \A u \in Actors \ {t} : Apart(t, u)' /\ Apart(u, t)'
    BY <1>2, <2>2, ApartKept DEF Does
  <2>5. \A l \in Blocks : Good(l)'
    BY <1>2, <1>10, <2>2, CopiedSame
  <2>6. Hole = Span(t) /\ Hole' = {}
    <3>1. \A u \in Actors \ {t} : ~Does(u, {"punch"}) /\ ~Does(u, {"punch"})'
      BY <1>3, <2>2, OneHole, SameIs
    <3>2. \A l : l \in Hole <=> l \in Span(t)
      BY <1>2, <1>3, <3>1, InHole
    <3>3. ~Does(t, {"punch"})'
      BY <2>2 DEF Does
    <3>4. \A l : l \notin Hole'
      BY <3>1, <3>3, InHoleNext
    <3> QED
      BY <3>2, <3>4
  <2>7. \A l \in Blocks : l \in Span(t) => tree'[l] = "hole"
    <3>1. \A l \in Span(t) : l \notin a .. call[t].last => ~(a <= l)
      BY <1>3, DelallocAssumption DEF Span, Blocks
    <3> QED
      BY <1>5, <1>6, <1>12, <3>1 DEF Left
  <2>8. \A l \in Blocks : l \in Span(t) /\ l \notin torn => Value(l)' = "zero"
    BY <1>2, <1>3, <1>4, <2>7 DEF Punches, Value, OnDisk
  <2>9. Contents' = Contents
    BY <1>2, <1>11, <2>6, <2>8, ContentsAre, ContentsNext
  <2>10. Data!Punched
    BY <2>6, <2>9 DEF Data!Punched
  <2> QED
    BY <1>2, <1>8, <1>9, <2>2, <2>3, <2>4, <2>5, <2>10, Together DEF Sound, FileStep
<1>13. CASE ~(\A l \in Left(t) : a <= l)
  <2>1. Go(t, "drain") /\ UNCHANGED call
    BY <1>1, <1>13
  <2>2. /\ \A u \in Actors \ {t} : Same(u) /\ Apart(t, u)' /\ Apart(u, t)'
        /\ pc' \in [Actors -> Places] /\ pc'[t] = "drain" /\ call'[t] = call[t] /\ Span(t)' = Span(t)
        /\ DroppedBy(t) = Span(t) /\ DroppedBy(t)' = Span(t)
        /\ Hole' = Hole /\ Placed(t)' /\ Holds(t)' /\ Maps(t)' /\ Fills(t)'
    BY <1>2, <2>1, PunchGoes
  <2>3. Shapes'
    BY <1>2, <1>7, <2>1, <2>2 DEF IInv, Shapes, Blocks, Actors, CallSet
  <2>4. Punches(t)'
    BY <1>2, <1>3, <2>2 DEF Punches, Known, Blocks
  <2>5. \A l \in Blocks : Good(l)'
    BY <1>2, <1>10, <2>2, CopiedSame
  <2>6. [FileStep]_<<Contents, Hole>>
    BY <1>2, <1>11, <2>2, FileSame
  <2> QED
    BY <1>2, <1>8, <1>9, <2>2, <2>3, <2>4, <2>5, <2>6, Together DEF Sound, Actor
<1> QED
  BY <1>12, <1>13

\* A page goes, and what it has reserved.
LEMMA DropKeeps == ASSUME IInv, NEW t \in Actors, Drop(t) PROVE Sound
<1> DEFINE l == call[t].at
           c == IF l = call[t].last THEN call[t] ELSE [call[t] EXCEPT !.at = l + 1]
           p == IF l = call[t].last THEN "cut" ELSE "drop"
<1>1. /\ pc[t] = "drop" /\ ~Locked(l) /\ l \notin writeback /\ l \in Blocks
      /\ Does(t, {"punch"}) /\ Mutexed(t) /\ Placed(t) /\ Punches(t) /\ gap[t] = {}
      /\ call[t].first \in Blocks /\ call[t].last \in Blocks
  <2>1. pc[t] = "drop" /\ ~Locked(l) /\ l \notin writeback
    BY DEF Drop
  <2> QED
    BY <2>1, PlaceTells DEF IInv, Actor, Maps, Mutexed, Does
<1>2. /\ status' = IF buffer[l] = "delay" THEN Are({l}, "none") ELSE status
      /\ reserved' = IF buffer[l] = "delay" THEN reserved - 1 ELSE reserved
      /\ page' = [page EXCEPT ![l] = "absent"] /\ buffer' = [buffer EXCEPT ![l] = "none"]
      /\ dirty' = dirty \ {l}
      /\ UNCHANGED <<tree, disk, writeback, gap, calls, torn>>
  BY DEF Drop
<1>3. call' = [call EXCEPT ![t] = c] /\ pc' = [pc EXCEPT ![t] = p]
  BY <1>1 DEF Drop, Go, IInv, Shapes
<1>4. /\ c \in CallSet /\ c.kind = call[t].kind /\ c.first = call[t].first /\ c.last = call[t].last
      /\ c.first <= c.at /\ c.at <= c.last
  <2>1. l # call[t].last => l + 1 \in Blocks /\ l + 1 <= call[t].last /\ call[t].first <= l + 1
    BY <1>1, DelallocAssumption DEF Placed, Blocks
  <2> QED
    BY <1>1, <2>1 DEF IInv, Shapes, CallSet, Placed
<1>5. (p = "cut" /\ c.at = l /\ l = call[t].last) \/ (p = "drop" /\ c.at = l + 1)
  BY <1>4 DEF IInv, Shapes, CallSet
<1> HIDE DEF c, p
<1>6. call'[t] = c /\ pc'[t] = p /\ \A u \in Actors \ {t} : Same(u)
  BY <1>2, <1>3 DEF IInv, Shapes, Same
<1>7. /\ Does(t, {"punch"})' /\ ~Locks(t)' /\ Span(t)' = Span(t)
      /\ ~Writes(t)' /\ ~Reads(t)' /\ ~Flushes(t)'
  BY <1>1, <1>4, <1>6 DEF Locks, Writes, Reads, Flushes, Does, Span
<1>8. /\ \A k \in Blocks : k # l => page'[k] = page[k] /\ buffer'[k] = buffer[k] /\ status'[k] = status[k]
      /\ page'[l] = "absent" /\ buffer'[l] = "none" /\ status'[l] \in {"none", status[l]}
      /\ status'[l] # "delayed"
  <2>1. status[l] = "delayed" => buffer[l] = "delay"
    BY <1>1 DEF IInv, Good
  <2> QED
    BY <1>1, <1>2, <2>1 DEF Are, IInv, Shapes
<1>9. Shapes'
  <2>1. call' \in [Actors -> CallSet] /\ pc' \in [Actors -> Places]
    BY <1>3, <1>4, <1>5 DEF IInv, Shapes, Places
  <2>2. status' \in [Blocks -> States] /\ reserved' \in Int
    BY <1>2 DEF Are, IInv, Shapes, States
  <2>3. /\ page' \in [Blocks -> {"absent", "zero", "old", "new", "junk"}]
        /\ buffer' \in [Blocks -> {"none", "mapped", "delay", "unwritten"}]
        /\ dirty' \subseteq Blocks
    BY <1>2 DEF IInv, Shapes
  <2> QED
    BY <1>2, <2>1, <2>2, <2>3 DEF IInv, Shapes, Blocks, Actors, CallSet
<1>10. ReservedEnough'
  <2>1. Delayed' = Delayed \ {l}
    BY <1>1, <1>2 DEF Delayed, IInv, Shapes, Blocks
  <2>2. l \in Delayed <=> buffer[l] = "delay"
    BY <1>1 DEF Delayed
  <2> QED
    BY <1>2, <2>1, <2>2, Reserved DEF IInv, Shapes
<1>11. DroppedBy(t)' = DroppedBy(t) \cup {l}
  <2>1. l \in Span(t) /\ \A k \in Blocks : k < l + 1 <=> k < l \/ k = l
    BY <1>1, DelallocAssumption DEF Placed, Span, Blocks
  <2>2. \A k \in Blocks : k \in Span(t) => k <= call[t].last
    BY <1>1, DelallocAssumption DEF Span, Blocks
  <2>3. DroppedBy(t) = {k \in Blocks : k \in Span(t) /\ k < l}
    BY <1>1 DEF DroppedBy
  <2>4. CASE p = "drop" /\ c.at = l + 1
    <3>1. DroppedBy(t)' = {k \in Blocks : k \in Span(t) /\ k < l + 1}
      BY <1>6, <1>7, <2>4 DEF DroppedBy, Blocks
    <3> QED
      BY <1>1, <2>1, <2>3, <3>1
  <2>5. CASE p = "cut" /\ l = call[t].last
    <3>1. DroppedBy(t)' = {k \in Blocks : k \in Span(t)}
      BY <1>6, <1>7, <2>5 DEF DroppedBy, Blocks
    <3>2. \A k \in Blocks : k \in Span(t) => k < l \/ k = l
      BY <1>1, <2>2, <2>5, DelallocAssumption DEF Blocks
    <3> QED
      BY <1>1, <2>1, <2>3, <3>1, <3>2
  <2> QED
    BY <1>5, <2>4, <2>5
<1>12. Actor(t)'
  <2>1. Placed(t)'
    <3>1. /\ call'[t].first <= call'[t].at /\ call'[t].at <= call'[t].last /\ pc'[t] \in {"drop", "cut"}
          /\ ~Does(t, {"none"})' /\ ~Does(t, {"fallocate"})' /\ ~Does(t, {"read"})'
      BY <1>4, <1>5, <1>6, <1>7 DEF Does
    <3> QED
      BY <1>7, <3>1 DEF Placed
  <2>2. Holds(t)'
    BY <1>5, <1>6, <1>7 DEF Holds
  <2>3. Maps(t)' /\ Fills(t)'
    BY <1>1, <1>2, <1>5, <1>6 DEF Maps, Fills
  <2>4. Punches(t)'
    <3>1. \A k \in DroppedBy(t) \cup {l} : k \notin dirty' /\ k \notin writeback' /\ buffer'[k] = "none"
            /\ (page'[k] = "absent" \/ k \in torn')
      <4>1. DroppedBy(t) \subseteq Blocks
        BY DEF DroppedBy
      <4> QED
        BY <1>1, <1>2, <1>8, <4>1 DEF Punches
    <3> QED
      BY <1>5, <1>6, <1>11, <3>1 DEF Punches
  <2> QED
    BY <2>1, <2>2, <2>3, <2>4 DEF Actor
<1>13. ASSUME NEW u \in Actors \ {t} PROVE Leaves(u)
  <2>1. ~LocksIt(u, l)
    BY <1>1, LockedIs
  <2>2. ~Does(u, {"punch"})
    BY <1>1, OneHole
  <2>3. DroppedBy(u) = {} /\ ~Removes(u)
    BY <2>2, PlaceTells DEF DroppedBy, Removes
  <2> QED
    BY <1>2, <1>8, <2>1, <2>3 DEF Leaves, OnDisk
<1>14. \A u \in Actors \ {t} : Apart(t, u)' /\ Apart(u, t)'
  BY <1>1, <1>2, <1>4, <1>6, <1>7, <1>11, ApartKept
<1>15. \A k \in Blocks : Good(k)'
  <2> SUFFICES ASSUME NEW k \in Blocks PROVE Good(k)'
    OBVIOUS
  <2>1. Good(k) /\ OnDisk(k)' = OnDisk(k)
    BY <1>2 DEF IInv, OnDisk
  <2>2. (Copied(k) => Copied(k)') /\ (Submitted(k) => Submitted(k)')
    BY <1>1, <1>6, CopiedSame
  <2>3. CASE k = l
    BY <1>1, <1>2, <1>8, <2>1, <2>2, <2>3 DEF Good
  <2>4. CASE k # l
    BY <1>2, <1>8, <2>1, <2>2, <2>4 DEF Good
  <2> QED
    BY <2>3, <2>4
<1>16. [FileStep]_<<Contents, Hole>>
  <2>1. Hole' = Hole
    BY <1>1, <1>5, <1>6, <1>7, HoleSame
  <2>2. l \in Hole
    BY <1>1, InHole DEF Placed, Span, Blocks
  <2> QED
    BY <1>2, <1>8, <2>1, <2>2, FileSame DEF Value, OnDisk
<1> QED
  BY <1>2, <1>6, <1>9, <1>10, <1>12, <1>13, <1>14, <1>15, <1>16, Together DEF Sound
-----------------------------------------------------------------------------
(***************************************************************************)
(* Mapping a block.                                                        *)
(***************************************************************************)

\* fallocate goes on, or ends.
LEMMA PassIs ==
  ASSUME IInv, NEW t \in Actors, Does(t, {"fallocate"}), NEW e \in call[t].at .. call[t].last, Pass(t, e),
         UNCHANGED <<gap, torn>>, pc[t] # "gap"
  PROVE  /\ \A u \in Actors \ {t} : Same(u) /\ Apart(t, u)' /\ Apart(u, t)'
         /\ call' \in [Actors -> CallSet] /\ pc' \in [Actors -> Places]
         /\ Actor(t)' /\ Hole' = Hole
<1>1. CASE e = call[t].last
  <2>1. End(t)
    BY <1>1 DEF Pass
  <2>2. /\ \A u \in Actors \ {t} : Same(u)
        /\ call' \in [Actors -> CallSet] /\ pc' \in [Actors -> Places]
        /\ call'[t].kind = "none" /\ pc'[t] = "idle" /\ ~Locks(t)' /\ DroppedBy(t)' = {}
        /\ Actor(t)'
    BY <2>1, EndKeeps
  <2>3. \A u \in Actors \ {t} : Apart(t, u)' /\ Apart(u, t)'
    BY <2>2, ApartKept DEF Does
  <2>4. Hole' = Hole
    BY <2>2, HoleSame DEF Does
  <2> QED
    BY <2>2, <2>3, <2>4
<1>2. CASE e # call[t].last
  <2> DEFINE c == [call[t] EXCEPT !.at = e + 1]
  <2>1. call' = [call EXCEPT ![t] = c] /\ pc' = [pc EXCEPT ![t] = "look"]
    BY <1>2 DEF Pass, Go, IInv, Shapes
  <2>2. e + 1 \in Blocks /\ e + 1 <= call[t].last /\ call[t].first <= e + 1
    BY <1>2, PlaceTells, DelallocAssumption DEF Placed, Blocks
  <2>3. /\ c \in CallSet /\ c.kind = call[t].kind /\ c.first = call[t].first /\ c.last = call[t].last
        /\ c.at = e + 1
    BY <2>2 DEF IInv, Shapes, CallSet
  <2> HIDE DEF c
  <2>4. call'[t] = c /\ pc'[t] = "look" /\ \A u \in Actors \ {t} : Same(u)
    BY <2>1 DEF IInv, Shapes, Same
  <2>5. call' \in [Actors -> CallSet] /\ pc' \in [Actors -> Places]
    BY <2>1, <2>3 DEF IInv, Shapes, Places
  <2>6. /\ Does(t, {"fallocate"})' /\ ~Does(t, {"punch"})' /\ ~Does(t, {"punch"}) /\ ~Locks(t)'
        /\ ~Writes(t)' /\ ~Reads(t)' /\ ~Flushes(t)' /\ DroppedBy(t)' = {}
    BY <2>3, <2>4 DEF Does, Locks, Writes, Reads, Flushes, DroppedBy
  <2>7. gap'[t] = {}
    BY DEF IInv, Actor, Maps
  <2>8. Placed(t)'
    <3>1. /\ call'[t].first <= call'[t].at /\ call'[t].at <= call'[t].last /\ ~Does(t, {"none"})'
      BY <2>2, <2>3, <2>4, <2>6 DEF Does
    <3> QED
      BY <2>4, <2>6, <3>1 DEF Placed
  <2>9. Holds(t)' /\ Maps(t)' /\ Fills(t)' /\ Punches(t)'
    BY <2>4, <2>6, <2>7 DEF Holds, Maps, Fills, Punches
  <2>10. \A u \in Actors \ {t} : Apart(t, u)' /\ Apart(u, t)'
    BY <2>3, <2>4, <2>6, ApartKept
  <2>11. Hole' = Hole
    BY <2>4, <2>6, HoleSame
  <2> QED
    BY <2>4, <2>5, <2>8, <2>9, <2>10, <2>11 DEF Actor
<1> QED
  BY <1>1, <1>2

\* Where a call may go with what it has found: b is the buffer of its page, g a gap.
Comes(t, p, b, g) ==
    LET l == call[t].at IN
    /\ p \in Places
    /\ Writes(t) => (p \in {"tree", "gap", "add", "held"} /\ b = "none") \/ (p = "copy" /\ b # "none")
    /\ Reads(t) => \/ p \in {"tree", "gap"}
                   \/ p = "zero" /\ (l \notin torn => OnDisk(l) = "zero")
                   \/ p = "disk" /\ (l \notin torn => tree[l] = "written")
    /\ Flushes(t) => p \in {"tree", "gap", "map"} \/ (p = "submit" /\ b = "mapped")
    /\ Does(t, {"fallocate"}) => p \in {"tree", "gap", "allocate"}
    /\ \A k \in g : p = "gap" /\ k \in Blocks /\ tree[k] = "hole"
    /\ p = "gap" => tree[l] = "hole"

\* What it may put in the status tree and in the buffer.
Says(t, b, where) ==
    LET l == call[t].at IN
    /\ status' \in [Blocks -> States]
    /\ \A k \in Blocks : k # l =>
         status'[k] \in {"none", status[k]} \/ (status'[k] = "hole" /\ tree[k] = "hole")
    /\ status'[l] = "delayed" => b = "delay"
    /\ l \notin torn =>
        /\ status'[l] = "hole" => tree[l] = "hole"
        /\ status'[l] \in {"unwritten", "both"} => tree[l] = "unwritten"
        /\ status'[l] = "written" => tree[l] = "written"
        /\ b = "mapped" => tree[l] = "written"
    /\ buffer' = [buffer EXCEPT ![l] = b] /\ b \in {"none", "mapped", "delay", "unwritten"}
    /\ b = "delay" /\ b # buffer[l] => where = "copy"
    /\ b = buffer[l] \/ (b # "none" /\ (Writes(t) \/ Flushes(t)))

\* What a call puts there disturbs nobody.
LEMMA SaysKeeps ==
  ASSUME IInv, NEW t \in Actors, pc[t] \in {"look", "tree", "gap", "add", "held"}, NEW b, NEW where,
         Says(t, b, where), where = pc'[t], where = "copy" => UNCHANGED call, \A u \in Actors \ {t} : Same(u),
         UNCHANGED <<tree, disk, page, dirty, writeback, torn>>
  PROVE  /\ \A u \in Actors \ {t} : Leaves(u)
         /\ \A k \in Blocks : Good(k)'
         /\ buffer' \in [Blocks -> {"none", "mapped", "delay", "unwritten"}]
<1> DEFINE l == call[t].at
<1>1. l \in Blocks /\ call[t].kind \notin {"none", "punch"} /\ call[t].kind \in Kinds
  BY PlaceTells DEF Writes, Does
<1>2. \A k \in Blocks : buffer'[k] = IF k = l THEN b ELSE buffer[k]
  BY DEF Says, IInv, Shapes
<1>3. buffer' \in [Blocks -> {"none", "mapped", "delay", "unwritten"}]
  BY DEF Says, IInv, Shapes
<1>4. b = buffer[l] => UNCHANGED buffer
  BY <1>1 DEF Says, IInv, Shapes
<1>5. Writes(t) \/ Flushes(t) => Locks(t) /\ ~Reads(t)
  BY DEF Locks, Writes, Reads, Flushes, Does
<1>6. Reads(t) \/ ~Locks(t) => UNCHANGED buffer
  BY <1>4, <1>5 DEF Says
<1>7. \A k \in Blocks : k # l => buffer'[k] = buffer[k] /\ (Known(k)' => Known(k))
  BY <1>2 DEF Says, Known
<1>8. \A u \in Actors \ {t} : Leaves(u)
  BY <1>1, <1>6, <1>7, LeavesMine
<1>9. \A k \in Blocks : Good(k)'
  <2> SUFFICES ASSUME NEW k \in Blocks PROVE Good(k)'
    OBVIOUS
  <2>1. CASE k # l
    <3>1. status'[k] \in {"none", status[k]} \/ (status'[k] = "hole" /\ tree[k] = "hole")
      BY <2>1 DEF Says
    <3> QED
      BY <1>7, <2>1, <3>1, GoodOther
  <2>2. CASE k = l
    <3>1. Good(k) /\ OnDisk(k)' = OnDisk(k) /\ buffer'[k] = b
      BY <1>2, <2>2 DEF IInv, OnDisk
    <3>2. Submitted(k) => Submitted(k)'
      BY CopiedSame
    <3>3. b = "delay" => k \in dirty \/ Copied(k)'
      <4>1. CASE where = "copy"
        <5>1. pc'[t] = "copy" /\ call'[t].at = k
          BY <2>2, <4>1
        <5> QED
          BY <5>1 DEF Copied, Actors
      <4>2. CASE b = buffer[k] /\ b = "delay"
        <5>1. k \in dirty \/ Copied(k)
          BY <3>1, <4>2 DEF Good
        <5> QED
          BY <5>1, CopiedSame
      <4>3. b = "delay" /\ b # buffer[k] => where = "copy"
        BY <2>2 DEF Says
      <4> QED
        BY <4>1, <4>2, <4>3
    <3>4. k \in dirty => page[k] # "absent" /\ b # "none"
      BY <2>2, <3>1 DEF Good, Says
    <3>5. /\ status'[k] = "delayed" => b = "delay"
          /\ k \notin torn =>
               /\ status'[k] = "hole" => tree[k] = "hole"
               /\ status'[k] \in {"unwritten", "both"} => tree[k] = "unwritten"
               /\ status'[k] = "written" => tree[k] = "written"
               /\ b = "mapped" => tree[k] = "written"
      BY <2>2 DEF Says
    <3> QED
      BY <3>1, <3>2, <3>3, <3>4, <3>5 DEF Good
  <2> QED
    BY <2>1, <2>2
<1> QED
  BY <1>3, <1>8, <1>9

LEMMA LessDelayed ==
  ASSUME IInv, NEW l \in Blocks, NEW b, b # "delay" \/ b = buffer[l], buffer' = [buffer EXCEPT ![l] = b],
         UNCHANGED reserved
  PROVE  ReservedEnough'
<1>1. Delayed' \subseteq Delayed
  BY DEF Delayed, IInv, Shapes, Blocks
<1> QED
  BY <1>1, Reserved DEF IInv, Shapes

\* A call goes on with what it has found.
LEMMA ComesKeeps ==
  ASSUME IInv, NEW t \in Actors, pc[t] \in {"look", "tree", "gap", "add", "held"}, NEW b, NEW p, NEW g,
         Comes(t, p, b, g), Says(t, b, p), Go(t, p), gap' = [gap EXCEPT ![t] = g],
         UNCHANGED <<tree, disk, page, dirty, writeback, call, calls, torn>>,
         reserved' \in Int, ReservedEnough'
  PROVE  Sound
<1> DEFINE l == call[t].at
<1>1. l \in Blocks /\ call[t].kind \notin {"none", "punch"} /\ call[t].kind \in Kinds /\ Placed(t)
  BY PlaceTells DEF Writes, Does
<1>2. p \in Places /\ \A u \in Actors \ {t} : gap'[u] = gap[u]
  BY DEF Comes, IInv, Shapes
<1>3. /\ \A u \in Actors \ {t} : Same(u)
      /\ pc' \in [Actors -> Places] /\ pc'[t] = p /\ call'[t] = call[t]
      /\ Writes(t)' = Writes(t) /\ Reads(t)' = Reads(t) /\ Flushes(t)' = Flushes(t)
      /\ \A kinds : Does(t, kinds)' = Does(t, kinds)
      /\ Span(t)' = Span(t) /\ Mutexed(t)' = Mutexed(t)
  BY <1>2, GoIs
<1>4. /\ \A u \in Actors \ {t} : Leaves(u)
      /\ \A k \in Blocks : Good(k)'
      /\ buffer' \in [Blocks -> {"none", "mapped", "delay", "unwritten"}]
  BY <1>3, SaysKeeps
<1>5. gap' \in [Actors -> SUBSET Blocks] /\ gap'[t] = g
  BY DEF Comes, IInv, Shapes
<1>6. Shapes'
  BY <1>3, <1>4, <1>5 DEF Says, IInv, Shapes, Blocks, Actors, CallSet, States
<1>7. buffer'[l] = b
  BY <1>1 DEF Says, IInv, Shapes
<1>8. Locks(t)' => Locks(t)
  BY <1>3 DEF Locks
<1>9. Placed(t)'
  BY <1>1, <1>3 DEF Comes, Placed, Does, Kinds, Writes, Reads, Flushes
<1>10. Holds(t)'
  <2>1. Holds(t) /\ (Reads(t) \/ Flushes(t) => Locks(t))
    BY DEF IInv, Actor, Locks
  <2>2. Writes(t) /\ p \in {"tree", "gap", "add", "held"} => b = "none"
    BY DEF Comes
  <2>3. p = "copy" => b # "none"
    BY <1>1 DEF Comes, Kinds, Does, Writes, Reads, Flushes
  <2>4. p = "submit" => b = "mapped"
    BY <1>1 DEF Comes, Kinds, Does, Writes, Reads, Flushes
  <2> QED
    BY <1>3, <1>7, <2>1, <2>2, <2>3, <2>4 DEF Holds
<1>11. Maps(t)' /\ Fills(t)'
  <2>1. Maps(t)'
    BY <1>3, <1>5 DEF Comes, Maps
  <2>2. p \in {"zero", "disk"} => Reads(t)
    BY <1>1 DEF Comes, Kinds, Does, Writes, Reads, Flushes
  <2>3. OnDisk(l) = IF tree[l] = "written" THEN disk[l] ELSE "zero"
    BY DEF OnDisk
  <2> QED
    BY <1>3, <2>1, <2>2, <2>3 DEF Comes, Fills, OnDisk
<1>12. DroppedBy(t)' = {} /\ ~Does(t, {"punch"})'
  BY <1>1, <1>3 DEF DroppedBy, Does
<1>13. Punches(t)'
  <2>1. p \notin {"remove", "drain", "again"}
    BY <1>1 DEF Comes, Kinds, Does, Writes, Reads, Flushes
  <2> QED
    BY <1>3, <1>12, <2>1 DEF Punches
<1>14. \A u \in Actors \ {t} : Apart(t, u)' /\ Apart(u, t)'
  BY <1>3, <1>8, <1>12, ApartKept
<1>15. Hole' = Hole
  BY <1>1, <1>3, <1>12, HoleSame DEF Does
<1>16. [FileStep]_<<Contents, Hole>>
  BY <1>15, FileSame DEF Value, OnDisk
<1> QED
  BY <1>3, <1>4, <1>6, <1>9, <1>10, <1>11, <1>13, <1>14, <1>16, Together DEF Sound, Actor

\* Or fallocate passes a written block.
LEMMA PassKeeps ==
  ASSUME IInv, NEW t \in Actors, pc[t] \in {"look", "tree"}, Does(t, {"fallocate"}), Pass(t, call[t].at),
         Says(t, buffer[call[t].at], pc'[t]),
         UNCHANGED <<tree, disk, reserved, page, dirty, writeback, gap, calls, torn>>
  PROVE  Sound
<1>1. call[t].at \in Blocks /\ call[t].at \in call[t].at .. call[t].last
  BY PlaceTells, DelallocAssumption DEF Placed, Blocks
<1>2. /\ \A u \in Actors \ {t} : Same(u) /\ Apart(t, u)' /\ Apart(u, t)'
      /\ call' \in [Actors -> CallSet] /\ pc' \in [Actors -> Places]
      /\ Actor(t)' /\ Hole' = Hole
  BY <1>1, PassIs
<1>3. pc'[t] # "copy"
  BY DEF Pass, End, Go, IInv, Shapes
<1>4. /\ \A u \in Actors \ {t} : Leaves(u)
      /\ \A k \in Blocks : Good(k)'
      /\ buffer' \in [Blocks -> {"none", "mapped", "delay", "unwritten"}]
  BY <1>2, <1>3, SaysKeeps
<1>5. Shapes'
  BY <1>2, <1>4 DEF Says, IInv, Shapes, Blocks, Actors, CallSet, States
<1>6. ReservedEnough'
  BY <1>1, LessDelayed DEF Says
<1>7. [FileStep]_<<Contents, Hole>>
  BY <1>2, FileSame DEF Value, OnDisk
<1> QED
  BY <1>2, <1>4, <1>5, <1>6, <1>7, Together DEF Sound

LEMMA FoundKeeps ==
  ASSUME IInv, NEW t \in Actors, pc[t] \in {"look", "tree"}, NEW what \in {"unwritten", "written"},
         Found(t, what), Writes(t) => buffer[call[t].at] = "none",
         call[t].at \notin torn => tree[call[t].at] = what,
         NEW s \in {what} \cup (IF what = "unwritten" THEN {"both"} ELSE {}), Is(call[t].at, s),
         UNCHANGED <<tree, disk, reserved, page, dirty, writeback, gap, calls, torn>>
  PROVE  Sound
<1> DEFINE l == call[t].at
           b == IF Writes(t) \/ (Flushes(t) /\ what = "written")
                THEN IF what = "written" THEN "mapped" ELSE "unwritten" ELSE buffer[l]
<1>1. /\ l \in Blocks /\ call[t].kind \notin {"none", "punch"} /\ call[t].kind \in Kinds
      /\ gap[t] = {}
  BY PlaceTells DEF IInv, Actor, Maps
<1>2. buffer' = [buffer EXCEPT ![l] = b] /\ b \in {"none", "mapped", "delay", "unwritten"}
  BY <1>1 DEF Found, IInv, Shapes
<1>3. status' \in [Blocks -> States] /\ \A k \in Blocks : status'[k] = IF k = l THEN s ELSE status[k]
  BY <1>1 DEF Is, IInv, Shapes, States
<1>4. Good(l)
  BY <1>1 DEF IInv
<1>5. b = buffer[l] \/ (b # "none" /\ b # "delay" /\ (Writes(t) \/ Flushes(t)))
  OBVIOUS
<1>6. l \notin torn /\ b = "mapped" => tree[l] = "written"
  BY <1>4 DEF Good
<1>7. \A where : Says(t, b, where)
  BY <1>1, <1>2, <1>3, <1>5, <1>6 DEF Says
<1>8. ReservedEnough' /\ reserved' \in Int
  BY <1>1, <1>2, <1>5, LessDelayed DEF IInv, Shapes
<1>9. CASE Does(t, {"fallocate"}) /\ what = "written"
  <2>1. Pass(t, l) /\ b = buffer[l]
    BY <1>9 DEF Found, Does, Writes, Flushes
  <2> QED
    BY <1>7, <1>9, <2>1, PassKeeps
<1>10. CASE ~(Does(t, {"fallocate"}) /\ what = "written")
  <2> DEFINE p == CASE Writes(t) -> "copy"
                    [] Reads(t) -> IF what = "written" THEN "disk" ELSE "zero"
                    [] Flushes(t) -> IF what = "written" THEN "submit" ELSE "map"
                    [] OTHER -> "allocate"
  <2>1. Go(t, p) /\ UNCHANGED call
    BY <1>10 DEF Found
  <2>2. /\ Writes(t) => p = "copy" /\ b # "none"
        /\ Reads(t) => p = IF what = "written" THEN "disk" ELSE "zero"
        /\ Flushes(t) => p = IF what = "written" THEN "submit" ELSE "map"
        /\ Does(t, {"fallocate"}) => p = "allocate"
        /\ p \in Places /\ p # "gap"
    BY <1>1 DEF Writes, Reads, Flushes, Does, Places, Kinds
  <2>3. Flushes(t) /\ what = "written" => b = "mapped"
    OBVIOUS
  <2>4. gap' = [gap EXCEPT ![t] = {}]
    BY <1>1 DEF IInv, Shapes
  <2> HIDE DEF p, b
  <2>5. Comes(t, p, b, {})
    BY <2>2, <2>3 DEF Comes, OnDisk
  <2> QED
    BY <1>7, <1>8, <2>1, <2>4, <2>5, ComesKeeps
<1> QED
  BY <1>9, <1>10

LEMMA UnmappedKeeps ==
  ASSUME IInv, NEW t \in Actors, pc[t] \in {"look", "gap"}, NEW held \in BOOLEAN, Unmapped(t, held),
         Writes(t) => buffer[call[t].at] = "none",
         Reads(t) /\ call[t].at \notin torn => OnDisk(call[t].at) = "zero",
         status' \in [Blocks -> States],
         \A k \in Blocks : status'[k] = status[k] \/ (status'[k] = "hole" /\ tree[k] = "hole"),
         gap' = [gap EXCEPT ![t] = {}],
         UNCHANGED <<tree, disk, reserved, page, dirty, writeback, calls, torn>>
  PROVE  Sound
<1> DEFINE l == call[t].at
           b == buffer[l]
           p == CASE Writes(t) -> IF held THEN "held" ELSE "add"
                  [] Reads(t) -> "zero"
                  [] Flushes(t) -> "map"
                  [] OTHER -> "allocate"
<1>1. l \in Blocks /\ call[t].kind \notin {"none", "punch"} /\ call[t].kind \in Kinds
  BY PlaceTells
<1>2. Go(t, p) /\ UNCHANGED <<buffer, call>>
  BY DEF Unmapped
<1>3. /\ Writes(t) => p \in {"held", "add"}
      /\ Reads(t) => p = "zero"
      /\ Flushes(t) => p = "map"
      /\ Does(t, {"fallocate"}) => p = "allocate"
      /\ p \in Places /\ p # "gap"
  BY <1>1 DEF Writes, Reads, Flushes, Does, Places, Kinds
<1>4. b \in {"none", "mapped", "delay", "unwritten"} /\ buffer' = [buffer EXCEPT ![l] = b]
  BY <1>1, <1>2 DEF IInv, Shapes
<1>5. Good(l)
  BY <1>1 DEF IInv
<1>6. \A where : Says(t, b, where)
  <2>1. status'[l] = status[l] \/ (status'[l] = "hole" /\ tree[l] = "hole")
    BY <1>1
  <2> QED
    BY <1>1, <1>4, <1>5, <2>1 DEF Says, Good
<1>7. ReservedEnough' /\ reserved' \in Int
  BY <1>2, BuffersKept DEF IInv, Shapes
<1> HIDE DEF p
<1>8. Comes(t, p, b, {})
  BY <1>3 DEF Comes
<1> QED
  BY <1>2, <1>6, <1>7, <1>8, ComesKeeps

\* A reader finds no delayed block, since that has a page.
LEMMA ReaderFinds ==
  ASSUME IInv, NEW t \in Actors, Reads(t), Locks(t)
  PROVE  LET l == call[t].at IN page[l] = "absent" /\ l \notin dirty /\ l \notin writeback /\ buffer[l] # "delay"
<1> DEFINE l == call[t].at
<1>1. l \in Blocks /\ Good(l) /\ page[l] = "absent"
  BY PlaceTells DEF IInv, Actor, Holds
<1>2. ASSUME Copied(l) PROVE FALSE
  <2>1. PICK u \in Actors : pc[u] = "copy" /\ call[u].at = l
    BY <1>2 DEF Copied
  <2>2. Writes(u) /\ Locks(u) /\ ~Writes(t)
    BY <2>1, PlaceTells DEF Locks, Writes, Reads, Does
  <2>3. u # t
    BY <2>2
  <2> QED
    BY <2>1, <2>2, <2>3 DEF IInv, Apart
<1> QED
  BY <1>1, <1>2 DEF Good

LEMMA LookKeeps == ASSUME IInv, NEW t \in Actors, Look(t) PROVE Sound
<1> DEFINE l == call[t].at
           s == status[l]
<1>1. /\ pc[t] = "look" /\ l \in Blocks /\ call[t].kind \notin {"none", "punch"} /\ call[t].kind \in Kinds
      /\ gap[t] = {} /\ UNCHANGED <<tree, disk, status, reserved, page, dirty, writeback, gap, calls, torn>>
  <2>1. pc[t] = "look"
    BY DEF Look
  <2> QED
    BY <2>1, PlaceTells DEF Look, blocks, IInv, Actor, Maps
<1>2. Good(l) /\ s \in States /\ buffer[l] \in {"none", "mapped", "delay", "unwritten"}
  BY <1>1 DEF IInv, Shapes
<1>3. gap' = [gap EXCEPT ![t] = {}] /\ status' = [status EXCEPT ![l] = s] /\ status' \in [Blocks -> States]
  BY <1>1 DEF IInv, Shapes
<1>4. ASSUME UNCHANGED <<buffer, call>>, NEW p, Go(t, p), Comes(t, p, buffer[l], {}) PROVE Sound
  <2>1. buffer' = [buffer EXCEPT ![l] = buffer[l]]
    BY <1>1, <1>4 DEF IInv, Shapes
  <2>2. Says(t, buffer[l], p)
    BY <1>1, <1>2, <1>3, <2>1 DEF Says, Good
  <2>3. ReservedEnough' /\ reserved' \in Int
    BY <1>1, <1>4, BuffersKept DEF IInv, Shapes
  <2> QED
    BY <1>1, <1>3, <1>4, <2>2, <2>3, ComesKeeps
<1>5. CASE Mapped(t) /\ Go(t, IF Writes(t) THEN "copy" ELSE "submit") /\ UNCHANGED <<buffer, call>>
  <2>1. Comes(t, IF Writes(t) THEN "copy" ELSE "submit", buffer[l], {})
    BY <1>5 DEF Comes, Mapped, Places, Writes, Reads, Flushes, Does
  <2> QED
    BY <1>4, <1>5, <2>1
<1>6. CASE ~Mapped(t) /\ s = "none" /\ Go(t, "tree") /\ UNCHANGED <<buffer, call>>
  <2>1. Comes(t, "tree", buffer[l], {})
    BY <1>6 DEF Comes, Mapped, Places
  <2> QED
    BY <1>4, <1>6, <2>1
<1>7. Reads(t) => Locks(t)
  BY <1>1 DEF Locks
<1>8. CASE ~Mapped(t) /\ (s = "hole" \/ (s = "delayed" /\ ~Writes(t))) /\ Unmapped(t, FALSE)
  <2>1. Reads(t) => s = "hole"
    BY <1>2, <1>7, <1>8, ReaderFinds DEF Good
  <2>2. Reads(t) /\ l \notin torn => OnDisk(l) = "zero"
    BY <1>2, <2>1 DEF Good, OnDisk
  <2> QED
    BY <1>1, <1>3, <1>8, <2>2, UnmappedKeeps DEF Mapped
<1>9. CASE ~Mapped(t) /\ OnlyDelayed(s) /\ Writes(t)
  BY <1>2, <1>9 DEF Good, OnlyDelayed, Mapped
<1>10. CASE ~Mapped(t) /\ s \in {"unwritten", "both"} /\ Found(t, "unwritten")
  <2>1. l \notin torn => tree[l] = "unwritten"
    BY <1>2, <1>10 DEF Good
  <2> QED
    BY <1>1, <1>3, <1>10, <2>1, FoundKeeps DEF Mapped, Is
<1>11. CASE ~Mapped(t) /\ s = "written" /\ Found(t, "written")
  <2>1. l \notin torn => tree[l] = "written"
    BY <1>2, <1>11 DEF Good
  <2> QED
    BY <1>1, <1>3, <1>11, <2>1, FoundKeeps DEF Mapped, Is
<1> QED
  BY <1>5, <1>6, <1>8, <1>9, <1>10, <1>11 DEF Look

LEMMA LookInTreeKeeps == ASSUME IInv, NEW t \in Actors, LookInTree(t) PROVE Sound
<1> DEFINE l == call[t].at
<1>1. /\ pc[t] = "tree" /\ l \in Blocks /\ gap[t] = {}
      /\ (Writes(t) => buffer[l] = "none")
      /\ UNCHANGED <<tree, disk, reserved, page, dirty, writeback, calls, torn>>
  <2>1. pc[t] = "tree"
    BY DEF LookInTree
  <2> QED
    BY <2>1, PlaceTells DEF LookInTree, IInv, Actor, Maps, Holds
<1>2. CASE tree[l] # "hole"
  <2>1. tree[l] \in {"unwritten", "written"}
    BY <1>1, <1>2 DEF IInv, Shapes
  <2>2. PICK s \in {tree[l]} \cup (IF tree[l] = "unwritten" THEN {"both"} ELSE {}) : Is(l, s)
    BY <1>2 DEF LookInTree
  <2>3. Found(t, tree[l]) /\ UNCHANGED gap
    BY <1>2 DEF LookInTree
  <2> QED
    BY <1>1, <2>1, <2>2, <2>3, FoundKeeps
<1>3. CASE tree[l] = "hole"
  <2>1. Go(t, "gap") /\ gap' = [gap EXCEPT ![t] = GapAt(l)] /\ UNCHANGED <<status, buffer, call>>
    BY <1>3 DEF LookInTree
  <2>2. GapAt(l) \subseteq Blocks /\ \A k \in GapAt(l) : tree[k] = "hole"
    BY <1>1, <1>3, GapIsHole
  <2>3. Comes(t, "gap", buffer[l], GapAt(l))
    BY <1>1, <1>3, <2>2 DEF Comes, Places
  <2>4. Good(l) /\ status' \in [Blocks -> States] /\ buffer[l] \in {"none", "mapped", "delay", "unwritten"}
        /\ buffer' = [buffer EXCEPT ![l] = buffer[l]]
    BY <1>1, <2>1 DEF IInv, Shapes
  <2>5. Says(t, buffer[l], "gap")
    BY <1>1, <2>1, <2>4 DEF Says, Good
  <2>6. ReservedEnough' /\ reserved' \in Int
    BY <1>1, <2>1, BuffersKept DEF IInv, Shapes
  <2> QED
    BY <1>1, <2>1, <2>3, <2>5, <2>6, ComesKeeps
<1> QED
  BY <1>2, <1>3

LEMMA PutGapKeeps == ASSUME IInv, NEW t \in Actors, PutGap(t) PROVE Sound
<1> DEFINE l == call[t].at
<1>1. /\ pc[t] = "gap" /\ l \in Blocks /\ (Writes(t) => buffer[l] = "none")
      /\ tree[l] = "hole" /\ \A k \in gap[t] : tree[k] = "hole"
  <2>1. pc[t] = "gap"
    BY DEF PutGap
  <2> QED
    BY <2>1, PlaceTells DEF IInv, Actor, Maps, Holds
<1>2. /\ status' = Are(gap[t], "hole") /\ gap' = [gap EXCEPT ![t] = {}] /\ Unmapped(t, TRUE)
      /\ UNCHANGED <<tree, disk, reserved, page, dirty, writeback, calls, torn>>
  BY DEF PutGap
<1>3. /\ status' \in [Blocks -> States]
      /\ \A k \in Blocks : status'[k] = status[k] \/ (status'[k] = "hole" /\ tree[k] = "hole")
  BY <1>1, <1>2 DEF Are, IInv, Shapes, States
<1>4. OnDisk(l) = "zero"
  BY <1>1 DEF OnDisk
<1> QED
  BY <1>1, <1>2, <1>3, <1>4, UnmappedKeeps

\* A block becomes delayed, and one more is reserved, since it had no buffer.
LEMMA AddDelayedKeeps == ASSUME IInv, NEW t \in Actors, AddDelayed(t) PROVE Sound
<1> DEFINE l == call[t].at
<1>1. /\ pc[t] \in {"add", "held"} /\ l \in Blocks /\ Writes(t) /\ buffer[l] = "none" /\ gap[t] = {}
  <2>1. pc[t] \in {"add", "held"}
    BY DEF AddDelayed
  <2> QED
    BY <2>1, PlaceTells DEF IInv, Actor, Maps, Holds
<1>2. /\ reserved' = reserved + 1 /\ Is(l, "delayed") /\ buffer' = [buffer EXCEPT ![l] = "delay"]
      /\ Go(t, "copy") /\ UNCHANGED <<tree, disk, page, dirty, writeback, call, gap, calls, torn>>
  BY DEF AddDelayed
<1>3. Comes(t, "copy", "delay", {})
  BY <1>1 DEF Comes, Places, Writes, Reads, Flushes, Does
<1>4. status' \in [Blocks -> States] /\ \A k \in Blocks : status'[k] = IF k = l THEN "delayed" ELSE status[k]
  BY <1>1, <1>2 DEF Is, IInv, Shapes, States
<1>5. Says(t, "delay", "copy")
  BY <1>1, <1>2, <1>4 DEF Says
<1>6. Delayed' = Delayed \cup {l}
  BY <1>1, <1>2 DEF Delayed, IInv, Shapes, Blocks
<1>7. ReservedEnough' /\ reserved' \in Int
  BY <1>2, <1>6, Reserved DEF IInv, Shapes
<1>8. gap' = [gap EXCEPT ![t] = {}]
  BY <1>1, <1>2 DEF IInv, Shapes
<1> QED
  BY <1>1, <1>2, <1>3, <1>5, <1>7, <1>8, ComesKeeps
-----------------------------------------------------------------------------
(***************************************************************************)
(* Pages are filled, written and written back.                             *)
(***************************************************************************)

\* A call that unlocks its page, after a change there, and ends.
LEMMA UnlockKeeps ==
  ASSUME IInv, NEW t \in Actors, pc[t] \in {"copy", "zero", "disk", "submit"}, End(t),
         UNCHANGED <<tree, disk, status, reserved, buffer, gap, calls, torn>>,
         page' \in [Blocks -> {"absent", "zero", "old", "new", "junk"}], dirty' \subseteq Blocks, writeback' \subseteq Blocks,
         Reads(t) => UNCHANGED <<dirty, writeback>>,
         \A k \in Blocks : k # call[t].at =>
           page'[k] = page[k] /\ (k \in dirty' <=> k \in dirty) /\ (k \in writeback' <=> k \in writeback),
         NEW l \in Blocks, l = call[t].at, Good(l)', [FileStep]_<<Contents, Hole>>
  PROVE  Sound
<1>1. call[t].kind \notin {"none", "punch"} /\ Locks(t)
  BY PlaceTells DEF Locks, Writes, Reads, Flushes, Does
<1>2. /\ \A u \in Actors \ {t} : Same(u)
      /\ call' \in [Actors -> CallSet] /\ pc' \in [Actors -> Places]
      /\ call'[t].kind = "none" /\ pc'[t] = "idle" /\ ~Locks(t)' /\ DroppedBy(t)' = {}
      /\ Actor(t)'
  BY EndKeeps
<1>3. Shapes'
  BY <1>2 DEF IInv, Shapes, Blocks, Actors, CallSet
<1>4. ReservedEnough'
  BY BuffersKept DEF IInv, Shapes
<1>5. \A u \in Actors \ {t} : Leaves(u)
  BY <1>1, LeavesMine DEF Known
<1>6. \A u \in Actors \ {t} : Apart(t, u)' /\ Apart(u, t)'
  BY <1>2, ApartKept DEF Does
<1>7. \A k \in Blocks : Good(k)'
  BY <1>2, GoodOther
<1> QED
  BY <1>2, <1>3, <1>4, <1>5, <1>6, <1>7, Together DEF Sound

LEMMA CopyKeeps == ASSUME IInv, NEW t \in Actors, Copy(t) PROVE Sound
<1> DEFINE l == call[t].at
<1>1. /\ pc[t] = "copy" /\ l \in Blocks /\ Writes(t) /\ buffer[l] # "none" /\ Good(l)
  <2>1. pc[t] = "copy"
    BY DEF Copy
  <2> QED
    BY <2>1, PlaceTells DEF IInv, Actor, Holds
<1>2. /\ End(t) /\ page' = [page EXCEPT ![l] = "new"] /\ dirty' = dirty \cup {l}
      /\ UNCHANGED <<tree, disk, status, reserved, buffer, writeback, gap, calls, torn>>
  BY DEF Copy, blocks
<1>3. /\ \A k \in Blocks : page'[k] = IF k = l THEN "new" ELSE page[k]
      /\ page' \in [Blocks -> {"absent", "zero", "old", "new", "junk"}] /\ dirty' \subseteq Blocks
      /\ writeback' \subseteq Blocks
  BY <1>1, <1>2 DEF IInv, Shapes
<1>4. /\ \A u \in Actors \ {t} : Same(u)
      /\ call' \in [Actors -> CallSet] /\ pc' \in [Actors -> Places]
      /\ call'[t].kind = "none" /\ pc'[t] = "idle" /\ ~Locks(t)' /\ DroppedBy(t)' = {}
      /\ Actor(t)'
  BY <1>1, <1>2, EndKeeps
<1>5. \A k : Submitted(k) => Submitted(k)'
  BY <1>1, <1>4 DEF Submitted, Same
<1>6. \A k \in Blocks : k = l => Good(k)'
  <2> SUFFICES ASSUME NEW k \in Blocks, k = l PROVE Good(k)'
    OBVIOUS
  <2>1. Good(k) /\ page'[k] = "new" /\ k \in dirty' /\ buffer[k] # "none"
    BY <1>1, <1>2, <1>3
  <2> QED
    BY <1>2, <1>5, <2>1 DEF Good
<1>7. Hole = {} /\ Hole' = {}
  <2>1. ASSUME NEW u \in Actors PROVE ~(Does(u, {"punch"}) /\ pc[u] # "mmap")
    <3>1. CASE u = t
      BY <1>1, <3>1 DEF Writes, Does
    <3>2. CASE u # t
      <4>1. Apart(t, u) /\ Apart(u, t)
        BY <3>2 DEF IInv
      <4>2. Mutexed(t) \/ Does(t, {"mkwrite", "fault"})
        BY <1>1 DEF Writes, Mutexed, Does
      <4> QED
        BY <4>1, <4>2 DEF Apart, Mutexed, Does
    <3> QED
      BY <3>1, <3>2
  <2>2. Hole = {}
    BY <2>1, InHole
  <2>3. Hole' = Hole
    BY <1>1, <1>4, HoleSame DEF Writes, Does
  <2> QED
    BY <2>2, <2>3
<1>8. [FileStep]_<<Contents, Hole>>
  <2>1. \A k \in Blocks : Value(k)' = IF k = l THEN "new" ELSE Value(k)
    BY <1>2, <1>3 DEF Value, OnDisk
  <2>2. CASE l \in torn
    BY <1>2, <1>7, <2>1, <2>2, FileSame
  <2>3. CASE l \notin torn
    <3>1. Value(l) # "any"
      BY <1>1 DEF IInv, Shapes, Value, OnDisk
    <3>2. Contents[l] # "any"
      BY <1>1, <1>7, <2>3, <3>1, ContentsAre
    <3>3. Contents' = [Contents EXCEPT ![l] = "new"]
      BY <1>1, <1>2, <1>7, <2>1, <2>3, ContentsAre, ContentsNext
    <3>4. Data!Written(l)
      BY <1>7, <3>2, <3>3 DEF Data!Written
    <3> QED
      BY <1>1, <3>4 DEF FileStep
  <2> QED
    BY <2>2, <2>3
<1>9. ~Reads(t)
  BY <1>1 DEF Writes, Reads, Does
<1> QED
  BY <1>1, <1>2, <1>3, <1>6, <1>8, <1>9, UnlockKeeps

\* A page that was not there gets what the block says.
LEMMA FillKeeps == ASSUME IInv, NEW t \in Actors, Fill(t) PROVE Sound
<1> DEFINE l == call[t].at
           v == IF pc[t] = "disk" THEN disk[l] ELSE "zero"
<1>1. /\ pc[t] \in {"zero", "disk"} /\ l \in Blocks /\ Reads(t) /\ Good(l) /\ Fills(t) /\ Locks(t)
  <2>1. pc[t] \in {"zero", "disk"}
    BY DEF Fill
  <2> QED
    BY <2>1, PlaceTells DEF IInv, Actor, Locks
<1>2. /\ End(t) /\ page' = [page EXCEPT ![l] = v]
      /\ UNCHANGED <<tree, disk, status, reserved, buffer, dirty, writeback, gap, calls, torn>>
  BY DEF Fill, blocks
<1>3. /\ \A k \in Blocks : page'[k] = IF k = l THEN v ELSE page[k]
      /\ page' \in [Blocks -> {"absent", "zero", "old", "new", "junk"}] /\ dirty' \subseteq Blocks
      /\ writeback' \subseteq Blocks /\ v # "absent"
  BY <1>1, <1>2 DEF IInv, Shapes
<1>4. page[l] = "absent" /\ l \notin dirty /\ l \notin writeback
  BY <1>1, ReaderFinds
<1>5. l \notin torn => v = OnDisk(l)
  BY <1>1 DEF Fills, OnDisk
<1>6. ~Submitted(l)
  <2>1. ASSUME NEW u \in Actors, pc[u] = "submit", call[u].at = l PROVE FALSE
    <3>1. Flushes(u) /\ Locks(u) /\ ~Reads(u)
      BY <2>1, PlaceTells DEF Locks, Flushes, Reads, Does
    <3>2. u # t
      BY <1>1, <3>1
    <3> QED
      BY <1>1, <2>1, <3>1, <3>2 DEF IInv, Apart
  <2> QED
    BY <2>1 DEF Submitted
<1>7. l \notin torn => v # "junk"
  BY <1>1, <1>4, <1>5, <1>6 DEF Good, OnDisk
<1>8. /\ \A u \in Actors \ {t} : Same(u)
      /\ call' \in [Actors -> CallSet] /\ pc' \in [Actors -> Places]
      /\ call'[t].kind = "none" /\ pc'[t] = "idle" /\ ~Locks(t)' /\ DroppedBy(t)' = {}
      /\ Actor(t)'
  BY <1>1, <1>2, EndKeeps
<1>9. \A k \in Blocks : k = l => Good(k)'
  <2> SUFFICES ASSUME NEW k \in Blocks, k = l PROVE Good(k)'
    OBVIOUS
  <2>1. Good(k) /\ page'[k] = v /\ k \notin dirty /\ k \notin writeback /\ OnDisk(k)' = OnDisk(k)
    BY <1>1, <1>2, <1>3, <1>4 DEF OnDisk
  <2>2. (Copied(k) => Copied(k)') /\ (Submitted(k) => Submitted(k)')
    BY <1>1, <1>8, <1>6 DEF Copied, Same
  <2>3. k \notin torn => v = OnDisk(k) /\ v # "junk"
    BY <1>5, <1>7
  <2> QED
    BY <1>2, <2>1, <2>2, <2>3 DEF Good
<1>10. [FileStep]_<<Contents, Hole>>
  <2>1. Hole' = Hole
    BY <1>1, <1>8, HoleSame DEF Reads, Does
  <2>2. \A k \in Blocks : k \notin torn => Value(k)' = Value(k)
    BY <1>2, <1>3, <1>4, <1>5 DEF Value, OnDisk
  <2> QED
    BY <1>2, <2>1, <2>2, FileSame
<1> QED
  BY <1>1, <1>2, <1>3, <1>9, <1>10, UnlockKeeps

\* What goes to the disk is written in the extents.
LEMMA SubmitKeeps == ASSUME IInv, NEW t \in Actors, Submit(t) PROVE Sound
<1> DEFINE l == call[t].at
<1>1. /\ pc[t] = "submit" /\ l \in Blocks /\ Flushes(t) /\ Good(l) /\ buffer[l] = "mapped" /\ l \in dirty
  <2>1. pc[t] = "submit"
    BY DEF Submit
  <2> QED
    BY <2>1, PlaceTells DEF IInv, Actor, Holds, Locks
<1>2. /\ End(t) /\ dirty' = dirty \ {l} /\ writeback' = writeback \cup {l}
      /\ UNCHANGED <<tree, disk, status, reserved, page, buffer, gap, calls, torn>>
  BY DEF Submit, blocks
<1>3. /\ page' \in [Blocks -> {"absent", "zero", "old", "new", "junk"}] /\ dirty' \subseteq Blocks
      /\ writeback' \subseteq Blocks /\ ~Reads(t)
  BY <1>1, <1>2 DEF IInv, Shapes, Flushes, Reads, Does
<1>4. \A k \in Blocks : k = l => Good(k)'
  <2> SUFFICES ASSUME NEW k \in Blocks, k = l PROVE Good(k)'
    OBVIOUS
  <2>1. Good(k) /\ buffer[k] = "mapped" /\ k \in dirty /\ k \in writeback' /\ k \notin dirty'
    BY <1>1, <1>2
  <2> QED
    BY <1>2, <2>1 DEF Good
<1>5. [FileStep]_<<Contents, Hole>>
  <2>1. /\ \A u \in Actors \ {t} : Same(u)
        /\ call' \in [Actors -> CallSet] /\ pc' \in [Actors -> Places]
        /\ call'[t].kind = "none" /\ pc'[t] = "idle" /\ ~Locks(t)' /\ DroppedBy(t)' = {}
        /\ Actor(t)'
    BY <1>1, <1>2, EndKeeps
  <2>2. Hole' = Hole
    BY <1>1, <2>1, HoleSame DEF Flushes, Does
  <2> QED
    BY <1>2, <2>2, FileSame DEF Value, OnDisk
<1> QED
  BY <1>1, <1>2, <1>3, <1>4, <1>5, UnlockKeeps
-----------------------------------------------------------------------------
(***************************************************************************)
(* The extents change.                                                     *)
(***************************************************************************)

\* Nobody has a gap while they do.
LEMMA NoGaps == ASSUME IInv, NobodyMaps PROVE \A u \in Actors : pc[u] # "gap"
BY DEF NobodyMaps

LEMMA AllocateKeeps == ASSUME IInv, NEW t \in Actors, Allocate(t) PROVE Sound
<1> DEFINE a == call[t].at
<1>1. /\ pc[t] = "allocate" /\ a \in Blocks /\ Does(t, {"fallocate"}) /\ NobodyMaps /\ ~SomebodyRemoves
      /\ Placed(t) /\ call[t].last \in Blocks
      /\ UNCHANGED <<disk, reserved, page, buffer, dirty, writeback, gap, calls, torn>>
  <2>1. pc[t] = "allocate"
    BY DEF Allocate
  <2> QED
    BY <2>1, PlaceTells DEF Allocate, cache
<1>2. PICK e \in a .. call[t].last :
        /\ \A k \in a .. e : tree[k] = tree[a]
        /\ tree' = [k \in Blocks |-> IF k \in a .. e /\ tree[k] = "hole" THEN "unwritten" ELSE tree[k]]
        /\ status' = Are(a .. e, IF tree[a] = "written" THEN "written"
                                 ELSE IF \E k \in a .. e : IsDelayed(status[k]) THEN "both" ELSE "unwritten")
        /\ Pass(t, e)
  BY DEF Allocate
<1>3. /\ \A u \in Actors \ {t} : Same(u) /\ Apart(t, u)' /\ Apart(u, t)'
      /\ call' \in [Actors -> CallSet] /\ pc' \in [Actors -> Places]
      /\ Actor(t)' /\ Hole' = Hole
  BY <1>1, <1>2, PassIs
<1>4. /\ tree' \in [Blocks -> {"hole", "unwritten", "written"}] /\ status' \in [Blocks -> States]
      /\ \A k \in Blocks : tree'[k] = tree[k] \/ (tree[k] = "hole" /\ tree'[k] = "unwritten")
  BY <1>2 DEF Are, IInv, Shapes, States
<1>5. Shapes'
  BY <1>1, <1>3, <1>4 DEF IInv, Shapes, Blocks, Actors, CallSet
<1>6. ReservedEnough'
  BY <1>1, BuffersKept DEF IInv, Shapes
<1>7. \A k \in Blocks : OnDisk(k)' = OnDisk(k)
  BY <1>1, <1>4 DEF OnDisk
<1>8. ASSUME NEW u \in Actors \ {t} PROVE Leaves(u)
  <2>1. ~Does(u, {"punch"})
    BY <1>1, OneHole DEF Mutexed, Does
  <2>2. DroppedBy(u) = {} /\ ~Removes(u)
    BY <2>1, PlaceTells DEF DroppedBy, Removes
  <2>3. pc[u] # "gap"
    BY <1>1, NoGaps
  <2> QED
    BY <1>1, <1>4, <1>7, <2>2, <2>3 DEF Leaves
<1>9. \A k \in Blocks : Good(k)'
  <2> SUFFICES ASSUME NEW k \in Blocks PROVE Good(k)'
    OBVIOUS
  <2>1. Good(k) /\ OnDisk(k)' = OnDisk(k)
    BY <1>7 DEF IInv
  <2>2. (Copied(k) => Copied(k)') /\ (Submitted(k) => Submitted(k)')
    BY <1>1, <1>3, CopiedSame
  <2>3. CASE k \in a .. e
    <3>1. tree[k] = tree[a] /\ tree[a] \in {"hole", "unwritten", "written"}
      BY <1>1, <1>2, <2>3 DEF IInv, Shapes
    <3>2. /\ tree[a] = "written" => tree'[k] = "written" /\ status'[k] = "written"
          /\ tree[a] # "written" => tree'[k] = "unwritten" /\ status'[k] \in {"both", "unwritten"}
      BY <1>2, <2>3, <3>1 DEF Are
    <3> QED
      BY <1>1, <2>1, <2>2, <3>1, <3>2 DEF Good
  <2>4. CASE k \notin a .. e
    <3>1. tree'[k] = tree[k] /\ status'[k] = status[k]
      BY <1>2, <2>4 DEF Are
    <3> QED
      BY <1>1, <2>1, <2>2, <3>1 DEF Good
  <2> QED
    BY <2>3, <2>4
<1>10. [FileStep]_<<Contents, Hole>>
  BY <1>1, <1>3, <1>7, FileSame DEF Value
<1> QED
  BY <1>1, <1>3, <1>5, <1>6, <1>8, <1>9, <1>10, Together DEF Sound

\* A block becomes written, and others are zeroed with it.
LEMMA MapKeeps == ASSUME IInv, NEW t \in Actors, Map(t) PROVE Sound
<1> DEFINE l == call[t].at
<1>1. /\ pc[t] = "map" /\ l \in Blocks /\ Flushes(t) /\ Locks(t) /\ Placed(t) /\ NobodyMaps /\ ~SomebodyRemoves
      /\ Good(l) /\ l \in dirty /\ gap[t] = {}
      /\ reserved' = IF buffer[l] = "delay" /\ tree[l] # "written" THEN reserved - 1 ELSE reserved
      /\ buffer' = [buffer EXCEPT ![l] = "mapped"] /\ Go(t, "submit")
      /\ UNCHANGED <<page, dirty, writeback, call, gap, calls>>
  <2>1. pc[t] = "map"
    BY DEF Map
  <2>2. Flushes(t) /\ Locks(t)
    BY <2>1, PlaceTells DEF Locks
  <2> QED
    BY <2>1, <2>2, PlaceTells DEF Map, IInv, Actor, Holds, Maps
<1>2. PICK Z \in ZeroedWith(l) :
        /\ tree' = [k \in Blocks |-> IF k \in Z \cup {l} THEN "written" ELSE tree[k]]
        /\ status' = Are(Z \cup {l}, "written")
        /\ disk' = [k \in Blocks |-> IF k \in Z THEN "zero" ELSE disk[k]]
        /\ torn' = torn \cup (Z \cap Exposed)
  BY DEF Map
<1>3. \A k \in Z : k # l /\ k \in Blocks /\ tree[k] = "unwritten"
  BY <1>1, ZeroedAre
<1>4. /\ tree'[l] = "written" /\ disk'[l] = disk[l] /\ status'[l] = "written" /\ buffer'[l] = "mapped"
      /\ \A k \in Z : tree'[k] = "written" /\ disk'[k] = "zero" /\ status'[k] = "written"
      /\ \A k \in Blocks : k # l /\ k \notin Z => tree'[k] = tree[k] /\ disk'[k] = disk[k] /\ status'[k] = status[k]
      /\ \A k \in Blocks : k # l => buffer'[k] = buffer[k]
      /\ torn \subseteq torn' /\ torn' \ torn \subseteq Exposed
  BY <1>1, <1>2, <1>3 DEF Are, IInv, Shapes
<1>5. /\ \A u \in Actors \ {t} : Same(u)
      /\ pc' \in [Actors -> Places] /\ pc'[t] = "submit" /\ call'[t] = call[t]
      /\ Writes(t)' = Writes(t) /\ Reads(t)' = Reads(t) /\ Flushes(t)' = Flushes(t)
      /\ \A kinds : Does(t, kinds)' = Does(t, kinds)
      /\ Span(t)' = Span(t) /\ Mutexed(t)' = Mutexed(t)
  BY <1>1, GoIs DEF Places
<1>6. Shapes'
  <2>1. tree' \in [Blocks -> {"hole", "unwritten", "written"}] /\ disk' \in [Blocks -> {"zero", "old", "new", "junk"}]
    BY <1>2 DEF IInv, Shapes
  <2>2. status' \in [Blocks -> States] /\ buffer' \in [Blocks -> {"none", "mapped", "delay", "unwritten"}]
    BY <1>1, <1>2 DEF Are, IInv, Shapes, States
  <2>3. torn' \subseteq Blocks /\ reserved' \in Int
    BY <1>1, <1>2, <1>3 DEF IInv, Shapes
  <2> QED
    BY <1>1, <1>5, <2>1, <2>2, <2>3 DEF IInv, Shapes, Blocks, Actors, CallSet
<1>7. ReservedEnough'
  <2>1. Delayed' = Delayed \ {l} /\ (l \in Delayed <=> buffer[l] = "delay")
    BY <1>1 DEF Delayed, IInv, Shapes, Blocks
  <2>2. CASE buffer[l] = "delay" /\ tree[l] # "written"
    BY <1>1, <2>1, <2>2, Reserved DEF IInv, Shapes
  <2>3. CASE ~(buffer[l] = "delay" /\ tree[l] # "written")
    BY <1>1, <2>1, <2>3, Reserved DEF IInv, Shapes
  <2> QED
    BY <2>2, <2>3
<1>8. \A k \in Blocks : k # l => OnDisk(k)' = OnDisk(k)
  BY <1>3, <1>4 DEF OnDisk
<1>9. Actor(t)'
  <2>1. Placed(t)'
    BY <1>1, <1>5 DEF Placed, Writes, Reads, Flushes, Does
  <2>2. Holds(t)'
    BY <1>1, <1>4, <1>5 DEF Holds, Writes, Reads, Flushes, Does
  <2>3. Maps(t)' /\ Fills(t)'
    BY <1>1, <1>5 DEF Maps, Fills
  <2>4. Punches(t)'
    BY <1>1, <1>5 DEF Punches, DroppedBy, Flushes, Does
  <2> QED
    BY <2>1, <2>2, <2>3, <2>4 DEF Actor
<1>10. ASSUME NEW u \in Actors \ {t} PROVE Leaves(u)
  <2>1. Apart(t, u) /\ Punches(u) /\ DroppedBy(u) \subseteq Blocks
    BY DEF IInv, Actor, DroppedBy
  <2>2. pc[u] # "gap"
    BY <1>1, NoGaps
  <2>3. ~LocksIt(u, l)
    BY <1>1, <2>1 DEF Apart, LocksIt
  <2>4. l \notin DroppedBy(u)
    BY <1>1, <2>1 DEF Punches
  <2>5. \A k \in Blocks : k \in DroppedBy(u) =>
          k \notin dirty' /\ k \notin writeback' /\ buffer'[k] = "none" /\ (page'[k] = "absent" \/ k \in torn')
    BY <1>1, <1>4, <2>1, <2>4 DEF Punches
  <2>6. ASSUME NEW k \in Blocks, Removes(u), k \in Span(u), k \notin torn' PROVE ~Known(k)'
    <3>1. pc[u] \in {"drain", "again"}
      BY <1>1, <2>6 DEF Removes, SomebodyRemoves
    <3>2. k \in DroppedBy(u)
      BY <2>6, <3>1, PlaceTells DEF DroppedBy
    <3>3. k \notin Z
      BY <1>2, <2>6, <3>1 DEF Exposed
    <3>4. k \notin torn /\ ~Known(k)
      BY <1>4, <2>1, <2>6 DEF Punches, Removes
    <3> QED
      BY <1>4, <2>4, <3>2, <3>3, <3>4 DEF Known
  <2>7. ASSUME NEW k \in Blocks, LocksIt(u, k) PROVE k # l
    BY <2>3, <2>7
  <2>8. \A k \in Blocks : k # l /\ tree[k] = "written" => tree'[k] = "written"
    BY <1>4
  <2> QED
    BY <1>1, <1>4, <1>8, <2>2, <2>5, <2>6, <2>7, <2>8 DEF Leaves
<1>11. \A u \in Actors \ {t} : Apart(t, u)' /\ Apart(u, t)'
  <2>1. DroppedBy(t)' = {} /\ ~Does(t, {"punch"})'
    BY <1>1, <1>5 DEF DroppedBy, Flushes, Does
  <2> QED
    BY <1>1, <1>4, <1>5, <2>1, ApartKept
<1>12. \A k \in Blocks : Good(k)'
  <2> SUFFICES ASSUME NEW k \in Blocks PROVE Good(k)'
    OBVIOUS
  <2>1. Good(k) /\ (k \notin torn' => k \notin torn)
    BY <1>4 DEF IInv
  <2>2. (Copied(k) => Copied(k)') /\ (Submitted(k) => Submitted(k)')
    BY <1>1, <1>5, CopiedSame
  <2>3. CASE k = l
    <3>1. Submitted(k)'
      BY <1>5, <2>3 DEF Submitted, Actors
    <3> QED
      BY <1>1, <1>4, <2>1, <2>3, <3>1 DEF Good
  <2>4. CASE k \in Z
    <3>1. k # l /\ tree[k] = "unwritten" /\ tree'[k] = "written" /\ disk'[k] = "zero" /\ status'[k] = "written"
      BY <1>3, <1>4, <2>4
    <3>2. buffer'[k] = buffer[k] /\ OnDisk(k)' = OnDisk(k)
      BY <1>4, <1>8, <3>1
    <3> QED
      BY <1>1, <2>1, <2>2, <3>1, <3>2 DEF Good
  <2>5. CASE k # l /\ k \notin Z
    <3>1. tree'[k] = tree[k] /\ disk'[k] = disk[k] /\ status'[k] = status[k] /\ buffer'[k] = buffer[k]
          /\ OnDisk(k)' = OnDisk(k)
      BY <1>4, <1>8, <2>5
    <3> QED
      BY <1>1, <2>1, <2>2, <3>1 DEF Good
  <2> QED
    BY <2>3, <2>4, <2>5
<1>13. [FileStep]_<<Contents, Hole>>
  <2>1. Hole' = Hole
    BY <1>1, <1>5, HoleSame DEF Flushes, Does
  <2>2. Exposed \subseteq Hole
    <3>1. ASSUME NEW k \in Exposed PROVE k \in Hole
      <4>1. PICK u \in Actors : pc[u] \in {"drain", "again"} /\ k \in Span(u)
        BY <3>1 DEF Exposed
      <4> QED
        BY <4>1, PlaceTells, InHole
    <3> QED
      BY <3>1
  <2>3. page[l] # "absent"
    BY <1>1 DEF Good
  <2>4. \A k \in Blocks : Value(k)' = Value(k)
    BY <1>1, <1>8, <2>3 DEF Value
  <2> QED
    BY <1>4, <2>1, <2>2, <2>4, FileSame
<1> QED
  BY <1>4, <1>5, <1>6, <1>7, <1>9, <1>10, <1>11, <1>12, <1>13, Together DEF Sound
-----------------------------------------------------------------------------
(***************************************************************************)
(* The device and the memory.                                              *)
(***************************************************************************)
LEMMA StillCopied ==
  ASSUME UNCHANGED <<call, pc>>, NEW l
  PROVE  (Copied(l) => Copied(l)') /\ (Submitted(l) => Submitted(l)') /\ Hole' = Hole
BY DEF Copied, Submitted, Hole, Does, Span, Actors

LEMMA IoEndKeeps == ASSUME IInv, NEW l \in Blocks, IoEnd(l) PROVE Sound
<1>1. /\ l \in writeback /\ writeback' = writeback \ {l} /\ disk' = [disk EXCEPT ![l] = page[l]]
      /\ UNCHANGED <<tree, status, reserved, page, buffer, dirty, call, pc, gap, calls, torn>>
  BY DEF IoEnd, mine
<1>2. Good(l) /\ page[l] # "absent" /\ page[l] \in {"zero", "old", "new", "junk"}
  BY <1>1 DEF IInv, Good, Shapes
<1>3. \A k \in Blocks : disk'[k] = IF k = l THEN page[l] ELSE disk[k]
  BY <1>1 DEF IInv, Shapes
<1>4. Shapes'
  <2>1. disk' \in [Blocks -> {"zero", "old", "new", "junk"}]
    BY <1>1, <1>2 DEF IInv, Shapes
  <2> QED
    BY <1>1, <2>1 DEF IInv, Shapes, Blocks, Actors, CallSet
<1>5. ReservedEnough'
  BY <1>1, BuffersKept DEF IInv, Shapes
<1>6. \A k \in Blocks : k # l => OnDisk(k)' = OnDisk(k)
  BY <1>1, <1>3 DEF OnDisk
<1>7. ASSUME NEW u \in Actors PROVE Leaves(u)
  <2>1. Punches(u) /\ DroppedBy(u) \subseteq Blocks
    BY DEF IInv, Actor, DroppedBy
  <2>2. Reads(u) => ~LocksIt(u, l)
    BY <1>2 DEF IInv, Actor, Holds, LocksIt
  <2>3. \A k \in Blocks : k \in DroppedBy(u) =>
          k \notin dirty' /\ k \notin writeback' /\ buffer'[k] = "none" /\ (page'[k] = "absent" \/ k \in torn')
    BY <1>1, <2>1 DEF Punches
  <2>4. \A k \in Blocks : Removes(u) /\ k \in Span(u) /\ k \notin torn' => ~Known(k)'
    BY <1>1, <2>1 DEF Punches, Removes, Known
  <2> QED
    BY <1>1, <1>6, <2>2, <2>3, <2>4 DEF Leaves
<1>8. \A k \in Blocks : Good(k)'
  <2> SUFFICES ASSUME NEW k \in Blocks PROVE Good(k)'
    OBVIOUS
  <2>1. Good(k)
    BY DEF IInv
  <2>2. (Copied(k) => Copied(k)') /\ (Submitted(k) => Submitted(k)')
    BY <1>1, StillCopied
  <2>3. CASE k = l
    <3>1. disk'[k] = page[k]
      BY <1>3, <2>3
    <3> QED
      BY <1>1, <1>2, <2>1, <2>2, <2>3, <3>1 DEF Good, OnDisk
  <2>4. CASE k # l
    BY <1>1, <1>3, <1>6, <2>1, <2>2, <2>4 DEF Good
  <2> QED
    BY <2>3, <2>4
<1>9. [FileStep]_<<Contents, Hole>>
  <2>1. Hole' = Hole
    BY <1>1, StillCopied
  <2> QED
    BY <1>1, <1>2, <1>6, <2>1, FileSame DEF Value
<1> QED
  BY <1>1, <1>4, <1>5, <1>7, <1>8, <1>9, TogetherAlone DEF Sound

LEMMA EvictKeeps == ASSUME IInv, NEW l \in Blocks, Evict(l) PROVE Sound
<1>1. /\ page[l] # "absent" /\ ~Locked(l) /\ l \notin dirty /\ l \notin writeback
      /\ page' = [page EXCEPT ![l] = "absent"] /\ buffer' = [buffer EXCEPT ![l] = "none"]
      /\ UNCHANGED <<tree, disk, status, reserved, dirty, writeback, call, pc, gap, calls, torn>>
  BY DEF Evict, blocks, mine
<1>2. /\ \A k \in Blocks : page'[k] = IF k = l THEN "absent" ELSE page[k]
      /\ \A k \in Blocks : buffer'[k] = IF k = l THEN "none" ELSE buffer[k]
  BY <1>1 DEF IInv, Shapes
<1>3. Shapes'
  <2>1. /\ page' \in [Blocks -> {"absent", "zero", "old", "new", "junk"}]
        /\ buffer' \in [Blocks -> {"none", "mapped", "delay", "unwritten"}]
    BY <1>1 DEF IInv, Shapes
  <2> QED
    BY <1>1, <2>1 DEF IInv, Shapes, Blocks, Actors, CallSet
<1>4. ReservedEnough'
  BY <1>1, LessDelayed
<1>5. ~Copied(l)
  <2>1. ASSUME NEW u \in Actors, pc[u] = "copy", call[u].at = l PROVE FALSE
    <3>1. LocksIt(u, l)
      BY <2>1, PlaceTells DEF LocksIt, Locks
    <3> QED
      BY <1>1, <3>1, LockedIs
  <2> QED
    BY <2>1 DEF Copied
<1>6. ASSUME NEW u \in Actors PROVE Leaves(u)
  <2>1. Punches(u) /\ DroppedBy(u) \subseteq Blocks /\ ~LocksIt(u, l)
    BY <1>1, LockedIs DEF IInv, Actor, DroppedBy
  <2>2. \A k \in Blocks : k \in DroppedBy(u) =>
          k \notin dirty' /\ k \notin writeback' /\ buffer'[k] = "none" /\ (page'[k] = "absent" \/ k \in torn')
    BY <1>1, <1>2, <2>1 DEF Punches
  <2>3. \A k \in Blocks : Removes(u) /\ k \in Span(u) /\ k \notin torn' => ~Known(k)'
    BY <1>1, <2>1 DEF Punches, Removes, Known
  <2> QED
    BY <1>1, <1>2, <2>1, <2>2, <2>3 DEF Leaves, OnDisk
<1>7. \A k \in Blocks : Good(k)'
  <2> SUFFICES ASSUME NEW k \in Blocks PROVE Good(k)'
    OBVIOUS
  <2>1. Good(k) /\ OnDisk(k)' = OnDisk(k)
    BY <1>1 DEF IInv, OnDisk
  <2>2. (Copied(k) => Copied(k)') /\ (Submitted(k) => Submitted(k)')
    BY <1>1, StillCopied
  <2>3. CASE k = l
    BY <1>1, <1>2, <1>5, <2>1, <2>2, <2>3 DEF Good
  <2>4. CASE k # l
    BY <1>1, <1>2, <2>1, <2>2, <2>4 DEF Good
  <2> QED
    BY <2>3, <2>4
<1>8. [FileStep]_<<Contents, Hole>>
  <2>1. Hole' = Hole
    BY <1>1, StillCopied
  <2>2. l \notin torn => page[l] = OnDisk(l)
    BY <1>1 DEF IInv, Good
  <2> QED
    BY <1>1, <1>2, <2>1, <2>2, FileSame DEF Value, OnDisk
<1> QED
  BY <1>1, <1>3, <1>4, <1>6, <1>7, <1>8, TogetherAlone DEF Sound

\* What the shrinker forgets, and steps of nothing.
LEMMA OthersKeep ==
  ASSUME IInv, UNCHANGED <<tree, disk, reserved, page, buffer, dirty, writeback, call, pc, gap, calls, torn>>,
         status' \in [Blocks -> States], \A l \in Blocks : status'[l] \in {"none", status[l]}
  PROVE  Sound
<1>1. Shapes'
  BY DEF IInv, Shapes, Blocks, Actors, CallSet, States
<1>2. ReservedEnough'
  BY BuffersKept DEF IInv, Shapes
<1>3. \A u \in Actors : Leaves(u)
  BY LeavesQuiet DEF Known
<1>4. \A k \in Blocks : Good(k)'
  BY StillCopied, GoodQuiet
<1>5. [FileStep]_<<Contents, Hole>>
  BY StillCopied, FileSame DEF Value, OnDisk
<1> QED
  BY <1>1, <1>2, <1>3, <1>4, <1>5, TogetherAlone DEF Sound
-----------------------------------------------------------------------------
(***************************************************************************)
(* Together.                                                               *)
(***************************************************************************)
LEMMA StepKeeps == ASSUME IInv, NEW t \in Actors, Step(t) PROVE Sound
BY GetPageKeeps, GetMmapKeeps, LookKeeps, LookInTreeKeeps, PutGapKeeps, AddDelayedKeeps, CopyKeeps, FillKeeps,
   AllocateKeeps, DropKeeps, CutKeeps, RemoveKeeps, RestartKeeps, MapKeeps, SubmitKeeps DEF Step

LEMMA NextKeeps == IInv /\ [Next]_vars => Sound
<1> SUFFICES ASSUME IInv, [Next]_vars PROVE Sound
  OBVIOUS
<1>1. CASE UNCHANGED vars
  BY <1>1, OthersKeep DEF vars, blocks, cache, mine, IInv, Shapes
<1>2. ASSUME NEW t \in Actors,
             Write(t) \/ Mkwrite(t) \/ Fault(t) \/ Read(t) \/ Fallocate(t) \/ Punch(t) \/ Flush(t) \/ Step(t)
      PROVE  Sound
  BY <1>2, CallsKeep, StepKeeps
<1>3. ASSUME NEW l \in Blocks, IoEnd(l) \/ Evict(l) PROVE Sound
  BY <1>3, IoEndKeeps, EvictKeeps
<1>4. ASSUME NEW l \in Blocks, Shrink(l) PROVE Sound
  <2>1. status' \in [Blocks -> States] /\ \A k \in Blocks : status'[k] \in {"none", status[k]}
    BY <1>4 DEF Shrink, Is, IInv, Shapes, States
  <2> QED
    BY <1>4, <2>1, OthersKeep DEF Shrink, cache, mine
<1> QED
  BY <1>1, <1>2, <1>3, <1>4 DEF Next

LEMMA InitHolds == Init => IInv /\ Data!FileInit
<1> SUFFICES ASSUME Init PROVE IInv /\ Data!FileInit
  OBVIOUS
<1>1. Shapes
  BY IdleIsCall, DelallocAssumption DEF Init, Shapes, Places, States, CallSet
<1>2. \A t \in Actors : call[t].kind = "none" /\ call[t].first = 0 /\ call[t].at = 0 /\ call[t].last = 0
                        /\ pc[t] = "idle" /\ gap[t] = {}
  BY DEF Init, Idle
<1>3. \A t \in Actors : ~Locks(t) /\ DroppedBy(t) = {} /\ \A kinds : "none" \notin kinds => ~Does(t, kinds)
  BY <1>2 DEF Locks, Writes, Reads, Flushes, Does, DroppedBy
<1>4. \A t \in Actors : Actor(t)
  <2> SUFFICES ASSUME NEW t \in Actors PROVE Actor(t)
    OBVIOUS
  <2>1. Placed(t)
    BY <1>2 DEF Placed, Writes, Reads, Flushes, Does
  <2>2. Holds(t) /\ Maps(t) /\ Fills(t) /\ Punches(t)
    BY <1>2, <1>3 DEF Holds, Maps, Fills, Punches
  <2> QED
    BY <2>1, <2>2 DEF Actor
<1>5. \A t, u \in Actors : t # u => Apart(t, u)
  BY <1>2, <1>3 DEF Apart, Mutexed, Does
<1>6. \A l \in Blocks : Good(l)
  BY DEF Init, Good, OnDisk
<1>7. Delayed = {}
  BY DEF Init, Delayed
<1>8. ReservedEnough
  BY <1>7, FS_EmptySet DEF Init, ReservedEnough
<1>9. Hole = {}
  BY <1>3, InHole
<1>10. Contents \in [Blocks -> {"zero", "old"}]
  BY <1>9, ContentsAre DEF Init, Value, OnDisk
<1> QED
  BY <1>1, <1>4, <1>5, <1>6, <1>8, <1>9, <1>10 DEF IInv, Data!FileInit

LEMMA SpecKeeps == Spec => []IInv
<1>1. IInv /\ [Next]_vars => IInv'
  BY NextKeeps DEF Sound
<1> QED
  BY <1>1, InitHolds, PTL DEF Spec

\* Whatever the interleaving, a hole, an unwritten or a written block in the status tree is
\* one in the extents (ext4_map_blocks takes it from there without looking at them,
\* inode.c:525), though a removal drops i_data_sem at each restart (inode.c:157); only of a
\* block that read(2) found, or a zeroing beside it reached, in the middle of a punch of it
\* nothing is said.
THEOREM StatusTreeRight == Spec => []CacheIsTrue
<1>1. IInv => CacheIsTrue
  BY DEF IInv, Good, CacheIsTrue
<1> QED
  BY <1>1, SpecKeeps, PTL

\* However many threads write, map, allocate and punch, and however often a removal is
\* restarted, each delayed block has its reservation, so that the counter is never found too
\* small (inode.c:363 and 1317).
THEOREM ReservationsSuffice == Spec => []ReservedEnough
<1>1. IInv => ReservedEnough
  BY DEF IInv
<1> QED
  BY <1>1, SpecKeeps, PTL

\* Types are kept; each dirty page is there with its buffer, and no block stays delayed whose
\* page is neither dirty nor locked: invalidated, mapped and evicted pages have all been
\* unlocked (inode.c:1450, 2306, 2379).
THEOREM TypesRight == Spec => []TypeOK
<1>1. IInv => TypeOK
  <2> SUFFICES ASSUME IInv PROVE TypeOK
    OBVIOUS
  <2>1. reserved \in Nat
    <3>1. Cardinality(Delayed) \in Nat
      BY DelayedFinite, FS_CardinalityType
    <3> QED
      BY <3>1 DEF IInv, Shapes, ReservedEnough
  <2>2. \A l \in Delayed : l \in dirty \/ Locked(l)
    <3> SUFFICES ASSUME NEW l \in Delayed PROVE l \in dirty \/ Locked(l)
      OBVIOUS
    <3>1. l \in dirty \/ Copied(l)
      BY DEF IInv, Good, Delayed
    <3>2. Copied(l) => Locked(l)
      BY PlaceTells, LockedIs DEF Copied, LocksIt, Locks
    <3> QED
      BY <3>1, <3>2
  <2>3. \A l \in dirty : page[l] # "absent" /\ buffer[l] # "none"
    BY DEF IInv, Shapes, Good
  <2> QED
    BY <2>1, <2>2, <2>3 DEF IInv, Shapes, TypeOK, CallSet, Kinds, Places, States
<1> QED
  BY <1>1, SpecKeeps, PTL

\* And a read, by read(2) or through a mapping, returns what was written last, zeroes where
\* nothing was or a hole was punched, whatever the flushers, fallocate and memory pressure do
\* meanwhile: Delalloc implements SparseFile ("Prevent page faults from reinstantiating pages
\* we have released from page cache", inode.c:3915-3919, with ext4_page_mkwrite and
\* ext4_filemap_fault at 5564 and 5644), which promises nothing of torn blocks.
THEOREM DataKept == Spec => FileKept
<1>1. Init => Data!FileInit
  BY InitHolds
<1>2. IInv /\ [Next]_vars
        => [(\E l \in Blocks : Data!Written(l)) \/ Data!Punch \/ Data!Punched \/ Data!Torn]_<<Contents, Hole>>
  BY NextKeeps DEF Sound, FileStep
<1> QED
  BY <1>1, <1>2, SpecKeeps, PTL DEF Spec, FileKept, Data!FileSpec
=============================================================================
