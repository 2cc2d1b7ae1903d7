------------------------------ MODULE Delalloc ------------------------------
(***************************************************************************)
(* Delayed allocation in a file (ldiskfs inode.c, extents.c and            *)
(* extents_status.c): writes put data in the page cache and only reserve   *)
(* space; writeback allocates the blocks; fallocate allocates them ahead,  *)
(* unwritten; a hole is punched.  Beside the tree of extents the status    *)
(* tree caches what is known of each block, and it alone knows which are   *)
(* delayed.                                                                *)
(*                                                                         *)
(* One inode whose extents fit in it, blocks as large as pages, no         *)
(* bigalloc, no direct I/O, dioread_lock.  The page cache and the journal  *)
(* are external; of the handles only those that a removal which is         *)
(* restarted may have to wait for are told, the flushers'.                 *)
(***************************************************************************)
EXTENDS Integers, FiniteSets

CONSTANTS
    Threads,         \* of users
    Flushers,
    Last,            \* the blocks of the file are 0 .. Last
    Zeroout,         \* whether extent_max_zeroout_kb is not 0
    MaxCalls         \* a bound: calls of users

ASSUME DelallocAssumption == Last \in Nat /\ MaxCalls \in Nat /\ Zeroout \in BOOLEAN

VARIABLES
    tree,        \* the extents: "hole", "unwritten", "written"
    disk,        \* what the blocks have on the device
    status,      \* the status tree: "none", "hole", "delayed", "unwritten", "both"
                 \* (unwritten and delayed), "written"
    page,        \* the page cache: "absent" or the data
    buffer,      \* the buffer of a page: "none", "mapped", "delay", "unwritten"
    dirty,
    writeback,
    reserved,    \* i_reserved_data_blocks
    call,        \* by actor: the call it is in, its blocks and the one it is at
    pc,
    gap,         \* the hole an actor has found and will put in the status tree
    calls,
    torn         \* history: blocks read, or zeroed, in the middle of a punch of them

blocks == <<tree, disk, status, reserved>>
cache == <<page, buffer, dirty, writeback>>
mine == <<call, pc, gap>>
vars == <<blocks, cache, mine, calls, torn>>

Actors == Threads \cup Flushers
Blocks == 0 .. Last
Idle == [kind |-> "none", first |-> 0, at |-> 0, last |-> 0]

Init ==
    /\ tree \in [Blocks -> {"hole", "unwritten", "written"}]
    /\ disk = [l \in Blocks |-> IF tree[l] = "written" THEN "old" ELSE "junk"]
    /\ status = [l \in Blocks |-> "none"] /\ reserved = 0
    /\ page = [l \in Blocks |-> "absent"] /\ buffer = [l \in Blocks |-> "none"]
    /\ dirty = {} /\ writeback = {}
    /\ call = [t \in Actors |-> Idle] /\ pc = [t \in Actors |-> "idle"]
    /\ gap = [t \in Actors |-> {}] /\ calls = 0 /\ torn = {}

Does(t, kinds) == call[t].kind \in kinds
Writes(t) == Does(t, {"write", "mkwrite"})
Reads(t) == Does(t, {"fault", "read"})
Flushes(t) == Does(t, {"flush"})
Span(t) == call[t].first .. call[t].last

(***************************************************************************)
(* The locks, in the order in which they are taken, and who holds them:    *)
(* i_mutex, i_mmap_sem, a handle, the lock of a page, i_data_sem.  A call  *)
(* begins with its first lock.                                             *)
(***************************************************************************)
Mutex == \E t \in Actors : Does(t, {"write", "fallocate", "punch"})
MmapShared == \E t \in Actors : Does(t, {"mkwrite", "fault"})

\* Faulty variant: ext4_punch_hole does not take i_mmap_sem.
MmapUntaken == FALSE

MmapExclusive == \E t \in Actors : Does(t, {"punch"}) /\ pc[t] # "mmap"
Locked(l) == \E t \in Actors :
    (Writes(t) \/ Reads(t) \/ Flushes(t)) /\ pc[t] # "page" /\ call[t].at = l

\* Faulty variant: the shared holders of i_data_sem are not waited for.
NobodyMapsNow == TRUE

NobodyMaps == \A t \in Actors : pc[t] \notin {"gap", "held"}

\* Faulty variant: ext4_truncate_restart_trans keeps i_data_sem.
RemovesOrWaits == \E t \in Actors : pc[t] \in {"remove", "drain"}

SomebodyRemoves == \E t \in Actors : pc[t] = "remove"

Go(t, where) == pc' = [pc EXCEPT ![t] = where]
Starts(t, kind, a, b, where) ==
    /\ call[t] = Idle /\ Go(t, where)
    /\ call' = [call EXCEPT ![t] = [kind |-> kind, first |-> a, at |-> a, last |-> b]]
    /\ UNCHANGED <<blocks, cache, gap>>
Calls(t, kind, a, b, where) ==
    /\ t \in Threads /\ calls < MaxCalls /\ calls' = calls + 1 /\ Starts(t, kind, a, b, where)
End(t) == Go(t, "idle") /\ call' = [call EXCEPT ![t] = Idle]

Is(l, what) == status' = [status EXCEPT ![l] = what]
Are(S, what) == [l \in Blocks |-> IF l \in S THEN what ELSE status[l]]

-----------------------------------------------------------------------------
(***************************************************************************)
(* Calls.                                                                  *)
(***************************************************************************)

Write(t) == \E l \in Blocks : ~Mutex /\ Calls(t, "write", l, l, "page") /\ UNCHANGED torn

\* ext4_page_mkwrite, of a page that is mapped; the store is part of it.
Mkwrite(t) == \E l \in Blocks :
    ~MmapExclusive /\ page[l] # "absent" /\ Calls(t, "mkwrite", l, l, "page") /\ UNCHANGED torn

\* ext4_filemap_fault, of a page that is not in the cache.
Fault(t) == \E l \in Blocks :
    ~MmapExclusive /\ page[l] = "absent" /\ Calls(t, "fault", l, l, "page") /\ UNCHANGED torn

\* The blocks of a hole whose pages a punch has dropped, and those of them that it has
\* also taken out of the status tree while it holds no lock that a lookup waits for.
Dropped == {l \in Blocks : \E t \in Actors :
    /\ Does(t, {"punch"}) /\ l \in Span(t)
    /\ pc[t] \in {"cut", "remove", "drain", "again"} \/ (pc[t] = "drop" /\ l < call[t].at)}
Exposed == {l \in Blocks : \E t \in Actors : pc[t] \in {"drain", "again"} /\ l \in Span(t)}

\* read(2) of such a page: it takes neither i_mutex nor i_mmap_sem.
Read(t) == \E l \in Blocks :
    /\ page[l] = "absent" /\ ~Locked(l) /\ Calls(t, "read", l, l, "look")
    /\ torn' = torn \cup ({l} \cap Dropped)

Fallocate(t) == \E a \in Blocks : \E b \in a .. Last :
    ~Mutex /\ Calls(t, "fallocate", a, b, "look") /\ UNCHANGED torn

Punch(t) == \E a \in Blocks : \E b \in a .. Last :
    ~Mutex /\ Calls(t, "punch", a, b, "mmap") /\ UNCHANGED torn

\* ext4_writepages, of each dirty page for itself; the handle is taken first, and a
\* handle cannot be had while the commit for a restart waits for those there are.
Flush(t) == \E l \in dirty :
    /\ t \in Flushers /\ \A u \in Actors : pc[u] # "drain"
    /\ Starts(t, "flush", l, l, "page") /\ UNCHANGED <<calls, torn>>

\* lock_page.  A fault has nothing to do if the page is there by now, a store if it is
\* not, and a flusher if it is not dirty, or if it is under writeback already and the
\* flusher need not wait for that.
GetPage(t) ==
    LET l == call[t].at
        needless == \/ Does(t, {"fault"}) /\ page[l] # "absent"
                    \/ Does(t, {"mkwrite"}) /\ page[l] = "absent"
                    \/ Flushes(t) /\ l \notin dirty \ writeback
        needed == (Does(t, {"fault"}) => page[l] = "absent") /\ (Does(t, {"mkwrite"}) => page[l] # "absent")
                  /\ (Flushes(t) => l \in dirty)
    IN  /\ pc[t] = "page" /\ ~Locked(l)
        /\ (needless /\ End(t)) \/ (needed /\ Go(t, "look") /\ UNCHANGED call)
        /\ UNCHANGED <<blocks, cache, gap, calls, torn>>

\* i_mmap_sem, for a punch.
GetMmap(t) ==
    /\ pc[t] = "mmap" /\ ~MmapShared /\ ~MmapExclusive /\ Go(t, "drop")
    /\ UNCHANGED <<blocks, cache, call, gap, calls, torn>>

-----------------------------------------------------------------------------
(***************************************************************************)
(* Mapping a block: ext4_map_blocks and ext4_da_map_blocks.                *)
(***************************************************************************)

IsDelayed(what) == what \in {"delayed", "both"}

\* Faulty variant: nor is one that fallocate has allocated since.
OnlyDelayedEver(what) == IsDelayed(what)

\* A block that ext4_da_map_blocks has nothing to do for.
OnlyDelayed(what) == what = "delayed"

\* ext4_alloc_file_blocks goes on behind e.
Pass(t, e) == IF e = call[t].last THEN End(t) ELSE Go(t, "look") /\ call' = [call EXCEPT ![t].at = e + 1]

\* What a call does next with a block that has extents: "unwritten", "written".
Found(t, what) ==
    LET l == call[t].at IN
    /\ buffer' = IF Writes(t) \/ (Flushes(t) /\ what = "written")
                 THEN [buffer EXCEPT ![l] = IF what = "written" THEN "mapped" ELSE "unwritten"]
                 ELSE buffer
    /\ IF Does(t, {"fallocate"}) /\ what = "written" THEN Pass(t, l)
       ELSE /\ UNCHANGED call
            /\ Go(t, CASE Writes(t) -> "copy"
                       [] Reads(t) -> IF what = "written" THEN "disk" ELSE "zero"
                       [] Flushes(t) -> IF what = "written" THEN "submit" ELSE "map"
                       [] OTHER -> "allocate")

\* And with a hole: a write adds a delayed block, under i_data_sem if it is held.
Unmapped(t, held) ==
    /\ Go(t, CASE Writes(t) -> IF held THEN "held" ELSE "add"
               [] Reads(t) -> "zero"
               [] Flushes(t) -> "map"
               [] OTHER -> "allocate")
    /\ UNCHANGED <<buffer, call>>

\* A page that need not be mapped any more.
Mapped(t) == (Writes(t) /\ buffer[call[t].at] # "none") \/ (Flushes(t) /\ buffer[call[t].at] = "mapped")

\* The lookup in the status tree, without i_data_sem; a flusher has waited for the end
\* of the writeback of the page before.
Look(t) ==
    LET l == call[t].at
        s == status[l]
    IN  /\ pc[t] = "look" /\ (Flushes(t) => l \notin writeback)
        /\ \/ Mapped(t) /\ Go(t, IF Writes(t) THEN "copy" ELSE "submit") /\ UNCHANGED <<buffer, call>>
           \/ /\ ~Mapped(t)
              /\ \/ s = "none" /\ Go(t, "tree") /\ UNCHANGED <<buffer, call>>
                 \/ s = "hole" /\ Unmapped(t, FALSE)
                 \/ /\ OnlyDelayed(s) /\ Writes(t) /\ buffer' = [buffer EXCEPT ![l] = "delay"]
                    /\ Go(t, "copy") /\ UNCHANGED call
                 \/ s = "delayed" /\ ~Writes(t) /\ Unmapped(t, FALSE)
                 \/ s \in {"unwritten", "both"} /\ ~(OnlyDelayed(s) /\ Writes(t)) /\ Found(t, "unwritten")
                 \/ s = "written" /\ Found(t, "written")
        /\ UNCHANGED <<blocks, page, dirty, writeback, gap, calls, torn>>

\* ext4_ext_determine_hole, cut at the first delayed block of the status tree by
\* ext4_ext_put_gap_in_cache.
\* It begins at l if the first extent of the file is behind it.
GapAt(l) ==
    LET free(a, b) == \A j \in a .. b : tree[j] = "hole"
        run == {k \in Blocks : free(k, l) /\ free(l, k) /\ (k < l => free(0, Last) \/ ~free(0, l))}
    IN  {k \in run : \A j \in run : j <= k => ~IsDelayed(status[j])}

\* The lookup in the extents, under i_data_sem shared.
LookInTree(t) ==
    LET l == call[t].at
        pays == Writes(t) \/ (Flushes(t) /\ buffer[l] = "delay")
        what == IF tree[l] = "unwritten" /\ IsDelayed(status[l]) /\ ~pays THEN "both" ELSE tree[l]
    IN  /\ pc[t] = "tree" /\ ~SomebodyRemoves
        /\ \/ tree[l] # "hole" /\ Is(l, what) /\ Found(t, tree[l]) /\ UNCHANGED gap
           \/ /\ tree[l] = "hole" /\ gap' = [gap EXCEPT ![t] = GapAt(l)]
              /\ Go(t, "gap") /\ UNCHANGED <<status, buffer, call>>
        /\ UNCHANGED <<tree, disk, reserved, page, dirty, writeback, calls, torn>>

\* The gap is put in the status tree; i_data_sem is still held.
PutGap(t) ==
    /\ pc[t] = "gap"
    /\ status' = Are(gap[t], "hole") /\ gap' = [gap EXCEPT ![t] = {}] /\ Unmapped(t, TRUE)
    /\ UNCHANGED <<tree, disk, reserved, page, dirty, writeback, calls, torn>>

\* add_delayed in ext4_da_map_blocks: ext4_da_reserve_space.
AddDelayed(t) ==
    LET l == call[t].at IN
    /\ pc[t] \in {"add", "held"} /\ (pc[t] = "add" => ~SomebodyRemoves)
    /\ reserved' = reserved + 1 /\ Is(l, "delayed") /\ buffer' = [buffer EXCEPT ![l] = "delay"]
    /\ Go(t, "copy")
    /\ UNCHANGED <<tree, disk, page, dirty, writeback, call, gap, calls, torn>>

\* ext4_da_write_end, or the store of the fault.
Copy(t) ==
    LET l == call[t].at IN
    /\ pc[t] = "copy" /\ End(t)
    /\ page' = [page EXCEPT ![l] = "new"] /\ dirty' = dirty \cup {l}
    /\ UNCHANGED <<blocks, buffer, writeback, gap, calls, torn>>

Fill(t) ==
    LET l == call[t].at IN
    /\ pc[t] \in {"zero", "disk"} /\ End(t)
    /\ page' = [page EXCEPT ![l] = IF pc[t] = "disk" THEN disk[l] ELSE "zero"]
    /\ UNCHANGED <<blocks, buffer, dirty, writeback, gap, calls, torn>>

\* ext4_alloc_file_blocks: the blocks a .. e are alike, and are unwritten afterwards
\* if they were holes.  If one of them is delayed, all are said to be.
Allocate(t) ==
    LET a == call[t].at IN
    /\ pc[t] = "allocate" /\ NobodyMaps /\ ~SomebodyRemoves
    /\ \E e \in a .. call[t].last :
        /\ \A k \in a .. e : tree[k] = tree[a]
        /\ tree' = [k \in Blocks |-> IF k \in a .. e /\ tree[k] = "hole" THEN "unwritten" ELSE tree[k]]
        /\ status' = Are(a .. e, IF tree[a] = "written" THEN "written"
                                 ELSE IF \E k \in a .. e : IsDelayed(status[k]) THEN "both" ELSE "unwritten")
        /\ Pass(t, e)
    /\ UNCHANGED <<disk, reserved, cache, gap, calls, torn>>

-----------------------------------------------------------------------------
(***************************************************************************)
(* ext4_punch_hole.  The writeback it begins with is that of Flush.        *)
(***************************************************************************)

\* truncate_pagecache_range: page by page, each locked and not under writeback;
\* ext4_da_page_release_reservation takes back what a delayed block has reserved.
\* Faulty variant: each page of the range gives back a reservation.
DropAll(t) ==
    LET l == call[t].at IN
    /\ pc[t] = "drop" /\ ~Locked(l) /\ l \notin writeback
    /\ reserved' = reserved - 1 /\ status' = Are({l}, "none")
    /\ page' = [page EXCEPT ![l] = "absent"] /\ buffer' = [buffer EXCEPT ![l] = "none"]
    /\ dirty' = dirty \ {l}
    /\ IF l = call[t].last THEN Go(t, "cut") /\ UNCHANGED call
       ELSE call' = [call EXCEPT ![t].at = l + 1] /\ UNCHANGED pc
    /\ UNCHANGED <<tree, disk, writeback, gap, calls, torn>>

Drop(t) ==
    LET l == call[t].at
        delayed == buffer[l] = "delay"
    IN  /\ pc[t] = "drop" /\ ~Locked(l) /\ l \notin writeback
        /\ status' = IF delayed THEN Are({l}, "none") ELSE status
        /\ reserved' = IF delayed THEN reserved - 1 ELSE reserved
        /\ page' = [page EXCEPT ![l] = "absent"] /\ buffer' = [buffer EXCEPT ![l] = "none"]
        /\ dirty' = dirty \ {l}
        /\ IF l = call[t].last THEN Go(t, "cut") /\ UNCHANGED call
           ELSE call' = [call EXCEPT ![t].at = l + 1] /\ UNCHANGED pc
        /\ UNCHANGED <<tree, disk, writeback, gap, calls, torn>>

\* i_data_sem is taken, and the hole leaves the status tree, the first time only.  Before
\* an extent is removed the handle may have to be restarted: the lock is dropped then.
Left(t) == {l \in Span(t) : tree[l] # "hole"}
Cut(t) ==
    /\ pc[t] \in {"cut", "again"} /\ NobodyMaps
    /\ status' = IF pc[t] = "cut" THEN Are(Span(t), "none") ELSE status
    /\ Go(t, "remove") \/ (pc[t] = "cut" /\ Left(t) # {} /\ Go(t, "drain"))
    /\ UNCHANGED <<tree, disk, reserved, cache, call, gap, calls, torn>>

\* ext4_ext_rm_leaf: extents go from the right, up to the next restart or the end.
Remove(t) == \E a \in Span(t) :
    /\ pc[t] = "remove" /\ (Left(t) # {} => \E l \in Left(t) : a <= l)
    /\ tree' = [l \in Blocks |-> IF l \in a .. call[t].last THEN "hole" ELSE tree[l]]
    /\ disk' = [l \in Blocks |-> IF l \in a .. call[t].last THEN "junk" ELSE disk[l]]
    /\ IF \A l \in Left(t) : a <= l THEN End(t) ELSE Go(t, "drain") /\ UNCHANGED call
    /\ UNCHANGED <<status, reserved, cache, gap, calls, torn>>

\* ext4_journal_restart: the commit waits for the other handles.
Restart(t) ==
    /\ pc[t] = "drain" /\ (\A u \in Actors : ~Flushes(u)) /\ Go(t, "again")
    /\ UNCHANGED <<blocks, cache, call, gap, calls, torn>>

-----------------------------------------------------------------------------
(***************************************************************************)
(* Writeback and memory pressure.                                          *)
(***************************************************************************)

\* ext4_ext_convert_to_initialized: the extent of l is e[1] .. e[2]; unless l is the end
\* of it, what is behind l, or before it, or both are zeroed if that is short, so that it
\* is split into fewer.
ZeroedWith(l) ==
    LET extents == {e \in (0 .. l) \X (l + 1 .. Last) : \A k \in e[1] .. e[2] : tree[k] = "unwritten"}
    IN  {{}} \cup IF Zeroout
                  THEN {(e[1] .. e[2]) \ {l} : e \in extents} \cup {e[1] .. l - 1 : e \in extents}
                  ELSE {}

\* A delayed or unwritten block becomes written, under i_data_sem, and pays for it with
\* its reservation if it is delayed.  The page is still locked, and so are its buffers.
Map(t) ==
    LET l == call[t].at IN
    /\ pc[t] = "map" /\ NobodyMaps /\ ~SomebodyRemoves
    /\ \E Z \in ZeroedWith(l) :
        /\ tree' = [k \in Blocks |-> IF k \in Z \cup {l} THEN "written" ELSE tree[k]]
        /\ status' = Are(Z \cup {l}, "written")
        /\ disk' = [k \in Blocks |-> IF k \in Z THEN "zero" ELSE disk[k]]
        /\ torn' = torn \cup (Z \cap Exposed)
    /\ reserved' = IF buffer[l] = "delay" /\ tree[l] # "written" THEN reserved - 1 ELSE reserved
    /\ buffer' = [buffer EXCEPT ![l] = "mapped"] /\ Go(t, "submit")
    /\ UNCHANGED <<page, dirty, writeback, call, gap, calls>>

\* mpage_submit_page: the I/O starts and the page is unlocked.
Submit(t) ==
    LET l == call[t].at IN
    /\ pc[t] = "submit" /\ End(t) /\ dirty' = dirty \ {l} /\ writeback' = writeback \cup {l}
    /\ UNCHANGED <<blocks, page, buffer, gap, calls, torn>>

IoEnd(l) ==
    /\ l \in writeback /\ writeback' = writeback \ {l} /\ disk' = [disk EXCEPT ![l] = page[l]]
    /\ UNCHANGED <<tree, status, reserved, page, buffer, dirty, mine, calls, torn>>

Evict(l) ==
    /\ page[l] # "absent" /\ ~Locked(l) /\ l \notin dirty \cup writeback
    /\ page' = [page EXCEPT ![l] = "absent"] /\ buffer' = [buffer EXCEPT ![l] = "none"]
    /\ UNCHANGED <<blocks, dirty, writeback, mine, calls, torn>>

\* __es_try_to_reclaim_extents: never what is delayed.
Shrink(l) ==
    /\ status[l] # "none" /\ ~IsDelayed(status[l]) /\ Is(l, "none")
    /\ UNCHANGED <<tree, disk, reserved, cache, mine, calls, torn>>

-----------------------------------------------------------------------------
Step(t) ==
    \/ GetPage(t) \/ GetMmap(t) \/ Look(t) \/ LookInTree(t) \/ PutGap(t) \/ AddDelayed(t) \/ Copy(t)
    \/ Fill(t) \/ Allocate(t) \/ Drop(t) \/ Cut(t) \/ Remove(t) \/ Restart(t) \/ Map(t) \/ Submit(t)
Next ==
    \/ \E t \in Actors : \/ Write(t) \/ Mkwrite(t) \/ Fault(t) \/ Read(t) \/ Fallocate(t) \/ Punch(t)
                         \/ Flush(t) \/ Step(t)
    \/ \E l \in Blocks : IoEnd(l) \/ Evict(l) \/ Shrink(l)

\* Calls go on and get their locks, the flusher takes every dirty page in turn, and the
\* device answers.
Fairness ==
    /\ \A t \in Actors : WF_vars(Step(t)) /\ WF_vars(Flush(t))
    /\ \A l \in Blocks : WF_vars(IoEnd(l))

Spec == Init /\ [][Next]_vars /\ Fairness

-----------------------------------------------------------------------------
(***************************************************************************)
(* Properties.                                                             *)
(***************************************************************************)

Delayed == {l \in Blocks : buffer[l] = "delay"}

\* Types; and a dirty page is there, has a buffer, and no block is delayed without one.
TypeOK ==
    /\ tree \in [Blocks -> {"hole", "unwritten", "written"}]
    /\ disk \in [Blocks -> {"zero", "old", "new", "junk"}]
    /\ status \in [Blocks -> {"none", "hole", "delayed", "unwritten", "both", "written"}]
    /\ page \in [Blocks -> {"absent", "zero", "old", "new", "junk"}]
    /\ buffer \in [Blocks -> {"none", "mapped", "delay", "unwritten"}]
    /\ dirty \subseteq Blocks /\ writeback \subseteq Blocks /\ reserved \in Nat
    /\ call \in [Actors -> [kind : {"none", "write", "mkwrite", "fault", "read", "fallocate", "punch",
                                    "flush"},
                            first : Blocks, at : Blocks, last : Blocks]]
    /\ pc \in [Actors -> {"idle", "mmap", "page", "look", "tree", "gap", "add", "held", "copy", "zero",
                          "disk", "allocate", "drop", "cut", "remove", "drain", "again", "map", "submit"}]
    /\ gap \in [Actors -> SUBSET Blocks] /\ calls \in 0 .. MaxCalls /\ torn \subseteq Blocks
    /\ \A l \in dirty : page[l] # "absent" /\ buffer[l] # "none"
    /\ \A l \in Delayed : l \in dirty \/ Locked(l)

\* Each delayed block has its reservation, so that the counter is never found too
\* small (the warnings of ext4_da_update_reserve_space and ext4_da_release_space,
\* inode.c:363 and 1317).
ReservedEnough == Cardinality(Delayed) <= reserved

\* And the reservations are no more than that (extents.c:4160: "fallocate would have
\* already updated quota and block count for this offset.  So cancel these
\* reservation").
ReservationsCancelled == Cardinality(Delayed) = reserved

\* What the status tree says of a block is so (extents_status.c:43: "we can first try
\* to lookup a block mapping in this tree before finding it in extent tree"), with
\* shared and exclusive holders of i_data_sem, removals that are restarted and the
\* shrinker at work; but for blocks that were looked up or zeroed in the middle of a
\* punch of them (ext4_punch_hole clears the status once, before its restarts).
CacheIsTrue ==
    \A l \in Blocks \ torn :
        /\ status[l] = "hole" => tree[l] = "hole"
        /\ status[l] \in {"unwritten", "both"} => tree[l] = "unwritten"
        /\ status[l] = "written" => tree[l] = "written"

\* The data of a block are those last written, or zeroes where nothing was or a hole was
\* punched: in the page, or on the disk if the block is written; nothing is said of the
\* torn blocks.  From the moment a punch has its locks its blocks count as zeroes.
Hole == UNION {Span(t) : t \in {u \in Actors : Does(u, {"punch"}) /\ pc[u] # "mmap"}}
Contents == [l \in Blocks |->
    IF l \in torn THEN "any"
    ELSE IF l \in Hole THEN "zero"
    ELSE IF page[l] # "absent" THEN page[l]
    ELSE IF tree[l] = "written" THEN disk[l] ELSE "zero"]
Data == INSTANCE SparseFile WITH file <- Contents, hole <- Hole
FileKept == Data!FileSpec

\* What was written reaches the disk, whatever locks, handles and writebacks the calls,
\* the flushers and a removal that is restarted wait for.
DirtyGoesOut == \A l \in Blocks : l \in dirty ~> l \notin dirty
=============================================================================
