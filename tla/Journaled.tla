------------------------------ MODULE Journaled ------------------------------
(***************************************************************************)
(* Files on a journaled file system (ldiskfs inode.c, namei.c, ialloc.c,   *)
(* extents.c, mballoc.c, super.c): they are made, written, cut and deleted *)
(* in steps, each a handle of the running transaction; jbd2 commits the    *)
(* transactions one after the other; the host crashes at any moment, the   *)
(* journal is replayed, and the mount works through the list of orphans.   *)
(*                                                                         *)
(* A file has a sequence of blocks with its data, and a block with its     *)
(* extents when they do not fit in the inode.  Data go straight to the     *)
(* device (data=ordered).  jbd2 is external.                               *)
(***************************************************************************)
EXTENDS OrphanList

CONSTANTS
    Blocks,      \* block numbers
    Old,         \* the blocks of the files that are there at the start
    RootMax,     \* extents that fit in the inode
    MaxSize,     \* a bound: blocks of a file
    MaxCrashes,  \* a bound
    MaxOps,      \* a bound: calls of users between the start and a crash, and after it
    Delalloc,    \* whether blocks are allocated when the data are written (delalloc)
    Faults       \* whether a handle fails to start

\* No two files share a block, and the extents of each are in its inode.
ASSUME JournaledAssumption ==
    /\ None \notin Blocks /\ Old \in [Inodes -> Seq(Blocks)]
    /\ \A i \in Inodes : Len(Old[i]) <= RootMax /\ Len(Old[i]) <= MaxSize
    /\ \A i, j \in Inodes : \A n \in DOMAIN Old[i], m \in DOMAIN Old[j] :
        Old[i][n] = Old[j][m] => i = j /\ n = m
    /\ {RootMax, MaxSize, MaxCrashes, MaxOps} \subseteq Nat
    /\ {Delalloc, Faults} \subseteq BOOLEAN

VARIABLES
    fs,          \* the file system as the running transaction has it
    going,       \* as the committing transaction has it
    disk,        \* as the last commit has it
    committing,
    running,     \* of the running transaction: blocks that wait for its commit to
                 \* be free, blocks of extents it has logged, blocks it has revoked
    ending,      \* the same of the committing one
    logged,      \* whose extents the journal has for a block, if it has any
    content,     \* a block on the device: what it has of whom
    dirty,       \* blocks whose data are in the page cache only
    inflight,    \* blocks whose data are under writeback
    list,        \* s_orphan
    open,        \* who has the file: "closed", "open", "tmpfile" if it never had a name
    step,        \* where an inode is in setattr, truncate or evict_inode
    target,      \* the size setattr sets
    phase,       \* "up", "recovering"
    errors,      \* EXT4_ERROR_FS
    crashes,
    ops          \* calls of users so far

view == <<fs, going, disk, committing, running, ending, logged>>
data == <<content, dirty, inflight>>
mem == <<list, open, step, target>>
sys == <<phase, errors, crashes, ops>>
vars == <<view, data, mem, sys>>

Set(f, i, x) == [f EXCEPT ![i] = x]
Goto(i, where) == step' = Set(step, i, where)

\* ext4_ext_truncate_extend_restart: the handle goes on, or it has no credits left
\* and i waits for one of the transaction that runs next.
GoOn(i) == \E where \in {"cutting", "paused"} : Goto(i, where)
NoTx == [pend |-> {}, meta |-> {}, revoked |-> {}]
Closed == [i \in Inodes |-> "closed"]
AllIdle == [i \in Inodes |-> "idle"]
Zero == [i \in Inodes |-> 0]
Nobody == [i \in Inodes |-> None]
Data(i) == [kind |-> "data", of |-> i]
Extents(i) == [kind |-> "extents", of |-> i]
Other == [kind |-> "other", of |-> None]

\* A file system that was unmounted.
OldFs ==
    LET there == {i \in Inodes : Old[i] # <<>>}
    IN  [used |-> there, links |-> [i \in Inodes |-> IF i \in there THEN 1 ELSE 0],
         size |-> [i \in Inodes |-> Len(Old[i])], blocks |-> Old, leaf |-> Nobody,
         map |-> UNION {Range(Old[i]) : i \in there}, head |-> None, next |-> Nobody]
OldContent == [b \in Blocks |-> IF b \in OldFs.map
                                 THEN Data(CHOOSE i \in Inodes : b \in Range(Old[i])) ELSE Other]

Init ==
    /\ fs = OldFs /\ going = OldFs /\ disk = OldFs /\ committing = FALSE
    /\ running = NoTx /\ ending = NoTx
    /\ logged = [b \in Blocks |-> None] /\ content = OldContent
    /\ dirty = {} /\ inflight = {}
    /\ list = <<>> /\ open = Closed /\ step = AllIdle /\ target = Zero
    /\ phase = "up" /\ errors = FALSE /\ crashes = 0 /\ ops = 0

\* A call of a user.
Up == phase = "up" /\ ops < MaxOps /\ ops' = ops + 1 /\ UNCHANGED <<phase, errors, crashes>>
Idle(i) == i \in fs.used /\ step[i] = "idle"
InUse(i) == fs.links[i] = 1 \/ open[i] # "closed"   \* not for the last iput
Used(v, i) == Range(v.blocks[i])
Beyond(v, i, n) == {v.blocks[i][k] : k \in n + 1 .. Len(v.blocks[i])}

-----------------------------------------------------------------------------
(***************************************************************************)
(* Names: each is one handle.                                              *)
(***************************************************************************)

\* __ext4_new_inode and ext4_add_nondir: a free bit of the inode bitmap.
Create(i) ==
    /\ Up /\ i \notin fs.used
    /\ fs' = [fs EXCEPT !.used = @ \cup {i}, !.links[i] = 1, !.next[i] = None]
    /\ open' = Set(open, i, "open")
    /\ UNCHANGED <<going, disk, committing, running, ending, logged, data, list, step, target>>

TmpFile(i) ==
    /\ Up /\ i \notin fs.used
    /\ fs' = AddOrphan([fs EXCEPT !.used = @ \cup {i}, !.next[i] = None], list, i)
    /\ list' = Listed(list, i) /\ open' = Set(open, i, "tmpfile")
    /\ UNCHANGED <<going, disk, committing, running, ending, logged, data, step, target>>

\* ext4_link, of a file that has no name yet.
Link(i) ==
    /\ Up /\ Idle(i) /\ open[i] = "tmpfile"
    /\ fs' = DelOrphan([fs EXCEPT !.links[i] = 1], list, i)
    /\ list' = Unlisted(list, i) /\ open' = Set(open, i, "open")
    /\ UNCHANGED <<going, disk, committing, running, ending, logged, data, step, target>>

Unlink(i) ==
    /\ Up /\ Idle(i) /\ fs.links[i] = 1
    /\ fs' = AddOrphan([fs EXCEPT !.links[i] = 0], list, i)
    /\ list' = Listed(list, i)
    /\ Goto(i, IF open[i] = "closed" THEN "doomed" ELSE "idle")
    /\ UNCHANGED <<going, disk, committing, running, ending, logged, data, open, target>>

Open(i) ==
    /\ Up /\ Idle(i) /\ fs.links[i] = 1 /\ open[i] = "closed" /\ open' = Set(open, i, "open")
    /\ UNCHANGED <<view, data, list, step, target>>

\* The last iput of an inode without a name leads to ext4_evict_inode.
Close(i) ==
    /\ Up /\ Idle(i) /\ open[i] # "closed"
    /\ open' = Set(open, i, "closed") /\ Goto(i, IF fs.links[i] = 0 THEN "doomed" ELSE "idle")
    /\ UNCHANGED <<view, data, list, target>>

-----------------------------------------------------------------------------
(***************************************************************************)
(* Blocks.                                                                 *)
(***************************************************************************)

\* The buddy bitmap, which the allocator searches: freed blocks appear in it when
\* their transaction has committed (ext4_free_data_callback).
Available == Blocks \ (fs.map \cup running.pend \cup ending.pend)

\* The extents of i have changed: their block, if they have one, is logged.
Logs(tx, l) == IF l = None THEN tx ELSE [tx EXCEPT !.meta = @ \cup {l}, !.revoked = @ \ {l}]

\* When a block can be allocated: write(2) excludes setattr (i_mutex), but writeback,
\* which allocates with delalloc, does not.  Until truncate_pagecache it finds dirty
\* pages of the file, and after setattr's handle those are beyond the size (inode.c:2250).
MayWrite(i) ==
    \/ Idle(i) /\ fs.size[i] = Len(fs.blocks[i])
    \/ Delalloc /\ step[i] = "asked" /\ fs.size[i] = Len(fs.blocks[i])
    \/ Delalloc /\ step[i] = "sized"

\* One block more: ext4_ext_map_blocks, and ext4_jbd2_file_inode (Filed, below); with
\* ext4_ext_grow_indepth when the inode has no room for another extent.
Write(i) == \E b \in Available, l \in Available \cup {None} :
    LET old == fs.leaf[i]
        grows == old = None /\ Len(fs.blocks[i]) = RootMax
        leaf == IF grows THEN l ELSE old
    IN  /\ Up /\ InUse(i) /\ MayWrite(i) /\ Len(fs.blocks[i]) < MaxSize
        /\ grows <=> l # None
        /\ l # b
        /\ fs' = [fs EXCEPT !.blocks[i] = Append(@, b), !.leaf[i] = leaf,
                            !.size[i] = IF step[i] = "sized" THEN @ ELSE @ + 1,
                            !.map = @ \cup {b} \cup ({leaf} \ {None})]
        /\ running' = Logs(running, leaf)
        /\ dirty' = IF Delalloc THEN dirty ELSE dirty \cup {b}
        /\ inflight' = IF Delalloc THEN inflight \cup {b} ELSE inflight
        /\ UNCHANGED <<going, disk, committing, ending, logged, content, mem>>

\* A block that a failed truncation has left beyond the size: it is mapped, so
\* i_disksize grows at once (ext4_da_write_end), before the data are out.
Rewrite(i) ==
    /\ Up /\ Idle(i) /\ InUse(i) /\ fs.size[i] < Len(fs.blocks[i])
    /\ fs' = [fs EXCEPT !.size[i] = @ + 1]
    /\ dirty' = dirty \cup {fs.blocks[i][fs.size[i] + 1]}
    /\ UNCHANGED <<going, disk, committing, running, ending, logged, content, inflight, mem>>

\* Data reach the device.
Owner(b) == CHOOSE i \in Inodes : b \in Used(fs, i)
DataOut(b) ==
    /\ b \in dirty \cup inflight
    /\ content' = Set(content, b, Data(Owner(b)))
    /\ dirty' = dirty \ {b} /\ inflight' = inflight \ {b}
    /\ UNCHANGED <<view, mem, sys>>

\* ext4_free_blocks, and ext4_forget for a block of extents.
FreedAtOnce(tx, b) == tx   \* Faulty variant: the blocks are in the buddy bitmap at once
Freed(tx, b) == [tx EXCEPT !.pend = @ \cup {b}]
RevokedStays(tx, b) == [tx EXCEPT !.revoked = @ \cup {b}]   \* Faulty variant: the transaction keeps the block
Revoked(tx, b) == [tx EXCEPT !.meta = @ \ {b}, !.revoked = @ \cup {b}]

-----------------------------------------------------------------------------
(***************************************************************************)
(* Cutting: ext4_setattr, ext4_truncate, ext4_evict_inode.                 *)
(***************************************************************************)

\* ext4_begin_ordered_truncate: the committing transaction has the inode on its
\* list, since it has got blocks, so its data are written out.  (They are waited for
\* here, in the code by truncate_pagecache.)
Filed(i) == committing /\ Used(going, i) \ Used(disk, i) # {}
Ordered(i, n) == Filed(i) => dirty \cap Beyond(going, i, n) = {}
Ask(i) == \E n \in 0 .. MaxSize :
    /\ Up /\ Idle(i) /\ InUse(i) /\ n < fs.size[i] /\ Ordered(i, n)
    /\ Goto(i, "asked") /\ target' = Set(target, i, n)
    /\ UNCHANGED <<view, data, list, open>>

\* The first handle of ext4_setattr.
Resize(i) ==
    /\ step[i] = "asked" /\ Goto(i, "sized") /\ target' = Set(target, i, 0)
    /\ fs' = AddOrphan([fs EXCEPT !.size[i] = target[i]], list, i) /\ list' = Listed(list, i)
    /\ UNCHANGED <<going, disk, committing, running, ending, logged, data, open, sys>>

\* The pages beyond the size are dropped, after those under writeback are out; then
\* ext4_truncate starts a handle, which fails or finds i on the list.
Dropped(i, n) ==
    /\ inflight \cap Beyond(fs, i, n) = {}
    /\ dirty' = dirty \ Beyond(fs, i, n) /\ UNCHANGED <<content, inflight>>
StartCut(i) ==
    /\ step[i] = "sized" /\ Dropped(i, fs.size[i]) /\ GoOn(i)
    /\ fs' = AddOrphan(fs, list, i) /\ list' = Listed(list, i)
    /\ UNCHANGED <<going, disk, committing, running, ending, logged, open, target, sys>>

\* ext4_evict_inode.
StartEvict(i) ==
    /\ step[i] = "doomed" /\ Ordered(i, 0) /\ Dropped(i, 0) /\ GoOn(i)
    /\ fs' = [fs EXCEPT !.size[i] = 0]
    /\ UNCHANGED <<going, disk, committing, running, ending, logged, list, open, target, sys>>

\* A handle does not start, or does not start again in the middle of a cut, and
\* ext4_std_error says so in the superblock.  setattr gives up before its own handle;
\* later the inode leaves the list in memory only, but for a file that is open without
\* a name (inode.c:4132, 5133) and for one that ext4_orphan_cleanup was going to cut
\* to its size (and then frees the inode: what the list does with the dead entry is
\* left out).
StaysListed(i) ==
    \/ fs.links[i] = 0 /\ open[i] # "closed"
    \/ phase = "recovering" /\ step[i] = "sized"
HandleFails(i) ==
    /\ Faults /\ ~errors /\ step[i] \in {"asked", "sized", "doomed", "paused"}
    /\ errors' = TRUE /\ Goto(i, "idle") /\ target' = Set(target, i, 0)
    /\ IF step[i] \in {"sized", "doomed"} THEN Dropped(i, fs.size[i]) ELSE UNCHANGED data
    /\ list' = IF step[i] = "asked" \/ StaysListed(i) THEN list ELSE Unlisted(list, i)
    /\ UNCHANGED <<view, open, phase, crashes, ops>>

\* ext4_ext_rm_leaf: the last extent goes, and the block they were in if it was the
\* only one (ext4_ext_rm_idx).
Cut(i) ==
    LET n == Len(fs.blocks[i])
        b == fs.blocks[i][n]
        l == fs.leaf[i]
        emptied == n = 1 /\ l # None
    IN  /\ step[i] = "cutting" /\ n > fs.size[i]
        /\ fs' = [fs EXCEPT !.blocks[i] = SubSeq(@, 1, n - 1), !.leaf[i] = IF emptied THEN None ELSE @,
                            !.map = @ \ ({b} \cup (IF emptied THEN {l} ELSE {}))]
        /\ running' = IF emptied THEN Revoked(Freed(Freed(running, b), l), l)
                      ELSE Logs(Freed(running, b), l)
        /\ GoOn(i)
        /\ UNCHANGED <<going, disk, committing, ending, logged, data, list, open, target, sys>>

Resume(i) == step[i] = "paused" /\ Goto(i, "cutting")
             /\ UNCHANGED <<view, data, list, open, target, sys>>

FinishCutAny(i) ==  \* Faulty variant: i_nlink is not looked at
    /\ step[i] = "cutting" /\ InUse(i) /\ Len(fs.blocks[i]) <= fs.size[i] /\ Goto(i, "idle")
    /\ fs' = DelOrphan(fs, list, i) /\ list' = Unlisted(list, i)
    /\ UNCHANGED <<going, disk, committing, running, ending, logged, data, open, target, sys>>
\* The end of ext4_truncate: a file that is open without a name stays on the list.
FinishCut(i) ==
    /\ step[i] = "cutting" /\ InUse(i) /\ Len(fs.blocks[i]) <= fs.size[i] /\ Goto(i, "idle")
    /\ IF fs.links[i] = 1
       THEN fs' = DelOrphan(fs, list, i) /\ list' = Unlisted(list, i)
       ELSE UNCHANGED <<fs, list>>
    /\ UNCHANGED <<going, disk, committing, running, ending, logged, data, open, target, sys>>

\* The end of ext4_evict_inode, with ext4_free_inode.
FinishEvict(i) ==
    /\ step[i] = "cutting" /\ ~InUse(i) /\ Len(fs.blocks[i]) <= fs.size[i] /\ Goto(i, "idle")
    /\ fs' = [DelOrphan(fs, list, i) EXCEPT !.used = @ \ {i}] /\ list' = Unlisted(list, i)
    /\ UNCHANGED <<going, disk, committing, running, ending, logged, data, open, target, sys>>

-----------------------------------------------------------------------------
(***************************************************************************)
(* jbd2.                                                                   *)
(***************************************************************************)

\* The running transaction starts to commit when no handle is open.
Freeze ==
    /\ ~committing /\ \A i \in Inodes : step[i] # "cutting"
    /\ fs # disk \/ running # NoTx
    /\ committing' = TRUE /\ going' = fs /\ ending' = running /\ running' = NoTx
    /\ UNCHANGED <<fs, disk, logged, data, mem, sys>>

\* It ends when the data of the inodes on its list are on the device; then the callbacks
\* make the blocks it has freed available.
DataOf(v) == UNION {Used(v, i) : i \in Inodes}
LeafOwner(v, b) == CHOOSE i \in Inodes : v.leaf[i] = b
Commit ==
    /\ committing
    /\ \A i \in Inodes : Filed(i) => Used(going, i) \cap (dirty \cup inflight) = {}
    /\ committing' = FALSE /\ disk' = going /\ ending' = NoTx
    /\ logged' = [b \in Blocks |-> IF b \in ending.meta THEN LeafOwner(going, b)
                                   ELSE IF b \in ending.revoked THEN None ELSE logged[b]]
    /\ UNCHANGED <<fs, going, running, data, mem, sys>>

\* A crash, and the replay of the journal at the next mount.
Replayed == [b \in Blocks |-> IF logged[b] # None THEN Extents(logged[b]) ELSE content[b]]
Crash ==
    /\ crashes < MaxCrashes /\ crashes' = crashes + 1
    /\ fs' = disk /\ going' = disk /\ committing' = FALSE /\ running' = NoTx /\ ending' = NoTx
    /\ content' = Replayed /\ logged' = [b \in Blocks |-> None] /\ dirty' = {} /\ inflight' = {}
    /\ list' = <<>> /\ open' = Closed /\ step' = AllIdle /\ target' = Zero
    /\ phase' = "recovering" /\ UNCHANGED <<disk, errors, ops>>

-----------------------------------------------------------------------------
(***************************************************************************)
(* ext4_orphan_cleanup.                                                    *)
(***************************************************************************)

\* ext4_orphan_get: the inode is in use, so it can be truncated or deleted.
GoodOrphanNamed(i) == i \in fs.used /\ fs.links[i] = 1   \* Faulty variant: only files that have a name
GoodOrphan(i) == i \in fs.used
Recovering == phase = "recovering" /\ step = AllIdle

RecoverDeletes ==  \* Faulty variant: every orphan is deleted
    /\ Recovering /\ fs.head # None
    /\ LET i == fs.head
       IN  IF ~errors /\ GoodOrphan(i)
           THEN /\ list' = <<i>> \o list /\ Goto(i, "doomed")
                /\ UNCHANGED fs
           ELSE fs' = [fs EXCEPT !.head = None] /\ UNCHANGED <<list, step>>
    /\ UNCHANGED <<going, disk, committing, running, ending, logged, data, open, target, sys>>

RecoverUnlisted ==  \* Faulty variant: the inode is not put on the list in memory
    /\ Recovering /\ fs.head # None
    /\ LET i == fs.head
       IN  IF ~errors /\ GoodOrphan(i)
           THEN /\ UNCHANGED list /\ Goto(i, IF fs.links[i] = 0 THEN "doomed" ELSE "sized")
                /\ UNCHANGED fs
           ELSE fs' = [fs EXCEPT !.head = None] /\ UNCHANGED <<list, step>>
    /\ UNCHANGED <<going, disk, committing, running, ending, logged, data, open, target, sys>>

Recover ==
    /\ Recovering /\ fs.head # None
    /\ LET i == fs.head
       IN  IF ~errors /\ GoodOrphan(i)
           THEN /\ list' = <<i>> \o list /\ Goto(i, IF fs.links[i] = 0 THEN "doomed" ELSE "sized")
                /\ UNCHANGED fs
           ELSE fs' = [fs EXCEPT !.head = None] /\ UNCHANGED <<list, step>>
    /\ UNCHANGED <<going, disk, committing, running, ending, logged, data, open, target, sys>>

Mounted ==
    /\ Recovering /\ fs.head = None /\ phase' = "up"
    /\ UNCHANGED <<view, data, mem, errors, crashes, ops>>

\* What is under way.
Proceed(i) == Resize(i) \/ StartCut(i) \/ StartEvict(i) \/ Cut(i) \/ Resume(i)
              \/ FinishCut(i) \/ FinishEvict(i)

Next ==
    \/ \E i \in Inodes :
        \/ Create(i) \/ TmpFile(i) \/ Link(i) \/ Unlink(i) \/ Open(i) \/ Close(i)
        \/ Write(i) \/ Rewrite(i) \/ Ask(i) \/ HandleFails(i) \/ Proceed(i)
    \/ \E b \in Blocks : DataOut(b)
    \/ Freeze \/ Commit \/ Crash \/ Recover \/ Mounted

\* The threads that truncate and delete go on, writeback and kjournald2 too, and so
\* does the mount.
Fairness ==
    /\ \A i \in Inodes : WF_vars(Proceed(i))
    /\ \A b \in Blocks : WF_vars(DataOut(b))
    /\ WF_vars(Freeze) /\ WF_vars(Commit) /\ WF_vars(Recover) /\ WF_vars(Mounted)

Spec == Init /\ [][Next]_vars /\ Fairness

-----------------------------------------------------------------------------
(***************************************************************************)
(* Properties.                                                             *)
(***************************************************************************)

Views == [used : SUBSET Inodes, links : [Inodes -> {0, 1}], size : [Inodes -> 0 .. MaxSize],
          blocks : [Inodes -> UNION {[1 .. n -> Blocks] : n \in 0 .. MaxSize}],
          leaf : [Inodes -> Blocks \cup {None}], map : SUBSET Blocks,
          head : Inodes \cup {None}, next : [Inodes -> Inodes \cup {None}]]
Txs == [pend : SUBSET Blocks, meta : SUBSET Blocks, revoked : SUBSET Blocks]

\* Types; and no transaction both logs a block and revokes it, nor logs one that it
\* has freed.
TypeOK ==
    /\ {fs, going, disk} \subseteq Views /\ {running, ending} \subseteq Txs
    /\ logged \in [Blocks -> Inodes \cup {None}]
    /\ content \in [Blocks -> [kind : {"data", "extents", "other"}, of : Inodes \cup {None}]]
    /\ {dirty, inflight} \subseteq SUBSET Blocks
    /\ list \in UNION {[1 .. n -> Inodes] : n \in 0 .. Cardinality(Inodes)}
    /\ open \in [Inodes -> {"closed", "open", "tmpfile"}]
    /\ step \in [Inodes -> {"idle", "asked", "sized", "doomed", "cutting", "paused"}]
    /\ target \in [Inodes -> 0 .. MaxSize]
    /\ phase \in {"up", "recovering"} /\ {committing, errors} \subseteq BOOLEAN
    /\ \A tx \in {running, ending} : tx.meta \cap (tx.revoked \cup tx.pend) = {}

\* Each commit leaves a file system that a crash may interrupt (the comment of
\* ext4_truncate, inode.c:4101: "the file must always be in a sane, consistent
\* truncatable state while each transaction commits"): the bitmap has the blocks of
\* files, each of one file, and no others; whatever has no name or more blocks
\* than its size is on the list of orphans, unless a handle could not be started.
Whole(v) ==
    /\ v.map = DataOf(v) \cup (Range(v.leaf) \ {None})
    /\ \A i, j \in Inodes : i # j => Used(v, i) \cap Used(v, j) = {}
    /\ \A i \in Inodes \ v.used : v.blocks[i] = <<>> /\ v.leaf[i] = None
    /\ \A i \in v.used :
        /\ Len(v.blocks[i]) >= v.size[i]
        /\ errors \/ i \in Orphans(v) \/ (v.links[i] = 1 /\ Len(v.blocks[i]) = v.size[i])
    /\ errors \/ (Ends(v) /\ Orphans(v) \subseteq v.used)
Restartable == Whole(disk) /\ Whole(going)

\* Whenever the host crashes, the replay leaves a file that has a name with its own
\* data in every block up to its size and its own extents in their block: no block
\* of it was used again before its release was committed, and no old extents are
\* replayed over new data (mballoc.c:4920, ext4_jbd2.c:161).
DataSurvive ==
    \A i \in Inodes : disk.links[i] = 1 =>
        /\ \A n \in 1 .. disk.size[i] : Replayed[disk.blocks[i][n]] = Data(i)
        /\ disk.leaf[i] # None => Replayed[disk.leaf[i]] = Extents(i)

\* The data of a transaction are on the device when it has committed (inode.c:4980: "if
\* we are in ordered mode and inode is still attached to the committing transaction,
\* we must we start writeout of all the dirty pages which are being truncated. This
\* way we are sure that all the data written in the previous transaction are already
\* on disk").  It fails without delayed allocation: the transaction starts to commit
\* after the look at it and before setattr's own handle, and the pages are dropped.
CommittedDataOut == \A i \in Inodes :
    disk.links[i] = 1 => \A n \in 1 .. disk.size[i] : content[disk.blocks[i][n]] # Other

\* As long as no handle has failed to start, the list of orphans on disk, as the running
\* transaction has it, is the list in memory in the same order, which ext4_orphan_del
\* relies on (namei.c:3405-3430), and a file is on it only while it is being cut or
\* deleted or is open without a name.  (Afterwards the two differ.)
ListsAgree ==
    phase = "up" /\ ~errors =>
        /\ Spells(fs, list)
        /\ \A i \in Range(list) : step[i] # "idle" \/ (fs.links[i] = 0 /\ open[i] # "closed")

\* Files as users see them survive as the journal promises: operations change one
\* file, commits keep a moment, crashes go back to the last commit; the cleanup of
\* orphans changes no file that has a name.
Visible(v) == [i \in Inodes |-> IF v.links[i] = 1 THEN v.size[i] ELSE -1]
Promised == INSTANCE Durable WITH
    Files <- Inodes, Lengths <- 0 .. MaxSize, Absent <- -1,
    now <- Visible(fs), going <- Visible(going), kept <- Visible(disk), mounted <- phase = "up"
FilesDurable == Promised!DurableSpec

\* The mount gets through the list of orphans, whatever was under way at the crash
\* (super.c:2340).
RecoveryEnds == phase = "recovering" ~> phase = "up"

\* The inode and the blocks of a file that has neither a name nor a user come back,
\* unless a crash undoes its deletion or a handle could not be started (inode.c:183).
DeletedFilesGo == \A i \in Inodes :
    i \in fs.used /\ fs.links[i] = 0 /\ open[i] = "closed" ~> i \notin fs.used \/ fs.links[i] = 1 \/ errors
=============================================================================
