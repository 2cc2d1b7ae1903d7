# DIST-LFSCK in TLA+

DIST-LFSCK checks a Lustre file system off line. It reads the ldiskfs device of every
server, inode by inode, and writes what it finds into one Neo4j graph: a node for each
inode, and relationships where one inode's extended attributes name another. A missing or a
one-way relationship is how an inconsistency shows, so two things matter: the graph must
hold no relationship the devices do not attest, and when a check is over it must hold all
of them. This directory states both, model-checks them with TLC, and proves them with TLAPS,
together with the fact that runs never undo each other's work.

The repository also keeps the file system the scanners read: the kernel's ext4 (`ext4/`) and
ldiskfs, Lustre's variant of it (`ldiskfs/`). Four parts of it where order and failure matter
are modelled too: the lock of a directory tree and the indexed directories that rely on it,
the protection against mounting a device twice, the way a file is cut and deleted across
crashes, and delayed allocation.

Paths below are relative to the repository; `new/` stands for `intergrate/new_scan_code/`.

## 1. Inventory

| component | source | state | operations | here |
|---|---|---|---|---|
| metadata scanner | `new/mds_src.c` | place in the program, loop variable `i`, current xattr entry | start, read a slot and CREATE a node, SET the type, SET lma / pfid / ost_oid, merge parents, exit | modelled |
| object scanner, one per server | `new/ost_src.c` | the same, and the counter `j` of the last loop | the same with lma (two SETs) and fid, merge children, last loop of LOV merges | modelled |
| on-disk structures | `new/xattr_sk.h` | the device | decoding of a FID, a link value, a layout | fields modelled, byte offsets not |
| graph database | external | nodes, properties, relationships | CREATE, match-set, match-merge; a statement may fail | modelled from the statements |
| the check as a whole | both scanners | all of it | programs started, killed, started again, side by side or in turn | modelled |
| on-disk geometry | `new/*.c`, `lsfsck.c` | none | slot addresses, the walks of xattrs and directory blocks | planned |
| earlier scanners | `intergrate/integrate apr 2021`, `intergrate/scanning codes + libraries` | none | bitmap walk and other address arithmetic | planned |
| ext4_checker | `ext4_checker/` | two running sums of entry lengths | walk of in-inode and external xattrs | planned |
| lsfsck, dumpe2fs | `lsfsck.c`, `dumpe2fs.c`, `ext4/demoext4group.c` | none | print a superblock, a group, an inode | reference only |
| graph demonstrations, generators | `intergrate/**/neoclient*.c`, `neo4j/*.c` | the graph | a fixed list of statements | planned / not modelled |
| design notes | `neo4j/neo4j_pseudo.c` | none | pseudo-code of the intended check | quoted in `LfsckClaims`; a module is planned |
| htree lock | `ldiskfs/htree_lock.c` | counters, a queue, three rings for each key | lock, unlock, change the tree lock; lock, unlock, listen to a key | modelled, but for `htree_change_mode` |
| directory index | `ldiskfs/namei.c` | index entries, names in leaves, what a thread remembers of its probe | lookup, add, delete; leaf splits | one index level |
| multiple mount protection | `ext4/mmp.c` | the MMP block, each host's copy, times | mount, `kmmpd`, unmount, remount read-only | modelled |
| orphan list, truncate, journal | `ldiskfs/namei.c`, `inode.c`, `ialloc.c`, `extents.c`, `mballoc.c`, `super.c` | the file system in three transactions' views, two orphan lists, data on the device | create, link, unlink, write, truncate, evict, commit, crash, recover | extent files, ordered mode |
| delayed allocation | `ldiskfs/inode.c`, `extents.c`, `extents_status.c`, `page-io.c` | extents, status tree, pages and buffers, the reservation counter | write, page_mkwrite, fault, fallocate, punch hole, writeback, shrinker | one file |
| the rest of `ext4/`, `ldiskfs/` | | | kernel file systems | reading material, not modelled |

### How the components interact

**The scanners.** No scanner talks to another. Each is a process that opens its own device read-only and
sends Cypher statements to the shared database, one at a time. The database runs a statement
as a transaction, so statements interleave and nothing inside one does. The statements are
all the coordination there is: a match names a label and an inode number, a merge joins
whatever nodes are there. Four consequences make the behaviour hard:

* **Failure.** `neo4j_run` returns a result stream that is closed unread
  (`mds_src.c:160`, `ost_src.c:147`). A failed statement is lost and the scan goes on.
* **Crash and repetition.** A killed scan leaves what it wrote. The next one CREATEs every
  node again; its SETs and merges then act on the nodes of all runs.
* **Order.** A merge sees what has been SET so far. The parent merge runs in the middle of
  the table walk, the LOV loop at the end of the *object* scan, whatever the metadata scan
  is doing then.
* **Naming.** All object servers share the label `OSS`, and no statement names a server.

**ldiskfs.** Threads share a directory under the tree lock and protect index and leaves with
child locks; `namei.c` lets go of one before it has the next and relies on an event to learn
what it missed. Hosts share nothing but one block and the clock. A truncation is a chain of
handles; between any two the journal may commit and the host crash, and the orphan list is
what ties the pieces together, once on disk and once in memory. Delayed allocation keeps a
truth the extents do not have (what is reserved) in a cache that a shrinker empties, with
lookups outside `i_data_sem`.

The full list of hazards, each at its line, is in `PROJECT.json`. What makes each modelled
component correct: the metadata scanner must relate exactly the (first) parents on its
device; the object scanners must relate each object to its file and each file to its first
object, on the right server; neither may spoil what another scanner or an earlier run has written; and each must
come to an end. The locks must exclude, lose no waiter and starve none; the directory must be
a set of names; a device must have one host; a crash must leave nothing but what a commit
held, and everything in a state the next mount can finish; a file must read as it was written.

## 2. Modules

```
LustreDisk            what is on the devices; what each xattr makes a scanner write
  Neo4jGraph          the database: Create, Numbered, SetWhere, Merge, Lose
    Scanner           where a scanner is
      MdsScan         mds_src.c       one action per step of main()
      OstScan         ost_src.c       the same, for each server o
        Lfsck         all scanners over one graph; the properties; the refinements
          LfsckClaims what comments and notes say and the code does not do
          LfsckProofs types, soundness of relationships, what is written stays: proved
            LfsckComplete  nothing is missing after clean scans, and the
                      relationships implement LinkGraph: proved
          MCLfsck, MCClaims   small devices for TLC
LinkGraph             abstract: links appear, and are complete when published

ListRings             the kernel's circular lists as rings
  HtreeLock           htree_lock.c: the tree lock and the child locks       MCHtree
    HtreeRings        what each ring operation does to the rings of a depth, proved
      HtreeProofs     the locks are sound, fair in order, and implement ChildLocks, proved
ChildLocks            abstract: what the child locks promise; HtreeLock implements it
  DirIndex            namei.c: parallel operations on an indexed directory  MCDirIndex
    DirProofs         no name is lost: DirIndex implements Directory, proved
Directory             abstract: a set of names; DirIndex implements it

Mmp                   mmp.c: hosts, the MMP block, kmmpd                    MCMmp
  MmpProofs           two hosts never have the device, and when: proved

OrphanList            namei.c: the orphan list, on disk and in memory
  Journaled           files cut and deleted across commits and crashes      MCJournaled
    JournaledProofs   every commit can be recovered, data survive, the two orphan
                      lists agree, and Journaled implements Durable: proved
Durable               abstract: what a journal promises; Journaled implements it

Delalloc              inode.c, extents*.c: delayed allocation in one file   MCDelalloc
SparseFile            abstract: reads see the last write; Delalloc implements it
  DelallocProofs      the status tree is right, reservations suffice, the data are
                      kept (Delalloc implements SparseFile): proved
```

### State and actions against the code

`disk[s][i]` is the slot at offset `i*inode_size` of server `s`'s inode table, and `i` is the
loop variable: slot 0, where inode 1 is, is never read, and the last iteration reads slot
`TotalInodes[s]`, past the table (`mds_src.c:129-134`). A slot is abstracted to the header
magic, the file type, whether the walk of the directory block never ends, and the xattrs as
a sequence of records, one kind for each name prefix the code compares.

`mds` and `oss[o]` hold the place in the program (`pc`), the number of the run, `i`, the
index `k` of the xattr entry and the last loop's `j`. `clean` is a history variable, FALSE
once a statement of this run has failed. A statement and the computation up to the next one
are one step; the points between two statements of one xattr (`merge`, `f_oid`) are states of
their own, because another scanner may act there.

| code | action |
|---|---|
| `mds_src.c:56-128` open, superblock, connect | `MdsStart` (with `Started`: a failure exits at once) |
| 129-161 read the slot, CREATE | `MdsInode` |
| 164-215 file type, directory block | `MdsType` |
| 251-259 lma | `MdsLma` |
| 263-298 link: SET pfid, then merge; bad magic exits | `MdsLink`, `MdsMerge` |
| 304-345 lov | `MdsLov` |
| 231, 347 any other name | `MdsOther` |
| 348-369 next inode, end | `MdsNextInode`, `MdsDone` |
| process killed (external) | `MdsKilled` |
| `ost_src.c:235-253` lma, object id | `OssLma`, `OssFoid` |
| 263-284 fid, merge | `OssFid`, `OssMerge` |
| 307-315 last loop | `OssScanned`, `OssLov`, `OssDone` |

`OssStart`, `OssInode`, `OssType`, `OssOther`, `OssNextInode`, `OssKilled` are the object
scanner's counterparts. The definitions marked *Faulty variant* are no part of the
specification: each is a bug the neighbouring definition might have had, and each property
is run against one of them.

A node is identified by its server, the run that created it and its inode number; the
database itself offers the code no more than label and number, which is what `Numbered` and
`Label` give it. `Merge` adds the relationships that are missing; `SameValue` is Cypher's
comparison, in which null equals nothing. `Printed` is `%x`: of an object's 64-bit id the graph
gets the low 32 bits (`mds_src.c:338`), and no server at all, so the join of the last loop knows
an object by less than names it. `AttestedLov` says what is true, with server and all bits;
`Locatable` says of which files the printed id can only mean that.

`Sequential` selects how the operator works: FALSE lets all scanners run at any time; TRUE
starts an object scan only after a metadata scan has ended, and a metadata scan only while
no object scan runs. The programs themselves enforce neither.

### HtreeLock

A thread has one `htree_lock`. `lk_mode`, `lh_ngranted`, `lh_nblocked` and `lh_blocked_list`
have their names in the code; the child locks of depth d are `ln_mode[d]`, `ln_key[d]`, the set
`owners[d]` of nodes on `lc_list`, and the three rings `granted_list`, `blocked_list` and
`alive_list`, each a function from a node to the next one (`ListRings`; `DelAll` and `AddAll`
are the loops that take several nodes off a ring and put them on another). The ordered major and
minor lists of keys come down to "the owner with this key". Each critical section under a bit
of `lh_lock` is one step; a thread sleeps between the step that queues it and the one that
finds it granted.

| code | action |
|---|---|
| `htree_lock_try` | `Lock`, with `LockTree` for `htree_lock_internal` |
| `htree_unlock`, `htree_change_lock_try` | `StartRelease`, a `ReleaseStep` for each depth, then `Unlock` or `ChangeLock` |
| `htree_node_lock_try` | `NodeLock`: `NewKey`, `Join` or `Enqueue` |
| the event of a thread that had to wait (236-242) | `Tell` |
| `htree_node_unlock` | `NodeUnlock`: `LeaveAlone` or `HandOver` |
| `htree_node_stop_listen` | `StopListen` |

The caller is assumed to do what `namei.c` does: who waits for a key holds none of a greater
depth (so `DE` after `DX`), and it unlocks the tree in the end.

### DirIndex

`index` is the list of `dx_entry`, `leaf` the names in each leaf block. The three lock types
are the three depths of the child locks, taken from `ChildLocks`: waiting is a step that is not
enabled, which is what `HtreeLock` is shown to provide; nobody has a place in a queue, as `SPIN` is tried
again and again (`namei.c:811-817`) and `DX` is tried once (`TryDx`). A thread's `at`, `block`, `count`,
`changed` are `ld_at`, the leaf it goes for, `ld_count` and `myblock`; each place where it
takes or drops a lock is a step (`LockDx`, `LockSpin`, `Search`, `LockDe`, `StopListen` in
`dx_probe`; `TryDx`, `Recount`, `Split`, `Notify`, `Insert`, `AddAfterSplit` in
`ext4_dx_add_entry` and `do_split`; `Release`, `Released` at `cleanup`). `Notify` takes the spin
lock and tells in one step, although a thread that has to wait for it tells later: a listener
who matters waits for the leaf lock the splitter holds and cannot go on before. Names with one
hash may fill several leaves; hashes are even because bit 0 says "continued". A full index gets
no second level: `ext4_append` then returns no space.

### Mmp

Time passes in ticks; `since` counts them for a host that waits or sleeps, and a host may act
arbitrarily later than its timer says. `buf` is its copy of the block. `ReadBlock`, `Watched`,
`WriteSeq`, `Rewatched` are `ext4_multi_mount_protect` between its sleeps; `StartKmmpd`, `Count`,
`Awake`, `Lost`, `Umount` are `kmmpd`. `CheckFs` is e2fsck, which the repository does not have.

### Journaled and OrphanList

`fs`, `going` and `disk` are the file system as the running transaction, the committing one and
the last commit have it: inodes in use, links, sizes, blocks, the block of extents, the bitmap,
and the on-disk orphan list. A handle is one step; a truncation is many: `Ask` and `Resize`
(`ext4_setattr`), `StartCut` (`ext4_truncate`) or `StartEvict`, a `Cut` for each extent with a
possible `Resume` in a new transaction (`ext4_ext_truncate_extend_restart`), and `FinishCut` or
`FinishEvict`. A file that is open without a name is cut like any other, and stays on the list
(`inode.c:4132`, 5133). `MayWrite` says when a block can come to a file: `write(2)` is kept out by
`i_mutex`, but writeback allocates beside a truncation too, up to `truncate_pagecache`. `HandleFails`
is a handle that does not start: setattr's own, that of the cut, or the one after a restart in the middle.
`running.pend`, `.meta`, `.revoked` are the blocks a transaction has freed, logged and revoked;
`logged` is what a replay would write over a block. `Freeze`, `Commit`, `Crash` stand for jbd2,
which is external. `Recover` is one turn of the loop of `ext4_orphan_cleanup`. `Rewrite` is a write to a
block that a failed truncation has left beyond the size. `Filed` is an inode whose data the
committing transaction still has to write out, for which a truncation waits (`Ordered`).

### Delalloc

For each block: `tree` (the extents), `status` (the status tree, which may know nothing, or
that a block is delayed and unwritten at once), `page`, `buffer`, `dirty`, `writeback`, and
what the device has. For each user and flusher: the call it is in, the block it is at and where
it is (`pc`); what locks it holds follows from that (`Mutex`, `MmapShared`, `MmapExclusive`,
`Locked`, `NobodyMaps`, `SomebodyRemoves`). A call begins with its first lock and takes each further one in a step
of its own, so that calls can wait for each other.

| code | action |
|---|---|
| `ext4_da_write_begin`, `ext4_page_mkwrite`, `ext4_filemap_fault`, a page read by read(2), `ext4_fallocate`, `ext4_punch_hole`, `ext4_writepages` | `Write`, `Mkwrite`, `Fault`, `Read`, `Fallocate`, `Punch`, `Flush` |
| `lock_page`; `i_mmap_sem` for a punch | `GetPage`; `GetMmap` |
| the lookup in the status tree, without `i_data_sem` | `Look` |
| the lookup in the extents, under `i_data_sem` shared, and the gap it puts in the status tree | `LookInTree`, `PutGap` |
| `ext4_da_map_blocks` reserves; the data are copied; a page is read | `AddDelayed`; `Copy`; `Fill` |
| `ext4_alloc_file_blocks` | `Allocate` |
| `truncate_pagecache_range`, page by page | `Drop` |
| `ext4_es_remove_extent`; extents removed; `ext4_truncate_restart_trans`, which drops `i_data_sem`; again | `Cut`; `Remove`; `Restart`; `Cut` |
| `mpage_map_one_extent`, with the zeroing of neighbours; `mpage_submit_page`; `ext4_end_io` | `Map`; `Submit`; `IoEnd` |
| a page is reclaimed; the shrinker | `Evict`; `Shrink` |

A flush is of one page, which stays locked from `GetPage` to `Submit` while the flusher waits for
`i_data_sem`; its handle is open all the time, and a removal that restarts waits for it (`Restart`).
Writeback of several pages is several flushes. `torn` is a history variable: blocks that read(2) looked up, or that writeback zeroed beside its own,
in the middle of a punch of them (see section 3).

## 3. Properties and runs

| run | property | says |
|---|---|---|
| `in_turn` | `ParentEdgesSound` | no parent relationship is made up, whatever crashes, repeats or is lost (proved) |
| | `ParentsComplete` | after a clean metadata scan none is missing, for older runs' nodes too (proved) |
| | `ParentsRefine` | the parent relationships implement `LinkGraph` (proved) |
| | `ObjectsComplete` | after a clean object scan over a clean metadata scan no object relationship is missing (proved) |
| | `WrittenOnce` | a property once set is never changed, by any run or scanner (proved) |
| `overlap` | `TypeOK` | types; a pfid is a decoded FID (proved) |
| | `ObjectEdgesSound` | no object-to-file relationship is made up, when no two servers share an inode number, and no file-to-object one of a file whose printed id can only mean its first object (proved) |
| | `EdgesAgree` | a relationship's ends still agree on what it was merged on (proved) |
| | `NodesFaithful` | after a clean scan, one node of the run per inode, and the device's values on all nodes (proved) |
| | `StripesRefine`, `LovRefines` | both kinds of object relationship implement `LinkGraph` (proved) |
| | `ScansEnd` | a running scan ends, unless in a directory block that never ends |
| `htree_lock` | `TypeOK` | types; every list is a family of rings (proved) |
| | `TreeLockSound` | counters, queue and holders belong together, holders are compatible, the first waiter has a reason to wait (proved) |
| | `KeyRings` | what the BUG_ONs are there for: owner, holders, waiters and listeners of a key are on the rings they must be on (proved) |
| | `NoOvertaking` | nobody gets the tree past an earlier waiter it conflicts with (proved) |
| | `TreeWaitEnds` | whoever waits for the tree gets it |
| | `KeysImplement` | the child locks implement `ChildLocks`: writers alone, every listener told (proved) |
| `dir_index` | `TypeOK` | types; no leaf overflows (proved) |
| | `IndexFindsNames` | each name is in one leaf, and in one that a search for its hash comes to (proved) |
| | `LeafIsRight` | a locked leaf is one the thread's hash leads to, whatever was split before the lock (proved) |
| | `AtIsRight` | the saved index position still is the entry of the locked leaf (proved) |
| | `DirectoryKept` | all of it implements `Directory`, a set of names with atomic operations (proved) |
| | `OperationsEnd` | every operation returns |
| `mmp` | `TypeOK` | types; intervals stay within what the code allows (proved) |
| | `MountedOnce` | two hosts have the device only if one of them is past its check interval (proved, for brisk hosts) |
| | `CleanIsFree` | the block says clean only if no host that is in time has the device (likewise) |
| | `CountsItsOwn` | `kmmpd` never writes over another's count that is in time (likewise) |
| `journaled` | `TypeOK` | types; no transaction logs a block it has freed or revoked (proved) |
| | `Restartable` | every commit leaves a bitmap that is right and an orphan list with all that is unfinished (proved) |
| | `DataSurvive` | after a crash at this moment every named file has its own data and extents (proved) |
| | `ListsAgree` | until a handle fails, the list on disk spells the list in memory, and nobody is on it without a reason (proved) |
| | `FilesDurable` | all of it implements `Durable` (proved) |
| | `RecoveryEnds`, `DeletedFilesGo` | the mount gets through the orphans; a deleted file's inode comes back |
| `delalloc` | `TypeOK` | types; what is delayed is dirty or locked (proved) |
| | `ReservedEnough` | each delayed block has its reservation (proved) |
| | `CacheIsTrue` | a hole, an unwritten or a written block in the status tree is one in the extents, but for torn blocks (proved) |
| | `FileKept` | all of it implements `SparseFile`: reads see the last write, but for torn blocks (proved) |
| | `DirtyGoesOut` | dirty data go out: locks, handles and writeback are not waited for in a circle |

The first two runs check the scanners: `in_turn` the two kinds
of scanner one after the other, which crash, lose a statement and run again, on seven sets of devices;
`overlap` the scanners of a metadata server and two object servers side by side, on three. Each of
the other five is a component of its own. The runs that expect a violation are under "Claims that fail".

Preconditions and parameters of the ldiskfs runs:

* `Alone` (`mmp`): mounts of a clean device start one at a time; without it `mmp_clean`.
  `Faults` FALSE: `kmmpd` only counts failed writes (`mmp.c:164-175`), and a host whose writes
  all fail is taken for gone. `MaxCheck` 2 is no more than the first interval, which makes
  `Brisk` hold (section 4).
  Neither the last look of a mount nor the end of a sleep is followed by a delay before the write.
* `Delalloc` TRUE (`journaled`): with FALSE `DataSurvive` fails, since `ext4_setattr` waits for
  the data of the committing transaction before, not after, its own handle (`inode.c:5044`):
  the run `ordered_lost`.
  A handle that fails is in the run (`Faults` TRUE); from then on `ListsAgree`, and what
  `Restartable` says of the list, claim nothing.
* `torn` (`delalloc`): `ext4_punch_hole` drops the pages (`inode.c:3925`), forgets the status once
  (3963) and then removes extents, and where the handle has no credits left it lets go of
  `i_data_sem` in between (172). read(2) takes neither `i_mutex` nor `i_mmap_sem`, so it can bring a
  page back, and a status, from a block that goes afterwards; so can the zeroing of a short unwritten extent
  by the flusher of the page next to the hole. What such a read returns is old data or
  zeroes, both of which a read beside a punch may return; that the page and the status *stay* after the punch is wrong, and
  is what the code does. `CacheIsTrue` and `FileKept` say nothing of such a block
  from then on, and everything of the others: calls that take `i_mmap_sem`, reads before and
  after, and neighbours of the hole. `TypeOK`, `ReservedEnough` and `DirtyGoesOut` have no exception.

The preconditions of the scanners' properties are conditions on the devices, all met by some device of each run that
uses them:

* `WellFormed`: no two xattrs of one name in an inode, every link value good. ldiskfs
  guarantees the first; without the second the scan exits early and promises nothing.
* `LinkAfterLma`: a link xattr follows the lma of every inode that has children. The merge is run at link
  xattrs only (`mds_src.c:286`), so a parent read after the last of them is never related.
* `DisjointNumbers`: no inode number is in use on two object servers. The statements name the
  label and the number only (`ost_src.c:246`), so otherwise the scans write over each other's nodes.
* `Locatable`, of a file: its layout is a plain one with an object, that object's id fits in 32
  bits, and no other scanned server uses it. `ObjectEdgesSound`, `ObjectsComplete` and
  `LovRefines` claim the file-to-object relationships of those files, up to number `mds_total_inodes` where something is to
  be complete. Of the others the devices of `overlap` have all kinds: a lost object whose id the other server
  uses (then the relationship is false: `claim_lov_objects`), an id printed as another file's, layouts
  without an object or not plain. They must not harm the rest.

`WrittenOnce` leaves `ost_oid` out: for a layout without objects `mds_src.c:338` reads past the
end of the value, and two runs may read different things there.

`OssComplete` uses the history variable `saw`: the object scan began when the current
metadata run had ended clean.

### Bounds

**Scanners.** `MaxRuns` (1 or 2 starts of each scanner) and `MaxLost` (0 or 1 failed statements) are the
only bounds on behaviour. Two runs are what it takes for nodes of two runs to meet, for a
re-run to repair a broken run and for a clean run to follow a killed one; a second lost
statement adds nothing to one that may be lost anywhere, since a run is judged by whether
it lost any. `overlap` (128 783 states) has one run of each scanner, which may be killed, and no lost statement: its three
scanners interleave freely. `mds_total_inodes`, 700 in the
code, is 2 or 3, as many as there are scanned slots: the loop's end is reached, and the last
number matters. The tables have three or two scanned slots and the one before and past them:
parent before child, after it and in the same inode, and a slot without xattrs between, all
fit. Devices are given one by one in `MCLfsck`, each named for the case it holds. FIDs are
four numbers of one sequence and two versions: a FID of every inode, one of a parent that is
not there, and the stripe index an object's fid carries. No symmetry is declared, since
images name the servers.

Deadlock checking is off in these: when `MaxRuns` is used up, or a scan is caught in a
directory block, the system stops. It is off in `dir_index`, `journaled` and `delalloc` too, where the
calls are used up in the end, and on in the other two.

**htree_lock** (9 247 states): three threads are a holder, a waiter and one who comes between,
on each ring; one key and one depth, since depths are independent but for the callers' order
and keys but for the sorted list. The tree is locked in EX and CW, the two modes of the directory
operations that change something. Nothing is counted.

**dir_index** (355 980 states): two threads, one with one operation and one with two, so that one search may have to
start again twice; a directory of one leaf and one of two full leaves, two names a leaf and three index entries, in which every add
meets a full leaf or, later, a full index; one hash covers up to three
names, so that it runs over leaves. A split by one thread at every point of the other's
probe is all there.

**mmp** (27 643 states, symmetric in hosts and random numbers): two hosts, three random numbers
(so that a third may differ from the two in use), an update interval of one tick, check intervals of
one and two, four sequence numbers, which makes them wrap.

**journaled** (194 016 states): two inodes, three blocks, one extent in the inode, so that a
file of two blocks needs a block of extents and another file waits for it; three calls, and two crashes,
the second of which may come in the clean-up after the first. A second transaction, and the reuse of
every block, happen.

**delalloc** (448 205 states): two users, a flusher, two blocks and every state of their extents at the
start, three calls. Two blocks are a hole with a neighbour and an unwritten extent of which one block is written back
and the other zeroed; three calls are a store that sees a hole, a fallocate that fills it, and a
punch, or a read that finds the punch half done.

### Fairness

**Scanners.** `Fairness` is weak fairness of each scanner's own steps (`MdsStep`, `OssStep(o)`): each is an
ordinary process that the kernel keeps scheduling, and each statement returns, with success
or without. A scanner caught in a directory block has no step. Nothing is assumed about
being started, being killed or losing statements.

**HtreeLock**: strong fairness of a caller's unlock, because it may have to wait for a key on
its way (then the step is not enabled) but no caller keeps the tree for ever; weak fairness of
the code after it. Nothing is assumed of who begins to lock, or of new lockers staying away.
**DirIndex**: weak fairness of each thread's steps: the scheduler runs a thread that can go on, and no lock
is promised to whoever waits or tries for it. Each thread begins finitely many operations, and a search starts again only after
somebody has inserted an entry or while somebody holds `DX`, which is why they all end. **Journaled**: weak fairness of the
truncating threads, writeback, kjournald2 and the mount; none of users' calls or crashes.
**Delalloc**: weak fairness of each call under way, of the flusher's taking each dirty page, and of the
device. **Mmp** has safety only.

### Claims that fail

Five runs refute what a comment of the code or the design notes say (quoted in `PROJECT.json`, "findings"):

* `claim_lov_parent`: scans side by side can end clean and leave a file unrelated to its object.
* `claim_lov_objects`: a file whose first object is lost is related to an object of another server, because the
  join goes by the id alone and each server has its own ids.
* `mmp_clean`: two hosts that read a clean block mount together, because the wait after the
  write is zero.
* `ordered_lost`: without delayed allocation, a transaction that starts to commit between the look of a
  truncation and its handle loses data that it was to write out before: the truncation drops the pages.
* `reserve_kept`: writeback of one block zeroes a short unwritten extent, and the reservation of a delayed
  block in it stays for ever.

Other departures are read from the code; no run is about them:

* a second run CREATEs every node again, so an inode has a node for each run (`mds_src.c:158`);
* only the first stripe and the first parent of a file count (`mds_src.c:279`, 338);
* the node numbered n is inode n+1 (`mds_src.c:131`);
* a host that has the device and is slow goes to a longer check interval (`mmp.c:232`), and a mount that has already read the old
  one waits no longer than before: that is what `Brisk` excludes (section 4);
* after a handle has failed, an inode on the disk's list may be linked in again, and one that the clean-up could not cut stays
  on the list in memory (`namei.c:3324`, `super.c:2372`).

## 4. Proofs

Everything below is proved by TLAPS for every value of the constants that the named assumptions
of the modules allow: table sizes are natural numbers, the metadata server is not an object
server, the servers scanned are among those a layout may name, devices are tables of slots, `Null`
is no FID and no object's id, threads are finitely many, the bounds are natural numbers, a
directory begins as e2fsck wants it (index entries in order, each name in the one leaf its hash
leads to) with a block for every entry the index has room for (`do_split` may still fail), the
files there at first share no block, intervals are positive and the least is not above the
greatest, and drawn numbers are none of those kmmpd counts. TLC evaluates the assumptions in every run.

| module | theorem | statement |
|---|---|---|
| `LfsckProofs` | `TypeCorrect` | `Spec => []TypeOK` |
| | `ParentsSound` | `Spec => []ParentEdgesSound` |
| | `ObjectsSound` | `Spec => []ObjectEdgesSound` |
| | `NothingOverwritten` | `Spec => WrittenOnce` |
| | `RelationshipsAgree` | `Spec => []EdgesAgree` |
| `LfsckComplete` | `AllParents` | `Spec => []ParentsComplete` |
| | `AllObjects` | `Spec => []ObjectsComplete` |
| | `AllNodes` | `Spec => []NodesFaithful` |
| | `ParentsImplement` | `Spec => ParentsRefine` |
| | `StripesImplement` | `Spec /\ Apart /\ Osts # {} => StripesRefine` |
| | `LovImplements` | `Spec /\ Apart /\ Osts # {} => LovRefines` |
| `DelallocProofs` | `StatusTreeRight` | `Spec => []CacheIsTrue` |
| | `ReservationsSuffice` | `Spec => []ReservedEnough` |
| | `TypesRight` | `Spec => []TypeOK` |
| | `DataKept` | `Spec => FileKept` |
| `HtreeProofs` | `LockTypes` | `Spec => []TypeOK` |
| | `TreeLockIsSound` | `Spec => []TreeLockSound` |
| | `NobodyOvertakes` | `Spec => NoOvertaking` |
| | `RingsAreKeys` | `Spec => []KeyRings` |
| | `RingsImplement` | `Spec => KeysImplement` |
| `JournaledProofs` | `JournaledTypes` | `Spec => []TypeOK` |
| | `RestartableAlways` | `Spec => []Restartable` |
| | `DataSurvives` | `ASSUME Delalloc PROVE Spec => []DataSurvive` |
| | `ListsInStep` | `Spec => []ListsAgree` |
| | `FilesAreDurable` | `Spec => FilesDurable` |
| `MmpProofs` | `MmpTypes` | `Spec => []TypeOK` |
| | `NeverMountedTwice` | `ASSUME Alone, ~Faults PROVE Spec /\ []Brisk => []MountedOnce` |
| | `CleanMeansFree` | `ASSUME Alone, ~Faults PROVE Spec /\ []Brisk => []CleanIsFree` |
| | `CountsOnlyItsOwn` | `ASSUME Alone, ~Faults PROVE Spec /\ []Brisk => CountsItsOwn` |
| | `PunctualIsBrisk` | `ASSUME FirstCheck < ShortestWait PROVE Spec /\ []Punctual => []Brisk` |
| `DirProofs` | `DirIndexTypes` | `Spec => []TypeOK` |
| | `NamesAreFound` | `Spec => []IndexFindsNames` |
| | `LeafRight` | `Spec => []LeafIsRight` |
| | `AtRight` | `Spec => []AtIsRight` |
| | `DirectoryImplemented` | `Spec => DirectoryKept` |

Some theorems have a hypothesis of their own. `Apart` (well-formed devices, no inode number on two
object servers) is the condition of section 3, true of the devices of the runs; without it scans of
two servers write over each other's nodes. `Osts # {}`: without an object server the graph would be
published before it began. `Alone` (mounts of a clean device start one at a time) and `~Faults` are
the settings of the run `mmp`; `mmp_clean` shows what happens without the first. `DataSurvives` is about
delayed allocation: `ordered_lost` shows that it fails without. `Brisk` and `Punctual` are conditions on how slow
hosts are, see below. The theorems about delayed allocation have no hypothesis.

### Relationships

Soundness of relationships is not inductive: a merge relates nodes by
properties, so one must know where properties come from. The invariant is
`IInv == ScanInv /\ DbInv`. `ScanInv` says where a scanner stands: past the top of the loop it
is at a slot with the header magic, and between the two statements of an object's lma the
entry at hand is that lma. `DbInv` says that each property of a node is a value of the
node's *own* slot (with one label for all object servers, that is true of them only when
numbers are disjoint), and that relationships are attested: an object's by its id and its server. Of a file's LOV
relationships it says so only if the file is `Locatable`, its id printed whole and on no other server, since the join
knows no server. Between them stands `DiskStep`,
a catalogue of what can happen to the database, with no scanner in it:

1. `MdsMovesStep`, `OssMovesStep`: from a state with `ScanInv` each step of a scanner, action
   by action, re-establishes `ScanInv` and is a `DiskStep`.
2. `SetsKeep`, `MergeKeeps`, `DiskStepKeeps`: each `DiskStep` keeps `DbInv`. A SET writes a
   value of the slot whose number it names; a merge compares two such values, which makes
   the pair attested.
3. `NextIInv`, `SpecIInv` put the two together.

`WrittenOnce` follows from the same invariant. On a well-formed device a slot has at most one
value for each property (`OneOfEach`); by `DbInv` what a node has is that value, and by
`DiskStep` what a SET writes is that value too (`SetOnce`, `StepKeeps`). `EdgesAgree` is then
inductive together with `IInv`: a new relationship joins nodes that agree
(`NewRelationships`), and agreement survives because nothing set is overwritten.

**Nothing is missing.** That a clean scan owes nothing at its end needs an account of what it has
done so far: `CompleteInv == IInv /\ WorkInv`. While a scan is `Sure` (under way or done, no statement
lost), `Progress` says that the slots behind it have their node of this run and that each entry
behind it has set its properties on *every* node of the slot, older runs' too, and `Halfway`
the same of the first statement of an entry with two. `ParentProgress` says of each
link entry behind the scan that every two nodes it can relate are related, provided the
parent's lma came before it; that a parent further down is related in the end is the
condition `LinkAfterLma`, that some link comes after every such lma. `StripeProgress` and
`LovProgress` say the same of an object scan's fid entries and of its last loop up to `j`, given
that a clean metadata scan had ended when it began and none has begun since (`SawInv`). `Foreign`
says that no scanner sets a property only the other kind's nodes have, and `Ended` that a scan is at
the end of its table when it is done. All of it survives the other scanners and the crashes
because nodes and relationships stay and what is set stays set (`Grows`); a started scan begins with
nothing behind it; a lost statement ends `Sure`.

**The refinements.** `LinkGraph` lets attested links appear, publishes them when all are there, and
withdraws the result, never a link, when a new scan begins. By soundness links are attested, by
`Grows` none is withdrawn, by completeness a published graph has all of them, and a scan's last
step, which publishes, leaves the graph alone: so each step is one of `LinkGraph`'s or a stutter.

### Delayed allocation

What the status tree says is not inductive either: a hole is put in it after it was found, without a lock
in between, and a reservation is made on what was seen earlier. And a punch is not one step: it drops pages,
waits, forgets what the status tree says, and takes the blocks away in transactions between which it lets go of
`i_data_sem`, while reads go on. The invariant `IInv` of `DelallocProofs` says, beside shapes and reservations:

* of each call (`Actor`): where it may be (`Placed`); that what it saw of a page it has locked is still so (`Holds`);
  that the gap it holds is still one (`Maps`: whoever changes the extents waits for the shared holders of
  `i_data_sem`, lemma `NoGaps`); that what it will fill a page with is what the block says (`Fills`); and that
  the pages a punch has dropped stay away, and the status tree says nothing of their blocks (`Punches`);
* of two calls (`Apart`): they lock different pages, one alone has `i_mutex`, and no fault is under way beside a punch;
* of each block (`Good`): only a dirty page, or one just copied to, is delayed, what the status tree says is so,
  and a page that is neither dirty nor under writeback says what the disk says, so that evicting it changes no read.

`Good`, `Fills` and `Punches` except the torn blocks: those which a read or writeback looked up or filled while a punch of them was under
way. For them the status tree and the page may keep what the punch removed, as in the code, until
the block is allocated, written or punched anew; `CacheIsTrue` and `FileKept` except them too, and nothing else. The reservations
and the types hold for them as well.

One lemma per action shows `Sound`: it keeps `IInv`, and is a step of `SparseFile` or leaves what readers see. Most of the work is in
frame lemmas, by which a step that changes one call and one block (`Leaves`) leaves the others' part of
`IInv` as it was, so that the parts can be put together again (`Together`).

### The locks of a directory

`ListRings` gives each list as a function from a node to the next. A ring is the set
that a walk goes round, which is awkward to prove with; `HtreeRings` works with `Cycle(r, C)`: C is closed
under r and no part of it is. `CycleIsRing` says that the walk from any of its
nodes is C, `AddKeeps`, `DelKeeps` and their kind what the list operations do to cycles. The
state of one depth is then a record `x`, and `DepthOk(x)` says of it: a thread is on no ring its mode does
not put it on (`NodeOk`), and each key in use has one owner, with whom the alive, granted and blocked rings are
everybody on the key, its holders, and the owner with those who wait (`OwnerOk`). Each operation on a key has a lemma about such a record;
`KeySame` says that the other keys are not concerned.

`LockInv == NodesInv /\ TreeInv` in `HtreeProofs`. `NodesInv` is the types, `DepthOk` of every
depth, and `PlaceOk`: a thread waits for one key at a time, has none without the tree, and has an
event only for a key it waits for or has just been given. `TreeInv` says that the counters are the cardinalities
of the sets of holders and of waiters of each mode, that the queue is those who wait, each once, that holders
are compatible, and that the first in the queue is not with them. The hard step is
the release: `htree_unlock_internal` walks the queue and wakes up to the first it cannot. `Woken` takes
the least place where the code stops; `WokenIs`, `WaitingIs` and `RestIs` say who has gone and who is
left, and `UnlockOk` that those woken are compatible with each other and with the holders, and that
who is first now has a conflict. `NobodyOvertakes` follows: a woken thread came before those left
in the queue, and one that gets the tree at once is compatible with all blocked modes.

`RingsImplement` maps a depth to `ChildLocks` by the modes and keys of the threads that are not
blocked: who queues up shows nothing (`EnqueueShowsNothing`), a first holder and a reader who joins
take the key, a hand-over to the next writer or readers and the event to the listeners are steps
of `ChildLocks`. The rings come in where it is shown who is handed the key
(`NodeUnlockHandsOn`): the whole of the waiting readers or the first writer, and no one who has left.

### The directory index

`DirectoryKept` says that a set of names with atomic operations is all one can see of the index,
its leaves and their splits. None of the properties is inductive: a thread looks at the index under SPIN,
lets go of it, and waits for a leaf that may be split meanwhile. `Inv == Control /\ Data`.

`Control` is the types and, for each place of an operation, which child locks its thread has, in which
mode and on which key (`ModesOk`, `KeysOk`), with `ChildLocks`'s promise that they exclude.
From it: one thread at a time is between `recount` and `added`, and then nobody else has DX
(`OneChanges`); who changes a leaf is alone with it (`OneWrites`).

`Data` says what the index is (`IndexOk`: entries in order, no block twice), and what a thread knows.
`Fits(index, i, h)` is "entry i leads to hash h": the covering entry and those behind it that
continue h (`FitsAre`, and `PathIs` for `Path`). `LeavesOk`: each name is in one leaf, and the index leads its hash to
that leaf. `FoundOk`: with DX, a thread's position is right and the name is in no leaf of its
hash before it; without, as many entries as `count` mean that the position is right (an insertion
is the one thing that moves entries, and adds one), and its leaf is one its hash leads to, for a
lookup the only one, unless the event has reached it. `Told`: by the time a
new entry is inserted every other thread on its way to that leaf has the event. `SplitOk`: while a part of a
leaf is in a block not inserted yet, the old entry leads to the names of both parts, which lie
on the two sides of the hash to be inserted; this is what `IndexFindsNames` needs.

One lemma per action shows that it keeps them (`...Modes`, `...Found`, `...Data`). The hard ones are
`SplitMoves` and `InsertData`: `GrownFits` and `GrownLeads` say where each hash leads after `dx_insert_block`
and, if the upper part stayed, `dx_set_block`, and that no leaf but the split one is concerned.
`NowhereElse` is the heart of the refinement: a search that gives up does so when its name is in
no leaf at all, not even in a block that is still to be inserted.

### Files, orphans and the journal

Whether a crash is harmless depends on three views of the file system, on what would be
replayed over a block, and on where the data of a block are.
`Safe == Inv /\ Nameless /\ Marked /\ Lists /\ (Delalloc => Delayed)`, and
`Inv == Forms /\ Blocking /\ Journaling /\ Written`.

* `Forms`: types, with sequences of any length; the shape of each view (`Shaped`: no file has fewer blocks than its size,
  an unused inode has none); and where an inode may be in its operation (`Steps`).
* `Blocking`: in each view a block has at most one use (`Sole`), and `Frees` says what a transaction knows of the difference
  between the view before it and its own: blocks it has freed or revoked are not in its view, what it has not freed is
  where it was, extents it has not logged are in their old block. An allocation takes a block that is in no
  view and freed by nobody, so `Frees` survives it; a commit composes the two steps.
* `Journaling`: a replay writes over a block only the extents that the last commit has there, and writes them all.
  A block of extents that is freed is revoked first; this is where `TypeOK`'s "nothing both
  logged and revoked" is needed.
* `Written`: data in memory are of blocks of files, none beyond the size while a file is cut. `Delayed`: each block
  of a file in any of the views is on the device with that file's data, or under writeback; of the last commit,
  on the device. The commit waits for what is under writeback; without delayed allocation a page is dirty with
  its block already mapped, and a truncation drops it.
* `Nameless`: a file that never had a name has blocks just up to its size unless it is being cut, until a handle fails: only the
  list keeps it, and nothing but its user's truncation shortens it.
* `Marked`: between setattr's handle and the cut a file is on the list, until a handle fails;
  that is what makes the clean-up finish the truncation.
* `Lists`: while there has been no error, the orphan list of each view spells a sequence without repetitions of the
  inodes that are unfinished there; in operation, that of the running view spells the list in
  memory, on which each inode is busy or has no name and is open (an unlinked file that is cut while open stays listed after it,
  `inode.c:4132`); during the clean-up some sequence is
  spelled, of which the list in memory is empty or the first.

`DataSurvive` and `Restartable` follow from `Safe` in one state, the latter because the inodes on a spelled list are the
orphans (`OrphansAre`: one that is not reached has a least place where the walk and the sequence
differ, by well-founded induction). One lemma for each action keeps each part. The hard ones
are the changes of the list (`ext4_orphan_del` in the middle of a list that only memory knows) and `Cut`,
which ends with a freed block of extents. `FilesDurable` follows with `OneShows`: a step on one inode changes
what is seen of one file, and a step of the clean-up of none that has a name.

### Mounts

A host is `Live` from the end of its second wait until it is late and the block is no longer as it
left it: one that has the device and is not live is late, and will stop when it looks. `OneLives`
is then `MountedOnce`, and needs `Looks`: while a host is live, a mount whose number is in the block
has waited less than its wait, and not longer than the live host has slept. The live host wakes up
before it is late, so before that wait is over, and its count replaces the number. When time passes this needs that the
host's interval is shorter than the mount's wait, which is `Brisk`:

    no host that has the device goes by an interval as long as the second wait of a mount under way.

The code needs it: a mount waits longer than the interval it has
read, but a host may raise its interval afterwards, up to 300 seconds, when its turns have become much longer. `Brisk` says nothing of
hosts that are late, crash, or have their mounts fail, and intervals of any length are fine when the mounts know of
them. `PunctualIsBrisk` says when there is nothing to fear, whatever the greatest interval is: the first interval is
below the shortest wait (10 and 11 seconds in the code, 5 between writes), and no turn of a kmmpd lasts half the
shortest wait (`Punctual`), so that no interval is ever raised beyond it. The code does not guarantee the second, a host may be
that slow. The rest of the invariant: the block says clean only if
nobody is live (`FreeWhenClean`), who found it clean is alone until it has written (`FirstIn`, from
`Alone`), and numbers that mounts have drawn are their own and no count (`Numbers`, `Apart`). `Count` and
`Umount` are the only writes of a host that has the device, and a live host makes them: hence `CountsItsOwn`.

TLC has checked each inductive invariant before it was proved: `Inv` of `DirProofs` on the instance of
`dir_index`, `NodesInv` and `TreeInv` on that of `htree_lock`, `WorkInv` on those of `in_turn` and `overlap`, `Safe`
on that of `journaled`, `IInv` of `DelallocProofs` on that of `delalloc`, `Inv` of `MmpProofs` on that of `mmp`.

### What is only model-checked

* `Brisk`, the hypothesis about mounts, is no consequence of the code's constants; `PunctualIsBrisk` says when it holds. In
  the run `mmp` it holds of every behaviour, since no interval there is as long as a wait.
* `ScansEnd`, `TreeWaitEnds`, `OperationsEnd`, `RecoveryEnds`, `DeletedFilesGo` and `DirtyGoesOut`
  need fairness and ENABLED, which TLAPS here does not reach: they stay with TLC. The abstract
  specifications of the refinements have no fairness, so nothing of those is left out.

## 5. Not modelled

Of the scanners:

* Terminal output and counters.
* Failing or short reads, byte offsets, integer widths (see the plan).
* The buffers `buffer[100]` and `buffer[150]`: every statement fits, the pfid one of
  `mds_src.c:283` exactly. An inode larger than `struct ext4_inode` is read into a variable
  of that type (`mds_src.c:134`); the build is taken to leave room for it.
* Which property names besides Lustre's own a prefix comparison takes in.
* A file system that changes between two runs: `disk` is fixed.
* `block_id >= 12` (`mds_src.c:201`) can never be: `block_id` is 1 there.

Of ldiskfs:

* `htree_change_mode` (no caller) and the calls that do not want to wait and come back
  empty-handed, but for `ext4_htree_dx_lock_try`, which is `TryDx`.
* Directories without an index, further index levels, readdir, rename, `.` and `..`.
* MMP: bad magic or checksum, the feature being switched off, remounting read-write (which
  writes the superblock before the protection has passed, `ldiskfs/super.c:5238`).
* Files with indirect blocks, inline data, xattr inodes; quota; data=journal and writeback;
  a truncation inside a block; the blocks of directories; group descriptors and buddies
  beyond "available". A failed handle during the clean-up leaves an inode that is then freed and
  may be used again while in the memory list: only the leaving is modelled.
* Delayed allocation with bigalloc, direct I/O, `dioread_nolock`, zero range (`FALLOC_FL_ZERO_RANGE`,
  `extents.c:4788-4949`), collapse and insert range, truncation (that is `Journaled`), and failures of the allocation.
  Of the handles a punch waits for when it restarts one (`drain`), those of writeback and of stores through a mapping are
  there; those of `write` and `fallocate` cannot be under way, `i_mutex` keeps them out. jbd2 itself is external.
* Truncation to the size a file has already.

The rest of `ext4/` and `ldiskfs/` (about 90 000 lines: mount options, resize, the block
allocator, xattr storage, defragmentation, encryption, inline data, two copies of everything)
is code of other projects that no program here builds or calls.

## 6. Plan

In this order:

1. **`ScanLayout`**: slot addresses in the code's integer widths for all scanners, against
   ext4's own; the xattr walk (`EXT4_XATTR_LEN`, `IS_LAST_ENTRY`); the directory-block walk
   and when it ends; the read buffer that survives a failed read.
2. **Devices that change between runs** (extends `Lfsck`): stale properties and
   relationships, since nothing clears the graph.
3. **`Ext4Checker`**: the entry walk with its sums, against the reference walk of `ScanLayout`.
4. **`MbAlloc`**: preallocation and the buddy bitmap beside `Journaled`'s "available".
5. **`PseudoLfsck`**: the design of `neo4j_pseudo.c` as an abstract check, compared with `Lfsck`.
6. **`Neoclient`**: CREATE against merge, run twice.

All safety and action properties and refinements that the runs check are proved; what is added is
to be written so that it can be: modules to be proved about declare no RECURSIVE operator.

## 7. Running

```
tlc -workers 2 -config in_turn.cfg MCLfsck       # any run of PROJECT.json likewise
for m in LfsckProofs LfsckComplete DelallocProofs HtreeRings HtreeProofs DirProofs JournaledProofs MmpProofs
do tlapm $m.tla; done
```
