------------------------------ MODULE DirIndex ------------------------------
(***************************************************************************)
(* Parallel operations on one indexed directory of ldiskfs (namei.c): an   *)
(* index block, whose entries take a hash to a leaf block, and leaves that *)
(* hold names and are split when they are full.  Threads share the tree    *)
(* lock (CR or CW) and protect themselves with child locks: DX is the      *)
(* index block, DE a leaf, SPIN the entries of the index while they are    *)
(* searched or changed.  ChildLocks is what those locks promise            *)
(* (HtreeLock implements it); a thread that lets go of SPIN listens there  *)
(* for splits until it has its leaf.                                       *)
(*                                                                         *)
(* The index is the one block that holds entries of leaves; an index that  *)
(* is full gets no second block (ext4_append finds no space).              *)
(***************************************************************************)
EXTENDS Integers, FiniteSets, SequencesExt

CONSTANTS
    Threads, Names,
    Hash,       \* of each name: even, bit 0 of an entry's hash means "continued"
    Capacity,   \* names in a leaf
    Limit,      \* dx_get_limit of the index
    Leaves,     \* leaf blocks, 1 .. n
    Starts,     \* the directories to begin with: the hashes of the index and the
                \* names of its leaves
    Calls,      \* a bound: how many operations each thread begins
    None

Index == 0      \* the key of the index block: dx is NULL, key 0
LockTypes == {"DX", "DE", "SPIN"}
Kinds == {"lookup", "add", "del"}

Even(hash) == 2 * (hash \div 2)

\* A directory begins as e2fsck wants it: its entries in order, and each name in the
\* one leaf that its hash leads to.
ASSUME DirAssumption ==
    /\ Hash \in [Names -> Nat] /\ \A n \in Names : Hash[n] % 2 = 0
    /\ Calls \in [Threads -> Nat]
    /\ Capacity \in Nat \ {0, 1} /\ Limit \in Nat \ {0, 1}
    /\ 1 .. Limit \subseteq Leaves
    /\ None \notin {Index} \cup Leaves /\ None \notin {"found", "not_found", "done", "no_space", "PR", "PW"}
    /\ None \notin [kind : Kinds, name : Names]
    /\ None \notin [hash : Nat, block : Leaves, low : BOOLEAN]
    /\ \A s \in Starts :
         LET h == s.hashes
             l == s.leaves
         IN  /\ h \in Seq(Nat) /\ Len(h) \in 1 .. Limit /\ h[1] = 0
             /\ l \in [DOMAIN h -> SUBSET Names]
             /\ \A i \in DOMAIN h : IsFiniteSet(l[i]) /\ Cardinality(l[i]) <= Capacity
             /\ \A i, j \in DOMAIN h : i < j => h[i] <= h[j] /\ l[i] \cap l[j] = {}
             /\ \A i \in DOMAIN h : \A n \in l[i] :
                  Even(h[i]) <= Hash[n] /\ (i < Len(h) => Hash[n] < h[i + 1])

VARIABLES
    mode, key, told,   \* the child locks
    tree,      \* by thread: the tree lock, "shared", "EX" or "NL"
    index,     \* dx_entry: [hash, block], the first entry's hash is 0
    leaf,      \* the names in each leaf
    used,      \* leaves in the directory
    pc, op, answer,
    left,      \* how many more operations
    safe,      \* ext4_htree_dx_need_lock has changed ld_flags
    at,        \* frame->at, or ld_at: a position in the index
    block,     \* the leaf found
    count,     \* ld_count
    changed,   \* myblock was overwritten by ext4_htree_event_cb
    new,       \* do_split: [hash, block, low], what is to be inserted
    then       \* what follows the release of the child locks

lockVars == <<mode, key, told>>
dataVars == <<index, leaf, used>>
local == <<safe, at, block, count, new, then>>
vars == <<lockVars, tree, dataVars, pc, op, answer, left, changed, local>>

Lock == INSTANCE ChildLocks WITH
    Deps <- LockTypes, Keys <- {Index} \cup Leaves, EventDeps <- {"SPIN"}

Goto(t, where) == pc' = [pc EXCEPT ![t] = where]
Set(f, t, x) == [f EXCEPT ![t] = x]

Init ==
    /\ Lock!ChildInit /\ tree = [t \in Threads |-> "NL"]
    /\ \E s \in Starts :
         /\ index = [i \in DOMAIN s.hashes |-> [hash |-> s.hashes[i], block |-> i]]
         /\ used = DOMAIN s.hashes
         /\ leaf = [b \in Leaves |-> IF b \in used THEN s.leaves[b] ELSE {}]
    /\ pc = [t \in Threads |-> "idle"]
    /\ op = [t \in Threads |-> None] /\ answer = [t \in Threads |-> None]
    /\ left = Calls
    /\ safe = [t \in Threads |-> FALSE] /\ at = [t \in Threads |-> 1]
    /\ block = [t \in Threads |-> 1] /\ count = [t \in Threads |-> 0]
    /\ changed = [t \in Threads |-> FALSE] /\ new = [t \in Threads |-> None]
    /\ then = [t \in Threads |-> "done"]

-----------------------------------------------------------------------------
EX(t) == tree[t] = "EX"
H(t) == Hash[op[t].name]
Holds(t, d) == mode[d][t] \in Lock!Held

\* ext4_htree_dx_locked.
DxLocked(t) == EX(t) \/ Holds(t, "DX")

\* ext4_htree_node_lock: the mode ld_flags asks for (EXT4_HLOCK_*), None if the
\* lock is not asked for or the tree is locked against everybody.
Wanted(t, d) ==
    LET writer == op[t].kind # "lookup"
        splits == op[t].kind = "add" /\ safe[t]
    IN  IF EX(t) THEN None
        ELSE CASE d = "DE" -> IF writer THEN "PW" ELSE "PR"
               [] d = "DX" -> IF ~safe[t] THEN None ELSE IF splits THEN "PW" ELSE "PR"
               [] d = "SPIN" -> IF splits THEN "PW" ELSE IF safe[t] THEN None ELSE "PR"

\* ext4_htree_node_lock of key k, an event for the leaf b (or None) with it.
NodeLock(t, d, k, b) ==
    IF Wanted(t, d) = None THEN UNCHANGED <<lockVars, changed>>
    ELSE /\ Lock!Take(t, d, k, Wanted(t, d), b # None)
         /\ changed' = [u \in Threads |->
                changed[u] \/ (b # None /\ mode[d][u] = "NL" /\ block[u] = b)]

\* ext4_htree_node_unlock.
NodeUnlock(t, d, listen) ==
    IF Holds(t, d) THEN Lock!Leave(t, d, listen) ELSE UNCHANGED lockVars

Free(t, next) == then' = Set(then, t, next) /\ Goto(t, "free")

\* The upper layer serializes the operations on a name (ext4.h:1967), and adds one
\* only after a lookup that did not find it.
Contents == UNION {leaf[b] : b \in Leaves}
Call(t) == \E k \in Kinds, n \in Names :
    /\ pc[t] = "idle" /\ left[t] > 0 /\ left' = Set(left, t, left[t] - 1)
    /\ \A u \in Threads : op[u] # None => op[u].name # n
    /\ k = "add" => n \notin Contents
    /\ op' = Set(op, t, [kind |-> k, name |-> n])
    /\ Goto(t, "lock")
    /\ UNCHANGED <<lockVars, tree, dataVars, answer, changed, local>>

\* ext4_htree_lock in CR or CW, and htree_change_lock to EX.
LockTree(t) ==
    /\ pc[t] = "lock" /\ \A u \in Threads : ~EX(u)
    /\ tree' = Set(tree, t, "shared") /\ Goto(t, "dx")
    /\ UNCHANGED <<lockVars, dataVars, op, answer, changed, local>>
Relock(t) ==
    /\ pc[t] = "relock" /\ \A u \in Threads : tree[u] = "NL"
    /\ tree' = Set(tree, t, "EX") /\ Goto(t, "dx")
    /\ UNCHANGED <<lockVars, dataVars, op, answer, changed, local>>

-----------------------------------------------------------------------------
\* dx_probe at the last index level.
LockDx(t) ==
    /\ pc[t] = "dx" /\ NodeLock(t, "DX", Index, None) /\ Goto(t, "spin")
    /\ UNCHANGED <<tree, dataVars, op, answer, local>>
LockSpin(t) ==
    /\ pc[t] = "spin" /\ NodeLock(t, "SPIN", Index, None) /\ Goto(t, "search")
    /\ UNCHANGED <<tree, dataVars, op, answer, local>>

\* The binary search: the last entry whose hash is not above h.
Covering(h) == CHOOSE i \in DOMAIN index :
    /\ i = 1 \/ index[i].hash <= h
    /\ \A j \in i + 1 .. Len(index) : index[j].hash > h

CollisionNever(t, i) == FALSE  \* Faulty variant: no search asks for collisions
\* dx_probe_hash_collision gives DX_HASH_COL_YES; an add does not ask for it.
Collision(t, i) ==
    op[t].kind # "add" /\ i < Len(index) /\ Even(index[i + 1].hash) = H(t)

Search(t) ==
    LET i == Covering(H(t)) IN
    /\ pc[t] = "search"
    /\ \/ /\ DxLocked(t) /\ NodeUnlock(t, "SPIN", FALSE)
          /\ at' = Set(at, t, i) /\ block' = Set(block, t, index[i].block)
          /\ Goto(t, IF EX(t) THEN "leaf" ELSE "de")
          /\ UNCHANGED <<safe, count>>
       \/ /\ ~DxLocked(t) /\ Collision(t, i) /\ NodeUnlock(t, "SPIN", FALSE)
          /\ safe' = Set(safe, t, TRUE) /\ Goto(t, "dx")
          /\ UNCHANGED <<at, block, count>>
       \/ /\ ~DxLocked(t) /\ ~Collision(t, i) /\ NodeUnlock(t, "SPIN", TRUE)
          /\ at' = Set(at, t, i) /\ block' = Set(block, t, index[i].block)
          /\ count' = Set(count, t, Len(index)) /\ Goto(t, "de")
          /\ UNCHANGED safe
    /\ changed' = Set(changed, t, FALSE)
    /\ UNCHANGED <<tree, dataVars, op, answer, new, then>>

\* ext4_htree_de_lock, in dx_probe and in ext4_htree_next_block.
LockDe(t) ==
    /\ pc[t] = "de" /\ NodeLock(t, "DE", block[t], None)
    /\ Goto(t, IF mode["SPIN"][t] = "NL" THEN "listen" ELSE "leaf")
    /\ UNCHANGED <<tree, dataVars, op, answer, local>>

StopListenDeaf(t) ==  \* Faulty variant: myblock is not looked at
    /\ pc[t] = "listen" /\ Lock!Quiet(t, "SPIN") /\ Goto(t, "leaf")
    /\ UNCHANGED <<tree, dataVars, op, answer, changed, local>>
\* ext4_htree_spin_stop_listen, and the look at myblock.
StopListen(t) ==
    /\ pc[t] = "listen" /\ Lock!Quiet(t, "SPIN")
    /\ IF changed[t] THEN Free(t, "again") ELSE Goto(t, "leaf") /\ UNCHANGED then
    /\ UNCHANGED <<tree, dataVars, op, answer, changed, safe, at, block, count, new>>

-----------------------------------------------------------------------------
There(t) == op[t].name \in leaf[block[t]]
Finish(t, result) == answer' = Set(answer, t, result) /\ then' = Set(then, t, "done")
                     /\ Goto(t, "free")

\* ext4_dx_find_entry and search_dirblock; the caller of a delete goes on with
\* ext4_delete_entry under the same lock.
Found(t) ==
    /\ pc[t] = "leaf" /\ op[t].kind # "add" /\ There(t)
    /\ leaf' = IF op[t].kind = "del" THEN Set(leaf, block[t], leaf[block[t]] \ {op[t].name})
               ELSE leaf
    /\ Finish(t, "found")
    /\ UNCHANGED <<lockVars, tree, index, used, op, changed, safe, at, block, count, new>>

\* ext4_htree_next_block: the next entry continues this hash, and can be trusted
\* because DX is locked.
Continues(t) == DxLocked(t) /\ at[t] < Len(index) /\ Even(index[at[t] + 1].hash) = H(t)
NotHere(t) ==
    /\ pc[t] = "leaf" /\ op[t].kind # "add" /\ ~There(t)
    /\ \/ /\ Continues(t) /\ NodeUnlock(t, "DE", FALSE)
          /\ at' = Set(at, t, at[t] + 1) /\ block' = Set(block, t, index[at[t] + 1].block)
          /\ Goto(t, IF EX(t) THEN "leaf" ELSE "de")
          /\ UNCHANGED <<answer, then>>
       \/ /\ ~Continues(t) /\ NodeUnlock(t, "DE", FALSE)
          /\ Finish(t, "not_found") /\ UNCHANGED <<at, block>>
    /\ UNCHANGED <<tree, dataVars, op, changed, safe, count, new>>

AddHereOver(t) ==  \* Faulty variant: ext4_find_dest_de is off by one entry
    /\ pc[t] = "leaf" /\ op[t].kind = "add" /\ Cardinality(leaf[block[t]]) <= Capacity
    /\ leaf' = Set(leaf, block[t], leaf[block[t]] \cup {op[t].name})
    /\ Finish(t, "done")
    /\ UNCHANGED <<lockVars, tree, index, used, op, changed, safe, at, block, count, new>>
\* ext4_dx_add_entry: add_dirent_to_buf finds room.
AddHere(t) ==
    /\ pc[t] = "leaf" /\ op[t].kind = "add" /\ Cardinality(leaf[block[t]]) < Capacity
    /\ leaf' = Set(leaf, block[t], leaf[block[t]] \cup {op[t].name})
    /\ Finish(t, "done")
    /\ UNCHANGED <<lockVars, tree, index, used, op, changed, safe, at, block, count, new>>

Full(t) == pc[t] = "leaf" /\ op[t].kind = "add" /\ Cardinality(leaf[block[t]]) >= Capacity

\* The index is full too: once more with the tree to oneself, and then no space.
IndexFull(t) ==
    /\ Full(t) /\ Len(index) = Limit
    /\ \/ ~EX(t) /\ Free(t, "relock") /\ UNCHANGED answer
       \/ EX(t) /\ Finish(t, "no_space")
    /\ UNCHANGED <<lockVars, tree, dataVars, op, changed, safe, at, block, count, new>>

\* There is room in the index: DX is needed, its entries must not have changed.
NeedSplit(t) ==
    /\ Full(t) /\ Len(index) # Limit
    /\ IF DxLocked(t) THEN Goto(t, "split") /\ UNCHANGED <<safe, then>>
       ELSE /\ safe' = Set(safe, t, TRUE)
            /\ IF count[t] = Len(index) THEN Goto(t, "try") /\ UNCHANGED then
               ELSE Free(t, "again")
    /\ UNCHANGED <<lockVars, tree, dataVars, op, answer, changed, at, block, count, new>>
TryDx(t) ==
    /\ pc[t] = "try"
    /\ IF Lock!Free("DX", Index, "PW") THEN NodeLock(t, "DX", Index, None)
            /\ Goto(t, "recount") /\ UNCHANGED then
       ELSE Free(t, "again") /\ UNCHANGED <<lockVars, changed>>
    /\ UNCHANGED <<tree, dataVars, op, answer, safe, at, block, count, new>>
RecountNot(t) ==  \* Faulty variant: entries are not counted again with DX held
    /\ pc[t] = "recount" /\ Goto(t, "split")
    /\ UNCHANGED <<lockVars, tree, dataVars, op, answer, changed, local>>
Recount(t) ==
    /\ pc[t] = "recount"
    /\ IF count[t] = Len(index) THEN Goto(t, "split") /\ UNCHANGED then ELSE Free(t, "again")
    /\ UNCHANGED <<lockVars, tree, dataVars, op, answer, changed, safe, at, block, count, new>>

-----------------------------------------------------------------------------
\* do_split: the names sorted by hash, from some point on, are the upper part;
\* the part that the new name does not belong to moves to a new block, if
\* ext4_append finds one.
Uppers(S) == {U \in SUBSET S : U # {} /\ U # S
                 /\ \A u \in U, n \in S \ U : Hash[n] <= Hash[u]}
Split(t) ==
    LET S == leaf[block[t]]
        old == block[t]
    IN
    /\ pc[t] = "split"
    /\ \/ Finish(t, "no_space") /\ UNCHANGED <<leaf, used, new>>
       \/ \E U \in Uppers(S) :
            LET b == CHOOSE x \in Leaves \ used : TRUE
                hash2 == Hash[CHOOSE u \in U : \A v \in U : Hash[u] <= Hash[v]]
                continued == IF \E n \in S \ U : Hash[n] = hash2 THEN 1 ELSE 0
                low == H(t) < hash2
            IN  /\ used' = used \cup {b}
                /\ leaf' = [leaf EXCEPT ![old] = IF low THEN S \ U ELSE U,
                                        ![b] = IF low THEN U ELSE S \ U]
                /\ new' = Set(new, t, [hash |-> hash2 + continued, block |-> b, low |-> low])
                /\ Goto(t, "notify") /\ UNCHANGED <<answer, then>>
    /\ UNCHANGED <<lockVars, tree, index, op, changed, safe, at, block, count>>

\* ext4_htree_spin_lock with the event that the leaf of frame->at is split.
Notify(t) ==
    /\ pc[t] = "notify" /\ NodeLock(t, "SPIN", Index, index[at[t]].block)
    /\ Goto(t, "insert")
    /\ UNCHANGED <<tree, dataVars, op, answer, local>>

InsertLow(t) ==  \* Faulty variant: the new block always goes behind the old one
    /\ pc[t] = "insert" /\ NodeUnlock(t, "SPIN", FALSE)
    /\ index' = InsertAt(index, at[t] + 1, [hash |-> new[t].hash, block |-> new[t].block])
    /\ Goto(t, "added")
    /\ UNCHANGED <<tree, leaf, used, op, answer, changed, local>>
\* dx_insert_block, and dx_set_block when the upper part stayed.
Insert(t) ==
    LET e == new[t]
        old == index[at[t]].block
    IN
    /\ pc[t] = "insert" /\ NodeUnlock(t, "SPIN", FALSE)
    /\ index' = IF e.low THEN InsertAt(index, at[t] + 1, [hash |-> e.hash, block |-> e.block])
                ELSE InsertAt([index EXCEPT ![at[t]].block = e.block], at[t] + 1,
                              [hash |-> e.hash, block |-> old])
    /\ Goto(t, "added")
    /\ UNCHANGED <<tree, leaf, used, op, answer, changed, local>>

\* ext4_htree_dx_unlock, and add_dirent_to_buf into the place do_split made.
AddAfterSplit(t) ==
    /\ pc[t] = "added" /\ NodeUnlock(t, "DX", FALSE)
    /\ leaf' = Set(leaf, block[t], leaf[block[t]] \cup {op[t].name})
    /\ new' = Set(new, t, None)
    /\ Finish(t, "done")
    /\ UNCHANGED <<tree, index, used, op, changed, safe, at, block, count>>

\* dx_probe begins with empty frames, and sets ld_at, ld_count and myblock before it
\* reads them: what they held is of no use any more.
Forget(t) == /\ at' = Set(at, t, 1) /\ block' = Set(block, t, 1) /\ count' = Set(count, t, 0)
             /\ changed' = Set(changed, t, FALSE)

\* cleanup, and htree_unlock or htree_change_lock, which release what is held.
Release(t) ==
    /\ pc[t] = "free"
    /\ \E d \in {"DX", "DE"} :
         /\ Holds(t, d) /\ (d = "DE" => ~Holds(t, "DX"))
         /\ Lock!Leave(t, d, FALSE)
    /\ UNCHANGED <<tree, dataVars, pc, op, answer, changed, local>>
Leave(t) ==
    /\ tree' = IF then[t] = "again" THEN tree ELSE Set(tree, t, "NL")
    /\ Goto(t, CASE then[t] = "again" -> "dx" [] then[t] = "relock" -> "relock"
                 [] then[t] = "done" -> "idle")
    /\ IF then[t] = "done"
       THEN /\ op' = Set(op, t, None) /\ answer' = Set(answer, t, None)
            /\ safe' = Set(safe, t, FALSE)
       ELSE UNCHANGED <<op, answer, safe>>
    /\ Forget(t) /\ then' = Set(then, t, "done")
    /\ UNCHANGED <<lockVars, dataVars, new>>
ReleasedButDe(t) ==  \* Faulty variant: the leaf stays locked when the operation returns
    pc[t] = "free" /\ ~Holds(t, "DX") /\ (~Holds(t, "DE") \/ then[t] = "done") /\ Leave(t)
Released(t) == pc[t] = "free" /\ ~Holds(t, "DX") /\ ~Holds(t, "DE") /\ Leave(t)

Probe(t) == LockDx(t) \/ LockSpin(t) \/ Search(t) \/ LockDe(t) \/ StopListen(t)
AtLeaf(t) == Found(t) \/ NotHere(t) \/ AddHere(t) \/ IndexFull(t) \/ NeedSplit(t)
Splitting(t) == TryDx(t) \/ Recount(t) \/ Split(t) \/ Notify(t) \/ Insert(t) \/ AddAfterSplit(t)
Continue(t) == /\ \/ LockTree(t) \/ Relock(t) \/ Probe(t) \/ AtLeaf(t) \/ Splitting(t)
                  \/ Release(t) \/ Released(t)
               /\ UNCHANGED left
Next == \E t \in Threads : Call(t) \/ Continue(t)

\* Weak fairness of a thread's own steps: the scheduler runs a thread that can go on.
\* No lock is promised to the thread that wants it: SPIN is tried again and again
\* without a place in its queue, and DX is tried once (namei.c:811-817, 2720).
Fairness == \A t \in Threads : WF_vars(Continue(t))
Spec == Init /\ [][Next]_vars /\ Fairness

-----------------------------------------------------------------------------
TypeOK ==
    /\ \A i \in DOMAIN index : index[i].hash \in Nat /\ index[i].block \in used
    /\ used \subseteq Leaves /\ \A b \in Leaves : leaf[b] \subseteq Names
    /\ \A b \in Leaves : Cardinality(leaf[b]) <= Capacity
    /\ tree \in [Threads -> {"NL", "shared", "EX"}]

\* The leaves that a search for hash h goes through: the covering entry's, and
\* those of the entries right behind that continue h.
Path(h) == LET i == Covering(h)
               run == {j \in i + 1 .. Len(index) : \A l \in i + 1 .. j : Even(index[l].hash) = h}
           IN  {index[j].block : j \in {i} \cup run}

\* A name is in one leaf, and a search finds it there, except for the names that a
\* split has just moved to a block it has not inserted yet: those are in a leaf
\* that the splitting thread has locked (namei.c:1983-2026).
IndexFindsNames ==
    /\ \A b, c \in Leaves : b # c => leaf[b] \cap leaf[c] = {}
    /\ \A b \in used : \A n \in leaf[b] :
         \/ b \in Path(Hash[n])
         \/ \E t \in Threads : pc[t] \in {"notify", "insert"} /\ new[t].block = b
                /\ block[t] \in Path(Hash[n]) /\ (EX(t) \/ mode["DE"][t] = "PW")

\* A thread that works on a leaf has one that its hash leads to, whatever was split
\* between the search and the lock (namei.c:1073-1094, "retry and lock valid DE-block").
LeafIsRight == \A t \in Threads :
    pc[t] \in {"leaf", "try", "recount", "split"} => block[t] \in Path(H(t))

\* ld_at, saved under SPIN and used after it was let go, still points at the entry
\* of the locked leaf (namei.c:2704-2719, "OK, I've got DX lock and nothing changed").
AtIsRight == \A t \in Threads :
    pc[t] \in {"split", "notify", "insert"} => at[t] <= Len(index) /\ index[at[t]].block = block[t]

\* All this implements a set of names with atomic operations: no name is lost or
\* found twice by the splits, and every operation answers what it should.
Dir == INSTANCE Directory WITH
    names <- Contents, doing <- op
DirectoryKept == Dir!DirSpec

\* Every operation ends, whatever the others split meanwhile: the search that starts
\* again for a change of the index (namei.c:1089-1095, 2719-2724, 2744) does so only
\* as often as there are changes, and nobody waits for a lock in a circle.
OperationsEnd == \A t \in Threads : op[t] # None ~> op[t] = None

=============================================================================
