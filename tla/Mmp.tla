-------------------------------- MODULE Mmp --------------------------------
(***************************************************************************)
(* Multiple mount protection (mmp.c): hosts share a block device and one   *)
(* block of it, the MMP block.  A mount watches the block for a while,     *)
(* writes a random number into it, watches again, and then starts kmmpd,   *)
(* which counts up in the block as long as the host has the file system.   *)
(*                                                                         *)
(* Time passes in ticks.  A host may always be late, without a bound; it   *)
(* crashes, its reads and writes fail.  Reads and writes of the block are  *)
(* atomic (one sector).                                                    *)
(***************************************************************************)
EXTENDS Integers, FiniteSets

CONSTANTS
    Hosts,
    Update,        \* s_mmp_update_interval
    MinCheck,      \* EXT4_MMP_MIN_CHECK_INTERVAL
    MaxCheck,      \* EXT4_MMP_MAX_CHECK_INTERVAL
    Slack,         \* the 60 of wait_time
    MaxSeq,        \* EXT4_MMP_SEQ_MAX for kmmpd
    Random,        \* what mmp_new_seq draws from
    Clean, Fsck,   \* EXT4_MMP_SEQ_CLEAN and EXT4_MMP_SEQ_FSCK
    Alone,         \* whether mounts of a clean device are started one at a time
    Faults         \* whether writes of kmmpd fail

CheckMult == 2     \* EXT4_MMP_CHECK_MULT
Seqs == 1 .. MaxSeq

ASSUME MmpAssumption ==
    /\ {Update, MinCheck, MaxCheck, Slack, MaxSeq} \subseteq Nat \ {0}
    /\ MinCheck <= MaxCheck /\ Clean # Fsck
    /\ {Clean, Fsck} \cap Random = {} /\ ({Clean, Fsck} \cup Random) \cap Seqs = {}
    /\ {Alone, Faults} \subseteq BOOLEAN

VARIABLES
    block,    \* the MMP block: [seq, check, node]
    buf,      \* what a host has in its buffer of it
    pc,       \* "off", "wait", "write", "rewait", "start"; with kmmpd: "kmmpd" at
              \* the top of its loop, "sleep"
    wait,     \* wait_time
    since,    \* ticks since schedule_timeout was called, or since last_update_time
    rdonly    \* MS_RDONLY

vars == <<block, buf, pc, wait, since, rdonly>>

Larger(x, y) == IF x > y THEN x ELSE y
Smaller(x, y) == IF x < y THEN x ELSE y

WaitTime(c) == Smaller(2 * c + 1, c + Slack)
FirstCheck == Larger(CheckMult * Update, MinCheck)
Longest == Larger(WaitTime(Larger(MaxCheck, FirstCheck)), FirstCheck) + 1  \* time is not counted further
Set(f, h, x) == [f EXCEPT ![h] = x]
Goto(h, where) == pc' = Set(pc, h, where)

Blocks == [seq : {Clean, Fsck} \cup Random \cup Seqs, check : 0 .. Larger(MaxCheck, FirstCheck), node : Hosts]
NoBlock(h) == [seq |-> Clean, check |-> 0, node |-> h]

\* The device was left clean, or by a host that counted and crashed.
Init ==
    /\ block \in [seq : {Clean, MaxSeq}, check : {0}, node : Hosts]
    /\ buf = [h \in Hosts |-> NoBlock(h)] /\ pc = [h \in Hosts |-> "off"]
    /\ wait = [h \in Hosts |-> 0] /\ since = [h \in Hosts |-> 0]
    /\ rdonly = [h \in Hosts |-> FALSE]

Kmmpd(h) == pc[h] \in {"kmmpd", "sleep"}
Mounting(h) == pc[h] \in {"wait", "write", "rewait", "start"}

\* Off again; nothing of the buffer is used any more.
Forgotten(h) ==
    /\ Goto(h, "off") /\ buf' = Set(buf, h, NoBlock(h))
    /\ wait' = Set(wait, h, 0) /\ since' = Set(since, h, 0)
    /\ rdonly' = Set(rdonly, h, FALSE)

\* The block as the host left it; kmmpd compares the node too.
Same(h) == block.seq = buf[h].seq
SameNode(h) == Same(h) /\ block.node = buf[h].node

-----------------------------------------------------------------------------
(***************************************************************************)
(* ext4_multi_mount_protect.                                               *)
(***************************************************************************)
ReadBlock(h) ==
    /\ pc[h] = "off"
    /\ Alone /\ block.seq = Clean => \A g \in Hosts : ~Mounting(g)
    /\ block.seq # Fsck
    /\ buf' = Set(buf, h, block) /\ since' = Set(since, h, 0)
    /\ \/ block.seq = Clean /\ Goto(h, "write") /\ wait' = Set(wait, h, 0)
       \/ /\ block.seq # Clean /\ Goto(h, "wait")
          /\ wait' = Set(wait, h, WaitTime(Larger(Larger(Update, MinCheck), block.check)))
    /\ UNCHANGED <<block, rdonly>>

\* The first wait is over and the block is read again.
Watched(h) ==
    /\ pc[h] = "wait" /\ since[h] >= wait[h] /\ Same(h)
    /\ Goto(h, "write") /\ buf' = Set(buf, h, block)
    /\ UNCHANGED <<block, wait, since, rdonly>>

\* mmp_new_seq: a number nobody else has drawn or seen.
Fresh(r) == r # block.seq /\ \A g \in Hosts : buf[g].seq # r
WriteSeq(h) == \E r \in Random :
    /\ pc[h] = "write" /\ Fresh(r)
    /\ block' = [buf[h] EXCEPT !.seq = r] /\ buf' = Set(buf, h, block')
    /\ since' = Set(since, h, 0) /\ Goto(h, "rewait")
    /\ UNCHANGED <<wait, rdonly>>

\* The second wait is over and the number is still there.
RewatchedNot(h) ==  \* Faulty variant: the block is not read after the second wait
    /\ pc[h] = "rewait" /\ since[h] >= wait[h]
    /\ Goto(h, "start") /\ UNCHANGED <<block, buf, wait, since, rdonly>>
Rewatched(h) ==
    /\ pc[h] = "rewait" /\ since[h] >= wait[h] /\ Same(h)
    /\ Goto(h, "start") /\ buf' = Set(buf, h, block)
    /\ UNCHANGED <<block, wait, since, rdonly>>

\* A signal, an error of a read or a write, a number that has changed, or a crash.
MountFails(h) == Mounting(h) /\ Forgotten(h) /\ UNCHANGED block

-----------------------------------------------------------------------------
(***************************************************************************)
(* kmmpd.                                                                  *)
(***************************************************************************)
StartKmmpd(h) ==
    /\ pc[h] = "start"
    /\ buf' = Set(buf, h, [seq |-> buf[h].seq, check |-> FirstCheck, node |-> h])
    /\ wait' = Set(wait, h, 0) /\ since' = Set(since, h, 0)
    /\ Goto(h, "kmmpd") /\ UNCHANGED <<block, rdonly>>

\* One write, which may fail, and the end of kmmpd if the host has become read-only.
After(s) == IF s \in Seqs /\ s < MaxSeq THEN s + 1 ELSE 1
Works == IF Faults THEN BOOLEAN ELSE {TRUE}
Count(h) == \E works \in Works :
    LET new == [buf[h] EXCEPT !.seq = After(buf[h].seq)]
    IN  /\ pc[h] = "kmmpd"
        /\ block' = IF works THEN new ELSE block
        /\ IF rdonly[h] THEN Forgotten(h)
           ELSE /\ buf' = Set(buf, h, new)
                /\ since' = Set(since, h, 0) /\ Goto(h, "sleep")
                /\ UNCHANGED <<wait, rdonly>>

\* The check after a sleep, and the interval that follows from the time it took.
Late(h) == since[h] > buf[h].check
Kept(h) == Late(h) => SameNode(h)
NextCheckAny(diff) == Larger(CheckMult * diff, MinCheck)  \* Faulty variant: without EXT4_MMP_MAX_CHECK_INTERVAL
NextCheck(diff) == Larger(Smaller(CheckMult * diff, MaxCheck), MinCheck)
Rechecked(h) == [buf[h] EXCEPT !.check = NextCheck(since[h])]
AwakeBlind(h) ==  \* Faulty variant: a host that was late goes on without a look
    /\ pc[h] = "sleep" /\ since[h] >= Update
    /\ buf' = Set(buf, h, Rechecked(h))
    /\ Goto(h, "kmmpd") /\ UNCHANGED <<block, wait, since, rdonly>>
Awake(h) ==
    /\ pc[h] = "sleep" /\ since[h] >= Update /\ Kept(h)
    /\ buf' = Set(buf, h, Rechecked(h))
    /\ Goto(h, "kmmpd") /\ UNCHANGED <<block, wait, since, rdonly>>

\* The host is late, and the block is not as it left it or cannot be read: kmmpd
\* stops, after ext4_error.
Lost(h) == pc[h] = "sleep" /\ Late(h) /\ Forgotten(h) /\ UNCHANGED block

\* kthread_stop, from ext4_put_super or a mount that fails later on, wakes kmmpd.
UmountBlind(h) ==  \* Faulty variant: the block is marked clean without a look
    /\ Kmmpd(h)
    /\ \E works \in Works :
         block' = IF works THEN [buf[h] EXCEPT !.seq = Clean] ELSE block
    /\ Forgotten(h)
Umount(h) ==
    /\ Kmmpd(h) /\ (pc[h] = "sleep" => Kept(h))
    /\ LET last == IF pc[h] = "sleep" THEN Rechecked(h) ELSE buf[h]
       IN  \E works \in Works :
             block' = IF works THEN [last EXCEPT !.seq = Clean] ELSE block
    /\ Forgotten(h)

RemountRo(h) ==
    /\ Kmmpd(h) /\ ~rdonly[h] /\ rdonly' = Set(rdonly, h, TRUE)
    /\ UNCHANGED <<block, buf, pc, wait, since>>

Crash(h) == Kmmpd(h) /\ Forgotten(h) /\ UNCHANGED block

\* e2fsck, with no host there.
CheckFs ==
    /\ \A h \in Hosts : pc[h] = "off"
    /\ block.seq \in {Clean, Fsck}
    /\ block' = [block EXCEPT !.seq = IF block.seq = Clean THEN Fsck ELSE Clean]
    /\ UNCHANGED <<buf, pc, wait, since, rdonly>>

\* Nothing looks at the block again between the last check of a mount, or the end
\* of a sleep, and the write that follows: no delay is allowed there.
Prompt(h) == pc[h] \notin {"start", "kmmpd"}
Timed(h) == pc[h] \in {"wait", "rewait", "sleep"}
Tick ==
    /\ \A h \in Hosts : Prompt(h)
    /\ \E h \in Hosts : Timed(h) /\ since[h] < Longest
    /\ since' = [h \in Hosts |-> IF Timed(h) THEN Smaller(since[h] + 1, Longest) ELSE since[h]]
    /\ UNCHANGED <<block, buf, pc, wait, rdonly>>

Mount(h) == ReadBlock(h) \/ Watched(h) \/ WriteSeq(h) \/ Rewatched(h) \/ StartKmmpd(h)
Next == \/ Tick \/ CheckFs
        \/ \E h \in Hosts : \/ Mount(h) \/ MountFails(h) \/ Count(h) \/ Awake(h)
                            \/ Lost(h) \/ Umount(h) \/ RemountRo(h) \/ Crash(h)

Spec == Init /\ [][Next]_vars

-----------------------------------------------------------------------------
(***************************************************************************)
(* Properties.                                                             *)
(***************************************************************************)

\* Every variable has its type: what a host keeps of the block stays within the
\* intervals the code allows (mmp.c:161, 232).
TypeOK ==
    /\ block \in Blocks /\ buf \in [Hosts -> Blocks]
    /\ pc \in [Hosts -> {"off", "wait", "write", "rewait", "start", "kmmpd", "sleep"}]
    /\ wait \in [Hosts -> 0 .. Longest] /\ since \in [Hosts -> 0 .. Longest]
    /\ rdonly \in [Hosts -> BOOLEAN]

\* "Protect the filesystem from being mounted more than once" (mmp.c:269): two
\* hosts never both have it, however late they are and in whatever order they read
\* and write the block, unless one of them is past its check interval: it will look
\* at the block before it goes on.
MountedOnce ==
    \A g, h \in Hosts : g # h /\ Kmmpd(g) /\ Kmmpd(h) => Late(g) \/ Late(h)

\* A block that says the device is clean, which lets the next mount in without a
\* wait (mmp.c:306), is never seen while a host that counts in time has it.
CleanIsFree == \A h \in Hosts : Kmmpd(h) /\ block.seq = Clean => Late(h)

\* kmmpd never writes, with a number or with "clean", over a number that another
\* host that is in time has counted to (mmp.c:207-226).
CountsItsOwn == [][
    \A g, h \in Hosts : g # h /\ Kmmpd(g) /\ block.node = g /\ block.seq \in Seqs /\ Kmmpd(h)
                       /\ block' # block /\ block'.node = h /\ block'.seq \in Seqs \cup {Clean}
                       => Late(g)]_vars
=============================================================================
