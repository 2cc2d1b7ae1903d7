----------------------------- MODULE MmpProofs ------------------------------
(***************************************************************************)
(* Proofs about Mmp, for every number of hosts and every interval: its     *)
(* types; and, while no host that has the device goes by an interval as    *)
(* long as the wait of a mount under way, that two hosts never have it.    *)
(*                                                                         *)
(* The argument: a host is live from the end of its second wait until it   *)
(* is late and the block is no longer as it left it.  While a host is      *)
(* live, a mount whose number is in the block has waited less than its     *)
(* wait, and not longer than the live host has slept (Looks): the host     *)
(* counts before the wait is over, and the number is gone.                 *)
(***************************************************************************)
EXTENDS Mmp, TLAPS

-----------------------------------------------------------------------------
(***************************************************************************)
(* Types.                                                                  *)
(***************************************************************************)
Top == Larger(MaxCheck, FirstCheck)

\* An interval that the code allows is shorter than any time that is counted,
\* and the wait that follows from it is positive and counted too.
LEMMA Intervals ==
  /\ Top \in Nat /\ Longest \in Nat /\ FirstCheck \in 0 .. Top /\ Top < Longest
  /\ \A c \in 0 .. Top :
       WaitTime(Larger(Larger(Update, MinCheck), c)) \in 1 .. Longest
  /\ \A d \in Nat : NextCheck(d) \in 0 .. Top
<1>1. Update \in Nat \ {0} /\ MinCheck \in Nat \ {0} /\ MaxCheck \in Nat \ {0}
      /\ Slack \in Nat \ {0} /\ MinCheck <= MaxCheck
  BY MmpAssumption
<1>2. FirstCheck \in Nat /\ Update <= FirstCheck /\ MinCheck <= FirstCheck
  BY <1>1 DEF FirstCheck, CheckMult, Larger
<1>3. Top \in Nat /\ FirstCheck <= Top /\ MaxCheck <= Top /\ MinCheck <= Top /\ Update <= Top
  BY <1>1, <1>2 DEF Top, Larger
<1>4. \A c \in 0 .. Top : Larger(Larger(Update, MinCheck), c) \in 0 .. Top
  BY <1>1, <1>3 DEF Larger
<1>5. \A c \in 0 .. Top : WaitTime(c) \in 1 .. WaitTime(Top)
  BY <1>1, <1>3 DEF WaitTime, Smaller
<1>6. WaitTime(Top) \in Nat /\ Top < WaitTime(Top)
  BY <1>1, <1>3 DEF WaitTime, Smaller
<1>7. Longest = Larger(WaitTime(Top), FirstCheck) + 1
  BY DEF Longest, Top
<1>8. Longest \in Nat /\ WaitTime(Top) <= Longest
  BY <1>2, <1>6, <1>7 DEF Larger
<1>9. \A d \in Nat : NextCheck(d) \in 0 .. Top
  BY <1>1, <1>3 DEF NextCheck, CheckMult, Larger, Smaller
<1>10. \A c \in 0 .. Top : WaitTime(Larger(Larger(Update, MinCheck), c)) \in 1 .. Longest
  <2> TAKE c \in 0 .. Top
  <2> DEFINE d == Larger(Larger(Update, MinCheck), c)
  <2>1. WaitTime(d) \in 1 .. WaitTime(Top)
    BY <1>4, <1>5
  <2> QED
    BY <2>1, <1>6, <1>8
<1> QED
  BY <1>2, <1>3, <1>6, <1>8, <1>9, <1>10

Numbered == {Clean, Fsck} \cup Random \cup Seqs
LEMMA BlocksAre == Blocks = [seq : Numbered, check : 0 .. Top, node : Hosts]
  BY DEF Blocks, Numbered, Top

\* kmmpd counts from 1 to MaxSeq, whatever number it finds.
LEMMA AfterIs == \A s : After(s) \in Seqs
<1>1. MaxSeq \in Nat \ {0}
  BY MmpAssumption
<1> QED
  BY <1>1 DEF After, Seqs

LEMMA NoBlockIs == \A h \in Hosts : NoBlock(h) \in Blocks
  BY Intervals, BlocksAre DEF NoBlock, Numbered

LEMMA ForgottenTypes ==
  ASSUME TypeOK, NEW h \in Hosts, Forgotten(h), block' \in Blocks
  PROVE  TypeOK'
<1>1. NoBlock(h) \in Blocks /\ 0 \in 0 .. Longest
  BY NoBlockIs, Intervals
<1> QED
  BY <1>1 DEF TypeOK, Forgotten, Goto, Set

\* Each step keeps the types.
LEMMA InitTypes == Init => TypeOK
<1> SUFFICES ASSUME Init PROVE TypeOK
  OBVIOUS
<1>1. MaxSeq \in Seqs /\ 0 \in 0 .. Top /\ 0 \in 0 .. Longest
  BY MmpAssumption, Intervals DEF Seqs
<1>2. block \in Blocks
  BY <1>1, BlocksAre DEF Init, Numbered
<1>3. \A h \in Hosts : NoBlock(h) \in Blocks
  BY NoBlockIs
<1> QED
  BY <1>1, <1>2, <1>3 DEF Init, TypeOK

LEMMA NextTypes == TypeOK /\ [Next]_vars => TypeOK'
<1> SUFFICES ASSUME TypeOK, [Next]_vars PROVE TypeOK'
  OBVIOUS
<1>1. block \in Blocks /\ \A h \in Hosts : buf[h] \in Blocks /\ since[h] \in 0 .. Longest
  BY DEF TypeOK
<1>2. ASSUME NEW b \in Blocks
      PROVE  /\ b.seq \in Numbered /\ b.check \in 0 .. Top /\ b.node \in Hosts
             /\ \A s \in Numbered : [b EXCEPT !.seq = s] \in Blocks
             /\ \A c \in 0 .. Top : [b EXCEPT !.check = c] \in Blocks
  BY BlocksAre
<1>3. {Clean, Fsck} \cup Random \cup Seqs \subseteq Numbered
  BY DEF Numbered
<1>4. 0 \in 0 .. Longest
  BY Intervals
<1>5. \A h \in Hosts : Rechecked(h) \in Blocks
  <2> TAKE h \in Hosts
  <2>1. since[h] \in Nat
    BY <1>1, Intervals
  <2>2. NextCheck(since[h]) \in 0 .. Top
    BY <2>1, Intervals
  <2> QED
    BY <1>1, <1>2, <2>2 DEF Rechecked
<1>6. CASE Tick
  <2>1. ASSUME NEW h \in Hosts PROVE Smaller(since[h] + 1, Longest) \in 0 .. Longest
    BY <1>1, Intervals DEF Smaller
  <2>2. since' \in [Hosts -> 0 .. Longest]
    BY <1>1, <1>6, <2>1 DEF Tick
  <2> QED
    BY <1>6, <2>2 DEF Tick, TypeOK
<1>7. CASE CheckFs
  <2>1. block' \in Blocks
    BY <1>1, <1>2, <1>3, <1>7 DEF CheckFs
  <2> QED
    BY <1>7, <2>1 DEF CheckFs, TypeOK
<1>8. ASSUME NEW h \in Hosts, ReadBlock(h) PROVE TypeOK'
  <2>1. WaitTime(Larger(Larger(Update, MinCheck), block.check)) \in 0 .. Longest
    BY <1>1, <1>2, Intervals
  <2>2. buf' \in [Hosts -> Blocks] /\ since' \in [Hosts -> 0 .. Longest]
    BY <1>1, <1>4, <1>8 DEF ReadBlock, TypeOK, Set
  <2>3. wait' \in [Hosts -> 0 .. Longest]
    BY <1>4, <1>8, <2>1 DEF ReadBlock, TypeOK, Set
  <2> QED
    BY <1>8, <2>2, <2>3 DEF ReadBlock, TypeOK, Goto, Set
<1>9. ASSUME NEW h \in Hosts, Watched(h) PROVE TypeOK'
  BY <1>9 DEF Watched, TypeOK, Goto, Set
<1>10. ASSUME NEW h \in Hosts, WriteSeq(h) PROVE TypeOK'
  <2>1. block' \in Blocks
    BY <1>1, <1>2, <1>3, <1>10 DEF WriteSeq
  <2> QED
    BY <1>4, <1>10, <2>1 DEF WriteSeq, TypeOK, Goto, Set
<1>11. ASSUME NEW h \in Hosts, Rewatched(h) PROVE TypeOK'
  BY <1>11 DEF Rewatched, TypeOK, Goto, Set
<1>12. ASSUME NEW h \in Hosts, StartKmmpd(h) PROVE TypeOK'
  <2>1. [seq |-> buf[h].seq, check |-> FirstCheck, node |-> h] \in Blocks
    BY <1>1, <1>2, Intervals, BlocksAre
  <2> QED
    BY <1>4, <1>12, <2>1 DEF StartKmmpd, TypeOK, Goto, Set
<1>13. ASSUME NEW h \in Hosts, MountFails(h) PROVE TypeOK'
  BY <1>1, <1>13, ForgottenTypes DEF MountFails
<1>14. ASSUME NEW h \in Hosts, Count(h) PROVE TypeOK'
  <2> DEFINE new == [buf[h] EXCEPT !.seq = After(buf[h].seq)]
  <2>1. new \in Blocks
    BY <1>1, <1>2, <1>3, AfterIs
  <2>2. block' \in Blocks
    BY <1>1, <1>14, <2>1 DEF Count
  <2>3. CASE rdonly[h]
    BY <1>14, <2>2, <2>3, ForgottenTypes DEF Count
  <2>4. CASE ~rdonly[h]
    <3>1. buf' = Set(buf, h, new) /\ since' = Set(since, h, 0) /\ Goto(h, "sleep")
          /\ UNCHANGED <<wait, rdonly>>
      BY <1>14, <2>4 DEF Count
    <3> QED
      BY <1>4, <2>1, <2>2, <3>1 DEF TypeOK, Goto, Set
  <2> QED
    BY <2>3, <2>4
<1>15. ASSUME NEW h \in Hosts, Awake(h) PROVE TypeOK'
  BY <1>5, <1>15 DEF Awake, TypeOK, Goto, Set
<1>16. ASSUME NEW h \in Hosts, Lost(h) PROVE TypeOK'
  BY <1>1, <1>16, ForgottenTypes DEF Lost
<1>17. ASSUME NEW h \in Hosts, Umount(h) PROVE TypeOK'
  <2> DEFINE last == IF pc[h] = "sleep" THEN Rechecked(h) ELSE buf[h]
  <2>1. last \in Blocks
    BY <1>1, <1>5
  <2>2. [last EXCEPT !.seq = Clean] \in Blocks
    BY <1>2, <1>3, <2>1
  <2>3. block' \in Blocks
    BY <1>1, <1>17, <2>2 DEF Umount
  <2> QED
    BY <1>17, <2>3, ForgottenTypes DEF Umount
<1>18. ASSUME NEW h \in Hosts, RemountRo(h) PROVE TypeOK'
  BY <1>18 DEF RemountRo, TypeOK, Set
<1>19. ASSUME NEW h \in Hosts, Crash(h) PROVE TypeOK'
  BY <1>1, <1>19, ForgottenTypes DEF Crash
<1>20. CASE UNCHANGED vars
  BY <1>20 DEF vars, TypeOK
<1> QED
  BY <1>6, <1>7, <1>8, <1>9, <1>10, <1>11, <1>12, <1>13, <1>14, <1>15, <1>16, <1>17,
     <1>18, <1>19, <1>20 DEF Next, Mount

\* Every variable has its type, and an interval stays within what the code allows
\* however late a host is (mmp.c:232).
THEOREM MmpTypes == Spec => []TypeOK
  BY InitTypes, NextTypes, PTL DEF Spec

-----------------------------------------------------------------------------
(***************************************************************************)
(* The inductive invariant.                                                *)
(***************************************************************************)

\* A host has the device, and is in time or will find the block as it left it.
Live(g) ==
    \/ pc[g] \in {"start", "kmmpd"}
    \/ pc[g] = "sleep" /\ (~Late(g) \/ SameNode(g))

OneLives == \A g, h \in Hosts : Live(g) /\ Live(h) => g = h
FreeWhenClean == block.seq = Clean => \A g \in Hosts : ~Live(g)

\* A mount that found the block clean is the only one until it has written.
FirstIn ==
    \A h \in Hosts : pc[h] = "write" /\ wait[h] = 0 =>
        block.seq = Clean /\ \A g \in Hosts \ {h} : ~Mounting(g)
Waits == \A h \in Hosts : pc[h] = "wait" => wait[h] # 0

\* What a host's number says of it, and that no two mounts have drawn the same.
Numbers ==
    \A h \in Hosts :
        /\ pc[h] = "rewait" => buf[h].seq \in Random
        /\ pc[h] = "sleep" => buf[h].seq \in Seqs
        /\ Kmmpd(h) => buf[h].node = h
Apart ==
    \A g, h \in Hosts :
        pc[g] = "rewait" /\ pc[h] = "rewait" /\ buf[g].seq = buf[h].seq => g = h

\* While g is live, h with its number in the block has not waited long enough.
Looking(g, h) ==
    Live(g) /\ pc[h] = "rewait" /\ Same(h) =>
        since[h] < wait[h] /\ (pc[g] = "sleep" => since[h] <= since[g])
Looks == \A g, h \in Hosts : g # h => Looking(g, h)

Inv == /\ TypeOK /\ OneLives /\ FreeWhenClean /\ FirstIn /\ Waits /\ Numbers
       /\ Apart /\ Looks

\* The hypothesis of what follows: no host that has the device goes by an interval
\* as long as the second wait of a mount under way. A mount waits longer than the
\* interval it has read, so this fails only when a host raises its interval while
\* the mount waits, after a turn much longer than those before (mmp.c:232, 327);
\* the code does not rule that out.
Brisk ==
    \A g, h \in Hosts :
        Kmmpd(g) /\ pc[h] = "rewait" /\ wait[h] # 0 => buf[g].check < wait[h]

LEMMA InitInv == Init => Inv
<1> SUFFICES ASSUME Init PROVE Inv
  OBVIOUS
<1>1. TypeOK
  BY InitTypes
<1>2. \A h \in Hosts : pc[h] = "off"
  BY DEF Init
<1> QED
  BY <1>1, <1>2 DEF Inv, OneLives, FreeWhenClean, FirstIn, Waits, Numbers, Apart, Looks,
                    Looking, Live, Kmmpd

-----------------------------------------------------------------------------
(***************************************************************************)
(* A step of one host.                                                     *)
(***************************************************************************)
Others(h) ==
    \A g \in Hosts \ {h} :
        pc'[g] = pc[g] /\ buf'[g] = buf[g] /\ wait'[g] = wait[g] /\ since'[g] = since[g]

\* kmmpd of h has written the block; a mount has drawn a number and written it.
Wrote(h) ==
    /\ Live(h) /\ block'.node = h /\ block'.seq \in Seqs \cup {Clean}
    /\ block'.seq = Clean => ~Live(h)'
Drew == block'.seq \in Random /\ \A g \in Hosts : buf[g].seq # block'.seq

\* What such a step leaves of the invariant for the other hosts: none becomes
\* live, and a mount whose number is in the block had it there before.
LEMMA OthersKeep ==
  ASSUME Inv, NEW h \in Hosts, Others(h), block' = block \/ Wrote(h) \/ Drew
  PROVE  /\ \A g \in Hosts \ {h} : Live(g)' => Live(g)
         /\ \A k \in Hosts \ {h} : pc[k] = "rewait" /\ Same(k)' => block' = block /\ Same(k)
         /\ \A g, k \in Hosts \ {h} : g # k => Looking(g, k)'
<1>1. {Clean, Fsck} \cap Random = {} /\ ({Clean, Fsck} \cup Random) \cap Seqs = {}
  BY MmpAssumption
<1>2. ASSUME NEW k \in Hosts \ {h}, pc[k] = "rewait", Same(k)'
      PROVE  block' = block /\ Same(k)
  <2>1. buf'[k] = buf[k] /\ buf[k].seq \in Random
    BY <1>2 DEF Others, Inv, Numbers
  <2>2. block'.seq = buf[k].seq
    BY <1>2, <2>1 DEF Same
  <2>3. ~Wrote(h) /\ ~Drew
    BY <1>1, <2>1, <2>2 DEF Wrote, Drew
  <2> QED
    BY <2>2, <2>3 DEF Same
<1>3. ASSUME NEW g \in Hosts \ {h}, Live(g)' PROVE Live(g)
  <2>1. pc'[g] = pc[g] /\ buf'[g] = buf[g] /\ since'[g] = since[g]
    BY DEF Others
  <2>2. CASE pc[g] \in {"start", "kmmpd"}
    BY <2>2 DEF Live
  <2>3. CASE pc[g] = "sleep" /\ ~Late(g)
    BY <2>3 DEF Live
  <2>4. CASE pc[g] = "sleep" /\ Late(g)
    <3>1. SameNode(g)'
      BY <1>3, <2>1, <2>4 DEF Live, Late
    <3>2. block'.seq = buf[g].seq /\ block'.node = buf[g].node
      BY <2>1, <3>1 DEF SameNode, Same
    <3>3. buf[g].node = g
      BY <2>4 DEF Inv, Numbers, Kmmpd
    <3>4. ~Wrote(h) /\ ~Drew
      BY <3>2, <3>3 DEF Wrote, Drew
    <3> QED
      BY <2>4, <3>2, <3>4 DEF Live, SameNode, Same
  <2> QED
    BY <1>3, <2>1, <2>2, <2>3, <2>4 DEF Live
<1>4. ASSUME NEW g \in Hosts \ {h}, NEW k \in Hosts \ {h}, g # k PROVE Looking(g, k)'
  <2>1. /\ pc'[g] = pc[g] /\ since'[g] = since[g]
        /\ pc'[k] = pc[k] /\ since'[k] = since[k] /\ wait'[k] = wait[k]
    BY DEF Others
  <2>2. Looking(g, k)
    BY <1>4 DEF Inv, Looks
  <2>3. SUFFICES ASSUME Live(g)', pc'[k] = "rewait", Same(k)'
                 PROVE  since'[k] < wait'[k] /\ (pc'[g] = "sleep" => since'[k] <= since'[g])
    BY DEF Looking
  <2>4. Live(g) /\ Same(k) /\ pc[k] = "rewait"
    BY <1>2, <1>3, <2>1, <2>3
  <2> QED
    BY <2>1, <2>2, <2>4 DEF Looking
<1> QED
  BY <1>2, <1>3, <1>4

\* A step of a host that has the device, or that drops out.
Runs(h) ==
    /\ Others(h) /\ pc'[h] \in {"off", "kmmpd", "sleep"}
    /\ Live(h)' => Live(h)
    /\ pc'[h] = "sleep" => buf'[h].seq \in Seqs
    /\ pc'[h] \in {"kmmpd", "sleep"} => buf'[h].node = h
    /\ \/ block' = block /\ (pc'[h] = "sleep" => pc[h] = "sleep" /\ since'[h] = since[h])
       \/ Wrote(h)

LEMMA RunsKeeps ==
  ASSUME Inv, TypeOK', NEW h \in Hosts, Runs(h)
  PROVE  Inv'
<1>1. Others(h) /\ (block' = block \/ Wrote(h)) /\ (Live(h)' => Live(h))
  BY DEF Runs
<1>2. \A g \in Hosts \ {h} : Live(g)' => Live(g)
  BY <1>1, OthersKeep
<1>3. \A k \in Hosts \ {h} : pc[k] = "rewait" /\ Same(k)' => block' = block /\ Same(k)
  BY <1>1, OthersKeep
<1>4. \A g, k \in Hosts \ {h} : g # k => Looking(g, k)'
  BY <1>1, OthersKeep
<1>5. \A g \in Hosts : Live(g)' => Live(g)
  BY <1>1, <1>2
<1>6. pc'[h] # "rewait" /\ pc'[h] # "write" /\ pc'[h] # "wait" /\ ~Mounting(h)'
  BY DEF Runs, Mounting
<1>7. OneLives'
  BY <1>5 DEF Inv, OneLives
<1>8. FreeWhenClean'
  <2> SUFFICES ASSUME block'.seq = Clean, NEW g \in Hosts, Live(g)' PROVE FALSE
    BY DEF FreeWhenClean
  <2>1. Live(g)
    BY <1>5
  <2>2. CASE block' = block
    BY <2>1, <2>2 DEF Inv, FreeWhenClean
  <2>3. CASE Wrote(h)
    <3>1. Live(h) /\ ~Live(h)'
      BY <2>3 DEF Wrote
    <3>2. g = h
      BY <2>1, <3>1 DEF Inv, OneLives
    <3> QED
      BY <3>1, <3>2
  <2> QED
    BY <1>1, <2>2, <2>3
<1>9. FirstIn'
  <2> SUFFICES ASSUME NEW k \in Hosts, pc'[k] = "write", wait'[k] = 0
               PROVE  block'.seq = Clean /\ \A g \in Hosts \ {k} : ~Mounting(g)'
    BY DEF FirstIn
  <2>1. k \in Hosts \ {h}
    BY <1>6
  <2>2. pc[k] = "write" /\ wait[k] = 0
    BY <1>1, <2>1 DEF Others
  <2>3. block.seq = Clean /\ \A g \in Hosts \ {k} : ~Mounting(g)
    BY <2>2 DEF Inv, FirstIn
  <2>4. ~Wrote(h)
    BY <2>3 DEF Inv, FreeWhenClean, Wrote
  <2>5. \A g \in Hosts \ {k} : ~Mounting(g)'
    BY <1>1, <1>6, <2>3 DEF Others, Mounting
  <2> QED
    BY <1>1, <2>3, <2>4, <2>5
<1>10. Waits'
  BY <1>1, <1>6 DEF Inv, Waits, Others
<1>11. Numbers'
  <2> SUFFICES ASSUME NEW k \in Hosts
               PROVE  /\ pc'[k] = "rewait" => buf'[k].seq \in Random
                      /\ pc'[k] = "sleep" => buf'[k].seq \in Seqs
                      /\ Kmmpd(k)' => buf'[k].node = k
    BY DEF Numbers
  <2>1. CASE k = h
    BY <1>6, <2>1 DEF Runs, Kmmpd
  <2>2. CASE k # h
    BY <1>1, <2>2 DEF Inv, Numbers, Others, Kmmpd
  <2> QED
    BY <2>1, <2>2
<1>12. Apart'
  BY <1>1, <1>6 DEF Inv, Apart, Others
<1>13. Looks'
  <2> SUFFICES ASSUME NEW g \in Hosts, NEW k \in Hosts, g # k PROVE Looking(g, k)'
    BY DEF Looks
  <2>1. CASE k = h
    BY <1>6, <2>1 DEF Looking
  <2>2. CASE k # h /\ g # h
    BY <1>4, <2>2
  <2>3. CASE k # h /\ g = h
    <3> SUFFICES ASSUME Live(h)', pc'[k] = "rewait", Same(k)'
                 PROVE  since'[k] < wait'[k] /\ (pc'[h] = "sleep" => since'[k] <= since'[h])
      BY <2>3 DEF Looking
    <3>1. pc[k] = "rewait" /\ since'[k] = since[k] /\ wait'[k] = wait[k]
      BY <1>1, <2>3 DEF Others
    <3>2. block' = block /\ Same(k) /\ Live(h)
      BY <1>1, <1>3, <2>3, <3>1
    <3>3. since[k] < wait[k] /\ (pc[h] = "sleep" => since[k] <= since[h])
      BY <2>3, <3>1, <3>2 DEF Inv, Looks, Looking
    <3>4. buf[k].seq \in Random /\ block.seq = buf[k].seq
      BY <3>1, <3>2 DEF Inv, Numbers, Same
    <3>5. ~Wrote(h)
      BY <3>2, <3>4, MmpAssumption DEF Wrote
    <3>6. pc'[h] = "sleep" => pc[h] = "sleep" /\ since'[h] = since[h]
      BY <3>5 DEF Runs
    <3> QED
      BY <3>1, <3>3, <3>6
  <2> QED
    BY <2>1, <2>2, <2>3
<1> QED
  BY <1>7, <1>8, <1>9, <1>10, <1>11, <1>12, <1>13 DEF Inv

-----------------------------------------------------------------------------
(***************************************************************************)
(* Hosts that have the device, and hosts that drop out.                    *)
(***************************************************************************)
LEMMA ForgottenOthers ==
  ASSUME TypeOK, NEW h \in Hosts, Forgotten(h)
  PROVE  Others(h) /\ pc'[h] = "off" /\ ~Live(h)'
  BY DEF TypeOK, Forgotten, Others, Goto, Set, Live

\* Who drops out without a write, or with one while it was live, keeps the invariant.
LEMMA ForgottenKeeps ==
  ASSUME Inv, TypeOK', NEW h \in Hosts, Forgotten(h), block' = block \/ Wrote(h)
  PROVE  Inv'
<1>1. TypeOK
  BY DEF Inv
<1>2. Others(h) /\ pc'[h] = "off" /\ ~Live(h)'
  BY <1>1, ForgottenOthers
<1>3. Runs(h)
  BY <1>2 DEF Runs
<1> QED
  BY <1>3, RunsKeeps

LEMMA StartKmmpdKeeps ==
  ASSUME Inv, TypeOK', NEW h \in Hosts, StartKmmpd(h)
  PROVE  Inv'
<1>1. TypeOK
  BY DEF Inv
<1>2. Others(h) /\ pc'[h] = "kmmpd" /\ buf'[h].node = h /\ block' = block
  BY <1>1 DEF StartKmmpd, TypeOK, Others, Goto, Set
<1>3. Live(h)
  BY DEF StartKmmpd, Live
<1>4. Runs(h)
  BY <1>2, <1>3 DEF Runs
<1> QED
  BY <1>4, RunsKeeps

LEMMA CountKeeps ==
  ASSUME Inv, TypeOK', ~Faults, NEW h \in Hosts, Count(h)
  PROVE  Inv'
<1> DEFINE new == [buf[h] EXCEPT !.seq = After(buf[h].seq)]
<1>1. TypeOK /\ buf[h] \in Blocks
  BY DEF Inv, TypeOK
<1>2. new.seq \in Seqs /\ new.node = buf[h].node
  BY <1>1, AfterIs DEF Blocks
<1>3. pc[h] = "kmmpd" /\ block' = new
  BY DEF Count, Works
<1>4. Live(h) /\ buf[h].node = h
  BY <1>3 DEF Live, Inv, Numbers, Kmmpd
<1>5. Wrote(h)
  <2>1. Clean \notin Seqs
    BY MmpAssumption
  <2> QED
    BY <1>2, <1>3, <1>4, <2>1 DEF Wrote
<1>6. CASE rdonly[h]
  BY <1>5, <1>6, ForgottenKeeps DEF Count
<1>7. CASE ~rdonly[h]
  <2>1. buf' = Set(buf, h, new) /\ since' = Set(since, h, 0) /\ Goto(h, "sleep")
        /\ UNCHANGED <<wait, rdonly>>
    BY <1>7 DEF Count
  <2>2. Others(h) /\ pc'[h] = "sleep" /\ buf'[h] = new
    BY <1>1, <2>1 DEF TypeOK, Others, Goto, Set
  <2>3. Runs(h)
    BY <1>2, <1>4, <1>5, <2>2 DEF Runs
  <2> QED
    BY <2>3, RunsKeeps
<1> QED
  BY <1>6, <1>7

\* A host that looks when it is late, or is not late, is live.
LEMMA KeptIsLive ==
  ASSUME NEW h \in Hosts, Kmmpd(h), pc[h] = "sleep" => Kept(h)
  PROVE  Live(h)
  BY DEF Kmmpd, Kept, Live

LEMMA AwakeKeeps ==
  ASSUME Inv, TypeOK', NEW h \in Hosts, Awake(h)
  PROVE  Inv'
<1>1. TypeOK /\ buf[h] \in Blocks
  BY DEF Inv, TypeOK
<1>2. Live(h) /\ buf[h].node = h
  BY KeptIsLive DEF Awake, Kmmpd, Inv, Numbers
<1>3. Rechecked(h).node = buf[h].node
  BY <1>1 DEF Rechecked, Blocks
<1>4. Others(h) /\ pc'[h] = "kmmpd" /\ buf'[h] = Rechecked(h) /\ block' = block
  BY <1>1 DEF Awake, TypeOK, Others, Goto, Set
<1>5. Runs(h)
  BY <1>2, <1>3, <1>4 DEF Runs
<1> QED
  BY <1>5, RunsKeeps

LEMMA UmountKeeps ==
  ASSUME Inv, TypeOK', ~Faults, NEW h \in Hosts, Umount(h)
  PROVE  Inv'
<1> DEFINE last == IF pc[h] = "sleep" THEN Rechecked(h) ELSE buf[h]
<1>1. TypeOK /\ buf[h] \in Blocks
  BY DEF Inv, TypeOK
<1>2. Live(h) /\ buf[h].node = h
  BY KeptIsLive DEF Umount, Inv, Numbers
<1>3. Rechecked(h).node = buf[h].node /\ "seq" \in DOMAIN Rechecked(h)
  BY <1>1 DEF Rechecked, Blocks
<1>4. last.node = h /\ "seq" \in DOMAIN last
  BY <1>1, <1>2, <1>3 DEF Blocks
<1>5. block' = [last EXCEPT !.seq = Clean]
  BY DEF Umount, Works
<1>6. block'.node = h /\ block'.seq = Clean
  BY <1>4, <1>5
<1>7. Forgotten(h) /\ ~Live(h)'
  BY <1>1, ForgottenOthers DEF Umount
<1>8. Wrote(h)
  BY <1>2, <1>6, <1>7 DEF Wrote
<1> QED
  BY <1>7, <1>8, ForgottenKeeps

LEMMA RemountRoKeeps ==
  ASSUME Inv, TypeOK', NEW h \in Hosts, RemountRo(h)
  PROVE  Inv'
<1>1. UNCHANGED <<block, buf, pc, wait, since>> /\ Kmmpd(h)
  BY DEF RemountRo
<1>2. Live(h)' => Live(h)
  BY <1>1 DEF Live, Late, SameNode, Same
<1>3. Runs(h)
  BY <1>1, <1>2 DEF Runs, Others, Kmmpd, Inv, Numbers
<1> QED
  BY <1>3, RunsKeeps

-----------------------------------------------------------------------------
(***************************************************************************)
(* Mounts.                                                                 *)
(***************************************************************************)

\* A step of a mount before its last look: it is not live, and it was alone if it
\* has found the block clean.
MountsOn(h) ==
    /\ Others(h) /\ pc'[h] \in {"wait", "write", "rewait"}
    /\ block' = block \/ Drew
    /\ pc'[h] = "wait" => wait'[h] # 0
    /\ pc'[h] = "write" /\ wait'[h] = 0 =>
         block'.seq = Clean /\ \A g \in Hosts \ {h} : ~Mounting(g)
    /\ \A k \in Hosts \ {h} : ~(pc[k] = "write" /\ wait[k] = 0)
    /\ pc'[h] = "rewait" =>
         /\ Drew /\ buf'[h].seq = block'.seq /\ since'[h] = 0
         /\ \A g \in Hosts : Live(g) => wait'[h] # 0

LEMMA MountsOnKeeps ==
  ASSUME Inv, TypeOK', NEW h \in Hosts, MountsOn(h)
  PROVE  Inv'
<1>1. Others(h) /\ (block' = block \/ Drew)
  BY DEF MountsOn
<1>2. \A g \in Hosts \ {h} : Live(g)' => Live(g)
  BY <1>1, OthersKeep
<1>3. \A g, k \in Hosts \ {h} : g # k => Looking(g, k)'
  BY <1>1, OthersKeep
<1>4. pc'[h] \notin {"start", "kmmpd", "sleep"} /\ ~Live(h)' /\ ~Kmmpd(h)'
  BY DEF MountsOn, Live, Kmmpd
<1>5. \A g \in Hosts : Live(g)' => g # h /\ Live(g)
  BY <1>2, <1>4
<1>6. OneLives'
  BY <1>5 DEF Inv, OneLives
<1>7. FreeWhenClean'
  <2>1. block'.seq = Clean => block' = block
    BY <1>1, MmpAssumption DEF Drew
  <2> QED
    BY <1>5, <2>1 DEF Inv, FreeWhenClean
<1>8. FirstIn'
  <2> SUFFICES ASSUME NEW k \in Hosts, pc'[k] = "write", wait'[k] = 0
               PROVE  block'.seq = Clean /\ \A g \in Hosts \ {k} : ~Mounting(g)'
    BY DEF FirstIn
  <2>1. k = h
    BY DEF MountsOn, Others
  <2>2. block'.seq = Clean /\ \A g \in Hosts \ {h} : ~Mounting(g)
    BY <2>1 DEF MountsOn
  <2> QED
    BY <1>1, <2>1, <2>2 DEF Others, Mounting
<1>9. Waits'
  <2> SUFFICES ASSUME NEW k \in Hosts, pc'[k] = "wait" PROVE wait'[k] # 0
    BY DEF Waits
  <2>1. CASE k = h
    BY <2>1 DEF MountsOn
  <2>2. CASE k # h
    BY <1>1, <2>2 DEF Others, Inv, Waits
  <2> QED
    BY <2>1, <2>2
<1>10. Numbers'
  <2> SUFFICES ASSUME NEW k \in Hosts
               PROVE  /\ pc'[k] = "rewait" => buf'[k].seq \in Random
                      /\ pc'[k] = "sleep" => buf'[k].seq \in Seqs
                      /\ Kmmpd(k)' => buf'[k].node = k
    BY DEF Numbers
  <2>1. CASE k = h
    BY <1>4, <2>1 DEF MountsOn, Drew
  <2>2. CASE k # h
    BY <1>1, <2>2 DEF Inv, Numbers, Others, Kmmpd
  <2> QED
    BY <2>1, <2>2
<1>11. Apart'
  <2> SUFFICES ASSUME NEW g \in Hosts, NEW k \in Hosts, pc'[g] = "rewait",
                      pc'[k] = "rewait", buf'[g].seq = buf'[k].seq, g # k
               PROVE  FALSE
    BY DEF Apart
  <2>1. CASE g # h /\ k # h
    BY <1>1, <2>1 DEF Others, Inv, Apart
  <2>2. CASE g = h
    BY <1>1, <2>2 DEF MountsOn, Others, Drew
  <2>3. CASE k = h
    BY <1>1, <2>3 DEF MountsOn, Others, Drew
  <2> QED
    BY <2>1, <2>2, <2>3
<1>12. Looks'
  <2> SUFFICES ASSUME NEW g \in Hosts, NEW k \in Hosts, g # k PROVE Looking(g, k)'
    BY DEF Looks
  <2>1. CASE g = h
    BY <1>4, <2>1 DEF Looking
  <2>2. CASE g # h /\ k # h
    BY <1>3, <2>2
  <2>3. CASE g # h /\ k = h
    <3> SUFFICES ASSUME Live(g)', pc'[h] = "rewait"
                 PROVE  since'[h] < wait'[h] /\ (pc'[g] = "sleep" => since'[h] <= since'[g])
      BY <2>3 DEF Looking
    <3>1. since'[h] = 0 /\ wait'[h] # 0
      BY <1>5 DEF MountsOn
    <3>2. wait'[h] \in Nat /\ since'[g] \in Nat
      BY Intervals DEF TypeOK
    <3> QED
      BY <3>1, <3>2
  <2> QED
    BY <2>1, <2>2, <2>3
<1> QED
  BY <1>6, <1>7, <1>8, <1>9, <1>10, <1>11, <1>12 DEF Inv

LEMMA ReadBlockKeeps ==
  ASSUME Inv, TypeOK', Alone, NEW h \in Hosts, ReadBlock(h)
  PROVE  Inv'
<1>1. TypeOK /\ block \in Blocks
  BY DEF Inv, TypeOK
<1>2. Others(h) /\ block' = block /\ pc[h] = "off"
  BY <1>1 DEF ReadBlock, TypeOK, Others, Goto, Set
<1>3. block.seq = Clean => \A g \in Hosts : ~Mounting(g)
  BY DEF ReadBlock
<1>4. \A k \in Hosts : ~(pc[k] = "write" /\ wait[k] = 0)
  BY <1>3 DEF Inv, FirstIn, Mounting
<1>5. CASE block.seq = Clean
  <2>1. pc'[h] = "write"
    BY <1>1, <1>5 DEF ReadBlock, TypeOK, Goto, Set
  <2> QED
    BY <1>2, <1>3, <1>4, <1>5, <2>1, MountsOnKeeps DEF MountsOn
<1>6. CASE block.seq # Clean
  <2>1. pc'[h] = "wait"
        /\ wait'[h] = WaitTime(Larger(Larger(Update, MinCheck), block.check))
    BY <1>1, <1>6 DEF ReadBlock, TypeOK, Goto, Set
  <2>2. block.check \in 0 .. Top
    BY <1>1, BlocksAre
  <2>3. wait'[h] # 0
    BY <2>1, <2>2, Intervals
  <2>4. MountsOn(h)
    BY <1>2, <1>4, <2>1, <2>3 DEF MountsOn
  <2> QED
    BY <2>4, MountsOnKeeps
<1> QED
  BY <1>5, <1>6

LEMMA WatchedKeeps ==
  ASSUME Inv, TypeOK', NEW h \in Hosts, Watched(h)
  PROVE  Inv'
<1>1. TypeOK
  BY DEF Inv
<1>2. Others(h) /\ block' = block /\ pc[h] = "wait" /\ pc'[h] = "write" /\ wait'[h] = wait[h]
  BY <1>1 DEF Watched, TypeOK, Others, Goto, Set
<1>3. wait[h] # 0
  BY <1>2 DEF Inv, Waits
<1>4. \A k \in Hosts \ {h} : ~(pc[k] = "write" /\ wait[k] = 0)
  BY <1>2 DEF Inv, FirstIn, Mounting
<1>5. MountsOn(h)
  BY <1>2, <1>3, <1>4 DEF MountsOn
<1> QED
  BY <1>5, MountsOnKeeps

LEMMA WriteSeqKeeps ==
  ASSUME Inv, TypeOK', NEW h \in Hosts, WriteSeq(h)
  PROVE  Inv'
<1>1. TypeOK /\ buf[h] \in Blocks
  BY DEF Inv, TypeOK
<1>2. PICK r \in Random :
        /\ pc[h] = "write" /\ Fresh(r)
        /\ block' = [buf[h] EXCEPT !.seq = r] /\ buf' = Set(buf, h, block')
        /\ since' = Set(since, h, 0) /\ Goto(h, "rewait")
        /\ UNCHANGED <<wait, rdonly>>
  BY DEF WriteSeq
<1>3. block'.seq = r
  BY <1>1, <1>2 DEF Blocks
<1>4. Drew
  BY <1>2, <1>3 DEF Drew, Fresh
<1>5. /\ Others(h) /\ pc'[h] = "rewait" /\ buf'[h] = block' /\ since'[h] = 0
      /\ wait'[h] = wait[h]
  BY <1>1, <1>2 DEF TypeOK, Others, Goto, Set
<1>6. \A k \in Hosts \ {h} : ~(pc[k] = "write" /\ wait[k] = 0)
  BY <1>2 DEF Inv, FirstIn, Mounting
<1>7. \A g \in Hosts : Live(g) => wait[h] # 0
  BY <1>2 DEF Inv, FirstIn, FreeWhenClean
<1>8. MountsOn(h)
  BY <1>4, <1>5, <1>6, <1>7 DEF MountsOn
<1> QED
  BY <1>8, MountsOnKeeps

\* The second wait ends only when no host is live.
LEMMA RewatchedKeeps ==
  ASSUME Inv, TypeOK', NEW h \in Hosts, Rewatched(h)
  PROVE  Inv'
<1>1. TypeOK
  BY DEF Inv
<1>2. /\ Others(h) /\ block' = block /\ pc[h] = "rewait" /\ pc'[h] = "start" /\ Same(h)
      /\ since[h] >= wait[h]
  BY <1>1 DEF Rewatched, TypeOK, Others, Goto, Set
<1>3. since[h] \in Nat /\ wait[h] \in Nat
  BY <1>1, Intervals DEF TypeOK
<1>4. \A g \in Hosts \ {h} : ~Live(g)
  BY <1>2, <1>3 DEF Inv, Looks, Looking
<1>5. \A g \in Hosts \ {h} : ~Live(g)'
  BY <1>2, <1>4, OthersKeep
<1>6. block.seq = buf[h].seq /\ buf[h].seq \in Random
  BY <1>2 DEF Same, Inv, Numbers
<1>7. OneLives'
  BY <1>5 DEF OneLives
<1>8. FreeWhenClean'
  BY <1>2, <1>6, MmpAssumption DEF FreeWhenClean
<1>9. \A k \in Hosts : ~(pc[k] = "write" /\ wait[k] = 0)
  BY <1>2 DEF Inv, FirstIn, Mounting
<1>10. FirstIn'
  BY <1>2, <1>9 DEF FirstIn, Others
<1>11. Waits'
  BY <1>2 DEF Inv, Waits, Others
<1>12. Numbers'
  BY <1>2 DEF Inv, Numbers, Others, Kmmpd
<1>13. Apart'
  BY <1>2 DEF Inv, Apart, Others
<1>14. Looks'
  <2> SUFFICES ASSUME NEW g \in Hosts, NEW k \in Hosts, g # k, Live(g)', pc'[k] = "rewait",
                      Same(k)'
               PROVE  FALSE
    BY DEF Looks, Looking
  <2>1. g = h /\ k # h
    BY <1>5
  <2>2. pc[k] = "rewait" /\ Same(k)
    BY <1>2, <2>1 DEF Others, Same
  <2>3. buf[k].seq = buf[h].seq
    BY <1>6, <2>2 DEF Same
  <2> QED
    BY <1>2, <2>1, <2>2, <2>3 DEF Inv, Apart
<1> QED
  BY <1>7, <1>8, <1>10, <1>11, <1>12, <1>13, <1>14 DEF Inv

-----------------------------------------------------------------------------
(***************************************************************************)
(* Time, e2fsck, and the whole.                                            *)
(***************************************************************************)

\* While time passes, a live host sleeps in time, hence shorter than the wait of a
\* mount whose number is in the block.
LEMMA TickKeeps ==
  ASSUME Inv, TypeOK', Brisk, Tick
  PROVE  Inv'
<1>1. TypeOK /\ \A h \in Hosts : since[h] \in Nat /\ wait[h] \in Nat
  BY Intervals DEF Inv, TypeOK
<1>2. block' = block /\ buf' = buf /\ pc' = pc /\ wait' = wait
      /\ \A h \in Hosts : pc[h] \notin {"start", "kmmpd"}
  BY DEF Tick, Prompt
<1>3. \A h \in Hosts : since'[h] = IF Timed(h) THEN Smaller(since[h] + 1, Longest) ELSE since[h]
  BY DEF Tick
<1>4. \A h \in Hosts : since[h] <= since'[h]
  <2> TAKE h \in Hosts
  <2>1. since[h] \in 0 .. Longest /\ Longest \in Nat
    BY <1>1, Intervals DEF TypeOK
  <2> QED
    BY <1>3, <2>1 DEF Smaller
<1>5. \A h \in Hosts : buf[h].check \in 0 .. Top
  BY <1>1, BlocksAre DEF TypeOK
<1>6. ASSUME NEW g \in Hosts, Live(g)' PROVE Live(g)
  <2>1. Late(g) => Late(g)'
    <3>1. since[g] \in Nat /\ since'[g] \in Nat /\ buf[g].check \in Nat
      BY <1>1, <1>5, Intervals DEF TypeOK
    <3> QED
      BY <1>2, <1>4, <3>1 DEF Late
  <2>2. SameNode(g)' <=> SameNode(g)
    BY <1>2 DEF SameNode, Same
  <2> QED
    BY <1>2, <1>6, <2>1, <2>2 DEF Live
<1>7. OneLives'
  BY <1>6 DEF Inv, OneLives
<1>8. FreeWhenClean'
  BY <1>2, <1>6 DEF Inv, FreeWhenClean
<1>9. FirstIn'
  BY <1>2 DEF Inv, FirstIn, Mounting
<1>10. Waits' /\ Numbers' /\ Apart'
  BY <1>2 DEF Inv, Waits, Numbers, Apart, Kmmpd
<1>11. Looks'
  <2> SUFFICES ASSUME NEW g \in Hosts, NEW k \in Hosts, g # k, Live(g)', pc[k] = "rewait",
                      Same(k)
               PROVE  since'[k] < wait[k] /\ since'[k] <= since'[g]
    BY <1>2 DEF Looks, Looking, Same
  <2>1. Live(g) /\ pc[g] = "sleep"
    BY <1>2, <1>6 DEF Live
  <2>2. since[k] < wait[k] /\ since[k] <= since[g]
    BY <2>1 DEF Inv, Looks, Looking
  <2>3. ~SameNode(g)
    <3>1. buf[k].seq \in Random /\ buf[g].seq \in Seqs /\ block.seq = buf[k].seq
      BY <2>1 DEF Inv, Numbers, Same
    <3> QED
      BY <3>1, MmpAssumption DEF SameNode, Same
  <2>4. ~Late(g)'
    BY <1>2, <2>1, <2>3 DEF Live, SameNode, Same
  <2>5. since'[g] <= buf[g].check
    <3>1. since'[g] \in Nat /\ buf[g].check \in Nat
      BY <1>5, Intervals DEF TypeOK
    <3> QED
      BY <1>2, <2>4, <3>1 DEF Late
  <2>6. since'[k] <= since'[g]
    <3>1. since'[k] = Smaller(since[k] + 1, Longest) /\ since'[g] = Smaller(since[g] + 1, Longest)
      BY <1>3, <2>1 DEF Timed
    <3>2. since[k] \in Nat /\ since[g] \in Nat /\ Longest \in Nat
      BY <1>1, Intervals
    <3> QED
      BY <2>2, <3>1, <3>2 DEF Smaller
  <2>7. buf[g].check < wait[k]
    <3>1. Kmmpd(g)
      BY <2>1 DEF Kmmpd
    <3>2. wait[k] # 0
      BY <1>1, <2>2
    <3> QED
      BY <3>1, <3>2 DEF Brisk
  <2>8. since'[k] \in Nat /\ since'[g] \in Nat /\ wait[k] \in Nat /\ buf[g].check \in Nat
    BY <1>1, <1>5, Intervals DEF TypeOK
  <2> QED
    BY <2>5, <2>6, <2>7, <2>8
<1> QED
  BY <1>7, <1>8, <1>9, <1>10, <1>11 DEF Inv

LEMMA CheckFsKeeps ==
  ASSUME Inv, TypeOK', CheckFs
  PROVE  Inv'
<1>1. \A h \in Hosts : pc'[h] = "off"
  BY DEF CheckFs
<1> QED
  BY <1>1 DEF Inv, OneLives, FreeWhenClean, FirstIn, Waits, Numbers, Apart, Looks, Looking,
              Live, Kmmpd

LEMMA NextInv ==
  ASSUME Alone, ~Faults, Inv, Brisk, [Next]_vars
  PROVE  Inv'
<1>1. TypeOK'
  BY NextTypes DEF Inv
<1>2. CASE Tick
  BY <1>1, <1>2, TickKeeps
<1>3. CASE CheckFs
  BY <1>1, <1>3, CheckFsKeeps
<1>4. ASSUME NEW h \in Hosts, Mount(h) PROVE Inv'
  BY <1>1, <1>4, ReadBlockKeeps, WatchedKeeps, WriteSeqKeeps, RewatchedKeeps,
     StartKmmpdKeeps DEF Mount
<1>5. ASSUME NEW h \in Hosts, MountFails(h) \/ Lost(h) \/ Crash(h) PROVE Inv'
  <2>1. Forgotten(h) /\ block' = block
    BY <1>5 DEF MountFails, Lost, Crash
  <2> QED
    BY <1>1, <2>1, ForgottenKeeps
<1>6. ASSUME NEW h \in Hosts, Count(h) \/ Awake(h) \/ Umount(h) \/ RemountRo(h) PROVE Inv'
  BY <1>1, <1>6, CountKeeps, AwakeKeeps, UmountKeeps, RemountRoKeeps
<1>7. CASE UNCHANGED vars
  BY <1>1, <1>7 DEF vars, Inv, OneLives, FreeWhenClean, FirstIn, Waits, Numbers, Apart,
     Looks, Looking, Live, Late, SameNode, Same, Kmmpd, Mounting
<1> QED
  BY <1>2, <1>3, <1>4, <1>5, <1>6, <1>7 DEF Next

\* What the properties need of the invariant: a host that has the device, and is not
\* live, is late.
LEMMA NotLiveIsLate ==
  ASSUME NEW h \in Hosts, Kmmpd(h), ~Live(h)
  PROVE  Late(h)
  BY DEF Kmmpd, Live

LEMMA InvOnce == Inv => MountedOnce /\ CleanIsFree
<1> SUFFICES ASSUME Inv PROVE MountedOnce /\ CleanIsFree
  OBVIOUS
<1>1. MountedOnce
  BY NotLiveIsLate DEF Inv, OneLives, MountedOnce
<1>2. CleanIsFree
  BY NotLiveIsLate DEF Inv, FreeWhenClean, CleanIsFree
<1> QED
  BY <1>1, <1>2

Own ==
    \A g, h \in Hosts : g # h /\ Kmmpd(g) /\ block.node = g /\ block.seq \in Seqs /\ Kmmpd(h)
                       /\ block' # block /\ block'.node = h /\ block'.seq \in Seqs \cup {Clean}
                       => Late(g)

LEMMA StepOwn ==
  ASSUME ~Faults, Inv, [Next]_vars
  PROVE  Own
<1> SUFFICES ASSUME NEW g \in Hosts, NEW h \in Hosts, g # h, Kmmpd(g), block' # block,
                    block'.node = h, block'.seq \in Seqs \cup {Clean}
             PROVE  Late(g)
  BY DEF Own
<1>1. TypeOK /\ \A k \in Hosts : buf[k] \in Blocks
  BY DEF Inv, TypeOK
<1>2. ASSUME NEW k \in Hosts, Live(k), block'.node = buf[k].node, Kmmpd(k) PROVE Late(g)
  <2>1. k = h
    BY <1>2 DEF Inv, Numbers
  <2>2. ~Live(g)
    BY <1>2, <2>1 DEF Inv, OneLives
  <2> QED
    BY <2>2, NotLiveIsLate
<1>3. ASSUME NEW k \in Hosts, Count(k) PROVE Late(g)
  <2>1. pc[k] = "kmmpd" /\ block' = [buf[k] EXCEPT !.seq = After(buf[k].seq)]
    BY <1>3 DEF Count, Works
  <2>2. block'.node = buf[k].node
    BY <1>1, <2>1 DEF Blocks
  <2>3. Live(k) /\ Kmmpd(k)
    BY <2>1 DEF Live, Kmmpd
  <2> QED
    BY <1>2, <2>2, <2>3
<1>4. ASSUME NEW k \in Hosts, Umount(k) PROVE Late(g)
  <2>1. block' = [IF pc[k] = "sleep" THEN Rechecked(k) ELSE buf[k] EXCEPT !.seq = Clean]
    BY <1>4 DEF Umount, Works
  <2>2. block'.node = buf[k].node
    BY <1>1, <2>1 DEF Blocks, Rechecked
  <2>3. Live(k) /\ Kmmpd(k)
    BY <1>4, KeptIsLive DEF Umount
  <2> QED
    BY <1>2, <2>2, <2>3
<1>5. ~CheckFs
  BY DEF CheckFs, Kmmpd
<1>6. ASSUME NEW k \in Hosts, WriteSeq(k) PROVE FALSE
  <2>1. PICK r \in Random : block' = [buf[k] EXCEPT !.seq = r]
    BY <1>6 DEF WriteSeq
  <2>2. block'.seq = r
    BY <1>1, <2>1 DEF Blocks
  <2> QED
    BY <2>2, MmpAssumption
<1> QED
  BY <1>3, <1>4, <1>5, <1>6 DEF Next, Mount, Tick, ReadBlock, Watched, Rewatched, StartKmmpd,
     MountFails, Awake, Lost, RemountRo, Crash, vars

-----------------------------------------------------------------------------
(***************************************************************************)
(* The theorems.                                                           *)
(***************************************************************************)

\* Two hosts never both have the device in time, for any number of hosts that are
\* late or crash at any moment, as long as none goes by an interval as long as the
\* wait of a mount under way (mmp.c:269): its mounts of a clean device come one at a
\* time, and kmmpd's writes do not fail.
THEOREM NeverMountedTwice ==
  ASSUME Alone, ~Faults
  PROVE  Spec /\ []Brisk => []MountedOnce
<1>1. Inv /\ Brisk /\ [Next]_vars => Inv'
  BY NextInv
<1> QED
  BY <1>1, InitInv, InvOnce, PTL DEF Spec

\* Under the same conditions no mount is let in without a wait while a host that
\* counts in time has the device (mmp.c:306).
THEOREM CleanMeansFree ==
  ASSUME Alone, ~Faults
  PROVE  Spec /\ []Brisk => []CleanIsFree
<1>1. Inv /\ Brisk /\ [Next]_vars => Inv'
  BY NextInv
<1> QED
  BY <1>1, InitInv, InvOnce, PTL DEF Spec

\* Under the same conditions kmmpd never writes over what another host that is in
\* time has counted to (mmp.c:207-226).
THEOREM CountsOnlyItsOwn ==
  ASSUME Alone, ~Faults
  PROVE  Spec /\ []Brisk => CountsItsOwn
<1>1. Inv /\ Brisk /\ [Next]_vars => Inv'
  BY NextInv
<1>2. Inv /\ [Next]_vars => Own
  BY StepOwn
<1>3. Own => [Own]_vars
  OBVIOUS
<1>4. CountsItsOwn <=> [][Own]_vars
  BY DEF CountsItsOwn, Own
<1> QED
  BY <1>1, <1>2, <1>4, InitInv, PTL DEF Spec

-----------------------------------------------------------------------------
(***************************************************************************)
(* Where the hypothesis holds: hosts that sleep no longer than half the    *)
(* shortest wait never ask for an interval as long as that.                *)
(***************************************************************************)
ShortestWait == WaitTime(Larger(Update, MinCheck))
WaitsEnough == \A h \in Hosts : wait[h] # 0 => ShortestWait <= wait[h]

LEMMA WaitsLong == \A c \in 0 .. Top : ShortestWait <= WaitTime(Larger(Larger(Update, MinCheck), c))
<1>1. Update \in Nat /\ MinCheck \in Nat /\ Slack \in Nat /\ Top \in Nat
  BY MmpAssumption, Intervals
<1>2. ASSUME NEW b \in Nat, NEW c \in Nat, b <= c PROVE WaitTime(b) <= WaitTime(c)
  BY <1>1, <1>2 DEF WaitTime, Smaller
<1>3. TAKE c \in 0 .. Top
<1>4. /\ Larger(Update, MinCheck) \in Nat /\ Larger(Larger(Update, MinCheck), c) \in Nat
      /\ Larger(Update, MinCheck) <= Larger(Larger(Update, MinCheck), c)
  BY <1>1 DEF Larger
<1> QED
  BY <1>2, <1>4 DEF ShortestWait

LEMMA NextWaits == TypeOK /\ WaitsEnough /\ [Next]_vars => WaitsEnough'
<1> SUFFICES ASSUME TypeOK, WaitsEnough, [Next]_vars, NEW h \in Hosts, wait'[h] # 0
             PROVE  ShortestWait <= wait'[h]
  BY DEF WaitsEnough
<1>1. wait \in [Hosts -> 0 .. Longest] /\ block.check \in 0 .. Top
  BY BlocksAre DEF TypeOK
<1>2. CASE wait'[h] = wait[h]
  BY <1>2 DEF WaitsEnough
<1>3. ASSUME NEW g \in Hosts, ReadBlock(g), wait'[h] # wait[h] PROVE ShortestWait <= wait'[h]
  <2>1. wait'[h] = WaitTime(Larger(Larger(Update, MinCheck), block.check))
    BY <1>1, <1>3 DEF ReadBlock, Set
  <2> QED
    BY <1>1, <2>1, WaitsLong
<1>4. ASSUME NEW g \in Hosts, Forgotten(g) \/ StartKmmpd(g) PROVE wait'[h] = wait[h]
  BY <1>1, <1>4 DEF Forgotten, StartKmmpd, Set
<1>5. CASE UNCHANGED wait
  BY <1>2, <1>5
<1> QED
  BY <1>2, <1>3, <1>4, <1>5 DEF Next, Mount, Tick, CheckFs, Watched, WriteSeq, Rewatched,
     MountFails, Count, Awake, Lost, Umount, RemountRo, Crash, vars

LEMMA ShortestIs == /\ ShortestWait \in Nat /\ FirstCheck \in Nat /\ MinCheck <= FirstCheck
                    /\ MinCheck \in Nat /\ MaxCheck \in Nat
<1>1. Update \in Nat /\ MinCheck \in Nat /\ MaxCheck \in Nat /\ Slack \in Nat
  BY MmpAssumption
<1> QED
  BY <1>1 DEF ShortestWait, WaitTime, Larger, Smaller, FirstCheck, CheckMult

\* Every kmmpd's turn is over before half the shortest wait is.
Punctual == \A h \in Hosts : pc[h] = "sleep" => CheckMult * since[h] < ShortestWait

\* Every interval anybody goes by, or has read, is shorter than the shortest wait.
Short == block.check < ShortestWait /\ \A h \in Hosts : buf[h].check < ShortestWait

LEMMA NextShort ==
  ASSUME FirstCheck < ShortestWait, TypeOK, Punctual, Short, [Next]_vars
  PROVE  Short'
<1>1. /\ buf \in [Hosts -> Blocks] /\ since \in [Hosts -> 0 .. Longest]
      /\ Longest \in Nat
  BY Intervals DEF TypeOK
<1>2. \A h \in Hosts : NoBlock(h).check < ShortestWait
  <2>1. block.check \in Nat
    BY Intervals, BlocksAre DEF TypeOK
  <2>2. 0 < ShortestWait
    BY <2>1, ShortestIs DEF Short
  <2> QED
    BY <2>2 DEF NoBlock
<1>3. ASSUME NEW h \in Hosts, pc[h] = "sleep" PROVE Rechecked(h).check < ShortestWait
  <2>1. since[h] \in Nat /\ CheckMult * since[h] < ShortestWait
    BY <1>1, <1>3 DEF Punctual
  <2>2. NextCheck(since[h]) < ShortestWait
    BY <2>1, ShortestIs DEF NextCheck, Larger, Smaller, CheckMult
  <2>3. Rechecked(h).check = NextCheck(since[h])
    BY <1>1 DEF Rechecked, Blocks
  <2> QED
    BY <2>2, <2>3
<1>4. ASSUME NEW h \in Hosts, Forgotten(h), block' = block PROVE Short'
  BY <1>1, <1>2, <1>4 DEF Forgotten, Set, Short
<1>5. ASSUME NEW h \in Hosts, Mount(h) PROVE Short'
  <2>1. CASE ReadBlock(h) \/ Watched(h) \/ Rewatched(h)
    BY <1>1, <2>1 DEF ReadBlock, Watched, Rewatched, Set, Short
  <2>2. CASE WriteSeq(h)
    BY <1>1, <2>2 DEF WriteSeq, Set, Short, Blocks
  <2>3. CASE StartKmmpd(h)
    BY <1>1, <2>3 DEF StartKmmpd, Set, Short
  <2> QED
    BY <1>5, <2>1, <2>2, <2>3 DEF Mount
<1>6. ASSUME NEW h \in Hosts, Count(h) PROVE Short'
  <2> DEFINE new == [buf[h] EXCEPT !.seq = After(buf[h].seq)]
  <2>1. new.check = buf[h].check
    BY <1>1 DEF Blocks
  <2>2. block' \in {new, block} /\ (Forgotten(h) \/ buf' = Set(buf, h, new))
    BY <1>6 DEF Count
  <2>3. block'.check < ShortestWait
    BY <2>1, <2>2 DEF Short
  <2> HIDE DEF new
  <2>4. CASE Forgotten(h)
    BY <1>1, <1>2, <2>3, <2>4 DEF Forgotten, Set, Short
  <2>5. CASE buf' = Set(buf, h, new)
    BY <1>1, <2>1, <2>3, <2>5 DEF Set, Short
  <2> QED
    BY <2>2, <2>4, <2>5
<1>7. ASSUME NEW h \in Hosts, Awake(h) PROVE Short'
  BY <1>1, <1>3, <1>7 DEF Awake, Set, Short
<1>8. ASSUME NEW h \in Hosts, Umount(h) PROVE Short'
  <2> DEFINE last == IF pc[h] = "sleep" THEN Rechecked(h) ELSE buf[h]
  <2>1. last.check < ShortestWait /\ [last EXCEPT !.seq = Clean].check = last.check
    BY <1>1, <1>3 DEF Short, Rechecked, Blocks
  <2>2. block' \in {[last EXCEPT !.seq = Clean], block} /\ Forgotten(h)
    BY <1>8 DEF Umount
  <2> HIDE DEF last
  <2>3. block'.check < ShortestWait
    BY <2>1, <2>2 DEF Short
  <2> QED
    BY <1>1, <1>2, <2>2, <2>3 DEF Forgotten, Set, Short
<1>9. CASE CheckFs
  <2>1. block'.check = block.check /\ buf' = buf
    BY <1>9 DEF CheckFs, TypeOK, Blocks
  <2> QED
    BY <2>1 DEF Short
<1>10. CASE UNCHANGED <<block, buf>>
  BY <1>10 DEF Short
<1> QED
  BY <1>4, <1>5, <1>6, <1>7, <1>8, <1>9, <1>10
     DEF Next, Tick, MountFails, Lost, RemountRo, Crash, vars

\* Hosts that are punctual are brisk, with the constants of the code (5 seconds
\* between two writes, a first interval of 10, a shortest wait of 11: mmp.c:161,
\* 232, 313), so that none of the above needs an assumption on intervals then.
THEOREM PunctualIsBrisk ==
  ASSUME FirstCheck < ShortestWait
  PROVE  Spec /\ []Punctual => []Brisk
<1>1. Init => WaitsEnough /\ Short
  <2>1. 0 < ShortestWait
    BY ShortestIs
  <2> QED
    BY <2>1 DEF Init, WaitsEnough, Short, NoBlock
<1>2. TypeOK /\ WaitsEnough /\ Short => Brisk
  <2> SUFFICES ASSUME TypeOK, WaitsEnough, Short, NEW g \in Hosts, NEW h \in Hosts, wait[h] # 0
               PROVE  buf[g].check < wait[h]
    BY DEF Brisk
  <2>1. buf[g].check \in 0 .. Top /\ wait[h] \in Nat /\ Top \in Nat
    BY BlocksAre, Intervals DEF TypeOK
  <2>2. ShortestWait <= wait[h] /\ buf[g].check < ShortestWait
    BY DEF WaitsEnough, Short
  <2> QED
    BY <2>1, <2>2, ShortestIs
<1>3. TypeOK /\ Punctual /\ Short /\ [Next]_vars => Short'
  BY NextShort
<1> QED
  BY <1>1, <1>2, <1>3, InitTypes, NextTypes, NextWaits, PTL DEF Spec

=============================================================================
