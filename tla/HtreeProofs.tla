---------------------------- MODULE HtreeProofs ----------------------------
(***************************************************************************)
(* What is proved of the lock of a directory tree, for any threads, depth  *)
(* and keys: its types, the tree lock's counters, queue and compatibility, *)
(* that a waiting thread is not overtaken, the rings of the child locks,   *)
(* and that these keep the promises of ChildLocks.                         *)
(***************************************************************************)
EXTENDS HtreeRings

-----------------------------------------------------------------------------
(***************************************************************************)
(* The invariant.                                                          *)
(***************************************************************************)
\* The child locks of depth d.
NodesAt(d) == [mode |-> ln_mode[d], key |-> ln_key[d], owners |-> owners[d],
               granted |-> granted_list[d], blocked |-> blocked_list[d], alive |-> alive_list[d]]

CallTypes ==
    /\ pc \in [Threads -> {"run", "wait", "node", "tell", "release"}]
    /\ event \in [Threads -> Deps \cup {None}]
    /\ goal \in [Threads -> {"unlock"} \cup TreeModes]
    /\ lk_mode \in [Threads -> TreeModes \cup {"INVAL"}]
NodeTypes ==
    /\ ln_mode \in [Deps -> [Threads -> NodeModes]]
    /\ ln_key \in [Deps -> [Threads -> Keys \cup {None}]]
    /\ owners \in [Deps -> SUBSET Threads]
    /\ granted_list \in [Deps -> [Threads -> Threads]]
    /\ blocked_list \in [Deps -> [Threads -> Threads]]
    /\ alive_list \in [Deps -> [Threads -> Threads]]
    /\ told \in [Deps -> [Threads -> BOOLEAN]]
Types == CallTypes /\ NodeTypes

\* Where a thread is: on one blocked list, and only in "node"; without the tree it
\* has no keys; and an event is for a key that it waits for or has just got.
PlaceOk(t) ==
    /\ \A d \in Deps : IsBlocked(t, d) => pc[t] = "node" /\ \A e \in Deps : IsBlocked(t, e) => e = d
    /\ lk_mode[t] = "INVAL" => pc[t] = "run"
    /\ lk_mode[t] = "INVAL" \/ pc[t] = "wait" => \A d \in Deps : ln_mode[d][t] = "INVAL"
    /\ event[t] # None =>
         /\ pc[t] \in {"node", "tell"} /\ event[t] \in EventDeps
         /\ ln_mode[event[t]][t] = "PW"
         /\ pc[t] = "node" => IsBlocked(t, event[t])
    /\ pc[t] = "tell" => event[t] # None

NodesInv == Types /\ (\A d \in Deps : DepthOk(NodesAt(d))) /\ (\A t \in Threads : PlaceOk(t))

\* The tree lock as values: the waiting threads W, the holders H, the modes l, the
\* counters n and b and the queue q.
OfMode(S, l, m) == {t \in S : l[t] = m}
TreeOk(W, H, l, n, b, q) ==
    /\ W \in SUBSET Threads /\ H \in SUBSET Threads /\ W \cap H = {}
    /\ \A t \in W \cup H : l[t] \in Modes
    /\ n \in [Modes -> Nat] /\ \A m \in Modes : n[m] = Cardinality(OfMode(H, l, m))
    /\ b \in [Modes -> Nat] /\ \A m \in Modes : b[m] = Cardinality(OfMode(W, l, m))
    /\ q \in Seq(Threads) /\ (\A i, j \in DOMAIN q : q[i] = q[j] => i = j) /\ W = {q[i] : i \in DOMAIN q}
    /\ \A t, u \in H : t # u => l[u] \in htree_lock_compat[l[t]]
    /\ q # <<>> => ~(InUse(n) \subseteq htree_lock_compat[l[q[1]]])

WaitSet == {t \in Threads : pc[t] = "wait"}
HoldSet == {t \in Threads : HoldsTree(t)}
TreeInv == TreeOk(WaitSet, HoldSet, lk_mode, lh_ngranted, lh_nblocked, lh_blocked_list)

LockInv == NodesInv /\ TreeInv

-----------------------------------------------------------------------------
(***************************************************************************)
(* The steps on the child locks.                                           *)
(***************************************************************************)
LEMMA AtDepth ==
  ASSUME NodesInv, NEW d \in Deps
  PROVE  /\ DepthOk(NodesAt(d)) /\ Shape(NodesAt(d)) /\ d \in DOMAIN ln_mode
         /\ \A t \in Threads : IsBlocked(t, d) <=> Waits(NodesAt(d), t)
         /\ \A t \in Threads : IsGranted(t, d) <=> Holds(NodesAt(d), t)
BY DEF NodesInv, Types, CallTypes, NodeTypes, DepthOk, IsBlocked, IsGranted, NodesAt, Waits, Holds, Empty

\* The owner that a search for a key finds.
LEMMA SameKeyIs ==
  ASSUME NodesInv, NEW d \in Deps, NEW k \in Keys, NEW t, NEW o \in SameKey(t, d, k)
  PROVE  o \in Threads /\ o \in owners[d] /\ ln_key[d][o] = k /\ OwnerOk(NodesAt(d), k, o)
<1>1. o \in owners[d] /\ ln_key[d][o] = k
  BY DEF SameKey
<1>2. DepthOk(NodesAt(d)) /\ o \in NodesAt(d).owners /\ NodesAt(d).key[o] = k
  BY <1>1, AtDepth DEF NodesAt
<1>3. OwnerOk(NodesAt(d), k, o)
  BY <1>2, OwnersKey
<1> QED
  BY <1>1, <1>2, <1>3 DEF DepthOk, Shape

\* A step leaves the other depths as they are.
OthersKept(d) ==
    /\ ln_mode' = [ln_mode EXCEPT ![d] = ln_mode'[d]] /\ ln_key' = [ln_key EXCEPT ![d] = ln_key'[d]]
    /\ owners' = [owners EXCEPT ![d] = owners'[d]]
    /\ granted_list' = [granted_list EXCEPT ![d] = granted_list'[d]]
    /\ blocked_list' = [blocked_list EXCEPT ![d] = blocked_list'[d]]
    /\ alive_list' = [alive_list EXCEPT ![d] = alive_list'[d]]
    /\ told' = [told EXCEPT ![d] = told'[d]]

LEMMA NewKeyStep ==
  ASSUME NodesInv, NEW t \in Threads, NEW d \in Deps, NEW k \in Keys, NEW m \in {"PR", "PW"},
         ln_mode[d][t] = "INVAL", NewKey(t, d, k, m)
  PROVE  /\ OthersKept(d) /\ DepthOk(NodesAt(d)') /\ On(NodesAt(d), k) = {}
         /\ \A u \in Threads : IsBlocked(u, d)' <=> IsBlocked(u, d)
<1> DEFINE x == NodesAt(d)
           y == NodesAt(d)'
<1>1. DepthOk(x) /\ x.mode[t] = "INVAL" /\ \A o \in x.owners : x.key[o] # k
  BY AtDepth DEF NodesAt, NewKey, SameKey
<1>2. /\ y.mode = [x.mode EXCEPT ![t] = m] /\ y.key = [x.key EXCEPT ![t] = k]
      /\ y.owners = x.owners \cup {t}
      /\ y.granted = x.granted /\ y.blocked = x.blocked /\ y.alive = x.alive
  BY DEF NodesAt, NewKey, SetDep, NodesInv, Types, CallTypes, NodeTypes
<1>3. OthersKept(d)
  BY DEF NewKey, SetDep, OthersKept, NodesInv, Types, CallTypes, NodeTypes
<1>4. \A u \in Threads : (IsBlocked(u, d)' <=> Waits(y, u)) /\ (IsBlocked(u, d) <=> Waits(x, u))
  BY DEF IsBlocked, Waits, NodesAt, Empty
<1> HIDE DEF x, y
<1>5. DepthOk(y) /\ (\A u \in Threads : Waits(y, u) <=> Waits(x, u)) /\ On(x, k) = {}
  BY <1>1, <1>2, FirstKeeps
<1> QED
  BY <1>3, <1>4, <1>5 DEF x, y

LEMMA JoinStep ==
  ASSUME NodesInv, NEW t \in Threads, NEW d \in Deps, NEW k \in Keys, NEW m \in {"PR", "PW"},
         NEW ev \in BOOLEAN, ln_mode[d][t] = "INVAL", Join(t, d, k, m, ev)
  PROVE  /\ OthersKept(d) /\ DepthOk(NodesAt(d)')
         /\ \A u \in Threads : IsBlocked(u, d)' <=> IsBlocked(u, d)
         /\ \E ring : /\ told'[d] = [u \in Threads |->
                                       told[d][u] \/ (Tells(d, m, ev) /\ u \in Listeners(d, ring, t))]
                      /\ Listeners(d, ring, t) = {u \in Threads : ln_mode[d][u] = "NL" /\ ln_key[d][u] = k}
<1> DEFINE x == NodesAt(d)
           y == NodesAt(d)'
           ring(o) == ListAdd(alive_list[d], t, o)
<1>1. PICK o \in SameKey(t, d, k) :
        /\ ln_mode[d][o] = "NL" \/ "PW" \notin {ln_mode[d][o], m}
        /\ SetDep(ln_mode, d, [ln_mode[d] EXCEPT ![t] = m])
        /\ SetDep(ln_key, d, [ln_key[d] EXCEPT ![t] = k])
        /\ IF ln_mode[d][o] = "NL"
           THEN SetDep(owners, d, (owners[d] \ {o}) \cup {t}) /\ UNCHANGED granted_list
           ELSE SetDep(granted_list, d, ListAdd(granted_list[d], t, o)) /\ UNCHANGED owners
        /\ SetDep(alive_list, d, ring(o))
        /\ SetDep(told, d, [u \in Threads |->
              told[d][u] \/ (Tells(d, m, ev) /\ u \in Listeners(d, ring(o), t))])
        /\ UNCHANGED <<pc, event, blocked_list>>
  BY DEF Join
<1>2. DepthOk(x) /\ x.mode[t] = "INVAL" /\ o \in Threads /\ OwnerOk(x, k, o) /\ x.mode[o] # "INVAL"
  <2>1. DepthOk(x) /\ OwnerOk(x, k, o) /\ o \in Threads
    BY AtDepth, SameKeyIs
  <2> QED
    BY <2>1 DEF NodesAt, OwnerOk, On
<1>3. /\ y.mode = [x.mode EXCEPT ![t] = m] /\ y.key = [x.key EXCEPT ![t] = k]
      /\ y.alive = ListAdd(x.alive, t, o) /\ y.blocked = x.blocked
      /\ x.mode[o] = "NL" => y.owners = (x.owners \ {o}) \cup {t} /\ y.granted = x.granted
      /\ x.mode[o] # "NL" => y.owners = x.owners /\ y.granted = ListAdd(x.granted, t, o)
      /\ x.mode[o] # "NL" => x.mode[o] = "PR" /\ m = "PR"
  <2>1. x.mode[o] # "NL" => x.mode[o] \in {"PR", "PW"}
    BY <1>2 DEF DepthOk, Shape, NodeModes
  <2> QED
    BY <1>1, <2>1 DEF NodesAt, SetDep, NodesInv, Types, CallTypes, NodeTypes
<1>4. OthersKept(d)
  BY <1>1 DEF SetDep, OthersKept, NodesInv, Types, CallTypes, NodeTypes
<1>5. \A u \in Threads : (IsBlocked(u, d)' <=> Waits(y, u)) /\ (IsBlocked(u, d) <=> Waits(x, u))
  BY DEF IsBlocked, Waits, NodesAt, Empty
<1>6. y.alive = ring(o) /\ x.mode = ln_mode[d] /\ x.key = ln_key[d]
  BY <1>3 DEF NodesAt
<1> HIDE DEF x, y
<1>7. /\ DepthOk(y) /\ (\A u \in Threads : Waits(y, u) <=> Waits(x, u))
      /\ Cycle(y.alive, On(x, k) \cup {t}) /\ t \notin On(x, k)
  <2>1. CASE x.mode[o] = "NL"
    BY <1>2, <1>3, <2>1, TakeOverKeeps
  <2>2. CASE x.mode[o] # "NL"
    BY <1>2, <1>3, <2>2, JoinKeeps
  <2> QED
    BY <2>1, <2>2
<1>8. Listeners(d, ring(o), t) = {u \in Threads : ln_mode[d][u] = "NL" /\ ln_key[d][u] = k}
  <2>1. On(x, k) \cup {t} \in SUBSET DOMAIN ring(o)
    BY <1>6, <1>7 DEF DepthOk, Shape, IsRings, On
  <2>2. RingOf(ring(o), t) = On(x, k) \cup {t}
    BY <1>6, <1>7, <2>1, CycleIsRing
  <2> HIDE DEF ring
  <2> QED
    BY <1>6, <1>7, <2>2 DEF Listeners, On
<1>9. told'[d] = [u \in Threads |->
            told[d][u] \/ (Tells(d, m, ev) /\ u \in Listeners(d, ring(o), t))]
  BY <1>1 DEF SetDep, NodesInv, Types, CallTypes, NodeTypes
<1> HIDE DEF ring
<1> QED
  BY <1>4, <1>5, <1>7, <1>8, <1>9 DEF x, y

LEMMA EnqueueStep ==
  ASSUME NodesInv, NEW t \in Threads, NEW d \in Deps, NEW k \in Keys, NEW m \in {"PR", "PW"},
         NEW ev \in BOOLEAN, ln_mode[d][t] = "INVAL", Enqueue(t, d, k, m, ev)
  PROVE  /\ OthersKept(d) /\ DepthOk(NodesAt(d)')
         /\ \A u \in Threads : IsBlocked(u, d)' <=> IsBlocked(u, d) \/ u = t
         /\ ln_mode' = [ln_mode EXCEPT ![d] = [ln_mode[d] EXCEPT ![t] = m]]
         /\ ln_key' = [ln_key EXCEPT ![d] = [ln_key[d] EXCEPT ![t] = k]]
         /\ told' = told /\ pc' = [pc EXCEPT ![t] = "node"]
         /\ event' = [event EXCEPT ![t] = IF Tells(d, m, ev) THEN d ELSE None]
<1> DEFINE x == NodesAt(d)
           y == NodesAt(d)'
<1>1. PICK o \in SameKey(t, d, k) :
        /\ SetDep(ln_mode, d, [ln_mode[d] EXCEPT ![t] = m])
        /\ SetDep(ln_key, d, [ln_key[d] EXCEPT ![t] = k])
        /\ SetDep(blocked_list, d, ListAddTail(blocked_list[d], t, o))
        /\ SetDep(alive_list, d, ListAdd(alive_list[d], t, o))
        /\ pc' = [pc EXCEPT ![t] = "node"]
        /\ event' = [event EXCEPT ![t] = IF Tells(d, m, ev) THEN d ELSE None]
        /\ UNCHANGED <<owners, granted_list, told>>
  BY DEF Enqueue
<1>2. DepthOk(x) /\ x.mode[t] = "INVAL" /\ o \in Threads /\ OwnerOk(x, k, o)
  <2>1. DepthOk(x) /\ OwnerOk(x, k, o) /\ o \in Threads
    BY AtDepth, SameKeyIs
  <2> QED
    BY <2>1 DEF NodesAt
<1>3. x.mode[o] # "NL" /\ (x.mode[o] = "PW" \/ m = "PW")
  <2>1. PICK p \in SameKey(t, d, k) : ln_mode[d][p] # "NL" /\ "PW" \in {ln_mode[d][p], m}
    BY DEF Enqueue, Conflicts
  <2>2. p \in x.owners /\ x.key[p] = k
    BY DEF SameKey, NodesAt
  <2>3. p = o
    BY <1>2, <2>2 DEF OwnerOk
  <2> QED
    BY <2>1, <2>3 DEF NodesAt
<1>4. Enqueued(x, y, t, k, o, m)
  BY <1>1 DEF Enqueued, NodesAt, SetDep, NodesInv, Types, CallTypes, NodeTypes
<1>5. OthersKept(d)
  BY <1>1 DEF SetDep, OthersKept, NodesInv, Types, CallTypes, NodeTypes
<1>6. \A u \in Threads : (IsBlocked(u, d)' <=> Waits(y, u)) /\ (IsBlocked(u, d) <=> Waits(x, u))
  BY DEF IsBlocked, Waits, NodesAt, Empty
<1> HIDE DEF x, y
<1>7. DepthOk(y) /\ \A u \in Threads : Waits(y, u) <=> Waits(x, u) \/ u = t
  <2>1. t \in Threads /\ k \in Keys /\ m \in {"PR", "PW"}
    OBVIOUS
  <2> QED
    BY ONLY <1>2, <1>3, <1>4, <2>1, EnqueueKeeps
<1> QED
  BY <1>1, <1>5, <1>6, <1>7 DEF x, y, SetDep

LEMMA StopStep ==
  ASSUME NodesInv, NEW t \in Threads, NEW d \in Deps, StopListen(t, d)
  PROVE  /\ OthersKept(d) /\ DepthOk(NodesAt(d)')
         /\ \A u \in Threads : IsBlocked(u, d)' <=> IsBlocked(u, d)
<1> DEFINE x == NodesAt(d)
           y == NodesAt(d)'
<1>1. DepthOk(x) /\ x.mode[t] = "NL"
  BY AtDepth DEF NodesAt, StopListen, IsListening
<1>2. /\ y.mode = [x.mode EXCEPT ![t] = "INVAL"] /\ y.key = [x.key EXCEPT ![t] = None]
      /\ y.granted = x.granted /\ y.blocked = x.blocked /\ y.alive = ListDel(x.alive, t)
      /\ t \notin x.owners => y.owners = x.owners
      /\ t \in x.owners => y.owners = (x.owners \cup {x.alive[t]}) \ {t}
  BY DEF NodesAt, StopListen, SetDep, NodesInv, Types, CallTypes, NodeTypes
<1>3. OthersKept(d)
  BY DEF StopListen, SetDep, OthersKept, NodesInv, Types, CallTypes, NodeTypes
<1>4. \A u \in Threads : (IsBlocked(u, d)' <=> Waits(y, u)) /\ (IsBlocked(u, d) <=> Waits(x, u))
  BY DEF IsBlocked, Waits, NodesAt, Empty
<1> HIDE DEF x, y
<1>5. DepthOk(y) /\ \A u \in Threads : Waits(y, u) <=> Waits(x, u)
  <2>1. CASE t \notin x.owners
    BY <1>1, <1>2, <2>1, QuietKeeps
  <2>2. CASE t \in x.owners
    <3>1. PICK k \in Keys : OwnerOk(x, k, t)
      BY <1>1, <2>2, OwnersKey
    <3>2. \A u \in On(x, k) \ {t} : x.mode[u] = "NL"
      BY <1>1, <3>1, OwnerFacts
    <3>3. x.blocked[t] = t /\ x.granted[t] = t
      BY <1>1 DEF DepthOk, NodeOk, Holds
    <3> QED
      BY <1>1, <1>2, <2>2, <3>1, <3>2, <3>3, GoneKeeps
  <2> QED
    BY <2>1, <2>2
<1> QED
  BY <1>3, <1>4, <1>5 DEF x, y

\* What a thread that leaves a key does to the rest of the depth.
ModeOf(d, listen) == IF listen /\ d \in EventDeps THEN "NL" ELSE "INVAL"

\* ... it wakes threads that wait for its key, and these wait no more.
WakesAt(t, d) == \E woken \in SUBSET Threads :
    /\ pc' = Wake(woken)
    /\ \A u \in woken : IsBlocked(u, d) /\ ln_key[d][u] = ln_key[d][t]
    /\ \A u \in Threads : IsBlocked(u, d)' <=> IsBlocked(u, d) /\ u \notin woken
KeyLeft(t, d, m) == SetDep(ln_key, d, [ln_key[d] EXCEPT ![t] = IF m = "NL" THEN @ ELSE None])

LEMMA LeaveAloneStep ==
  ASSUME NodesInv, NEW t \in Threads, NEW d \in Deps, NEW m \in {"NL", "INVAL"}, IsGranted(t, d),
         LeaveAlone(t, d, m), KeyLeft(t, d, m)
  PROVE  DepthOk(NodesAt(d)') /\ WakesAt(t, d)
<1> DEFINE x == NodesAt(d)
           y == NodesAt(d)'
<1>1. DepthOk(x) /\ Shape(x) /\ Holds(x, t)
  BY AtDepth
<1>2. x.granted[t] = t /\ x.blocked[t] = t
  <2>1. x.granted[t] \in Threads /\ x.blocked[t] \in Threads
    BY <1>1 DEF Shape, IsRings
  <2>2. Heir(t, d) = None /\ None \notin Threads
    BY HtreeAssumption DEF LeaveAlone
  <2> QED
    BY <2>1, <2>2 DEF Heir, Empty, NodesAt
<1>3. /\ y.mode = [x.mode EXCEPT ![t] = m] /\ y.key = [x.key EXCEPT ![t] = IF m = "NL" THEN @ ELSE None]
      /\ y.granted = x.granted /\ y.blocked = x.blocked
      /\ m = "NL" => y.owners = x.owners /\ y.alive = x.alive
      /\ m # "NL" /\ x.alive[t] = t => y.owners = x.owners \ {t} /\ y.alive = x.alive
      /\ m # "NL" /\ x.alive[t] # t =>
           y.owners = (x.owners \ {t}) \cup {x.alive[t]} /\ y.alive = ListDel(x.alive, t)
  BY DEF LeaveAlone, KeyLeft, SetDep, NodesAt, NodesInv, Types, CallTypes, NodeTypes, Empty
<1>4. \A u \in Threads : (IsBlocked(u, d)' <=> Waits(y, u)) /\ (IsBlocked(u, d) <=> Waits(x, u))
  BY DEF IsBlocked, Waits, NodesAt, Empty
<1> HIDE DEF x, y
<1>5. DepthOk(y) /\ \A u \in Threads : Waits(y, u) <=> Waits(x, u)
  <2>1. CASE m = "NL"
    <3>1. y.key = x.key
      BY <1>1, <1>3, <2>1 DEF Shape
    <3> QED
      BY <1>1, <1>2, <1>3, <2>1, <3>1, ListenKeeps
  <2>2. CASE m = "INVAL"
    <3> DEFINE k == x.key[t]
    <3>1. k \in Keys /\ OwnerOk(x, k, t) /\ \A u \in On(x, k) \ {t} : x.mode[u] = "NL"
      BY <1>1, <1>2, AloneIs
    <3>2. /\ y.mode = [x.mode EXCEPT ![t] = "INVAL"] /\ y.key = [x.key EXCEPT ![t] = None]
          /\ y.owners = (x.owners \cup {x.alive[t]}) \ {t} /\ y.alive = ListDel(x.alive, t)
      <4>1. CASE x.alive[t] = t
        <5>1. ListDel(x.alive, t) = x.alive
          BY <1>1, <4>1, DelLoose DEF Shape
        <5> QED
          BY <1>3, <2>2, <4>1, <5>1
      <4>2. CASE x.alive[t] # t
        BY <1>3, <2>2, <4>2
      <4> QED
        BY <4>1, <4>2
    <3> HIDE DEF k
    <3> QED
      BY <1>1, <1>2, <1>3, <3>1, <3>2, GoneKeeps
  <2> QED
    BY <2>1, <2>2
<1>6. pc' = Wake({}) /\ {} \in SUBSET Threads
  BY DEF LeaveAlone, Wake, NodesInv, Types, CallTypes
<1> QED
  BY <1>4, <1>5, <1>6 DEF x, y, WakesAt

LEMMA HandOverStep ==
  ASSUME NodesInv, NEW t \in Threads, NEW d \in Deps, NEW m \in {"NL", "INVAL"}, IsGranted(t, d),
         HandOver(t, d, m), KeyLeft(t, d, m)
  PROVE  DepthOk(NodesAt(d)') /\ WakesAt(t, d)
<1> DEFINE x == NodesAt(d)
           y == NodesAt(d)'
           h == Heir(t, d)
           passed == IF x.blocked[t] = t THEN x.blocked
                     ELSE ListDel(IF x.blocked[h] = h THEN ListAdd(x.blocked, h, t) ELSE x.blocked, t)
           R == Readers(passed, d, h)
           P == {u \in Threads \ {h} : x.mode[u] # "PW"}
           heirs == R \cup (IF x.granted[t] = t THEN {h} ELSE {})
<1>1. DepthOk(x) /\ Shape(x) /\ Holds(x, t)
  BY AtDepth
<1>2. /\ x.granted[t] # t => h = x.granted[t]
      /\ x.granted[t] = t => x.blocked[t] # t /\ h = x.blocked[t]
  BY DEF HandOver, Heir, Empty, NodesAt
<1>3. /\ y.blocked = DelAll(passed, h, R) /\ y.granted = AddAll(ListDel(x.granted, t), passed, h, R)
      /\ y.owners = IF t \in x.owners THEN (x.owners \ {t}) \cup {h} ELSE x.owners
      /\ Leaves(x, y, t, m)
  BY DEF HandOver, KeyLeft, SetDep, NodesAt, NodesInv, Types, CallTypes, NodeTypes, Empty, Leaves
<1>4. pc' = Wake(heirs)
  BY DEF HandOver, Empty, NodesAt
<1>5. R = IF x.mode[h] = "PW" THEN {} ELSE Walk(passed, h, P)
  BY DEF Readers, NodesAt
<1>6. \A u \in Threads : (IsBlocked(u, d)' <=> Waits(y, u)) /\ (IsBlocked(u, d) <=> Waits(x, u))
  BY DEF IsBlocked, Waits, NodesAt, Empty
<1>7. x.key = ln_key[d]
  BY DEF NodesAt
<1> HIDE DEF x, y, h, R, passed, P
<1>8. CASE x.granted[t] # t
  <2> DEFINE z == [y EXCEPT !.blocked = passed, !.granted = ListDel(x.granted, t)]
  <2>1. /\ z.blocked = passed /\ z.granted = ListDel(x.granted, t)
        /\ z.owners = y.owners /\ Leaves(x, z, t, m)
    BY <1>3 DEF y, NodesAt, Leaves
  <2> HIDE DEF z
  <2>2. passed[h] = h \/ x.mode[passed[h]] = "PW"
    <3>1. CASE t \notin x.owners
      <4>1. passed = x.blocked
        BY <1>1, <3>1 DEF passed, Holds, Waits
      <4> QED
        BY <1>1, <1>2, <1>3, <1>8, <2>1, <3>1, <4>1, PartKeeps
    <3>2. CASE t \in x.owners
      <4>1. x.blocked[h] = h
        <5>1. PICK k \in Keys : OwnerOk(x, k, t) /\ h \in Holders(x, k) \ {t}
          BY <1>1, <1>2, <1>8, <3>2, AmongIs, OwnersKey
        <5> QED
          BY <1>1, <5>1, OwnerFacts DEF Holders, Holds, Waits
      <4>2. passed = IF x.blocked[t] = t THEN x.blocked ELSE ListDel(ListAdd(x.blocked, h, t), t)
        BY <4>1 DEF passed
      <4> QED
        BY <1>1, <1>2, <1>3, <1>8, <2>1, <3>2, <4>2, PassKeeps
    <3> QED
      BY <3>1, <3>2
  <2>3. R = {}
    <3>1. passed[h] \notin P
      BY <2>2 DEF P
    <3> QED
      BY <1>5, <3>1, WalkNone
  <2>4. y.blocked = passed /\ y.granted = ListDel(x.granted, t)
    BY <1>3, <2>3 DEF DelAll, AddAll
  <2>5. DepthOk(y) /\ \A u \in Threads : Waits(y, u) <=> Waits(x, u)
    <3>1. CASE t \notin x.owners
      <4>1. passed = x.blocked
        BY <1>1, <3>1 DEF passed, Holds, Waits
      <4> QED
        BY <1>1, <1>2, <1>3, <1>8, <2>4, <3>1, <4>1, PartKeeps
    <3>2. CASE t \in x.owners
      <4>1. x.blocked[h] = h
        <5>1. PICK k \in Keys : OwnerOk(x, k, t) /\ h \in Holders(x, k) \ {t}
          BY <1>1, <1>2, <1>8, <3>2, AmongIs, OwnersKey
        <5> QED
          BY <1>1, <5>1, OwnerFacts DEF Holders, Holds, Waits
      <4>2. passed = IF x.blocked[t] = t THEN x.blocked ELSE ListDel(ListAdd(x.blocked, h, t), t)
        BY <4>1 DEF passed
      <4> QED
        BY <1>1, <1>2, <1>3, <1>8, <2>4, <3>2, <4>2, PassKeeps
    <3> QED
      BY <3>1, <3>2
  <2>6. heirs = {} /\ heirs \in SUBSET Threads
    BY <1>8, <2>3
  <2> QED
    BY <1>4, <1>6, <2>5, <2>6 DEF y, WakesAt
<1>9. CASE x.granted[t] = t
  <2>1. x.blocked[h] # h
    BY <1>1, <1>2, <1>9 DEF Shape, IsRings, IsInjective
  <2>2. passed = ListDel(x.blocked, t)
    BY <1>2, <1>9, <2>1 DEF passed
  <2>3. heirs = {h} \cup R
    BY <1>9
  <2> HIDE DEF heirs
  <2>4. DepthOk(y) /\ Wakes(x, y, t, heirs)
    <3>1. t \in x.owners
      BY <1>1, <1>9, AloneIs DEF OwnerOk
    <3>2. Given(x, y, t, m, h, passed, R)
      BY <1>2, <1>3, <1>5, <1>9, <2>2, <3>1 DEF Given, P
    <3>3. /\ DepthOk(x) /\ t \in Threads /\ Holds(x, t) /\ x.granted[t] = t /\ x.blocked[t] # t
          /\ m \in {"NL", "INVAL"}
      BY <1>1, <1>2, <1>9
    <3> QED
      BY ONLY <2>3, <3>2, <3>3, GiveKeeps
  <2>5. heirs \in SUBSET Threads /\ \A u \in heirs : Waits(x, u) /\ x.key[u] = x.key[t]
    BY <2>4 DEF Waiters, On, Wakes
  <2> QED
    BY <1>4, <1>6, <1>7, <2>4, <2>5 DEF y, Wakes, WakesAt
<1> QED
  BY <1>8, <1>9

Left(t, d, m) ==
    /\ ln_mode'[d] = [ln_mode[d] EXCEPT ![t] = m]
    /\ ln_key'[d] = [ln_key[d] EXCEPT ![t] = IF m = "NL" THEN @ ELSE None]
    /\ told'[d] = [told[d] EXCEPT ![t] = FALSE]

LEMMA UnlockStep ==
  ASSUME NodesInv, NEW t \in Threads, NEW d \in Deps, NEW listen \in BOOLEAN, NodeUnlock(t, d, listen)
  PROVE  /\ OthersKept(d) /\ DepthOk(NodesAt(d)')
         /\ Left(t, d, ModeOf(d, listen)) /\ WakesAt(t, d)
<1> DEFINE m == ModeOf(d, listen)
<1>1. /\ IsGranted(t, d) /\ m \in {"NL", "INVAL"}
      /\ LeaveAlone(t, d, m) \/ HandOver(t, d, m)
      /\ KeyLeft(t, d, m)
      /\ SetDep(told, d, [told[d] EXCEPT ![t] = FALSE])
  BY DEF NodeUnlock, ModeOf, KeyLeft
<1>2. SetDep(ln_mode, d, [ln_mode[d] EXCEPT ![t] = m])
  BY <1>1 DEF LeaveAlone, HandOver
<1> HIDE DEF m
<1>3. OthersKept(d)
  <2>1. CASE LeaveAlone(t, d, m)
    BY <1>1, <2>1 DEF LeaveAlone, KeyLeft, SetDep, OthersKept, NodesInv, Types, CallTypes, NodeTypes
  <2>2. CASE HandOver(t, d, m)
    BY <1>1, <2>2 DEF HandOver, KeyLeft, SetDep, OthersKept, NodesInv, Types, CallTypes, NodeTypes
  <2> QED
    BY <1>1, <2>1, <2>2
<1>4. /\ ln_mode'[d] = [ln_mode[d] EXCEPT ![t] = m]
      /\ ln_key'[d] = [ln_key[d] EXCEPT ![t] = IF m = "NL" THEN @ ELSE None]
      /\ told'[d] = [told[d] EXCEPT ![t] = FALSE]
  BY <1>1, <1>2 DEF KeyLeft, SetDep, NodesInv, Types, CallTypes, NodeTypes
<1>5. DepthOk(NodesAt(d)') /\ WakesAt(t, d)
  <2>1. CASE LeaveAlone(t, d, m)
    BY <1>1, <2>1, LeaveAloneStep
  <2>2. CASE HandOver(t, d, m)
    BY <1>1, <2>2, HandOverStep
  <2> QED
    BY <1>1, <2>1, <2>2
<1> QED
  BY <1>3, <1>4, <1>5 DEF m, Left

-----------------------------------------------------------------------------
(***************************************************************************)
(* The invariant of the child locks is kept.                               *)
(***************************************************************************)
LEMMA DepthsKept ==
  ASSUME NodesInv, NEW d \in Deps, OthersKept(d), DepthOk(NodesAt(d)'), told'[d] \in [Threads -> BOOLEAN]
  PROVE  /\ NodeTypes' /\ \A e \in Deps : DepthOk(NodesAt(e)')
         /\ \A e \in Deps \ {d} : /\ ln_mode'[e] = ln_mode[e]
                                  /\ \A u \in Threads : IsBlocked(u, e)' <=> IsBlocked(u, e)
<1>1. \A e \in Deps \ {d} : NodesAt(e)' = NodesAt(e) /\ told'[e] = told[e]
  BY DEF OthersKept, NodesAt, NodesInv, Types, NodeTypes
<1>2. /\ ln_mode'[d] \in [Threads -> NodeModes] /\ ln_key'[d] \in [Threads -> Keys \cup {None}]
      /\ owners'[d] \in SUBSET Threads /\ granted_list'[d] \in [Threads -> Threads]
      /\ blocked_list'[d] \in [Threads -> Threads] /\ alive_list'[d] \in [Threads -> Threads]
  BY DEF DepthOk, Shape, NodesAt, IsRings
<1>3. NodeTypes'
  BY <1>2 DEF OthersKept, NodesInv, Types, NodeTypes
<1>4. \A e \in Deps : DepthOk(NodesAt(e)')
  BY <1>1 DEF NodesInv
<1>5. \A e \in Deps \ {d} : ln_mode'[e] = ln_mode[e] /\ \A u \in Threads : IsBlocked(u, e)' <=> IsBlocked(u, e)
  BY <1>1 DEF NodesAt, IsBlocked, Empty
<1> QED
  BY <1>3, <1>4, <1>5

\* Who does not take part in a step stays where it is, or is woken.
LEMMA PlaceKept ==
  ASSUME NEW t \in Threads, PlaceOk(t), lk_mode'[t] = lk_mode[t], event'[t] = event[t], pc'[t] = pc[t],
         \A d \in Deps : ln_mode'[d][t] = ln_mode[d][t] /\ (IsBlocked(t, d)' <=> IsBlocked(t, d)),
         EventDeps \subseteq Deps
  PROVE  PlaceOk(t)'
BY DEF PlaceOk

LEMMA PlaceWoken ==
  ASSUME NEW t \in Threads, PlaceOk(t), lk_mode'[t] = lk_mode[t], event'[t] = event[t],
         pc'[t] = IF event[t] = None THEN "run" ELSE "tell",
         NEW d \in Deps, IsBlocked(t, d), ~IsBlocked(t, d)',
         \A e \in Deps : ln_mode'[e][t] = ln_mode[e][t],
         \A e \in Deps \ {d} : IsBlocked(t, e)' <=> IsBlocked(t, e), EventDeps \subseteq Deps
  PROVE  PlaceOk(t)'
<1>1. pc[t] = "node" /\ \A e \in Deps : IsBlocked(t, e) => e = d
  BY DEF PlaceOk
<1>2. \A e \in Deps : ~IsBlocked(t, e)'
  BY <1>1
<1> QED
  BY <1>1, <1>2 DEF PlaceOk

LEMMA NodesInit == Init => NodesInv
<1> SUFFICES ASSUME Init PROVE NodesInv
  OBVIOUS
<1>1. Types
  BY HtreeAssumption DEF Init, Types, CallTypes, NodeTypes, NodeModes, Loose
<1>2. ASSUME NEW d \in Deps PROVE DepthOk(NodesAt(d))
  <2>1. IsRings(Loose(Threads), Threads) /\ \A t \in Threads : Loose(Threads)[t] = t
    BY LooseRings
  <2>2. Shape(NodesAt(d))
    BY <2>1 DEF Init, Shape, NodesAt, NodeModes
  <2>3. \A t \in Threads : NodeOk(NodesAt(d), t)
    BY <2>1 DEF Init, NodeOk, NodesAt, Holds
  <2>4. \A k \in Keys : KeyOk(NodesAt(d), k)
    BY DEF Init, KeyOk, On, NodesAt
  <2> QED
    BY <2>2, <2>3, <2>4 DEF DepthOk
<1>3. ASSUME NEW t \in Threads PROVE PlaceOk(t)
  BY DEF Init, PlaceOk, IsBlocked, Empty, Loose
<1> QED
  BY <1>1, <1>2, <1>3 DEF NodesInv

\* Steps on the tree lock leave the child locks alone.
LEMMA NodesAlone ==
  ASSUME NodesInv, UNCHANGED nodeVars
  PROVE  /\ NodeTypes' /\ \A d \in Deps : DepthOk(NodesAt(d)')
         /\ \A d \in Deps, u \in Threads : ln_mode'[d][u] = ln_mode[d][u] /\ (IsBlocked(u, d)' <=> IsBlocked(u, d))
<1>1. \A d \in Deps : NodesAt(d)' = NodesAt(d)
  BY DEF nodeVars, NodesAt
<1>2. NodeTypes'
  BY DEF nodeVars, NodesInv, Types, NodeTypes
<1>3. \A d \in Deps, u \in Threads : ln_mode'[d][u] = ln_mode[d][u] /\ (IsBlocked(u, d)' <=> IsBlocked(u, d))
  BY DEF nodeVars, IsBlocked, Empty
<1>4. \A d \in Deps : DepthOk(NodesAt(d)')
  BY <1>1 DEF NodesInv
<1> QED
  BY <1>2, <1>3, <1>4

LEMMA LockNodes ==
  ASSUME NodesInv, NEW t \in Threads, Lock(t) PROVE NodesInv'
<1>1. PICK m \in TreeModes : LockTree(t, m, lh_ngranted, lh_nblocked, lh_blocked_list, pc)
  BY DEF Lock
<1>2. /\ lk_mode' = [lk_mode EXCEPT ![t] = m] /\ UNCHANGED <<goal, event>> /\ UNCHANGED nodeVars
      /\ \E w \in {"run", "wait"} : pc' = [pc EXCEPT ![t] = w]
      /\ pc[t] = "run" /\ lk_mode[t] = "INVAL"
  BY <1>1 DEF LockTree, Lock
<1>3. NodeTypes' /\ \A d \in Deps : DepthOk(NodesAt(d)')
  BY <1>2, NodesAlone
<1>4. \A d \in Deps, u \in Threads : ln_mode'[d][u] = ln_mode[d][u] /\ (IsBlocked(u, d)' <=> IsBlocked(u, d))
  BY <1>2, NodesAlone
<1>5. CallTypes /\ \A u \in Threads : PlaceOk(u)
  BY DEF NodesInv, Types
<1>6. m # "INVAL"
  BY HtreeAssumption DEF Modes
<1>7. CallTypes'
  BY <1>2, <1>5 DEF CallTypes
<1>8. PlaceOk(t)'
  BY <1>2, <1>4, <1>5, <1>6, HtreeAssumption DEF PlaceOk, CallTypes
<1>9. ASSUME NEW u \in Threads \ {t} PROVE PlaceOk(u)'
  <2>1. lk_mode'[u] = lk_mode[u] /\ event'[u] = event[u] /\ pc'[u] = pc[u]
    BY <1>2, <1>5 DEF CallTypes
  <2> QED
    BY <1>4, <1>5, <2>1, PlaceKept, HtreeAssumption
<1> QED
  BY <1>3, <1>7, <1>8, <1>9 DEF NodesInv, Types

LEMMA StartReleaseNodes ==
  ASSUME NodesInv, NEW t \in Threads, StartRelease(t) PROVE NodesInv'
<1>1. /\ pc' = [pc EXCEPT ![t] = "release"] /\ UNCHANGED <<event, lk_mode>> /\ UNCHANGED nodeVars
      /\ goal' \in [Threads -> {"unlock"} \cup TreeModes] /\ pc[t] = "run" /\ lk_mode[t] # "INVAL"
  BY DEF StartRelease, treeVars, NodesInv, Types, CallTypes
<1>2. NodeTypes' /\ \A d \in Deps : DepthOk(NodesAt(d)')
  BY <1>1, NodesAlone
<1>3. \A d \in Deps, u \in Threads : ln_mode'[d][u] = ln_mode[d][u] /\ (IsBlocked(u, d)' <=> IsBlocked(u, d))
  BY <1>1, NodesAlone
<1>4. CallTypes /\ \A u \in Threads : PlaceOk(u)
  BY DEF NodesInv, Types
<1>5. CallTypes'
  BY <1>1, <1>4 DEF CallTypes
<1>6. PlaceOk(t)'
  BY <1>1, <1>3, <1>4, HtreeAssumption DEF PlaceOk, CallTypes
<1>7. ASSUME NEW u \in Threads \ {t} PROVE PlaceOk(u)'
  <2>1. lk_mode'[u] = lk_mode[u] /\ event'[u] = event[u] /\ pc'[u] = pc[u]
    BY <1>1, <1>4 DEF CallTypes
  <2> QED
    BY <1>3, <1>4, <2>1, PlaceKept, HtreeAssumption
<1> QED
  BY <1>2, <1>5, <1>6, <1>7 DEF NodesInv, Types

\* A thread that waits for the tree is woken to go on.
LEMMA WaiterWoken ==
  ASSUME NodesInv, NEW K \in SUBSET WaitSet, NEW u \in Threads
  PROVE  Wake(K)[u] = IF u \in K THEN "run" ELSE pc[u]
<1>1. u \in K => pc[u] = "wait" /\ event[u] = None
  BY DEF WaitSet, NodesInv, PlaceOk
<1> QED
  BY <1>1 DEF Wake

LEMMA UnlockNodes ==
  ASSUME NodesInv, NEW t \in Threads, UnlockTree(t).woken \subseteq WaitSet, Unlock(t) \/ ChangeLock(t)
  PROVE  NodesInv'
<1> DEFINE K == UnlockTree(t).woken
<1>1. /\ pc[t] = "release" /\ Released(t) /\ UNCHANGED event /\ UNCHANGED nodeVars
      /\ goal' \in [Threads -> {"unlock"} \cup TreeModes]
  BY DEF Unlock, ChangeLock, NodesInv, Types, CallTypes
<1>2. /\ lk_mode' \in [Threads -> TreeModes \cup {"INVAL"}]
      /\ pc' \in [Threads -> {"run", "wait", "node", "tell", "release"}]
      /\ pc'[t] \in {"run", "wait"} /\ (lk_mode'[t] = "INVAL" => pc'[t] = "run")
      /\ \A u \in Threads \ {t} : /\ lk_mode'[u] = lk_mode[u]
                                  /\ pc'[u] = IF u \in K THEN "run" ELSE pc[u]
  <2>1. /\ event[t] = None /\ lk_mode \in [Threads -> TreeModes \cup {"INVAL"}]
        /\ pc \in [Threads -> {"run", "wait", "node", "tell", "release"}]
    BY <1>1, HtreeAssumption DEF NodesInv, PlaceOk, Types, CallTypes
  <2>2. K \in SUBSET WaitSet
    OBVIOUS
  <2> HIDE DEF K
  <2>3. \A u \in Threads : Wake(K)[u] = IF u \in K THEN "run" ELSE pc[u]
    BY <2>2, WaiterWoken
  <2>4. Wake(K) \in [Threads -> {"run", "wait", "node", "tell", "release"}]
    BY <2>1 DEF Wake
  <2>5. CASE Unlock(t)
    <3>1. pc' = Wake(K \cup {t}) /\ lk_mode' = [lk_mode EXCEPT ![t] = "INVAL"]
      BY <2>5 DEF Unlock, K
    <3>2. \A u \in Threads : pc'[u] = IF u = t THEN "run" ELSE Wake(K)[u]
      BY <2>1, <3>1 DEF Wake
    <3>3. pc' \in [Threads -> {"run", "wait", "node", "tell", "release"}]
      BY <2>1, <3>1 DEF Wake
    <3> QED
      BY <2>1, <2>3, <3>1, <3>2, <3>3
  <2>6. CASE ChangeLock(t)
    <3>1. /\ goal[t] \in TreeModes /\ goal[t] # "INVAL"
      BY <2>6, HtreeAssumption DEF ChangeLock, NodesInv, Types, CallTypes, Modes
    <3>2. /\ lk_mode' = [lk_mode EXCEPT ![t] = goal[t]]
          /\ \E w \in {"run", "wait"} : pc' = [Wake(K) EXCEPT ![t] = w]
      BY <2>6 DEF ChangeLock, LockTree, K
    <3> QED
      BY <2>1, <2>3, <2>4, <3>1, <3>2
  <2> QED
    BY <2>5, <2>6
<1> HIDE DEF K
<1>3. NodeTypes' /\ \A d \in Deps : DepthOk(NodesAt(d)')
  BY <1>1, NodesAlone
<1>4. \A d \in Deps, u \in Threads : ln_mode'[d][u] = ln_mode[d][u] /\ (IsBlocked(u, d)' <=> IsBlocked(u, d))
  BY <1>1, NodesAlone
<1>5. CallTypes /\ \A u \in Threads : PlaceOk(u)
  BY DEF NodesInv, Types
<1>6. CallTypes'
  BY <1>1, <1>2, <1>5 DEF CallTypes
<1>7. PlaceOk(t)'
  <2>1. \A d \in Deps : ~IsBlocked(t, d) /\ ln_mode[d][t] = "INVAL"
    BY <1>1, <1>5 DEF PlaceOk, Released
  <2>2. event[t] = None
    BY <1>1, <1>5 DEF PlaceOk
  <2> QED
    BY <1>1, <1>2, <1>4, <2>1, <2>2 DEF PlaceOk
<1>8. ASSUME NEW u \in Threads \ {t} PROVE PlaceOk(u)'
  <2>1. CASE u \notin K
    BY <1>1, <1>2, <1>4, <1>5, <2>1, PlaceKept, HtreeAssumption
  <2>2. CASE u \in K
    <3>1. pc[u] = "wait"
      BY <2>2 DEF K, WaitSet
    <3>2. event[u] = None /\ \A d \in Deps : ~IsBlocked(u, d) /\ ln_mode[d][u] = "INVAL"
      BY <1>5, <3>1 DEF PlaceOk
    <3> QED
      BY <1>1, <1>2, <1>4, <2>2, <3>2 DEF PlaceOk
  <2> QED
    BY <2>1, <2>2
<1> QED
  BY <1>3, <1>6, <1>7, <1>8 DEF NodesInv, Types

\* A step of t on its locks of depth d leaves everybody else where they were.
LEMMA OthersStay ==
  ASSUME NodesInv, NEW d \in Deps, NEW t \in Threads, OthersKept(d), DepthOk(NodesAt(d)'),
         told'[d] \in [Threads -> BOOLEAN], UNCHANGED lk_mode,
         NEW m, ln_mode'[d] = [ln_mode[d] EXCEPT ![t] = m],
         \A u \in Threads \ {t} : /\ pc'[u] = pc[u] /\ event'[u] = event[u]
                                  /\ IsBlocked(u, d)' <=> IsBlocked(u, d)
  PROVE  \A u \in Threads \ {t} : PlaceOk(u)'
<1> SUFFICES ASSUME NEW u \in Threads \ {t} PROVE PlaceOk(u)'
  OBVIOUS
<1>1. \A e \in Deps \ {d} : ln_mode'[e] = ln_mode[e] /\ (IsBlocked(u, e)' <=> IsBlocked(u, e))
  BY DepthsKept
<1>2. ln_mode'[d][u] = ln_mode[d][u]
  BY DEF NodesInv, Types, NodeTypes
<1>3. \A e \in Deps : ln_mode'[e][u] = ln_mode[e][u] /\ (IsBlocked(u, e)' <=> IsBlocked(u, e))
  BY <1>1, <1>2
<1>4. PlaceOk(u) /\ lk_mode'[u] = lk_mode[u]
  BY DEF NodesInv
<1> QED
  BY <1>3, <1>4, PlaceKept, HtreeAssumption

LEMMA NodeLockNodes ==
  ASSUME NodesInv, NEW t \in Threads, NEW d \in Deps, NodeLock(t, d) PROVE NodesInv'
<1>1. PICK k \in Keys, m \in {"PR", "PW"}, ev \in BOOLEAN :
        NewKey(t, d, k, m) \/ Join(t, d, k, m, ev) \/ Enqueue(t, d, k, m, ev)
  BY DEF NodeLock
<1>2. /\ pc[t] = "run" /\ lk_mode[t] # "INVAL" /\ ln_mode[d][t] = "INVAL"
      /\ UNCHANGED <<goal, lk_mode>>
  BY DEF NodeLock, treeVars
<1>3. CallTypes /\ NodeTypes /\ \A u \in Threads : PlaceOk(u)
  BY DEF NodesInv, Types
<1>4. event[t] = None /\ \A e \in Deps : ~IsBlocked(t, e)
  BY <1>2, <1>3 DEF PlaceOk
<1>5. OthersKept(d) /\ DepthOk(NodesAt(d)') /\ ln_mode'[d] = [ln_mode[d] EXCEPT ![t] = m]
  <2>1. OthersKept(d) /\ DepthOk(NodesAt(d)')
    BY <1>1, <1>2, NewKeyStep, JoinStep, EnqueueStep
  <2>2. SetDep(ln_mode, d, [ln_mode[d] EXCEPT ![t] = m])
    BY <1>1 DEF NewKey, Join, Enqueue
  <2> QED
    BY <1>3, <2>1, <2>2 DEF SetDep, NodeTypes
<1>6. told'[d] \in [Threads -> BOOLEAN]
  <2>1. CASE told' = told
    BY <1>3, <2>1 DEF NodeTypes
  <2>2. CASE Join(t, d, k, m, ev)
    BY <1>3, <2>2 DEF Join, SetDep, NodeTypes
  <2> QED
    BY <1>1, <2>1, <2>2 DEF NewKey, Enqueue
<1>7. NodeTypes' /\ \A e \in Deps : DepthOk(NodesAt(e)')
  BY <1>5, <1>6, DepthsKept
<1>8. \A e \in Deps \ {d} : ln_mode'[e] = ln_mode[e] /\ (IsBlocked(t, e)' <=> IsBlocked(t, e))
  BY <1>5, <1>6, DepthsKept
<1>9. CASE NewKey(t, d, k, m) \/ Join(t, d, k, m, ev)
  <2>1. pc' = pc /\ event' = event
    BY <1>9 DEF NewKey, Join
  <2>2. \A u \in Threads : IsBlocked(u, d)' <=> IsBlocked(u, d)
    BY <1>2, <1>9, NewKeyStep, JoinStep
  <2>3. CallTypes'
    BY <1>2, <1>3, <2>1 DEF CallTypes
  <2>4. \A u \in Threads \ {t} : PlaceOk(u)'
    BY <1>2, <1>5, <1>6, <2>1, <2>2, OthersStay
  <2>5. PlaceOk(t)'
    BY <1>2, <1>4, <1>8, <2>1, <2>2 DEF PlaceOk
  <2> QED
    BY <1>7, <2>3, <2>4, <2>5 DEF NodesInv, Types
<1>10. CASE Enqueue(t, d, k, m, ev)
  <2>1. /\ pc' = [pc EXCEPT ![t] = "node"]
        /\ event' = [event EXCEPT ![t] = IF Tells(d, m, ev) THEN d ELSE None]
    BY <1>10 DEF Enqueue
  <2>2. \A u \in Threads : IsBlocked(u, d)' <=> IsBlocked(u, d) \/ u = t
    BY <1>2, <1>10, EnqueueStep
  <2>3. CallTypes'
    BY <1>2, <1>3, <2>1 DEF CallTypes
  <2>4. \A u \in Threads \ {t} : PlaceOk(u)'
    <3>1. \A u \in Threads \ {t} : /\ pc'[u] = pc[u] /\ event'[u] = event[u]
                                   /\ IsBlocked(u, d)' <=> IsBlocked(u, d)
      BY <1>3, <2>1, <2>2 DEF CallTypes
    <3> QED
      BY <1>2, <1>5, <1>6, <3>1, OthersStay
  <2>5. PlaceOk(t)'
    <3>1. pc'[t] = "node" /\ event'[t] = (IF Tells(d, m, ev) THEN d ELSE None)
      BY <1>3, <2>1 DEF CallTypes
    <3>2. ln_mode'[d][t] = m
      BY <1>3, <1>5 DEF NodeTypes
    <3>3. IsBlocked(t, d)' /\ \A e \in Deps : IsBlocked(t, e)' => e = d
      BY <1>4, <1>8, <2>2
    <3> QED
      BY <1>2, <3>1, <3>2, <3>3 DEF PlaceOk, Tells
  <2> QED
    BY <1>7, <2>3, <2>4, <2>5 DEF NodesInv, Types
<1> QED
  BY <1>1, <1>9, <1>10

LEMMA TellNodes ==
  ASSUME NodesInv, NEW t \in Threads, Tell(t) PROVE NodesInv'
<1> DEFINE d == event[t]
<1>1. /\ pc[t] = "tell" /\ pc' = [pc EXCEPT ![t] = "run"] /\ event' = [event EXCEPT ![t] = None]
      /\ SetDep(told, d, [u \in Threads |-> told[d][u] \/ u \in Listeners(d, alive_list[d], t)])
      /\ UNCHANGED <<goal, lk_mode, ln_mode, ln_key, owners, granted_list, blocked_list, alive_list>>
  BY DEF Tell, treeVars
<1>2. CallTypes /\ NodeTypes /\ (\A u \in Threads : PlaceOk(u)) /\ EventDeps \subseteq Deps
  BY HtreeAssumption DEF NodesInv, Types
<1>3. d \in Deps /\ lk_mode[t] # "INVAL" /\ \A e \in Deps : ~IsBlocked(t, e)
  BY <1>1, <1>2 DEF PlaceOk
<1> HIDE DEF d
<1>4. Types'
  BY <1>1, <1>2, <1>3 DEF Types, CallTypes, NodeTypes, SetDep
<1>5. \A e \in Deps : NodesAt(e)' = NodesAt(e)
  BY <1>1 DEF NodesAt
<1>6. \A e \in Deps, u \in Threads : ln_mode'[e][u] = ln_mode[e][u] /\ (IsBlocked(u, e)' <=> IsBlocked(u, e))
  BY <1>1 DEF IsBlocked, Empty
<1>7. PlaceOk(t)'
  <2>1. pc'[t] = "run" /\ event'[t] = None /\ lk_mode'[t] # "INVAL"
    BY <1>1, <1>2, <1>3 DEF CallTypes
  <2> QED
    BY <1>3, <1>6, <2>1 DEF PlaceOk
<1>8. ASSUME NEW u \in Threads \ {t} PROVE PlaceOk(u)'
  <2>1. lk_mode'[u] = lk_mode[u] /\ event'[u] = event[u] /\ pc'[u] = pc[u]
    BY <1>1, <1>2 DEF CallTypes
  <2> QED
    BY <1>2, <1>6, <2>1, PlaceKept
<1> QED
  BY <1>4, <1>5, <1>7, <1>8 DEF NodesInv

LEMMA StopNodes ==
  ASSUME NodesInv, NEW t \in Threads, NEW d \in Deps, StopListen(t, d) PROVE NodesInv'
<1>1. /\ pc[t] \in {"run", "release"} /\ ln_mode[d][t] = "NL" /\ UNCHANGED <<pc, goal, event, lk_mode>>
      /\ SetDep(ln_mode, d, [ln_mode[d] EXCEPT ![t] = "INVAL"])
      /\ SetDep(told, d, [told[d] EXCEPT ![t] = FALSE])
  BY DEF StopListen, IsListening, treeVars
<1>2. CallTypes /\ NodeTypes /\ \A u \in Threads : PlaceOk(u)
  BY DEF NodesInv, Types
<1>3. lk_mode[t] # "INVAL" /\ event[t] = None /\ \A e \in Deps : ~IsBlocked(t, e)
  BY <1>1, <1>2 DEF PlaceOk
<1>4. ln_mode'[d] = [ln_mode[d] EXCEPT ![t] = "INVAL"] /\ told'[d] \in [Threads -> BOOLEAN]
  BY <1>1, <1>2 DEF NodeTypes, SetDep
<1>5. OthersKept(d) /\ DepthOk(NodesAt(d)') /\ \A u \in Threads : IsBlocked(u, d)' <=> IsBlocked(u, d)
  BY StopStep
<1>6. NodeTypes' /\ \A e \in Deps : DepthOk(NodesAt(e)')
  BY <1>4, <1>5, DepthsKept
<1>7. \A u \in Threads \ {t} : PlaceOk(u)'
  BY <1>1, <1>4, <1>5, OthersStay
<1>8. PlaceOk(t)'
  <2>1. \A e \in Deps : ~IsBlocked(t, e)'
    BY <1>3, <1>4, <1>5, DepthsKept
  <2> QED
    BY <1>1, <1>3, <2>1 DEF PlaceOk
<1>9. CallTypes'
  BY <1>1, <1>2 DEF CallTypes
<1> QED
  BY <1>6, <1>7, <1>8, <1>9 DEF NodesInv, Types

LEMMA NodeUnlockNodes ==
  ASSUME NodesInv, NEW t \in Threads, NEW d \in Deps, NEW listen \in BOOLEAN, NodeUnlock(t, d, listen)
  PROVE  NodesInv' /\ \A u \in Threads : pc[u] = "wait" <=> pc'[u] = "wait"
<1> DEFINE m == ModeOf(d, listen)
<1> HIDE DEF m
<1>1. pc[t] \in {"run", "release"} /\ ln_mode[d][t] \in {"PR", "PW"} /\ UNCHANGED <<goal, event, lk_mode>>
  BY DEF NodeUnlock, IsGranted, treeVars
<1>2. CallTypes /\ NodeTypes /\ (\A u \in Threads : PlaceOk(u)) /\ EventDeps \subseteq Deps
  BY HtreeAssumption DEF NodesInv, Types
<1>3. lk_mode[t] # "INVAL" /\ event[t] = None /\ \A e \in Deps : ~IsBlocked(t, e)
  BY <1>1, <1>2 DEF PlaceOk
<1>4. /\ OthersKept(d) /\ DepthOk(NodesAt(d)') /\ ln_mode'[d] = [ln_mode[d] EXCEPT ![t] = m]
      /\ told'[d] = [told[d] EXCEPT ![t] = FALSE]
  <2>1. OthersKept(d) /\ DepthOk(NodesAt(d)') /\ Left(t, d, ModeOf(d, listen))
    BY UnlockStep
  <2> QED
    BY <2>1 DEF m, Left
<1>5. PICK woken \in SUBSET Threads :
        /\ pc' = Wake(woken) /\ \A u \in woken : IsBlocked(u, d)
        /\ \A u \in Threads : IsBlocked(u, d)' <=> IsBlocked(u, d) /\ u \notin woken
  <2>1. WakesAt(t, d)
    BY UnlockStep
  <2> QED
    BY <2>1 DEF WakesAt
<1>6. told'[d] \in [Threads -> BOOLEAN]
  BY <1>2, <1>4 DEF NodeTypes
<1>7. NodeTypes' /\ \A e \in Deps : DepthOk(NodesAt(e)')
  BY <1>4, <1>6, DepthsKept
<1>8. \A e \in Deps \ {d} : /\ ln_mode'[e] = ln_mode[e]
                            /\ \A u \in Threads : IsBlocked(u, e)' <=> IsBlocked(u, e)
  BY <1>4, <1>6, DepthsKept
<1>9. /\ \A u \in woken : pc[u] = "node" /\ pc'[u] = IF event[u] = None THEN "run" ELSE "tell"
      /\ \A u \in Threads \ woken : pc'[u] = pc[u]
  BY <1>2, <1>5 DEF Wake, PlaceOk
<1>10. CallTypes'
  BY <1>1, <1>2, <1>5 DEF CallTypes, Wake
<1>11. PlaceOk(t)'
  <2>1. t \notin woken /\ pc'[t] = pc[t]
    BY <1>1, <1>9
  <2>2. \A e \in Deps : ~IsBlocked(t, e)'
    BY <1>3, <1>5, <1>8
  <2> QED
    BY <1>1, <1>3, <2>1, <2>2 DEF PlaceOk
<1>12. ASSUME NEW u \in Threads \ {t} PROVE PlaceOk(u)'
  <2>1. /\ \A e \in Deps : ln_mode'[e][u] = ln_mode[e][u]
        /\ \A e \in Deps \ {d} : IsBlocked(u, e)' <=> IsBlocked(u, e)
        /\ lk_mode'[u] = lk_mode[u] /\ event'[u] = event[u] /\ PlaceOk(u)
    BY <1>1, <1>2, <1>4, <1>8 DEF NodeTypes
  <2>2. CASE u \in woken
    BY <1>2, <1>5, <1>9, <2>1, <2>2, PlaceWoken
  <2>3. CASE u \notin woken
    BY <1>2, <1>5, <1>9, <2>1, <2>3, PlaceKept
  <2> QED
    BY <2>2, <2>3
<1>13. NodesInv'
  BY <1>7, <1>10, <1>11, <1>12 DEF NodesInv, Types
<1>14. \A u \in Threads : pc[u] = "wait" <=> pc'[u] = "wait"
  BY <1>9
<1> QED
  BY <1>13, <1>14

-----------------------------------------------------------------------------
(***************************************************************************)
(* The tree lock: its modes, counters and queue.                           *)
(***************************************************************************)
LEMMA CompatSymmetric ==
  \A m, w \in Modes : w \in htree_lock_compat[m] <=> m \in htree_lock_compat[w]
BY DEF Modes, htree_lock_compat

\* S has c[m] threads of each mode m.
Counted(S, l, c) ==
    /\ S \in SUBSET Threads /\ \A t \in S : l[t] \in Modes
    /\ c \in [Modes -> Nat] /\ \A m \in Modes : c[m] = Cardinality(OfMode(S, l, m))

LEMMA InUseIs ==
  ASSUME NEW S, NEW l, NEW c, Counted(S, l, c)
  PROVE  InUse(c) = {l[t] : t \in S}
<1>1. \A m \in Modes : IsFiniteSet(OfMode(S, l, m))
  BY HtreeAssumption, FS_Subset DEF OfMode, Counted
<1>2. \A m \in Modes : c[m] = 0 <=> OfMode(S, l, m) = {}
  BY <1>1, FS_EmptySet DEF Counted
<1>3. \A m \in Modes : m \in InUse(c) <=> \E t \in S : l[t] = m
  BY <1>2 DEF OfMode, InUse
<1> QED
  BY <1>3 DEF InUse, Counted

LEMMA OneMore ==
  ASSUME NEW S, NEW l, NEW c, Counted(S, l, c), NEW t \in Threads \ S, NEW m \in Modes,
         NEW w, w[t] = m, \A u \in S : w[u] = l[u]
  PROVE  Counted(S \cup {t}, w, [c EXCEPT ![m] = @ + 1])
<1>1. ASSUME NEW x \in Modes PROVE IsFiniteSet(OfMode(S, l, x))
  BY HtreeAssumption, FS_Subset DEF OfMode, Counted
<1>2. ASSUME NEW x \in Modes
      PROVE  [c EXCEPT ![m] = @ + 1][x] = Cardinality(OfMode(S \cup {t}, w, x))
  <2>1. CASE x = m
    <3>1. OfMode(S \cup {t}, w, x) = OfMode(S, l, x) \cup {t} /\ t \notin OfMode(S, l, x)
      BY <2>1 DEF OfMode
    <3> DEFINE D == OfMode(S, l, x)
    <3>2. IsFiniteSet(D)
      BY <1>1
    <3> HIDE DEF D
    <3>3. Cardinality(D \cup {t}) = Cardinality(D) + 1
      BY <3>1, <3>2, FS_AddElement DEF D
    <3> QED
      BY <2>1, <3>1, <3>3 DEF Counted, D
  <2>2. CASE x # m
    <3>1. OfMode(S \cup {t}, w, x) = OfMode(S, l, x)
      BY <2>2 DEF OfMode
    <3> QED
      BY <2>2, <3>1 DEF Counted
  <2> QED
    BY <2>1, <2>2
<1> QED
  BY <1>2 DEF Counted

LEMMA OneLess ==
  ASSUME NEW S, NEW l, NEW c, Counted(S, l, c), NEW t \in S
  PROVE  Counted(S \ {t}, l, [c EXCEPT ![l[t]] = @ - 1])
<1>1. ASSUME NEW x \in Modes PROVE IsFiniteSet(OfMode(S, l, x))
  BY HtreeAssumption, FS_Subset DEF OfMode, Counted
<1>2. ASSUME NEW x \in Modes
      PROVE  /\ [c EXCEPT ![l[t]] = @ - 1][x] = Cardinality(OfMode(S \ {t}, l, x))
             /\ [c EXCEPT ![l[t]] = @ - 1][x] \in Nat
  <2>1. CASE x = l[t]
    <3>1. OfMode(S \ {t}, l, x) = OfMode(S, l, x) \ {t} /\ t \in OfMode(S, l, x)
      BY <2>1 DEF OfMode
    <3> DEFINE D == OfMode(S, l, x)
    <3>2. IsFiniteSet(D) /\ t \in D
      BY <1>1, <3>1
    <3> HIDE DEF D
    <3>3. Cardinality(D \ {t}) = Cardinality(D) - 1 /\ IsFiniteSet(D \ {t})
      BY <3>2, FS_RemoveElement
    <3>4. Cardinality(D \ {t}) \in Nat
      BY <3>3, FS_CardinalityType
    <3>5. Cardinality(OfMode(S \ {t}, l, x)) = c[x] - 1
      BY <3>1, <3>3 DEF Counted, D
    <3> QED
      BY <2>1, <3>1, <3>4, <3>5 DEF Counted, D
  <2>2. CASE x # l[t]
    <3>1. OfMode(S \ {t}, l, x) = OfMode(S, l, x)
      BY <2>2 DEF OfMode
    <3> QED
      BY <2>2, <3>1 DEF Counted
  <2> QED
    BY <2>1, <2>2
<1> QED
  BY <1>2 DEF Counted

\* The queue: without repetitions, with a first who cannot go.
Queued(W, q) ==
    q \in Seq(Threads) /\ (\A i, j \in DOMAIN q : q[i] = q[j] => i = j) /\ W = {q[i] : i \in DOMAIN q}

LEMMA TreeParts ==
  ASSUME NEW W, NEW H, NEW l, NEW n, NEW b, NEW q
  PROVE  TreeOk(W, H, l, n, b, q) <=>
            /\ W \cap H = {} /\ Counted(W, l, b) /\ Counted(H, l, n) /\ Queued(W, q)
            /\ \A t, u \in H : t # u => l[u] \in htree_lock_compat[l[t]]
            /\ q # <<>> => ~(InUse(n) \subseteq htree_lock_compat[l[q[1]]])
BY DEF TreeOk, Counted, Queued

LEMMA AppendIs ==
  ASSUME NEW q \in Seq(Threads), NEW t \in Threads
  PROVE  /\ Append(q, t) \in Seq(Threads) /\ Append(q, t) # <<>>
         /\ DOMAIN Append(q, t) = DOMAIN q \cup {Len(q) + 1} /\ Len(q) + 1 \notin DOMAIN q
         /\ \A i \in DOMAIN q : Append(q, t)[i] = q[i]
         /\ Append(q, t)[Len(q) + 1] = t
         /\ q # <<>> => 1 \in DOMAIN q
         /\ q = <<>> => Append(q, t)[1] = t
<1>1. Len(q) \in Nat /\ DOMAIN q = 1 .. Len(q)
  OBVIOUS
<1>2. /\ Append(q, t) \in Seq(Threads) /\ Len(Append(q, t)) = Len(q) + 1
      /\ DOMAIN Append(q, t) = 1 .. Len(q) + 1
  OBVIOUS
<1>3. /\ \A i \in DOMAIN q : Append(q, t)[i] = q[i]
      /\ Append(q, t)[Len(q) + 1] = t
  OBVIOUS
<1>4. q # <<>> => Len(q) # 0
  OBVIOUS
<1>5. q = <<>> => Len(q) = 0
  OBVIOUS
<1>6. Append(q, t) # <<>>
  <2>1. Len(<<>>) = 0
    OBVIOUS
  <2> QED
    BY <1>1, <1>2, <2>1
<1> QED
  BY <1>1, <1>2, <1>3, <1>4, <1>5, <1>6

\* The lock is granted at once ...
LEMMA GrantOk ==
  ASSUME NEW W, NEW H, NEW l, NEW n, NEW b, NEW q, TreeOk(W, H, l, n, b, q),
         NEW t \in Threads \ (W \cup H), NEW m \in Modes, NEW w,
         w[t] = m, \A u \in W \cup H : w[u] = l[u],
         InUse(n) \cup InUse(b) \subseteq htree_lock_compat[m]
  PROVE  TreeOk(W, H \cup {t}, w, [n EXCEPT ![m] = @ + 1], b, q)
<1>1. W \cap H = {} /\ Counted(W, l, b) /\ Counted(H, l, n) /\ Queued(W, q)
  BY TreeParts
<1>2. /\ \A x, u \in H : x # u => l[u] \in htree_lock_compat[l[x]]
      /\ q # <<>> => ~(InUse(n) \subseteq htree_lock_compat[l[q[1]]])
  BY TreeParts
<1>3. Counted(H \cup {t}, w, [n EXCEPT ![m] = @ + 1])
  BY <1>1, OneMore
<1>4. Counted(W, w, b)
  <2>1. \A x \in Modes : OfMode(W, w, x) = OfMode(W, l, x)
    BY DEF OfMode
  <2> QED
    BY <1>1, <2>1 DEF Counted
<1>5. InUse(n) = {l[u] : u \in H}
  BY <1>1, InUseIs
<1>6. \A x, u \in H \cup {t} : x # u => w[u] \in htree_lock_compat[w[x]]
  BY <1>1, <1>2, <1>5, CompatSymmetric DEF Counted
<1>7. q # <<>> => q[1] \in W
  BY <1>1 DEF Queued
<1>8. InUse(n) \subseteq InUse([n EXCEPT ![m] = @ + 1])
  BY <1>1 DEF InUse, Counted
<1>9. q # <<>> => ~(InUse([n EXCEPT ![m] = @ + 1]) \subseteq htree_lock_compat[w[q[1]]])
  BY <1>2, <1>7, <1>8
<1>10. W \cap (H \cup {t}) = {}
  BY <1>1
<1> QED
  BY <1>1, <1>3, <1>4, <1>6, <1>9, <1>10, TreeParts

\* ... or the thread queues up.
LEMMA QueueOk ==
  ASSUME NEW W, NEW H, NEW l, NEW n, NEW b, NEW q, TreeOk(W, H, l, n, b, q),
         NEW t \in Threads \ (W \cup H), NEW m \in Modes, NEW w,
         w[t] = m, \A u \in W \cup H : w[u] = l[u],
         ~(InUse(n) \cup InUse(b) \subseteq htree_lock_compat[m])
  PROVE  TreeOk(W \cup {t}, H, w, n, [b EXCEPT ![m] = @ + 1], Append(q, t))
<1> DEFINE p == Append(q, t)
<1>1. W \cap H = {} /\ Counted(W, l, b) /\ Counted(H, l, n) /\ Queued(W, q)
  BY TreeParts
<1>2. /\ \A x, u \in H : x # u => l[u] \in htree_lock_compat[l[x]]
      /\ q # <<>> => ~(InUse(n) \subseteq htree_lock_compat[l[q[1]]])
  BY TreeParts
<1>3. Counted(W \cup {t}, w, [b EXCEPT ![m] = @ + 1])
  BY <1>1, OneMore
<1>4. Counted(H, w, n)
  <2>1. \A x \in Modes : OfMode(H, w, x) = OfMode(H, l, x)
    BY DEF OfMode
  <2> QED
    BY <1>1, <2>1 DEF Counted
<1>5. /\ p \in Seq(Threads) /\ p # <<>>
      /\ DOMAIN p = DOMAIN q \cup {Len(q) + 1} /\ Len(q) + 1 \notin DOMAIN q
      /\ \A i \in DOMAIN q : p[i] = q[i]
      /\ p[Len(q) + 1] = t
      /\ q # <<>> => 1 \in DOMAIN q
      /\ q = <<>> => p[1] = t
  BY <1>1, AppendIs DEF Queued
<1> HIDE DEF p
<1>6. Queued(W \cup {t}, p)
  <2>1. \A i \in DOMAIN q : q[i] \in W
    BY <1>1 DEF Queued
  <2>2. \A i, j \in DOMAIN p : p[i] = p[j] => i = j
    BY <1>1, <1>5, <2>1 DEF Queued
  <2>3. W \cup {t} = {p[i] : i \in DOMAIN p}
    BY <1>1, <1>5 DEF Queued
  <2> QED
    BY <1>5, <2>2, <2>3 DEF Queued
<1>7. ~(InUse(n) \subseteq htree_lock_compat[w[p[1]]])
  <2>1. CASE q = <<>>
    <3>1. W = {}
      BY <1>1, <2>1 DEF Queued
    <3>2. InUse(b) = {}
      BY <1>1, <3>1, InUseIs
    <3> QED
      BY <1>5, <2>1, <3>2
  <2>2. CASE q # <<>>
    <3>1. q[1] \in W
      BY <1>1, <1>5, <2>2 DEF Queued
    <3> QED
      BY <1>2, <1>5, <2>2, <3>1
  <2> QED
    BY <2>1, <2>2
<1>8. \A x, u \in H : x # u => w[u] \in htree_lock_compat[w[x]]
  BY <1>2
<1>9. (W \cup {t}) \cap H = {}
  BY <1>1
<1> QED
  BY <1>3, <1>4, <1>6, <1>7, <1>8, <1>9, TreeParts DEF p

LEMMA LeastOf ==
  ASSUME NEW S \in SUBSET Nat, S # {}
  PROVE  \E k \in S : \A j \in S : k <= j
<1> DEFINE R == {ss \in Nat \X Nat : ss[1] < ss[2]}
<1>1. IsWellFoundedOn(R, Nat)
  BY NatLessThanWellFounded, Zenon DEF OpToRel
<1>2. PICK k \in S : \A j \in S : <<j, k>> \notin R
  BY <1>1, WFMin
<1>3. \A j \in S : j < k => <<j, k>> \in R
  OBVIOUS
<1> HIDE DEF R
<1>4. \A j \in S : ~(j < k)
  BY <1>2, <1>3
<1> QED
  BY <1>4

\* Those who are woken do not conflict with n or with each other, the next one does.
LEMMA WokenIs ==
  ASSUME NEW n, lh_blocked_list \in Seq(Threads)
  PROVE  LET q == lh_blocked_list
             k == Woken(n)
         IN  /\ k \in 0 .. Len(q)
             /\ \A i \in 1 .. k :
                  /\ InUse(n) \subseteq htree_lock_compat[lk_mode[q[i]]]
                  /\ \A j \in 1 .. i - 1 : lk_mode[q[j]] \in htree_lock_compat[lk_mode[q[i]]]
             /\ k < Len(q) => ~(InUse(n) \cup {lk_mode[q[j]] : j \in 1 .. k}
                                  \subseteq htree_lock_compat[lk_mode[q[k + 1]]])
<1> DEFINE q == lh_blocked_list
           ModesUpTo(i) == {lk_mode[q[j]] : j \in 1 .. i}
           Stops(i) == ~(InUse(n) \cup ModesUpTo(i - 1) \subseteq htree_lock_compat[lk_mode[q[i]]])
           stops == {i \in DOMAIN q : Stops(i)}
           k == Woken(n)
<1>1. k = IF stops = {} THEN Len(q) ELSE (CHOOSE i \in stops : \A j \in stops : i <= j) - 1
  BY DEF Woken
<1>2. Len(q) \in Nat /\ DOMAIN q = 1 .. Len(q)
  OBVIOUS
<1>3. /\ k \in 0 .. Len(q) /\ (\A i \in 1 .. k : ~Stops(i))
      /\ k < Len(q) => Stops(k + 1)
  <2>1. CASE stops = {}
    <3>1. k = Len(q)
      BY <1>1, <2>1
    <3>2. \A i \in 1 .. Len(q) : ~Stops(i)
      BY <1>2, <2>1
    <3> HIDE DEF k, Stops, q
    <3> QED
      BY <1>2, <3>1, <3>2
  <2>2. CASE stops # {}
    <3>1. stops \in SUBSET Nat
      BY <1>2
    <3>2. \E i \in stops : \A j \in stops : i <= j
      BY <2>2, <3>1, LeastOf
    <3> DEFINE i == CHOOSE i \in stops : \A j \in stops : i <= j
    <3>3. i \in stops /\ \A j \in stops : i <= j
      BY <3>2
    <3>4. k = i - 1
      BY <1>1, <2>2
    <3> HIDE DEF k, i
    <3>5. i \in 1 .. Len(q) /\ Stops(i)
      BY <1>2, <3>3
    <3>6. \A j \in 1 .. Len(q) : Stops(j) => i <= j
      BY <1>2, <3>3
    <3> HIDE DEF Stops, q, stops
    <3> QED
      BY <1>2, <3>4, <3>5, <3>6
  <2> QED
    BY <2>1, <2>2
<1> HIDE DEF k
<1>4. \A i \in 1 .. k : \A j \in 1 .. i - 1 : lk_mode[q[j]] \in ModesUpTo(i - 1)
  OBVIOUS
<1>5. k < Len(q) => ModesUpTo(k + 1 - 1) = {lk_mode[q[j]] : j \in 1 .. k}
  <2>1. k + 1 - 1 = k
    BY <1>3
  <2> QED
    BY <2>1
<1>6. \A i \in 1 .. k :
        /\ InUse(n) \subseteq htree_lock_compat[lk_mode[q[i]]]
        /\ ModesUpTo(i - 1) \subseteq htree_lock_compat[lk_mode[q[i]]]
  BY <1>3
<1>7. k < Len(q) => ~(InUse(n) \cup {lk_mode[q[j]] : j \in 1 .. k}
                        \subseteq htree_lock_compat[lk_mode[q[k + 1]]])
  BY <1>3, <1>5
<1>8. \A i \in 1 .. k : \A j \in 1 .. i - 1 : lk_mode[q[j]] \in htree_lock_compat[lk_mode[q[i]]]
  <2> HIDE DEF ModesUpTo, q
  <2> QED
    BY <1>4, <1>6
<1> QED
  BY <1>3, <1>6, <1>7, <1>8 DEF k

\* The first k in the queue.
First(q, k) == {q[j] : j \in 1 .. k}

LEMMA WaitingIs ==
  ASSUME NEW W, Queued(W, lh_blocked_list), NEW k \in 0 .. Len(lh_blocked_list), NEW m
  PROVE  Waiting(k, m) = Cardinality(OfMode(First(lh_blocked_list, k), lk_mode, m))
<1> DEFINE q == lh_blocked_list
           D == {j \in 1 .. k : lk_mode[q[j]] = m}
           T == OfMode(First(q, k), lk_mode, m)
           f == [j \in D |-> q[j]]
<1>1. DOMAIN q = 1 .. Len(q) /\ Len(q) \in Nat /\ k \in Int
  BY DEF Queued
<1>2. IsFiniteSet(D)
  <2>1. IsFiniteSet(1 .. k) /\ D \in SUBSET (1 .. k)
    BY <1>1, FS_Interval
  <2> QED
    BY <2>1, FS_Subset
<1>3. f \in [D -> T] /\ \A y \in T : \E j \in D : f[j] = y
  BY DEF OfMode, First
<1>4. \A i, j \in D : f[i] = f[j] => i = j
  BY <1>1 DEF Queued
<1>5. f \in Bijection(D, T)
  BY <1>3, <1>4 DEF Bijection, Injection, Surjection, IsInjective
<1>6. ExistsBijection(D, T)
  BY <1>5 DEF ExistsBijection
<1>7. Cardinality(T) = Cardinality(D)
  <2> HIDE DEF D, T, f
  <2> QED
    BY <1>2, <1>6, FS_Bijection
<1> QED
  BY <1>7 DEF Waiting

\* The counters after some of one set have moved to another.
LEMMA MoreOf ==
  ASSUME NEW S, NEW l, NEW c, Counted(S, l, c), NEW D \in SUBSET Threads, D \cap S = {},
         \A t \in D : l[t] \in Modes
  PROVE  Counted(S \cup D, l, [m \in Modes |-> c[m] + Cardinality(OfMode(D, l, m))])
<1>1. ASSUME NEW m \in Modes
      PROVE  /\ Cardinality(OfMode(D, l, m)) \in Nat
             /\ c[m] + Cardinality(OfMode(D, l, m)) = Cardinality(OfMode(S \cup D, l, m))
  <2> DEFINE A == OfMode(S, l, m)
             B == OfMode(D, l, m)
  <2>1. IsFiniteSet(A) /\ IsFiniteSet(B)
    BY HtreeAssumption, FS_Subset DEF OfMode, Counted
  <2>2. A \cap B = {} /\ OfMode(S \cup D, l, m) = A \cup B /\ c[m] = Cardinality(A)
    BY DEF OfMode, Counted
  <2> HIDE DEF A, B
  <2>3. Cardinality(A \cup B) = Cardinality(A) + Cardinality(B) - Cardinality({})
    BY <2>1, <2>2, FS_Union
  <2>4. Cardinality(A) \in Nat /\ Cardinality(B) \in Nat /\ Cardinality({}) = 0
    BY <2>1, FS_CardinalityType, FS_EmptySet
  <2>5. Cardinality(A) + Cardinality(B) = Cardinality(A \cup B)
    BY <2>3, <2>4
  <2> QED
    BY <2>2, <2>4, <2>5 DEF B
<1> DEFINE e == [m \in Modes |-> c[m] + Cardinality(OfMode(D, l, m))]
<1>2. \A m \in Modes : e[m] \in Nat /\ e[m] = Cardinality(OfMode(S \cup D, l, m))
  <2>1. \A m \in Modes : c[m] \in Nat
    BY DEF Counted
  <2>2. \A i, j \in Nat : i + j \in Nat
    OBVIOUS
  <2> QED
    BY <1>1, <2>1, <2>2
<1>3. e \in [Modes -> Nat]
  BY <1>2
<1> HIDE DEF e
<1>4. S \cup D \in SUBSET Threads /\ \A t \in S \cup D : l[t] \in Modes
  BY DEF Counted
<1> QED
  BY <1>2, <1>3, <1>4 DEF Counted, e

LEMMA FewerOf ==
  ASSUME NEW S, NEW l, NEW c, Counted(S, l, c), NEW D \in SUBSET S
  PROVE  Counted(S \ D, l, [m \in Modes |-> c[m] - Cardinality(OfMode(D, l, m))])
<1>1. ASSUME NEW m \in Modes
      PROVE  /\ c[m] - Cardinality(OfMode(D, l, m)) \in Nat
             /\ c[m] - Cardinality(OfMode(D, l, m)) = Cardinality(OfMode(S \ D, l, m))
  <2> DEFINE A == OfMode(S, l, m)
             B == OfMode(D, l, m)
  <2>1. IsFiniteSet(A) /\ B \in SUBSET A
    BY HtreeAssumption, FS_Subset DEF OfMode, Counted
  <2>2. A \cap B = B /\ OfMode(S \ D, l, m) = A \ B /\ c[m] = Cardinality(A)
    BY DEF OfMode, Counted
  <2> HIDE DEF A, B
  <2>3. IsFiniteSet(A \ B) /\ Cardinality(A \ B) = Cardinality(A) - Cardinality(A \cap B)
    BY <2>1, FS_Difference
  <2>4. Cardinality(A \ B) \in Nat
    BY <2>3, FS_CardinalityType
  <2> QED
    BY <2>2, <2>3, <2>4 DEF B
<1> QED
  BY <1>1 DEF Counted

\* What is left of a queue behind its first k.
LEMMA RestIs ==
  ASSUME NEW W, NEW q, Queued(W, q), NEW k \in 0 .. Len(q)
  PROVE  /\ First(q, k) \in SUBSET W
         /\ Queued(W \ First(q, k), SubSeq(q, k + 1, Len(q)))
         /\ SubSeq(q, k + 1, Len(q)) # <<>> =>
              k < Len(q) /\ SubSeq(q, k + 1, Len(q))[1] = q[k + 1] /\ q[k + 1] \in W \ First(q, k)
         /\ \A u \in First(q, k), v \in W \ First(q, k) :
              \E i, j \in DOMAIN q : i < j /\ q[i] = u /\ q[j] = v
<1> DEFINE p == SubSeq(q, k + 1, Len(q))
<1>0. Len(q) \in Nat /\ DOMAIN q = 1 .. Len(q) /\ q \in Seq(Threads)
  BY DEF Queued
<1>1. PICK L \in Nat : L = Len(q) /\ DOMAIN q = 1 .. L /\ q \in Seq(Threads) /\ k \in 0 .. L
  BY <1>0
<1> HIDE DEF p
<1>2. p \in Seq(Threads) /\ Len(p) = L - k /\ \A i \in 1 .. L - k : p[i] = q[k + i]
  <2>1. p = SubSeq(q, k + 1, L)
    BY <1>1 DEF p
  <2>2. p \in Seq(Threads) /\ Len(p) = IF k + 1 <= L THEN L - (k + 1) + 1 ELSE 0
    BY <1>1, <2>1
  <2>3. \A i \in 1 .. (L - (k + 1)) + 1 : p[i] = q[(k + 1) + i - 1]
    BY <1>1, <2>1
  <2>4. Len(p) = L - k /\ (L - (k + 1)) + 1 = L - k
    BY <1>1, <2>2
  <2>5. ASSUME NEW i \in 1 .. L - k PROVE p[i] = q[k + i]
    <3>1. (k + 1) + i - 1 = k + i
      BY <1>1
    <3>2. p[i] = q[(k + 1) + i - 1]
      BY <2>3, <2>4
    <3> QED
      BY <3>1, <3>2
  <2> QED
    BY <2>2, <2>4, <2>5
<1>3. DOMAIN p = 1 .. L - k
  BY <1>2
<1>4. p # <<>> => Len(p) # 0
  BY <1>2
<1>5. First(q, k) \in SUBSET W
  BY <1>1 DEF Queued, First
<1>6. \A i \in 1 .. L : q[i] \in First(q, k) <=> i <= k
  BY <1>1 DEF Queued, First
<1>7. \A i, j \in DOMAIN p : p[i] = p[j] => i = j
  <2> SUFFICES ASSUME NEW i \in DOMAIN p, NEW j \in DOMAIN p, p[i] = p[j] PROVE i = j
    OBVIOUS
  <2>1. k + i \in 1 .. L /\ k + j \in 1 .. L /\ q[k + i] = q[k + j]
    BY <1>1, <1>2, <1>3
  <2>2. k + i = k + j
    BY <1>1, <2>1 DEF Queued
  <2> QED
    BY <1>1, <1>3, <2>2
<1>8. W \ First(q, k) = {p[i] : i \in DOMAIN p}
  <2>1. ASSUME NEW v \in W \ First(q, k) PROVE \E i \in DOMAIN p : p[i] = v
    <3>1. PICK i \in 1 .. L : q[i] = v
      BY <1>1 DEF Queued
    <3>2. i > k
      BY <1>1, <1>6, <3>1
    <3>3. i - k \in DOMAIN p /\ k + (i - k) = i
      BY <1>1, <1>3, <3>2
    <3> QED
      BY <1>2, <1>3, <3>1, <3>3
  <2>2. ASSUME NEW i \in DOMAIN p PROVE p[i] \in W \ First(q, k)
    <3>1. k + i \in 1 .. L /\ ~(k + i <= k)
      BY <1>1, <1>3
    <3>2. p[i] = q[k + i] /\ q[k + i] \in W
      BY <1>1, <1>2, <1>3, <3>1 DEF Queued
    <3> QED
      BY <1>6, <3>1, <3>2
  <2> QED
    BY <2>1, <2>2
<1>9. Queued(W \ First(q, k), p)
  BY <1>2, <1>7, <1>8 DEF Queued
<1>10. p # <<>> => k < L /\ p[1] = q[k + 1] /\ q[k + 1] \in W \ First(q, k)
  <2>1. p # <<>> => 1 \in DOMAIN p /\ k < L
    BY <1>2, <1>3, <1>4
  <2> QED
    BY <1>1, <1>2, <1>3, <1>8, <2>1
<1>11. ASSUME NEW u \in First(q, k), NEW v \in W \ First(q, k)
       PROVE  \E i, j \in DOMAIN q : i < j /\ q[i] = u /\ q[j] = v
  <2>1. PICK i \in 1 .. k : q[i] = u
    BY DEF First
  <2>2. PICK j \in 1 .. L : q[j] = v
    BY <1>1 DEF Queued
  <2>3. ~(j <= k)
    BY <1>6, <2>2
  <2> QED
    BY <1>1, <2>1, <2>2, <2>3
<1> QED
  BY <1>1, <1>5, <1>9, <1>10, <1>11 DEF p

\* htree_unlock_internal by t: whom it wakes holds the tree from now on.
Unlocked(W, H, t, u) ==
    /\ u.woken \in SUBSET W
    /\ TreeOk(W \ u.woken, (H \ {t}) \cup u.woken, lk_mode, u.ngranted, u.nblocked, u.queue)
    /\ \A w \in u.woken, v \in W \ u.woken : Ahead(w, v)

LEMMA UnlockOk ==
  ASSUME NEW W, NEW H, TreeOk(W, H, lk_mode, lh_ngranted, lh_nblocked, lh_blocked_list),
         NEW t \in H
  PROVE  Unlocked(W, H, t, UnlockTree(t))
<1> DEFINE q == lh_blocked_list
           n == [lh_ngranted EXCEPT ![lk_mode[t]] = @ - 1]
           k == Woken(n)
           G == H \ {t}
           D == First(q, k)
           ng == [m \in Modes |-> n[m] + Cardinality(OfMode(D, lk_mode, m))]
           nb == [m \in Modes |-> lh_nblocked[m] - Cardinality(OfMode(D, lk_mode, m))]
           p == SubSeq(q, k + 1, Len(q))
<1>1. /\ W \cap H = {} /\ Counted(W, lk_mode, lh_nblocked) /\ Counted(H, lk_mode, lh_ngranted)
      /\ Queued(W, q)
  BY TreeParts
<1>2. \A x, u \in H : x # u => lk_mode[u] \in htree_lock_compat[lk_mode[x]]
  BY TreeParts
<1>3. Counted(G, lk_mode, n)
  BY <1>1, OneLess
<1>4. /\ k \in 0 .. Len(q)
      /\ \A i \in 1 .. k :
           /\ InUse(n) \subseteq htree_lock_compat[lk_mode[q[i]]]
           /\ \A j \in 1 .. i - 1 : lk_mode[q[j]] \in htree_lock_compat[lk_mode[q[i]]]
      /\ k < Len(q) => ~(InUse(n) \cup {lk_mode[q[j]] : j \in 1 .. k}
                           \subseteq htree_lock_compat[lk_mode[q[k + 1]]])
  BY <1>1, WokenIs DEF Queued
<1> HIDE DEF k
<1>5. UnlockTree(t) = [ngranted |-> ng, nblocked |-> nb, queue |-> p, woken |-> D]
  <2>1. \A m \in Modes : Waiting(k, m) = Cardinality(OfMode(D, lk_mode, m))
    BY <1>1, <1>4, WaitingIs
  <2>2. /\ [m \in Modes |-> n[m] + Waiting(k, m)] = ng
        /\ [m \in Modes |-> lh_nblocked[m] - Waiting(k, m)] = nb
    BY <2>1
  <2> QED
    BY <2>2 DEF UnlockTree, First, k
<1> HIDE DEF n
<1>6. /\ D \in SUBSET W /\ Queued(W \ D, p)
      /\ p # <<>> => k < Len(q) /\ p[1] = q[k + 1] /\ q[k + 1] \in W \ D
      /\ \A u \in D, v \in W \ D : Ahead(u, v)
  BY <1>1, <1>4, RestIs DEF Ahead
<1>7. Counted(G \cup D, lk_mode, ng)
  <2>1. D \in SUBSET Threads /\ D \cap G = {} /\ \A u \in D : lk_mode[u] \in Modes
    BY <1>1, <1>6 DEF Counted
  <2> HIDE DEF D, G
  <2> QED
    BY <1>3, <2>1, MoreOf
<1>8. Counted(W \ D, lk_mode, nb)
  <2>1. Counted(W, lk_mode, lh_nblocked) /\ D \in SUBSET W
    BY <1>1, <1>6
  <2> HIDE DEF D
  <2> QED
    BY ONLY HtreeAssumption, <2>1, FewerOf
<1>9. InUse(n) = {lk_mode[u] : u \in G} /\ InUse(ng) = {lk_mode[u] : u \in G \cup D}
  <2> HIDE DEF G, D, ng
  <2> QED
    BY <1>3, <1>7, InUseIs
<1>10. ASSUME NEW x \in G \cup D, NEW u \in G \cup D, x # u
       PROVE  lk_mode[u] \in htree_lock_compat[lk_mode[x]]
  <2>1. lk_mode[x] \in Modes /\ lk_mode[u] \in Modes
    BY <1>7 DEF Counted
  <2>2. ASSUME NEW y \in D, NEW g \in G PROVE lk_mode[g] \in htree_lock_compat[lk_mode[y]]
    <3>1. PICK i \in 1 .. k : q[i] = y
      BY DEF First
    <3> QED
      BY <1>4, <1>9, <3>1
  <2>3. ASSUME NEW y \in D, NEW z \in D, y # z, lk_mode[y] \in Modes, lk_mode[z] \in Modes
        PROVE  lk_mode[z] \in htree_lock_compat[lk_mode[y]]
    <3>1. PICK i \in 1 .. k : q[i] = y
      BY DEF First
    <3>2. PICK j \in 1 .. k : q[j] = z
      BY DEF First
    <3>3. k \in Nat
      BY <1>1, <1>4 DEF Queued
    <3>4. CASE j < i
      BY <1>4, <3>1, <3>2, <3>3, <3>4
    <3>5. CASE i < j
      <4>1. lk_mode[y] \in htree_lock_compat[lk_mode[z]]
        BY <1>4, <3>1, <3>2, <3>3, <3>5
      <4> QED
        BY <2>3, <4>1, CompatSymmetric
    <3> QED
      BY <2>3, <3>1, <3>2, <3>3, <3>4, <3>5
  <2>4. CASE x \in G /\ u \in G
    BY <1>2, <1>10, <2>4
  <2>5. CASE x \in D /\ u \in G
    BY <2>2, <2>5
  <2>6. CASE x \in G /\ u \in D
    BY <2>1, <2>2, <2>6, CompatSymmetric
  <2>7. CASE x \in D /\ u \in D
    BY <1>10, <2>1, <2>3, <2>7
  <2> QED
    BY <2>4, <2>5, <2>6, <2>7
<1>11. p # <<>> => ~(InUse(ng) \subseteq htree_lock_compat[lk_mode[p[1]]])
  <2>1. {lk_mode[q[j]] : j \in 1 .. k} \subseteq {lk_mode[u] : u \in D}
    BY DEF First
  <2> HIDE DEF p, G, D, ng
  <2> QED
    BY <1>4, <1>6, <1>9, <2>1
<1>12. (W \ D) \cap (G \cup D) = {}
  BY <1>1
<1>13. TreeOk(W \ D, G \cup D, lk_mode, ng, nb, p)
  <2> HIDE DEF p, G, D, ng, nb
  <2> QED
    BY <1>6, <1>7, <1>8, <1>10, <1>11, <1>12, TreeParts
<1> HIDE DEF ng, nb, p, D
<1> QED
  BY <1>5, <1>6, <1>13 DEF Unlocked

\* Only the modes of those who wait or hold count.
LEMMA TreeSame ==
  ASSUME NEW W, NEW H, NEW l, NEW n, NEW b, NEW q, TreeOk(W, H, l, n, b, q),
         NEW w, \A t \in W \cup H : w[t] = l[t]
  PROVE  TreeOk(W, H, w, n, b, q)
<1>1. /\ W \cap H = {} /\ Counted(W, l, b) /\ Counted(H, l, n) /\ Queued(W, q)
      /\ \A t, u \in H : t # u => l[u] \in htree_lock_compat[l[t]]
      /\ q # <<>> => ~(InUse(n) \subseteq htree_lock_compat[l[q[1]]])
  BY TreeParts
<1>2. Counted(W, w, b)
  <2>1. \A m \in Modes : OfMode(W, w, m) = OfMode(W, l, m)
    BY DEF OfMode
  <2> QED
    BY <1>1, <2>1 DEF Counted
<1>3. Counted(H, w, n)
  <2>1. \A m \in Modes : OfMode(H, w, m) = OfMode(H, l, m)
    BY DEF OfMode
  <2> QED
    BY <1>1, <2>1 DEF Counted
<1>4. q # <<>> => q[1] \in W
  <2>1. q # <<>> => 1 \in DOMAIN q
    BY <1>1 DEF Queued
  <2> QED
    BY <1>1, <2>1 DEF Queued
<1>5. /\ \A t, u \in H : t # u => w[u] \in htree_lock_compat[w[t]]
      /\ q # <<>> => ~(InUse(n) \subseteq htree_lock_compat[w[q[1]]])
  BY <1>1, <1>4
<1> QED
  BY <1>1, <1>2, <1>3, <1>5, TreeParts

LEMMA TreeInit == Init => TreeInv
<1> SUFFICES ASSUME Init PROVE TreeInv
  OBVIOUS
<1>1. WaitSet = {} /\ HoldSet = {} /\ lh_blocked_list = <<>>
  BY DEF Init, WaitSet, HoldSet, HoldsTree
<1>2. Counted({}, lk_mode, lh_nblocked) /\ Counted({}, lk_mode, lh_ngranted)
  <2>1. \A m \in Modes : OfMode({}, lk_mode, m) = {}
    BY DEF OfMode
  <2> QED
    BY <2>1, FS_EmptySet DEF Init, Counted
<1>3. Queued({}, <<>>)
  BY DEF Queued
<1> QED
  BY <1>1, <1>2, <1>3, TreeParts DEF TreeInv

\* A step that leaves the tree lock alone.
LEMMA TreeAlone ==
  ASSUME TreeInv, UNCHANGED treeVars, \A u \in Threads : pc'[u] = "wait" <=> pc[u] = "wait"
  PROVE  TreeInv'
<1>1. WaitSet' = WaitSet /\ HoldSet' = HoldSet
  BY DEF WaitSet, HoldSet, HoldsTree, treeVars
<1>2. /\ lk_mode' = lk_mode /\ lh_ngranted' = lh_ngranted /\ lh_nblocked' = lh_nblocked
      /\ lh_blocked_list' = lh_blocked_list
  BY DEF treeVars
<1>3. TreeOk(WaitSet', HoldSet', lk_mode', lh_ngranted', lh_nblocked', lh_blocked_list')
  BY <1>1, <1>2 DEF TreeInv
<1> QED
  BY <1>3 DEF TreeInv, TreeOk, OfMode, InUse

\* htree_lock_internal by t, whom the others, waiting in W and holding in H, find
\* without the tree.
LEMMA LockTreeStep ==
  ASSUME CallTypes, NEW t \in Threads, NEW m \in Modes, NEW n, NEW b, NEW q, NEW p,
         LockTree(t, m, n, b, q, p), NEW W, NEW H, TreeOk(W, H, lk_mode, n, b, q),
         p \in [Threads -> {"run", "wait", "node", "tell", "release"}], p[t] # "wait",
         W = {u \in Threads : p[u] = "wait"},
         H = {u \in Threads \ {t} : lk_mode[u] # "INVAL" /\ p[u] # "wait"}
  PROVE  TreeInv'
<1>1. t \in Threads \ (W \cup H) /\ m # "INVAL"
  BY DEF Modes
<1>2. lk_mode'[t] = m /\ \A u \in Threads \ {t} : lk_mode'[u] = lk_mode[u]
  BY DEF LockTree, CallTypes
<1>3. \A u \in W \cup H : lk_mode'[u] = lk_mode[u]
  BY <1>1, <1>2 DEF LockTree
<1>4. CASE InUse(n) \cup InUse(b) \subseteq htree_lock_compat[m]
  <2>1. /\ lh_ngranted' = [n EXCEPT ![m] = @ + 1] /\ lh_nblocked' = b /\ lh_blocked_list' = q
        /\ pc' = [p EXCEPT ![t] = "run"]
    BY <1>4 DEF LockTree
  <2>2. WaitSet' = W /\ HoldSet' = H \cup {t}
    BY <1>1, <1>2, <2>1 DEF WaitSet, HoldSet, HoldsTree
  <2>3. TreeOk(W, H \cup {t}, lk_mode', lh_ngranted', lh_nblocked', lh_blocked_list')
    BY <1>1, <1>2, <1>3, <1>4, <2>1, GrantOk
  <2> QED
    BY <2>2, <2>3 DEF TreeInv, TreeOk, OfMode, InUse
<1>5. CASE ~(InUse(n) \cup InUse(b) \subseteq htree_lock_compat[m])
  <2>1. /\ lh_nblocked' = [b EXCEPT ![m] = @ + 1] /\ lh_blocked_list' = Append(q, t)
        /\ lh_ngranted' = n /\ pc' = [p EXCEPT ![t] = "wait"]
    BY <1>5 DEF LockTree
  <2>2. WaitSet' = W \cup {t} /\ HoldSet' = H
    BY <1>1, <1>2, <2>1 DEF WaitSet, HoldSet, HoldsTree
  <2>3. TreeOk(W \cup {t}, H, lk_mode', lh_ngranted', lh_nblocked', lh_blocked_list')
    BY <1>1, <1>2, <1>3, <1>5, <2>1, QueueOk
  <2> QED
    BY <2>2, <2>3 DEF TreeInv, TreeOk, OfMode, InUse
<1> QED
  BY <1>4, <1>5

LEMMA LockTreeKeeps ==
  ASSUME CallTypes, TreeInv, NEW t \in Threads, Lock(t) PROVE TreeInv'
<1>1. PICK m \in TreeModes : LockTree(t, m, lh_ngranted, lh_nblocked, lh_blocked_list, pc)
  BY DEF Lock
<1>2. pc[t] = "run" /\ lk_mode[t] = "INVAL" /\ m \in Modes
  BY HtreeAssumption DEF Lock
<1>3. HoldSet = {u \in Threads \ {t} : lk_mode[u] # "INVAL" /\ pc[u] # "wait"}
  BY <1>2 DEF HoldSet, HoldsTree
<1>4. TreeOk(WaitSet, HoldSet, lk_mode, lh_ngranted, lh_nblocked, lh_blocked_list)
  BY DEF TreeInv
<1>5. WaitSet = {u \in Threads : pc[u] = "wait"} /\ pc[t] # "wait"
      /\ pc \in [Threads -> {"run", "wait", "node", "tell", "release"}]
  BY <1>2 DEF WaitSet, CallTypes
<1> HIDE DEF WaitSet, HoldSet
<1> QED
  BY <1>1, <1>2, <1>3, <1>4, <1>5, LockTreeStep

\* Who waits and who holds when t has given up the tree and woken K.
LEMMA WhoIsLeft ==
  ASSUME NodesInv, TreeInv, NEW t \in Threads, pc[t] = "release",
         NEW K \in SUBSET WaitSet
  PROVE  /\ t \in HoldSet /\ WaitSet \ K = {u \in Threads : Wake(K)[u] = "wait"}
         /\ (HoldSet \ {t}) \cup K
              = {u \in Threads \ {t} : lk_mode[u] # "INVAL" /\ Wake(K)[u] # "wait"}
<1>1. \A u \in Threads : Wake(K)[u] = IF u \in K THEN "run" ELSE pc[u]
  BY WaiterWoken
<1>2. lk_mode[t] # "INVAL" /\ t \notin WaitSet
  BY DEF NodesInv, PlaceOk, WaitSet
<1>3. \A u \in WaitSet : lk_mode[u] # "INVAL"
  BY DEF NodesInv, PlaceOk, WaitSet
<1> QED
  BY <1>1, <1>2, <1>3 DEF WaitSet, HoldSet, HoldsTree

LEMMA UnlockKeeps ==
  ASSUME NodesInv, TreeInv, NEW t \in Threads, Unlock(t) \/ ChangeLock(t)
  PROVE  TreeInv' /\ UnlockTree(t).woken \subseteq WaitSet
<1> DEFINE u == UnlockTree(t)
           K == u.woken
           W == WaitSet \ K
           H == (HoldSet \ {t}) \cup K
<1>1. pc[t] = "release" /\ TreeOk(WaitSet, HoldSet, lk_mode, lh_ngranted, lh_nblocked, lh_blocked_list)
  BY DEF Unlock, ChangeLock, TreeInv
<1>2. t \in HoldSet
  <2>1. {} \in SUBSET WaitSet
    OBVIOUS
  <2> QED
    BY <1>1, <2>1, WhoIsLeft
<1>3. Unlocked(WaitSet, HoldSet, t, u)
  BY <1>1, <1>2, UnlockOk
<1>4. K \in SUBSET WaitSet /\ TreeOk(W, H, lk_mode, u.ngranted, u.nblocked, u.queue)
  <2> HIDE DEF u
  <2> QED
    BY <1>3 DEF Unlocked
<1>5. /\ W = {v \in Threads : Wake(K)[v] = "wait"}
      /\ H = {v \in Threads \ {t} : lk_mode[v] # "INVAL" /\ Wake(K)[v] # "wait"}
  BY <1>1, <1>4, WhoIsLeft
<1>6. \A v \in Threads : Wake(K)[v] = IF v \in K THEN "run" ELSE pc[v]
  BY <1>4, WaiterWoken
<1>7. CallTypes /\ event[t] = None /\ lk_mode[t] # "INVAL"
  BY <1>1 DEF NodesInv, Types, PlaceOk
<1>8. CASE ChangeLock(t)
  <2>1. LockTree(t, goal[t], u.ngranted, u.nblocked, u.queue, Wake(K)) /\ goal[t] # "unlock"
    BY <1>8 DEF ChangeLock
  <2>2. goal[t] \in Modes
    BY <1>7, <2>1, HtreeAssumption DEF CallTypes
  <2>3. Wake(K) \in [Threads -> {"run", "wait", "node", "tell", "release"}] /\ Wake(K)[t] # "wait"
    <3>1. Wake(K)[t] # "wait" /\ \A v \in Threads : Wake(K)[v] \in {"run", "wait", "node", "tell", "release"}
      BY <1>1, <1>6, <1>7 DEF CallTypes
    <3> QED
      BY <3>1 DEF Wake
  <2> HIDE DEF W, H, K, u
  <2>4. TreeInv'
    BY <1>4, <1>5, <1>7, <2>1, <2>2, <2>3, LockTreeStep
  <2> QED
    BY <1>4, <2>4 DEF K, u
<1>9. CASE Unlock(t)
  <2>1. /\ lh_ngranted' = u.ngranted /\ lh_nblocked' = u.nblocked /\ lh_blocked_list' = u.queue
        /\ pc' = Wake(K \cup {t}) /\ lk_mode' = [lk_mode EXCEPT ![t] = "INVAL"]
    BY <1>9 DEF Unlock
  <2> HIDE DEF u, K
  <2>2. \A v \in Threads \ {t} : pc'[v] = Wake(K)[v] /\ lk_mode'[v] = lk_mode[v]
    BY <1>7, <2>1 DEF Wake, CallTypes
  <2>3. pc'[t] = "run" /\ lk_mode'[t] = "INVAL" /\ Wake(K)[t] # "wait"
    BY <1>1, <1>6, <1>7, <2>1 DEF Wake, CallTypes
  <2>4. WaitSet' = W /\ HoldSet' = H
    BY <1>5, <2>2, <2>3 DEF WaitSet, HoldSet, HoldsTree
  <2>5. \A v \in W \cup H : lk_mode'[v] = lk_mode[v]
    BY <1>5, <2>2, <2>3
  <2> HIDE DEF W, H
  <2>6. TreeOk(W, H, lk_mode', lh_ngranted', lh_nblocked', lh_blocked_list')
    BY <1>4, <2>1, <2>5, TreeSame
  <2>7. TreeInv'
    BY <2>4, <2>6 DEF TreeInv, TreeOk, OfMode, InUse
  <2> QED
    BY <1>4, <2>7 DEF K, u
<1> QED
  BY <1>8, <1>9

LEMMA LockInit == Init => LockInv
BY NodesInit, TreeInit DEF LockInv

\* The steps on the child locks do not touch the tree lock.
LEMMA NodeLockKeeps ==
  ASSUME LockInv, NEW t \in Threads, NEW d \in Deps, NodeLock(t, d) PROVE LockInv'
<1>1. NodesInv'
  BY NodeLockNodes DEF LockInv
<1>2. pc[t] = "run" /\ UNCHANGED treeVars /\ (pc' = pc \/ pc' = [pc EXCEPT ![t] = "node"])
  BY DEF NodeLock, NewKey, Join, Enqueue
<1>3. \A u \in Threads : pc'[u] = "wait" <=> pc[u] = "wait"
  BY <1>2 DEF LockInv, NodesInv, Types, CallTypes
<1> QED
  BY <1>1, <1>2, <1>3, TreeAlone DEF LockInv

LEMMA TellKeeps ==
  ASSUME LockInv, NEW t \in Threads, Tell(t) PROVE LockInv'
<1>1. NodesInv'
  BY TellNodes DEF LockInv
<1>2. pc[t] = "tell" /\ UNCHANGED treeVars /\ pc' = [pc EXCEPT ![t] = "run"]
  BY DEF Tell
<1>3. \A u \in Threads : pc'[u] = "wait" <=> pc[u] = "wait"
  BY <1>2 DEF LockInv, NodesInv, Types, CallTypes
<1> QED
  BY <1>1, <1>2, <1>3, TreeAlone DEF LockInv

LEMMA StopListenKeeps ==
  ASSUME LockInv, NEW t \in Threads, NEW d \in Deps, StopListen(t, d) PROVE LockInv'
<1>1. NodesInv'
  BY StopNodes DEF LockInv
<1>2. UNCHANGED treeVars /\ UNCHANGED pc
  BY DEF StopListen
<1> QED
  BY <1>1, <1>2, TreeAlone DEF LockInv

LEMMA NodeUnlockKeeps ==
  ASSUME LockInv, NEW t \in Threads, NEW d \in Deps, NEW listen \in BOOLEAN, NodeUnlock(t, d, listen)
  PROVE  LockInv'
<1>1. NodesInv' /\ \A u \in Threads : pc[u] = "wait" <=> pc'[u] = "wait"
  BY NodeUnlockNodes DEF LockInv
<1>2. UNCHANGED treeVars
  BY DEF NodeUnlock
<1> QED
  BY <1>1, <1>2, TreeAlone DEF LockInv

LEMMA StartReleaseKeeps ==
  ASSUME LockInv, NEW t \in Threads, StartRelease(t) PROVE LockInv'
<1>1. NodesInv'
  BY StartReleaseNodes DEF LockInv
<1>2. pc[t] = "run" /\ UNCHANGED treeVars /\ pc' = [pc EXCEPT ![t] = "release"]
  BY DEF StartRelease
<1>3. \A u \in Threads : pc'[u] = "wait" <=> pc[u] = "wait"
  BY <1>2 DEF LockInv, NodesInv, Types, CallTypes
<1> QED
  BY <1>1, <1>2, <1>3, TreeAlone DEF LockInv

\* A step of the system as one of ten kinds.
LEMMA StepIs ==
  ASSUME Next
  PROVE  \E t \in Threads :
           \/ Lock(t) \/ StartRelease(t) \/ Tell(t) \/ Unlock(t) \/ ChangeLock(t)
           \/ \E d \in Deps : NodeLock(t, d) \/ StopListen(t, d)
           \/ \E d \in Deps, listen \in BOOLEAN : NodeUnlock(t, d, listen)
BY DEF Next, InCaller, ReleaseStep

LEMMA LockStep == LockInv /\ [Next]_vars => LockInv'
<1> SUFFICES ASSUME LockInv, [Next]_vars PROVE LockInv'
  OBVIOUS
<1>1. CASE UNCHANGED vars
  <2>1. UNCHANGED treeVars /\ UNCHANGED nodeVars /\ UNCHANGED <<pc, goal, event>>
    BY <1>1 DEF vars
  <2>2. TreeInv'
    BY <2>1, TreeAlone DEF LockInv
  <2>3. /\ NodeTypes' /\ (\A d \in Deps : DepthOk(NodesAt(d)'))
        /\ \A d \in Deps, u \in Threads : ln_mode'[d][u] = ln_mode[d][u] /\ (IsBlocked(u, d)' <=> IsBlocked(u, d))
    BY <2>1, NodesAlone DEF LockInv
  <2>4. CallTypes' /\ EventDeps \subseteq Deps
    BY <2>1, HtreeAssumption DEF LockInv, NodesInv, Types, CallTypes, treeVars
  <2>5. ASSUME NEW u \in Threads PROVE PlaceOk(u)'
    <3>1. PlaceOk(u) /\ lk_mode'[u] = lk_mode[u] /\ event'[u] = event[u] /\ pc'[u] = pc[u]
      BY <2>1 DEF LockInv, NodesInv, treeVars
    <3> QED
      BY <2>3, <2>4, <3>1, PlaceKept
  <2>6. \A d \in Deps : DepthOk(NodesAt(d))'
    BY <2>3 DEF NodesAt, DepthOk
  <2> QED
    BY <2>2, <2>3, <2>4, <2>5, <2>6 DEF LockInv, NodesInv, Types
<1>2. CASE Next
  <2>1. PICK t \in Threads :
           \/ Lock(t) \/ StartRelease(t) \/ Tell(t) \/ Unlock(t) \/ ChangeLock(t)
           \/ \E d \in Deps : NodeLock(t, d) \/ StopListen(t, d)
           \/ \E d \in Deps, listen \in BOOLEAN : NodeUnlock(t, d, listen)
    BY <1>2, StepIs
  <2>2. CASE Lock(t)
    BY <2>2, LockNodes, LockTreeKeeps DEF LockInv, NodesInv, Types
  <2>3. CASE Unlock(t) \/ ChangeLock(t)
    BY <2>3, UnlockKeeps, UnlockNodes DEF LockInv
  <2> QED
    BY <2>1, <2>2, <2>3, StartReleaseKeeps, TellKeeps, NodeLockKeeps, StopListenKeeps,
       NodeUnlockKeeps
<1> QED
  BY <1>1, <1>2

LEMMA LockInvariant == Spec => []LockInv
BY LockInit, LockStep, PTL DEF Spec

-----------------------------------------------------------------------------
\* TypeOK holds: every list is a family of rings, the counters do not fall
\* below zero (htree_lock.c:639-642, 671-685 and the list_heads).
THEOREM LockTypes == Spec => []TypeOK
<1>1. LockInv => TypeOK
  <2> SUFFICES ASSUME LockInv PROVE TypeOK
    OBVIOUS
  <2>1. Types /\ TreeOk(WaitSet, HoldSet, lk_mode, lh_ngranted, lh_nblocked, lh_blocked_list)
    BY DEF LockInv, NodesInv, TreeInv
  <2>2. ASSUME NEW d \in Deps
        PROVE  /\ ln_mode[d] \in [Threads -> {"INVAL", "NL", "PR", "PW"}]
               /\ ln_key[d] \in [Threads -> Keys \cup {None}]
               /\ owners[d] \subseteq Threads /\ told[d] \in [Threads -> BOOLEAN]
               /\ IsRings(granted_list[d], Threads) /\ IsRings(blocked_list[d], Threads)
               /\ IsRings(alive_list[d], Threads)
    <3>1. Shape(NodesAt(d))
      BY DEF LockInv, NodesInv, DepthOk
    <3> QED
      BY <2>1, <3>1 DEF Shape, NodesAt, Types, NodeTypes, NodeModes
  <2> QED
    BY <2>1, <2>2 DEF TypeOK, Types, CallTypes, TreeOk
<1> QED
  BY <1>1, LockInvariant, PTL

\* TreeLockSound holds: the counters are those of the threads, no two holders
\* conflict, and the first in the queue waits for a holder.
THEOREM TreeLockIsSound == Spec => []TreeLockSound
<1>1. LockInv => TreeLockSound
  <2> SUFFICES ASSUME LockInv PROVE TreeLockSound
    OBVIOUS
  <2>1. TreeOk(WaitSet, HoldSet, lk_mode, lh_ngranted, lh_nblocked, lh_blocked_list)
    BY DEF LockInv, TreeInv
  <2>2. ASSUME NEW m \in Modes
        PROVE  /\ lh_ngranted[m] = Cardinality({t \in Threads : HoldsTree(t) /\ lk_mode[t] = m})
               /\ lh_nblocked[m] = Cardinality({t \in Threads : pc[t] = "wait" /\ lk_mode[t] = m})
    <3>1. /\ OfMode(HoldSet, lk_mode, m) = {t \in Threads : HoldsTree(t) /\ lk_mode[t] = m}
          /\ OfMode(WaitSet, lk_mode, m) = {t \in Threads : pc[t] = "wait" /\ lk_mode[t] = m}
      BY DEF OfMode, HoldSet, WaitSet
    <3> QED
      BY <2>1, <3>1 DEF TreeOk
  <2>3. ToSet(lh_blocked_list) = {t \in Threads : pc[t] = "wait"}
    BY <2>1 DEF TreeOk, ToSet, WaitSet
  <2>4. \A t, u \in Threads :
          t # u /\ HoldsTree(t) /\ HoldsTree(u) => lk_mode[u] \in htree_lock_compat[lk_mode[t]]
    BY <2>1 DEF TreeOk, HoldSet
  <2>5. lh_blocked_list # <<>> =>
          ~(InUse(lh_ngranted) \subseteq htree_lock_compat[lk_mode[lh_blocked_list[1]]])
    BY <2>1 DEF TreeOk
  <2> QED
    BY <2>2, <2>3, <2>4, <2>5 DEF TreeLockSound
<1> QED
  BY <1>1, LockInvariant, PTL

\* NoOvertaking holds: who gets the tree past a waiting thread does not
\* conflict with it (htree_lock.c:633), or was woken before it in the order of the queue.
THEOREM NobodyOvertakes == Spec => NoOvertaking
<1> DEFINE Fair(t, u) ==
             /\ pc[t] = "wait" /\ pc'[t] = "wait" /\ ~Ahead(u, t)
             /\ ~HoldsTree(u) /\ HoldsTree(u)'
             => lk_mode'[u] \in htree_lock_compat[lk_mode[t]]
<1>1. LockInv /\ [Next]_vars => [\A t, u \in Threads : Fair(t, u)]_vars
  <2> SUFFICES ASSUME LockInv, Next, NEW t \in Threads, NEW u \in Threads,
                      pc[t] = "wait", pc'[t] = "wait", ~Ahead(u, t), ~HoldsTree(u), HoldsTree(u)'
               PROVE  lk_mode'[u] \in htree_lock_compat[lk_mode[t]]
    OBVIOUS
  <2>1. /\ CallTypes /\ NodesInv /\ TreeInv /\ t \in WaitSet /\ lk_mode[t] \in Modes
        /\ Counted(WaitSet, lk_mode, lh_nblocked)
    <3>1. CallTypes /\ NodesInv /\ TreeInv /\ t \in WaitSet
      BY DEF LockInv, NodesInv, Types, WaitSet
    <3>2. Counted(WaitSet, lk_mode, lh_nblocked)
      BY <3>1, TreeParts DEF TreeInv
    <3> QED
      BY <3>1, <3>2 DEF Counted
  <2>2. PICK s \in Threads :
           \/ Lock(s) \/ StartRelease(s) \/ Tell(s) \/ Unlock(s) \/ ChangeLock(s)
           \/ \E d \in Deps : NodeLock(s, d) \/ StopListen(s, d)
           \/ \E d \in Deps, listen \in BOOLEAN : NodeUnlock(s, d, listen)
    BY StepIs
  <2>3. CASE Lock(s)
    <3>1. PICK m \in TreeModes : LockTree(s, m, lh_ngranted, lh_nblocked, lh_blocked_list, pc)
      BY <2>3 DEF Lock
    <3>2. lk_mode' = [lk_mode EXCEPT ![s] = m] /\ m \in Modes /\ s # t
          /\ \A v \in Threads \ {s} : pc'[v] = pc[v]
      BY <2>1, <2>3, <3>1, HtreeAssumption DEF LockTree, Lock, CallTypes
    <3>3. u = s
      BY <2>1, <3>2 DEF HoldsTree, CallTypes
    <3>4. InUse(lh_nblocked) \subseteq htree_lock_compat[m]
      BY <2>1, <3>1, <3>3 DEF LockTree, HoldsTree, CallTypes
    <3>5. InUse(lh_nblocked) = {lk_mode[v] : v \in WaitSet}
      BY <2>1, InUseIs
    <3> QED
      BY <2>1, <3>2, <3>3, <3>4, <3>5, CompatSymmetric DEF CallTypes
  <2>4. CASE Unlock(s) \/ ChangeLock(s)
    <3> DEFINE K == UnlockTree(s).woken
    <3>1. pc[s] = "release" /\ s \in HoldSet /\ lk_mode[s] # "INVAL" /\ K \in SUBSET WaitSet
      <4>1. pc[s] = "release"
        BY <2>4 DEF Unlock, ChangeLock
      <4> QED
        BY <2>1, <2>4, <4>1, UnlockKeeps DEF NodesInv, PlaceOk, HoldSet, HoldsTree
    <3>2. \A v \in Threads : Wake(K)[v] = IF v \in K THEN "run" ELSE pc[v]
      BY <2>1, <3>1, WaiterWoken
    <3> HIDE DEF K
    <3>3. \A v \in Threads \ {s} : pc'[v] = Wake(K)[v] /\ lk_mode'[v] = lk_mode[v]
      <4>1. CASE Unlock(s)
        BY <2>1, <4>1 DEF Unlock, Wake, K, CallTypes
      <4>2. CASE ChangeLock(s)
        BY <2>1, <4>2 DEF ChangeLock, LockTree, Wake, K, CallTypes
      <4> QED
        BY <2>4, <4>1, <4>2
    <3>4. u # s /\ t # s
      BY <2>1, <3>1 DEF HoldSet, WaitSet
    <3>5. u \in K /\ t \in WaitSet \ K
      BY <2>1, <3>2, <3>3, <3>4 DEF HoldsTree
    <3>6. Unlocked(WaitSet, HoldSet, s, UnlockTree(s))
      BY <2>1, <3>1, UnlockOk DEF TreeInv
    <3> QED
      BY <3>5, <3>6 DEF Unlocked, K
  <2>5. CASE \/ StartRelease(s) \/ Tell(s)
             \/ \E d \in Deps : NodeLock(s, d) \/ StopListen(s, d)
             \/ \E d \in Deps, listen \in BOOLEAN : NodeUnlock(s, d, listen)
    <3>1. lk_mode' = lk_mode
      BY <2>5 DEF StartRelease, Tell, NodeLock, StopListen, NodeUnlock, treeVars
    <3>2. pc'[u] = "wait" <=> pc[u] = "wait"
      <4>1. CASE StartRelease(s) \/ Tell(s)
        BY <2>1, <4>1 DEF StartRelease, Tell, CallTypes
      <4>2. CASE \E d \in Deps : NodeLock(s, d) \/ StopListen(s, d)
        <5>1. pc' = pc \/ (pc[s] = "run" /\ pc' = [pc EXCEPT ![s] = "node"])
          <6>1. \A d \in Deps : StopListen(s, d) => pc' = pc
            BY DEF StopListen
          <6>2. \A d \in Deps : NodeLock(s, d) =>
                  pc[s] = "run" /\ (pc' = pc \/ pc' = [pc EXCEPT ![s] = "node"])
            <7> SUFFICES ASSUME NEW d \in Deps, NodeLock(s, d)
                         PROVE  pc[s] = "run" /\ (pc' = pc \/ pc' = [pc EXCEPT ![s] = "node"])
              OBVIOUS
            <7> QED
              BY DEF NodeLock, NewKey, Join, Enqueue
          <6> QED
            BY <4>2, <6>1, <6>2
        <5> QED
          BY <2>1, <5>1 DEF CallTypes
      <4>3. CASE \E d \in Deps, listen \in BOOLEAN : NodeUnlock(s, d, listen)
        BY <2>1, <4>3, NodeUnlockNodes
      <4> QED
        BY <2>5, <4>1, <4>2, <4>3
    <3> QED
      BY <3>1, <3>2 DEF HoldsTree
  <2> QED
    BY <2>2, <2>3, <2>4, <2>5
<1> QED
  BY <1>1, LockInvariant, PTL DEF Spec, NoOvertaking

\* KeyRings holds: each key in use has one owner, its rings are its holders,
\* those who wait and everybody on it, and who waits is kept waiting by a holder.
THEOREM RingsAreKeys == Spec => []KeyRings
<1>1. LockInv => KeyRings
  <2> SUFFICES ASSUME LockInv, NEW d \in Deps, NEW k \in Keys, OnKey(d, k) # {}
               PROVE  \E o \in OnKey(d, k) :
                        /\ owners[d] \cap OnKey(d, k) = {o}
                        /\ HeldOn(d, k) # {} =>
                             o \in HeldOn(d, k) /\ RingOf(granted_list[d], o) = HeldOn(d, k)
                        /\ RingOf(blocked_list[d], o) = {o} \cup BlockedOn(d, k)
                        /\ RingOf(alive_list[d], o) = OnKey(d, k)
                        /\ BlockedOn(d, k) # {} =>
                             /\ "PW" \in {ln_mode[d][o], ln_mode[d][blocked_list[d][o]]}
                             /\ o \in HeldOn(d, k)
                        /\ \A t \in Threads : IsBlocked(t, d) => pc[t] = "node"
    BY DEF KeyRings
  <2> DEFINE x == NodesAt(d)
  <2>1. NodesInv /\ DepthOk(x) /\ Shape(x)
    BY AtDepth DEF LockInv
  <2>2. /\ \A t \in Threads : IsBlocked(t, d) <=> Waits(x, t)
        /\ \A t \in Threads : IsGranted(t, d) <=> Holds(x, t)
    BY <2>1, AtDepth
  <2>3. OnKey(d, k) = On(x, k)
    BY DEF OnKey, On, NodesAt
  <2>4. HeldOn(d, k) = Holders(x, k) /\ BlockedOn(d, k) = Waiters(x, k)
    BY <2>2, <2>3 DEF HeldOn, BlockedOn, Holders, Waiters, On
  <2>5. /\ x.mode = ln_mode[d] /\ x.key = ln_key[d] /\ x.owners = owners[d]
        /\ x.granted = granted_list[d] /\ x.blocked = blocked_list[d] /\ x.alive = alive_list[d]
    BY DEF NodesAt
  <2> HIDE DEF x
  <2>6. PICK o \in Threads : OwnerOk(x, k, o)
    BY <2>1, <2>3 DEF DepthOk, KeyOk
  <2>7. DOMAIN x.granted = Threads /\ DOMAIN x.blocked = Threads /\ DOMAIN x.alive = Threads
    BY <2>1 DEF Shape, IsRings
  <2>8. On(x, k) \in SUBSET Threads /\ Holders(x, k) \in SUBSET Threads
        /\ {o} \cup Waiters(x, k) \in SUBSET Threads
    BY DEF On, Holders, Waiters
  <2>9. o \in On(x, k) /\ owners[d] \cap On(x, k) = {o}
    BY <2>5, <2>6 DEF OwnerOk, On
  <2>10. RingOf(x.alive, o) = On(x, k)
    BY <2>6, <2>7, <2>8, <2>9, CycleIsRing DEF OwnerOk
  <2>11. RingOf(x.blocked, o) = {o} \cup Waiters(x, k)
    BY <2>6, <2>7, <2>8, CycleIsRing DEF OwnerOk
  <2>12. Holders(x, k) # {} => o \in Holders(x, k) /\ RingOf(x.granted, o) = Holders(x, k)
    BY <2>6, <2>7, <2>8, CycleIsRing DEF OwnerOk
  <2>13. Waiters(x, k) # {} => o \in Holders(x, k) /\ "PW" \in {x.mode[o], x.mode[x.blocked[o]]}
    BY <2>6 DEF OwnerOk
  <2>14. \A t \in Threads : IsBlocked(t, d) => pc[t] = "node"
    BY <2>1 DEF NodesInv, PlaceOk
  <2> QED
    BY <2>3, <2>4, <2>5, <2>9, <2>10, <2>11, <2>12, <2>13, <2>14
<1> QED
  BY <1>1, LockInvariant, PTL

-----------------------------------------------------------------------------
(***************************************************************************)
(* The child locks keep the promises of ChildLocks.  Who waits for a key   *)
(* has none yet.                                                           *)
(***************************************************************************)
ChildMode == [d \in Deps |-> [t \in Threads |-> IF IsBlocked(t, d) THEN "INVAL" ELSE ln_mode[d][t]]]
ChildKey == [d \in Deps |-> [t \in Threads |->
               IF IsBlocked(t, d) \/ ln_mode[d][t] = "INVAL" THEN None ELSE ln_key[d][t]]]

\* What depth d shows, for a thread u that waits there or does not.
LEMMA Shown ==
  ASSUME NodesInv, NEW d \in Deps, NEW u \in Threads
  PROVE  /\ IsBlocked(u, d) => /\ ChildMode[d][u] = "INVAL" /\ ChildKey[d][u] = None
                               /\ ln_mode[d][u] \in {"PR", "PW"} /\ ln_key[d][u] \in Keys
         /\ ~IsBlocked(u, d) => ChildMode[d][u] = ln_mode[d][u] /\ ChildKey[d][u] = ln_key[d][u]
         /\ ln_mode[d][u] \in NodeModes /\ (ln_mode[d][u] = "INVAL" <=> ln_key[d][u] = None)
<1> DEFINE x == NodesAt(d)
<1>1. DepthOk(x) /\ Shape(x) /\ (IsBlocked(u, d) <=> Waits(x, u))
  BY AtDepth
<1>2. x.mode = ln_mode[d] /\ x.key = ln_key[d]
  BY DEF NodesAt
<1>3. /\ ChildMode[d][u] = (IF IsBlocked(u, d) THEN "INVAL" ELSE ln_mode[d][u])
      /\ ChildKey[d][u] = (IF IsBlocked(u, d) \/ ln_mode[d][u] = "INVAL" THEN None ELSE ln_key[d][u])
  BY DEF ChildMode, ChildKey
<1> HIDE DEF x
<1>4. NodeOk(x, u) /\ (Waits(x, u) => x.mode[u] \in {"PR", "PW"})
  BY <1>1, WaitsOn DEF DepthOk
<1>5. None \notin Keys
  BY HtreeAssumption
<1> QED
  BY <1>1, <1>2, <1>3, <1>4, <1>5 DEF NodeOk, Shape

AllShown == \A d \in Deps, u \in Threads :
    /\ IsBlocked(u, d) => ChildMode[d][u] = "INVAL" /\ ChildKey[d][u] = None
    /\ ~IsBlocked(u, d) => ChildMode[d][u] = ln_mode[d][u] /\ ChildKey[d][u] = ln_key[d][u]

LEMMA ShownAll == NodesInv => AllShown
BY Shown DEF AllShown

LEMMA ShownNext ==
  ASSUME NodesInv', NEW d \in Deps, NEW u \in Threads
  PROVE  /\ IsBlocked(u, d)' => ChildMode'[d][u] = "INVAL" /\ ChildKey'[d][u] = None
         /\ ~IsBlocked(u, d)' =>
              ChildMode'[d][u] = ln_mode'[d][u] /\ ChildKey'[d][u] = ln_key'[d][u]
<1>1. AllShown'
  BY ShownAll, PTL
<1> QED
  BY <1>1 DEF AllShown

\* A step at depth d is one in the row of d.
RowOnly(d) ==
    /\ ChildMode' = [ChildMode EXCEPT ![d] = ChildMode'[d]]
    /\ ChildKey' = [ChildKey EXCEPT ![d] = ChildKey'[d]]
    /\ told' = [told EXCEPT ![d] = told'[d]]

LEMMA RowStep ==
  ASSUME NodesInv, NEW d \in Deps, OthersKept(d), DepthOk(NodesAt(d)'), told'[d] \in [Threads -> BOOLEAN]
  PROVE  RowOnly(d)
<1>1. \A e \in Deps \ {d} : /\ ln_mode'[e] = ln_mode[e] /\ ln_key'[e] = ln_key[e]
                            /\ \A u \in Threads : IsBlocked(u, e)' <=> IsBlocked(u, e)
  <2>1. \A e \in Deps \ {d} : ln_key'[e] = ln_key[e]
    BY DEF OthersKept, NodesInv, Types, NodeTypes
  <2> QED
    BY <2>1, DepthsKept
<1>2. \A e \in Deps \ {d} : ChildMode'[e] = ChildMode[e] /\ ChildKey'[e] = ChildKey[e]
  BY <1>1 DEF ChildMode, ChildKey
<1>3. /\ DOMAIN ChildMode' = Deps /\ DOMAIN ChildMode = Deps /\ DOMAIN ChildKey' = Deps /\ DOMAIN ChildKey = Deps
      /\ ChildMode' = [e \in Deps |-> ChildMode'[e]] /\ ChildMode = [e \in Deps |-> ChildMode[e]]
      /\ ChildKey' = [e \in Deps |-> ChildKey'[e]] /\ ChildKey = [e \in Deps |-> ChildKey[e]]
  BY DEF ChildMode, ChildKey
<1>4. told' = [told EXCEPT ![d] = told'[d]]
  BY DEF OthersKept
<1> QED
  BY <1>2, <1>3, <1>4 DEF RowOnly

\* A row of the map after a step.
LEMMA RowIs ==
  ASSUME NEW d \in Deps
  PROVE  /\ ChildMode[d] = [t \in Threads |-> ChildMode[d][t]]
         /\ ChildKey[d] = [t \in Threads |-> ChildKey[d][t]]
         /\ ChildMode'[d] = [t \in Threads |-> ChildMode'[d][t]]
         /\ ChildKey'[d] = [t \in Threads |-> ChildKey'[d][t]]
BY DEF ChildMode, ChildKey

LEMMA NewKeyTakes ==
  ASSUME NodesInv, NodesInv', NEW t \in Threads, NEW d \in Deps, NEW k \in Keys,
         NEW m \in {"PR", "PW"}, ln_mode[d][t] = "INVAL", NewKey(t, d, k, m)
  PROVE  Child!Take(t, d, k, m, FALSE)
<1>1. /\ OthersKept(d) /\ DepthOk(NodesAt(d)') /\ On(NodesAt(d), k) = {}
      /\ \A u \in Threads : IsBlocked(u, d)' <=> IsBlocked(u, d)
  BY NewKeyStep
<1>2. /\ ln_mode'[d] = [ln_mode[d] EXCEPT ![t] = m] /\ ln_key'[d] = [ln_key[d] EXCEPT ![t] = k]
      /\ told' = told /\ told[d] \in [Threads -> BOOLEAN]
      /\ ln_mode[d] \in [Threads -> NodeModes] /\ ln_key[d] \in [Threads -> Keys \cup {None}]
  BY DEF NewKey, SetDep, NodesInv, Types, NodeTypes
<1>3. RowOnly(d)
  BY <1>1, <1>2, RowStep
<1>4. ~IsBlocked(t, d) /\ ChildMode[d][t] = "INVAL"
  BY Shown
<1>5. ASSUME NEW u \in Threads
      PROVE  /\ ChildMode'[d][u] = (IF u = t THEN m ELSE ChildMode[d][u])
             /\ ChildKey'[d][u] = (IF u = t THEN k ELSE ChildKey[d][u])
  BY <1>1, <1>2, <1>4, Shown, ShownNext
<1>6. ChildMode'[d] = [ChildMode[d] EXCEPT ![t] = m] /\ ChildKey'[d] = [ChildKey[d] EXCEPT ![t] = k]
  BY <1>5, RowIs
<1>7. \A u \in Threads : ~(ChildKey[d][u] = k /\ ChildMode[d][u] \in {"PR", "PW"})
  BY <1>1, Shown, HtreeAssumption DEF On, NodesAt
<1>8. told' = [told EXCEPT ![d] = [u \in Threads |-> told[d][u] \/ FALSE]]
  BY <1>2 DEF NodesInv, Types, NodeTypes
<1> QED
  BY <1>3, <1>4, <1>6, <1>7, <1>8 DEF Child!Take, Child!Free, Child!Held, Child!At, ChildMode, ChildKey, RowOnly

LEMMA JoinTakes ==
  ASSUME NodesInv, NodesInv', NEW t \in Threads, NEW d \in Deps, NEW k \in Keys,
         NEW m \in {"PR", "PW"}, NEW ev \in BOOLEAN, ln_mode[d][t] = "INVAL", Join(t, d, k, m, ev)
  PROVE  Child!Take(t, d, k, m, ev)
<1> DEFINE x == NodesAt(d)
<1>1. PICK ring :
        /\ OthersKept(d) /\ DepthOk(NodesAt(d)')
        /\ \A u \in Threads : IsBlocked(u, d)' <=> IsBlocked(u, d)
        /\ told'[d] = [u \in Threads |-> told[d][u] \/ (Tells(d, m, ev) /\ u \in Listeners(d, ring, t))]
        /\ Listeners(d, ring, t) = {u \in Threads : ln_mode[d][u] = "NL" /\ ln_key[d][u] = k}
  BY JoinStep
<1>2. PICK o \in SameKey(t, d, k) :
        /\ ln_mode[d][o] = "NL" \/ "PW" \notin {ln_mode[d][o], m}
        /\ SetDep(ln_mode, d, [ln_mode[d] EXCEPT ![t] = m])
        /\ SetDep(ln_key, d, [ln_key[d] EXCEPT ![t] = k])
  BY DEF Join
<1>3. /\ ln_mode'[d] = [ln_mode[d] EXCEPT ![t] = m] /\ ln_key'[d] = [ln_key[d] EXCEPT ![t] = k]
      /\ told[d] \in [Threads -> BOOLEAN]
      /\ ln_mode[d] \in [Threads -> NodeModes] /\ ln_key[d] \in [Threads -> Keys \cup {None}]
  BY <1>2 DEF SetDep, NodesInv, Types, NodeTypes
<1>4. RowOnly(d)
  <2>1. told'[d] \in [Threads -> BOOLEAN]
    BY <1>1
  <2> QED
    BY <1>1, <2>1, RowStep
<1>5. ~IsBlocked(t, d) /\ ChildMode[d][t] = "INVAL"
  BY Shown
<1>6. ASSUME NEW u \in Threads
      PROVE  /\ ChildMode'[d][u] = (IF u = t THEN m ELSE ChildMode[d][u])
             /\ ChildKey'[d][u] = (IF u = t THEN k ELSE ChildKey[d][u])
  BY <1>1, <1>3, <1>5, Shown, ShownNext
<1>7. ChildMode'[d] = [ChildMode[d] EXCEPT ![t] = m] /\ ChildKey'[d] = [ChildKey[d] EXCEPT ![t] = k]
  BY <1>6, RowIs
<1>8. ASSUME NEW u \in Threads, ChildKey[d][u] = k, ChildMode[d][u] \in {"PR", "PW"}
      PROVE  "PW" \notin {m, ChildMode[d][u]}
  <2>1. OwnerOk(x, k, o) /\ o \in Threads
    BY SameKeyIs
  <2>2. /\ ~IsBlocked(u, d) /\ ln_key[d][u] = k /\ ln_mode[d][u] = ChildMode[d][u]
    BY <1>8, Shown
  <2>3. x.mode = ln_mode[d] /\ x.key = ln_key[d] /\ (IsBlocked(u, d) <=> Waits(x, u))
    BY AtDepth DEF NodesAt
  <2> HIDE DEF x
  <2>4. u \in Holders(x, k)
    BY <1>8, <2>2, <2>3 DEF Holders, Holds, On
  <2>5. o \in Holders(x, k) /\ \A v \in Holders(x, k) : v # o => x.mode[v] = "PR"
    BY <2>1, <2>4 DEF OwnerOk
  <2>6. "PW" \notin {x.mode[o], m}
    BY <1>2, <2>3, <2>5 DEF Holders, Holds
  <2> QED
    BY <2>2, <2>3, <2>4, <2>5, <2>6
<1>9. told' = [told EXCEPT ![d] = [u \in Threads |->
         told[d][u] \/ (ev /\ m = "PW" /\ d \in EventDeps
                          /\ ChildMode[d][u] = "NL" /\ ChildKey[d][u] = k)]]
  <2>1. ASSUME NEW u \in Threads
        PROVE  ChildMode[d][u] = "NL" /\ ChildKey[d][u] = k <=> ln_mode[d][u] = "NL" /\ ln_key[d][u] = k
    BY Shown
  <2>2. \A u \in Threads : (Tells(d, m, ev) /\ u \in Listeners(d, ring, t))
          <=> (ev /\ m = "PW" /\ d \in EventDeps /\ ChildMode[d][u] = "NL" /\ ChildKey[d][u] = k)
    BY <1>1, <2>1 DEF Tells
  <2>3. told'[d] = [u \in Threads |-> told[d][u] \/
          (ev /\ m = "PW" /\ d \in EventDeps /\ ChildMode[d][u] = "NL" /\ ChildKey[d][u] = k)]
    BY <1>1, <2>2, Zenon
  <2> QED
    BY <1>4, <2>3 DEF RowOnly
<1> QED
  BY <1>4, <1>5, <1>7, <1>8, <1>9 DEF Child!Take, Child!Free, Child!Held, Child!At, ChildMode, ChildKey, RowOnly

\* Nothing that callers were promised changes.
SameChild == ChildMode' = ChildMode /\ ChildKey' = ChildKey /\ told' = told

LEMMA EnqueueShowsNothing ==
  ASSUME NodesInv, NodesInv', NEW t \in Threads, NEW d \in Deps, NEW k \in Keys,
         NEW m \in {"PR", "PW"}, NEW ev \in BOOLEAN, ln_mode[d][t] = "INVAL", Enqueue(t, d, k, m, ev)
  PROVE  SameChild
<1>1. /\ OthersKept(d) /\ DepthOk(NodesAt(d)') /\ told' = told
      /\ \A u \in Threads : IsBlocked(u, d)' <=> IsBlocked(u, d) \/ u = t
      /\ ln_mode' = [ln_mode EXCEPT ![d] = [ln_mode[d] EXCEPT ![t] = m]]
      /\ ln_key' = [ln_key EXCEPT ![d] = [ln_key[d] EXCEPT ![t] = k]]
  BY EnqueueStep
<1>2. /\ ln_mode'[d] = [ln_mode[d] EXCEPT ![t] = m] /\ ln_key'[d] = [ln_key[d] EXCEPT ![t] = k]
      /\ told[d] \in [Threads -> BOOLEAN]
      /\ ln_mode[d] \in [Threads -> NodeModes] /\ ln_key[d] \in [Threads -> Keys \cup {None}]
  BY <1>1 DEF NodesInv, Types, NodeTypes
<1>3. RowOnly(d)
  BY <1>1, <1>2, RowStep
<1>4. \A u \in Threads : ChildMode'[d][u] = ChildMode[d][u] /\ ChildKey'[d][u] = ChildKey[d][u]
  BY <1>1, <1>2, Shown, ShownNext
<1>5. ChildMode'[d] = ChildMode[d] /\ ChildKey'[d] = ChildKey[d]
  BY <1>4, RowIs
<1>6. [ChildMode EXCEPT ![d] = ChildMode[d]] = ChildMode /\ [ChildKey EXCEPT ![d] = ChildKey[d]] = ChildKey
  BY DEF ChildMode, ChildKey
<1> QED
  BY <1>1, <1>3, <1>5, <1>6 DEF RowOnly, SameChild

LEMMA TellTells ==
  ASSUME NodesInv, NEW t \in Threads, Tell(t)
  PROVE  \E d \in Deps : Child!Tell(t, d)
<1>0. PICK d \in Deps : d = event[t]
  BY HtreeAssumption DEF Tell, NodesInv, PlaceOk
<1> DEFINE x == NodesAt(d)
<1>1. /\ pc[t] = "tell" /\ d \in EventDeps /\ d \in Deps /\ ln_mode[d][t] = "PW"
      /\ \A e \in Deps : ~IsBlocked(t, e)
  BY <1>0, HtreeAssumption DEF Tell, NodesInv, PlaceOk
<1>2. /\ SetDep(told, d, [u \in Threads |-> told[d][u] \/ u \in Listeners(d, alive_list[d], t)])
      /\ UNCHANGED <<ln_mode, ln_key, owners, blocked_list>>
  BY <1>0 DEF Tell
<1>3. ChildMode[d][t] = "PW" /\ ChildKey[d][t] = ln_key[d][t]
  BY <1>1, Shown
<1>4. ChildMode' = ChildMode /\ ChildKey' = ChildKey
  BY <1>2 DEF ChildMode, ChildKey, IsBlocked, Empty
<1>5. Listeners(d, alive_list[d], t) = {u \in Threads : ln_mode[d][u] = "NL" /\ ln_key[d][u] = ln_key[d][t]}
  <2>1. DepthOk(x) /\ Shape(x) /\ x.mode = ln_mode[d] /\ x.key = ln_key[d] /\ x.alive = alive_list[d]
    BY <1>1, AtDepth DEF NodesAt
  <2> HIDE DEF x
  <2> DEFINE k == x.key[t]
  <2>2. k \in Keys /\ t \in On(x, k) /\ \E o \in Threads : OwnerOk(x, k, o)
    BY <1>1, <2>1, OwnerOf DEF On
  <2> HIDE DEF k
  <2>3. On(x, k) \in SUBSET DOMAIN x.alive
    BY <2>1 DEF Shape, IsRings, On
  <2>4. RingOf(x.alive, t) = On(x, k)
    BY <2>2, <2>3, CycleIsRing DEF OwnerOk
  <2> QED
    BY <1>1, <2>1, <2>4 DEF Listeners, On, k
<1>6. ASSUME NEW u \in Threads
      PROVE  ChildMode[d][u] = "NL" /\ ChildKey[d][u] = ChildKey[d][t]
               <=> ln_mode[d][u] = "NL" /\ ln_key[d][u] = ln_key[d][t]
  BY <1>1, <1>3, Shown
<1>7. \A u \in Threads : u \in Listeners(d, alive_list[d], t)
        <=> (ChildMode[d][u] = "NL" /\ ChildKey[d][u] = ChildKey[d][t])
  BY <1>5, <1>6
<1>8. [u \in Threads |-> told[d][u] \/ u \in Listeners(d, alive_list[d], t)]
        = [u \in Threads |-> told[d][u] \/ (ChildMode[d][u] = "NL" /\ ChildKey[d][u] = ChildKey[d][t])]
  BY <1>7, Zenon
<1>9. told' = [told EXCEPT ![d] = [u \in Threads |->
         told[d][u] \/ (ChildMode[d][u] = "NL" /\ ChildKey[d][u] = ChildKey[d][t])]]
  BY <1>2, <1>8 DEF SetDep
<1>10. Child!Tell(t, d)
  BY <1>1, <1>3, <1>4, <1>9 DEF Child!Tell, Child!At, ChildMode, ChildKey
<1> QED
  BY <1>10

LEMMA StopQuiets ==
  ASSUME NodesInv, NodesInv', NEW t \in Threads, NEW d \in Deps, StopListen(t, d)
  PROVE  Child!Quiet(t, d)
<1>1. /\ OthersKept(d) /\ DepthOk(NodesAt(d)')
      /\ \A u \in Threads : IsBlocked(u, d)' <=> IsBlocked(u, d)
  BY StopStep
<1>2. /\ ln_mode'[d] = [ln_mode[d] EXCEPT ![t] = "INVAL"] /\ ln_key'[d] = [ln_key[d] EXCEPT ![t] = None]
      /\ told' = [told EXCEPT ![d] = [told[d] EXCEPT ![t] = FALSE]]
      /\ told'[d] \in [Threads -> BOOLEAN] /\ ln_mode[d][t] = "NL"
      /\ ln_mode[d] \in [Threads -> NodeModes] /\ ln_key[d] \in [Threads -> Keys \cup {None}]
  BY DEF StopListen, IsListening, SetDep, NodesInv, Types, NodeTypes
<1>3. RowOnly(d)
  BY <1>1, <1>2, RowStep
<1>4. ~IsBlocked(t, d) /\ ChildMode[d][t] = "NL"
  BY <1>2, Shown
<1>5. ASSUME NEW u \in Threads
      PROVE  /\ ChildMode'[d][u] = (IF u = t THEN "INVAL" ELSE ChildMode[d][u])
             /\ ChildKey'[d][u] = (IF u = t THEN None ELSE ChildKey[d][u])
  BY <1>1, <1>2, <1>4, Shown, ShownNext
<1>6. /\ ChildMode'[d] = [ChildMode[d] EXCEPT ![t] = "INVAL"]
      /\ ChildKey'[d] = [ChildKey[d] EXCEPT ![t] = None]
  BY <1>5, RowIs
<1> QED
  BY <1>2, <1>3, <1>4, <1>6 DEF Child!Quiet, Child!At, ChildMode, ChildKey, RowOnly

\* No two threads hold a key of which one is a writer.
LEMMA HoldersExclude == NodesInv => Child!Exclusive
<1> SUFFICES ASSUME NodesInv, NEW d \in Deps, NEW t \in Threads, NEW u \in Threads,
                    t # u, ChildKey[d][t] = ChildKey[d][u],
                    {ChildMode[d][t], ChildMode[d][u]} \subseteq {"PR", "PW"}
             PROVE  ChildMode[d][t] = "PR" /\ ChildMode[d][u] = "PR"
  BY DEF Child!Exclusive, Child!Held, ChildMode, ChildKey
<1> DEFINE x == NodesAt(d)
<1>1. /\ ~IsBlocked(t, d) /\ ~IsBlocked(u, d)
      /\ ChildMode[d][t] = ln_mode[d][t] /\ ChildMode[d][u] = ln_mode[d][u]
      /\ ln_key[d][t] = ln_key[d][u]
  BY Shown
<1>2. DepthOk(x) /\ (\A v \in Threads : IsBlocked(v, d) <=> Waits(x, v))
      /\ x.mode = ln_mode[d] /\ x.key = ln_key[d]
  BY AtDepth DEF NodesAt
<1> HIDE DEF x
<1>3. PICK o \in Threads : OwnerOk(x, x.key[t], o)
  BY <1>1, <1>2, OwnerOf
<1>4. t \in Holders(x, x.key[t]) /\ u \in Holders(x, x.key[t])
  BY <1>1, <1>2 DEF Holders, Holds, On
<1> QED
  BY <1>1, <1>2, <1>3, <1>4 DEF OwnerOk

LEMMA NodeUnlockHandsOn ==
  ASSUME NodesInv, NodesInv', NEW t \in Threads, NEW d \in Deps, NEW listen \in BOOLEAN,
         NodeUnlock(t, d, listen)
  PROVE  Child!HandOn(t, d, listen)
<1> DEFINE m == ModeOf(d, listen)
           G == {u \in Threads \ {t} : ChildMode[d][u] # ChildMode'[d][u]}
<1>1. /\ OthersKept(d) /\ DepthOk(NodesAt(d)') /\ Left(t, d, m) /\ WakesAt(t, d)
      /\ IsGranted(t, d) /\ SetDep(told, d, [told[d] EXCEPT ![t] = FALSE])
  BY UnlockStep DEF NodeUnlock
<1>2. m \in {"NL", "INVAL"} /\ (m = "NL" <=> listen /\ d \in EventDeps)
  BY DEF ModeOf
<1> HIDE DEF m
<1>3. /\ ln_mode'[d] = [ln_mode[d] EXCEPT ![t] = m]
      /\ ln_key'[d] = [ln_key[d] EXCEPT ![t] = IF m = "NL" THEN @ ELSE None]
      /\ ln_mode[d] \in [Threads -> NodeModes] /\ ln_key[d] \in [Threads -> Keys \cup {None}]
      /\ told'[d] \in [Threads -> BOOLEAN]
  BY <1>1 DEF Left, NodesInv, Types, NodeTypes
<1>4. PICK woken \in SUBSET Threads :
        /\ \A u \in woken : IsBlocked(u, d) /\ ln_key[d][u] = ln_key[d][t]
        /\ \A u \in Threads : IsBlocked(u, d)' <=> IsBlocked(u, d) /\ u \notin woken
  BY <1>1 DEF WakesAt
<1>5. RowOnly(d)
  BY <1>1, <1>3, RowStep
<1>6. /\ ~IsBlocked(t, d) /\ ChildMode[d][t] = ln_mode[d][t] /\ ln_mode[d][t] \in {"PR", "PW"}
      /\ ChildKey[d][t] = ln_key[d][t]
  BY <1>1, Shown DEF IsGranted
<1>7. ChildMode'[d][t] = m /\ ChildKey'[d][t] = IF m = "NL" THEN ChildKey[d][t] ELSE None
  BY <1>3, <1>4, <1>6, ShownNext
<1>8. ASSUME NEW u \in Threads \ {t}
      PROVE  /\ u \in woken => /\ ChildMode[d][u] = "INVAL" /\ ChildMode'[d][u] \in {"PR", "PW"}
                               /\ ChildKey'[d][u] = ChildKey[d][t]
             /\ u \notin woken => /\ ChildMode'[d][u] = ChildMode[d][u]
                                  /\ ChildKey'[d][u] = ChildKey[d][u]
  BY <1>3, <1>4, <1>6, Shown, ShownNext
<1>9. /\ \A u \in G : ChildMode[d][u] = "INVAL" /\ ChildMode'[d][u] \in {"PR", "PW"}
      /\ \A u \in Threads : ChildKey'[d][u] = (IF u \in G THEN ChildKey[d][t]
                                               ELSE IF u = t /\ m # "NL" THEN None ELSE ChildKey[d][u])
  BY <1>6, <1>7, <1>8
<1>10. ChildKey'[d] = [u \in Threads |-> IF u \in G THEN ChildKey[d][t]
                                         ELSE IF u = t /\ ~(listen /\ d \in EventDeps) THEN None
                                         ELSE ChildKey[d][u]]
  BY <1>2, <1>9, RowIs
<1>11. ChildMode'[d][t] = IF listen /\ d \in EventDeps THEN "NL" ELSE "INVAL"
  BY <1>2, <1>7
<1>12. Child!Exclusive'
  BY HoldersExclude, PTL
<1> QED
  BY <1>1, <1>5, <1>6, <1>9, <1>10, <1>11, <1>12
     DEF Child!HandOn, Child!Held, Child!At, ChildMode, ChildKey, RowOnly, SetDep

LEMMA AloneShowsNothing ==
  ASSUME UNCHANGED nodeVars PROVE SameChild
BY DEF SameChild, nodeVars, ChildMode, ChildKey, IsBlocked, Empty

\* KeysImplement holds: what the rings do at a depth is what ChildLocks promises, a
\* thread that queues up and every step on the tree lock change nothing there.
THEOREM RingsImplement == Spec => KeysImplement
<1>1. Init => Child!ChildInit
  <2> SUFFICES ASSUME Init PROVE Child!ChildInit
    OBVIOUS
  <2>1. \A d \in Deps, t \in Threads : ~IsBlocked(t, d)
    BY LooseRings DEF Init, IsBlocked, Empty, Loose
  <2> QED
    BY <2>1 DEF Init, Child!ChildInit
<1>2. LockInv /\ LockInv' /\ [Next]_vars => [Child!ChildNext]_(Child!childVars)
  <2> SUFFICES ASSUME LockInv, LockInv', [Next]_vars
               PROVE  Child!ChildNext \/ SameChild
    BY DEF SameChild, Child!childVars, ChildMode, ChildKey
  <2>1. NodesInv /\ NodesInv'
    BY DEF LockInv
  <2>2. CASE UNCHANGED vars
    <3>1. UNCHANGED nodeVars
      BY <2>2 DEF vars
    <3> QED
      BY <3>1, AloneShowsNothing
  <2>3. CASE Next
    <3>1. PICK t \in Threads :
             \/ Lock(t) \/ StartRelease(t) \/ Tell(t) \/ Unlock(t) \/ ChangeLock(t)
             \/ \E d \in Deps : NodeLock(t, d) \/ StopListen(t, d)
             \/ \E d \in Deps, listen \in BOOLEAN : NodeUnlock(t, d, listen)
      BY <2>3, StepIs
    <3>2. CASE Lock(t) \/ StartRelease(t) \/ Unlock(t) \/ ChangeLock(t)
      <4>1. UNCHANGED nodeVars
        BY <3>2 DEF Lock, StartRelease, Unlock, ChangeLock
      <4> QED
        BY <4>1, AloneShowsNothing
    <3>3. CASE Tell(t)
      <4>1. PICK d \in Deps : Child!Tell(t, d)
        BY <2>1, <3>3, TellTells
      <4> QED
        BY <4>1 DEF Child!ChildNext
    <3>4. ASSUME NEW d \in Deps, NodeLock(t, d) PROVE Child!ChildNext \/ SameChild
      <4>1. PICK k \in Keys, m \in {"PR", "PW"}, ev \in BOOLEAN :
               NewKey(t, d, k, m) \/ Join(t, d, k, m, ev) \/ Enqueue(t, d, k, m, ev)
        BY <3>4 DEF NodeLock
      <4>2. ln_mode[d][t] = "INVAL"
        BY <3>4 DEF NodeLock
      <4>3. NewKey(t, d, k, m) => Child!Take(t, d, k, m, FALSE)
        BY <2>1, <4>2, NewKeyTakes
      <4>4. Join(t, d, k, m, ev) => Child!Take(t, d, k, m, ev)
        BY <2>1, <4>2, JoinTakes
      <4>5. Enqueue(t, d, k, m, ev) => SameChild
        BY <2>1, <4>2, EnqueueShowsNothing
      <4> QED
        BY <4>1, <4>3, <4>4, <4>5 DEF Child!ChildNext, Child!Held
    <3>5. ASSUME NEW d \in Deps, StopListen(t, d) PROVE Child!ChildNext
      BY <2>1, <3>5, StopQuiets DEF Child!ChildNext
    <3>6. ASSUME NEW d \in Deps, NEW listen \in BOOLEAN, NodeUnlock(t, d, listen)
          PROVE  Child!ChildNext
      BY <2>1, <3>6, NodeUnlockHandsOn DEF Child!ChildNext
    <3> QED
      BY <3>1, <3>2, <3>3, <3>4, <3>5, <3>6
  <2> QED
    BY <2>2, <2>3
<1> QED
  BY <1>1, <1>2, LockInvariant, PTL DEF Spec, KeysImplement, Child!ChildSpec
=============================================================================
