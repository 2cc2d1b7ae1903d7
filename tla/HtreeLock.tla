----------------------------- MODULE HtreeLock -----------------------------
(***************************************************************************)
(* The lock of a directory tree in ldiskfs (htree_lock.c): one lock in     *)
(* five modes for the whole tree and, at each depth dep, child locks in    *)
(* two modes (PR, PW) on keys.  A thread owns one htree_lock and through   *)
(* it holds the tree and at most one key of each depth; a thread that has  *)
(* released a key may go on listening there (mode NL) for later writers.   *)
(*                                                                         *)
(* The waiting and the granted locks of a key hang on its owner, one of    *)
(* the locks themselves, which hands everything over as it leaves.         *)
(***************************************************************************)
EXTENDS ListRings

CONSTANTS
    Threads,      \* a thread and its struct htree_lock
    Depth,        \* lh_depth
    Keys,         \* hashed keys, of every depth
    TreeModes,    \* the modes in which callers lock the tree
    EventDeps,    \* the depths with a callback attached, for HTREE_EVENT_WR
    None          \* no thread

Modes == {"EX", "PW", "PR", "CW", "CR"}
Deps == 0 .. Depth - 1

ASSUME HtreeAssumption ==
    /\ Depth \in Nat /\ EventDeps \subseteq Deps
    /\ TreeModes \subseteq Modes /\ IsFiniteSet(Threads)
    /\ None \notin Threads \cup Keys \cup Deps

VARIABLES
    pc,           \* "run" in the caller, "wait" for the tree, "node" for a
                  \* key, "tell" woken with an event to tell of, "release" in
                  \* htree_node_release_all
    goal,         \* what follows the release: "unlock", or the new mode
    event,        \* the depth of the event that a thread waiting for a key has for
                  \* its listeners, or None
    lk_mode,      \* INVAL when the tree is not held
    lh_ngranted, lh_nblocked,  \* lhead's counters, by mode
    lh_blocked_list,           \* lhead's queue
    ln_mode, ln_key,           \* by depth and thread
    owners,       \* the lock nodes on lc_list, by depth: one for each key
    granted_list, blocked_list, alive_list,  \* rings, by depth
    told          \* by depth and thread: a listener's ln_ev_target was called

treeVars == <<lk_mode, lh_ngranted, lh_nblocked, lh_blocked_list>>
nodeVars == <<ln_mode, ln_key, owners, granted_list, blocked_list, alive_list, told>>
vars == <<pc, goal, event, treeVars, nodeVars>>

-----------------------------------------------------------------------------
\* htree_lock_compat.
htree_lock_compat ==
    [m \in Modes |-> CASE m = "EX" -> {}
                       [] m = "PW" -> {"CR"}
                       [] m = "PR" -> {"CR", "PR"}
                       [] m = "CW" -> {"CR", "CW"}
                       [] m = "CR" -> {"CR", "CW", "PR", "PW"}]

InUse(counters) == {m \in Modes : counters[m] # 0}

\* htree_lock_head_alloc, htree_lock_alloc and htree_lock_event_attach.
Init ==
    /\ pc = [t \in Threads |-> "run"] /\ goal = [t \in Threads |-> "unlock"]
    /\ event = [t \in Threads |-> None]
    /\ lk_mode = [t \in Threads |-> "INVAL"]
    /\ lh_ngranted = [m \in Modes |-> 0] /\ lh_nblocked = [m \in Modes |-> 0]
    /\ lh_blocked_list = <<>>
    /\ ln_mode = [d \in Deps |-> [t \in Threads |-> "INVAL"]]
    /\ ln_key = [d \in Deps |-> [t \in Threads |-> None]]
    /\ owners = [d \in Deps |-> {}]
    /\ granted_list = [d \in Deps |-> Loose(Threads)]
    /\ blocked_list = [d \in Deps |-> Loose(Threads)]
    /\ alive_list = [d \in Deps |-> Loose(Threads)]
    /\ told = [d \in Deps |-> [t \in Threads |-> FALSE]]

-----------------------------------------------------------------------------
(***************************************************************************)
(* The tree lock.  lh_lock is held from the look at the counters to the    *)
(* return or to the sleep, so each of these is one step.                   *)
(***************************************************************************)

\* Faulty variant: only the granted modes are looked at, not the waiting ones.
LockTreePast(t, m, n, b, q, p) ==
    /\ lk_mode' = [lk_mode EXCEPT ![t] = m]
    /\ IF InUse(n) \subseteq htree_lock_compat[m]
       THEN /\ lh_ngranted' = [n EXCEPT ![m] = @ + 1]
            /\ lh_nblocked' = b /\ lh_blocked_list' = q
            /\ pc' = [p EXCEPT ![t] = "run"]
       ELSE /\ lh_nblocked' = [b EXCEPT ![m] = @ + 1]
            /\ lh_blocked_list' = Append(q, t) /\ lh_ngranted' = n
            /\ pc' = [p EXCEPT ![t] = "wait"]

\* htree_lock_internal with wait: a mode that conflicts with a granted or with
\* a waiting one queues up, "so lock like EX wouldn't starve".  n, b and q are the
\* counters and the queue it finds, p where the other threads are.
LockTree(t, m, n, b, q, p) ==
    /\ lk_mode' = [lk_mode EXCEPT ![t] = m]
    /\ IF InUse(n) \cup InUse(b) \subseteq htree_lock_compat[m]
       THEN /\ lh_ngranted' = [n EXCEPT ![m] = @ + 1]
            /\ lh_nblocked' = b /\ lh_blocked_list' = q
            /\ pc' = [p EXCEPT ![t] = "run"]
       ELSE /\ lh_nblocked' = [b EXCEPT ![m] = @ + 1]
            /\ lh_blocked_list' = Append(q, t) /\ lh_ngranted' = n
            /\ pc' = [p EXCEPT ![t] = "wait"]

\* Faulty variant: the modes just woken are not added to the granted ones.
WokenAll(n) ==
    LET q == lh_blocked_list
        stops == {k \in DOMAIN q : ~(InUse(n) \subseteq htree_lock_compat[lk_mode[q[k]]])}
    IN  IF stops = {} THEN Len(q) ELSE (CHOOSE k \in stops : \A j \in stops : k <= j) - 1

\* The part of the queue that htree_unlock_internal wakes when n is still
\* granted: up to the first that conflicts with a mode granted or just woken.
Woken(n) ==
    LET q == lh_blocked_list
        ModesUpTo(k) == {lk_mode[q[j]] : j \in 1 .. k}
        Stops(k) == ~(InUse(n) \cup ModesUpTo(k - 1) \subseteq htree_lock_compat[lk_mode[q[k]]])
        stops == {k \in DOMAIN q : Stops(k)}
    IN  IF stops = {} THEN Len(q) ELSE (CHOOSE k \in stops : \A j \in stops : k <= j) - 1

\* How many of the first k in the queue wait in mode m.
Waiting(k, m) == Cardinality({j \in 1 .. k : lk_mode[lh_blocked_list[j]] = m})

\* htree_unlock_internal: the counters and the queue it leaves, and whom it wakes.
UnlockTree(t) ==
    LET n == [lh_ngranted EXCEPT ![lk_mode[t]] = @ - 1]
        k == Woken(n)
    IN  [ngranted |-> [m \in Modes |-> n[m] + Waiting(k, m)],
         nblocked |-> [m \in Modes |-> lh_nblocked[m] - Waiting(k, m)],
         queue |-> SubSeq(lh_blocked_list, k + 1, Len(lh_blocked_list)),
         woken |-> {lh_blocked_list[j] : j \in 1 .. k}]

\* A thread blocked here goes on once it is granted: wake_up_process after
\* set_current_state, only an event is left to tell when schedule() returns.
Wake(ts) == [t \in Threads |-> IF t \notin ts THEN pc[t]
                                 ELSE IF event[t] = None THEN "run" ELSE "tell"]

\* htree_lock.
Lock(t) ==
    /\ pc[t] = "run" /\ lk_mode[t] = "INVAL"
    /\ \E m \in TreeModes : LockTree(t, m, lh_ngranted, lh_nblocked, lh_blocked_list, pc)
    /\ UNCHANGED <<goal, event, nodeVars>>

\* htree_unlock and htree_change_lock begin with htree_node_release_all.
StartRelease(t) ==
    /\ pc[t] = "run" /\ lk_mode[t] # "INVAL"
    /\ \E g \in ({"unlock"} \cup TreeModes) \ {lk_mode[t]} : goal' = [goal EXCEPT ![t] = g]
    /\ pc' = [pc EXCEPT ![t] = "release"]
    /\ UNCHANGED <<event, treeVars, nodeVars>>

Released(t) == \A d \in Deps : ln_mode[d][t] = "INVAL"

Unlock(t) ==
    /\ pc[t] = "release" /\ goal[t] = "unlock" /\ Released(t)
    /\ LET u == UnlockTree(t)
       IN  /\ lh_ngranted' = u.ngranted /\ lh_nblocked' = u.nblocked
           /\ lh_blocked_list' = u.queue /\ pc' = Wake(u.woken \cup {t})
    /\ lk_mode' = [lk_mode EXCEPT ![t] = "INVAL"]
    /\ UNCHANGED <<goal, event, nodeVars>>

\* htree_change_lock: the rest is one critical section, in which the caller
\* may wake others and then find itself behind them.
ChangeLock(t) ==
    /\ pc[t] = "release" /\ goal[t] # "unlock" /\ Released(t)
    /\ LET u == UnlockTree(t) IN
       LockTree(t, goal[t], u.ngranted, u.nblocked, u.queue, Wake(u.woken))
    /\ goal' = [goal EXCEPT ![t] = "unlock"]
    /\ UNCHANGED <<event, nodeVars>>

-----------------------------------------------------------------------------
(***************************************************************************)
(* The child locks of one depth, under the depth's bit of lh_lock.         *)
(***************************************************************************)

\* On a blocked list, which its owner is on too.
IsBlocked(t, d) == t \notin owners[d] /\ ~Empty(blocked_list[d], t)
IsGranted(t, d) == ln_mode[d][t] \in {"PR", "PW"} /\ ~IsBlocked(t, d)
IsListening(t, d) == ln_mode[d][t] = "NL"

\* The lock on lc_list with the key of t, which the ordered search finds.
SameKey(t, d, k) == {o \in owners[d] : ln_key[d][o] = k}

\* htree_key_event_enqueue: a PW granted with an event tells every listener of
\* the alive ring it has joined.
Tells(d, m, ev) == ev /\ d \in EventDeps /\ m = "PW"
ListenersNext(d, ring, t) == {u \in {ring[t]} \ {t} : ln_mode[d][u] = "NL"}  \* Faulty variant: the nearest
Listeners(d, ring, t) == {u \in RingOf(ring, t) \ {t} : ln_mode[d][u] = "NL"}

SetDep(f, d, x) == f' = [f EXCEPT ![d] = x]

\* htree_node_lock_internal when no lock of the key is there: t becomes its owner.
NewKey(t, d, k, m) ==
    /\ SameKey(t, d, k) = {}
    /\ SetDep(owners, d, owners[d] \cup {t})
    /\ SetDep(ln_mode, d, [ln_mode[d] EXCEPT ![t] = m])
    /\ SetDep(ln_key, d, [ln_key[d] EXCEPT ![t] = k])
    /\ UNCHANGED <<pc, event, granted_list, blocked_list, alive_list, told>>

\* htree_node_lock_enqueue without a conflict: t joins the granted ring of the
\* owner, or takes the key over from an owner that only listens.
Join(t, d, k, m, ev) == \E o \in SameKey(t, d, k) :
    LET ring == ListAdd(alive_list[d], t, o)
    IN  /\ ln_mode[d][o] = "NL" \/ "PW" \notin {ln_mode[d][o], m}
        /\ SetDep(ln_mode, d, [ln_mode[d] EXCEPT ![t] = m])
        /\ SetDep(ln_key, d, [ln_key[d] EXCEPT ![t] = k])
        /\ IF ln_mode[d][o] = "NL"
           THEN /\ SetDep(owners, d, (owners[d] \ {o}) \cup {t})
                /\ UNCHANGED granted_list
           ELSE /\ SetDep(granted_list, d, ListAdd(granted_list[d], t, o))
                /\ UNCHANGED owners
        /\ SetDep(alive_list, d, ring)
        /\ SetDep(told, d, [u \in Threads |->
               told[d][u] \/ (Tells(d, m, ev) /\ u \in Listeners(d, ring, t))])
        /\ UNCHANGED <<pc, event, blocked_list>>

\* ... and with one: t joins the blocked ring of the owner, and the alive ring
\* at once; the caller that does not want to wait gets -1 and nothing changes.
Conflicts(t, d, k, m) == \E o \in SameKey(t, d, k) :
    ln_mode[d][o] # "NL" /\ "PW" \in {ln_mode[d][o], m}
Enqueue(t, d, k, m, ev) == \E o \in SameKey(t, d, k) :
    /\ Conflicts(t, d, k, m)
    /\ SetDep(ln_mode, d, [ln_mode[d] EXCEPT ![t] = m])
    /\ SetDep(ln_key, d, [ln_key[d] EXCEPT ![t] = k])
    /\ SetDep(blocked_list, d, ListAddTail(blocked_list[d], t, o))
    /\ SetDep(alive_list, d, ListAdd(alive_list[d], t, o))
    /\ pc' = [pc EXCEPT ![t] = "node"]
    /\ event' = [event EXCEPT ![t] = IF Tells(d, m, ev) THEN d ELSE None]
    /\ UNCHANGED <<owners, granted_list, told>>

\* htree_node_lock_try.  The callers' order: who waits holds nothing deeper.
NodeLock(t, d) ==
    /\ pc[t] = "run" /\ lk_mode[t] # "INVAL" /\ ln_mode[d][t] = "INVAL"
    /\ \E k \in Keys, m \in {"PR", "PW"}, ev \in BOOLEAN :
         \/ NewKey(t, d, k, m)
         \/ Join(t, d, k, m, ev)
         \/ /\ \A deeper \in Deps : deeper > d => ~IsGranted(t, deeper)
            /\ Enqueue(t, d, k, m, ev)
    /\ UNCHANGED <<goal, treeVars>>

\* The end of htree_node_lock_enqueue, once the key is granted.
Tell(t) ==
    LET d == event[t] IN
    /\ pc[t] = "tell" /\ pc' = [pc EXCEPT ![t] = "run"]
    /\ event' = [event EXCEPT ![t] = None]
    /\ SetDep(told, d, [u \in Threads |-> told[d][u] \/ u \in Listeners(d, alive_list[d], t)])
    /\ UNCHANGED <<goal, treeVars, ln_mode, ln_key, owners, granted_list, blocked_list, alive_list>>

\* Whom htree_node_unlock_internal hands over to: another granted lock, or the
\* first blocked one, which it wakes.
Heir(t, d) ==
    IF ~Empty(granted_list[d], t) THEN granted_list[d][t]
    ELSE IF ~Empty(blocked_list[d], t) THEN blocked_list[d][t] ELSE None

\* Nobody holds the key or waits for it: the owner goes on listening, leaves the
\* key to another listener, or takes it off the list.
LeaveAlone(t, d, mode) ==
    /\ Heir(t, d) = None
    /\ SetDep(ln_mode, d, [ln_mode[d] EXCEPT ![t] = mode])
    /\ IF mode = "NL" THEN UNCHANGED <<owners, alive_list>>
       ELSE IF Empty(alive_list[d], t)
       THEN SetDep(owners, d, owners[d] \ {t}) /\ UNCHANGED alive_list
       ELSE /\ SetDep(owners, d, (owners[d] \ {t}) \cup {alive_list[d][t]})
            /\ SetDep(alive_list, d, ListDel(alive_list[d], t))
    /\ UNCHANGED <<pc, granted_list, blocked_list>>

\* The waiting readers right behind h in the blocked ring r, if h reads too.
Readers(r, d, h) ==
    IF ln_mode[d][h] = "PW" THEN {}
    ELSE Walk(r, h, {u \in Threads \ {h} : ln_mode[d][u] # "PW"})

\* The blocked ring goes to the heir, the readers at its head are granted, and
\* the key too if t owned it.
HandOver(t, d, mode) ==
    LET h == Heir(t, d)
        waits == Empty(granted_list[d], t)
        passed == IF Empty(blocked_list[d], t) THEN blocked_list[d]
                  ELSE ListDel(IF Empty(blocked_list[d], h)
                               THEN ListAdd(blocked_list[d], h, t) ELSE blocked_list[d], t)
        readers == Readers(passed, d, h)
    IN  /\ h # None
        /\ SetDep(ln_mode, d, [ln_mode[d] EXCEPT ![t] = mode])
        /\ SetDep(blocked_list, d, DelAll(passed, h, readers))
        /\ SetDep(granted_list, d, AddAll(ListDel(granted_list[d], t), passed, h, readers))
        /\ SetDep(owners, d, IF t \in owners[d] THEN (owners[d] \ {t}) \cup {h} ELSE owners[d])
        /\ SetDep(alive_list, d,
                  IF mode = "INVAL" THEN ListDel(alive_list[d], t) ELSE alive_list[d])
        /\ pc' = Wake(readers \cup (IF waits THEN {h} ELSE {}))

\* htree_node_unlock with or without a buffer to listen with.
NodeUnlock(t, d, listen) ==
    /\ pc[t] \in {"run", "release"} /\ IsGranted(t, d)
    /\ LET mode == IF listen /\ d \in EventDeps THEN "NL" ELSE "INVAL"
       IN  /\ LeaveAlone(t, d, mode) \/ HandOver(t, d, mode)
           /\ SetDep(ln_key, d, [ln_key[d] EXCEPT ![t] = IF mode = "NL" THEN @ ELSE None])
    /\ SetDep(told, d, [told[d] EXCEPT ![t] = FALSE])
    /\ UNCHANGED <<goal, event, treeVars>>

\* Faulty variant: an owner that stops listening does not leave its place on lc_list.
StopListenStays(t, d) ==
    /\ pc[t] \in {"run", "release"} /\ IsListening(t, d)
    /\ SetDep(ln_mode, d, [ln_mode[d] EXCEPT ![t] = "INVAL"])
    /\ SetDep(alive_list, d, ListDel(alive_list[d], t))
    /\ SetDep(ln_key, d, [ln_key[d] EXCEPT ![t] = None])
    /\ SetDep(told, d, [told[d] EXCEPT ![t] = FALSE])
    /\ UNCHANGED <<pc, goal, event, treeVars, owners, granted_list, blocked_list>>

\* htree_node_stop_listen.
StopListen(t, d) ==
    /\ pc[t] \in {"run", "release"} /\ IsListening(t, d)
    /\ SetDep(ln_mode, d, [ln_mode[d] EXCEPT ![t] = "INVAL"])
    /\ SetDep(owners, d, IF t \notin owners[d] THEN owners[d]
                         ELSE (owners[d] \cup {alive_list[d][t]}) \ {t})
    /\ SetDep(alive_list, d, ListDel(alive_list[d], t))
    /\ SetDep(ln_key, d, [ln_key[d] EXCEPT ![t] = None])
    /\ SetDep(told, d, [told[d] EXCEPT ![t] = FALSE])
    /\ UNCHANGED <<pc, goal, event, treeVars, granted_list, blocked_list>>

\* htree_node_release_all goes from depth 0 up.
ReleaseStep(t) == \E d \in Deps :
    /\ pc[t] = "release" /\ \A e \in 0 .. d - 1 : ln_mode[e][t] = "INVAL"
    /\ NodeUnlock(t, d, FALSE) \/ StopListen(t, d)

InCaller(t) ==
    \/ Lock(t) \/ StartRelease(t)
    \/ pc[t] = "run" /\ \E d \in Deps :
         NodeLock(t, d) \/ StopListen(t, d) \/ \E listen \in BOOLEAN : NodeUnlock(t, d, listen)

Next == \E t \in Threads :
    InCaller(t) \/ Tell(t) \/ ReleaseStep(t) \/ Unlock(t) \/ ChangeLock(t)

(***************************************************************************)
(* A caller always unlocks in the end (strong fairness: it may have to     *)
(* wait for keys on the way, and others keep it waiting at most for a      *)
(* while), and what it has begun here it goes on with.                     *)
(***************************************************************************)
Fairness == \A t \in Threads :
    /\ SF_vars(StartRelease(t) /\ goal'[t] = "unlock")
    /\ WF_vars(Tell(t) \/ ReleaseStep(t) \/ Unlock(t) \/ ChangeLock(t))

Spec == Init /\ [][Next]_vars /\ Fairness

-----------------------------------------------------------------------------
OnKey(d, k) == {t \in Threads : ln_mode[d][t] # "INVAL" /\ ln_key[d][t] = k}
HeldOn(d, k) == {t \in OnKey(d, k) : IsGranted(t, d)}
BlockedOn(d, k) == {t \in OnKey(d, k) : IsBlocked(t, d)}

\* Every list is a family of rings, and a thread sleeps just where it is queued
\* (the list_heads of struct htree_lock and of its nodes).
TypeOK ==
    /\ pc \in [Threads -> {"run", "wait", "node", "tell", "release"}]
    /\ event \in [Threads -> Deps \cup {None}]
    /\ goal \in [Threads -> {"unlock"} \cup TreeModes]
    /\ lk_mode \in [Threads -> TreeModes \cup {"INVAL"}]
    /\ lh_ngranted \in [Modes -> Nat] /\ lh_nblocked \in [Modes -> Nat]
    /\ lh_blocked_list \in Seq(Threads)
    /\ \A d \in Deps :
         /\ ln_mode[d] \in [Threads -> {"INVAL", "NL", "PR", "PW"}]
         /\ ln_key[d] \in [Threads -> Keys \cup {None}]
         /\ owners[d] \subseteq Threads
         /\ \A r \in {granted_list[d], blocked_list[d], alive_list[d]} : IsRings(r, Threads)
         /\ told[d] \in [Threads -> BOOLEAN]

HoldsTree(t) == lk_mode[t] # "INVAL" /\ pc[t] # "wait"

\* The counters say who holds and who waits; no two holders conflict; a queue is
\* never left waiting when its first could go (htree_lock.c:626-656 and 665-690).
TreeLockSound ==
    /\ \A m \in Modes :
         /\ lh_ngranted[m] = Cardinality({t \in Threads : HoldsTree(t) /\ lk_mode[t] = m})
         /\ lh_nblocked[m] = Cardinality({t \in Threads : pc[t] = "wait" /\ lk_mode[t] = m})
    /\ ToSet(lh_blocked_list) = {t \in Threads : pc[t] = "wait"}
    /\ \A t, u \in Threads :
         t # u /\ HoldsTree(t) /\ HoldsTree(u) => lk_mode[u] \in htree_lock_compat[lk_mode[t]]
    /\ lh_blocked_list # <<>> =>
         ~(InUse(lh_ngranted) \subseteq htree_lock_compat[lk_mode[lh_blocked_list[1]]])

\* The BUG_ONs of htree_lock.c:266, 444, 458, 470, 508 and 564, and what they are
\* there for: each key in use has one owner, a holder if there is one; its three
\* rings are the holders, the owner with those waiting, and everybody; and who
\* waits is kept waiting by a holder.
KeyRings == \A d \in Deps, k \in Keys : OnKey(d, k) # {} =>
    \E o \in OnKey(d, k) :
      /\ owners[d] \cap OnKey(d, k) = {o}
      /\ HeldOn(d, k) # {} => o \in HeldOn(d, k) /\ RingOf(granted_list[d], o) = HeldOn(d, k)
      /\ RingOf(blocked_list[d], o) = {o} \cup BlockedOn(d, k)
      /\ RingOf(alive_list[d], o) = OnKey(d, k)
      /\ BlockedOn(d, k) # {} =>
           "PW" \in {ln_mode[d][o], ln_mode[d][blocked_list[d][o]]} /\ o \in HeldOn(d, k)
      /\ \A t \in Threads : IsBlocked(t, d) => pc[t] = "node"

\* Nobody gets the tree past somebody who waited for it before and whose mode
\* conflicts, "so lock like EX wouldn't starve" (htree_lock.c:633).
Ahead(u, t) == \E i, j \in DOMAIN lh_blocked_list :
    i < j /\ lh_blocked_list[i] = u /\ lh_blocked_list[j] = t
NoOvertaking ==
    [][\A t, u \in Threads :
         /\ pc[t] = "wait" /\ pc'[t] = "wait" /\ ~Ahead(u, t)
         /\ ~HoldsTree(u) /\ HoldsTree(u)'
         => lk_mode'[u] \in htree_lock_compat[lk_mode[t]]]_vars

\* Whoever waits for the tree gets it, however the others come and go and wait
\* for keys meanwhile (htree_lock.c:647 "wait to be given the lock").
TreeWaitEnds == \A t \in Threads : pc[t] = "wait" ~> pc[t] = "run"

Child == INSTANCE ChildLocks WITH
    mode <- [d \in Deps |-> [t \in Threads |-> IF IsBlocked(t, d) THEN "INVAL" ELSE ln_mode[d][t]]],
    key <- [d \in Deps |-> [t \in Threads |->
              IF IsBlocked(t, d) \/ ln_mode[d][t] = "INVAL" THEN None ELSE ln_key[d][t]]]

\* The rings do what callers are promised: a writer is alone with its key, and an
\* event reaches all listeners of the key (htree_lock.c:168-187, 408-518).
KeysImplement == Child!ChildSpec

=============================================================================
