----------------------------- MODULE ChildLocks -----------------------------
(***************************************************************************)
(* What the child locks of an htree lock promise their callers, without    *)
(* queues: at each depth a thread has at most one key, writers of a key    *)
(* are alone with it, and an event reaches every listener of its key.      *)
(***************************************************************************)
EXTENDS Naturals

CONSTANTS Threads, Deps, Keys, EventDeps, None

VARIABLES
    mode,   \* by depth and thread: PR, PW, NL (listening) or INVAL
    key,    \* the key so held or listened to, or None
    told    \* a listener that an event has reached

childVars == <<mode, key, told>>

Held == {"PR", "PW"}
At(f, d, x) == f' = [f EXCEPT ![d] = x]

ChildInit ==
    /\ mode = [d \in Deps |-> [t \in Threads |-> "INVAL"]]
    /\ key = [d \in Deps |-> [t \in Threads |-> None]]
    /\ told = [d \in Deps |-> [t \in Threads |-> FALSE]]

Free(d, k, m) ==
    \A u \in Threads : key[d][u] = k /\ mode[d][u] \in Held => "PW" \notin {m, mode[d][u]}

Exclusive ==
    \A d \in Deps : \A t, u \in Threads :
      t # u /\ key[d][t] = key[d][u] /\ {mode[d][t], mode[d][u]} \subseteq Held
        => mode[d][t] = "PR" /\ mode[d][u] = "PR"

\* Thread t gets key k, telling the listeners there are.
Take(t, d, k, m, event) ==
    /\ mode[d][t] = "INVAL" /\ Free(d, k, m)
    /\ At(mode, d, [mode[d] EXCEPT ![t] = m])
    /\ At(key, d, [key[d] EXCEPT ![t] = k])
    /\ At(told, d, [u \in Threads |->
          told[d][u] \/ (event /\ m = "PW" /\ d \in EventDeps
                           /\ mode[d][u] = "NL" /\ key[d][u] = k)])

\* t gives its key up, or goes on listening to it.
Leave(t, d, listen) ==
    LET listens == listen /\ d \in EventDeps
    IN  /\ mode[d][t] \in Held
        /\ At(mode, d, [mode[d] EXCEPT ![t] = IF listens THEN "NL" ELSE "INVAL"])
        /\ At(key, d, [key[d] EXCEPT ![t] = IF listens THEN @ ELSE None])
        /\ At(told, d, [told[d] EXCEPT ![t] = FALSE])

\* The same, and others who wanted the key get it at that moment.
HandOn(t, d, listen) ==
    LET listens == listen /\ d \in EventDeps
        given == {u \in Threads \ {t} : mode[d][u] # mode'[d][u]}
    IN  /\ mode[d][t] \in Held
        /\ mode' = [mode EXCEPT ![d] = mode'[d]] /\ key' = [key EXCEPT ![d] = key'[d]]
        /\ mode'[d][t] = (IF listens THEN "NL" ELSE "INVAL")
        /\ \A u \in given : mode[d][u] = "INVAL" /\ mode'[d][u] \in Held
        /\ key'[d] = [u \in Threads |-> IF u \in given THEN key[d][t]
                                       ELSE IF u = t /\ ~listens THEN None ELSE key[d][u]]
        /\ At(told, d, [told[d] EXCEPT ![t] = FALSE])
        /\ Exclusive'

\* An event of t for the listeners there are, when it comes later than the lock.
Tell(t, d) ==
    /\ mode[d][t] = "PW" /\ d \in EventDeps
    /\ At(told, d, [u \in Threads |->
          told[d][u] \/ (mode[d][u] = "NL" /\ key[d][u] = key[d][t])])
    /\ UNCHANGED <<mode, key>>

Quiet(t, d) ==
    /\ mode[d][t] = "NL"
    /\ At(mode, d, [mode[d] EXCEPT ![t] = "INVAL"])
    /\ At(key, d, [key[d] EXCEPT ![t] = None])
    /\ At(told, d, [told[d] EXCEPT ![t] = FALSE])

ChildNext == \E t \in Threads, d \in Deps :
    \/ \E k \in Keys, m \in Held, event \in BOOLEAN : Take(t, d, k, m, event)
    \/ \E listen \in BOOLEAN : HandOn(t, d, listen)
    \/ Quiet(t, d) \/ Tell(t, d)

ChildSpec == ChildInit /\ [][ChildNext]_childVars

=============================================================================
