----------------------------- MODULE Directory -----------------------------
(***************************************************************************)
(* What a directory promises: it is a set of names, and each operation on  *)
(* a name takes place at one moment between its call and its return.       *)
(***************************************************************************)
CONSTANTS Threads, Names, Kinds, None

VARIABLES
    names,    \* the names in the directory
    doing,    \* by thread, the operation [kind, name] it is in, or None
    answer    \* and what it will return: "found", "not_found", "done",
              \* "no_space", or None as long as it has not happened

dirVars == <<names, doing, answer>>

DirInit == doing = [t \in Threads |-> None] /\ answer = [t \in Threads |-> None]
           /\ names \subseteq Names

Call(t) == \E k \in Kinds, n \in Names :
    /\ doing[t] = None /\ \A u \in Threads : doing[u] # None => doing[u].name # n
    /\ k = "add" => n \notin names
    /\ doing' = [doing EXCEPT ![t] = [kind |-> k, name |-> n]]
    /\ UNCHANGED <<names, answer>>

\* What the operation returns and leaves; an add may find no space.
Outcomes(d) ==
    LET there == d.name \in names
    IN  CASE d.kind = "lookup" -> {<<IF there THEN "found" ELSE "not_found", names>>}
          [] d.kind = "del" -> {<<IF there THEN "found" ELSE "not_found", names \ {d.name}>>}
          [] d.kind = "add" -> {<<"done", names \cup {d.name}>>, <<"no_space", names>>}

Happen(t) ==
    /\ doing[t] # None /\ answer[t] = None
    /\ \E o \in Outcomes(doing[t]) : answer' = [answer EXCEPT ![t] = o[1]] /\ names' = o[2]
    /\ UNCHANGED doing

Return(t) ==
    /\ answer[t] # None
    /\ doing' = [doing EXCEPT ![t] = None] /\ answer' = [answer EXCEPT ![t] = None]
    /\ UNCHANGED names

DirNext == \E t \in Threads : Call(t) \/ Happen(t) \/ Return(t)
DirSpec == DirInit /\ [][DirNext]_dirVars

=============================================================================
