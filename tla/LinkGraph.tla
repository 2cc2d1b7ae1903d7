----------------------------- MODULE LinkGraph -----------------------------
(***************************************************************************)
(* What a checker promises of one kind of link (parent to child, object to *)
(* file, file to object): links are only ever added, each of them is one   *)
(* the disks attest, and when the result is published none is missing.     *)
(* A new scan withdraws the result, never a link.                          *)
(***************************************************************************)
CONSTANT Pairs     \* the pairs a link may join

VARIABLES
    attested,      \* the links the disks attest
    links,         \* the links in the graph
    published      \* whether a scan has delivered the graph as complete

vars == <<attested, links, published>>

Init ==
    /\ attested \in SUBSET Pairs
    /\ links = {}
    /\ published = FALSE

\* Any number of attested links appear.
Add ==
    /\ \E new \in SUBSET (attested \ links) : links' = links \cup new
    /\ UNCHANGED <<attested, published>>

Publish ==
    /\ links = attested
    /\ published' = TRUE
    /\ UNCHANGED <<attested, links>>

Withdraw ==
    /\ published' = FALSE
    /\ UNCHANGED <<attested, links>>

Next == Add \/ Publish \/ Withdraw

Spec == Init /\ [][Next]_vars

=============================================================================
