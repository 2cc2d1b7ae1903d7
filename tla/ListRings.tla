----------------------------- MODULE ListRings -----------------------------
(***************************************************************************)
(* The kernel's circular lists (linux/list.h) without a head, as the child *)
(* locks use them: a family of rings over one set of nodes is the function *)
(* that takes each node to the next one of its ring.                       *)
(***************************************************************************)
EXTENDS Naturals, FiniteSets, SequencesExt

\* INIT_LIST_HEAD on every node, and list_empty.
Loose(S) == [x \in S |-> x]
Empty(r, x) == r[x] = x

Prev(r, x) == CHOOSE y \in DOMAIN r : r[y] = x

\* list_add(new, at), list_add_tail(new, at) and list_del_init(x).
ListAdd(r, new, at) == [r EXCEPT ![new] = r[at], ![at] = new]
ListAddTail(r, new, at) == ListAdd(r, new, Prev(r, at))
ListDelOnly(r, x) == [r EXCEPT ![Prev(r, x)] = r[x]]  \* Faulty variant: list_del, x still points
ListDel(r, x) == [r EXCEPT ![Prev(r, x)] = r[x], ![x] = x]

\* Where a walk from x gets that stops at the first node outside of S.
Walk(r, x, S) == {y \in S : \A C \in SUBSET S :
    (r[x] \in S => r[x] \in C) /\ (\A z \in C : r[z] \in S => r[z] \in C) => y \in C}
RingOf(r, x) == Walk(r, x, DOMAIN r)

\* Such a walk W from h again: the node where it ends; list_del_init on each of its
\* nodes; and list_add behind h in another ring g of each as the walk comes to it.
LastOf(r, W) == CHOOSE y \in W : r[y] \notin W
DelAll(r, h, W) ==
    IF W = {} THEN r
    ELSE [x \in DOMAIN r |-> IF x \in W THEN x ELSE IF x = h THEN r[LastOf(r, W)] ELSE r[x]]
AddAll(g, r, h, W) ==
    IF W = {} THEN g
    ELSE [x \in DOMAIN g |-> IF x = h THEN LastOf(r, W)
                             ELSE IF x = r[h] THEN g[h]
                             ELSE IF x \in W THEN Prev(r, x) ELSE g[x]]

\* A family of rings: no node follows two nodes.
IsRings(r, S) == r \in [S -> S] /\ IsInjective(r)

=============================================================================
