---------------------------- MODULE HtreeRings -----------------------------
(***************************************************************************)
(* Lemmas about the child locks of HtreeLock: what the list operations of  *)
(* ListRings do to a family of rings, and what each operation on a key     *)
(* does to the rings, modes and owners of one depth, taken as a value.     *)
(***************************************************************************)
EXTENDS HtreeLock, FiniteSetTheorems, TLAPS

-----------------------------------------------------------------------------
(***************************************************************************)
(* Rings.  A cycle is a set of nodes that a walk from any of them goes     *)
(* round: closed under r, and no part of it is.                            *)
(***************************************************************************)
Closed(r, C) == \A x \in C : r[x] \in C
Cycle(r, C) == Closed(r, C) /\ \A D \in SUBSET C : D # {} /\ Closed(r, D) => D = C

LEMMA CycleIsRing ==
  ASSUME NEW r, NEW C \in SUBSET DOMAIN r, Cycle(r, C), NEW x \in C
  PROVE  RingOf(r, x) = C
<1> DEFINE W == RingOf(r, x)
           Goes(D) == (r[x] \in DOMAIN r => r[x] \in D) /\ (\A z \in D : r[z] \in DOMAIN r => r[z] \in D)
<1>1. \A y : y \in W <=> y \in DOMAIN r /\ \A D \in SUBSET DOMAIN r : Goes(D) => y \in D
  BY DEF RingOf, Walk
<1>2. r[x] \in C /\ Goes(C)
  BY DEF Cycle, Closed
<1>3. W \subseteq C
  BY <1>1, <1>2
<1>4. r[x] \in W
  BY <1>1, <1>2
<1>5. Closed(r, W)
  <2> SUFFICES ASSUME NEW y \in W PROVE r[y] \in W
    BY DEF Closed
  <2>1. r[y] \in DOMAIN r
    BY <1>3 DEF Cycle, Closed
  <2>2. ASSUME NEW D \in SUBSET DOMAIN r, Goes(D) PROVE r[y] \in D
    BY <1>1, <2>1, <2>2
  <2> HIDE DEF W, Goes
  <2> QED
    BY <1>1, <2>1, <2>2
<1> HIDE DEF W
<1> QED
  BY <1>3, <1>4, <1>5 DEF Cycle, W

\* Each node of a cycle has one before it, which is in the cycle too.
LEMMA CyclePrev ==
  ASSUME NEW S, NEW r, IsRings(r, S), NEW C \in SUBSET S, Cycle(r, C), NEW x \in C
  PROVE  /\ Prev(r, x) \in C /\ r[Prev(r, x)] = x
         /\ \A y \in S : r[y] = x => y = Prev(r, x)
<1> DEFINE D == {r[y] : y \in C}
<1>1. D \in SUBSET C /\ Closed(r, D) /\ D # {}
  BY DEF Cycle, Closed
<1>2. PICK y \in C : r[y] = x
  BY <1>1 DEF Cycle
<1>3. \A z \in S : r[z] = x => z = y
  BY <1>2 DEF IsRings, IsInjective
<1>4. DOMAIN r = S
  BY DEF IsRings
<1>5. Prev(r, x) \in S /\ r[Prev(r, x)] = x
  BY <1>2, <1>4 DEF Prev
<1> QED
  BY <1>2, <1>3, <1>5

\* What a walk goes round does not change with the rest of the rings.
LEMMA CycleKept ==
  ASSUME NEW r, NEW q, NEW C, Cycle(r, C), \A x \in C : q[x] = r[x]
  PROVE  Cycle(q, C)
BY DEF Cycle, Closed

\* A node by itself.
LEMMA LooseCycle == ASSUME NEW r, NEW x, r[x] = x PROVE Cycle(r, {x})
<1>1. \A D \in SUBSET {x} : D # {} => D = {x}
  OBVIOUS
<1> QED
  BY <1>1 DEF Cycle, Closed

LEMMA LooseRings == ASSUME NEW S PROVE IsRings(Loose(S), S) /\ \A x \in S : Loose(S)[x] = x
BY DEF Loose, IsRings, IsInjective

LEMMA AddKeeps ==
  ASSUME NEW S, NEW r, IsRings(r, S), NEW new \in S, NEW at \in S, new # at, r[new] = new
  PROVE  /\ IsRings(ListAdd(r, new, at), S)
         /\ ListAdd(r, new, at)[new] = r[at] /\ ListAdd(r, new, at)[at] = new
         /\ \A x \in S \ {new, at} : ListAdd(r, new, at)[x] = r[x]
         /\ \A C \in SUBSET S : Cycle(r, C) /\ at \in C /\ new \notin C => Cycle(ListAdd(r, new, at), C \cup {new})
<1> DEFINE q == ListAdd(r, new, at)
<1>1. q \in [S -> S] /\ q[new] = r[at] /\ q[at] = new /\ \A x \in S \ {new, at} : q[x] = r[x]
  BY DEF ListAdd, IsRings
<1> HIDE DEF q
<1>2. IsInjective(q)
  <2>1. ASSUME NEW x \in S, NEW y \in S, q[x] = q[y] PROVE x = y
    BY <1>1, <2>1 DEF IsRings, IsInjective
  <2> QED
    BY <1>1, <2>1 DEF IsInjective
<1>3. ASSUME NEW C \in SUBSET S, Cycle(r, C), at \in C, new \notin C
      PROVE  Cycle(q, C \cup {new})
  <2>1. Closed(q, C \cup {new})
    BY <1>1, <1>3 DEF Cycle, Closed
  <2>2. ASSUME NEW D \in SUBSET (C \cup {new}), D # {}, Closed(q, D)
        PROVE  D = C \cup {new}
    <3> DEFINE E == D \ {new}
    <3>1. Closed(r, E)
      <4>1. ASSUME NEW x \in E PROVE r[x] \in E
        <5>1. x \in C /\ x \in D /\ r[x] \in C
          BY <1>3 DEF Cycle, Closed
        <5>2. CASE x = at
          BY <1>1, <1>3, <2>2, <5>1, <5>2 DEF Closed
        <5>3. CASE x # at
          BY <1>1, <1>3, <2>2, <5>1, <5>3 DEF Closed
        <5> QED
          BY <5>2, <5>3
      <4> QED
        BY <4>1 DEF Closed
    <3>2. E # {}
      BY <1>1, <1>3, <2>2 DEF Closed, Cycle
    <3>3. E = C
      BY <1>3, <3>1, <3>2 DEF Cycle
    <3>4. new \in D
      BY <1>1, <1>3, <2>2, <3>3 DEF Closed
    <3> QED
      BY <3>3, <3>4
  <2> QED
    BY <2>1, <2>2 DEF Cycle
<1> QED
  BY <1>1, <1>2, <1>3 DEF IsRings, q

LEMMA DelKeeps ==
  ASSUME NEW S, NEW r, IsRings(r, S), NEW C \in SUBSET S, Cycle(r, C), NEW x \in C
  PROVE  /\ IsRings(ListDel(r, x), S) /\ ListDel(r, x)[x] = x
         /\ \A y \in S \ C : ListDel(r, x)[y] = r[y]
         /\ \A y \in S \ {x} : ListDel(r, x)[y] = IF r[y] = x THEN r[x] ELSE r[y]
         /\ C # {x} => Cycle(ListDel(r, x), C \ {x})
<1> DEFINE q == ListDel(r, x)
           p == Prev(r, x)
<1>1. p \in C /\ r[p] = x /\ \A y \in S : r[y] = x => y = p
  BY CyclePrev
<1>2. r \in [S -> S] /\ x \in S /\ p \in S /\ \A y, z \in S : r[y] = r[z] => y = z
  BY <1>1 DEF IsRings, IsInjective
<1>3. q = [r EXCEPT ![p] = r[x], ![x] = x]
  BY DEF ListDel
<1> HIDE DEF q, p
<1>4. q \in [S -> S] /\ q[x] = x /\ (p # x => q[p] = r[x]) /\ \A y \in S \ {x, p} : q[y] = r[y]
  BY <1>2, <1>3
<1>5. \A y, z \in S : q[y] = q[z] => y = z
  BY <1>1, <1>2, <1>4
<1>6. \A y \in S \ {x} : q[y] = IF r[y] = x THEN r[x] ELSE r[y]
  BY <1>1, <1>2, <1>4
<1>7. ASSUME C # {x} PROVE Cycle(q, C \ {x})
  <2>1. r[x] # x
    <3>1. r[x] = x => Closed(r, {x}) /\ {x} \in SUBSET C
      BY DEF Closed
    <3> QED
      BY <1>7, <3>1 DEF Cycle
  <2>2. Closed(q, C \ {x})
    BY <1>1, <1>6, <2>1 DEF Cycle, Closed
  <2>3. ASSUME NEW D \in SUBSET (C \ {x}), D # {}, Closed(q, D) PROVE D = C \ {x}
    <3>1. CASE p \in D
      <4>1. r[x] \in D
        BY <1>1, <1>4, <2>3, <3>1 DEF Closed
      <4>2. Closed(r, D \cup {x})
        BY <1>2, <1>6, <2>3, <4>1 DEF Closed
      <4>3. D \cup {x} = C
        BY <4>2 DEF Cycle
      <4> QED
        BY <2>3, <4>3
    <3>2. CASE p \notin D
      <4>1. Closed(r, D)
        BY <1>1, <1>2, <1>4, <2>3, <3>2 DEF Closed
      <4>2. D = C
        BY <2>3, <4>1 DEF Cycle
      <4> QED
        BY <2>3, <4>2
    <3> QED
      BY <3>1, <3>2
  <2> QED
    BY <2>2, <2>3 DEF Cycle
<1> QED
  BY <1>1, <1>4, <1>5, <1>6, <1>7 DEF IsRings, IsInjective, q, p

\* A walk from h through P: what it comes to, and how it comes there.
Goes(r, h, P, C) == (r[h] \in P => r[h] \in C) /\ \A z \in C : r[z] \in P => r[z] \in C

LEMMA WalkIs ==
  ASSUME NEW S, NEW r, IsRings(r, S), NEW h \in S, NEW P \in SUBSET (S \ {h})
  PROVE  /\ Walk(r, h, P) \in SUBSET P /\ Goes(r, h, P, Walk(r, h, P))
         /\ \A C \in SUBSET P : Goes(r, h, P, C) => Walk(r, h, P) \subseteq C
         /\ \A x \in S : r[x] \in Walk(r, h, P) => x = h \/ x \in Walk(r, h, P)
<1> DEFINE W == Walk(r, h, P)
<1>1. \A y : y \in W <=> y \in P /\ \A C \in SUBSET P : Goes(r, h, P, C) => y \in C
  BY DEF Walk, Goes
<1> HIDE DEF W
<1>2. Goes(r, h, P, W)
  <2>1. r[h] \in P => r[h] \in W
    BY <1>1 DEF Goes
  <2>2. ASSUME NEW z \in W, r[z] \in P PROVE r[z] \in W
    <3>1. \A C \in SUBSET P : Goes(r, h, P, C) => r[z] \in C
      BY <1>1, <2>2 DEF Goes
    <3> QED
      BY <1>1, <2>2, <3>1
  <2> QED
    BY <2>1, <2>2 DEF Goes
<1>3. ASSUME NEW x \in S, r[x] \in W PROVE x = h \/ x \in W
  <2> SUFFICES ASSUME x # h, x \notin W PROVE FALSE
    OBVIOUS
  <2>1. \A y \in S : r[y] = r[x] => y = x
    BY DEF IsRings, IsInjective
  <2>2. W \ {r[x]} \in SUBSET P
    BY <1>1
  <2>3. Goes(r, h, P, W \ {r[x]})
    BY <1>1, <1>2, <2>1 DEF Goes
  <2> QED
    BY <1>1, <1>3, <2>2, <2>3
<1> QED
  BY <1>1, <1>2, <1>3 DEF W

LEMMA WalkEnds ==
  ASSUME NEW S, NEW r, IsRings(r, S), NEW h \in S, NEW P \in SUBSET (S \ {h}),
         NEW C \in SUBSET S, Cycle(r, C), h \in C, Walk(r, h, P) # {}
  PROVE  /\ Walk(r, h, P) \subseteq C /\ r[h] \in Walk(r, h, P)
         /\ LastOf(r, Walk(r, h, P)) \in Walk(r, h, P)
         /\ r[LastOf(r, Walk(r, h, P))] \notin P
         /\ \A y \in Walk(r, h, P) : y # LastOf(r, Walk(r, h, P)) => r[y] \in Walk(r, h, P)
<1> DEFINE W == Walk(r, h, P)
           z == LastOf(r, W)
<1>1. W \in SUBSET P /\ Goes(r, h, P, W) /\ \A D \in SUBSET P : Goes(r, h, P, D) => W \subseteq D
  BY WalkIs
<1> HIDE DEF W
<1>2. W \subseteq C
  <2>1. Goes(r, h, P, C \cap P) /\ C \cap P \in SUBSET P
    BY DEF Goes, Cycle, Closed
  <2> QED
    BY <1>1, <2>1
<1>3. r[h] \in W
  <2>1. r[h] \notin P => Goes(r, h, P, {})
    BY DEF Goes
  <2>2. {} \in SUBSET P
    OBVIOUS
  <2>3. W # {}
    BY DEF W
  <2> QED
    BY <1>1, <2>1, <2>2, <2>3 DEF Goes
<1>4. z \in W /\ r[z] \notin W
  <2>1. ~Closed(r, W)
    BY <1>1, <1>2, <1>3 DEF Cycle
  <2> QED
    BY <2>1 DEF Closed, LastOf
<1>5. r[z] \notin P
  BY <1>1, <1>4 DEF Goes
<1>6. \A y \in W : y # z => r[y] \in W
  <2> DEFINE Back(D) == z \in D /\ \A c \in D : \A x \in W : r[x] = c => x \in D
             E == {y \in W : \A D \in SUBSET W : Back(D) => y \in D}
  <2>1. Back(E) /\ E \in SUBSET W /\ \A D \in SUBSET W : Back(D) => E \subseteq D
    BY <1>4
  <2> HIDE DEF E
  <2>2. r[h] \in E
    <3>1. r[h] \notin E => Goes(r, h, P, W \ E)
      BY <1>1, <1>3, <2>1 DEF Goes
    <3>2. W \ E \in SUBSET P
      BY <1>1
    <3> QED
      BY <1>1, <1>4, <2>1, <3>1, <3>2
  <2>3. ASSUME NEW y \in E, y # z PROVE r[y] \in E
    <3>1. r[y] \notin E => Back(E \ {y})
      BY <2>1, <2>3
    <3> QED
      BY <2>1, <2>3, <3>1
  <2>4. Goes(r, h, P, E)
    BY <1>5, <2>2, <2>3 DEF Goes
  <2>5. W = E
    BY <1>1, <2>1, <2>4
  <2> QED
    BY <2>3, <2>5
<1> QED
  BY <1>2, <1>3, <1>4, <1>5, <1>6 DEF W

\* list_del_init on all of a walk.
LEMMA DelAllKeeps ==
  ASSUME NEW S, NEW r, IsRings(r, S), NEW h \in S, NEW P \in SUBSET (S \ {h}),
         NEW C \in SUBSET S, Cycle(r, C), h \in C, NEW W, W = Walk(r, h, P)
  PROVE  /\ IsRings(DelAll(r, h, W), S) /\ Cycle(DelAll(r, h, W), C \ W)
         /\ \A x \in W : DelAll(r, h, W)[x] = x
         /\ \A x \in S \ C : DelAll(r, h, W)[x] = r[x]
         /\ DelAll(r, h, W)[h] \notin P
<1> DEFINE q == DelAll(r, h, W)
           z == LastOf(r, W)
<1>1. CASE W = {}
  <2>1. Goes(r, h, P, W)
    BY WalkIs
  <2>2. q = r /\ r[h] \notin P /\ C \ W = C
    BY <1>1, <2>1 DEF DelAll, Goes
  <2> QED
    BY <1>1, <2>2
<1>2. CASE W # {}
  <2>1. /\ W \in SUBSET P /\ W \subseteq C /\ r[h] \in W /\ z \in W /\ r[z] \notin P
        /\ \A y \in W : y # z => r[y] \in W
        /\ \A x \in S : r[x] \in W => x = h \/ x \in W
    BY <1>2, WalkIs, WalkEnds
  <2>2. DOMAIN r = S /\ \A x \in S : r[x] \in S
    BY DEF IsRings
  <2>3. \A x, y \in S : r[x] = r[y] => x = y
    BY DEF IsRings, IsInjective
  <2>4. /\ q = [x \in S |-> IF x \in W THEN x ELSE IF x = h THEN r[z] ELSE r[x]]
        /\ h \notin W
    BY <1>2, <2>1, <2>2 DEF DelAll
  <2> HIDE DEF q, z
  <2>5. /\ q \in [S -> S] /\ \A x \in W : q[x] = x
        /\ q[h] = r[z] /\ \A x \in S \ W : x # h => q[x] = r[x]
    BY <2>1, <2>2, <2>4
  <2>6. \A x, y \in S : q[x] = q[y] => x = y
    BY <2>1, <2>3, <2>5
  <2>7. Cycle(q, C \ W)
    <3>1. Closed(q, C \ W)
      BY <2>1, <2>5 DEF Cycle, Closed
    <3>2. ASSUME NEW D \in SUBSET (C \ W), D # {}, Closed(q, D) PROVE D = C \ W
      <4>1. h \in D
        <5>1. h \notin D => Closed(r, D)
          BY <2>5, <3>2 DEF Closed
        <5> QED
          BY <3>2, <5>1 DEF Cycle
      <4>2. Closed(r, D \cup W)
        BY <2>1, <2>5, <3>2, <4>1 DEF Closed
      <4>3. D \cup W = C
        BY <2>1, <4>1, <4>2 DEF Cycle
      <4> QED
        BY <3>2, <4>3
    <3> QED
      BY <3>1, <3>2 DEF Cycle
  <2>8. \A x \in S \ C : q[x] = r[x]
    BY <2>1, <2>5
  <2> QED
    BY <2>1, <2>5, <2>6, <2>7, <2>8 DEF IsRings, IsInjective, q
<1> QED
  BY <1>1, <1>2

\* And list_add of each behind h in a ring where h and they are by themselves.
LEMMA AddAllKeeps ==
  ASSUME NEW S, NEW r, IsRings(r, S), NEW h \in S, NEW P \in SUBSET (S \ {h}),
         NEW C \in SUBSET S, Cycle(r, C), h \in C, NEW W, W = Walk(r, h, P),
         NEW g, IsRings(g, S), W # {} => g[h] = h, \A x \in W : g[x] = x
  PROVE  /\ IsRings(AddAll(g, r, h, W), S)
         /\ W # {} => Cycle(AddAll(g, r, h, W), {h} \cup W)
         /\ \A x \in S \ (W \cup {h}) : AddAll(g, r, h, W)[x] = g[x]
<1> DEFINE q == AddAll(g, r, h, W)
           z == LastOf(r, W)
<1>1. CASE W = {}
  BY <1>1 DEF AddAll
<1>2. CASE W # {}
  <2>1. /\ W \in SUBSET P /\ W \subseteq C /\ r[h] \in W /\ z \in W /\ r[z] \notin P
        /\ \A y \in W : y # z => r[y] \in W
        /\ \A x \in S : r[x] \in W => x = h \/ x \in W
    BY <1>2, WalkIs, WalkEnds
  <2>2. DOMAIN g = S /\ (\A x \in S : g[x] \in S) /\ (\A x \in S : r[x] \in S) /\ h \notin W /\ g[h] = h
    BY <1>2, <2>1 DEF IsRings
  <2>3. \A x, y \in S : (r[x] = r[y] => x = y) /\ (g[x] = g[y] => x = y)
    BY DEF IsRings, IsInjective
  <2>4. \A x \in W : x # r[h] => Prev(r, x) \in W /\ r[Prev(r, x)] = x
    BY <2>1, <2>3, CyclePrev
  <2>5. q = [x \in S |-> IF x = h THEN z ELSE IF x = r[h] THEN g[h] ELSE IF x \in W THEN Prev(r, x) ELSE g[x]]
    BY <1>2, <2>2 DEF AddAll
  <2> HIDE DEF q, z
  <2>6. /\ q[h] = z /\ q[r[h]] = h
        /\ \A x \in W : x # r[h] => q[x] \in W /\ r[q[x]] = x
        /\ \A x \in S \ (W \cup {h}) : q[x] = g[x]
    BY <2>1, <2>2, <2>4, <2>5
  <2>7. q \in [S -> S]
    BY <2>1, <2>2, <2>4, <2>5
  <2>8. \A x \in S \ (W \cup {h}) : g[x] \notin W \cup {h}
    BY <2>1, <2>2, <2>3
  <2>9. ASSUME NEW x \in S, NEW y \in S, q[x] = q[y] PROVE x = y
    <3>1. \A w \in W : q[w] # z
      BY <2>1, <2>2, <2>6
    <3>2. CASE x = h \/ y = h
      BY <2>1, <2>2, <2>6, <2>8, <2>9, <3>1, <3>2
    <3>3. CASE x \in W /\ y \in W
      BY <2>1, <2>2, <2>6, <2>9, <3>3
    <3>4. CASE (x \in W) # (y \in W) /\ x # h /\ y # h
      BY <2>1, <2>2, <2>6, <2>8, <2>9, <3>4
    <3>5. CASE x \notin W /\ y \notin W /\ x # h /\ y # h
      BY <2>3, <2>6, <2>9, <3>5
    <3> QED
      BY <3>2, <3>3, <3>4, <3>5
  <2>10. Cycle(q, {h} \cup W)
    <3>1. Closed(q, {h} \cup W)
      BY <2>1, <2>6 DEF Closed
    <3>2. ASSUME NEW D \in SUBSET ({h} \cup W), D # {}, Closed(q, D) PROVE D = {h} \cup W
      <4>1. h \in D
        <5>1. h \notin D => Goes(r, h, P, W \ D)
          <6> SUFFICES ASSUME h \notin D PROVE Goes(r, h, P, W \ D)
            OBVIOUS
          <6>1. r[h] \notin D
            BY <2>6, <3>2 DEF Closed
          <6>2. ASSUME NEW y \in W \ D, r[y] \in P PROVE r[y] \in W \ D
            <7>1. r[y] \in W /\ y # h
              BY <2>1, <2>2, <6>2
            <7>2. r[y] \in D => q[r[y]] = y
              BY <2>1, <2>3, <2>6, <6>1, <7>1
            <7> QED
              BY <3>2, <6>2, <7>1, <7>2 DEF Closed
          <6> QED
            BY <2>1, <6>1, <6>2 DEF Goes
        <5>2. W \ D \in SUBSET P
          BY <2>1
        <5>3. h \notin D => W \subseteq W \ D
          BY <5>1, <5>2, WalkIs
        <5> QED
          BY <3>2, <5>3
      <4>2. z \in D
        BY <2>6, <3>2, <4>1 DEF Closed
      <4>3. Closed(r, W \ D)
        <5> SUFFICES ASSUME NEW y \in W \ D PROVE r[y] \in W \ D
          BY DEF Closed
        <5>1. y # z /\ r[y] \in W /\ r[y] # r[h]
          BY <2>1, <2>2, <2>3, <4>2
        <5>2. q[r[y]] = y
          BY <2>1, <2>3, <2>6, <5>1
        <5> QED
          BY <3>2, <5>1, <5>2 DEF Closed
      <4>4. W \ D = {}
        BY <2>1, <2>2, <4>3 DEF Cycle
      <4> QED
        BY <3>2, <4>1, <4>4
    <3> QED
      BY <3>1, <3>2 DEF Cycle
  <2> QED
    BY <2>6, <2>7, <2>9, <2>10 DEF IsRings, IsInjective, q
<1> QED
  BY <1>1, <1>2
-----------------------------------------------------------------------------
(***************************************************************************)
(* The child locks of one depth as a record x: its modes, keys, owners and *)
(* the granted, blocked and alive rings.                                   *)
(***************************************************************************)
NodeModes == {"INVAL", "NL", "PR", "PW"}

Waits(x, t) == t \notin x.owners /\ x.blocked[t] # t
Holds(x, t) == x.mode[t] \in {"PR", "PW"} /\ ~Waits(x, t)
On(x, k) == {t \in Threads : x.mode[t] # "INVAL" /\ x.key[t] = k}
Holders(x, k) == {t \in On(x, k) : Holds(x, t)}
Waiters(x, k) == {t \in On(x, k) : Waits(x, t)}

Shape(x) ==
    /\ x.mode \in [Threads -> NodeModes] /\ x.key \in [Threads -> Keys \cup {None}]
    /\ x.owners \in SUBSET Threads
    /\ IsRings(x.granted, Threads) /\ IsRings(x.blocked, Threads) /\ IsRings(x.alive, Threads)

\* A thread is on no list that its mode does not put it on.
NodeOk(x, t) ==
    /\ x.mode[t] = "INVAL" => x.key[t] = None /\ t \notin x.owners /\ x.alive[t] = t
    /\ x.mode[t] # "INVAL" => x.key[t] \in Keys
    /\ x.mode[t] \in {"INVAL", "NL"} => x.blocked[t] = t
    /\ ~Holds(x, t) => x.granted[t] = t

\* The owner o of a key, and the rings.
OwnerOk(x, k, o) ==
    /\ o \in x.owners /\ o \in On(x, k) /\ \A p \in x.owners : x.key[p] = k => p = o
    /\ Cycle(x.alive, On(x, k))
    /\ Holders(x, k) # {} => o \in Holders(x, k) /\ Cycle(x.granted, Holders(x, k))
    /\ Cycle(x.blocked, {o} \cup Waiters(x, k))
    /\ Waiters(x, k) # {} => o \in Holders(x, k) /\ "PW" \in {x.mode[o], x.mode[x.blocked[o]]}
    /\ \A t, u \in Holders(x, k) : t # u => x.mode[t] = "PR"

KeyOk(x, k) == On(x, k) # {} => \E o \in Threads : OwnerOk(x, k, o)

DepthOk(x) == Shape(x) /\ (\A t \in Threads : NodeOk(x, t)) /\ (\A k \in Keys : KeyOk(x, k))

\* What is said of a thread is the same in x and in y.
Same(x, y, t) ==
    /\ x.mode[t] = y.mode[t] /\ x.key[t] = y.key[t] /\ (t \in x.owners <=> t \in y.owners)
    /\ x.granted[t] = y.granted[t] /\ x.blocked[t] = y.blocked[t] /\ x.alive[t] = y.alive[t]

\* A key is not concerned with what happens to those who are not on it.
LEMMA KeySame ==
  ASSUME NEW x, NEW y, NEW k, KeyOk(x, k), Shape(x), Shape(y),
         \A t \in Threads : k \in {x.key[t], y.key[t]} => Same(x, y, t)
  PROVE  KeyOk(y, k)
<1>1. On(y, k) = On(x, k)
  BY DEF On, Same
<1>2. Holders(y, k) = Holders(x, k) /\ Waiters(y, k) = Waiters(x, k)
  BY <1>1 DEF Holders, Waiters, Holds, Waits, On, Same
<1>3. CASE On(x, k) = {}
  BY <1>1, <1>3 DEF KeyOk
<1>4. CASE On(x, k) # {}
  <2>1. PICK o \in Threads : OwnerOk(x, k, o)
    BY <1>4 DEF KeyOk
  <2>2. \A t \in On(x, k) : Same(x, y, t)
    BY DEF On
  <2>3. o \in On(x, k) /\ Holders(x, k) \subseteq On(x, k) /\ Waiters(x, k) \subseteq On(x, k)
    BY <2>1 DEF OwnerOk, Holders, Waiters
  <2>4. o \in y.owners /\ \A p \in y.owners : y.key[p] = k => p = o
    BY <2>1, <2>3 DEF OwnerOk, On, Shape, Same
  <2>5. Cycle(y.alive, On(x, k)) /\ Cycle(y.blocked, {o} \cup Waiters(x, k))
    BY <2>1, <2>2, <2>3, CycleKept DEF OwnerOk, Same
  <2>6. Holders(x, k) # {} => Cycle(y.granted, Holders(x, k))
    BY <2>1, <2>2, <2>3, CycleKept DEF OwnerOk, Same
  <2>7. x.blocked[o] \in On(x, k)
    BY <2>1, <2>3 DEF OwnerOk, Cycle, Closed
  <2>8. OwnerOk(y, k, o)
    BY <1>1, <1>2, <2>1, <2>2, <2>3, <2>4, <2>5, <2>6, <2>7 DEF OwnerOk, Same
  <2> QED
    BY <2>8 DEF KeyOk
<1> QED
  BY <1>3, <1>4

\* A step on one key keeps the depth right if it keeps that key right and, of
\* each thread, what is said of it or what has to be.
LEMMA OneKey ==
  ASSUME NEW x, DepthOk(x), NEW y, Shape(y), NEW k \in Keys, KeyOk(y, k),
         \A t \in Threads :
            Same(x, y, t) \/ (NodeOk(y, t) /\ x.key[t] \in {k, None} /\ y.key[t] \in {k, None})
  PROVE  DepthOk(y)
<1>1. ASSUME NEW t \in Threads PROVE NodeOk(y, t)
  <2>1. NodeOk(x, t)
    BY DEF DepthOk
  <2>2. CASE Same(x, y, t)
    BY <2>1, <2>2 DEF NodeOk, Same, Holds, Waits
  <2> QED
    BY <2>2
<1>2. ASSUME NEW j \in Keys, j # k PROVE KeyOk(y, j)
  <2>1. KeyOk(x, j) /\ Shape(x)
    BY DEF DepthOk
  <2>2. \A t \in Threads : j \in {x.key[t], y.key[t]} => Same(x, y, t)
    BY <1>2, HtreeAssumption
  <2> QED
    BY <2>1, <2>2, KeySame
<1> QED
  BY <1>1, <1>2 DEF DepthOk

\* A key in use is an owner's.
LEMMA OwnerOf ==
  ASSUME NEW x, DepthOk(x), NEW t \in Threads, x.mode[t] # "INVAL"
  PROVE  x.key[t] \in Keys /\ \E o \in Threads : OwnerOk(x, x.key[t], o)
<1>1. x.key[t] \in Keys /\ t \in On(x, x.key[t])
  BY DEF DepthOk, NodeOk, On
<1> QED
  BY <1>1 DEF DepthOk, KeyOk

\* The key of an owner is his.
LEMMA OwnersKey ==
  ASSUME NEW x, DepthOk(x), NEW o \in x.owners
  PROVE  x.key[o] \in Keys /\ x.mode[o] # "INVAL" /\ OwnerOk(x, x.key[o], o)
<1>1. o \in Threads /\ x.mode[o] # "INVAL"
  BY DEF DepthOk, Shape, NodeOk
<1>2. PICK p \in Threads : OwnerOk(x, x.key[o], p)
  BY <1>1, OwnerOf
<1>3. p = o
  BY <1>2 DEF OwnerOk
<1> QED
  BY <1>1, <1>2, <1>3, OwnerOf

\* Nobody waits who is not on a key.
LEMMA WaitsOn ==
  ASSUME NEW x, DepthOk(x), NEW t \in Threads, Waits(x, t)
  PROVE  x.mode[t] \in {"PR", "PW"} /\ t \in On(x, x.key[t])
BY DEF DepthOk, Shape, NodeModes, NodeOk, Waits, On

\* The first lock of a key: NewKey.
LEMMA FirstKeeps ==
  ASSUME NEW x, DepthOk(x), NEW t \in Threads, NEW k \in Keys, NEW m \in {"PR", "PW"},
         x.mode[t] = "INVAL", \A o \in x.owners : x.key[o] # k,
         NEW y, y.mode = [x.mode EXCEPT ![t] = m], y.key = [x.key EXCEPT ![t] = k],
         y.owners = x.owners \cup {t},
         y.granted = x.granted, y.blocked = x.blocked, y.alive = x.alive
  PROVE  /\ DepthOk(y) /\ \A u \in Threads : Waits(y, u) <=> Waits(x, u)
         /\ On(x, k) = {}
<1>1. Shape(x) /\ NodeOk(x, t)
  BY DEF DepthOk
<1>2. /\ x.granted[t] = t /\ x.blocked[t] = t /\ x.alive[t] = t /\ t \notin x.owners /\ x.key[t] = None
  BY <1>1 DEF NodeOk, Holds
<1>3. Shape(y)
  BY <1>1 DEF Shape, NodeModes
<1>4. /\ y.mode[t] = m /\ y.key[t] = k
      /\ \A u \in Threads \ {t} : y.mode[u] = x.mode[u] /\ y.key[u] = x.key[u]
  BY <1>1 DEF Shape
<1>5. On(x, k) = {}
  <2>1. ASSUME NEW u \in Threads, x.mode[u] # "INVAL" PROVE x.key[u] # k
    <3>1. PICK o \in Threads : OwnerOk(x, x.key[u], o)
      BY <2>1, OwnerOf
    <3> QED
      BY <3>1 DEF OwnerOk, On
  <2> QED
    BY <2>1 DEF On
<1>6. NodeOk(y, t)
  BY <1>2, <1>4 DEF NodeOk, Holds, Waits
<1>7. \A u \in Threads \ {t} : Same(x, y, u)
  BY <1>4 DEF Same
<1>8. KeyOk(y, k)
  <2>1. On(y, k) = {t}
    BY <1>4, <1>5 DEF On
  <2>2. Holders(y, k) = {t} /\ Waiters(y, k) = {}
    BY <1>4, <2>1 DEF Holders, Waiters, Holds, Waits
  <2>3. Cycle(y.alive, {t}) /\ Cycle(y.granted, {t}) /\ Cycle(y.blocked, {t})
    BY <1>2, LooseCycle
  <2>4. \A p \in y.owners : y.key[p] = k => p = t
    BY <1>1, <1>4 DEF Shape
  <2>5. {t} \cup {} = {t}
    OBVIOUS
  <2>6. OwnerOk(y, k, t)
    BY <2>1, <2>2, <2>3, <2>4, <2>5 DEF OwnerOk
  <2> QED
    BY <2>6 DEF KeyOk
<1>9. DepthOk(y)
  BY <1>2, <1>3, <1>4, <1>6, <1>7, <1>8, OneKey
<1> QED
  BY <1>2, <1>5, <1>9 DEF Waits

\* What there is to know of an owner o and of its key k.
LEMMA OwnerFacts ==
  ASSUME NEW x, DepthOk(x), NEW k \in Keys, NEW o \in Threads, OwnerOk(x, k, o)
  PROVE  /\ Shape(x) /\ x.key[o] = k /\ x.mode[o] # "INVAL" /\ ~Waits(x, o)
         /\ \A u \in On(x, k) : u \in Threads /\ u # o => u \notin x.owners
         /\ \A u \in On(x, k) : u \in Threads /\ NodeOk(x, u)
         /\ x.mode[o] = "NL" => /\ Holders(x, k) = {} /\ Waiters(x, k) = {} /\ x.blocked[o] = o
                                /\ \A u \in On(x, k) : x.mode[u] = "NL"
         /\ x.mode[o] # "NL" => x.mode[o] \in {"PR", "PW"} /\ o \in Holders(x, k)
<1>1. Shape(x) /\ x.key[o] = k /\ x.mode[o] # "INVAL" /\ ~Waits(x, o)
  BY DEF DepthOk, OwnerOk, On, Waits
<1>2. \A u \in On(x, k) : u \in Threads /\ NodeOk(x, u) /\ (u # o => u \notin x.owners)
  BY DEF DepthOk, OwnerOk, On
<1>3. ASSUME x.mode[o] = "NL"
      PROVE  /\ Holders(x, k) = {} /\ Waiters(x, k) = {} /\ x.blocked[o] = o
             /\ \A u \in On(x, k) : x.mode[u] = "NL"
  <2>1. Holders(x, k) = {} /\ Waiters(x, k) = {}
    BY <1>3 DEF OwnerOk, Holders, Holds
  <2>2. x.blocked[o] = o
    BY <1>3 DEF DepthOk, NodeOk
  <2>3. \A u \in On(x, k) : x.mode[u] = "NL"
    BY <1>1, <2>1 DEF Holders, Waiters, Holds, On, Shape, NodeModes
  <2> QED
    BY <2>1, <2>2, <2>3
<1>4. ASSUME x.mode[o] # "NL" PROVE x.mode[o] \in {"PR", "PW"} /\ o \in Holders(x, k)
  BY <1>1, <1>4 DEF Shape, NodeModes, Holders, Holds, OwnerOk
<1> QED
  BY <1>1, <1>2, <1>3, <1>4

\* A reader joins an owner that reads: Join.
LEMMA JoinKeeps ==
  ASSUME NEW x, DepthOk(x), NEW t \in Threads, NEW k \in Keys, NEW o \in Threads, OwnerOk(x, k, o),
         x.mode[t] = "INVAL", x.mode[o] = "PR",
         NEW y, y.mode = [x.mode EXCEPT ![t] = "PR"], y.key = [x.key EXCEPT ![t] = k],
         y.owners = x.owners, y.blocked = x.blocked,
         y.granted = ListAdd(x.granted, t, o), y.alive = ListAdd(x.alive, t, o)
  PROVE  /\ DepthOk(y) /\ \A u \in Threads : Waits(y, u) <=> Waits(x, u)
         /\ Cycle(y.alive, On(x, k) \cup {t}) /\ t \notin On(x, k)
<1> DEFINE S == On(x, k)
           H == Holders(x, k)
           W == Waiters(x, k)
<1>1. /\ Shape(x) /\ NodeOk(x, t) /\ o \in S /\ o \in H /\ x.key[o] = k /\ o # t
      /\ \A u \in S : u # o => u \notin x.owners
  <2>1. Shape(x) /\ NodeOk(x, t) /\ o \in S /\ o # t
    BY DEF DepthOk, OwnerOk, On
  <2>2. o \in H /\ x.key[o] = k /\ \A u \in S : u # o => u \notin x.owners
    BY OwnerFacts
  <2> QED
    BY <2>1, <2>2
<1>2. x.granted[t] = t /\ x.blocked[t] = t /\ x.alive[t] = t /\ t \notin x.owners /\ x.key[t] = None
  BY <1>1 DEF NodeOk, Holds
<1>3. S \in SUBSET Threads /\ H \in SUBSET S /\ W \in SUBSET S /\ t \notin S
  BY DEF On, Holders, Waiters
<1>4. Cycle(x.alive, S) /\ Cycle(x.granted, H) /\ Cycle(x.blocked, {o} \cup W)
  BY <1>1 DEF OwnerOk
<1>5. /\ IsRings(y.granted, Threads) /\ y.granted[t] = x.granted[o] /\ y.granted[o] = t
      /\ \A u \in Threads \ {t, o} : y.granted[u] = x.granted[u]
      /\ Cycle(y.granted, H \cup {t})
  <2>1. IsRings(x.granted, Threads) /\ o # t
    BY <1>1 DEF Shape
  <2> HIDE DEF S, H, W
  <2> QED
    BY <1>1, <1>2, <1>3, <1>4, <2>1, AddKeeps
<1>6. /\ IsRings(y.alive, Threads) /\ y.alive[t] = x.alive[o] /\ y.alive[o] = t
      /\ \A u \in Threads \ {t, o} : y.alive[u] = x.alive[u]
      /\ Cycle(y.alive, S \cup {t})
  <2>1. IsRings(x.alive, Threads) /\ o # t
    BY <1>1 DEF Shape
  <2> HIDE DEF S, H, W
  <2> QED
    BY <1>1, <1>2, <1>3, <1>4, <2>1, AddKeeps
<1>7. Shape(y)
  BY <1>1, <1>5, <1>6 DEF Shape, NodeModes
<1>8. /\ y.mode[t] = "PR" /\ y.key[t] = k
      /\ \A u \in Threads \ {t} : y.mode[u] = x.mode[u] /\ y.key[u] = x.key[u]
  BY <1>1 DEF Shape
<1>9. \A u \in Threads : Waits(y, u) <=> Waits(x, u)
  BY DEF Waits
<1>10. \A u \in Threads \ {t, o} : Same(x, y, u)
  BY <1>5, <1>6, <1>8 DEF Same
<1>11. NodeOk(y, t) /\ NodeOk(y, o)
  <2>1. NodeOk(x, o)
    BY DEF DepthOk
  <2> QED
    BY <1>1, <1>2, <1>8, <1>9, <2>1 DEF NodeOk, Holds, Waits, OwnerOk
<1>12. OwnerOk(y, k, o)
  <2>1. On(y, k) = S \cup {t}
    BY <1>8 DEF On
  <2>2. Holders(y, k) = H \cup {t} /\ Waiters(y, k) = W
    BY <1>2, <1>3, <1>8, <1>9, <2>1 DEF Holders, Waiters, Holds, Waits
  <2>3. \A p \in y.owners : y.key[p] = k => p = o
    BY <1>1, <1>2, <1>8 DEF OwnerOk, Shape
  <2>4. W # {} => "PW" \in {y.mode[o], y.mode[y.blocked[o]]}
    <3>1. x.blocked[o] \in {o} \cup W
      BY <1>4 DEF Cycle, Closed
    <3> QED
      BY <1>1, <1>3, <1>8, <3>1 DEF OwnerOk
  <2>5. \A u, v \in H \cup {t} : u # v => y.mode[u] = "PR"
    BY <1>1, <1>3, <1>8 DEF OwnerOk
  <2> HIDE DEF S, H, W
  <2>6. o \in y.owners /\ Cycle(y.blocked, {o} \cup W)
    BY <1>4 DEF OwnerOk
  <2> QED
    BY <1>1, <1>5, <1>6, <2>1, <2>2, <2>3, <2>4, <2>5, <2>6 DEF OwnerOk
<1>13. KeyOk(y, k)
  BY <1>12 DEF KeyOk
<1>14. DepthOk(y)
  <2>1. \A u \in {t, o} : NodeOk(y, u) /\ x.key[u] \in {k, None} /\ y.key[u] \in {k, None}
    BY <1>1, <1>2, <1>8, <1>11
  <2> QED
    BY <1>7, <1>10, <1>13, <2>1, OneKey
<1> QED
  BY <1>3, <1>6, <1>9, <1>14

\* A thread takes over from an owner that only listens: Join.
LEMMA TakeOverKeeps ==
  ASSUME NEW x, DepthOk(x), NEW t \in Threads, NEW k \in Keys, NEW o \in Threads, OwnerOk(x, k, o),
         x.mode[t] = "INVAL", x.mode[o] = "NL", NEW m \in {"PR", "PW"},
         NEW y, y.mode = [x.mode EXCEPT ![t] = m], y.key = [x.key EXCEPT ![t] = k],
         y.owners = (x.owners \ {o}) \cup {t}, y.blocked = x.blocked,
         y.granted = x.granted, y.alive = ListAdd(x.alive, t, o)
  PROVE  /\ DepthOk(y) /\ \A u \in Threads : Waits(y, u) <=> Waits(x, u)
         /\ Cycle(y.alive, On(x, k) \cup {t}) /\ t \notin On(x, k)
<1> DEFINE S == On(x, k)
<1>1. /\ Shape(x) /\ NodeOk(x, t) /\ NodeOk(x, o) /\ o \in S /\ x.key[o] = k /\ o # t
      /\ Holders(x, k) = {} /\ Waiters(x, k) = {} /\ x.blocked[o] = o
      /\ \A u \in S : NodeOk(x, u) /\ x.mode[u] = "NL"
  <2>1. Shape(x) /\ NodeOk(x, t) /\ NodeOk(x, o) /\ o \in S
    BY DEF DepthOk, OwnerOk, On
  <2> HIDE DEF S
  <2> QED
    BY <2>1, OwnerFacts DEF S
<1>2. x.granted[t] = t /\ x.blocked[t] = t /\ x.alive[t] = t /\ t \notin x.owners /\ x.key[t] = None
  BY <1>1 DEF NodeOk, Holds
<1>3. S \in SUBSET Threads /\ t \notin S
  BY DEF On
<1>4. Cycle(x.alive, S)
  BY DEF OwnerOk
<1>5. /\ IsRings(y.alive, Threads) /\ y.alive[t] = x.alive[o] /\ y.alive[o] = t
      /\ \A u \in Threads \ {t, o} : y.alive[u] = x.alive[u]
      /\ Cycle(y.alive, S \cup {t})
  <2>1. IsRings(x.alive, Threads) /\ o # t
    BY <1>1 DEF Shape
  <2> HIDE DEF S
  <2> QED
    BY <1>1, <1>2, <1>3, <1>4, <2>1, AddKeeps
<1>6. Shape(y)
  BY <1>1, <1>5 DEF Shape, NodeModes
<1>7. /\ y.mode[t] = m /\ y.key[t] = k
      /\ \A u \in Threads \ {t} : y.mode[u] = x.mode[u] /\ y.key[u] = x.key[u]
  BY <1>1 DEF Shape
<1>8. \A u \in Threads : Waits(y, u) <=> Waits(x, u)
  BY <1>1, <1>2 DEF Waits
<1>9. \A u \in Threads \ {t, o} : Same(x, y, u)
  BY <1>5, <1>7 DEF Same
<1>10. NodeOk(y, t) /\ NodeOk(y, o)
  BY <1>1, <1>2, <1>7 DEF NodeOk, Holds, Waits
<1>11. OwnerOk(y, k, t)
  <2>1. On(y, k) = S \cup {t}
    BY <1>7 DEF On
  <2>2. \A u \in S : ~Holds(y, u) /\ ~Waits(y, u)
    BY <1>1, <1>3, <1>7, <1>8 DEF Holds, Holders, Waiters
  <2>3. Holders(y, k) = {t} /\ Waiters(y, k) = {}
    BY <1>2, <1>7, <2>1, <2>2 DEF Holders, Waiters, Holds, Waits
  <2>4. \A p \in y.owners : y.key[p] = k => p = t
    BY <1>1, <1>7 DEF OwnerOk, Shape
  <2>5. Cycle(y.granted, {t}) /\ Cycle(y.blocked, {t}) /\ {t} \cup {} = {t}
    BY <1>2, LooseCycle
  <2> HIDE DEF S
  <2> QED
    BY <1>5, <2>1, <2>3, <2>4, <2>5 DEF OwnerOk
<1>12. KeyOk(y, k)
  BY <1>11 DEF KeyOk
<1>13. DepthOk(y)
  <2>1. \A u \in {t, o} : NodeOk(y, u) /\ x.key[u] \in {k, None} /\ y.key[u] \in {k, None}
    BY <1>1, <1>2, <1>7, <1>10
  <2> QED
    BY <1>6, <1>9, <1>12, <2>1, OneKey
<1> QED
  BY <1>3, <1>5, <1>8, <1>13

\* A thread queues up behind the last of those that wait: Enqueue.
Enqueued(x, y, t, k, o, m) ==
    /\ y.mode = [x.mode EXCEPT ![t] = m] /\ y.key = [x.key EXCEPT ![t] = k]
    /\ y.owners = x.owners /\ y.blocked = ListAddTail(x.blocked, t, o)
    /\ y.granted = x.granted /\ y.alive = ListAdd(x.alive, t, o)

LEMMA EnqueueKeeps ==
  ASSUME NEW x, DepthOk(x), NEW t \in Threads, NEW k \in Keys, NEW o \in Threads, OwnerOk(x, k, o),
         NEW m \in {"PR", "PW"}, x.mode[t] = "INVAL", x.mode[o] # "NL", x.mode[o] = "PW" \/ m = "PW",
         NEW y, Enqueued(x, y, t, k, o, m)
  PROVE  DepthOk(y) /\ \A u \in Threads : Waits(y, u) <=> Waits(x, u) \/ u = t
<1> USE DEF Enqueued
<1> DEFINE S == On(x, k)
           H == Holders(x, k)
           W == Waiters(x, k)
           p == Prev(x.blocked, o)
<1>1. /\ Shape(x) /\ NodeOk(x, t) /\ o \in S /\ o \in H /\ x.key[o] = k /\ o # t
      /\ \A u \in S : u # o => u \notin x.owners
  <2>1. Shape(x) /\ NodeOk(x, t) /\ o \in S /\ o # t
    BY DEF DepthOk, OwnerOk, On
  <2>2. o \in H /\ x.key[o] = k /\ \A u \in S : u # o => u \notin x.owners
    BY OwnerFacts
  <2> QED
    BY <2>1, <2>2
<1>2. x.granted[t] = t /\ x.blocked[t] = t /\ x.alive[t] = t /\ t \notin x.owners /\ x.key[t] = None
  BY <1>1 DEF NodeOk, Holds
<1>3. S \in SUBSET Threads /\ H \in SUBSET S /\ W \in SUBSET S /\ t \notin S
  BY DEF On, Holders, Waiters
<1>4. Cycle(x.alive, S) /\ Cycle(x.granted, H) /\ Cycle(x.blocked, {o} \cup W)
  BY <1>1 DEF OwnerOk
<1>5. /\ p \in {o} \cup W /\ x.blocked[p] = o /\ \A u \in Threads : x.blocked[u] = o => u = p
  BY <1>1, <1>3, <1>4, CyclePrev DEF Shape
<1>6. /\ IsRings(y.alive, Threads) /\ y.alive[t] = x.alive[o] /\ y.alive[o] = t
      /\ \A u \in Threads \ {t, o} : y.alive[u] = x.alive[u]
      /\ Cycle(y.alive, S \cup {t})
  <2>1. IsRings(x.alive, Threads) /\ o # t
    BY <1>1 DEF Shape
  <2> HIDE DEF S, H, W
  <2> QED
    BY <1>1, <1>2, <1>3, <1>4, <2>1, AddKeeps
<1>7. y.blocked = ListAdd(x.blocked, t, p)
  BY DEF ListAddTail
<1> HIDE DEF p
<1>8. /\ IsRings(y.blocked, Threads) /\ y.blocked[t] = o /\ y.blocked[p] = t
      /\ \A u \in Threads \ {t, p} : y.blocked[u] = x.blocked[u]
      /\ Cycle(y.blocked, ({o} \cup W) \cup {t})
  <2>1. p # t /\ t \notin {o} \cup W /\ {o} \cup W \in SUBSET Threads
    BY <1>1, <1>3, <1>5
  <2>2. p \in Threads /\ IsRings(x.blocked, Threads)
    BY <1>1, <2>1, <1>5 DEF Shape
  <2> DEFINE C == {o} \cup W
  <2>3. C \in SUBSET Threads /\ Cycle(x.blocked, C) /\ p \in C /\ t \notin C
    BY <1>4, <1>5, <2>1
  <2> HIDE DEF C
  <2>4. Cycle(y.blocked, C \cup {t})
    BY <1>2, <1>7, <2>1, <2>2, <2>3, AddKeeps
  <2> QED
    BY <1>2, <1>5, <1>7, <2>1, <2>2, <2>4, AddKeeps DEF C
<1>9. Shape(y)
  BY <1>1, <1>6, <1>8 DEF Shape, NodeModes
<1>10. /\ y.mode[t] = m /\ y.key[t] = k
       /\ \A u \in Threads \ {t} : y.mode[u] = x.mode[u] /\ y.key[u] = x.key[u]
  BY <1>1 DEF Shape
<1>11. \A u \in Threads : Waits(y, u) <=> Waits(x, u) \/ u = t
  <2>1. p \in W => Waits(x, p) /\ Waits(y, p)
    BY <1>1, <1>3, <1>8, <1>5 DEF Waits, Waiters
  <2>2. p = o => ~Waits(x, p) /\ ~Waits(y, p)
    BY DEF OwnerOk, Waits
  <2> QED
    BY <1>1, <1>2, <1>5, <1>8, <2>1, <2>2 DEF Waits
<1>12. \A u \in Threads \ {t, o, p} : Same(x, y, u)
  BY <1>6, <1>8, <1>10 DEF Same
<1>13. NodeOk(y, t) /\ NodeOk(y, o) /\ NodeOk(y, p)
  <2>1. ASSUME NEW u \in {o, p} PROVE NodeOk(y, u)
    <3>1. NodeOk(x, u) /\ u \in S /\ u \in Threads /\ x.mode[u] \in {"PR", "PW"} /\ u # t
      <4>1. \A v \in W : x.mode[v] \in {"PR", "PW"}
        BY <1>3, WaitsOn DEF Waiters
      <4> QED
        BY <1>1, <1>3, <1>5, <4>1 DEF DepthOk, Holders, Holds
    <3> QED
      BY <1>10, <1>11, <3>1 DEF NodeOk, Holds, On
  <2> QED
    BY <1>2, <1>10, <1>11, <2>1 DEF NodeOk, Holds
<1>14. OwnerOk(y, k, o)
  <2>1. On(y, k) = S \cup {t}
    BY <1>10 DEF On
  <2>2. Holders(y, k) = H /\ Waiters(y, k) = W \cup {t}
    BY <1>3, <1>10, <1>11, <2>1 DEF Holders, Waiters, Holds
  <2>3. \A q \in y.owners : y.key[q] = k => q = o
    BY <1>1, <1>2, <1>10 DEF OwnerOk, Shape
  <2>4. "PW" \in {y.mode[o], y.mode[y.blocked[o]]}
    <3>1. CASE p = o
      BY <1>1, <1>8, <1>10, <3>1
    <3>2. CASE p # o
      <4>1. y.blocked[o] = x.blocked[o] /\ x.blocked[o] \in {o} \cup W /\ W # {}
        BY <1>1, <1>3, <1>4, <1>5, <1>8, <3>2 DEF Cycle, Closed
      <4> QED
        BY <1>1, <1>3, <1>10, <4>1 DEF OwnerOk
    <3> QED
      BY <3>1, <3>2
  <2>5. \A u, v \in H : u # v => y.mode[u] = "PR"
    BY <1>1, <1>3, <1>10 DEF OwnerOk
  <2> HIDE DEF S, H, W
  <2>6. o \in y.owners /\ Cycle(y.blocked, {o} \cup (W \cup {t})) /\ Cycle(y.granted, H)
    <3>1. ({o} \cup W) \cup {t} = {o} \cup (W \cup {t})
      OBVIOUS
    <3> QED
      BY <1>4, <1>8, <3>1 DEF OwnerOk
  <2> QED
    BY <1>1, <1>6, <2>1, <2>2, <2>3, <2>4, <2>5, <2>6 DEF OwnerOk
<1>15. KeyOk(y, k)
  BY <1>14 DEF KeyOk
<1>16. DepthOk(y)
  <2>1. x.key[p] = k /\ p # t
    BY <1>1, <1>3, <1>5, <1>10 DEF On
  <2>2. \A u \in {t, o, p} : NodeOk(y, u) /\ x.key[u] \in {k, None} /\ y.key[u] \in {k, None}
    BY <1>1, <1>2, <1>10, <1>13, <2>1, <1>3, <1>5
  <2> QED
    BY <1>9, <1>12, <1>15, <2>2, OneKey
<1> QED
  BY <1>11, <1>16

\* An owner that holds its key alone, and one that nobody waits for either.
LEMMA AloneIs ==
  ASSUME NEW x, DepthOk(x), NEW t \in Threads, Holds(x, t), x.granted[t] = t
  PROVE  /\ x.key[t] \in Keys /\ OwnerOk(x, x.key[t], t) /\ Holders(x, x.key[t]) = {t}
         /\ x.blocked[t] = t => /\ Waiters(x, x.key[t]) = {}
                                /\ \A u \in On(x, x.key[t]) \ {t} : x.mode[u] = "NL"
<1> DEFINE k == x.key[t]
           H == Holders(x, k)
           W == Waiters(x, k)
<1>1. x.mode[t] # "INVAL" /\ t \in H
  BY DEF Holds, Holders, On
<1>2. k \in Keys /\ \E p \in Threads : OwnerOk(x, k, p)
  BY <1>1, OwnerOf
<1>3. PICK o \in Threads : OwnerOk(x, k, o)
  BY <1>2
<1>4. Cycle(x.granted, H) /\ o \in H /\ Cycle(x.blocked, {o} \cup W)
  BY <1>1, <1>3 DEF OwnerOk
<1>5. H = {t}
  <2>1. Closed(x.granted, {t}) /\ {t} \in SUBSET H
    BY <1>1 DEF Closed
  <2> QED
    BY <1>4, <2>1 DEF Cycle
<1>6. o = t
  BY <1>4, <1>5
<1>7. ASSUME x.blocked[t] = t
      PROVE  W = {} /\ \A u \in On(x, k) \ {t} : x.mode[u] = "NL"
  <2>1. Closed(x.blocked, {t}) /\ {t} \in SUBSET ({t} \cup W)
    BY <1>7 DEF Closed
  <2>2. {t} \cup W = {t}
    BY <1>4, <1>6, <2>1 DEF Cycle
  <2>3. ~Waits(x, t)
    BY <1>7 DEF Waits
  <2>4. W = {}
    BY <2>2, <2>3 DEF Waiters
  <2>5. \A u \in On(x, k) \ {t} : x.mode[u] \notin {"PR", "PW"}
    BY <1>5, <2>4 DEF Holders, Waiters, Holds
  <2>6. Shape(x)
    BY DEF DepthOk
  <2> QED
    BY <2>4, <2>5, <2>6 DEF On, Shape, NodeModes
<1> QED
  BY <1>2, <1>3, <1>5, <1>6, <1>7

\* A holder among others: all of them read, and the next of them is not the first.
LEMMA AmongIs ==
  ASSUME NEW x, DepthOk(x), NEW t \in Threads, Holds(x, t), x.granted[t] # t
  PROVE  LET k == x.key[t] IN
         /\ k \in Keys /\ \E o \in Threads : OwnerOk(x, k, o)
         /\ t \in Holders(x, k) /\ x.granted[t] \in Holders(x, k) \ {t}
         /\ Cycle(x.granted, Holders(x, k)) /\ \A u \in Holders(x, k) : x.mode[u] = "PR"
<1> DEFINE k == x.key[t]
           H == Holders(x, k)
<1>1. x.mode[t] # "INVAL" /\ t \in H
  BY DEF Holds, Holders, On
<1>2. k \in Keys /\ \E o \in Threads : OwnerOk(x, k, o)
  BY <1>1, OwnerOf
<1>3. Cycle(x.granted, H) /\ \A u, v \in H : u # v => x.mode[u] = "PR"
  BY <1>1, <1>2 DEF OwnerOk
<1>4. x.granted[t] \in H \ {t}
  BY <1>1, <1>3 DEF Cycle, Closed
<1>5. \A u \in H : x.mode[u] = "PR"
  BY <1>1, <1>3, <1>4
<1> QED
  BY <1>1, <1>2, <1>3, <1>4, <1>5

\* The only holder goes on listening: LeaveAlone.
LEMMA ListenKeeps ==
  ASSUME NEW x, DepthOk(x), NEW t \in Threads, Holds(x, t), x.granted[t] = t, x.blocked[t] = t,
         NEW y, y.mode = [x.mode EXCEPT ![t] = "NL"], y.key = x.key, y.owners = x.owners,
         y.granted = x.granted, y.blocked = x.blocked, y.alive = x.alive
  PROVE  DepthOk(y) /\ \A u \in Threads : Waits(y, u) <=> Waits(x, u)
<1> DEFINE k == x.key[t]
<1>1. k \in Keys /\ OwnerOk(x, k, t) /\ Waiters(x, k) = {} /\ \A u \in On(x, k) \ {t} : x.mode[u] = "NL"
  BY AloneIs
<1> HIDE DEF k
<1>2. Shape(x) /\ t \in On(x, k) /\ x.key[t] = k
  BY <1>1 DEF DepthOk, OwnerOk, k
<1>3. Shape(y) /\ y.mode[t] = "NL" /\ \A u \in Threads \ {t} : y.mode[u] = x.mode[u]
  BY <1>2 DEF Shape, NodeModes
<1>4. \A u \in Threads : Waits(y, u) <=> Waits(x, u)
  BY DEF Waits
<1>5. OwnerOk(y, k, t)
  <2>1. On(y, k) = On(x, k)
    BY <1>2, <1>3 DEF On
  <2>2. Holders(y, k) = {} /\ Waiters(y, k) = {}
    BY <1>1, <1>3, <1>4, <2>1 DEF Holders, Waiters, Holds, On
  <2> QED
    BY <1>1, <2>1, <2>2 DEF OwnerOk
<1>6. KeyOk(y, k)
  BY <1>5 DEF KeyOk
<1>7. NodeOk(y, t)
  BY <1>1, <1>2, <1>3 DEF NodeOk
<1>8. \A u \in Threads \ {t} : Same(x, y, u)
  BY <1>3 DEF Same
<1>9. x.key[t] \in {k, None} /\ y.key[t] \in {k, None}
  BY <1>2
<1> QED
  BY <1>1, <1>3, <1>4, <1>6, <1>7, <1>8, <1>9, OneKey

\* An owner that leaves only listeners behind leaves the key to one of them, if
\* there is one: LeaveAlone and StopListen.
LEMMA GoneKeeps ==
  ASSUME NEW x, DepthOk(x), NEW t \in Threads, NEW k \in Keys, OwnerOk(x, k, t), x.blocked[t] = t,
         x.granted[t] = t, \A u \in On(x, k) \ {t} : x.mode[u] = "NL",
         NEW y, y.mode = [x.mode EXCEPT ![t] = "INVAL"], y.key = [x.key EXCEPT ![t] = None],
         y.owners = (x.owners \cup {x.alive[t]}) \ {t},
         y.granted = x.granted, y.blocked = x.blocked, y.alive = ListDel(x.alive, t)
  PROVE  DepthOk(y) /\ \A u \in Threads : Waits(y, u) <=> Waits(x, u)
<1> DEFINE S == On(x, k)
           n == x.alive[t]
<1>1. Shape(x) /\ t \in S /\ x.key[t] = k /\ S \in SUBSET Threads /\ Cycle(x.alive, S) /\ n \in S
  BY DEF DepthOk, OwnerOk, Cycle, Closed, On
<1>2. \A u \in S : NodeOk(x, u) /\ x.blocked[u] = u /\ x.granted[u] = u
  <2>1. ASSUME NEW u \in S PROVE NodeOk(x, u) /\ x.blocked[u] = u /\ x.granted[u] = u
    BY <1>1 DEF DepthOk, NodeOk, Holds
  <2> QED
    BY <2>1
<1>3. /\ IsRings(y.alive, Threads) /\ y.alive[t] = t
      /\ \A u \in Threads \ S : y.alive[u] = x.alive[u]
      /\ S # {t} => Cycle(y.alive, S \ {t})
  <2>1. IsRings(x.alive, Threads)
    BY <1>1 DEF Shape
  <2> DEFINE q == ListDel(x.alive, t)
  <2>2. y.alive = q
    OBVIOUS
  <2>3. S \in SUBSET Threads /\ t \in S /\ Cycle(x.alive, S)
    BY <1>1
  <2> HIDE DEF S
  <2>4. IsRings(q, Threads) /\ q[t] = t /\ (\A u \in Threads \ S : q[u] = x.alive[u]) /\ (S # {t} => Cycle(q, S \ {t}))
    BY ONLY <2>1, <2>3, DelKeeps
  <2> QED
    BY <2>2, <2>4
<1>4. /\ y.mode[t] = "INVAL" /\ y.key[t] = None
      /\ \A u \in Threads \ {t} : y.mode[u] = x.mode[u] /\ y.key[u] = x.key[u]
  BY <1>1 DEF Shape
<1>5. Shape(y)
  BY <1>1, <1>3 DEF Shape, NodeModes
<1>6. \A u \in Threads : Waits(y, u) <=> Waits(x, u)
  BY <1>1, <1>2 DEF Waits
<1>7. \A u \in Threads \ S : Same(x, y, u)
  BY <1>1, <1>3, <1>4 DEF Same
<1>8. \A u \in S : NodeOk(y, u) /\ x.key[u] \in {k, None} /\ y.key[u] \in {k, None}
  <2>1. NodeOk(y, t)
    BY <1>2, <1>1, <1>3, <1>4 DEF NodeOk
  <2>2. ASSUME NEW u \in S \ {t} PROVE NodeOk(y, u)
    BY <1>2, <1>1, <1>4, <2>2 DEF NodeOk
  <2> QED
    BY <1>1, <1>4, <2>1, <2>2 DEF On
<1>9. KeyOk(y, k)
  <2>1. On(y, k) = S \ {t}
    BY <1>1, <1>4 DEF On
  <2>2. CASE S = {t}
    BY <2>1, <2>2 DEF KeyOk
  <2>3. CASE S # {t}
    <3>1. Cycle(y.alive, S \ {t}) /\ n # t
      <4>1. n = t => Closed(x.alive, {t})
        BY DEF Closed
      <4> QED
        BY <1>1, <1>3, <2>3, <4>1 DEF Cycle
    <3>2. Holders(y, k) = {} /\ Waiters(y, k) = {}
      BY <1>2, <1>4, <2>1 DEF Holders, Waiters, Holds, Waits, On
    <3>3. \A p \in y.owners : y.key[p] = k => p = n
      BY <1>1, <1>4 DEF OwnerOk, Shape
    <3>4. Cycle(y.blocked, {n}) /\ {n} \cup {} = {n}
      BY <1>1, <1>2, LooseCycle
    <3>5. n \in y.owners /\ n \in S \ {t}
      BY <1>1, <3>1
    <3> HIDE DEF n, S
    <3>6. OwnerOk(y, k, n)
      BY <2>1, <3>1, <3>2, <3>3, <3>4, <3>5 DEF OwnerOk
    <3> QED
      BY <1>1, <3>5, <3>6 DEF KeyOk
  <2> QED
    BY <2>2, <2>3
<1> HIDE DEF S
<1> QED
  BY <1>5, <1>6, <1>7, <1>8, <1>9, OneKey

\* A listener that is not the owner leaves: StopListen.
LEMMA QuietKeeps ==
  ASSUME NEW x, DepthOk(x), NEW t \in Threads, x.mode[t] = "NL", t \notin x.owners,
         NEW y, y.mode = [x.mode EXCEPT ![t] = "INVAL"], y.key = [x.key EXCEPT ![t] = None],
         y.owners = x.owners,
         y.granted = x.granted, y.blocked = x.blocked, y.alive = ListDel(x.alive, t)
  PROVE  DepthOk(y) /\ \A u \in Threads : Waits(y, u) <=> Waits(x, u)
<1> DEFINE k == x.key[t]
           S == On(x, k)
<1>1. k \in Keys /\ \E p \in Threads : OwnerOk(x, k, p)
  BY OwnerOf
<1>2. PICK o \in Threads : OwnerOk(x, k, o)
  BY <1>1
<1>3. /\ Shape(x) /\ t \in S /\ S \in SUBSET Threads /\ Cycle(x.alive, S) /\ o \in S /\ o # t
      /\ x.key[t] = k
  BY <1>2 DEF DepthOk, OwnerOk, On
<1> HIDE DEF k
<1>4. x.blocked[t] = t /\ x.granted[t] = t
  BY DEF DepthOk, NodeOk, Holds
<1>5. /\ IsRings(y.alive, Threads) /\ y.alive[t] = t
      /\ \A u \in Threads \ S : y.alive[u] = x.alive[u]
      /\ S # {t} => Cycle(y.alive, S \ {t})
  <2>1. IsRings(x.alive, Threads)
    BY <1>3 DEF Shape
  <2> DEFINE q == ListDel(x.alive, t)
  <2>2. y.alive = q
    OBVIOUS
  <2>3. S \in SUBSET Threads /\ t \in S /\ Cycle(x.alive, S)
    BY <1>3
  <2> HIDE DEF S
  <2>4. IsRings(q, Threads) /\ q[t] = t /\ (\A u \in Threads \ S : q[u] = x.alive[u]) /\ (S # {t} => Cycle(q, S \ {t}))
    BY ONLY <2>1, <2>3, DelKeeps
  <2> QED
    BY <2>2, <2>4
<1>6. /\ y.mode[t] = "INVAL" /\ y.key[t] = None
      /\ \A u \in Threads \ {t} : y.mode[u] = x.mode[u] /\ y.key[u] = x.key[u]
  BY <1>3 DEF Shape
<1>7. Shape(y)
  BY <1>3, <1>5 DEF Shape, NodeModes
<1>8. \A u \in Threads : Waits(y, u) <=> Waits(x, u)
  BY DEF Waits
<1>9. \A u \in Threads \ S : Same(x, y, u)
  BY <1>3, <1>5, <1>6 DEF Same
<1>10. \A u \in S : NodeOk(y, u) /\ x.key[u] \in {k, None} /\ y.key[u] \in {k, None}
  <2>1. NodeOk(y, t)
    BY <1>4, <1>5, <1>6 DEF NodeOk
  <2>2. ASSUME NEW u \in S \ {t} PROVE NodeOk(y, u)
    BY <1>6, <1>8, <2>2 DEF DepthOk, NodeOk, Holds, On
  <2> QED
    BY <1>6, <2>1, <2>2 DEF On
<1>11. OwnerOk(y, k, o)
  <2>1. On(y, k) = S \ {t}
    BY <1>6 DEF On
  <2>2. t \notin Holders(x, k) /\ t \notin Waiters(x, k)
    BY <1>4 DEF Holders, Waiters, Holds, Waits
  <2>3. Holders(y, k) = Holders(x, k) /\ Waiters(y, k) = Waiters(x, k)
    BY <1>3, <1>6, <1>8, <2>1, <2>2 DEF Holders, Waiters, Holds
  <2>4. \A p \in y.owners : y.key[p] = k => p = o
    BY <1>2, <1>3, <1>6 DEF OwnerOk, Shape
  <2>5. Waiters(x, k) # {} => y.mode[o] = x.mode[o] /\ y.mode[y.blocked[o]] = x.mode[x.blocked[o]]
    <3>1. x.blocked[o] \in {o} \cup Waiters(x, k)
      BY <1>2 DEF OwnerOk, Cycle, Closed
    <3>2. x.blocked[o] # t /\ x.blocked[o] \in Threads
      BY <1>3, <2>2, <3>1 DEF Waiters, On
    <3> QED
      BY <1>3, <1>6, <3>2
  <2>6. \A u \in Holders(x, k) : y.mode[u] = x.mode[u]
    BY <1>6, <2>2 DEF Holders, On
  <2>7. Cycle(y.alive, S \ {t}) /\ o \in S \ {t}
    BY <1>3, <1>5
  <2> HIDE DEF S
  <2> QED
    BY <1>2, <2>1, <2>3, <2>4, <2>5, <2>6, <2>7 DEF OwnerOk
<1>12. KeyOk(y, k)
  BY <1>11 DEF KeyOk
<1> HIDE DEF S
<1> QED
  BY <1>1, <1>7, <1>8, <1>9, <1>10, <1>12, OneKey DEF k

\* list_del_init of a node that is on no list.
LEMMA DelLoose ==
  ASSUME NEW S, NEW r, IsRings(r, S), NEW x \in S, r[x] = x PROVE ListDel(r, x) = r
<1>1. r \in [S -> S] /\ \A z \in S : r[z] = x => z = x
  BY DEF IsRings, IsInjective
<1>2. Prev(r, x) = x
  BY <1>1 DEF Prev
<1> QED
  BY <1>1, <1>2 DEF ListDel

\* A thread leaves a key to others, to listen or for good: what becomes of the key's
\* threads and of their alive ring.
Leaves(x, y, t, m) ==
    /\ y.mode = [x.mode EXCEPT ![t] = m]
    /\ y.key = [x.key EXCEPT ![t] = IF m = "NL" THEN @ ELSE None]
    /\ y.alive = IF m = "INVAL" THEN ListDel(x.alive, t) ELSE x.alive

LEMMA LeavesOn ==
  ASSUME NEW x, Shape(x), NEW k \in Keys, NEW t \in On(x, k), Cycle(x.alive, On(x, k)),
         NEW m \in {"NL", "INVAL"}, NEW y, Leaves(x, y, t, m), NEW h \in On(x, k), h # t
  PROVE  /\ y.mode \in [Threads -> NodeModes] /\ y.key \in [Threads -> Keys \cup {None}]
         /\ IsRings(y.alive, Threads) /\ Cycle(y.alive, On(y, k))
         /\ On(y, k) = IF m = "NL" THEN On(x, k) ELSE On(x, k) \ {t}
         /\ y.mode[t] = m /\ y.key[t] = (IF m = "NL" THEN k ELSE None)
         /\ m = "INVAL" => y.alive[t] = t
         /\ \A u \in Threads \ {t} : y.mode[u] = x.mode[u] /\ y.key[u] = x.key[u]
         /\ \A u \in Threads \ On(x, k) : y.alive[u] = x.alive[u]
<1> DEFINE S == On(x, k)
           q == ListDel(x.alive, t)
<1>1. /\ x.mode \in [Threads -> NodeModes] /\ x.key \in [Threads -> Keys \cup {None}]
      /\ IsRings(x.alive, Threads) /\ S \in SUBSET Threads /\ x.key[t] = k
  BY DEF Shape, On
<1>2. /\ y.mode \in [Threads -> NodeModes] /\ y.key \in [Threads -> Keys \cup {None}]
      /\ y.mode[t] = m /\ y.key[t] = (IF m = "NL" THEN k ELSE None)
      /\ \A u \in Threads \ {t} : y.mode[u] = x.mode[u] /\ y.key[u] = x.key[u]
  BY <1>1 DEF Leaves, NodeModes
<1>3. On(y, k) = IF m = "NL" THEN S ELSE S \ {t}
  BY <1>1, <1>2, HtreeAssumption DEF On
<1>4. IsRings(q, Threads) /\ q[t] = t /\ (\A u \in Threads \ S : q[u] = x.alive[u]) /\ Cycle(q, S \ {t})
  <2>1. S # {t} /\ t \in S /\ Cycle(x.alive, S)
    OBVIOUS
  <2>2. IsRings(x.alive, Threads) /\ S \in SUBSET Threads
    BY <1>1
  <2> HIDE DEF S
  <2> QED
    BY ONLY <2>1, <2>2, DelKeeps
<1> HIDE DEF q, S
<1>5. y.alive = IF m = "INVAL" THEN q ELSE x.alive
  BY DEF Leaves, q
<1> QED
  BY <1>1, <1>2, <1>3, <1>4, <1>5 DEF S

\* A walk that stops at once.
LEMMA WalkNone ==
  ASSUME NEW r, NEW h, NEW P, r[h] \notin P PROVE Walk(r, h, P) = {}
<1>1. {} \in SUBSET P
  OBVIOUS
<1> QED
  BY <1>1 DEF Walk

\* A holder leaves that is not the owner: HandOver.
LEMMA PartKeeps ==
  ASSUME NEW x, DepthOk(x), NEW t \in Threads, Holds(x, t), t \notin x.owners, x.granted[t] # t,
         NEW m \in {"NL", "INVAL"}, NEW y, Leaves(x, y, t, m),
         y.owners = x.owners, y.blocked = x.blocked, y.granted = ListDel(x.granted, t)
  PROVE  /\ DepthOk(y) /\ \A u \in Threads : Waits(y, u) <=> Waits(x, u)
         /\ LET h == x.granted[t] n == x.blocked[h] IN
            h \in Threads /\ x.blocked[t] = t /\ x.mode[h] = "PR" /\ (n = h \/ x.mode[n] = "PW")
<1> DEFINE k == x.key[t]
           S == On(x, k)
           H == Holders(x, k)
           W == Waiters(x, k)
           h == x.granted[t]
<1>1. /\ k \in Keys /\ (\E p \in Threads : OwnerOk(x, k, p)) /\ t \in H /\ h \in H \ {t}
      /\ Cycle(x.granted, H) /\ \A u \in H : x.mode[u] = "PR"
  BY AmongIs
<1> HIDE DEF k
<1>2. PICK o \in Threads : OwnerOk(x, k, o)
  BY <1>1
<1>3. /\ Shape(x) /\ S \in SUBSET Threads /\ H \in SUBSET S /\ W \in SUBSET S
      /\ Cycle(x.alive, S) /\ Cycle(x.blocked, {o} \cup W) /\ o \in H /\ o # t /\ x.key[t] = k
  BY <1>1, <1>2 DEF DepthOk, OwnerOk, On, Holders, Waiters, k
<1>4. x.blocked[t] = t /\ ~Waits(x, t) /\ ~Waits(x, h)
  BY <1>1 DEF Holds, Waits, Holders
<1>5. /\ y.mode \in [Threads -> NodeModes] /\ y.key \in [Threads -> Keys \cup {None}]
      /\ IsRings(y.alive, Threads) /\ Cycle(y.alive, On(y, k))
      /\ On(y, k) = IF m = "NL" THEN S ELSE S \ {t}
      /\ y.mode[t] = m /\ y.key[t] = (IF m = "NL" THEN k ELSE None)
      /\ m = "INVAL" => y.alive[t] = t
      /\ \A u \in Threads \ {t} : y.mode[u] = x.mode[u] /\ y.key[u] = x.key[u]
      /\ \A u \in Threads \ S : y.alive[u] = x.alive[u]
  <2>1. t \in S /\ h \in S /\ h # t
    BY <1>1, <1>3
  <2> HIDE DEF h
  <2> QED
    BY <1>1, <1>3, <2>1, LeavesOn
<1>6. /\ IsRings(y.granted, Threads) /\ y.granted[t] = t
      /\ \A u \in Threads \ H : y.granted[u] = x.granted[u]
      /\ Cycle(y.granted, H \ {t})
  <2>1. IsRings(x.granted, Threads) /\ t \in H /\ H \in SUBSET Threads /\ H # {t}
    BY <1>1, <1>3 DEF Shape
  <2> DEFINE q == ListDel(x.granted, t)
  <2> HIDE DEF H
  <2>2. IsRings(q, Threads) /\ q[t] = t /\ (\A u \in Threads \ H : q[u] = x.granted[u]) /\ Cycle(q, H \ {t})
    BY ONLY <1>1, <2>1, DelKeeps
  <2> QED
    BY <2>2
<1>7. Shape(y)
  BY <1>3, <1>5, <1>6 DEF Shape
<1>8. \A u \in Threads : Waits(y, u) <=> Waits(x, u)
  BY DEF Waits
<1>9. \A u \in Threads \ S : Same(x, y, u)
  BY <1>1, <1>3, <1>5, <1>6 DEF Same
<1>10. \A u \in S : NodeOk(y, u) /\ x.key[u] \in {k, None} /\ y.key[u] \in {k, None}
  <2>1. NodeOk(y, t)
    BY <1>1, <1>4, <1>5, <1>6 DEF NodeOk
  <2>2. ASSUME NEW u \in S \ {t} PROVE NodeOk(y, u)
    <3>1. NodeOk(x, u) /\ u \in Threads /\ x.mode[u] # "INVAL" /\ x.key[u] = k
      BY <1>3, <2>2 DEF DepthOk, On
    <3>2. y.mode[u] = x.mode[u] /\ y.key[u] = x.key[u] /\ (Holds(y, u) <=> Holds(x, u))
      BY <1>5, <1>8, <2>2, <3>1 DEF Holds
    <3>3. ~Holds(x, u) => y.granted[u] = x.granted[u]
      BY <1>6, <3>1 DEF Holders
    <3> QED
      BY <3>1, <3>2, <3>3 DEF NodeOk
  <2> QED
    BY <1>5, <2>1, <2>2 DEF On
<1>11. OwnerOk(y, k, o)
  <2>1. Holders(y, k) = H \ {t} /\ Waiters(y, k) = W
    BY <1>3, <1>4, <1>5, <1>8 DEF Holders, Waiters, Holds
  <2>2. \A p \in y.owners : y.key[p] = k => p = o
    BY <1>2, <1>3, <1>5 DEF OwnerOk, Shape
  <2>3. W # {} => y.mode[o] = x.mode[o] /\ y.mode[y.blocked[o]] = x.mode[x.blocked[o]]
    <3>1. x.blocked[o] \in {o} \cup W
      BY <1>3 DEF Cycle, Closed
    <3>2. x.blocked[o] # t /\ x.blocked[o] \in Threads
      BY <1>3, <1>4, <3>1 DEF Waiters
    <3> QED
      BY <1>3, <1>5, <3>2
  <2>4. o \in On(y, k) /\ o \in H \ {t} /\ \A u, v \in H \ {t} : u # v => y.mode[u] = "PR"
    BY <1>1, <1>3, <1>5
  <2>5. W # {} => "PW" \in {y.mode[o], y.mode[y.blocked[o]]}
    BY <1>2, <2>3 DEF OwnerOk
  <2>6. o \in y.owners
    BY <1>2 DEF OwnerOk
  <2> HIDE DEF S, H, W
  <2> QED
    BY <1>3, <1>5, <1>6, <2>1, <2>2, <2>4, <2>5, <2>6 DEF OwnerOk
<1>12. KeyOk(y, k)
  BY <1>11 DEF KeyOk
<1>13. x.blocked[h] = h \/ x.mode[x.blocked[h]] = "PW"
  <2>1. CASE h # o
    BY <1>1, <1>2, <1>3, <1>4, <2>1 DEF Waits, OwnerOk, On
  <2>2. CASE h = o
    <3>1. x.blocked[o] \in {o} \cup W
      BY <1>3 DEF Cycle, Closed
    <3> QED
      BY <1>1, <1>2, <1>3, <2>2, <3>1 DEF OwnerOk
  <2> QED
    BY <2>1, <2>2
<1>14. h \in Threads /\ x.mode[h] = "PR"
  BY <1>1, <1>3
<1> HIDE DEF S, H, W
<1>15. DepthOk(y)
  BY <1>1, <1>7, <1>9, <1>10, <1>12, OneKey
<1> QED
  BY <1>4, <1>8, <1>13, <1>14, <1>15

\* The owner leaves while others hold the key: HandOver to one of them, who gets
\* the waiting threads too.
LEMMA PassKeeps ==
  ASSUME NEW x, DepthOk(x), NEW t \in Threads, Holds(x, t), t \in x.owners, x.granted[t] # t,
         NEW h, h = x.granted[t], NEW m \in {"NL", "INVAL"}, NEW y, Leaves(x, y, t, m),
         y.owners = (x.owners \ {t}) \cup {h}, y.granted = ListDel(x.granted, t),
         y.blocked = IF x.blocked[t] = t THEN x.blocked ELSE ListDel(ListAdd(x.blocked, h, t), t)
  PROVE  /\ DepthOk(y) /\ \A u \in Threads : Waits(y, u) <=> Waits(x, u)
         /\ h \in Threads /\ x.mode[h] = "PR" /\ x.blocked[h] = h
         /\ y.blocked[h] = h \/ x.mode[y.blocked[h]] = "PW"
<1> DEFINE k == x.key[t]
           S == On(x, k)
           H == Holders(x, k)
           W == Waiters(x, k)
<1>1. /\ k \in Keys /\ t \in H /\ h \in H \ {t}
      /\ Cycle(x.granted, H) /\ \A u \in H : x.mode[u] = "PR"
  BY AmongIs
<1> HIDE DEF k
<1>2. OwnerOk(x, k, t) /\ x.key[t] = k
  BY OwnersKey DEF k
<1>3. /\ Shape(x) /\ S \in SUBSET Threads /\ H \in SUBSET S /\ W \in SUBSET S
      /\ Cycle(x.alive, S) /\ Cycle(x.blocked, {t} \cup W)
      /\ \A u \in S : u # t => u \notin x.owners
  BY <1>1, <1>2 DEF DepthOk, OwnerOk, On, Holders, Waiters
<1>4. /\ x.blocked[h] = h /\ ~Waits(x, t) /\ ~Waits(x, h) /\ h \notin x.owners
      /\ h \notin {t} \cup W
  BY <1>1, <1>3 DEF Holds, Waits, Holders, Waiters
<1>5. /\ y.mode \in [Threads -> NodeModes] /\ y.key \in [Threads -> Keys \cup {None}]
      /\ IsRings(y.alive, Threads) /\ Cycle(y.alive, On(y, k))
      /\ On(y, k) = IF m = "NL" THEN S ELSE S \ {t}
      /\ y.mode[t] = m /\ y.key[t] = (IF m = "NL" THEN k ELSE None)
      /\ m = "INVAL" => y.alive[t] = t
      /\ \A u \in Threads \ {t} : y.mode[u] = x.mode[u] /\ y.key[u] = x.key[u]
      /\ \A u \in Threads \ S : y.alive[u] = x.alive[u]
  <2>1. t \in S /\ h \in S /\ h # t
    BY <1>1, <1>3
  <2> QED
    BY <1>1, <1>3, <2>1, LeavesOn
<1>6. /\ IsRings(y.granted, Threads) /\ y.granted[t] = t
      /\ \A u \in Threads \ H : y.granted[u] = x.granted[u]
      /\ Cycle(y.granted, H \ {t})
  <2>1. /\ IsRings(x.granted, Threads) /\ t \in H /\ H \in SUBSET Threads /\ H # {t}
        /\ Cycle(x.granted, H)
    BY <1>1, <1>3 DEF Shape
  <2> DEFINE q == ListDel(x.granted, t)
  <2> HIDE DEF H
  <2>2. IsRings(q, Threads) /\ q[t] = t /\ (\A u \in Threads \ H : q[u] = x.granted[u]) /\ Cycle(q, H \ {t})
    BY ONLY <2>1, DelKeeps
  <2> QED
    BY <2>2
<1>7. /\ IsRings(y.blocked, Threads) /\ y.blocked[t] = t /\ Cycle(y.blocked, {h} \cup W)
      /\ \A u \in Threads \ ({t, h} \cup W) : y.blocked[u] = x.blocked[u]
      /\ W # {} => y.blocked[h] = x.blocked[t]
      /\ W = {} <=> x.blocked[t] = t
  <2>1. IsRings(x.blocked, Threads) /\ h \in Threads
    BY <1>1, <1>3 DEF Shape
  <2>2. CASE x.blocked[t] = t
    <3>1. Closed(x.blocked, {t}) /\ {t} \in SUBSET ({t} \cup W)
      BY <2>2 DEF Closed
    <3>2. {t} \cup W = {t}
      BY <1>3, <3>1 DEF Cycle
    <3>3. W = {}
      BY <1>4, <3>2 DEF Waiters
    <3>4. Cycle(y.blocked, {h}) /\ {h} \cup {} = {h}
      BY <1>4, <2>2, LooseCycle
    <3> QED
      BY <2>1, <2>2, <3>3, <3>4
  <2>3. CASE x.blocked[t] # t
    <3> DEFINE C == {t} \cup W
               q == ListAdd(x.blocked, h, t)
               r == ListDel(q, t)
    <3>1. /\ IsRings(x.blocked, Threads) /\ h \in Threads /\ t \in Threads /\ h # t /\ x.blocked[h] = h
          /\ C \in SUBSET Threads /\ Cycle(x.blocked, C) /\ t \in C /\ h \notin C
      BY <1>1, <1>3, <1>4, <2>1
    <3>2. C \ {t} = W /\ (C \cup {h}) \ {t} = {h} \cup W /\ W # {} /\ t \notin W
      <4>1. W # {}
        BY <1>3, <2>3 DEF Cycle, Closed
      <4>2. t \notin W
        BY <1>4 DEF Waiters
      <4> QED
        BY <1>1, <4>1, <4>2
    <3> HIDE DEF C
    <3>3. /\ IsRings(q, Threads) /\ q[h] = x.blocked[t] /\ q[t] = h
          /\ (\A u \in Threads \ {h, t} : q[u] = x.blocked[u]) /\ Cycle(q, C \cup {h})
      BY ONLY <3>1, AddKeeps
    <3> HIDE DEF q
    <3> DEFINE E == C \cup {h}
    <3>4. E \in SUBSET Threads /\ t \in E /\ E # {t} /\ Cycle(q, E) /\ IsRings(q, Threads)
      BY <3>1, <3>3
    <3> HIDE DEF E
    <3>5. /\ IsRings(r, Threads) /\ r[t] = t /\ (\A u \in Threads \ E : r[u] = q[u])
          /\ (\A u \in Threads \ {t} : r[u] = IF q[u] = t THEN q[t] ELSE q[u])
          /\ Cycle(r, E \ {t})
      BY ONLY <3>4, DelKeeps
    <3> HIDE DEF r
    <3>6. y.blocked = r
      BY <2>3 DEF r, q
    <3>7. r[h] = x.blocked[t]
      BY <2>3, <3>1, <3>3, <3>5
    <3>8. \A u \in Threads \ ({t, h} \cup W) : r[u] = x.blocked[u]
      BY <3>1, <3>3, <3>5 DEF C, E
    <3> QED
      BY <2>3, <3>2, <3>5, <3>6, <3>7, <3>8 DEF E
  <2> QED
    BY <2>2, <2>3
<1>8. \A u \in Threads : Waits(y, u) <=> Waits(x, u)
  <2>1. ASSUME NEW u \in W PROVE Waits(y, u) /\ Waits(x, u)
    <3>1. y.blocked[u] = u => Closed(y.blocked, {u}) /\ {u} \in SUBSET ({h} \cup W)
      BY DEF Closed
    <3>2. {u} # {h} \cup W
      BY <1>4
    <3>3. y.blocked[u] # u
      BY <1>7, <3>1, <3>2 DEF Cycle
    <3>4. Waits(x, u) /\ u \notin x.owners /\ u # h
      BY <1>4 DEF Waiters, Waits
    <3> QED
      BY <3>3, <3>4 DEF Waits
  <2>2. ~Waits(y, t) /\ ~Waits(y, h)
    BY <1>7 DEF Waits
  <2>3. ASSUME NEW u \in Threads \ ({t, h} \cup W) PROVE Waits(y, u) <=> Waits(x, u)
    BY <1>7 DEF Waits
  <2> QED
    BY <1>4, <2>1, <2>2, <2>3
<1>9. Shape(y)
  BY <1>1, <1>3, <1>5, <1>6, <1>7 DEF Shape
<1>10. \A u \in Threads \ S : Same(x, y, u)
  <2>1. t \in S /\ h \in S
    BY <1>1, <1>3
  <2> QED
    BY <1>3, <1>5, <1>6, <1>7, <2>1 DEF Same
<1>11. \A u \in S : NodeOk(y, u) /\ x.key[u] \in {k, None} /\ y.key[u] \in {k, None}
  <2>1. NodeOk(y, t)
    BY <1>1, <1>3, <1>5, <1>6, <1>7 DEF NodeOk
  <2>2. ASSUME NEW u \in S \ {t} PROVE NodeOk(y, u)
    <3>1. NodeOk(x, u) /\ u \in Threads /\ x.mode[u] # "INVAL" /\ x.key[u] = k
      BY <1>3, <2>2 DEF DepthOk, On
    <3>2. y.mode[u] = x.mode[u] /\ y.key[u] = x.key[u] /\ (Holds(y, u) <=> Holds(x, u))
      BY <1>5, <1>8, <2>2, <3>1 DEF Holds
    <3>3. ~Holds(x, u) => y.granted[u] = x.granted[u]
      BY <1>6, <3>1 DEF Holders
    <3>4. x.mode[u] \in {"INVAL", "NL"} => y.blocked[u] = u
      <4>1. x.mode[u] \in {"INVAL", "NL"} => u \notin W /\ u # h
        BY <1>1, <3>1, WaitsOn DEF Waiters
      <4> QED
        BY <1>7, <2>2, <3>1, <4>1 DEF NodeOk
    <3> QED
      BY <3>1, <3>2, <3>3, <3>4 DEF NodeOk
  <2> QED
    BY <1>5, <2>1, <2>2 DEF On
<1>12. OwnerOk(y, k, h)
  <2>1. Holders(y, k) = H \ {t} /\ Waiters(y, k) = W
    BY <1>3, <1>4, <1>5, <1>8 DEF Holders, Waiters, Holds
  <2>2. \A p \in y.owners : y.key[p] = k => p = h
    BY <1>2, <1>3, <1>5 DEF OwnerOk, Shape
  <2>3. W # {} => "PW" \in {y.mode[h], y.mode[y.blocked[h]]}
    <3>1. x.blocked[t] \in {t} \cup W
      BY <1>3 DEF Cycle, Closed
    <3>2. W # {} => x.mode[x.blocked[t]] = "PW" /\ x.blocked[t] \in Threads \ {t}
      BY <1>1, <1>2, <1>3, <1>7, <3>1 DEF OwnerOk
    <3> QED
      BY <1>5, <1>7, <3>2
  <2>4. h \in On(y, k) /\ h \in H \ {t} /\ \A u, v \in H \ {t} : u # v => y.mode[u] = "PR"
    BY <1>1, <1>3, <1>5
  <2> HIDE DEF S, H, W
  <2> QED
    BY <1>5, <1>6, <1>7, <2>1, <2>2, <2>3, <2>4 DEF OwnerOk
<1>13. KeyOk(y, k)
  BY <1>1, <1>3, <1>12 DEF KeyOk
<1>14. y.blocked[h] = h \/ x.mode[y.blocked[h]] = "PW"
  <2>1. W = {} => y.blocked[h] = h
    BY <1>4, <1>7
  <2>2. W # {} => x.mode[x.blocked[t]] = "PW"
    <3>1. x.blocked[t] \in {t} \cup W
      BY <1>3 DEF Cycle, Closed
    <3> QED
      BY <1>1, <1>2, <3>1 DEF OwnerOk
  <2> QED
    BY <1>7, <2>1, <2>2
<1>15. h \in Threads /\ x.mode[h] = "PR" /\ x.blocked[h] = h
  BY <1>1, <1>3, <1>4
<1> HIDE DEF S, H, W
<1>16. DepthOk(y)
  BY <1>1, <1>9, <1>10, <1>11, <1>13, OneKey
<1> QED
  BY <1>8, <1>14, <1>15, <1>16

\* The only holder leaves a key that others wait for: HandOver to the first of them,
\* h, and to those who read with it, R.
Given(x, y, t, m, h, p, R) ==
    /\ h = x.blocked[t] /\ p = ListDel(x.blocked, t)
    /\ R = IF x.mode[h] = "PW" THEN {} ELSE Walk(p, h, {u \in Threads \ {h} : x.mode[u] # "PW"})
    /\ Leaves(x, y, t, m) /\ y.owners = (x.owners \ {t}) \cup {h}
    /\ y.blocked = DelAll(p, h, R) /\ y.granted = AddAll(ListDel(x.granted, t), p, h, R)

\* Of those who wait for the key of t, the threads K do not any more.
Wakes(x, y, t, K) ==
    /\ K \subseteq Waiters(x, x.key[t])
    /\ \A u \in Threads : Waits(y, u) <=> Waits(x, u) /\ u \notin K

LEMMA GiveKeeps ==
  ASSUME NEW x, DepthOk(x), NEW t \in Threads, Holds(x, t), x.granted[t] = t, x.blocked[t] # t,
         NEW h, NEW p, NEW R, NEW m \in {"NL", "INVAL"}, NEW y, Given(x, y, t, m, h, p, R)
  PROVE  DepthOk(y) /\ Wakes(x, y, t, {h} \cup R)
<1> USE DEF Given
<1> DEFINE k == x.key[t]
           S == On(x, k)
           W == Waiters(x, k)
           P == {u \in Threads \ {h} : x.mode[u] # "PW"}
           V == W \ R
           g == ListDel(x.granted, t)
<1>1. k \in Keys /\ OwnerOk(x, k, t) /\ Holders(x, k) = {t} /\ x.key[t] = k
  BY AloneIs
<1> HIDE DEF k
<1>2. /\ Shape(x) /\ S \in SUBSET Threads /\ W \in SUBSET S /\ t \in S /\ t \in x.owners
      /\ Cycle(x.alive, S) /\ Cycle(x.blocked, {t} \cup W) /\ t \notin W
      /\ \A u \in S : u # t => u \notin x.owners
  BY <1>1 DEF DepthOk, OwnerOk, On, Waiters, Waits
<1>3. /\ h \in W /\ h # t /\ h \in S
      /\ \A u \in W : u \in Threads /\ Waits(x, u) /\ x.mode[u] \in {"PR", "PW"} /\ x.granted[u] = u
  <2>1. \A u \in W : u \in Threads /\ Waits(x, u) /\ x.mode[u] \in {"PR", "PW"}
    BY <1>2, WaitsOn DEF Waiters
  <2>2. \A u \in W : x.granted[u] = u
    BY <2>1 DEF DepthOk, NodeOk, Holds
  <2> QED
    BY <1>2, <2>1, <2>2 DEF Cycle, Closed
<1>4. IsRings(p, Threads) /\ p[t] = t /\ Cycle(p, W) /\ \A u \in Threads \ ({t} \cup W) : p[u] = x.blocked[u]
  <2> DEFINE C == {t} \cup W
  <2>1. IsRings(x.blocked, Threads) /\ C \in SUBSET Threads /\ Cycle(x.blocked, C) /\ t \in C /\ C # {t}
    BY <1>2, <1>3 DEF Shape
  <2>2. C \ {t} = W
    BY <1>2
  <2> HIDE DEF C
  <2>3. /\ IsRings(p, Threads) /\ p[t] = t /\ Cycle(p, C \ {t})
        /\ \A u \in Threads \ C : p[u] = x.blocked[u]
    BY <2>1, DelKeeps
  <2> QED
    BY <2>2, <2>3 DEF C
<1>5. P \in SUBSET (Threads \ {h}) /\ h \in Threads /\ W \in SUBSET Threads
  BY <1>2, <1>3
<1>6. R \subseteq W /\ h \notin R /\ \A u \in {h} \cup R : {h} \cup R # {h} => x.mode[u] = "PR"
  <2>1. CASE x.mode[h] = "PW"
    BY <2>1
  <2>2. CASE x.mode[h] # "PW"
    <3>1. R = Walk(p, h, P)
      BY <2>2
    <3>2. R \subseteq P
      BY <1>4, <1>5, <3>1, WalkIs
    <3>3. R # {} => R \subseteq W
      BY <1>3, <1>4, <1>5, <3>1, WalkEnds
    <3>4. R \subseteq W
      BY <3>3
    <3> QED
      BY <1>3, <2>2, <3>2, <3>4
  <2> QED
    BY <2>1, <2>2
<1>7. /\ IsRings(y.blocked, Threads) /\ Cycle(y.blocked, V) /\ h \in V
      /\ (\A u \in R : y.blocked[u] = u)
      /\ (\A u \in Threads \ W : y.blocked[u] = p[u])
      /\ x.mode[h] # "PW" => y.blocked[h] \notin P
  <2>1. CASE x.mode[h] = "PW"
    <3>1. R = {} /\ y.blocked = p /\ V = W
      BY <2>1 DEF DelAll
    <3> QED
      BY <1>3, <1>4, <2>1, <3>1
  <2>2. CASE x.mode[h] # "PW"
    <3>1. R = Walk(p, h, P)
      BY <2>2
    <3> DEFINE q == DelAll(p, h, R)
    <3> HIDE DEF P, W
    <3>2. /\ IsRings(q, Threads) /\ Cycle(q, W \ R) /\ (\A u \in R : q[u] = u)
          /\ (\A u \in Threads \ W : q[u] = p[u]) /\ q[h] \notin P
      BY ONLY <1>3, <1>4, <1>5, <3>1, DelAllKeeps
    <3>3. y.blocked = q /\ V = W \ R
      BY DEF q
    <3> HIDE DEF q, V
    <3> QED
      BY <1>3, <1>6, <3>2, <3>3
  <2> QED
    BY <2>1, <2>2
<1>8. /\ IsRings(y.granted, Threads) /\ Cycle(y.granted, {h} \cup R)
      /\ \A u \in Threads \ ({h} \cup R) : y.granted[u] = x.granted[u]
  <2>1. IsRings(g, Threads) /\ \A u \in Threads : g[u] = x.granted[u]
    <3>1. IsRings(x.granted, Threads)
      BY <1>2 DEF Shape
    <3> QED
      BY <3>1, DelLoose
  <2> HIDE DEF g
  <2>2. y.granted = AddAll(g, p, h, R)
    BY DEF g
  <2>3. g[h] = h /\ \A u \in R : g[u] = u
    BY <1>3, <1>5, <1>6, <2>1
  <2>4. CASE R = {}
    <3>1. y.granted = g /\ {h} \cup R = {h}
      BY <2>2, <2>4 DEF AddAll
    <3>2. Cycle(g, {h})
      BY <2>3, LooseCycle
    <3> QED
      BY <2>1, <3>1, <3>2
  <2>5. CASE R # {}
    <3>1. R = Walk(p, h, P)
      BY <2>5
    <3> DEFINE q == AddAll(g, p, h, R)
    <3> HIDE DEF P, W
    <3>2. IsRings(q, Threads) /\ Cycle(q, {h} \cup R) /\ \A u \in Threads \ (R \cup {h}) : q[u] = g[u]
      BY ONLY <1>3, <1>4, <1>5, <2>1, <2>3, <2>5, <3>1, AddAllKeeps
    <3> QED
      BY <2>1, <2>2, <3>2
  <2> QED
    BY <2>4, <2>5
<1>9. /\ y.mode \in [Threads -> NodeModes] /\ y.key \in [Threads -> Keys \cup {None}]
      /\ IsRings(y.alive, Threads) /\ Cycle(y.alive, On(y, k))
      /\ On(y, k) = IF m = "NL" THEN S ELSE S \ {t}
      /\ y.mode[t] = m /\ y.key[t] = (IF m = "NL" THEN k ELSE None)
      /\ m = "INVAL" => y.alive[t] = t
      /\ \A u \in Threads \ {t} : y.mode[u] = x.mode[u] /\ y.key[u] = x.key[u]
      /\ \A u \in Threads \ S : y.alive[u] = x.alive[u]
  BY <1>1, <1>2, <1>3, LeavesOn
<1>10. \A u \in Threads : Waits(y, u) <=> Waits(x, u) /\ u \notin {h} \cup R
  <2>1. ASSUME NEW u \in V, u # h PROVE Waits(y, u)
    <3>1. y.blocked[u] = u => Closed(y.blocked, {u}) /\ {u} \in SUBSET V
      BY DEF Closed
    <3>2. {u} # V
      BY <1>7, <2>1
    <3>3. y.blocked[u] # u
      BY <1>7, <3>1, <3>2 DEF Cycle
    <3> QED
      BY <1>2, <2>1, <3>3 DEF Waits
  <2>2. ~Waits(y, t) /\ ~Waits(y, h) /\ (\A u \in R : ~Waits(y, u)) /\ ~Waits(x, t)
    BY <1>2, <1>4, <1>7 DEF Waits
  <2>3. ASSUME NEW u \in Threads \ ({t} \cup W) PROVE Waits(y, u) <=> Waits(x, u)
    <3>1. u # h /\ u # t /\ y.blocked[u] = x.blocked[u]
      BY <1>3, <1>4, <1>7, <2>3
    <3> QED
      BY <3>1 DEF Waits
  <2>4. \A u \in W : Waits(x, u)
    BY DEF Waiters
  <2> QED
    BY <1>3, <1>6, <2>1, <2>2, <2>3, <2>4
<1>11. Shape(y)
  BY <1>2, <1>5, <1>7, <1>8, <1>9 DEF Shape
<1>12. \A u \in Threads \ S : Same(x, y, u)
  <2>1. ASSUME NEW u \in Threads \ S PROVE Same(x, y, u)
    <3>1. u # t /\ u # h /\ u \notin W /\ u \notin {h} \cup R
      BY <1>2, <1>3, <1>6
    <3>2. y.blocked[u] = x.blocked[u]
      BY <1>4, <1>7, <3>1
    <3>3. y.granted[u] = x.granted[u]
      BY <1>8, <3>1
    <3>4. y.alive[u] = x.alive[u]
      BY <1>9
    <3> QED
      BY <1>9, <3>1, <3>2, <3>3, <3>4 DEF Same
  <2> QED
    BY <2>1
<1>13. \A u \in S : NodeOk(y, u) /\ x.key[u] \in {k, None} /\ y.key[u] \in {k, None}
  <2>1. NodeOk(y, t)
    BY <1>1, <1>2, <1>3, <1>4, <1>6, <1>7, <1>8, <1>9 DEF NodeOk
  <2>2. ASSUME NEW u \in S \ {t} PROVE NodeOk(y, u)
    <3>1. NodeOk(x, u) /\ u \in Threads /\ x.mode[u] # "INVAL" /\ x.key[u] = k
      BY <1>2, <2>2 DEF DepthOk, On
    <3>2. y.mode[u] = x.mode[u] /\ y.key[u] = x.key[u]
      BY <1>9, <2>2, <3>1
    <3>3. ~Holds(y, u) => y.granted[u] = u
      <4>1. u \in {h} \cup R => Holds(y, u)
        BY <1>3, <1>6, <1>10, <3>1, <3>2 DEF Holds
      <4>2. u \notin {h} \cup R => y.granted[u] = x.granted[u] /\ (Holds(y, u) <=> Holds(x, u))
        BY <1>8, <1>10, <3>1, <3>2 DEF Holds
      <4> QED
        BY <3>1, <4>1, <4>2 DEF NodeOk
    <3>4. x.mode[u] \in {"INVAL", "NL"} => y.blocked[u] = u
      <4>1. x.mode[u] \in {"INVAL", "NL"} => u \notin W
        BY <1>3
      <4> QED
        BY <1>4, <1>7, <2>2, <3>1, <4>1 DEF NodeOk
    <3> QED
      BY <3>1, <3>2, <3>3, <3>4 DEF NodeOk
  <2> QED
    BY <1>9, <2>1, <2>2 DEF On
<1>14. OwnerOk(y, k, h)
  <2>1. Holders(y, k) = {h} \cup R /\ Waiters(y, k) = V \ {h}
    <3>1. \A u \in S \ {t} : ~Holds(x, u)
      BY <1>1 DEF Holders
    <3>2. \A u \in S \ {t} : Holds(y, u) <=> u \in {h} \cup R
      BY <1>2, <1>3, <1>6, <1>9, <1>10, <3>1 DEF Holds
    <3>3. ~Holds(y, t) /\ ~Waits(y, t)
      BY <1>4, <1>7, <1>2, <1>9 DEF Holds, Waits
    <3>4. {h} \cup R \subseteq S \ {t} /\ V \subseteq S \ {t}
      BY <1>2, <1>3, <1>6
    <3>5. Holders(y, k) = {h} \cup R
      BY <1>9, <3>2, <3>3, <3>4 DEF Holders
    <3>6. \A u \in S \ {t} : Waits(y, u) <=> u \in V \ {h}
      BY <1>2, <1>10 DEF Waiters
    <3>7. Waiters(y, k) = V \ {h}
      BY <1>9, <3>3, <3>4, <3>6 DEF Waiters
    <3> QED
      BY <3>5, <3>7
  <2>2. \A q \in y.owners : y.key[q] = k => q = h
    BY <1>1, <1>2, <1>9 DEF OwnerOk, Shape
  <2>3. V \ {h} # {} => "PW" \in {y.mode[h], y.mode[y.blocked[h]]}
    <3>1. y.mode[h] = x.mode[h]
      BY <1>3, <1>5, <1>9
    <3>2. ASSUME x.mode[h] # "PW", V \ {h} # {} PROVE y.mode[y.blocked[h]] = "PW"
      <4>1. y.blocked[h] \in V
        BY <1>7 DEF Cycle, Closed
      <4>2. y.blocked[h] # h
        <5>1. y.blocked[h] = h => Closed(y.blocked, {h}) /\ {h} \in SUBSET V
          BY <1>7 DEF Closed
        <5> QED
          BY <1>7, <3>2, <5>1 DEF Cycle
      <4>3. y.blocked[h] \in Threads \ {h} /\ y.blocked[h] # t
        BY <1>2, <1>5, <4>1, <4>2
      <4> QED
        BY <1>7, <1>9, <3>2, <4>3
    <3> QED
      BY <3>1, <3>2
  <2>4. h \in On(y, k) /\ \A u, v \in {h} \cup R : u # v => y.mode[u] = "PR"
    <3>1. \A u \in {h} \cup R : y.mode[u] = x.mode[u]
      BY <1>2, <1>3, <1>6, <1>9
    <3> QED
      BY <1>3, <1>6, <1>9, <3>1
  <2>5. {h} \cup (V \ {h}) = V
    BY <1>7
  <2>6. Cycle(y.blocked, {h} \cup (V \ {h}))
    BY <1>7, <2>5
  <2>7. h \in y.owners /\ h \in {h} \cup R
    OBVIOUS
  <2> HIDE DEF V, W
  <2> QED
    BY <1>8, <1>9, <2>1, <2>2, <2>3, <2>4, <2>6, <2>7 DEF OwnerOk
<1>15. KeyOk(y, k)
  BY <1>5, <1>14 DEF KeyOk
<1>16. {h} \cup R \subseteq W
  BY <1>3, <1>6
<1> HIDE DEF S, V, P, g
<1>17. DepthOk(y)
  BY <1>1, <1>11, <1>12, <1>13, <1>15, OneKey
<1> QED
  BY <1>2, <1>10, <1>16, <1>17 DEF k, Wakes
=============================================================================
