------------------------------ MODULE DirProofs ------------------------------
(***************************************************************************)
(* Proofs about DirIndex, for any threads, names, hashes and directories   *)
(* to begin with. The argument: at each place a thread has the locks that  *)
(* ModesOk says (Control), so that one thread at a time changes the index, *)
(* alone with its leaf, and nobody else has DX (OneChanges, OneWrites). A  *)
(* thread that has let go of the index either still has a leaf that its    *)
(* hash leads to or has been told of a split (FoundOk, Told), an unchanged *)
(* number of entries means that its position still holds (FoundOk), and    *)
(* the entry of a split leaf leads to the names of both parts until the    *)
(* new one is inserted (SplitOk). From these, a search that gives up has   *)
(* missed nothing.                                                         *)
(***************************************************************************)
EXTENDS DirIndex, FiniteSetTheorems, SequenceTheorems, WellFoundedInduction, TLAPS

-----------------------------------------------------------------------------
(***************************************************************************)
(* The index, taken as a value: entry i leads to the names whose hash fits *)
(* it.                                                                     *)
(***************************************************************************)
Fits(idx, i, h) == Even(idx[i].hash) <= h /\ (i < Len(idx) => h < idx[i + 1].hash)
Entries == [hash : Nat, block : Leaves]
BlocksOf(idx) == {idx[i].block : i \in DOMAIN idx}
Leads(idx, b, h) == \E i \in DOMAIN idx : idx[i].block = b /\ Fits(idx, i, h)
IndexOk(idx) ==
    /\ idx \in Seq(Entries) /\ Len(idx) \in 1 .. Limit
    /\ idx[1].hash = 0
    /\ \A i, j \in DOMAIN idx : i <= j => idx[i].hash <= idx[j].hash
    /\ \A i, j \in DOMAIN idx : idx[i].block = idx[j].block => i = j

\* Bit 0 of a hash says "continued": Even takes it away, and no name has it.
LEMMA EvenIs ==
  /\ \A x \in Nat : Even(x) \in Nat /\ Even(x) <= x /\ x <= Even(x) + 1
  /\ \A x, y \in Nat : x <= y => Even(x) <= Even(y)
  /\ \A n \in Names : Hash[n] \in Nat /\ Even(Hash[n]) = Hash[n] /\ Even(Hash[n] + 1) = Hash[n]
BY DirAssumption DEF Even

\* A set of numbers has a least one.
LEMMA LeastOf ==
  ASSUME NEW S \in SUBSET Nat, S # {}
  PROVE  \E k \in S : \A j \in S : k <= j
<1> DEFINE R == {ss \in Nat \X Nat : ss[1] < ss[2]}
<1>1. IsWellFoundedOn(R, Nat)
  BY NatLessThanWellFounded, Zenon DEF OpToRel
<1>2. PICK k \in S : \A j \in S : <<j, k>> \notin R
  BY <1>1, WFMin
<1>3. \A j \in S : j < k => <<j, k>> \in R
  OBVIOUS
<1> HIDE DEF R
<1>4. \A j \in S : ~(j < k)
  BY <1>2, <1>3
<1> QED
  BY <1>4

\* What an entry of the index is.
LEMMA EntryIs ==
  ASSUME NEW idx, IndexOk(idx), NEW i \in DOMAIN idx
  PROVE  /\ DOMAIN idx = 1 .. Len(idx) /\ Len(idx) \in Nat /\ i \in Nat \ {0} /\ i <= Len(idx)
         /\ idx[i].hash \in Nat /\ idx[i].block \in Leaves
         /\ idx[i] = [hash |-> idx[i].hash, block |-> idx[i].block]
<1>1. idx \in Seq(Entries) /\ Len(idx) \in Nat
  BY DEF IndexOk
<1>2. DOMAIN idx = 1 .. Len(idx) /\ idx[i] \in Entries
  BY <1>1
<1> QED
  BY <1>1, <1>2 DEF Entries

\* The last entry whose hash is not above h.
LEMMA CoverIs ==
  ASSUME IndexOk(index), NEW h \in Nat
  PROVE  /\ Covering(h) \in DOMAIN index /\ index[Covering(h)].hash <= h
         /\ \A j \in DOMAIN index : j > Covering(h) => h < index[j].hash
<1> DEFINE n == Len(index)
           P(i) == /\ i = 1 \/ index[i].hash <= h
                   /\ \A j \in i + 1 .. Len(index) : index[j].hash > h
           S == {k \in Nat : k < n /\ index[n - k].hash <= h}
<1>1. /\ DOMAIN index = 1 .. n /\ n \in Nat /\ n >= 1 /\ index[1].hash = 0
      /\ \A i \in 1 .. n : index[i].hash \in Nat
  BY EntryIs DEF IndexOk
<1>2. n - 1 \in S
  BY <1>1
<1>3. PICK k \in S : \A j \in S : k <= j
  BY <1>2, LeastOf
<1>4. n - k \in 1 .. n /\ index[n - k].hash <= h
  BY <1>1, <1>3
<1>5. \A j \in n - k + 1 .. n : ~(index[j].hash <= h)
  <2> TAKE j \in n - k + 1 .. n
  <2>1. n - (n - j) = j /\ n - j \in Nat /\ n - j < k /\ n - j < n
    BY <1>1, <1>3
  <2> QED
    BY <1>3, <2>1
<1>6. P(n - k)
  <2>1. \A j \in n - k + 1 .. n : index[j].hash > h
    <3> TAKE j \in n - k + 1 .. n
    <3>1. j \in 1 .. n /\ index[j].hash \in Nat
      BY <1>1, <1>4
    <3> QED
      BY <1>5, <3>1
  <2> QED
    BY <1>4, <2>1
<1>7. Covering(h) = CHOOSE i \in DOMAIN index : P(i)
  BY DEF Covering
<1> HIDE DEF P
<1>8. Covering(h) \in DOMAIN index /\ P(Covering(h))
  BY <1>1, <1>4, <1>6, <1>7
<1> QED
  BY <1>1, <1>8 DEF P

\* What fits a name is the covering entry, and those right behind it that continue it.
LEMMA FitsAre ==
  ASSUME IndexOk(index), NEW m \in Names, NEW i \in DOMAIN index
  PROVE  LET h == Hash[m]
             c == Covering(h)
         IN  Fits(index, i, h) <=> i = c \/ (c < i /\ Even(index[i].hash) = h)
<1> DEFINE h == Hash[m]
           c == Covering(h)
           n == Len(index)
<1>1. /\ DOMAIN index = 1 .. n /\ n \in Nat /\ i \in 1 .. n
      /\ \A j \in 1 .. n : index[j].hash \in Nat
      /\ \A j, k \in 1 .. n : j <= k => index[j].hash <= index[k].hash
  BY EntryIs DEF IndexOk
<1>2. c \in 1 .. n /\ index[c].hash <= h /\ h \in Nat /\ \A j \in 1 .. n : j > c
      => h < index[j].hash
  BY <1>1, CoverIs, EvenIs
<1>3. \A j \in 1 .. n : /\ Even(index[j].hash) \in Nat /\ Even(index[j].hash) <= index[j].hash
                        /\ index[j].hash <= Even(index[j].hash) + 1
  BY <1>1, EvenIs
<1> HIDE DEF c, h
<1>4. CASE i = c
  <2>1. Even(index[i].hash) <= h
    BY <1>1, <1>2, <1>3, <1>4
  <2>2. i < n => h < index[i + 1].hash
    BY <1>1, <1>2, <1>4
  <2> QED
    BY <1>4, <2>1, <2>2 DEF Fits, h, c
<1>5. CASE i < c
  <2>1. i + 1 \in 1 .. n /\ index[i + 1].hash <= index[c].hash /\ i < n
    BY <1>1, <1>2, <1>5
  <2>2. index[i + 1].hash <= h /\ index[i + 1].hash \in Nat
    BY <1>1, <1>2, <2>1
  <2> QED
    BY <1>1, <1>2, <1>5, <2>1, <2>2 DEF Fits, h, c
<1>6. CASE c < i
  <2>1. h < index[i].hash
    BY <1>1, <1>2, <1>6
  <2>2. i < n => h < index[i + 1].hash
    BY <1>1, <1>2, <1>6
  <2>3. Even(index[i].hash) <= h => Even(index[i].hash) = h
    BY <1>1, <1>2, <1>3, <2>1
  <2> QED
    BY <1>1, <1>2, <1>3, <1>6, <2>2, <2>3 DEF Fits, h, c
<1> QED
  BY <1>1, <1>2, <1>4, <1>5, <1>6

\* A search goes through the leaves whose entries fit the hash (dx_probe and
\* ext4_htree_next_block).
LEMMA PathIs ==
  ASSUME IndexOk(index), NEW m \in Names, NEW b
  PROVE  b \in Path(Hash[m]) <=> Leads(index, b, Hash[m])
<1> DEFINE h == Hash[m]
           c == Covering(h)
           n == Len(index)
           run == {j \in c + 1 .. n : \A l \in c + 1 .. j : Even(index[l].hash) = h}
<1>1. /\ DOMAIN index = 1 .. n /\ n \in Nat /\ h \in Nat
      /\ \A j \in 1 .. n : index[j].hash \in Nat
      /\ \A j, k \in 1 .. n : j <= k => index[j].hash <= index[k].hash
  <2>1. h \in Nat
    BY EvenIs
  <2> QED
    BY <2>1, EntryIs DEF IndexOk
<1>2. c \in 1 .. n /\ \A j \in 1 .. n : j > c => h < index[j].hash
  BY <1>1, CoverIs
<1>3. \A j \in 1 .. n : Fits(index, j, h) <=> j = c \/ (c < j /\ Even(index[j].hash) = h)
  BY <1>1, FitsAre
<1>4. \A j \in c + 1 .. n : Even(index[j].hash) = h => \A l \in c + 1 .. j : Even(index[l].hash) = h
  <2> TAKE j \in c + 1 .. n
  <2> HAVE Even(index[j].hash) = h
  <2> TAKE l \in c + 1 .. j
  <2>1. l \in 1 .. n /\ j \in 1 .. n /\ index[l].hash <= index[j].hash /\ h < index[l].hash
    BY <1>1, <1>2
  <2>2. Even(index[l].hash) <= Even(index[j].hash) /\ Even(index[l].hash) \in Nat
        /\ index[l].hash <= Even(index[l].hash) + 1 /\ index[l].hash \in Nat
    BY <1>1, <2>1, EvenIs
  <2> QED
    BY <1>1, <2>1, <2>2
<1>5. \A j \in c + 1 .. n : j \in run <=> Even(index[j].hash) = h
  BY <1>1, <1>2, <1>4
<1>6. \A j \in 1 .. n : Fits(index, j, h) <=> j \in {c} \cup run
  BY <1>1, <1>2, <1>3, <1>5
<1>7. Path(h) = {index[j].block : j \in {c} \cup run}
  BY DEF Path
<1>8. {c} \cup run \subseteq 1 .. n
  BY <1>1, <1>2
<1> HIDE DEF run, c, h
<1> QED
  BY <1>1, <1>6, <1>7, <1>8 DEF Leads, h

\* A block has one entry.
LEMMA LeadsFits ==
  ASSUME NEW idx, IndexOk(idx), NEW i \in DOMAIN idx, NEW h
  PROVE  Leads(idx, idx[i].block, h) <=> Fits(idx, i, h)
BY DEF Leads, IndexOk

\* What a search that has just looked at the index knows.
LEMMA SearchFits ==
  ASSUME IndexOk(index), NEW m \in Names, NEW c, c = Covering(Hash[m])
  PROVE  /\ \A i \in 1 .. c - 1 : ~Fits(index, i, Hash[m])
         /\ ~(c < Len(index) /\ Even(index[c + 1].hash) = Hash[m]) =>
              \A i \in DOMAIN index : Fits(index, i, Hash[m]) => i = c
<1> DEFINE h == Hash[m]
           n == Len(index)
<1>1. /\ DOMAIN index = 1 .. n /\ n \in Nat /\ h \in Nat
      /\ \A j \in 1 .. n : index[j].hash \in Nat
      /\ \A j, k \in 1 .. n : j <= k => index[j].hash <= index[k].hash
  <2>1. h \in Nat
    BY EvenIs
  <2> QED
    BY <2>1, EntryIs DEF IndexOk
<1>2. c \in 1 .. n /\ \A j \in 1 .. n : j > c => h < index[j].hash
  BY <1>1, CoverIs
<1>3. \A j \in 1 .. n : Fits(index, j, h) <=> j = c \/ (c < j /\ Even(index[j].hash) = h)
  BY <1>1, FitsAre
<1>4. \A i \in 1 .. c - 1 : ~Fits(index, i, h)
  BY <1>1, <1>2, <1>3
<1>5. ASSUME NEW i \in 1 .. n, c < i, Even(index[i].hash) = h
      PROVE  c < n /\ Even(index[c + 1].hash) = h
  <2>1. c < n /\ c + 1 \in 1 .. n /\ index[c + 1].hash <= index[i].hash /\ h < index[c + 1].hash
    BY <1>1, <1>2, <1>5
  <2>2. Even(index[c + 1].hash) <= Even(index[i].hash) /\ Even(index[c + 1].hash) \in Nat
        /\ index[c + 1].hash <= Even(index[c + 1].hash) + 1 /\ index[c + 1].hash \in Nat
    BY <1>1, <2>1, EvenIs
  <2> QED
    BY <1>1, <1>5, <2>1, <2>2
<1> HIDE DEF h
<1> QED
  BY <1>1, <1>3, <1>4, <1>5 DEF h

\* The entry after one that fits continues its hash, or nothing further does.
LEMMA NextFits ==
  ASSUME IndexOk(index), NEW h \in Nat, NEW i \in DOMAIN index, Fits(index, i, h)
  PROVE  IF i < Len(index) /\ Even(index[i + 1].hash) = h THEN Fits(index, i + 1, h)
         ELSE \A j \in DOMAIN index : j > i => ~Fits(index, j, h)
<1> DEFINE n == Len(index)
<1>1. /\ DOMAIN index = 1 .. n /\ n \in Nat /\ i \in 1 .. n
      /\ \A j \in 1 .. n : index[j].hash \in Nat
      /\ \A j, k \in 1 .. n : j <= k => index[j].hash <= index[k].hash
  BY EntryIs DEF IndexOk
<1>2. CASE i < n /\ Even(index[i + 1].hash) = h
  <2>1. i + 1 \in 1 .. n /\ h < index[i + 1].hash
    BY <1>1, <1>2 DEF Fits
  <2>2. i + 1 < n => h < index[i + 1 + 1].hash
    <3> SUFFICES ASSUME i + 1 < n PROVE h < index[i + 1 + 1].hash
      OBVIOUS
    <3>1. i + 1 + 1 \in 1 .. n /\ index[i + 1].hash <= index[i + 1 + 1].hash
          /\ index[i + 1].hash \in Nat /\ index[i + 1 + 1].hash \in Nat
      BY <1>1, <2>1
    <3> QED
      BY <2>1, <3>1
  <2> QED
    BY <1>2, <2>2 DEF Fits
<1>3. ASSUME ~(i < n /\ Even(index[i + 1].hash) = h), NEW j \in 1 .. n, j > i, Fits(index, j, h)
      PROVE  FALSE
  <2>1. i < n /\ i + 1 \in 1 .. n /\ index[i + 1].hash <= index[j].hash /\ Even(index[j].hash) <= h
    BY <1>1, <1>3 DEF Fits
  <2>2. h < index[i + 1].hash
    BY <2>1 DEF Fits
  <2>3. Even(index[i + 1].hash) <= Even(index[j].hash) /\ Even(index[i + 1].hash) \in Nat
        /\ Even(index[j].hash) \in Nat
        /\ index[i + 1].hash <= Even(index[i + 1].hash) + 1 /\ index[i + 1].hash \in Nat
    BY <1>1, <2>1, EvenIs
  <2> QED
    BY <1>3, <2>1, <2>2, <2>3
<1> QED
  BY <1>1, <1>2, <1>3

-----------------------------------------------------------------------------
(***************************************************************************)
(* A split: a new entry behind the old one.                                *)
(***************************************************************************)
\* What InsertAt returns.
LEMMA InsertAtIs ==
  ASSUME NEW S, NEW s \in Seq(S), NEW i \in 1 .. Len(s) + 1, NEW e \in S
  PROVE  /\ InsertAt(s, i, e) \in Seq(S) /\ Len(InsertAt(s, i, e)) = Len(s) + 1
         /\ \A j \in 1 .. Len(s) + 1 :
              InsertAt(s, i, e)[j] = IF j < i THEN s[j] ELSE IF j = i THEN e ELSE s[j - 1]
<1> DEFINE a == SubSeq(s, 1, i - 1)
           b == SubSeq(s, i, Len(s))
           n == Len(s)
<1>1. n \in Nat /\ i \in Nat /\ i >= 1 /\ i <= n + 1
  OBVIOUS
<1>2. a \in Seq(S) /\ Len(a) = i - 1 /\ \A j \in 1 .. i - 1 : a[j] = s[j]
  BY <1>1
<1>3. b \in Seq(S) /\ Len(b) = n + 1 - i /\ \A j \in 1 .. n + 1 - i : b[j] = s[i + j - 1]
  BY <1>1
<1>4. InsertAt(s, i, e) = (a \o <<e>>) \o b
  BY DEF InsertAt
<1> HIDE DEF a, b
<1> DEFINE c == a \o <<e>>
<1>5. c \in Seq(S) /\ Len(c) = i /\ (\A j \in 1 .. i - 1 : c[j] = s[j]) /\ c[i] = e
  BY <1>1, <1>2
<1> HIDE DEF c
<1>6. c \o b \in Seq(S) /\ Len(c \o b) = n + 1
      /\ \A j \in 1 .. n + 1 : (c \o b)[j] = IF j <= i THEN c[j] ELSE b[j - i]
  <2>1. /\ c \o b \in Seq(S) /\ Len(c \o b) = Len(c) + Len(b)
        /\ \A j \in 1 .. Len(c) + Len(b) : (c \o b)[j] = IF j <= Len(c) THEN c[j] ELSE b[j - Len(c)]
    BY <1>3, <1>5, ConcatProperties
  <2>2. Len(c) + Len(b) = n + 1
    BY <1>1, <1>3, <1>5
  <2> QED
    BY <1>5, <2>1, <2>2
<1>7. \A j \in 1 .. n + 1 : j > i => j - i \in 1 .. n + 1 - i /\ i + (j - i) - 1 = j - 1
  BY <1>1
<1>8. ASSUME NEW j \in 1 .. n + 1
      PROVE  (c \o b)[j] = IF j < i THEN s[j] ELSE IF j = i THEN e ELSE s[j - 1]
  BY <1>1, <1>3, <1>5, <1>6, <1>7
<1> QED
  BY <1>4, <1>6, <1>8 DEF c

\* The index after entry i has been split at hash g: the new block b takes the names
\* above, or, if the old one is to have those, the names below.
Grown(idx, i, g, b, low) ==
    IF low THEN InsertAt(idx, i + 1, [hash |-> g, block |-> b])
    ELSE InsertAt([idx EXCEPT ![i].block = b], i + 1, [hash |-> g, block |-> idx[i].block])

\* What is then at each place.
Widened(r, idx, i, g, b, low) ==
    /\ r \in Seq(Entries) /\ Len(r) = Len(idx) + 1
    /\ \A j \in 1 .. Len(idx) + 1 :
         /\ r[j].hash = IF j <= i THEN idx[j].hash ELSE IF j = i + 1 THEN g ELSE idx[j - 1].hash
         /\ r[j].block = CASE j < i -> idx[j].block
                           [] j = i -> IF low THEN idx[i].block ELSE b
                           [] j = i + 1 -> IF low THEN b ELSE idx[i].block
                           [] j > i + 1 -> idx[j - 1].block

\* dx_insert_block, and dx_set_block before it.
LEMMA GrownIs ==
  ASSUME NEW idx, IndexOk(idx), NEW i \in DOMAIN idx, NEW g \in Nat, NEW b \in Leaves,
         NEW low \in BOOLEAN
  PROVE  Widened(Grown(idx, i, g, b, low), idx, i, g, b, low)
<1> DEFINE n == Len(idx)
           mid == [idx EXCEPT ![i].block = b]
           e == [hash |-> g, block |-> IF low THEN b ELSE idx[i].block]
           s == IF low THEN idx ELSE mid
           r == Grown(idx, i, g, b, low)
<1>1. /\ DOMAIN idx = 1 .. n /\ n \in Nat /\ i \in Nat \ {0} /\ i <= n /\ idx \in Seq(Entries)
      /\ idx[i].block \in Leaves /\ idx[i].hash \in Nat
      /\ idx[i] = [hash |-> idx[i].hash, block |-> idx[i].block]
  BY EntryIs DEF IndexOk
<1>2. [idx[i] EXCEPT !.block = b] = [hash |-> idx[i].hash, block |-> b]
  BY <1>1
<1>3. mid = [j \in 1 .. n |-> IF j = i THEN [hash |-> idx[i].hash, block |-> b] ELSE idx[j]]
  BY <1>1, <1>2
<1>4. [hash |-> idx[i].hash, block |-> b] \in Entries /\ e \in Entries
  BY <1>1 DEF Entries
<1>5. \A j \in 1 .. n : idx[j] \in Entries
  BY <1>1
<1> HIDE DEF e
<1>6. mid \in Seq(Entries) /\ Len(mid) = n
  BY <1>1, <1>3, <1>4, <1>5
<1>7. s \in Seq(Entries) /\ Len(s) = n
  BY <1>1, <1>6
<1>8. r = InsertAt(s, i + 1, e)
  BY DEF Grown, e
<1>9. /\ r \in Seq(Entries) /\ Len(r) = n + 1
      /\ \A j \in 1 .. n + 1 :
           r[j] = IF j < i + 1 THEN s[j] ELSE IF j = i + 1 THEN e ELSE s[j - 1]
  <2>1. i + 1 \in 1 .. Len(s) + 1
    BY <1>1, <1>7
  <2> HIDE DEF s, r
  <2> DEFINE k == i + 1
  <2>2. k \in 1 .. Len(s) + 1 /\ s \in Seq(Entries) /\ e \in Entries
    BY <2>1, <1>4, <1>7
  <2> HIDE DEF k
  <2>3. /\ InsertAt(s, k, e) \in Seq(Entries) /\ Len(InsertAt(s, k, e)) = Len(s) + 1
        /\ \A j \in 1 .. Len(s) + 1 : InsertAt(s, k, e)[j] =
              IF j < k THEN s[j] ELSE IF j = k THEN e ELSE s[j - 1]
    BY <2>2, InsertAtIs
  <2>4. /\ InsertAt(s, i + 1, e) \in Seq(Entries) /\ Len(InsertAt(s, i + 1, e)) = Len(s) + 1
        /\ \A j \in 1 .. Len(s) + 1 : InsertAt(s, i + 1, e)[j] =
              IF j < i + 1 THEN s[j] ELSE IF j = i + 1 THEN e ELSE s[j - 1]
    BY <2>3 DEF k
  <2> QED
    BY <2>4, <1>7, <1>8
<1>10. \A j \in 1 .. n : s[j].hash = idx[j].hash /\ (j # i => s[j].block = idx[j].block)
  BY <1>1, <1>3
<1>11. s[i].block = IF low THEN idx[i].block ELSE b
  BY <1>1, <1>3
<1>12. e.hash = g /\ e.block = IF low THEN b ELSE idx[i].block
  BY DEF e
<1> HIDE DEF s, mid, r
<1>13. ASSUME NEW j \in 1 .. n + 1
       PROVE  /\ r[j].hash = IF j <= i THEN idx[j].hash
                                ELSE IF j = i + 1 THEN g ELSE idx[j - 1].hash
              /\ r[j].block = CASE j < i -> idx[j].block
                                   [] j = i -> IF low THEN idx[i].block ELSE b
                                   [] j = i + 1 -> IF low THEN b ELSE idx[i].block
                                   [] j > i + 1 -> idx[j - 1].block
  <2>1. CASE j < i
    BY <2>1, <1>1, <1>9, <1>10
  <2>2. CASE j = i
    BY <2>2, <1>1, <1>9, <1>10, <1>11
  <2>3. CASE j = i + 1
    BY <2>3, <1>1, <1>9, <1>12
  <2>4. CASE j > i + 1
    <3>1. j - 1 \in 1 .. n /\ j - 1 # i
      BY <2>4, <1>1
    <3> QED
      BY <2>4, <3>1, <1>1, <1>9, <1>10
  <2> QED
    BY <2>1, <2>2, <2>3, <2>4, <1>1
<1> QED
  BY <1>9, <1>13 DEF r, Widened

\* The index stays in order, with one entry for each block.
LEMMA GrownOk ==
  ASSUME NEW idx, IndexOk(idx), Len(idx) < Limit, NEW i \in DOMAIN idx, NEW g \in Nat,
         NEW b \in Leaves \ BlocksOf(idx), NEW low \in BOOLEAN,
         idx[i].hash <= g, i < Len(idx) => g <= idx[i + 1].hash
  PROVE  IndexOk(Grown(idx, i, g, b, low))
<1> DEFINE n == Len(idx)
           r == Grown(idx, i, g, b, low)
<1>1. /\ DOMAIN idx = 1 .. n /\ n \in Nat /\ i \in 1 .. n
      /\ \A j \in 1 .. n : idx[j].hash \in Nat
      /\ \A j, k \in 1 .. n : j <= k => idx[j].hash <= idx[k].hash
  BY EntryIs DEF IndexOk
<1>2. /\ r \in Seq(Entries) /\ Len(r) = n + 1
      /\ \A j \in 1 .. n + 1 :
           /\ r[j].hash = IF j <= i THEN idx[j].hash ELSE IF j = i + 1 THEN g ELSE idx[j - 1].hash
           /\ r[j].block = CASE j < i -> idx[j].block
                             [] j = i -> IF low THEN idx[i].block ELSE b
                             [] j = i + 1 -> IF low THEN b ELSE idx[i].block
                             [] j > i + 1 -> idx[j - 1].block
  <2>1. Widened(r, idx, i, g, b, low)
    BY GrownIs
  <2> HIDE DEF r
  <2> QED
    BY <2>1 DEF Widened
<1> HIDE DEF r
<1>3. DOMAIN r = 1 .. n + 1
  BY <1>1, <1>2
<1>4. r[1].hash = 0 /\ Len(r) \in 1 .. Limit
  <2>1. idx[1].hash = 0 /\ n < Limit /\ Limit \in Nat
    BY DirAssumption DEF IndexOk
  <2> QED
    BY <1>1, <1>2, <2>1
<1>5. ASSUME NEW j \in 1 .. n + 1, NEW k \in 1 .. n + 1, j <= k
      PROVE  r[j].hash <= r[k].hash
  <2>1. CASE k <= i
    BY <1>1, <1>2, <1>5, <2>1
  <2>2. CASE k = i + 1
    <3>1. CASE j = i + 1
      BY <1>2, <2>2, <3>1
    <3>2. CASE j <= i
      BY <1>1, <1>2, <2>2, <3>2
    <3> QED
      BY <1>1, <1>5, <2>2, <3>1, <3>2
  <2>3. CASE k > i + 1
    <3>1. k - 1 \in 1 .. n /\ i + 1 <= k - 1 /\ i < n /\ i + 1 \in 1 .. n
      BY <1>1, <2>3
    <3>2. r[k].hash = idx[k - 1].hash
      BY <1>1, <1>2, <2>3
    <3>3. CASE j <= i
      BY <1>1, <1>2, <2>3, <3>1, <3>2, <3>3
    <3>4. CASE j = i + 1
      <4>1. g <= idx[i + 1].hash /\ idx[i + 1].hash <= idx[k - 1].hash
        BY <1>1, <3>1
      <4>2. r[j].hash = g
        BY <1>1, <1>2, <3>4
      <4> QED
        BY <1>1, <3>1, <3>2, <4>1, <4>2
    <3>5. CASE j > i + 1
      <4>1. j - 1 \in 1 .. n /\ j - 1 <= k - 1
        BY <1>1, <1>5, <3>5
      <4> QED
        BY <1>1, <1>2, <3>1, <3>2, <3>5, <4>1
    <3> QED
      BY <1>1, <3>3, <3>4, <3>5
  <2> QED
    BY <1>1, <2>1, <2>2, <2>3
<1>6. ASSUME NEW j \in 1 .. n + 1, NEW k \in 1 .. n + 1, r[j].block = r[k].block
      PROVE  j = k
  <2> DEFINE src(x) == IF x <= i THEN x ELSE x - 1
             fresh(x) == x = IF low THEN i + 1 ELSE i
  <2>1. \A x \in 1 .. n + 1 : /\ fresh(x) => r[x].block = b
                              /\ ~fresh(x) /\ x # i + 1 => r[x].block = idx[src(x)].block
                                   /\ src(x) \in 1 .. n
                              /\ ~fresh(x) /\ x = i + 1 => r[x].block = idx[i].block
    BY <1>1, <1>2
  <2>2. \A x \in 1 .. n : idx[x].block # b
    BY <1>1 DEF BlocksOf
  <2>3. \A x, y \in 1 .. n : idx[x].block = idx[y].block => x = y
    BY <1>1 DEF IndexOk
  <2>4. \A x \in 1 .. n + 1 : fresh(x) <=> r[x].block = b
    BY <1>1, <2>1, <2>2
  <2>5. CASE fresh(j)
    BY <1>1, <1>6, <2>4, <2>5
  <2>6. CASE ~fresh(j)
    <3>1. ~fresh(k)
      BY <1>6, <2>4, <2>6
    <3> DEFINE old(x) == IF x = i + 1 THEN i ELSE src(x)
    <3>2. old(j) \in 1 .. n /\ old(k) \in 1 .. n
      BY <1>1
    <3>3. r[j].block = idx[old(j)].block /\ r[k].block = idx[old(k)].block
      BY <1>1, <2>1, <2>6, <3>1
    <3>4. old(j) = old(k)
      BY <1>6, <2>3, <3>2, <3>3
    <3> QED
      BY <1>1, <2>6, <3>1, <3>4
  <2> QED
    BY <2>5, <2>6
<1>7. IndexOk(r)
  BY <1>2, <1>3, <1>4, <1>5, <1>6 DEF IndexOk
<1> QED
  BY <1>7 DEF r

\* Which hashes the entries then fit: those of the split one are parted at g.
LEMMA GrownFits ==
  ASSUME NEW idx, IndexOk(idx), NEW i \in DOMAIN idx, NEW g \in Nat, NEW b \in Leaves,
         NEW low \in BOOLEAN, idx[i].hash <= g, i < Len(idx) => g <= idx[i + 1].hash,
         NEW h \in Nat
  PROVE  LET r == Grown(idx, i, g, b, low)
         IN  /\ Fits(r, i, h) <=> Fits(idx, i, h) /\ h < g
             /\ Fits(r, i + 1, h) <=> Fits(idx, i, h) /\ Even(g) <= h
             /\ \A j \in DOMAIN idx : j < i => (Fits(r, j, h) <=> Fits(idx, j, h))
             /\ \A j \in DOMAIN idx : j > i => (Fits(r, j + 1, h) <=> Fits(idx, j, h))
<1> DEFINE n == Len(idx)
           r == Grown(idx, i, g, b, low)
<1>1. /\ DOMAIN idx = 1 .. n /\ n \in Nat /\ i \in 1 .. n
      /\ \A j \in 1 .. n : idx[j].hash \in Nat
  BY EntryIs DEF IndexOk
<1>2. Len(r) = n + 1 /\ \A j \in 1 .. n + 1 :
        r[j].hash = IF j <= i THEN idx[j].hash ELSE IF j = i + 1 THEN g ELSE idx[j - 1].hash
  <2>1. Widened(r, idx, i, g, b, low)
    BY GrownIs
  <2> HIDE DEF r
  <2> QED
    BY <2>1 DEF Widened
<1>3. Even(idx[i].hash) \in Nat /\ Even(g) \in Nat /\ Even(idx[i].hash) <= Even(g)
  BY <1>1, EvenIs
<1> HIDE DEF r
<1>4. r[i].hash = idx[i].hash /\ r[i + 1].hash = g
  BY <1>1, <1>2
<1>5. Fits(r, i, h) <=> Fits(idx, i, h) /\ h < g
  BY <1>1, <1>2, <1>3, <1>4 DEF Fits
<1>6. Fits(r, i + 1, h) <=> Fits(idx, i, h) /\ Even(g) <= h
  <2>1. i < n => r[(i + 1) + 1].hash = idx[i + 1].hash
    BY <1>1, <1>2
  <2> QED
    BY <1>1, <1>2, <1>3, <1>4, <2>1 DEF Fits
<1>7. ASSUME NEW j \in DOMAIN idx, j < i
      PROVE  Fits(r, j, h) <=> Fits(idx, j, h)
  <2>1. r[j].hash = idx[j].hash /\ r[j + 1].hash = idx[j + 1].hash
    BY <1>1, <1>2, <1>7
  <2> QED
    BY <1>1, <1>2, <1>7, <2>1 DEF Fits
<1>8. ASSUME NEW j \in DOMAIN idx, j > i
      PROVE  Fits(r, j + 1, h) <=> Fits(idx, j, h)
  <2>1. r[j + 1].hash = idx[j].hash
    BY <1>1, <1>2, <1>8
  <2>2. j < n => r[(j + 1) + 1].hash = idx[j + 1].hash
    BY <1>1, <1>2, <1>8
  <2> QED
    BY <1>1, <1>2, <1>8, <2>1, <2>2 DEF Fits
<1> QED
  BY <1>5, <1>6, <1>7, <1>8 DEF r

\* What the blocks lead to before and after.
LEMMA GrownLeads ==
  ASSUME NEW idx, IndexOk(idx), NEW i \in DOMAIN idx, NEW g \in Nat, NEW b \in Leaves,
         NEW low \in BOOLEAN, idx[i].hash <= g, i < Len(idx) => g <= idx[i + 1].hash,
         b \notin BlocksOf(idx), NEW h \in Nat
  PROVE  LET r == Grown(idx, i, g, b, low)
             old == idx[i].block
             lower == IF low THEN old ELSE b
             upper == IF low THEN b ELSE old
         IN  /\ BlocksOf(r) = BlocksOf(idx) \cup {b}
             /\ \A c : c \notin {b, old} => (Leads(r, c, h) <=> Leads(idx, c, h))
             /\ Leads(r, lower, h) <=> Leads(idx, old, h) /\ h < g
             /\ Leads(r, upper, h) <=> Leads(idx, old, h) /\ Even(g) <= h
<1> DEFINE n == Len(idx)
           r == Grown(idx, i, g, b, low)
           old == idx[i].block
           lower == IF low THEN old ELSE b
           upper == IF low THEN b ELSE old
           to(j) == IF j < i THEN j ELSE j + 1
<1>1. /\ DOMAIN idx = 1 .. n /\ n \in Nat /\ i \in 1 .. n
      /\ \A j, k \in 1 .. n : idx[j].block = idx[k].block => j = k
      /\ \A j \in 1 .. n : idx[j].block # b
  BY EntryIs DEF IndexOk, BlocksOf
<1>2. r \in Seq(Entries) /\ Len(r) = n + 1
      /\ \A j \in 1 .. n + 1 :
           r[j].block = CASE j < i -> idx[j].block
                          [] j = i -> IF low THEN idx[i].block ELSE b
                          [] j = i + 1 -> IF low THEN b ELSE idx[i].block
                          [] j > i + 1 -> idx[j - 1].block
  <2>1. Widened(r, idx, i, g, b, low)
    BY GrownIs
  <2> HIDE DEF r
  <2> QED
    BY <2>1 DEF Widened
<1>3. /\ Fits(r, i, h) <=> Fits(idx, i, h) /\ h < g
      /\ Fits(r, i + 1, h) <=> Fits(idx, i, h) /\ Even(g) <= h
      /\ \A j \in 1 .. n : j # i => (Fits(r, to(j), h) <=> Fits(idx, j, h))
  BY <1>1, GrownFits
<1> HIDE DEF r
<1>4. DOMAIN r = 1 .. n + 1 /\ r[i].block = lower /\ r[i + 1].block = upper
  BY <1>1, <1>2
<1>5. \A j \in 1 .. n : j # i => r[to(j)].block = idx[j].block /\ to(j) \in 1 .. n + 1
  <2> TAKE j \in 1 .. n
  <2> HAVE j # i
  <2>1. CASE j < i
    BY <1>1, <1>2, <2>1
  <2>2. CASE j > i
    <3>1. j + 1 \in 1 .. n + 1 /\ j + 1 > i + 1 /\ (j + 1) - 1 = j /\ to(j) = j + 1
      BY <1>1, <2>2
    <3>2. r[j + 1].block = idx[(j + 1) - 1].block
      BY <1>1, <1>2, <3>1
    <3> QED
      BY <3>1, <3>2
  <2> QED
    BY <1>1, <2>1, <2>2
<1>6. \A j \in 1 .. n + 1 : j # i /\ j # i + 1 => \E k \in 1 .. n : k # i /\ j = to(k)
  <2> TAKE j \in 1 .. n + 1
  <2> HAVE j # i /\ j # i + 1
  <2> DEFINE k == IF j < i THEN j ELSE j - 1
  <2>1. k \in 1 .. n /\ k # i /\ j = to(k)
    BY <1>1
  <2> QED
    BY <2>1
<1> HIDE DEF to
<1>7. Leads(idx, old, h) <=> Fits(idx, i, h)
  BY <1>1 DEF Leads
<1>8. \A j \in 1 .. n : j # i => idx[j].block \notin {old, b}
  BY <1>1
<1>9. \A j \in 1 .. n + 1 : /\ r[j].block = lower => j = i
                            /\ r[j].block = upper => j = i + 1
  <2> TAKE j \in 1 .. n + 1
  <2>1. lower # upper /\ lower \in {old, b} /\ upper \in {old, b}
    BY <1>1
  <2>2. CASE j = i \/ j = i + 1
    BY <1>4, <2>1, <2>2
  <2>3. CASE j # i /\ j # i + 1
    <3>1. PICK k \in 1 .. n : k # i /\ j = to(k)
      BY <1>6, <2>3
    <3>2. r[j].block = idx[k].block
      BY <1>5, <3>1
    <3>3. idx[k].block \notin {old, b}
      BY <1>8, <3>1
    <3> QED
      BY <2>1, <3>2, <3>3
  <2> QED
    BY <2>2, <2>3
<1>10. BlocksOf(r) = BlocksOf(idx) \cup {b}
  <2>1. ASSUME NEW c \in BlocksOf(r) PROVE c \in BlocksOf(idx) \cup {b}
    <3>1. PICK j \in 1 .. n + 1 : r[j].block = c
      BY <1>4, <2>1 DEF BlocksOf
    <3>2. old \in BlocksOf(idx)
      BY DEF BlocksOf
    <3>3. CASE j = i \/ j = i + 1
      <4>1. lower \in {old, b} /\ upper \in {old, b}
        OBVIOUS
      <4> QED
        BY <1>4, <3>1, <3>2, <3>3, <4>1
    <3>4. CASE j # i /\ j # i + 1
      <4>1. PICK k \in 1 .. n : k # i /\ j = to(k)
        BY <1>6, <3>4
      <4>2. c = idx[k].block
        BY <1>5, <3>1, <4>1
      <4> QED
        BY <1>1, <4>1, <4>2 DEF BlocksOf
    <3> QED
      BY <3>3, <3>4
  <2>2. ASSUME NEW c \in BlocksOf(idx) \cup {b} PROVE c \in BlocksOf(r)
    <3>1. i + 1 \in 1 .. n + 1 /\ i \in 1 .. n + 1
      BY <1>1
    <3>2. {old, b} = {lower, upper}
      OBVIOUS
    <3>3. old \in BlocksOf(r) /\ b \in BlocksOf(r)
      BY <1>4, <3>1, <3>2 DEF BlocksOf
    <3>4. CASE c \in BlocksOf(idx)
      <4>1. PICK j \in 1 .. n : idx[j].block = c
        BY <1>1, <3>4 DEF BlocksOf
      <4> QED
        BY <1>1, <1>4, <1>5, <3>3, <4>1 DEF BlocksOf
    <3> QED
      BY <3>3, <3>4
  <2> QED
    BY <2>1, <2>2
<1>11. ASSUME NEW c, c \notin {b, old} PROVE Leads(r, c, h) <=> Leads(idx, c, h)
  <2>1. c # lower /\ c # upper /\ c # idx[i].block
    BY <1>11
  <2>2. ASSUME Leads(r, c, h) PROVE Leads(idx, c, h)
    <3>1. PICK j \in 1 .. n + 1 : r[j].block = c /\ Fits(r, j, h)
      BY <1>4, <2>2 DEF Leads
    <3>2. PICK k \in 1 .. n : k # i /\ j = to(k)
      BY <1>4, <1>6, <2>1, <3>1
    <3> QED
      BY <1>1, <1>3, <1>5, <3>1, <3>2 DEF Leads
  <2>3. ASSUME Leads(idx, c, h) PROVE Leads(r, c, h)
    <3>1. PICK k \in 1 .. n : idx[k].block = c /\ Fits(idx, k, h)
      BY <1>1, <2>3 DEF Leads
    <3> QED
      BY <1>3, <1>4, <1>5, <2>1, <3>1 DEF Leads
  <2> QED
    BY <2>2, <2>3
<1>12. Leads(r, lower, h) <=> Fits(r, i, h)
  <2> i \in 1 .. n + 1
    BY <1>1
  <2> QED
    BY <1>4, <1>9 DEF Leads
<1>13. Leads(r, upper, h) <=> Fits(r, i + 1, h)
  <2> i + 1 \in 1 .. n + 1
    BY <1>1
  <2> QED
    BY <1>4, <1>9 DEF Leads
<1> QED
  BY <1>3, <1>7, <1>10, <1>11, <1>12, <1>13 DEF r

-----------------------------------------------------------------------------
(***************************************************************************)
(* Control: which locks a thread has at each place.                        *)
(***************************************************************************)
\* Places with no tree lock, with DX to oneself, and with a leaf locked.
Away == {"idle", "lock", "relock"}
Changing == {"recount", "split", "notify", "insert", "added"}
Places == Away \cup Changing \cup {"dx", "spin", "search", "de", "listen", "leaf", "try", "free"}
OnLeaf == {"listen", "leaf", "try"} \cup Changing
Moved == {"notify", "insert"}

Operations == [kind : Kinds, name : Names]
LockRows ==
    /\ mode \in [LockTypes -> [Threads -> {"INVAL", "NL", "PR", "PW"}]]
    /\ key \in [LockTypes -> [Threads -> {Index, None} \cup Leaves]]
    /\ told \in [LockTypes -> [Threads -> BOOLEAN]]
Types ==
    /\ LockRows
    /\ tree \in [Threads -> {"NL", "shared", "EX"}] /\ pc \in [Threads -> Places]
    /\ op \in [Threads -> Operations \cup {None}]
    /\ answer \in [Threads -> {None, "found", "not_found", "done", "no_space"}]
    /\ left \in [Threads -> Nat]
    /\ safe \in [Threads -> BOOLEAN] /\ changed \in [Threads -> BOOLEAN]
    /\ then \in [Threads -> {"done", "again", "relock"}]
    /\ block \in [Threads -> Leaves] /\ at \in [Threads -> Nat \ {0}] /\ count \in [Threads -> Nat]
    /\ new \in [Threads -> {None} \cup [hash : Nat, block : Leaves, low : BOOLEAN]]
    /\ leaf \in [Leaves -> SUBSET Names] /\ used \subseteq Leaves

\* When a thread has an operation, the tree lock and an answer.
PlaceOk(t) ==
    /\ op[t] = None <=> pc[t] = "idle"
    /\ tree[t] = "NL" <=> pc[t] \in Away
    /\ EX(t) => pc[t] \notin {"de", "listen", "try", "recount"}
    /\ pc[t] \in {"try"} \cup Changing => op[t].kind = "add"
    /\ pc[t] # "free" => then[t] = "done"
    /\ answer[t] # None <=> pc[t] = "free" /\ then[t] = "done"

\* The modes that a place asks for.
DxMode(t) == IF ~safe[t] THEN "INVAL" ELSE IF op[t].kind = "add" THEN "PW" ELSE "PR"
DeMode(t) == IF op[t].kind = "lookup" THEN "PR" ELSE "PW"
SpinMode(t) ==
    CASE pc[t] = "search" -> IF ~safe[t] THEN "PR" ELSE IF op[t].kind = "add" THEN "PW" ELSE "INVAL"
      [] pc[t] = "de" -> IF safe[t] THEN "INVAL" ELSE "NL"
      [] pc[t] = "listen" -> "NL"
      [] pc[t] = "insert" -> "PW"
      [] OTHER -> "INVAL"
\* Which child locks a thread has: none when it has the tree to itself.
ModesOk(t) ==
    /\ pc[t] \in Away \cup {"dx"} \/ EX(t) => \A d \in LockTypes : mode[d][t] = "INVAL"
    /\ ~EX(t) =>
         /\ pc[t] \in {"spin", "search", "de", "listen", "leaf"} => mode["DX"][t] = DxMode(t)
         /\ pc[t] = "try" => mode["DX"][t] = "INVAL" /\ safe[t]
         /\ pc[t] \in Changing => mode["DX"][t] = "PW" /\ safe[t]
         /\ pc[t] = "free" => mode["DX"][t] # "NL" /\ mode["DE"][t] # "NL"
         /\ mode["SPIN"][t] = SpinMode(t)
         /\ pc[t] = "listen" => ~safe[t]
         /\ pc[t] \in OnLeaf => mode["DE"][t] = DeMode(t)
         /\ pc[t] \in {"spin", "search", "de"} => mode["DE"][t] = "INVAL"
KeysOk(t) == \A d \in LockTypes :
    mode[d][t] # "INVAL" => key[d][t] = IF d = "DE" THEN block[t] ELSE Index

\* Whoever has the tree in EX is alone, and a name has one operation at a time.
Alone == \A t, u \in Threads : t # u /\ EX(t) => tree[u] = "NL"
NamesApart == \A t, u \in Threads : t # u /\ op[t] # None /\ op[u] # None => op[t].name # op[u].name

Control ==
    /\ Types /\ Alone /\ NamesApart /\ Lock!Exclusive
    /\ \A t \in Threads : PlaceOk(t) /\ ModesOk(t) /\ KeysOk(t)

-----------------------------------------------------------------------------
\* What a step of t leaves alone in the locks, and at other threads.
OthersRows(t) == \A d \in LockTypes, u \in Threads : u # t =>
    mode'[d][u] = mode[d][u] /\ key'[d][u] = key[d][u]
Row(t, d, m, k) == mode'[d][t] = m /\ key'[d][t] = k
Kept(t, d) == Row(t, d, mode[d][t], key[d][t])

\* A child lock that is taken: nobody has its key in a mode that conflicts.
LEMMA TakeIs ==
  ASSUME LockRows, Lock!Exclusive, NEW t \in Threads, NEW d \in LockTypes,
         NEW k \in {Index} \cup Leaves, NEW m \in {"PR", "PW"}, NEW event \in BOOLEAN,
         Lock!Take(t, d, k, m, event)
  PROVE  /\ LockRows' /\ Lock!Exclusive' /\ OthersRows(t)
         /\ mode[d][t] = "INVAL" /\ Row(t, d, m, k) /\ \A e \in LockTypes \ {d} : Kept(t, e)
         /\ \A u \in Threads : u # t /\ key[d][u] = k /\ mode[d][u] \in {"PR", "PW"} =>
              m = "PR" /\ mode[d][u] = "PR"
<1>1. /\ mode' = [mode EXCEPT ![d] = [mode[d] EXCEPT ![t] = m]]
      /\ key' = [key EXCEPT ![d] = [key[d] EXCEPT ![t] = k]]
      /\ told' = [told EXCEPT ![d] = [u \in Threads |->
            told[d][u] \/ (event /\ m = "PW" /\ d \in {"SPIN"}
                           /\ mode[d][u] = "NL" /\ key[d][u] = k)]]
      /\ mode[d][t] = "INVAL" /\ Lock!Free(d, k, m)
  BY DEF Lock!Take, Lock!At
<1>2. mode' \in [LockTypes -> [Threads -> {"INVAL", "NL", "PR", "PW"}]]
  BY <1>1 DEF LockRows
<1>3. key' \in [LockTypes -> [Threads -> {Index, None} \cup Leaves]]
  BY <1>1 DEF LockRows
<1>4. told' \in [LockTypes -> [Threads -> BOOLEAN]]
  <2>1. [u \in Threads |->
            told[d][u] \/ (event /\ m = "PW" /\ d \in {"SPIN"}
                           /\ mode[d][u] = "NL" /\ key[d][u] = k)] \in [Threads -> BOOLEAN]
    BY Zenon DEF LockRows
  <2> QED
    BY <1>1, <2>1 DEF LockRows
<1>5. OthersRows(t) /\ Row(t, d, m, k) /\ \A e \in LockTypes \ {d} : Kept(t, e)
  BY <1>1 DEF LockRows, OthersRows, Row, Kept
<1>6. \A u \in Threads : u # t /\ key[d][u] = k /\ mode[d][u] \in {"PR", "PW"} =>
              m = "PR" /\ mode[d][u] = "PR"
  BY <1>1 DEF Lock!Free, Lock!Held
<1>7. Lock!Exclusive'
  BY <1>5, <1>6 DEF Lock!Exclusive, Lock!Held, OthersRows, Row, Kept
<1> QED
  BY <1>1, <1>2, <1>3, <1>4, <1>5, <1>6, <1>7 DEF LockRows

\* A child lock that is let go, to listen for events or altogether.
LEMMA LeaveIs ==
  ASSUME LockRows, Lock!Exclusive, NEW t \in Threads, NEW d \in LockTypes, NEW listen \in BOOLEAN,
         Lock!Leave(t, d, listen)
  PROVE  /\ LockRows' /\ Lock!Exclusive' /\ OthersRows(t)
         /\ \A e \in LockTypes \ {d} : Kept(t, e)
         /\ IF listen /\ d = "SPIN" THEN Row(t, d, "NL", key[d][t]) ELSE Row(t, d, "INVAL", None)
<1> DEFINE m == IF listen /\ d = "SPIN" THEN "NL" ELSE "INVAL"
           k == IF listen /\ d = "SPIN" THEN key[d][t] ELSE None
<1>1. /\ mode' = [mode EXCEPT ![d] = [mode[d] EXCEPT ![t] = m]]
      /\ key' = [key EXCEPT ![d] = [key[d] EXCEPT ![t] = k]]
      /\ told' = [told EXCEPT ![d] = [told[d] EXCEPT ![t] = FALSE]]
  BY DEF Lock!Leave, Lock!At, LockRows
<1>2. m \in {"NL", "INVAL"} /\ k \in {Index, None} \cup Leaves
  BY DEF LockRows
<1>3. mode' \in [LockTypes -> [Threads -> {"INVAL", "NL", "PR", "PW"}]]
  BY <1>1, <1>2 DEF LockRows
<1>4. key' \in [LockTypes -> [Threads -> {Index, None} \cup Leaves]]
  BY <1>1, <1>2 DEF LockRows
<1>5. told' \in [LockTypes -> [Threads -> BOOLEAN]]
  BY <1>1 DEF LockRows
<1>6. OthersRows(t) /\ Row(t, d, m, k) /\ \A e \in LockTypes \ {d} : Kept(t, e)
  BY <1>1 DEF LockRows, OthersRows, Row, Kept
<1>7. Lock!Exclusive'
  BY <1>2, <1>6 DEF Lock!Exclusive, Lock!Held, OthersRows, Row, Kept
<1> QED
  BY <1>3, <1>4, <1>5, <1>6, <1>7 DEF LockRows, Row

\* A thread that stops listening.
LEMMA QuietIs ==
  ASSUME LockRows, Lock!Exclusive, NEW t \in Threads, NEW d \in LockTypes, Lock!Quiet(t, d)
  PROVE  /\ LockRows' /\ Lock!Exclusive' /\ OthersRows(t)
         /\ \A e \in LockTypes \ {d} : Kept(t, e)
         /\ mode[d][t] = "NL" /\ Row(t, d, "INVAL", None)
<1>1. /\ mode' = [mode EXCEPT ![d] = [mode[d] EXCEPT ![t] = "INVAL"]]
      /\ key' = [key EXCEPT ![d] = [key[d] EXCEPT ![t] = None]]
      /\ told' = [told EXCEPT ![d] = [told[d] EXCEPT ![t] = FALSE]]
      /\ mode[d][t] = "NL"
  BY DEF Lock!Quiet, Lock!At
<1>2. LockRows'
  BY <1>1 DEF LockRows
<1>3. OthersRows(t) /\ Row(t, d, "INVAL", None) /\ \A e \in LockTypes \ {d} : Kept(t, e)
  BY <1>1 DEF LockRows, OthersRows, Row, Kept
<1>4. Lock!Exclusive'
  BY <1>3 DEF Lock!Exclusive, Lock!Held, OthersRows, Row, Kept
<1> QED
  BY <1>1, <1>2, <1>3, <1>4

\* A step that does nothing to the locks.
LEMMA SameLocks ==
  ASSUME LockRows, Lock!Exclusive, UNCHANGED lockVars, NEW t \in Threads
  PROVE  /\ LockRows' /\ Lock!Exclusive' /\ OthersRows(t) /\ \A e \in LockTypes : Kept(t, e)
<1>1. mode' = mode /\ key' = key /\ told' = told
  BY DEF lockVars
<1> QED
  BY <1>1 DEF LockRows, Lock!Exclusive, OthersRows, Kept, Row

\* The modes that ext4_htree_node_lock asks for.
LEMMA WantedIs ==
  ASSUME NEW t \in Threads, NEW d \in LockTypes
  PROVE  Wanted(t, d) \in {"PR", "PW", None}
BY DEF Wanted, LockTypes

\* What a child lock on key k, with an event for block b, gives.
LEMMA NodeLockIs ==
  ASSUME Types, Lock!Exclusive, NEW t \in Threads, NEW d \in LockTypes,
         NEW k \in {Index} \cup Leaves, NEW b, NodeLock(t, d, k, b)
  PROVE  /\ LockRows' /\ Lock!Exclusive' /\ OthersRows(t) /\ \A e \in LockTypes \ {d} : Kept(t, e)
         /\ changed' \in [Threads -> BOOLEAN]
         /\ Wanted(t, d) = None => Kept(t, d) /\ changed' = changed
         /\ Wanted(t, d) # None =>
              /\ mode[d][t] = "INVAL" /\ Row(t, d, Wanted(t, d), k) /\ Wanted(t, d) \in {"PR", "PW"}
              /\ \A u \in Threads : u # t /\ key[d][u] = k /\ mode[d][u] \in {"PR", "PW"} =>
                   Wanted(t, d) = "PR" /\ mode[d][u] = "PR"
              /\ \A u \in Threads :
                   changed'[u] <=> changed[u] \/ (b # None /\ mode[d][u] = "NL" /\ block[u] = b)
<1>1. CASE Wanted(t, d) = None
  <2>1. UNCHANGED lockVars /\ changed' = changed
    BY <1>1 DEF NodeLock
  <2>2. LockRows /\ changed \in [Threads -> BOOLEAN]
    BY DEF Types
  <2> QED
    BY <1>1, <2>1, <2>2, SameLocks
<1>2. CASE Wanted(t, d) # None
  <2>1. PICK m \in {"PR", "PW"} : m = Wanted(t, d)
    BY <1>2, WantedIs
  <2>2. PICK event \in BOOLEAN : event <=> b # None
    OBVIOUS
  <2>3. /\ Lock!Take(t, d, k, m, event)
        /\ changed' = [u \in Threads |->
                changed[u] \/ (b # None /\ mode[d][u] = "NL" /\ block[u] = b)]
    <3>1. (b # None) = event
      BY <2>2
    <3> QED
      BY <1>2, <2>1, <3>1 DEF NodeLock, Lock!Take, Lock!At
  <2>4. LockRows
    BY DEF Types
  <2>5. changed' \in [Threads -> BOOLEAN]
        /\ \A u \in Threads :
             changed'[u] <=> changed[u] \/ (b # None /\ mode[d][u] = "NL" /\ block[u] = b)
    <3>1. \A u \in Threads : changed[u] \in BOOLEAN
      BY DEF Types
    <3> QED
      BY <2>3, <3>1, Zenon
  <2>6. /\ LockRows' /\ Lock!Exclusive' /\ OthersRows(t)
        /\ mode[d][t] = "INVAL" /\ Row(t, d, m, k) /\ \A e \in LockTypes \ {d} : Kept(t, e)
        /\ \A u \in Threads : u # t /\ key[d][u] = k /\ mode[d][u] \in {"PR", "PW"} =>
             m = "PR" /\ mode[d][u] = "PR"
    BY <2>1, <2>3, <2>4, TakeIs
  <2> QED
    BY <1>2, <2>1, <2>5, <2>6
<1> QED
  BY <1>1, <1>2

\* What letting go of a child lock gives.
LEMMA NodeUnlockIs ==
  ASSUME Types, Lock!Exclusive, NEW t \in Threads, NEW d \in LockTypes, NEW listen \in BOOLEAN,
         NodeUnlock(t, d, listen)
  PROVE  /\ LockRows' /\ Lock!Exclusive' /\ OthersRows(t) /\ \A e \in LockTypes \ {d} : Kept(t, e)
         /\ ~Holds(t, d) => Kept(t, d)
         /\ Holds(t, d) => IF listen /\ d = "SPIN" THEN Row(t, d, "NL", key[d][t])
                           ELSE Row(t, d, "INVAL", None)
<1>1. LockRows
  BY DEF Types
<1>2. CASE Holds(t, d)
  BY <1>1, <1>2, LeaveIs DEF NodeUnlock
<1>3. CASE ~Holds(t, d)
  BY <1>1, <1>3, SameLocks DEF NodeUnlock
<1> QED
  BY <1>2, <1>3

-----------------------------------------------------------------------------
(***************************************************************************)
(* The data: what a thread knows of the index, its leaf and its split.     *)
(***************************************************************************)
FoundPlaces == {"de", "listen", "leaf", "try"}
\* The position in the index is that of the leaf, and the hash fits there.
AtOk(t) ==
    at[t] <= Len(index) /\ index[at[t]].block = block[t] /\ Fits(index, at[t], H(t))
\* A thread on its way to a leaf has been told that the leaf was split.
Warned(t) == pc[t] \in {"de", "listen"} /\ changed[t]
\* Since the search: with DX the position is right, and the name was in no earlier leaf
\* of the hash; without it, it is right as long as the number of entries is the same, and
\* the leaf is one the hash leads to (for a lookup or a delete the only one), unless
\* the thread has been warned.
FoundOk(t) ==
    /\ pc[t] \in {"de", "leaf"} /\ DxLocked(t) => AtOk(t)
    /\ (pc[t] \in FoundPlaces /\ ~DxLocked(t)) \/ pc[t] = "recount" =>
         /\ count[t] <= Len(index)
         /\ count[t] = Len(index) => AtOk(t)
         /\ Warned(t) \/ Leads(index, block[t], H(t))
    /\ pc[t] \in {"de", "listen", "leaf"} /\ ~DxLocked(t) /\ op[t].kind # "add" =>
         Warned(t) \/ \A b \in Leaves : Leads(index, b, H(t)) => b = block[t]
    /\ pc[t] \in {"de", "leaf"} /\ DxLocked(t) /\ op[t].kind # "add" =>
         \A i \in 1 .. at[t] - 1 : Fits(index, i, H(t)) => op[t].name \notin leaf[index[i].block]
    /\ pc[t] \in {"try", "recount"} => count[t] < Limit
\* From do_split to dx_insert_block: the entry of the leaf leads to the names of both
\* parts, which lie on the two sides of the hash to insert, and there is room for one.
SplitOk(t) ==
    /\ pc[t] \in {"split", "notify", "insert"} => AtOk(t) /\ Len(index) < Limit
    /\ pc[t] = "added" => Leads(index, block[t], H(t))
    /\ pc[t] \in {"notify", "insert", "added"} => Cardinality(leaf[block[t]]) < Capacity
    /\ pc[t] \in Moved =>
         LET e == new[t]
             lower == IF e.low THEN block[t] ELSE e.block
             upper == IF e.low THEN e.block ELSE block[t]
         IN  /\ e # None /\ e.block \notin BlocksOf(index)
             /\ index[at[t]].hash <= e.hash
             /\ at[t] < Len(index) => e.hash <= index[at[t] + 1].hash
             /\ \A n \in leaf[e.block] : Leads(index, block[t], Hash[n])
             /\ \A n \in leaf[lower] : Hash[n] < e.hash
             /\ \A n \in leaf[upper] : Even(e.hash) <= Hash[n]
             /\ IF e.low THEN H(t) < e.hash ELSE Even(e.hash) <= H(t)
\* When a split is inserted, whoever was on its way to that leaf has been warned.
Told == \A t, u \in Threads :
    u # t /\ pc[t] = "insert" /\ pc[u] \in {"de", "listen"} /\ block[u] = block[t]
       => changed[u]
\* A name is in one leaf, which the index leads to; a block is used by the index or by a
\* split under way; a name that is being added is not there yet.
LeavesOk ==
    /\ \A b, c \in Leaves : b # c => leaf[b] \cap leaf[c] = {}
    /\ \A b \in Leaves \ used : leaf[b] = {}
    /\ \A b \in Leaves : IsFiniteSet(leaf[b]) /\ Cardinality(leaf[b]) <= Capacity
    /\ used = BlocksOf(index) \cup {new[t].block : t \in {u \in Threads : pc[u] \in Moved}}
    /\ \A b \in BlocksOf(index) : \A n \in leaf[b] : Leads(index, b, Hash[n])
    /\ \A t \in Threads : op[t] # None /\ op[t].kind = "add" /\ answer[t] = None =>
         op[t].name \notin Contents
Data == IndexOk(index) /\ LeavesOk /\ Told /\ \A t \in Threads : FoundOk(t) /\ SplitOk(t)
Inv == Control /\ Data

\* Nothing of another thread changes, but that it may learn of a split.
Still(t) == /\ OthersRows(t)
            /\ \A u \in Threads : u # t =>
                 /\ tree'[u] = tree[u] /\ pc'[u] = pc[u] /\ op'[u] = op[u] /\ answer'[u] = answer[u]
                 /\ safe'[u] = safe[u] /\ at'[u] = at[u] /\ block'[u] = block[u]
                 /\ count'[u] = count[u] /\ new'[u] = new[u] /\ then'[u] = then[u]

\* The locks of another thread stay what its place asks for.
LEMMA OthersOk ==
  ASSUME Types, NEW t \in Threads, Still(t), NEW u \in Threads, u # t,
         PlaceOk(u), ModesOk(u), KeysOk(u)
  PROVE  PlaceOk(u)' /\ ModesOk(u)' /\ KeysOk(u)'
<1>1. /\ \A d \in LockTypes : mode'[d][u] = mode[d][u] /\ key'[d][u] = key[d][u]
      /\ tree'[u] = tree[u] /\ pc'[u] = pc[u] /\ op'[u] = op[u] /\ answer'[u] = answer[u]
      /\ safe'[u] = safe[u] /\ block'[u] = block[u] /\ then'[u] = then[u]
  BY DEF Still, OthersRows
<1>2. PlaceOk(u)'
  BY <1>1 DEF PlaceOk, EX
<1>3. DxMode(u)' = DxMode(u) /\ DeMode(u)' = DeMode(u) /\ SpinMode(u)' = SpinMode(u)
  BY <1>1 DEF DxMode, DeMode, SpinMode
<1>4. ModesOk(u)'
  BY <1>1, <1>3 DEF ModesOk, EX, LockTypes
<1>5. KeysOk(u)'
  BY <1>1 DEF KeysOk
<1> QED
  BY <1>2, <1>4, <1>5

\* What a step of t has to keep for Control.
LEMMA ControlKept ==
  ASSUME Control, NEW t \in Threads, Types', Still(t), Lock!Exclusive',
         (PlaceOk(t) /\ ModesOk(t) /\ KeysOk(t))',
         tree'[t] # tree[t] /\ tree'[t] # "NL" =>
            \A u \in Threads : u # t => tree[u] # "EX" /\ (tree'[t] = "EX" => tree[u] = "NL"),
         op'[t] # op[t] /\ op'[t] # None =>
            \A u \in Threads : op[u] # None => op[u].name # op'[t].name
  PROVE  Control'
<1>1. \A u \in Threads : u # t => tree'[u] = tree[u] /\ op'[u] = op[u]
  BY DEF Still
<1>2. Alone'
  BY <1>1 DEF Control, Alone, EX
<1>3. NamesApart'
  BY <1>1 DEF Control, NamesApart
<1>4. \A u \in Threads : (PlaceOk(u) /\ ModesOk(u) /\ KeysOk(u))'
  BY OthersOk DEF Control
<1> QED
  BY <1>2, <1>3, <1>4 DEF Control

-----------------------------------------------------------------------------
(***************************************************************************)
(* What each action does to the locks of its thread.                       *)
(***************************************************************************)
\* What a step of t does to its locks.
Locked(t, d, k, b) ==
    /\ LockRows' /\ Lock!Exclusive' /\ OthersRows(t) /\ \A e \in LockTypes \ {d} : Kept(t, e)
    /\ changed' \in [Threads -> BOOLEAN]
    /\ Wanted(t, d) = None => Kept(t, d) /\ changed' = changed
    /\ Wanted(t, d) # None =>
         /\ mode[d][t] = "INVAL" /\ Row(t, d, Wanted(t, d), k) /\ Wanted(t, d) \in {"PR", "PW"}
         /\ \A u \in Threads : u # t /\ key[d][u] = k /\ mode[d][u] \in {"PR", "PW"} =>
              Wanted(t, d) = "PR" /\ mode[d][u] = "PR"
         /\ \A u \in Threads :
              changed'[u] <=> changed[u] \/ (b # None /\ mode[d][u] = "NL" /\ block[u] = b)

\* ext4_htree_de_lock.
LEMMA DeLocked ==
  ASSUME Types, Lock!Exclusive, NEW t \in Threads, LockDe(t)
  PROVE  Locked(t, "DE", block[t], None)
<1>1. PICK k \in Leaves : k = block[t]
  BY DEF Types
<1>2. NodeLock(t, "DE", k, None)
  BY <1>1 DEF LockDe, NodeLock, Lock!Take, Lock!At
<1> QED
  BY <1>1, <1>2, NodeLockIs DEF Locked, LockTypes

\* ext4_htree_spin_lock with the event of a split.
LEMMA SpinLocked ==
  ASSUME Types, Lock!Exclusive, NEW t \in Threads, Notify(t), index[at[t]].block \in Leaves
  PROVE  Locked(t, "SPIN", Index, index[at[t]].block)
<1>1. PICK b \in Leaves : b = index[at[t]].block
  OBVIOUS
<1>2. NodeLock(t, "SPIN", Index, b)
  BY <1>1 DEF Notify, NodeLock, Lock!Take, Lock!At
<1> QED
  BY <1>1, <1>2, NodeLockIs DEF Locked, LockTypes

\* Every step leaves the child locks to exclude each other, and those of others alone.
LEMMA LocksStep ==
  ASSUME Types, Lock!Exclusive, NEW t \in Threads, IndexOk(index),
         at[t] \in DOMAIN index \/ pc[t] # "notify",
         Continue(t) \/ Call(t)
  PROVE  LockRows' /\ Lock!Exclusive' /\ OthersRows(t)
<1>1. {"DX", "DE", "SPIN"} = LockTypes /\ LockRows
  BY DEF LockTypes, Types
<1>2. CASE UNCHANGED lockVars
  BY <1>1, <1>2, SameLocks
<1>3. CASE \E d \in LockTypes : NodeLock(t, d, Index, None)
  BY <1>1, <1>3, NodeLockIs
<1>4. CASE \E d \in LockTypes, listen \in BOOLEAN : NodeUnlock(t, d, listen)
  BY <1>1, <1>4, NodeUnlockIs
<1>5. CASE LockDe(t)
  BY <1>5, DeLocked DEF Locked
<1>6. CASE Notify(t)
  <2>1. index[at[t]].block \in Leaves
    BY <1>6, EntryIs DEF Notify
  <2> QED
    BY <1>6, <2>1, SpinLocked DEF Locked
<1>7. CASE StopListen(t)
  BY <1>1, <1>7, QuietIs DEF StopListen
<1>8. CASE Release(t)
  BY <1>1, <1>8, LeaveIs DEF Release
<1> QED
  BY <1>1, <1>2, <1>3, <1>4, <1>5, <1>6, <1>7, <1>8
     DEF Continue, Call, LockTree, Relock, Probe, AtLeaf, Splitting, Released, LockDx, LockSpin,
         Search, Found, NotHere, AddHere, IndexFull, NeedSplit, TryDx, Recount, Split, Insert,
         AddAfterSplit, Leave

\* What each step leaves its thread: an operation that begins has no lock,
LEMMA CallModes ==
  ASSUME Types, Lock!Exclusive, NEW t \in Threads, PlaceOk(t), ModesOk(t), KeysOk(t), Call(t)
  PROVE  ModesOk(t)' /\ KeysOk(t)'
<1>1. LockTypes = {"DX", "DE", "SPIN"} /\ LockRows
  BY DEF Types, LockTypes
<1>2. \A d \in LockTypes : Kept(t, d)
  BY <1>1, SameLocks DEF Call, Leave
<1> QED
  BY <1>1, <1>2
     DEF Call, Set, Goto, local, EX, Types, PlaceOk, ModesOk, KeysOk, Kept, Row, Away, Changing,
         OnLeaf, DxMode, DeMode, SpinMode, Wanted, DxLocked, Holds, Lock!Held

\* nor has one that has just the tree lock,
LEMMA LockTreeModes ==
  ASSUME Types, Lock!Exclusive, NEW t \in Threads, PlaceOk(t), ModesOk(t), KeysOk(t), LockTree(t)
  PROVE  ModesOk(t)' /\ KeysOk(t)'
<1>1. LockTypes = {"DX", "DE", "SPIN"} /\ LockRows
  BY DEF Types, LockTypes
<1>2. \A d \in LockTypes : Kept(t, d)
  BY <1>1, SameLocks DEF LockTree, Leave
<1> QED
  BY <1>1, <1>2
     DEF LockTree, Set, Goto, local, EX, Types, PlaceOk, ModesOk, KeysOk, Kept, Row, Away,
         Changing, OnLeaf, DxMode, DeMode, SpinMode, Wanted, DxLocked, Holds, Lock!Held

\* or the tree to itself.
LEMMA RelockModes ==
  ASSUME Types, Lock!Exclusive, NEW t \in Threads, PlaceOk(t), ModesOk(t), KeysOk(t), Relock(t)
  PROVE  ModesOk(t)' /\ KeysOk(t)'
<1>1. LockTypes = {"DX", "DE", "SPIN"} /\ LockRows
  BY DEF Types, LockTypes
<1>2. \A d \in LockTypes : Kept(t, d)
  BY <1>1, SameLocks DEF Relock, Leave
<1> QED
  BY <1>1, <1>2
     DEF Relock, Set, Goto, local, EX, Types, PlaceOk, ModesOk, KeysOk, Kept, Row, Away,
         Changing, OnLeaf, DxMode, DeMode, SpinMode, Wanted, DxLocked, Holds, Lock!Held

\* dx_probe takes DX if the search is to be a safe one,
LEMMA LockDxModes ==
  ASSUME Types, Lock!Exclusive, NEW t \in Threads, PlaceOk(t), ModesOk(t), KeysOk(t), LockDx(t)
  PROVE  ModesOk(t)' /\ KeysOk(t)'
<1>1. LockTypes = {"DX", "DE", "SPIN"} /\ LockRows
  BY DEF Types, LockTypes
<1>2. NodeLock(t, "DX", Index, None)
  BY DEF LockDx
<1>3. /\ \A e \in LockTypes \ {"DX"} : Kept(t, e)
      /\ IF Wanted(t, "DX") = None THEN Kept(t, "DX") ELSE Row(t, "DX", Wanted(t, "DX"), Index)
  BY <1>1, <1>2, NodeLockIs
<1>4. pc[t] = "dx" /\ pc'[t] = "spin" /\ tree'[t] = tree[t] /\ op'[t] = op[t]
      /\ safe'[t] = safe[t] /\ block'[t] = block[t]
  BY DEF LockDx, Set, Goto, local, EX, Types, Away, DxLocked, Holds, Lock!Held
<1>5. /\ \A d \in LockTypes : mode[d][t] \in {"INVAL", "NL", "PR", "PW"}
      /\ tree[t] \in {"NL", "shared", "EX"} /\ safe[t] \in BOOLEAN /\ None \notin {"PR", "PW"}
  BY DirAssumption DEF Types, LockRows
<1>6. KeysOk(t)'
  BY <1>1, <1>3, <1>4, <1>5
     DEF PlaceOk, ModesOk, KeysOk, Kept, Row, Away, Changing, OnLeaf, DxMode, DeMode, SpinMode,
         Wanted, DxLocked, Holds, Lock!Held, EX
<1>7. ModesOk(t)'
  BY <1>1, <1>3, <1>4, <1>5
     DEF PlaceOk, ModesOk, Kept, Row, Away, Changing, OnLeaf, DxMode, DeMode, SpinMode, Wanted,
         DxLocked, Holds, Lock!Held, EX
<1> QED
  BY <1>6, <1>7

\* and SPIN, which a safe lookup or delete does not need.
LEMMA LockSpinModes ==
  ASSUME Types, Lock!Exclusive, NEW t \in Threads, PlaceOk(t), ModesOk(t), KeysOk(t), LockSpin(t)
  PROVE  ModesOk(t)' /\ KeysOk(t)'
<1>1. LockTypes = {"DX", "DE", "SPIN"} /\ LockRows
  BY DEF Types, LockTypes
<1>2. NodeLock(t, "SPIN", Index, None)
  BY DEF LockSpin
<1>3. /\ \A e \in LockTypes \ {"SPIN"} : Kept(t, e)
      /\ IF Wanted(t, "SPIN") = None THEN Kept(t, "SPIN") ELSE Row(t, "SPIN", Wanted(t, "SPIN"),
           Index)
  BY <1>1, <1>2, NodeLockIs
<1>4. pc[t] = "spin" /\ pc'[t] = "search" /\ tree'[t] = tree[t] /\ op'[t] = op[t]
      /\ safe'[t] = safe[t] /\ block'[t] = block[t]
  BY DEF LockSpin, Set, Goto, local, EX, Types, Away, DxLocked, Holds, Lock!Held
<1>5. /\ \A d \in LockTypes : mode[d][t] \in {"INVAL", "NL", "PR", "PW"}
      /\ tree[t] \in {"NL", "shared", "EX"} /\ safe[t] \in BOOLEAN /\ None \notin {"PR", "PW"}
  BY DirAssumption DEF Types, LockRows
<1>6. KeysOk(t)'
  BY <1>1, <1>3, <1>4, <1>5
     DEF PlaceOk, ModesOk, KeysOk, Kept, Row, Away, Changing, OnLeaf, DxMode, DeMode, SpinMode,
         Wanted, DxLocked, Holds, Lock!Held, EX
<1>7. ModesOk(t)'
  BY <1>1, <1>3, <1>4, <1>5
     DEF PlaceOk, ModesOk, Kept, Row, Away, Changing, OnLeaf, DxMode, DeMode, SpinMode, Wanted,
         DxLocked, Holds, Lock!Held, EX
<1> QED
  BY <1>6, <1>7

\* After the search SPIN is let go, and listened on where DX is not held.
LEMMA SearchModes ==
  ASSUME Types, Lock!Exclusive, NEW t \in Threads, PlaceOk(t), ModesOk(t), KeysOk(t), Search(t)
  PROVE  ModesOk(t)' /\ KeysOk(t)'
<1>1. LockTypes = {"DX", "DE", "SPIN"} /\ LockRows
  BY DEF Types, LockTypes
<1>2. PICK listen \in BOOLEAN : NodeUnlock(t, "SPIN", listen)
           /\ (listen <=> pc'[t] = "de" /\ ~DxLocked(t))
  BY <1>1 DEF Search, Goto, Types, EX, DxLocked
<1>3. /\ \A e \in LockTypes \ {"SPIN"} : Kept(t, e)
      /\ IF ~Holds(t, "SPIN") THEN Kept(t, "SPIN")
         ELSE IF listen THEN Row(t, "SPIN", "NL", key["SPIN"][t]) ELSE Row(t, "SPIN", "INVAL", None)
  BY <1>1, <1>2, NodeUnlockIs
<1>4. pc[t] = "search" /\ pc'[t] \in {"dx", "leaf", "de"}
      /\ (pc'[t] # "dx" => safe'[t] = safe[t]) /\ (pc'[t] = "dx" => ~DxLocked(t))
      /\ (pc'[t] = "leaf" <=> EX(t)) /\ tree'[t] = tree[t] /\ op'[t] = op[t]
  BY DEF Search, Set, Goto, local, EX, Types, Away, DxLocked, Holds, Lock!Held
<1>5. /\ \A d \in LockTypes : mode[d][t] \in {"INVAL", "NL", "PR", "PW"}
      /\ tree[t] \in {"NL", "shared", "EX"} /\ safe[t] \in BOOLEAN /\ None \notin {"PR", "PW"}
  BY DirAssumption DEF Types, LockRows
<1>6. KeysOk(t)'
  BY <1>1, <1>3, <1>2, <1>4, <1>5
     DEF PlaceOk, ModesOk, KeysOk, Kept, Row, Away, Changing, OnLeaf, DxMode, DeMode, SpinMode,
         Wanted, DxLocked, Holds, Lock!Held, EX
<1>7. ModesOk(t)'
  BY <1>1, <1>3, <1>2, <1>4, <1>5
     DEF PlaceOk, ModesOk, Kept, Row, Away, Changing, OnLeaf, DxMode, DeMode, SpinMode, Wanted,
         DxLocked, Holds, Lock!Held, EX
<1> QED
  BY <1>6, <1>7

\* The leaf is locked for what is to be done with it,
LEMMA LockDeModes ==
  ASSUME Types, Lock!Exclusive, NEW t \in Threads, PlaceOk(t), ModesOk(t), KeysOk(t), LockDe(t)
  PROVE  ModesOk(t)' /\ KeysOk(t)'
<1>1. LockTypes = {"DX", "DE", "SPIN"} /\ LockRows
  BY DEF Types, LockTypes
<1>2. /\ \A e \in LockTypes \ {"DE"} : Kept(t, e)
      /\ IF Wanted(t, "DE") = None THEN Kept(t, "DE") ELSE Row(t, "DE", Wanted(t, "DE"), block[t])
  BY <1>1, DeLocked DEF Locked
<1>3. pc[t] = "de" /\ pc'[t] = (IF mode["SPIN"][t] = "NL" THEN "listen" ELSE "leaf")
      /\ tree'[t] = tree[t] /\ op'[t] = op[t] /\ safe'[t] = safe[t] /\ block'[t] = block[t]
  BY DEF LockDe, Set, Goto, local, EX, Types, Away, DxLocked, Holds, Lock!Held
<1>4. /\ \A d \in LockTypes : mode[d][t] \in {"INVAL", "NL", "PR", "PW"}
      /\ tree[t] \in {"NL", "shared", "EX"} /\ safe[t] \in BOOLEAN /\ None \notin {"PR", "PW"}
  BY DirAssumption DEF Types, LockRows
<1>5. KeysOk(t)'
  BY <1>1, <1>2, <1>3, <1>4
     DEF PlaceOk, ModesOk, KeysOk, Kept, Row, Away, Changing, OnLeaf, DxMode, DeMode, SpinMode,
         Wanted, DxLocked, Holds, Lock!Held, EX
<1>6. ModesOk(t)'
  BY <1>1, <1>2, <1>3, <1>4
     DEF PlaceOk, ModesOk, Kept, Row, Away, Changing, OnLeaf, DxMode, DeMode, SpinMode, Wanted,
         DxLocked, Holds, Lock!Held, EX
<1> QED
  BY <1>5, <1>6

\* and the listening ends.
LEMMA StopListenModes ==
  ASSUME Types, Lock!Exclusive, NEW t \in Threads, PlaceOk(t), ModesOk(t), KeysOk(t), StopListen(t)
  PROVE  ModesOk(t)' /\ KeysOk(t)'
<1>1. LockTypes = {"DX", "DE", "SPIN"} /\ LockRows
  BY DEF Types, LockTypes
<1>2. (\A e \in LockTypes \ {"SPIN"} : Kept(t, e)) /\ Row(t, "SPIN", "INVAL", None)
  BY <1>1, QuietIs DEF StopListen
<1> QED
  BY <1>1, <1>2
     DEF StopListen, Free, Set, Goto, local, EX, Types, PlaceOk, ModesOk, KeysOk, Kept, Row,
         Away, Changing, OnLeaf, DxMode, DeMode, SpinMode, Wanted, DxLocked, Holds, Lock!Held

\* A name that is found leaves the locks alone.
LEMMA FoundModes ==
  ASSUME Types, Lock!Exclusive, NEW t \in Threads, PlaceOk(t), ModesOk(t), KeysOk(t), Found(t)
  PROVE  ModesOk(t)' /\ KeysOk(t)'
<1>1. LockTypes = {"DX", "DE", "SPIN"} /\ LockRows
  BY DEF Types, LockTypes
<1>2. \A d \in LockTypes : Kept(t, d)
  BY <1>1, SameLocks DEF Found, Leave
<1> QED
  BY <1>1, <1>2
     DEF Found, Finish, Set, Goto, local, EX, Types, PlaceOk, ModesOk, KeysOk, Kept, Row, Away,
         Changing, OnLeaf, DxMode, DeMode, SpinMode, Wanted, DxLocked, Holds, Lock!Held

\* A leaf without the name is let go.
LEMMA NotHereModes ==
  ASSUME Types, Lock!Exclusive, NEW t \in Threads, PlaceOk(t), ModesOk(t), KeysOk(t), NotHere(t)
  PROVE  ModesOk(t)' /\ KeysOk(t)'
<1>1. LockTypes = {"DX", "DE", "SPIN"} /\ LockRows
  BY DEF Types, LockTypes
<1>2. PICK listen \in BOOLEAN : NodeUnlock(t, "DE", listen) /\ ~listen
  BY <1>1 DEF NotHere, Goto, Types, EX, DxLocked
<1>3. /\ \A e \in LockTypes \ {"DE"} : Kept(t, e)
      /\ IF ~Holds(t, "DE") THEN Kept(t, "DE")
         ELSE IF FALSE THEN Row(t, "DE", "NL", key["DE"][t]) ELSE Row(t, "DE", "INVAL", None)
  BY <1>1, <1>2, NodeUnlockIs
<1>4. pc[t] = "leaf" /\ pc'[t] \in {"free", "leaf", "de"} /\ (pc'[t] # "free" => DxLocked(t))
      /\ (pc'[t] = "free" => block'[t] = block[t]) /\ (pc'[t] = "leaf" => EX(t))
      /\ tree'[t] = tree[t] /\ op'[t] = op[t] /\ safe'[t] = safe[t]
  BY
     DEF NotHere, Finish, Continues, Set, Goto, local, EX, Types, Away, DxLocked, Holds,
         Lock!Held
<1>5. /\ \A d \in LockTypes : mode[d][t] \in {"INVAL", "NL", "PR", "PW"}
      /\ tree[t] \in {"NL", "shared", "EX"} /\ safe[t] \in BOOLEAN /\ None \notin {"PR", "PW"}
  BY DirAssumption DEF Types, LockRows
<1>6. KeysOk(t)'
  BY <1>1, <1>3, <1>2, <1>4, <1>5
     DEF PlaceOk, ModesOk, KeysOk, Kept, Row, Away, Changing, OnLeaf, DxMode, DeMode, SpinMode,
         Wanted, DxLocked, Holds, Lock!Held, EX
<1>7. ModesOk(t)'
  BY <1>1, <1>3, <1>2, <1>4, <1>5
     DEF PlaceOk, ModesOk, Kept, Row, Away, Changing, OnLeaf, DxMode, DeMode, SpinMode, Wanted,
         DxLocked, Holds, Lock!Held, EX
<1> QED
  BY <1>6, <1>7

\* A name that is added leaves the locks alone,
LEMMA AddHereModes ==
  ASSUME Types, Lock!Exclusive, NEW t \in Threads, PlaceOk(t), ModesOk(t), KeysOk(t), AddHere(t)
  PROVE  ModesOk(t)' /\ KeysOk(t)'
<1>1. LockTypes = {"DX", "DE", "SPIN"} /\ LockRows
  BY DEF Types, LockTypes
<1>2. \A d \in LockTypes : Kept(t, d)
  BY <1>1, SameLocks DEF AddHere, Leave
<1> QED
  BY <1>1, <1>2
     DEF AddHere, Finish, Set, Goto, local, EX, Types, PlaceOk, ModesOk, KeysOk, Kept, Row,
         Away, Changing, OnLeaf, DxMode, DeMode, SpinMode, Wanted, DxLocked, Holds, Lock!Held

\* so does a full index,
LEMMA IndexFullModes ==
  ASSUME Types, Lock!Exclusive, NEW t \in Threads, PlaceOk(t), ModesOk(t), KeysOk(t), IndexFull(t)
  PROVE  ModesOk(t)' /\ KeysOk(t)'
<1>1. LockTypes = {"DX", "DE", "SPIN"} /\ LockRows
  BY DEF Types, LockTypes
<1>2. \A d \in LockTypes : Kept(t, d)
  BY <1>1, SameLocks DEF IndexFull, Leave
<1> QED
  BY <1>1, <1>2
     DEF IndexFull, Full, Finish, Free, Set, Goto, local, EX, Types, PlaceOk, ModesOk, KeysOk,
         Kept, Row, Away, Changing, OnLeaf, DxMode, DeMode, SpinMode, Wanted, DxLocked, Holds,
         Lock!Held

\* and a leaf that has to be split.
LEMMA NeedSplitModes ==
  ASSUME Types, Lock!Exclusive, NEW t \in Threads, PlaceOk(t), ModesOk(t), KeysOk(t), NeedSplit(t)
  PROVE  ModesOk(t)' /\ KeysOk(t)'
<1>1. LockTypes = {"DX", "DE", "SPIN"} /\ LockRows
  BY DEF Types, LockTypes
<1>2. \A d \in LockTypes : Kept(t, d)
  BY <1>1, SameLocks DEF NeedSplit, Leave
<1> QED
  BY <1>1, <1>2
     DEF NeedSplit, Full, Free, DxLocked, Holds, Lock!Held, Set, Goto, local, EX, Types,
         PlaceOk, ModesOk, KeysOk, Kept, Row, Away, Changing, OnLeaf, DxMode, DeMode, SpinMode,
         Wanted, DxLocked, Holds, Lock!Held

\* DX is had at once, or everything is let go.
LEMMA TryDxModes ==
  ASSUME Types, Lock!Exclusive, NEW t \in Threads, PlaceOk(t), ModesOk(t), KeysOk(t), TryDx(t)
  PROVE  ModesOk(t)' /\ KeysOk(t)'
<1>1. LockTypes = {"DX", "DE", "SPIN"} /\ LockRows
  BY DEF Types, LockTypes
<1>2. /\ \A e \in LockTypes \ {"DX"} : Kept(t, e)
      /\ IF Wanted(t, "DX") = None
           \/ pc'[t] = "free" THEN Kept(t, "DX") ELSE Row(t, "DX", Wanted(t, "DX"), Index)
  <2>1. pc'[t] = IF Lock!Free("DX", Index, "PW") THEN "recount" ELSE "free"
    BY DEF TryDx, Free, Goto, Types
  <2>2. CASE Lock!Free("DX", Index, "PW")
    BY <1>1, <2>1, <2>2, NodeLockIs DEF TryDx
  <2>3. CASE ~Lock!Free("DX", Index, "PW")
    BY <1>1, <2>1, <2>3, SameLocks DEF TryDx
  <2> QED
    BY <2>2, <2>3
<1>3. pc[t] = "try" /\ pc'[t] \in {"recount", "free"} /\ tree'[t] = tree[t] /\ op'[t] = op[t]
      /\ safe'[t] = safe[t] /\ block'[t] = block[t]
  BY DEF TryDx, Free, Set, Goto, local, EX, Types, Away, DxLocked, Holds, Lock!Held
<1>4. /\ \A d \in LockTypes : mode[d][t] \in {"INVAL", "NL", "PR", "PW"}
      /\ tree[t] \in {"NL", "shared", "EX"} /\ safe[t] \in BOOLEAN /\ None \notin {"PR", "PW"}
  BY DirAssumption DEF Types, LockRows
<1>5. KeysOk(t)'
  BY <1>1, <1>2, <1>3, <1>4
     DEF PlaceOk, ModesOk, KeysOk, Kept, Row, Away, Changing, OnLeaf, DxMode, DeMode, SpinMode,
         Wanted, DxLocked, Holds, Lock!Held, EX
<1>6. ModesOk(t)'
  BY <1>1, <1>2, <1>3, <1>4
     DEF PlaceOk, ModesOk, Kept, Row, Away, Changing, OnLeaf, DxMode, DeMode, SpinMode, Wanted,
         DxLocked, Holds, Lock!Held, EX
<1> QED
  BY <1>5, <1>6

\* Counting again changes no lock,
LEMMA RecountModes ==
  ASSUME Types, Lock!Exclusive, NEW t \in Threads, PlaceOk(t), ModesOk(t), KeysOk(t), Recount(t)
  PROVE  ModesOk(t)' /\ KeysOk(t)'
<1>1. LockTypes = {"DX", "DE", "SPIN"} /\ LockRows
  BY DEF Types, LockTypes
<1>2. \A d \in LockTypes : Kept(t, d)
  BY <1>1, SameLocks DEF Recount, Leave
<1> QED
  BY <1>1, <1>2
     DEF Recount, Free, Set, Goto, local, EX, Types, PlaceOk, ModesOk, KeysOk, Kept, Row, Away,
         Changing, OnLeaf, DxMode, DeMode, SpinMode, Wanted, DxLocked, Holds, Lock!Held

\* nor does do_split.
LEMMA SplitModes ==
  ASSUME Types, Lock!Exclusive, NEW t \in Threads, PlaceOk(t), ModesOk(t), KeysOk(t), Split(t)
  PROVE  ModesOk(t)' /\ KeysOk(t)'
<1>1. LockTypes = {"DX", "DE", "SPIN"} /\ LockRows
  BY DEF Types, LockTypes
<1>2. \A d \in LockTypes : Kept(t, d)
  BY <1>1, SameLocks DEF Split, Leave
<1>3. pc[t] = "split" /\ pc'[t] \in {"notify", "free"} /\ tree'[t] = tree[t] /\ op'[t] = op[t]
      /\ safe'[t] = safe[t] /\ block'[t] = block[t]
  BY DEF Split, Finish, Set, Goto, local, EX, Types, Away, DxLocked, Holds, Lock!Held
<1>4. /\ \A d \in LockTypes : mode[d][t] \in {"INVAL", "NL", "PR", "PW"}
      /\ tree[t] \in {"NL", "shared", "EX"} /\ safe[t] \in BOOLEAN /\ None \notin {"PR", "PW"}
  BY DirAssumption DEF Types, LockRows
<1>5. KeysOk(t)'
  BY <1>1, <1>2, <1>3, <1>4
     DEF PlaceOk, ModesOk, KeysOk, Kept, Row, Away, Changing, OnLeaf, DxMode, DeMode, SpinMode,
         Wanted, DxLocked, Holds, Lock!Held, EX
<1>6. ModesOk(t)'
  BY <1>1, <1>2, <1>3, <1>4
     DEF PlaceOk, ModesOk, Kept, Row, Away, Changing, OnLeaf, DxMode, DeMode, SpinMode, Wanted,
         DxLocked, Holds, Lock!Held, EX
<1> QED
  BY <1>5, <1>6

\* SPIN is taken to insert a block,
LEMMA NotifyModes ==
  ASSUME Types, Lock!Exclusive, NEW t \in Threads, PlaceOk(t), ModesOk(t), KeysOk(t), Notify(t),
         index[at[t]].block \in Leaves
  PROVE  ModesOk(t)' /\ KeysOk(t)'
<1>1. LockTypes = {"DX", "DE", "SPIN"} /\ LockRows
  BY DEF Types, LockTypes
<1>2. /\ \A e \in LockTypes \ {"SPIN"} : Kept(t, e)
      /\ IF Wanted(t, "SPIN") = None THEN Kept(t, "SPIN") ELSE Row(t, "SPIN", Wanted(t, "SPIN"),
           Index)
  BY <1>1, SpinLocked DEF Locked, Notify
<1>3. pc[t] = "notify" /\ pc'[t] = "insert" /\ tree'[t] = tree[t] /\ op'[t] = op[t]
      /\ safe'[t] = safe[t] /\ block'[t] = block[t]
  BY DEF Notify, Set, Goto, local, EX, Types, Away, DxLocked, Holds, Lock!Held
<1>4. /\ \A d \in LockTypes : mode[d][t] \in {"INVAL", "NL", "PR", "PW"}
      /\ tree[t] \in {"NL", "shared", "EX"} /\ safe[t] \in BOOLEAN /\ None \notin {"PR", "PW"}
  BY DirAssumption DEF Types, LockRows
<1>5. KeysOk(t)'
  BY <1>1, <1>2, <1>3, <1>4
     DEF PlaceOk, ModesOk, KeysOk, Kept, Row, Away, Changing, OnLeaf, DxMode, DeMode, SpinMode,
         Wanted, DxLocked, Holds, Lock!Held, EX
<1>6. ModesOk(t)'
  BY <1>1, <1>2, <1>3, <1>4
     DEF PlaceOk, ModesOk, Kept, Row, Away, Changing, OnLeaf, DxMode, DeMode, SpinMode, Wanted,
         DxLocked, Holds, Lock!Held, EX
<1> QED
  BY <1>5, <1>6

\* and let go when that is done,
LEMMA InsertModes ==
  ASSUME Types, Lock!Exclusive, NEW t \in Threads, PlaceOk(t), ModesOk(t), KeysOk(t), Insert(t)
  PROVE  ModesOk(t)' /\ KeysOk(t)'
<1>1. LockTypes = {"DX", "DE", "SPIN"} /\ LockRows
  BY DEF Types, LockTypes
<1>2. PICK listen \in BOOLEAN : NodeUnlock(t, "SPIN", listen) /\ ~listen
  BY <1>1 DEF Insert, Goto, Types, EX, DxLocked
<1>3. /\ \A e \in LockTypes \ {"SPIN"} : Kept(t, e)
      /\ IF ~Holds(t, "SPIN") THEN Kept(t, "SPIN")
         ELSE IF FALSE THEN Row(t, "SPIN", "NL", key["SPIN"][t]) ELSE Row(t, "SPIN", "INVAL", None)
  BY <1>1, <1>2, NodeUnlockIs
<1> QED
  BY <1>1, <1>3, <1>2
     DEF Insert, Set, Goto, local, EX, Types, PlaceOk, ModesOk, KeysOk, Kept, Row, Away,
         Changing, OnLeaf, DxMode, DeMode, SpinMode, Wanted, DxLocked, Holds, Lock!Held

\* and DX with it.
LEMMA AddAfterSplitModes ==
  ASSUME Types, Lock!Exclusive, NEW t \in Threads, PlaceOk(t), ModesOk(t), KeysOk(t),
         AddAfterSplit(t)
  PROVE  ModesOk(t)' /\ KeysOk(t)'
<1>1. LockTypes = {"DX", "DE", "SPIN"} /\ LockRows
  BY DEF Types, LockTypes
<1>2. PICK listen \in BOOLEAN : NodeUnlock(t, "DX", listen) /\ ~listen
  BY <1>1 DEF AddAfterSplit, Goto, Types, EX, DxLocked
<1>3. /\ \A e \in LockTypes \ {"DX"} : Kept(t, e)
      /\ IF ~Holds(t, "DX") THEN Kept(t, "DX")
         ELSE IF FALSE THEN Row(t, "DX", "NL", key["DX"][t]) ELSE Row(t, "DX", "INVAL", None)
  BY <1>1, <1>2, NodeUnlockIs
<1> QED
  BY <1>1, <1>3, <1>2
     DEF AddAfterSplit, Finish, Set, Goto, local, EX, Types, PlaceOk, ModesOk, KeysOk, Kept,
         Row, Away, Changing, OnLeaf, DxMode, DeMode, SpinMode, Wanted, DxLocked, Holds,
         Lock!Held

\* cleanup lets go of what is held,
LEMMA ReleaseModes ==
  ASSUME Types, Lock!Exclusive, NEW t \in Threads, PlaceOk(t), ModesOk(t), KeysOk(t), Release(t)
  PROVE  ModesOk(t)' /\ KeysOk(t)'
<1>1. LockTypes = {"DX", "DE", "SPIN"} /\ LockRows
  BY DEF Types, LockTypes
<1>2. PICK d \in {"DX", "DE"} : (\A e \in LockTypes \ {d} : Kept(t, e)) /\ Row(t, d, "INVAL", None)
  BY <1>1, LeaveIs DEF Release
<1> QED
  BY <1>1, <1>2
     DEF Release, Set, Goto, local, EX, Types, PlaceOk, ModesOk, KeysOk, Kept, Row, Away,
         Changing, OnLeaf, DxMode, DeMode, SpinMode, Wanted, DxLocked, Holds, Lock!Held

\* and the operation ends or starts again without a lock.
LEMMA ReleasedModes ==
  ASSUME Types, Lock!Exclusive, NEW t \in Threads, PlaceOk(t), ModesOk(t), KeysOk(t), Released(t)
  PROVE  ModesOk(t)' /\ KeysOk(t)'
<1>1. LockTypes = {"DX", "DE", "SPIN"} /\ LockRows
  BY DEF Types, LockTypes
<1>2. \A d \in LockTypes : Kept(t, d)
  BY <1>1, SameLocks DEF Released, Leave
<1>3. pc[t] = "free" /\ ~Holds(t, "DX") /\ ~Holds(t, "DE") /\ pc'[t] \in Away \cup {"dx"}
      /\ (tree'[t] = tree[t] \/ tree'[t] = "NL")
  BY
     DEF Released, Leave, Forget, Holds, Lock!Held, Set, Goto, local, EX, Types, Away, DxLocked,
         Holds, Lock!Held
<1>4. /\ \A d \in LockTypes : mode[d][t] \in {"INVAL", "NL", "PR", "PW"}
      /\ tree[t] \in {"NL", "shared", "EX"} /\ safe[t] \in BOOLEAN /\ None \notin {"PR", "PW"}
  BY DirAssumption DEF Types, LockRows
<1>5. KeysOk(t)'
  BY <1>1, <1>2, <1>3, <1>4
     DEF PlaceOk, ModesOk, KeysOk, Kept, Row, Away, Changing, OnLeaf, DxMode, DeMode, SpinMode,
         Wanted, DxLocked, Holds, Lock!Held, EX
<1>6. ModesOk(t)'
  BY <1>1, <1>2, <1>3, <1>4
     DEF PlaceOk, ModesOk, Kept, Row, Away, Changing, OnLeaf, DxMode, DeMode, SpinMode, Wanted,
         DxLocked, Holds, Lock!Held, EX
<1> QED
  BY <1>5, <1>6


-----------------------------------------------------------------------------
(***************************************************************************)
(* Each step keeps the types, and the control of every thread.             *)
(***************************************************************************)
\* An operation is on a name, whose hash is even.
LEMMA OpIs ==
  ASSUME Types, NEW t \in Threads, op[t] # None
  PROVE  op[t].kind \in Kinds /\ op[t].name \in Names /\ H(t) \in Nat /\ Even(H(t)) = H(t)
<1>1. op[t] \in Operations
  BY DEF Types
<1>2. op[t].kind \in Kinds /\ op[t].name \in Names
  BY <1>1 DEF Operations
<1> QED
  BY <1>2, EvenIs DEF H

\* What do_split hands to dx_insert_block.
LEMMA NewIs ==
  ASSUME Types, NEW t \in Threads, new[t] # None
  PROVE  new[t].hash \in Nat /\ new[t].block \in Leaves /\ new[t].low \in BOOLEAN
<1>1. new[t] \in [hash : Nat, block : Leaves, low : BOOLEAN]
  BY DEF Types
<1> QED
  BY <1>1

\* The place a search finds in the index.
LEMMA CoveringIs ==
  ASSUME Types, IndexOk(index), NEW t \in Threads, op[t] # None
  PROVE  /\ Covering(H(t)) \in 1 .. Len(index) /\ Covering(H(t)) \in Nat \ {0}
         /\ index[Covering(H(t))].block \in Leaves /\ Len(index) \in Nat
         /\ Fits(index, Covering(H(t)), H(t))
<1>1. H(t) \in Nat /\ H(t) = Hash[op[t].name] /\ op[t].name \in Names
  BY OpIs DEF H
<1>2. Covering(H(t)) \in DOMAIN index
  BY <1>1, CoverIs
<1>3. PICK i \in DOMAIN index : i = Covering(H(t))
  BY <1>2
<1>4. Fits(index, i, H(t))
  BY <1>1, <1>3, FitsAre
<1> QED
  BY <1>3, <1>4, EntryIs

\* A free block to split into.
LEMMA SomeFree ==
  ASSUME IndexOk(index), Len(index) < Limit, used = BlocksOf(index)
  PROVE  (CHOOSE x \in Leaves \ used : TRUE) \in Leaves \ used
<1> DEFINE n == Len(index)
           b == [i \in 1 .. n |-> index[i].block]
<1>1. n \in Nat /\ DOMAIN index = 1 .. n /\ Limit \in Nat /\ n < Limit
      /\ 1 .. Limit \subseteq Leaves
  BY DirAssumption DEF IndexOk
<1>2. IsFiniteSet(1 .. n) /\ Cardinality(1 .. n) = n /\ IsFiniteSet(1 .. Limit)
      /\ Cardinality(1 .. Limit) = Limit
  <2>1. 1 \in Int /\ n \in Int /\ Limit \in Int /\ ~(1 > Limit) /\ Limit - 1 + 1 = Limit
        /\ (IF 1 > n THEN 0 ELSE n - 1 + 1) = n
    BY <1>1
  <2> HIDE DEF n
  <2> QED
    BY <2>1, FS_Interval
<1>3. used = {b[i] : i \in 1 .. n}
  BY <1>1 DEF BlocksOf
<1>4. b \in Surjection(1 .. n, used)
  BY <1>3 DEF Surjection
<1>5. IsFiniteSet(used) /\ Cardinality(used) <= n /\ Cardinality(used) \in Nat
  BY <1>2, <1>4, FS_Surjection, FS_CardinalityType
<1>6. ~(1 .. Limit \subseteq used)
  BY <1>1, <1>2, <1>5, FS_Subset
<1> QED
  BY <1>1, <1>6

\* do_split: the upper part U, the hash it starts at and the block that one part moves to.
Parted(t, U, g, b, low) ==
    LET S == leaf[block[t]]
    IN  /\ U \in Uppers(S) /\ b \in Leaves \ used /\ g \in Nat /\ low \in BOOLEAN
        /\ used' = used \cup {b}
        /\ leaf' = [leaf EXCEPT ![block[t]] = IF low THEN S \ U ELSE U,
                                ![b] = IF low THEN U ELSE S \ U]
        /\ new' = [new EXCEPT ![t] = [hash |-> g, block |-> b, low |-> low]]
        /\ \A n \in S \ U : Hash[n] < g
        /\ \A n \in U : Even(g) <= Hash[n]
        /\ IF low THEN H(t) < g ELSE Even(g) <= H(t)
        /\ \E u \in U : Even(g) = Hash[u]

\* do_split parts the names of the leaf by their hash, or finds no space.
LEMMA SplitIs ==
  ASSUME Types, NEW t \in Threads, Split(t), op[t] # None, IndexOk(index), Len(index) < Limit,
         used = BlocksOf(index)
  PROVE  \/ answer' = Set(answer, t, "no_space") /\ pc' = Set(pc, t, "free")
              /\ then' = Set(then, t, "done")
            /\ UNCHANGED <<leaf, used, new>>
         \/ /\ \E U, g, b, low : Parted(t, U, g, b, low)
            /\ pc' = Set(pc, t, "notify") /\ UNCHANGED <<answer, then>>
<1> DEFINE S == leaf[block[t]]
           b == CHOOSE x \in Leaves \ used : TRUE
<1>1. CASE Finish(t, "no_space") /\ UNCHANGED <<leaf, used, new>>
  BY <1>1 DEF Finish, Goto, Set
<1>2. ASSUME NEW U \in Uppers(S),
             LET hash2 == Hash[CHOOSE u \in U : \A v \in U : Hash[u] <= Hash[v]]
                 continued == IF \E n \in S \ U : Hash[n] = hash2 THEN 1 ELSE 0
                 low == H(t) < hash2
            IN  /\ used' = used \cup {b}
                /\ leaf' = [leaf EXCEPT ![block[t]] = IF low THEN S \ U ELSE U,
                                        ![b] = IF low THEN U ELSE S \ U]
                /\ new' = Set(new, t, [hash |-> hash2 + continued, block |-> b, low |-> low])
                /\ Goto(t, "notify") /\ UNCHANGED <<answer, then>>
      PROVE  /\ \E W, g, c, low : Parted(t, W, g, c, low)
             /\ pc' = Set(pc, t, "notify") /\ UNCHANGED <<answer, then>>
  <2> DEFINE P(u) == \A v \in U : Hash[u] <= Hash[v]
             first == CHOOSE u \in U : P(u)
             hash2 == Hash[first]
             g == hash2 + (IF \E n \in S \ U : Hash[n] = hash2 THEN 1 ELSE 0)
             low == H(t) < hash2
  <2>1. /\ U \subseteq S /\ U # {} /\ \A u \in U, n \in S \ U : Hash[n] <= Hash[u]
        /\ S \subseteq Names
    BY DEF Types, Uppers
  <2>2. \A n \in S : Hash[n] \in Nat /\ Even(Hash[n]) = Hash[n] /\ Even(Hash[n] + 1) = Hash[n]
    BY <2>1, EvenIs
  <2>3. \E u \in U : P(u)
    <3>1. {Hash[u] : u \in U} \in SUBSET Nat /\ {Hash[u] : u \in U} # {}
      BY <2>1, <2>2
    <3>2. PICK k \in {Hash[u] : u \in U} : \A j \in {Hash[u] : u \in U} : k <= j
      BY <3>1, LeastOf
    <3> QED
      BY <3>2
  <2> HIDE DEF P
  <2>4. first \in U /\ P(first)
    BY <2>3
  <2>5. first = CHOOSE u \in U : \A v \in U : Hash[u] <= Hash[v]
    BY DEF P
  <2> HIDE DEF first
  <2>6. first \in U /\ hash2 \in Nat /\ hash2 = Hash[first] /\ Even(hash2) = hash2
        /\ Even(hash2 + 1) = hash2
        /\ \A v \in U : hash2 <= Hash[v]
    BY <2>1, <2>2, <2>4 DEF P
  <2>7. g \in Nat /\ Even(g) = hash2 /\ hash2 <= g
    BY <2>6
  <2>8. \A n \in S \ U : Hash[n] < g
    <3> TAKE n \in S \ U
    <3>1. Hash[n] <= hash2 /\ Hash[n] \in Nat
      BY <2>1, <2>2, <2>6
    <3> QED
      BY <2>6, <3>1
  <2>9. b \in Leaves \ used
    BY SomeFree
  <2>10. /\ used' = used \cup {b}
         /\ leaf' = [leaf EXCEPT ![block[t]] = IF low THEN S \ U ELSE U,
                                 ![b] = IF low THEN U ELSE S \ U]
         /\ new' = Set(new, t, [hash |-> g, block |-> b, low |-> low])
         /\ Goto(t, "notify") /\ UNCHANGED <<answer, then>>
    BY <1>2, <2>5
  <2>11. IF low THEN H(t) < g ELSE Even(g) <= H(t)
    <3>1. H(t) \in Nat
      BY OpIs
    <3> QED
      BY <2>6, <2>7, <3>1
  <2>12. low \in BOOLEAN
    OBVIOUS
  <2> HIDE DEF g, low, b, hash2
  <2>13. Parted(t, U, g, b, low)
    BY <2>1, <2>6, <2>7, <2>8, <2>9, <2>10, <2>11, <2>12 DEF Parted, Set
  <2> QED
    BY <2>10, <2>13 DEF Goto, Set
<1> QED
  BY <1>1, <1>2 DEF Split

\* Only one thread at a time changes the index, and nobody else relies on it then.
LEMMA OneChanges ==
  ASSUME Control, NEW t \in Threads, pc[t] \in Changing, NEW u \in Threads, u # t
  PROVE  ~DxLocked(u) /\ pc[u] \notin Changing /\ ~EX(u) /\ (EX(t) => pc[u] \in Away)
<1>1. /\ PlaceOk(t) /\ ModesOk(t) /\ KeysOk(t) /\ PlaceOk(u) /\ ModesOk(u) /\ KeysOk(u)
      /\ EX(t) => tree[u] = "NL"
      /\ EX(u) => tree[t] = "NL"
  BY DEF Control, Alone
<1>2. ~EX(u)
  BY <1>1 DEF PlaceOk, Away, Changing
<1>3. EX(t) => pc[u] \in Away /\ mode["DX"][u] = "INVAL"
  BY <1>1 DEF PlaceOk, ModesOk, LockTypes
<1>4. ~EX(t) => ~Holds(u, "DX")
  <2> SUFFICES ASSUME ~EX(t), Holds(u, "DX") PROVE FALSE
    OBVIOUS
  <2>1. mode["DX"][t] = "PW" /\ key["DX"][t] = Index /\ key["DX"][u] = Index /\ "DX" \in LockTypes
    BY <1>1 DEF ModesOk, KeysOk, Holds, Lock!Held, LockTypes
  <2> QED
    BY <2>1 DEF Control, Lock!Exclusive, Holds, Lock!Held
<1>5. ~DxLocked(u)
  BY <1>2, <1>3, <1>4 DEF DxLocked, Holds, Lock!Held
<1>6. pc[u] \notin Changing
  BY <1>1, <1>2, <1>5 DEF ModesOk, DxLocked, Holds, Lock!Held
<1> QED
  BY <1>2, <1>3, <1>5, <1>6

\* A thread that changes a leaf is alone with it.
LEMMA OneWrites ==
  ASSUME Control, NEW t \in Threads, pc[t] \in OnLeaf, op[t].kind # "lookup",
         NEW u \in Threads, u # t, pc[u] \in OnLeaf
  PROVE  block[u] # block[t]
<1>1. /\ PlaceOk(t) /\ ModesOk(t) /\ KeysOk(t) /\ PlaceOk(u) /\ ModesOk(u) /\ KeysOk(u)
      /\ EX(t) => tree[u] = "NL"
      /\ EX(u) => tree[t] = "NL"
  BY DEF Control, Alone
<1>2. ~EX(t) /\ ~EX(u)
  BY <1>1 DEF PlaceOk, Away, OnLeaf, Changing
<1>3. /\ mode["DE"][t] = "PW" /\ key["DE"][t] = block[t] /\ mode["DE"][u] \in {"PR", "PW"}
      /\ key["DE"][u] = block[u] /\ "DE" \in LockTypes
  BY <1>1, <1>2 DEF ModesOk, KeysOk, DeMode, LockTypes
<1> QED
  BY <1>3 DEF Control, Lock!Exclusive, Lock!Held

\* When a leaf is about to be split, every block is in the index.
LEMMA AllIndexed ==
  ASSUME Control, LeavesOk, NEW t \in Threads, pc[t] \in Changing \ Moved
  PROVE  used = BlocksOf(index)
<1>1. \A u \in Threads : pc[u] \notin Moved
  BY OneChanges DEF Moved, Changing
<1> QED
  BY <1>1 DEF LeavesOk

-----------------------------------------------------------------------------
\* Every step keeps the types.
LEMMA TypesStep ==
  ASSUME Inv, NEW t \in Threads, (Continue(t) /\ UNCHANGED left) \/ Call(t)
  PROVE  Types'
<1>1. /\ Types /\ Lock!Exclusive /\ PlaceOk(t) /\ IndexOk(index) /\ LeavesOk /\ SplitOk(t)
           /\ FoundOk(t)
  BY DEF Inv, Control, Data
<1>2. at[t] \in DOMAIN index \/ pc[t] # "notify"
  <2>1. at[t] \in Nat \ {0} /\ Len(index) \in Nat /\ DOMAIN index = 1 .. Len(index)
    BY <1>1 DEF Types, IndexOk
  <2> QED
    BY <1>1, <2>1 DEF SplitOk, AtOk
<1>3. LockRows'
  BY <1>1, <1>2, LocksStep
<1>4. \/ /\ op[t] # None /\ Len(index) \in Nat /\ Covering(H(t)) \in Nat \ {0}
         /\ index[Covering(H(t))].block \in Leaves
      \/ pc[t] # "search"
  BY <1>1, CoveringIs DEF PlaceOk
<1>5. at[t] \in Nat \ {0} /\ (at[t] < Len(index) => index[at[t] + 1].block \in Leaves)
      /\ block[t] \in Leaves
  <2>1. at[t] \in Nat \ {0} /\ Len(index) \in Nat /\ DOMAIN index = 1 .. Len(index)
        /\ block[t] \in Leaves
    BY <1>1 DEF Types, IndexOk
  <2>2. at[t] < Len(index) => at[t] + 1 \in DOMAIN index
    BY <2>1
  <2> QED
    BY <1>1, <2>1, <2>2, EntryIs
<1>6. ~Split(t) \/ UNCHANGED <<leaf, used, new>> \/ \E U, g, b, low : Parted(t, U, g, b, low)
  <2>1. pc[t] = "split" => op[t] # None /\ Len(index) < Limit /\ used = BlocksOf(index)
    <3>1. pc[t] = "split" => pc[t] \in Changing \ Moved
      BY DEF Changing, Moved
    <3> QED
      BY <1>1, <3>1, AllIndexed DEF Inv, PlaceOk, SplitOk
  <2>2. Split(t) => pc[t] = "split"
    BY DEF Split
  <2> QED
    BY <1>1, <2>1, <2>2, SplitIs
<1>7. 1 \in Leaves
  BY DirAssumption
<1> USE
   DEF Continue, Call, LockTree, Relock, Probe, AtLeaf, Splitting, Release, Released, LockDx,
       LockSpin, Search, LockDe, StopListen, Found, NotHere, AddHere, IndexFull, NeedSplit,
       TryDx, Recount, Notify, Insert, AddAfterSplit, Leave, Set, Goto, Free, Finish, Forget,
       local
<1>8. pc' \in [Threads -> Places]
  <2>1. pc \in [Threads -> Places] /\ then[t] \in {"done", "again", "relock"}
    BY <1>1 DEF Types
  <2> QED
    BY <2>1 DEF Places, Away, Changing, Split
<1>9. tree' \in [Threads -> {"NL", "shared", "EX"}]
  <2>1. tree \in [Threads -> {"NL", "shared", "EX"}]
    BY <1>1 DEF Types
  <2> QED
    BY <2>1 DEF Split
<1>10. op' \in [Threads -> Operations \cup {None}]
  <2>1. op \in [Threads -> Operations \cup {None}]
    BY <1>1 DEF Types
  <2>2. CASE Call(t)
    <3>1. PICK k \in Kinds, n \in Names : op' = [op EXCEPT ![t] = [kind |-> k, name |-> n]]
      BY <2>2
    <3>2. [kind |-> k, name |-> n] \in Operations
      BY DEF Operations
    <3> QED
      BY <2>1, <3>1, <3>2
  <2>3. CASE op' = op \/ op' = [op EXCEPT ![t] = None]
    BY <2>1, <2>3
  <2> QED
    BY <2>2, <2>3 DEF Split
<1>11. answer' \in [Threads -> {None, "found", "not_found", "done", "no_space"}]
  <2>1. answer \in [Threads -> {None, "found", "not_found", "done", "no_space"}]
    BY <1>1 DEF Types
  <2> QED
    BY <2>1 DEF Split
<1>12. left' \in [Threads -> Nat]
  <2>1. left \in [Threads -> Nat]
    BY <1>1 DEF Types
  <2>2. CASE Call(t)
    <3>1. left' = [left EXCEPT ![t] = left[t] - 1] /\ left[t] > 0
      BY <2>2
    <3>2. left[t] \in Nat /\ left[t] - 1 \in Nat
      BY <2>1, <3>1
    <3> QED
      BY <2>1, <3>1, <3>2
  <2> QED
    BY <2>1, <2>2
<1>13. safe' \in [Threads -> BOOLEAN]
  <2>1. safe \in [Threads -> BOOLEAN]
    BY <1>1 DEF Types
  <2> QED
    BY <2>1 DEF Split
<1>14. changed' \in [Threads -> BOOLEAN]
  <2>1. changed \in [Threads -> BOOLEAN]
    BY <1>1 DEF Types
  <2>2. "DX" \in LockTypes /\ "SPIN" \in LockTypes
    BY DEF LockTypes
  <2>3. CASE LockDx(t) \/ LockSpin(t) \/ TryDx(t)
    BY <1>1, <2>1, <2>2, <2>3, NodeLockIs
  <2>4. CASE LockDe(t)
    BY <1>1, <2>4, DeLocked DEF Locked
  <2>5. CASE Notify(t)
    <3>1. index[at[t]].block \in Leaves
      BY <1>1, <1>2, <2>5, EntryIs
    <3> QED
      BY <1>1, <2>5, <3>1, SpinLocked DEF Locked
  <2>6. CASE changed' = changed \/ changed' = [changed EXCEPT ![t] = FALSE]
    BY <2>1, <2>6
  <2> QED
    BY <2>3, <2>4, <2>5, <2>6 DEF Split
<1>15. then' \in [Threads -> {"done", "again", "relock"}]
  <2>1. then \in [Threads -> {"done", "again", "relock"}]
    BY <1>1 DEF Types
  <2> QED
    BY <2>1 DEF Split
<1>16. block' \in [Threads -> Leaves]
  <2>1. block \in [Threads -> Leaves]
    BY <1>1 DEF Types
  <2> QED
    BY <1>4, <1>5, <1>7, <2>1 DEF Split, Continues
<1>17. at' \in [Threads -> Nat \ {0}]
  <2>1. at \in [Threads -> Nat \ {0}]
    BY <1>1 DEF Types
  <2>2. CASE \E i \in Nat \ {0} : at' = [at EXCEPT ![t] = i]
    BY <2>1, <2>2
  <2>3. CASE at' = at
    BY <2>1, <2>3
  <2>4. at[t] + 1 \in Nat \ {0} /\ 1 \in Nat \ {0}
    BY <1>5
  <2> QED
    BY <1>4, <2>2, <2>3, <2>4 DEF Split
<1>18. count' \in [Threads -> Nat]
  <2>1. count \in [Threads -> Nat]
    BY <1>1 DEF Types
  <2>2. CASE \E i \in Nat : count' = [count EXCEPT ![t] = i]
    BY <2>1, <2>2
  <2>3. CASE count' = count
    BY <2>1, <2>3
  <2> QED
    BY <1>4, <2>2, <2>3 DEF Split
<1>19. new' \in [Threads -> {None} \cup [hash : Nat, block : Leaves, low : BOOLEAN]]
  <2> DEFINE R == [hash : Nat, block : Leaves, low : BOOLEAN]
  <2>1. new \in [Threads -> {None} \cup R]
    BY <1>1 DEF Types
  <2>2. CASE \E U, g, b, low : Parted(t, U, g, b, low)
    <3>1. PICK U, g, b, low : Parted(t, U, g, b, low)
      BY <2>2
    <3>2. [hash |-> g, block |-> b, low |-> low] \in R
      BY <3>1 DEF Parted
    <3>3. PICK e \in R : new' = [new EXCEPT ![t] = e]
      BY <3>1, <3>2 DEF Parted
    <3> QED
      BY <2>1, <3>3
  <2>3. CASE new' = new \/ new' = [new EXCEPT ![t] = None]
    BY <2>1, <2>3
  <2> QED
    BY <1>6, <2>2, <2>3
<1>20. leaf' \in [Leaves -> SUBSET Names] /\ used' \subseteq Leaves
  <2>1. leaf \in [Leaves -> SUBSET Names] /\ used \subseteq Leaves
    BY <1>1 DEF Types
  <2>2. CASE \E U, g, b, low : Parted(t, U, g, b, low)
    BY <1>5, <2>1, <2>2 DEF Parted, Uppers
  <2>3. CASE UNCHANGED <<leaf, used>>
    BY <2>1, <2>3
  <2>4. CASE Found(t)
    BY <1>5, <2>1, <2>4
  <2>5. CASE AddHere(t) \/ AddAfterSplit(t)
    <3>1. op[t].name \in Names
      BY <1>1, <2>5, OpIs DEF PlaceOk
    <3>2. leaf' = [leaf EXCEPT ![block[t]] = leaf[block[t]] \cup {op[t].name}] /\ used' = used
      BY <2>5 DEF dataVars
    <3>3. leaf[block[t]] \cup {op[t].name} \in SUBSET Names
      BY <1>5, <2>1, <3>1
    <3> QED
      BY <2>1, <3>2, <3>3
  <2> QED
    BY <1>6, <2>2, <2>3, <2>4, <2>5 DEF dataVars
<1> QED
  BY <1>3, <1>8, <1>9, <1>10, <1>11, <1>12, <1>13, <1>14, <1>15, <1>16, <1>17, <1>18, <1>19,
     <1>20
     DEF Types

\* A step of t changes nothing of another thread but, perhaps, changed.
LEMMA StillStep ==
  ASSUME Types, NEW t \in Threads, Continue(t) \/ Call(t), NEW u \in Threads, u # t
  PROVE  /\ tree'[u] = tree[u] /\ pc'[u] = pc[u] /\ op'[u] = op[u] /\ answer'[u] = answer[u]
         /\ safe'[u] = safe[u] /\ at'[u] = at[u] /\ block'[u] = block[u]
         /\ count'[u] = count[u] /\ new'[u] = new[u] /\ then'[u] = then[u]
<1> USE
   DEF Continue, Call, LockTree, Relock, Probe, AtLeaf, Splitting, Release, Released, LockDx,
       LockSpin, Search, LockDe, StopListen, Found, NotHere, AddHere, IndexFull, NeedSplit,
       TryDx, Recount, Split, Notify, Insert, AddAfterSplit, Leave, Set
<1>1. pc'[u] = pc[u]
  <2>1. DOMAIN pc = Threads
    BY DEF Types
  <2> QED
    BY <2>1 DEF Goto, Free, Finish
<1>2. tree'[u] = tree[u]
  <2>1. DOMAIN tree = Threads
    BY DEF Types
  <2> QED
    BY <2>1
<1>3. op'[u] = op[u]
  <2>1. DOMAIN op = Threads
    BY DEF Types
  <2> QED
    BY <2>1
<1>4. answer'[u] = answer[u]
  <2>1. DOMAIN answer = Threads
    BY DEF Types
  <2> QED
    BY <2>1 DEF Finish
<1>5. safe'[u] = safe[u]
  <2>1. DOMAIN safe = Threads
    BY DEF Types
  <2> QED
    BY <2>1 DEF local
<1>6. at'[u] = at[u]
  <2>1. DOMAIN at = Threads
    BY DEF Types
  <2> QED
    BY <2>1 DEF local, Forget
<1>7. block'[u] = block[u]
  <2>1. DOMAIN block = Threads
    BY DEF Types
  <2> QED
    BY <2>1 DEF local, Forget
<1>8. count'[u] = count[u]
  <2>1. DOMAIN count = Threads
    BY DEF Types
  <2> QED
    BY <2>1 DEF local, Forget
<1>9. new'[u] = new[u]
  <2>1. DOMAIN new = Threads
    BY DEF Types
  <2> QED
    BY <2>1 DEF local, Forget
<1>10. then'[u] = then[u]
  <2>1. DOMAIN then = Threads
    BY DEF Types
  <2> QED
    BY <2>1 DEF local, Finish, Free
<1> QED
  BY <1>1, <1>2, <1>3, <1>4, <1>5, <1>6, <1>7, <1>8, <1>9, <1>10

\* A thread has an operation, the tree lock and an answer when its place says so.
LEMMA PlaceStep ==
  ASSUME Types, NEW t \in Threads, PlaceOk(t), Continue(t) \/ Call(t)
  PROVE  PlaceOk(t)'
<1>1. DOMAIN pc = Threads /\ DOMAIN op = Threads /\ DOMAIN answer = Threads
      /\ DOMAIN tree = Threads /\ DOMAIN then = Threads
  BY DEF Types
<1>2. op[t] \in Operations \cup {None}
      /\ answer[t] \in {None, "found", "not_found", "done", "no_space"}
      /\ then[t] \in {"done", "again", "relock"} /\ tree[t] \in {"NL", "shared", "EX"}
  BY DEF Types
<1>3. None \notin {"found", "not_found", "done", "no_space"} /\ None \notin Operations
  BY DirAssumption DEF Operations
<1> USE
   DEF Continue, Call, LockTree, Relock, Probe, AtLeaf, Splitting, Release, Released, LockDx,
       LockSpin, Search, LockDe, StopListen, Found, NotHere, AddHere, IndexFull, NeedSplit,
       TryDx, Recount, Split, Notify, Insert, AddAfterSplit, Leave, Set, Goto, Free, Finish, EX,
       DxLocked, Away, Changing, PlaceOk, local, Full
<1>4. (op[t] = None <=> pc[t] = "idle")'
  <2>1. CASE Call(t)
    <3>1. PICK k \in Kinds, n \in Names : op'[t] = [kind |-> k, name |-> n] /\ pc'[t] = "lock"
      BY <1>1, <2>1
    <3>2. op'[t] \in Operations
      BY <3>1 DEF Operations
    <3> QED
      BY <1>3, <3>1, <3>2
  <2>2. CASE Released(t)
    BY <1>1, <1>2, <2>2
  <2>3. CASE Continue(t) /\ ~Released(t)
    <3>1. op' = op
      BY <2>3
    <3>2. pc[t] # "idle" /\ pc'[t] # "idle"
      BY <1>1, <2>3
    <3> QED
      BY <3>1, <3>2
  <2> QED
    BY <2>1, <2>2, <2>3
<1>5. (tree[t] = "NL" <=> pc[t] \in Away)'
  BY <1>1, <1>2
<1>6. (EX(t) => pc[t] \notin {"de", "listen", "try", "recount"})'
  BY <1>1, <1>2
<1>7. (pc[t] \in {"try"} \cup Changing => op[t].kind = "add")'
  BY <1>1, <1>2
<1>8. (pc[t] # "free" => then[t] = "done")'
  BY <1>1, <1>2
<1>9. (answer[t] # None <=> pc[t] = "free" /\ then[t] = "done")'
  <2>1. CASE Released(t)
    BY <1>1, <1>2, <2>1
  <2>2. CASE answer' = answer /\ ~Released(t)
    <3>1. pc[t] # "free" => ~(pc'[t] = "free" /\ then'[t] = "done")
      BY <1>1, <1>2, <2>2, <1>3
    <3>2. pc[t] = "free" => pc'[t] = "free" /\ then' = then
      BY <1>1, <2>2
    <3> QED
      BY <2>2, <3>1, <3>2
  <2>3. CASE \E r \in {"found", "not_found", "done", "no_space"} : Finish(t, r)
    BY <1>1, <1>3, <2>3
  <2> QED
    BY <2>1, <2>2, <2>3
<1> QED BY <1>4, <1>5, <1>6, <1>7, <1>8, <1>9

\* Every step keeps Control.
LEMMA ControlStep ==
  ASSUME Inv, NEW t \in Threads, (Continue(t) /\ UNCHANGED left) \/ Call(t)
  PROVE  Control' /\ Still(t) /\ Types'
<1>1. /\ Types /\ Lock!Exclusive /\ PlaceOk(t) /\ ModesOk(t) /\ KeysOk(t) /\ IndexOk(index)
           /\ SplitOk(t)
  BY DEF Inv, Control, Data
<1>2. pc[t] = "notify" => at[t] \in DOMAIN index /\ index[at[t]].block \in Leaves
  <2>1. at[t] \in Nat \ {0} /\ Len(index) \in Nat /\ DOMAIN index = 1 .. Len(index)
    BY <1>1 DEF Types, IndexOk
  <2>2. pc[t] = "notify" => at[t] \in DOMAIN index
    BY <1>1, <2>1 DEF SplitOk, AtOk
  <2> QED
    BY <1>1, <2>2, EntryIs
<1>3. LockRows' /\ Lock!Exclusive' /\ OthersRows(t)
  BY <1>1, <1>2, LocksStep
<1>4. Types'
  BY TypesStep
<1>5. Still(t)
  BY <1>1, <1>3, StillStep DEF Still
<1>6. PlaceOk(t)'
  BY <1>1, PlaceStep
<1>7. ModesOk(t)' /\ KeysOk(t)'
  <2>1. CASE Call(t)
    BY <1>1, <2>1, CallModes
  <2>2. CASE LockTree(t)
    BY <1>1, <2>2, LockTreeModes
  <2>3. CASE Relock(t)
    BY <1>1, <2>3, RelockModes
  <2>4. CASE LockDx(t)
    BY <1>1, <2>4, LockDxModes
  <2>5. CASE LockSpin(t)
    BY <1>1, <2>5, LockSpinModes
  <2>6. CASE Search(t)
    BY <1>1, <2>6, SearchModes
  <2>7. CASE LockDe(t)
    BY <1>1, <2>7, LockDeModes
  <2>8. CASE StopListen(t)
    BY <1>1, <2>8, StopListenModes
  <2>9. CASE Found(t)
    BY <1>1, <2>9, FoundModes
  <2>10. CASE NotHere(t)
    BY <1>1, <2>10, NotHereModes
  <2>11. CASE AddHere(t)
    BY <1>1, <2>11, AddHereModes
  <2>12. CASE IndexFull(t)
    BY <1>1, <2>12, IndexFullModes
  <2>13. CASE NeedSplit(t)
    BY <1>1, <2>13, NeedSplitModes
  <2>14. CASE TryDx(t)
    BY <1>1, <2>14, TryDxModes
  <2>15. CASE Recount(t)
    BY <1>1, <2>15, RecountModes
  <2>16. CASE Split(t)
    BY <1>1, <2>16, SplitModes
  <2>17. CASE Notify(t)
    BY <1>1, <1>2, <2>17, NotifyModes DEF Notify
  <2>18. CASE Insert(t)
    BY <1>1, <2>18, InsertModes
  <2>19. CASE AddAfterSplit(t)
    BY <1>1, <2>19, AddAfterSplitModes
  <2>20. CASE Release(t)
    BY <1>1, <2>20, ReleaseModes
  <2>21. CASE Released(t)
    BY <1>1, <2>21, ReleasedModes
  <2> QED
    BY <2>1, <2>2, <2>3, <2>4, <2>5, <2>6, <2>7, <2>8, <2>9, <2>10, <2>11, <2>12, <2>13, <2>14,
       <2>15, <2>16, <2>17, <2>18, <2>19, <2>20, <2>21
       DEF Continue, Probe, AtLeaf, Splitting
<1>8. tree'[t] # tree[t] /\ tree'[t] # "NL" =>
            \A u \in Threads : u # t => tree[u] # "EX" /\ (tree'[t] = "EX" => tree[u] = "NL")
  <2>1. tree' = tree \/ LockTree(t) \/ Relock(t) \/ tree' = [tree EXCEPT ![t] = "NL"]
    BY
       DEF Continue, Call, LockTree, Relock, Probe, AtLeaf, Splitting, Release, Released,
           LockDx, LockSpin, Search, LockDe, StopListen, Found, NotHere, AddHere, IndexFull,
           NeedSplit, TryDx, Recount, Split, Notify, Insert, AddAfterSplit, Leave, Set
  <2>2. tree \in [Threads -> {"NL", "shared", "EX"}]
    BY <1>1 DEF Types
  <2> QED
    BY <2>1, <2>2 DEF LockTree, Relock, Set, EX
<1>9. op'[t] # op[t] /\ op'[t] # None =>
            \A u \in Threads : op[u] # None => op[u].name # op'[t].name
  <2>1. op' = op \/ Call(t) \/ op' = [op EXCEPT ![t] = None]
    BY
       DEF Continue, Call, LockTree, Relock, Probe, AtLeaf, Splitting, Release, Released,
           LockDx, LockSpin, Search, LockDe, StopListen, Found, NotHere, AddHere, IndexFull,
           NeedSplit, TryDx, Recount, Split, Notify, Insert, AddAfterSplit, Leave, Set
  <2>2. DOMAIN op = Threads
    BY <1>1 DEF Types
  <2>3. CASE Call(t)
    <3>1. PICK k \in Kinds, n \in Names : op'[t] = [kind |-> k, name |-> n]
                 /\ \A u \in Threads : op[u] # None => op[u].name # n
      BY <2>2, <2>3 DEF Call, Set
    <3> QED
      BY <3>1
  <2> QED
    BY <2>1, <2>2, <2>3
<1> QED
  BY <1>3, <1>4, <1>5, <1>6, <1>7, <1>8, <1>9, ControlKept DEF Inv

-----------------------------------------------------------------------------
(***************************************************************************)
(* What a thread knows of the index, its leaf and its split.               *)
(***************************************************************************)
\* Another thread's view, as far as only its own variables are concerned.
Same(u) ==
    /\ tree'[u] = tree[u] /\ pc'[u] = pc[u] /\ op'[u] = op[u] /\ answer'[u] = answer[u]
    /\ at'[u] = at[u] /\ block'[u] = block[u] /\ count'[u] = count[u] /\ new'[u] = new[u]
    /\ DxLocked(u)' = DxLocked(u) /\ H(u)' = H(u)

\* What a step of t leaves to u.
LEMMA OthersSame ==
  ASSUME NEW t \in Threads, Still(t), NEW u \in Threads, u # t
  PROVE  Same(u)
<1>1. /\ tree'[u] = tree[u] /\ pc'[u] = pc[u] /\ op'[u] = op[u] /\ answer'[u] = answer[u]
      /\ at'[u] = at[u] /\ block'[u] = block[u] /\ count'[u] = count[u] /\ new'[u] = new[u]
      /\ mode'["DX"][u] = mode["DX"][u]
  BY DEF Still, OthersRows, LockTypes
<1> QED
  BY <1>1 DEF Same, DxLocked, EX, Holds, Lock!Held, H

\* A step that leaves the index and the leaves alone.
LEMMA SameData ==
  ASSUME NEW u \in Threads, Same(u), UNCHANGED <<index, leaf>>,
         Warned(u) => Warned(u)', FoundOk(u), SplitOk(u)
  PROVE  FoundOk(u)' /\ SplitOk(u)'
<1>1. AtOk(u)' = AtOk(u)
  BY DEF AtOk, Same, Fits
<1>2. FoundOk(u)'
  BY <1>1 DEF FoundOk, Same, Fits, Leads
<1>3. SplitOk(u)'
  BY <1>1 DEF SplitOk, Same, Fits, Leads, BlocksOf
<1> QED
  BY <1>2, <1>3

\* changed is only set for others, and reset by a search.
LEMMA StaysWarned ==
  ASSUME Inv, NEW t \in Threads, Continue(t) \/ Call(t), NEW u \in Threads, u # t, changed[u]
  PROVE  changed'[u]
<1>1. Types /\ Lock!Exclusive /\ "DX" \in LockTypes /\ "SPIN" \in LockTypes
  BY DEF Inv, Control, LockTypes
<1>2. CASE LockDx(t) \/ LockSpin(t) \/ TryDx(t)
  <2>1. changed' = changed \/ NodeLock(t, "DX", Index, None) \/ NodeLock(t, "SPIN", Index, None)
    BY <1>2 DEF LockDx, LockSpin, TryDx
  <2> QED
    BY <1>1, <2>1, NodeLockIs
<1>3. CASE LockDe(t)
  BY <1>1, <1>3, DeLocked DEF Locked
<1>4. CASE Notify(t)
  <2>1. changed' = changed \/ changed' = [v \in Threads |->
          changed[v] \/ (index[at[t]].block # None /\ mode["SPIN"][v] = "NL"
          /\ block[v] = index[at[t]].block)]
    BY <1>4 DEF Notify, NodeLock
  <2> QED
    BY <2>1, Zenon
<1>5. CASE changed' = changed \/ changed' = [changed EXCEPT ![t] = FALSE]
  <2>1. DOMAIN changed = Threads
    BY <1>1 DEF Types
  <2> QED
    BY <1>5, <2>1
<1> QED
  BY <1>2, <1>3, <1>4, <1>5
     DEF Continue, Call, LockTree, Relock, Probe, AtLeaf, Splitting, Release, Released, Search,
         StopListen, Found, NotHere, AddHere, IndexFull, NeedSplit, Recount, Split, Insert,
         AddAfterSplit, Leave, Set, Forget, local

\* A step that changes neither index nor leaves takes nothing from another thread.
LEMMA OthersFound ==
  ASSUME Inv, NEW t \in Threads, Continue(t) \/ Call(t), Still(t), UNCHANGED <<index, leaf>>,
         NEW u \in Threads, u # t
  PROVE  FoundOk(u)' /\ SplitOk(u)'
<1>1. Same(u)
  BY OthersSame
<1>2. Warned(u) => Warned(u)'
  BY <1>1, StaysWarned DEF Warned, Same
<1> QED
  BY <1>1, <1>2, SameData DEF Inv, Data

-----------------------------------------------------------------------------
\* An event reaches whoever may still come to the leaf that is split.
LEMMA ToldStep ==
  ASSUME Inv, Control', NEW t \in Threads, Continue(t) \/ Call(t), Still(t)
  PROVE  Told'
<1> SUFFICES ASSUME NEW u \in Threads, NEW v \in Threads, u # v,
                    pc'[u] = "insert", pc'[v] \in {"de", "listen"}, block'[v] = block'[u]
             PROVE  changed'[v]
  BY DEF Told
<1>1. /\ Types /\ Lock!Exclusive /\ Told
      /\ \A w \in Threads : PlaceOk(w) /\ ModesOk(w) /\ KeysOk(w) /\ SplitOk(w)
  BY DEF Inv, Control, Data
<1>2. \A w \in Threads : w # t => pc'[w] = pc[w] /\ block'[w] = block[w]
  BY DEF Still
<1>3. CASE u # t /\ v # t
  BY <1>1, <1>2, <1>3, StaysWarned DEF Told
<1>4. CASE u # t /\ v = t
  <2>1. pc[u] = "insert" /\ block'[u] = block[u] /\ "insert" \in Changing /\ t # u
    BY <1>2, <1>4 DEF Changing
  <2>2. ~DxLocked(t) /\ ~EX(t) /\ (EX(u) => pc[t] \in Away)
    BY <2>1, OneChanges DEF Inv
  <2>3. ~Search(t)
    <3> SUFFICES ASSUME Search(t) PROVE FALSE
      OBVIOUS
    <3>1. pc[t] = "search"
      BY DEF Search
    <3>2. ~EX(u)
      BY <2>2, <3>1 DEF Away
    <3>3. mode["SPIN"][u] = "PW" /\ key["SPIN"][u] = Index
      BY <1>1, <2>1, <3>2 DEF ModesOk, SpinMode, KeysOk, LockTypes
    <3>4. ~safe[t]
      BY <1>1, <2>2, <3>1 DEF ModesOk, DxMode, DxLocked, Holds, Lock!Held
    <3>5. mode["SPIN"][t] = "PR" /\ key["SPIN"][t] = Index
      BY <1>1, <2>2, <3>1, <3>4 DEF ModesOk, SpinMode, KeysOk, LockTypes
    <3> QED
      BY <1>1, <2>1, <3>3, <3>5 DEF Lock!Exclusive, Lock!Held, LockTypes
  <2>4. ~(NotHere(t) /\ pc'[t] \in {"de", "listen"})
    BY <1>1, <2>2 DEF NotHere, Continues, Finish, Goto, Types
  <2>5. LockDe(t)
    BY <1>1, <1>4, <2>3, <2>4
       DEF Continue, Call, LockTree, Relock, Probe, AtLeaf, Splitting, Release, Released,
           LockDx, LockSpin, StopListen, Found, AddHere, IndexFull, NeedSplit, TryDx, Recount,
           Split, Notify, Insert, AddAfterSplit, Leave, Goto, Free, Finish, Types
  <2>6. changed'[t] <=> changed[t]
    BY <1>1, <2>5, DeLocked DEF Locked
  <2>7. pc[t] = "de" /\ block'[t] = block[t]
    BY <2>5 DEF LockDe, local
  <2> QED
    BY <1>1, <1>4, <2>1, <2>6, <2>7 DEF Told
<1>5. CASE u = t /\ v # t
  <2>1. Notify(t)
    BY <1>1, <1>5
       DEF Continue, Call, LockTree, Relock, Probe, AtLeaf, Splitting, Release, Released,
           LockDx, LockSpin, Search, LockDe, StopListen, Found, NotHere, AddHere, IndexFull,
           NeedSplit, TryDx, Recount, Split, Insert, AddAfterSplit, Leave, Goto, Free, Finish,
           Types
  <2>2. /\ pc[t] = "notify" /\ block'[t] = block[t] /\ "notify" \in Changing
        /\ index[at[t]].block = block[t] /\ block[t] \in Leaves
    BY <1>1, <2>1 DEF Notify, local, SplitOk, AtOk, Changing, Types
  <2>3. pc[v] \in {"de", "listen"} /\ block[v] = block[t]
    BY <1>2, <1>5, <2>2
  <2>4. ~DxLocked(v) /\ ~EX(v) /\ ~EX(t)
    BY <1>5, <2>2, <2>3, OneChanges DEF Inv, Away
  <2>5. mode["SPIN"][v] = "NL"
    BY <1>1, <2>3, <2>4 DEF ModesOk, SpinMode, DxMode, DxLocked, Holds, Lock!Held
  <2>6. Wanted(t, "SPIN") = "PW"
    BY <1>1, <2>2, <2>4 DEF Wanted, PlaceOk, ModesOk
  <2>7. "PW" # None /\ block[t] # None
    BY <2>2, DirAssumption
  <2>8. changed'[v] <=> changed[v]
        \/ (index[at[t]].block # None /\ mode["SPIN"][v] = "NL" /\ block[v] = index[at[t]].block)
    BY <1>1, <2>1, <2>2, <2>6, <2>7, SpinLocked DEF Locked
  <2> QED
    BY <2>2, <2>3, <2>5, <2>7, <2>8
<1> QED
  BY <1>3, <1>4, <1>5

-----------------------------------------------------------------------------
\* Places where a thread relies on nothing.
Careless == {"idle", "lock", "relock", "dx", "spin", "search", "free"}

\* Nothing is to be known at those places,
LEMMA CarelessOk ==
  ASSUME NEW t \in Threads, pc[t] \in Careless
  PROVE  FoundOk(t) /\ SplitOk(t)
BY DEF Careless, FoundOk, SplitOk, FoundPlaces, Moved

\* nor when a step comes to one of them.
LEMMA CarelessNext ==
  ASSUME NEW t \in Threads, pc'[t] \in Careless
  PROVE  FoundOk(t)' /\ SplitOk(t)'
BY DEF Careless, FoundOk, SplitOk, FoundPlaces, Moved

\* After a search the leaf is one that the hash leads to, and without DX the only one.
LEMMA SearchFound ==
  ASSUME Inv, Control', NEW t \in Threads, Search(t)
  PROVE  FoundOk(t)' /\ SplitOk(t)'
<1>1. /\ Types /\ IndexOk(index) /\ PlaceOk(t) /\ ModesOk(t) /\ op[t] # None
           /\ pc[t] = "search" /\ op' = op
      /\ index' = index /\ leaf' = leaf
  BY DEF Inv, Control, Data, PlaceOk, Search, dataVars
<1>2. /\ op[t].name \in Names /\ H(t) = Hash[op[t].name] /\ H(t) \in Nat /\ H(t)' = H(t)
  BY <1>1, OpIs DEF H
<1>3. PICK i \in 1 .. Len(index) : i = Covering(H(t)) /\ Fits(index, i, H(t))
           /\ i \in Nat \ {0} /\ Len(index) \in Nat
  BY <1>1, CoveringIs
<1>4. DOMAIN index = 1 .. Len(index)
  BY <1>1 DEF IndexOk
<1>5. CASE pc'[t] = "dx"
  BY <1>5, CarelessNext DEF Careless
<1>6. CASE pc'[t] # "dx"
  <2>1. /\ at'[t] = i /\ block'[t] = index[i].block /\ pc'[t] \in {"leaf", "de"}
        /\ ~DxLocked(t) => count'[t] = Len(index) /\ ~Collision(t, i)
    BY <1>1, <1>3, <1>6 DEF Search, Types, Set, Goto
  <2>2. AtOk(t)'
    BY <1>1, <1>2, <1>3, <2>1 DEF AtOk, Fits
  <2>3. DxLocked(t)' = DxLocked(t)
    <3>1. tree' = tree /\ "SPIN" \in LockTypes /\ "DX" \in LockTypes \ {"SPIN"} /\ Lock!Exclusive
      BY DEF Search, LockTypes, Inv, Control
    <3>2. PICK listen \in BOOLEAN : NodeUnlock(t, "SPIN", listen)
      BY DEF Search
    <3>3. mode'["DX"][t] = mode["DX"][t]
      BY <1>1, <3>1, <3>2, NodeUnlockIs DEF Kept, Row
    <3> QED
      BY <3>1, <3>3 DEF DxLocked, EX, Holds, Lock!Held
  <2>4. \A j \in 1 .. i - 1 : ~Fits(index, j, H(t))
    BY <1>1, <1>2, <1>3, SearchFits
  <2>5. Leads(index, index[i].block, H(t))
    BY <1>3, <1>4 DEF Leads
  <2>6. ~DxLocked(t) /\ op[t].kind # "add" => \A b : Leads(index, b, H(t)) => b = index[i].block
    <3> SUFFICES ASSUME ~DxLocked(t), op[t].kind # "add", NEW j \in DOMAIN index,
    Fits(index, j, H(t))
                 PROVE  j = i
      BY DEF Leads
    <3>1. ~(i < Len(index) /\ Even(index[i + 1].hash) = Hash[op[t].name])
      BY <1>2, <2>1 DEF Collision
    <3> QED
      BY <1>1, <1>2, <1>3, <3>1, SearchFits
  <2>7. FoundOk(t)'
    <3>1. /\ Len(index)' = Len(index) /\ H(t)' = H(t) /\ op'[t] = op[t]
          /\ Leads(index, block[t], H(t))'
          /\ ~DxLocked(t)' => count'[t] = Len(index)
      BY <1>1, <1>2, <2>1, <2>3, <2>5 DEF Fits, Leads
    <3>2. \A j \in 1 .. at'[t] - 1 : ~Fits(index, j, H(t))'
      BY <1>1, <1>2, <2>1, <2>4 DEF Fits
    <3>3. ~DxLocked(t)' /\ op'[t].kind # "add" => \A b \in Leaves : Leads(index, b, H(t))'
          => b = block'[t]
      BY <1>1, <1>2, <2>1, <2>3, <2>6 DEF Fits, Leads
    <3> QED
      BY <1>3, <2>1, <2>2, <3>1, <3>2, <3>3 DEF FoundOk, FoundPlaces
  <2>8. SplitOk(t)'
    BY <2>1 DEF SplitOk, Moved
  <2> QED
    BY <2>7, <2>8
<1> QED
  BY <1>5, <1>6

\* A leaf that is locked without having been warned of a split is still right.
LEMMA LockDeFound ==
  ASSUME Inv, Control', NEW t \in Threads, LockDe(t)
  PROVE  FoundOk(t)' /\ SplitOk(t)'
<1>1. /\ Types /\ Lock!Exclusive /\ PlaceOk(t) /\ ModesOk(t) /\ FoundOk(t) /\ pc[t] = "de"
      /\ index' = index /\ leaf' = leaf /\ op' = op /\ at' = at /\ block' = block
           /\ count' = count /\ tree' = tree
  BY DEF Inv, Control, Data, LockDe, dataVars, local
<1>2. changed'[t] <=> changed[t]
  BY <1>1, DeLocked DEF Locked
<1>3. mode'["DX"][t] = mode["DX"][t]
  BY <1>1, DeLocked DEF Locked, Kept, Row, LockTypes
<1>4. DxLocked(t)' = DxLocked(t) /\ AtOk(t)' = AtOk(t) /\ H(t)' = H(t)
  BY <1>1, <1>3 DEF DxLocked, EX, Holds, Lock!Held, AtOk, H, Fits
<1>5. pc'[t] = IF mode["SPIN"][t] = "NL" THEN "listen" ELSE "leaf"
  BY <1>1 DEF LockDe, Goto, Types
<1>6. pc'[t] = "listen" <=> ~DxLocked(t)
  BY <1>1, <1>5 DEF PlaceOk, ModesOk, SpinMode, DxMode, DxLocked, Holds, Lock!Held
<1>7. pc'[t] \in {"listen", "leaf"} /\ (Warned(t) /\ pc'[t] = "listen" => Warned(t)')
  BY <1>1, <1>2, <1>5 DEF Warned
<1>8. FoundOk(t)'
  BY <1>1, <1>4, <1>6, <1>7 DEF FoundOk, FoundPlaces, Fits, Leads
<1> QED
  BY <1>7, <1>8 DEF SplitOk, Moved

\* Nor is it after the thread has stopped listening, if myblock is not overwritten.
LEMMA StopListenFound ==
  ASSUME Inv, Control', NEW t \in Threads, StopListen(t)
  PROVE  FoundOk(t)' /\ SplitOk(t)'
<1>1. /\ Types /\ Lock!Exclusive /\ PlaceOk(t) /\ ModesOk(t) /\ FoundOk(t) /\ pc[t] = "listen"
      /\ index' = index /\ leaf' = leaf /\ op' = op /\ at' = at /\ block' = block
           /\ count' = count /\ tree' = tree
      /\ changed' = changed /\ "SPIN" \in LockTypes /\ "DX" \in LockTypes \ {"SPIN"} /\ LockRows
  BY DEF Inv, Control, Data, StopListen, dataVars, LockTypes, Types
<1>2. CASE changed[t]
  <2>1. pc'[t] = "free"
    BY <1>1, <1>2 DEF StopListen, Free, Goto, Types
  <2> QED
    BY <2>1, CarelessNext DEF Careless
<1>3. CASE ~changed[t]
  <2>1. pc'[t] = "leaf"
    BY <1>1, <1>3 DEF StopListen, Goto, Types
  <2>2. mode'["DX"][t] = mode["DX"][t]
    BY <1>1, QuietIs DEF StopListen, Kept, Row
  <2>3. DxLocked(t)' = DxLocked(t) /\ AtOk(t)' = AtOk(t) /\ H(t)' = H(t)
    BY <1>1, <2>2 DEF DxLocked, EX, Holds, Lock!Held, AtOk, H, Fits
  <2>4. ~DxLocked(t)
    BY <1>1 DEF PlaceOk, ModesOk, DxMode, DxLocked, Holds, Lock!Held
  <2>5. FoundOk(t)'
    BY <1>1, <1>3, <2>1, <2>3, <2>4 DEF FoundOk, FoundPlaces, Fits, Leads, Warned
  <2> QED
    BY <2>1, <2>5 DEF SplitOk, Moved
<1> QED
  BY <1>2, <1>3

\* A position that is right is one of the index.
LEMMA AtIs ==
  ASSUME Types, IndexOk(index), NEW t \in Threads, AtOk(t), op[t] # None
  PROVE  /\ at[t] \in DOMAIN index /\ at[t] \in 1 .. Len(index) /\ Len(index) \in Nat
         /\ index[at[t]].block = block[t] /\ block[t] \in BlocksOf(index)
         /\ Leads(index, block[t], H(t)) /\ H(t) \in Nat
<1>1. at[t] \in Nat \ {0} /\ Len(index) \in Nat /\ DOMAIN index = 1 .. Len(index)
  BY DEF Types, IndexOk
<1>2. at[t] \in DOMAIN index
  BY <1>1 DEF AtOk
<1> QED
  BY <1>1, <1>2, OpIs DEF AtOk, BlocksOf, Leads

\* The next block continues the hash, and the name was in none of those before it.
LEMMA NotHereFound ==
  ASSUME Inv, Control', NEW t \in Threads, NotHere(t)
  PROVE  FoundOk(t)' /\ SplitOk(t)'
<1>1. /\ Types /\ Lock!Exclusive /\ PlaceOk(t) /\ FoundOk(t) /\ pc[t] = "leaf" /\ IndexOk(index)
      /\ index' = index /\ leaf' = leaf /\ op' = op /\ tree' = tree /\ op[t] # None /\ ~There(t)
      /\ "DE" \in LockTypes /\ "DX" \in LockTypes \ {"DE"}
  BY DEF Inv, Control, Data, NotHere, dataVars, LockTypes, PlaceOk
<1>2. CASE ~Continues(t)
  <2>1. pc'[t] = "free"
    BY <1>1, <1>2 DEF NotHere, Finish, Goto, Types
  <2> QED
    BY <2>1, CarelessNext DEF Careless
<1>3. CASE Continues(t)
  <2>1. /\ at'[t] = at[t] + 1 /\ block'[t] = index[at[t] + 1].block /\ pc'[t] \in {"leaf", "de"}
        /\ NodeUnlock(t, "DE", FALSE)
    BY <1>1, <1>3 DEF NotHere, Types, Set, Goto
  <2>2. mode'["DX"][t] = mode["DX"][t]
    BY <1>1, <2>1, NodeUnlockIs DEF Kept, Row
  <2>3. DxLocked(t)' /\ H(t)' = H(t)
    BY <1>1, <1>3, <2>2 DEF DxLocked, EX, Holds, Lock!Held, H, Continues
  <2>4. AtOk(t) /\ at[t] < Len(index) /\ Even(index[at[t] + 1].hash) = H(t)
        /\ \A i \in 1 .. at[t] - 1 : op[t].kind # "add" /\ Fits(index, i, H(t))
             => op[t].name \notin leaf[index[i].block]
    BY <1>1, <1>3 DEF FoundOk, Continues
  <2>5. at[t] \in DOMAIN index /\ H(t) \in Nat /\ Len(index) \in Nat /\ at[t] \in Nat
        /\ index[at[t]].block = block[t]
    BY <1>1, <2>4, AtIs
  <2>6. Fits(index, at[t] + 1, H(t))
    <3>1. PICK i \in DOMAIN index : i = at[t]
      BY <2>5
    <3> QED
      BY <1>1, <2>4, <2>5, <3>1, NextFits DEF AtOk
  <2>7. AtOk(t)'
    BY <1>1, <2>1, <2>3, <2>4, <2>5, <2>6 DEF AtOk, Fits
  <2>8. \A i \in 1 .. at'[t] - 1 : op[t].kind # "add" /\ Fits(index, i, H(t))'
        => op[t].name \notin leaf[index[i].block]
    <3> TAKE i \in 1 .. at'[t] - 1
    <3>1. i = at[t] \/ i \in 1 .. at[t] - 1
      BY <2>1, <2>5
    <3> QED
      BY <1>1, <2>3, <2>4, <2>5, <3>1 DEF There, Fits
  <2>9. FoundOk(t)'
    BY <1>1, <2>1, <2>3, <2>7, <2>8 DEF FoundOk, FoundPlaces
  <2> QED
    BY <2>1, <2>9 DEF SplitOk, Moved
<1> QED
  BY <1>2, <1>3

\* DX is held, or the number of entries shows whether the index has changed.
LEMMA NeedSplitFound ==
  ASSUME Inv, Control', NEW t \in Threads, NeedSplit(t)
  PROVE  FoundOk(t)' /\ SplitOk(t)'
<1>1. /\ Types /\ PlaceOk(t) /\ FoundOk(t) /\ pc[t] = "leaf" /\ IndexOk(index) /\ op[t].kind = "add"
      /\ UNCHANGED <<index, leaf, op, tree, at, block, count, mode>> /\ Len(index) # Limit
  BY DEF Inv, Control, Data, NeedSplit, Full, dataVars, lockVars
<1>2. Len(index) < Limit /\ Len(index) \in Nat /\ Limit \in Nat
  BY <1>1, DirAssumption DEF IndexOk
<1>3. DxLocked(t)' = DxLocked(t) /\ AtOk(t)' = AtOk(t) /\ H(t)' = H(t)
  BY <1>1 DEF DxLocked, EX, Holds, Lock!Held, AtOk, H, Fits
<1>4. CASE DxLocked(t)
  <2>1. pc'[t] = "split"
    BY <1>1, <1>4 DEF NeedSplit, Goto, Types
  <2> QED
    BY <1>1, <1>2, <1>3, <1>4, <2>1 DEF FoundOk, SplitOk, FoundPlaces, Moved
<1>5. CASE ~DxLocked(t) /\ count[t] = Len(index)
  <2>1. pc'[t] = "try"
    BY <1>1, <1>5 DEF NeedSplit, Goto, Types
  <2>2. FoundOk(t)'
    BY <1>1, <1>2, <1>3, <1>5, <2>1 DEF FoundOk, FoundPlaces, Warned, Leads, Fits
  <2> QED
    BY <2>1, <2>2 DEF SplitOk, Moved
<1>6. CASE ~DxLocked(t) /\ count[t] # Len(index)
  <2>1. pc'[t] = "free"
    BY <1>1, <1>6 DEF NeedSplit, Free, Goto, Types
  <2> QED
    BY <2>1, CarelessNext DEF Careless
<1> QED
  BY <1>4, <1>5, <1>6

\* The number of entries is still to be looked at when DX is granted.
LEMMA TryDxFound ==
  ASSUME Inv, Control', NEW t \in Threads, TryDx(t)
  PROVE  FoundOk(t)' /\ SplitOk(t)'
<1>1. /\ Types /\ PlaceOk(t) /\ ModesOk(t) /\ FoundOk(t) /\ pc[t] = "try" /\ op[t].kind = "add"
      /\ UNCHANGED <<index, leaf, op, tree, at, block, count>>
  BY DEF Inv, Control, Data, TryDx, dataVars, PlaceOk
<1>2. AtOk(t)' = AtOk(t) /\ H(t)' = H(t)
  BY <1>1 DEF AtOk, H, Fits
<1>3. ~DxLocked(t)
  BY <1>1 DEF PlaceOk, ModesOk, DxLocked, Holds, Lock!Held
<1>4. CASE pc'[t] = "free"
  BY <1>4, CarelessNext DEF Careless
<1>5. CASE pc'[t] = "recount"
  <2>1. FoundOk(t)'
    BY <1>1, <1>2, <1>3, <1>5 DEF FoundOk, FoundPlaces, Warned, Leads, Fits
  <2> QED
    BY <1>5, <2>1 DEF SplitOk, Moved
<1> QED
  BY <1>1, <1>4, <1>5 DEF TryDx, Free, Goto, Types

\* With DX held and as many entries as before, the position is right.
LEMMA RecountFound ==
  ASSUME Inv, Control', NEW t \in Threads, Recount(t)
  PROVE  FoundOk(t)' /\ SplitOk(t)'
<1>1. /\ Types /\ PlaceOk(t) /\ FoundOk(t) /\ pc[t] = "recount" /\ op[t].kind = "add"
      /\ UNCHANGED <<index, leaf, op, tree, at, block, count>>
  BY DEF Inv, Control, Data, Recount, dataVars, PlaceOk, Changing
<1>2. AtOk(t)' = AtOk(t) /\ H(t)' = H(t)
  BY <1>1 DEF AtOk, H, Fits
<1>3. CASE pc'[t] = "free"
  BY <1>3, CarelessNext DEF Careless
<1>4. CASE pc'[t] = "split" /\ count[t] = Len(index)
  BY <1>1, <1>2, <1>4 DEF FoundOk, SplitOk, FoundPlaces, Moved
<1> QED
  BY <1>1, <1>3, <1>4 DEF Recount, Free, Goto, Types

\* The event of the split changes nothing for the thread that sends it.
LEMMA NotifyFound ==
  ASSUME Inv, Control', NEW t \in Threads, Notify(t)
  PROVE  FoundOk(t)' /\ SplitOk(t)'
<1>1. /\ Types /\ SplitOk(t) /\ pc[t] = "notify" /\ pc'[t] = "insert"
      /\ UNCHANGED <<index, leaf, op, tree, at, block, count, new>>
  BY DEF Inv, Control, Data, Notify, dataVars, local, Goto, Types
<1>2. AtOk(t)' = AtOk(t) /\ H(t)' = H(t)
  BY <1>1 DEF AtOk, H, Fits
<1>3. FoundOk(t)'
  BY <1>1 DEF FoundOk, FoundPlaces
<1>4. SplitOk(t)'
  BY <1>1, <1>2 DEF SplitOk, Moved, Leads, Fits, BlocksOf
<1> QED
  BY <1>3, <1>4

-----------------------------------------------------------------------------
\* The leaves and the names, when they do not change.
LEMMA LeavesSame ==
  ASSUME Inv, NEW t \in Threads, Continue(t) \/ Call(t), Still(t), Types', UNCHANGED dataVars,
         UNCHANGED new,
         pc[t] \in Moved <=> pc'[t] \in Moved
  PROVE  LeavesOk'
<1>1. /\ index' = index /\ leaf' = leaf /\ used' = used /\ new' = new /\ LeavesOk /\ Types
           /\ PlaceOk(t)
  BY DEF dataVars, Inv, Data, Control
<1>2. \A u \in Threads : pc[u] \in Moved <=> pc'[u] \in Moved
  BY DEF Still
<1>3. {new'[u].block : u \in {v \in Threads : pc'[v] \in Moved}} = {new[u].block : u \in {v \in Threads : pc[v] \in Moved}}
  BY <1>1, <1>2
<1>4. BlocksOf(index)' = BlocksOf(index) /\ Contents' = Contents
  BY <1>1 DEF BlocksOf, Contents
<1>5. ASSUME NEW u \in Threads, op'[u] # None, op'[u].kind = "add", answer'[u] = None
      PROVE  op'[u].name \notin Contents
  <2>1. CASE u # t
    BY <1>1, <1>5, <2>1 DEF Still, LeavesOk
  <2>2. CASE u = t /\ Call(t)
    <3>1. PICK k \in Kinds, n \in Names : op'[t] = [kind |-> k, name |-> n]
               /\ (k = "add" => n \notin Contents)
      BY <1>1, <2>2 DEF Call, Set, Types
    <3> QED
      BY <1>5, <2>2, <3>1
  <2>3. CASE u = t /\ Continue(t)
    <3>1. op'[t] = op[t] /\ (answer[t] = answer'[t] \/ answer[t] = None)
      <4>1. CASE Released(t)
        BY <1>1, <1>5, <2>3, <4>1 DEF Released, Leave, Set, Types, PlaceOk
      <4>2. CASE ~Released(t)
        <5> USE
           DEF Continue, LockTree, Relock, Probe, AtLeaf, Splitting, Release, LockDx, LockSpin,
               Search, LockDe, StopListen, Found, NotHere, AddHere, IndexFull, NeedSplit, TryDx,
               Recount, Split, Notify, Insert, AddAfterSplit
        <5>1. op' = op
          BY <2>3, <4>2
        <5>2. pc[t] # "free" \/ Release(t)
          <6> SUFFICES ASSUME pc[t] = "free" PROVE Release(t)
            OBVIOUS
          <6>1. ~LockTree(t) /\ ~Relock(t) /\ ~Probe(t)
            OBVIOUS
          <6>2. ~AtLeaf(t)
            BY DEF Full
          <6>3. ~Splitting(t)
            OBVIOUS
          <6> HIDE DEF LockTree, Relock, Probe, AtLeaf, Splitting, Release
          <6> QED
            BY <2>3, <4>2, <6>1, <6>2, <6>3
        <5>3. Release(t) => answer' = answer
          OBVIOUS
        <5> QED
          BY <1>1, <5>1, <5>2, <5>3 DEF PlaceOk
      <4> QED
        BY <4>1, <4>2
    <3> QED
      BY <1>1, <1>5, <2>3, <3>1 DEF LeavesOk
  <2> QED
    BY <1>5, <2>1, <2>2, <2>3
<1> QED
  BY <1>1, <1>3, <1>4, <1>5 DEF LeavesOk, Leads, Fits

-----------------------------------------------------------------------------
(***************************************************************************)
(* The steps that change a leaf or the index.                              *)
(***************************************************************************)
\* The leaf a thread works on is one its hash leads to, and is in the index.
LEMMA HereLeads ==
  ASSUME Inv, NEW t \in Threads, pc[t] \in {"leaf", "try", "recount", "split", "added"}
  PROVE  Leads(index, block[t], H(t)) /\ block[t] \in BlocksOf(index)
<1>1. Types /\ IndexOk(index) /\ FoundOk(t) /\ SplitOk(t) /\ op[t] # None
  BY DEF Inv, Control, Data, PlaceOk
<1>2. Leads(index, block[t], H(t))
  <2>1. CASE AtOk(t)
    BY <1>1, <2>1, AtIs
  <2>2. CASE ~AtOk(t)
    <3>1. pc[t] = "try" => ~DxLocked(t)
      BY DEF Inv, Control, PlaceOk, ModesOk, DxLocked, Holds, Lock!Held
    <3> QED
      BY <1>1, <2>2, <3>1 DEF FoundOk, FoundPlaces, SplitOk, Warned
  <2> QED
    BY <2>1, <2>2
<1> QED
  BY <1>2 DEF Leads, BlocksOf

\* A leaf that its thread gives at most the name it adds stays as the index says, and
\* the others, who have other leaves and other names, lose nothing.
LEMMA LeafChanged ==
  ASSUME Inv, NEW t \in Threads, Continue(t), Still(t), Types', pc[t] \in {"leaf", "added"},
         op[t].kind # "lookup",
         NEW X, UNCHANGED <<index, used>>, leaf' = [leaf EXCEPT ![block[t]] = X],
         X \subseteq leaf[block[t]] \cup (IF op[t].kind = "add" THEN {op[t].name} ELSE {}),
         IsFiniteSet(X), Cardinality(X) <= Capacity,
         op'[t] = op[t], answer'[t] # None, pc'[t] = "free"
  PROVE  LeavesOk' /\ \A u \in Threads : u # t => FoundOk(u)' /\ SplitOk(u)'
<1>1. /\ Types /\ Control /\ IndexOk(index) /\ LeavesOk /\ PlaceOk(t) /\ NamesApart
           /\ op[t] # None /\ answer[t] = None
      /\ pc[t] \in OnLeaf /\ index' = index /\ used' = used
  BY DEF Inv, Control, Data, PlaceOk, OnLeaf, Changing
<1>2. Leads(index, block[t], H(t)) /\ block[t] \in BlocksOf(index) /\ block[t] \in Leaves
  BY <1>1, HereLeads DEF Types
<1>3. /\ leaf'[block[t]] = X /\ \A b \in Leaves : b # block[t] => leaf'[b] = leaf[b]
      /\ \A b \in Leaves : leaf'[b] \subseteq leaf[b] \cup {op[t].name}
  BY <1>1, <1>2 DEF Types
<1>4. op[t].kind = "add" => op[t].name \notin Contents
  BY <1>1 DEF LeavesOk
<1>5. ASSUME NEW u \in Threads, u # t
      PROVE  FoundOk(u)' /\ SplitOk(u)'
  <2>1. Same(u) /\ FoundOk(u) /\ SplitOk(u) /\ PlaceOk(u) /\ (Warned(u) => Warned(u)')
    <3>1. Same(u)
      BY <1>5, OthersSame
    <3> QED
      BY <1>5, <3>1, StaysWarned DEF Warned, Same, Inv, Control, Data
  <2>2. AtOk(u)' = AtOk(u)
    BY <1>1, <2>1 DEF AtOk, Same, Fits
  <2>3. op[u] # None => op[u].name # op[t].name
    BY <1>1, <1>5 DEF NamesApart
  <2>4. \A i \in DOMAIN index : index[i].block \in Leaves
    BY <1>1, EntryIs
  <2>5. pc[u] \in {"de", "leaf"} /\ DxLocked(u) /\ op[u].kind # "add" =>
          \A i \in 1 .. at[u] - 1 : Fits(index, i, H(u)) => op[u].name \notin leaf'[index[i].block]
    <3> SUFFICES ASSUME pc[u] \in {"de", "leaf"}, DxLocked(u), op[u].kind # "add",
                        NEW i \in 1 .. at[u] - 1, Fits(index, i, H(u))
                 PROVE  op[u].name \notin leaf'[index[i].block]
      OBVIOUS
    <3>1. AtOk(u) /\ op[u] # None
      BY <2>1 DEF FoundOk, PlaceOk
    <3>2. i \in DOMAIN index
      <4>1. at[u] \in 1 .. Len(index) /\ Len(index) \in Nat /\ DOMAIN index = 1 .. Len(index)
        BY <1>1, <3>1, AtIs DEF IndexOk
      <4> QED
        BY <4>1
    <3>3. op[u].name \notin leaf[index[i].block]
      BY <2>1 DEF FoundOk
    <3> QED
      BY <1>3, <2>3, <2>4, <3>1, <3>2, <3>3
  <2>6. FoundOk(u)'
    BY <1>1, <2>1, <2>2, <2>5 DEF FoundOk, Same, Fits, Leads
  <2>7. pc[u] \in OnLeaf => block[u] # block[t] /\ leaf'[block[u]] = leaf[block[u]]
    BY <1>1, <1>3, <1>5, OneWrites DEF Types
  <2>8. pc[u] \in Moved => new[u] # None /\ new[u].block \notin BlocksOf(index)
    BY <2>1 DEF SplitOk
  <2>9. pc[u] \in Moved => leaf'[new[u].block] = leaf[new[u].block]
    BY <1>1, <1>2, <1>3, <2>8, NewIs
  <2>10. SplitOk(u)'
    BY <1>1, <2>1, <2>2, <2>7, <2>9
       DEF SplitOk, Same, Fits, Leads, BlocksOf, OnLeaf, Changing, Moved
  <2> QED
    BY <2>6, <2>10
<1>6. \A b, c \in Leaves : b # c => leaf'[b] \cap leaf'[c] = {}
  <2>1. \A b \in Leaves : leaf'[b] \subseteq leaf[b] \cup (IF b = block[t]
        /\ op[t].kind = "add" THEN {op[t].name} ELSE {})
    BY <1>3
  <2>2. op[t].kind = "add" => \A b \in Leaves : op[t].name \notin leaf[b]
    BY <1>4 DEF Contents
  <2>3. \A b, c \in Leaves : b # c => leaf[b] \cap leaf[c] = {}
    BY <1>1 DEF LeavesOk
  <2> QED
    BY <2>1, <2>2, <2>3
<1>7. \A b \in Leaves \ used : leaf'[b] = {}
  <2>1. BlocksOf(index) \subseteq used
    BY <1>1 DEF LeavesOk
  <2> QED
    BY <1>1, <1>2, <1>3, <2>1 DEF LeavesOk
<1>8. \A b \in Leaves : IsFiniteSet(leaf'[b]) /\ Cardinality(leaf'[b]) <= Capacity
  BY <1>1, <1>3 DEF LeavesOk
<1>9. {new'[u].block : u \in {v \in Threads : pc'[v] \in Moved}} = {new[u].block : u \in {v \in Threads : pc[v] \in Moved}}
  <2>1. pc[t] \notin Moved /\ pc'[t] \notin Moved
    BY DEF Moved
  <2>2. \A u \in Threads : u # t => pc'[u] = pc[u] /\ new'[u] = new[u]
    BY DEF Still
  <2> QED
    BY <2>1, <2>2
<1>10. \A b \in BlocksOf(index) : \A n \in leaf'[b] : Leads(index, b, Hash[n])
  <2> TAKE b \in BlocksOf(index)
  <2> TAKE n \in leaf'[b]
  <2>1. b \in Leaves
    BY <1>1, EntryIs DEF BlocksOf
  <2>2. n \in leaf[b] \/ (b = block[t] /\ n = op[t].name)
    BY <1>3, <2>1
  <2> QED
    BY <1>1, <1>2, <2>2 DEF LeavesOk, H
<1>11. \A u \in Threads : op'[u] # None /\ op'[u].kind = "add" /\ answer'[u] = None
       => op'[u].name \notin Contents'
  <2> SUFFICES ASSUME NEW u \in Threads, op'[u] # None, op'[u].kind = "add", answer'[u] = None
               PROVE  op'[u].name \notin Contents'
    OBVIOUS
  <2>1. u # t /\ op'[u] = op[u] /\ answer'[u] = answer[u]
    BY DEF Still
  <2>2. op[u].name \notin Contents /\ op[u].name # op[t].name
    BY <1>1, <2>1 DEF LeavesOk, NamesApart
  <2> QED
    BY <1>3, <2>1, <2>2 DEF Contents
<1>12. BlocksOf(index)' = BlocksOf(index) /\ \A b, h : Leads(index, b, h)' <=> Leads(index, b, h)
  BY <1>1 DEF BlocksOf, Leads, Fits
<1>13. LeavesOk'
  BY <1>1, <1>6, <1>7, <1>8, <1>9, <1>10, <1>11, <1>12 DEF LeavesOk
<1> QED
  BY <1>5, <1>13

\* A name that is found, and deleted under the same lock.
LEMMA FoundData ==
  ASSUME Inv, Control', NEW t \in Threads, Found(t), Continue(t), Still(t)
  PROVE  Data'
<1>1. /\ Types /\ Types' /\ IndexOk(index) /\ LeavesOk /\ PlaceOk(t) /\ pc[t] = "leaf"
           /\ op[t].kind # "add"
      /\ op' = op /\ index' = index /\ used' = used /\ new' = new /\ block[t] \in Leaves
  BY DEF Inv, Control, Data, Found, Types
<1>2. pc'[t] = "free" /\ answer'[t] = "found" /\ "found" # None
  BY <1>1, DirAssumption DEF Found, Finish, Goto, Set, Types
<1>3. Told' /\ FoundOk(t)' /\ SplitOk(t)'
  BY <1>2, ToldStep, CarelessNext DEF Careless
<1>4. CASE op[t].kind = "del"
  <2>1. PICK X : X = leaf[block[t]] \ {op[t].name}
    OBVIOUS
  <2>2. IsFiniteSet(leaf[block[t]]) /\ Cardinality(leaf[block[t]]) <= Capacity
        /\ X \in SUBSET leaf[block[t]]
        /\ Capacity \in Nat
    BY <1>1, <2>1, DirAssumption DEF LeavesOk
  <2>3. /\ IsFiniteSet(X) /\ Cardinality(X) <= Cardinality(leaf[block[t]])
        /\ Cardinality(X) \in Nat /\ Cardinality(leaf[block[t]]) \in Nat
    <3>1. IsFiniteSet(X) /\ Cardinality(X) <= Cardinality(leaf[block[t]])
      BY <2>2, FS_Subset
    <3> QED
      BY <2>2, <3>1, FS_CardinalityType
  <2>4. leaf' = [leaf EXCEPT ![block[t]] = X]
    BY <1>1, <1>4, <2>1 DEF Found, Set
  <2>5. LeavesOk' /\ \A u \in Threads : u # t => FoundOk(u)' /\ SplitOk(u)'
    <3>1. Cardinality(X) <= Capacity
      BY <2>2, <2>3
    <3> QED
      BY <1>1, <1>2, <1>4, <2>2, <2>3, <2>4, <3>1, LeafChanged
  <2> QED
    BY <1>1, <1>3, <2>5 DEF Data
<1>5. CASE op[t].kind # "del"
  <2>1. leaf' = leaf
    BY <1>1, <1>5 DEF Found
  <2>2. LeavesOk'
    BY <1>1, <1>2, <2>1, LeavesSame DEF dataVars, Moved
  <2> QED
    BY <1>1, <1>3, <2>1, <2>2, OthersFound DEF Data
<1> QED
  BY <1>4, <1>5

\* add_dirent_to_buf: what an added name does to the invariant.
LEMMA Added ==
  ASSUME Inv, Control', NEW t \in Threads, Continue(t), Still(t), pc[t] \in {"leaf", "added"},
         op[t].kind = "add",
         leaf' = [leaf EXCEPT ![block[t]] = leaf[block[t]] \cup {op[t].name}],
         UNCHANGED <<index, used, op>>,
         pc'[t] = "free", answer'[t] = "done", Cardinality(leaf[block[t]]) < Capacity
  PROVE  Data'
<1>1. /\ Types /\ Types' /\ IndexOk(index) /\ LeavesOk /\ PlaceOk(t)
      /\ op' = op /\ index' = index /\ used' = used /\ block[t] \in Leaves /\ "done" # None
  BY DirAssumption DEF Inv, Control, Data, Types
<1>2. Told' /\ FoundOk(t)' /\ SplitOk(t)'
  BY ToldStep, CarelessNext DEF Careless
<1>3. PICK X : X = leaf[block[t]] \cup {op[t].name}
  OBVIOUS
<1>4. IsFiniteSet(leaf[block[t]]) /\ Capacity \in Nat
  BY <1>1, DirAssumption DEF LeavesOk
<1>5. IsFiniteSet(X) /\ Cardinality(X) <= Cardinality(leaf[block[t]]) + 1
      /\ Cardinality(leaf[block[t]]) \in Nat /\ Cardinality(X) \in Nat
  <2>1. /\ IsFiniteSet(X)
        /\ Cardinality(X) = IF op[t].name \in leaf[block[t]] THEN Cardinality(leaf[block[t]]) ELSE Cardinality(leaf[block[t]]) + 1
    BY <1>3, <1>4, FS_AddElement
  <2> QED
    BY <1>4, <2>1, FS_CardinalityType
<1>6. Cardinality(X) <= Capacity
  BY <1>4, <1>5
<1>7. LeavesOk' /\ \A u \in Threads : u # t => FoundOk(u)' /\ SplitOk(u)'
  BY <1>1, <1>3, <1>5, <1>6, LeafChanged
<1> QED
  BY <1>1, <1>2, <1>7 DEF Data

\* A name that is added where there was room,
LEMMA AddHereData ==
  ASSUME Inv, Control', NEW t \in Threads, AddHere(t), Continue(t), Still(t)
  PROVE  Data'
<1>1. Types
  BY DEF Inv, Control
<1> QED
  BY <1>1, Added DEF AddHere, Finish, Goto, Set, Types

\* and one that is added after a split.
LEMMA AddAfterSplitData ==
  ASSUME Inv, Control', NEW t \in Threads, AddAfterSplit(t), Continue(t), Still(t)
  PROVE  Data'
<1>1. Types /\ SplitOk(t) /\ PlaceOk(t)
  BY DEF Inv, Control, Data
<1>2. pc[t] = "added" /\ op[t].kind = "add" /\ Cardinality(leaf[block[t]]) < Capacity
  BY <1>1 DEF AddAfterSplit, PlaceOk, SplitOk, Changing
<1> QED
  BY <1>1, <1>2, Added DEF AddAfterSplit, Finish, Goto, Set, Types

\* The two parts of a leaf that is split are smaller than a leaf.
LEMMA PartsFit ==
  ASSUME NEW S, IsFiniteSet(S), Cardinality(S) <= Capacity, NEW U \in SUBSET S, U # S
  PROVE  IsFiniteSet(U) /\ Cardinality(U) < Capacity
<1>1. IsFiniteSet(U) /\ Cardinality(U) <= Cardinality(S) /\ Cardinality(U) # Cardinality(S)
  BY FS_Subset
<1>2. Cardinality(U) \in Nat /\ Cardinality(S) \in Nat /\ Capacity \in Nat
  BY <1>1, FS_CardinalityType, DirAssumption
<1> QED
  BY <1>1, <1>2

\* The hash at which a leaf is split lies between its entry and the next.
LEMMA SplitBetween ==
  ASSUME IndexOk(index), NEW i \in DOMAIN index, NEW g \in Nat, NEW h \in Nat, NEW k \in Nat,
         Fits(index, i, h), h < g, Fits(index, i, k), k = Even(g)
  PROVE  index[i].hash <= g /\ (i < Len(index) => g <= index[i + 1].hash)
<1>1. /\ DOMAIN index = 1 .. Len(index) /\ Len(index) \in Nat /\ i \in 1 .. Len(index)
      /\ \A j \in 1 .. Len(index) : index[j].hash \in Nat
  BY EntryIs
<1>2. /\ Even(index[i].hash) \in Nat /\ index[i].hash <= Even(index[i].hash) + 1
      /\ g <= Even(g) + 1 /\ Even(g) \in Nat
  BY <1>1, EvenIs
<1>3. index[i].hash <= g
  BY <1>1, <1>2 DEF Fits
<1>4. i < Len(index) => i + 1 \in 1 .. Len(index)
  BY <1>1
<1>5. i < Len(index) => g <= index[i + 1].hash
  BY <1>1, <1>2, <1>4 DEF Fits
<1> QED
  BY <1>3, <1>5

\* A split that finds no block.
LEMMA SplitFull ==
  ASSUME Inv, Control', NEW t \in Threads, Split(t), Continue(t), Still(t),
         UNCHANGED <<leaf, used, new>>, answer' = Set(answer, t, "no_space"),
         pc' = Set(pc, t, "free")
  PROVE  Data'
<1>1. Types /\ Types' /\ pc[t] = "split" /\ UNCHANGED dataVars /\ IndexOk(index)
      /\ index' = index /\ leaf' = leaf
  BY DEF Inv, Control, Data, Split, dataVars
<1>2. pc'[t] = "free"
  BY <1>1 DEF Set, Types
<1>3. Told' /\ FoundOk(t)' /\ SplitOk(t)'
  BY <1>2, ToldStep, CarelessNext DEF Careless
<1>4. LeavesOk'
  BY <1>1, <1>2, LeavesSame DEF Moved
<1> QED
  BY <1>1, <1>3, <1>4, OthersFound DEF Data

\* A split that moves a part of the leaf: the entry of the leaf leads to both parts
\* until the new one is inserted.
LEMMA SplitMoves ==
  ASSUME Inv, Control', NEW t \in Threads, Split(t), Continue(t), Still(t),
         NEW U, NEW g, NEW b, NEW low, Parted(t, U, g, b, low), pc' = Set(pc, t, "notify"),
         answer' = answer
  PROVE  Data'
<1> DEFINE S == leaf[block[t]]
           mine == IF low THEN S \ U ELSE U
           moved == IF low THEN U ELSE S \ U
<1>1. /\ Types /\ Types' /\ Control /\ pc[t] = "split" /\ index' = index /\ op' = op
           /\ at' = at /\ block' = block
      /\ IndexOk(index) /\ LeavesOk /\ SplitOk(t) /\ PlaceOk(t) /\ op[t] # None
  BY DEF Inv, Control, Data, Split, PlaceOk
<1>2. /\ U \in Uppers(S) /\ b \in Leaves \ used /\ g \in Nat /\ low \in BOOLEAN
           /\ used' = used \cup {b}
      /\ leaf' = [leaf EXCEPT ![block[t]] = mine, ![b] = moved]
      /\ new' = [new EXCEPT ![t] = [hash |-> g, block |-> b, low |-> low]]
      /\ \A n \in S \ U : Hash[n] < g
      /\ \A n \in U : Even(g) <= Hash[n]
      /\ IF low THEN H(t) < g ELSE Even(g) <= H(t)
      /\ \E u \in U : Even(g) = Hash[u]
  BY DEF Parted
<1>3. U \subseteq S /\ U # {} /\ U # S /\ mine \subseteq S /\ moved \subseteq S /\ mine # S
      /\ mine \cap moved = {}
      /\ moved # S /\ S \subseteq mine \cup moved
  BY <1>2 DEF Uppers
<1>4. AtOk(t) /\ Len(index) < Limit /\ at[t] \in DOMAIN index /\ block[t] \in BlocksOf(index)
      /\ block[t] \in Leaves
      /\ index[at[t]].block = block[t]
  BY <1>1, AtIs DEF SplitOk, Types
<1>5. used = BlocksOf(index)
  BY <1>1, AllIndexed DEF Changing, Moved
<1>6. b # block[t] /\ leaf'[block[t]] = mine /\ leaf'[b] = moved
      /\ \A c \in Leaves : c \notin {b, block[t]} => leaf'[c] = leaf[c]
  <2> HIDE DEF mine, moved, S
  <2>1. b # block[t] /\ b \in Leaves /\ DOMAIN leaf = Leaves
    BY <1>1, <1>2, <1>4, <1>5 DEF Types
  <2> QED
    BY <1>2, <1>4, <2>1
<1>7. pc'[t] = "notify" /\ \A u \in Threads : u # t => pc'[u] = pc[u] /\ new'[u] = new[u]
  BY <1>1 DEF Still, Set, Types
<1>8. new'[t] = [hash |-> g, block |-> b, low |-> low] /\ new'[t] # None
  <2>1. new'[t] = [hash |-> g, block |-> b, low |-> low]
    BY <1>1, <1>2 DEF Types
  <2>2. [hash |-> g, block |-> b, low |-> low] \in [hash : Nat, block : Leaves, low : BOOLEAN]
    BY <1>2
  <2> QED
    BY <2>1, <2>2, DirAssumption
<1>9. \A n \in S : Leads(index, block[t], Hash[n]) /\ Fits(index, at[t], Hash[n])
  <2>1. \A n \in S : Leads(index, block[t], Hash[n])
    BY <1>1, <1>4 DEF LeavesOk
  <2>2. PICK i \in DOMAIN index : i = at[t]
    BY <1>4
  <2> QED
    BY <1>1, <1>4, <2>1, <2>2, LeadsFits
<1>10. IsFiniteSet(mine) /\ Cardinality(mine) < Capacity /\ IsFiniteSet(moved)
       /\ Cardinality(moved) < Capacity
  <2>1. IsFiniteSet(S) /\ Cardinality(S) <= Capacity
    BY <1>1, <1>4 DEF LeavesOk
  <2>2. PICK T \in SUBSET S : T = mine
    BY <1>3
  <2>3. PICK T2 \in SUBSET S : T2 = moved
    BY <1>3
  <2>4. PICK S1 : S1 = S
    OBVIOUS
  <2> HIDE DEF S, mine, moved
  <2>5. IsFiniteSet(T) /\ Cardinality(T) < Capacity /\ IsFiniteSet(T2) /\ Cardinality(T2) < Capacity
    BY <1>3, <2>1, <2>2, <2>3, <2>4, PartsFit
  <2> QED
    BY <2>2, <2>3, <2>5
<1> HIDE DEF mine, moved, S
<1>11. ASSUME NEW u \in Threads, u # t
       PROVE  FoundOk(u)' /\ SplitOk(u)'
  <2>1. Same(u) /\ FoundOk(u) /\ (Warned(u) => Warned(u)')
    <3>1. Same(u)
      BY <1>11, OthersSame
    <3> QED
      BY <1>11, <3>1, StaysWarned DEF Warned, Same, Inv, Control, Data
  <2>2. ~DxLocked(u) /\ pc[u] \notin Changing
    BY <1>1, <1>11, OneChanges DEF Changing
  <2>3. AtOk(u)' = AtOk(u)
    BY <1>1, <2>1 DEF AtOk, Same, Fits
  <2>4. FoundOk(u)'
    BY <1>1, <2>1, <2>2, <2>3 DEF FoundOk, Same, Fits, Leads
  <2>5. SplitOk(u)'
    BY <2>1, <2>2 DEF SplitOk, Same, Changing, Moved
  <2> QED
    BY <2>4, <2>5
<1>12. FoundOk(t)'
  BY <1>7 DEF FoundOk, FoundPlaces
<1>13. SplitOk(t)'
  <2>1. AtOk(t)' /\ H(t)' = H(t) /\ BlocksOf(index)' = BlocksOf(index) /\ Len(index)' = Len(index)
        /\ \A c, h : Leads(index, c, h)' <=> Leads(index, c, h)
    BY <1>1, <1>4 DEF AtOk, H, Fits, BlocksOf, Leads
  <2>2. index[at[t]].hash <= g /\ (at[t] < Len(index) => g <= index[at[t] + 1].hash)
    <3>1. PICK n \in S \ U, u \in U : Even(g) = Hash[u] /\ Hash[n] < g
      BY <1>2, <1>3
    <3>2. n \in Names /\ u \in Names
      BY <1>1, <1>3, <1>4, <3>1 DEF S, Types
    <3>3. Fits(index, at[t], Hash[n]) /\ Fits(index, at[t], Hash[u]) /\ Hash[n] \in Nat
          /\ Hash[u] \in Nat
      BY <1>3, <1>9, <3>1, <3>2, EvenIs
    <3>4. PICK i \in DOMAIN index : i = at[t]
      BY <1>4
    <3> QED
      BY <1>1, <1>2, <3>1, <3>3, <3>4, SplitBetween
  <2>3. Cardinality(leaf'[block'[t]]) < Capacity
    BY <1>1, <1>6, <1>10
  <2>4. \A n \in moved : Leads(index, block[t], Hash[n])
    BY <1>3, <1>9
  <2>5. /\ \A n \in (IF low THEN mine ELSE moved) : Hash[n] < g
        /\ \A n \in (IF low THEN moved ELSE mine) : Even(g) <= Hash[n]
    BY <1>2 DEF mine, moved
  <2>6. /\ new'[t].hash = g /\ new'[t].block = b /\ new'[t].low = low
        /\ leaf'[block'[t]] = mine /\ leaf'[new'[t].block] = moved /\ block'[t] = block[t]
             /\ at'[t] = at[t]
    BY <1>1, <1>6, <1>8
  <2>7. new'[t].block \notin BlocksOf(index)'
    BY <1>2, <1>5, <2>1, <2>6
  <2>8. \A n \in leaf'[new'[t].block] : Leads(index, block[t], Hash[n])'
    BY <1>1, <2>1, <2>4, <2>6
  <2>9. /\ \A n \in leaf'[IF low THEN block'[t] ELSE b] : Hash[n] < g
        /\ \A n \in leaf'[IF low THEN b ELSE block'[t]] : Even(g) <= Hash[n]
    BY <2>5, <2>6
  <2>10. IF low THEN H(t)' < g ELSE Even(g) <= H(t)'
    BY <1>2, <2>1
  <2>11. index'[at'[t]].hash <= g /\ (at'[t] < Len(index)' => g <= index'[at'[t] + 1].hash)
    BY <1>1, <2>2
  <2> QED
    BY <1>4, <1>7, <1>8, <2>1, <2>3, <2>6, <2>7, <2>8, <2>9, <2>10, <2>11 DEF SplitOk, Moved
<1>14. LeavesOk'
  <2>1. /\ \A c, d \in Leaves : c # d => leaf[c] \cap leaf[d] = {}
        /\ \A c \in Leaves \ used : leaf[c] = {}
        /\ \A c \in Leaves : IsFiniteSet(leaf[c]) /\ Cardinality(leaf[c]) <= Capacity
    BY <1>1 DEF LeavesOk
  <2>2. \A c \in Leaves : leaf'[c] \subseteq leaf[c] \/ (c = b /\ leaf'[c] = moved)
    BY <1>3, <1>6 DEF S
  <2>3. \A c, d \in Leaves : c # d => leaf'[c] \cap leaf'[d] = {}
    <3> SUFFICES ASSUME NEW c \in Leaves, NEW d \in Leaves, c # d, d # b
                 PROVE  leaf'[c] \cap leaf'[d] = {}
      OBVIOUS
    <3>1. leaf'[d] \subseteq leaf[d]
      BY <2>2
    <3>2. CASE c # b
      BY <2>1, <2>2, <3>1, <3>2
    <3>3. CASE c = b /\ d = block[t]
      BY <1>3, <1>6, <3>3
    <3>4. CASE c = b /\ d # block[t]
      <4>1. leaf'[c] \subseteq leaf[block[t]]
        BY <1>3, <1>6, <3>4 DEF S
      <4> QED
        BY <1>4, <2>1, <3>1, <3>4, <4>1
    <3> QED
      BY <3>2, <3>3, <3>4
  <2>4. \A c \in Leaves \ used' : leaf'[c] = {}
    BY <1>2, <1>4, <1>5, <1>6, <2>1
  <2>5. \A c \in Leaves : IsFiniteSet(leaf'[c]) /\ Cardinality(leaf'[c]) <= Capacity
    <3>1. Cardinality(mine) <= Capacity /\ Cardinality(moved) <= Capacity
      BY <1>10, FS_CardinalityType, DirAssumption
    <3> QED
      BY <1>6, <1>10, <2>1, <3>1
  <2>6. {new'[u].block : u \in {v \in Threads : pc'[v] \in Moved}} = {b}
    <3>1. \A v \in Threads : pc'[v] \in Moved <=> v = t
      BY <1>1, <1>7, OneChanges DEF Changing, Moved
    <3> QED
      BY <1>8, <3>1
  <2>7. BlocksOf(index)' = BlocksOf(index) /\ \A c, h : Leads(index, c, h)' <=> Leads(index, c, h)
    BY <1>1 DEF Fits, BlocksOf, Leads
  <2>8. \A c \in BlocksOf(index) : \A n \in leaf'[c] : Leads(index, c, Hash[n])
    <3> TAKE c \in BlocksOf(index)
    <3>1. c \in Leaves /\ c # b
      BY <1>1, <1>2, <1>5, EntryIs DEF BlocksOf
    <3> QED
      BY <1>1, <2>2, <3>1 DEF LeavesOk
  <2>9. Contents' \subseteq Contents
    <3>1. \A c \in Leaves : leaf'[c] \subseteq leaf[c] \cup leaf[block[t]]
      BY <1>3, <1>6, <2>2 DEF S
    <3> QED
      BY <1>4, <3>1 DEF Contents
  <2>10. \A u \in Threads : op'[u] # None /\ op'[u].kind = "add" /\ answer'[u] = None
         => op'[u].name \notin Contents'
    BY <1>1, <2>9 DEF LeavesOk
  <2> QED
    BY <1>2, <1>5, <2>3, <2>4, <2>5, <2>6, <2>7, <2>8, <2>10 DEF LeavesOk
<1>15. Told'
  BY ToldStep
<1> QED
  BY <1>1, <1>11, <1>12, <1>13, <1>14, <1>15 DEF Data

\* do_split.
LEMMA SplitData ==
  ASSUME Inv, Control', NEW t \in Threads, Split(t), Continue(t), Still(t)
  PROVE  Data'
<1>1. /\ Types /\ op[t] # None /\ IndexOk(index) /\ Len(index) < Limit /\ LeavesOk /\ Control
           /\ pc[t] \in Changing \ Moved
  BY DEF Inv, Control, Data, Split, SplitOk, PlaceOk, Changing, Moved
<1>2. used = BlocksOf(index)
  BY <1>1, AllIndexed
<1> QED
  BY <1>1, <1>2, SplitIs, SplitFull, SplitMoves

\* dx_insert_block.
LEMMA InsertIs ==
  ASSUME Inv, NEW t \in Threads, Insert(t)
  PROVE  /\ index' = Grown(index, at[t], new[t].hash, new[t].block, new[t].low)
         /\ pc' = Set(pc, t, "added")
         /\ UNCHANGED <<tree, leaf, used, op, answer, changed, local>>
BY DEF Insert, Grown, Goto, Set

\* The new entry leads to the part that has moved, and the old one to the rest; who
\* looked for a name of the leaf meanwhile has been told.
LEMMA InsertData ==
  ASSUME Inv, Control', NEW t \in Threads, Insert(t), Continue(t), Still(t)
  PROVE  Data'
<1>1. /\ Types /\ Types' /\ Control /\ pc[t] = "insert" /\ IndexOk(index) /\ LeavesOk
           /\ SplitOk(t) /\ PlaceOk(t)
      /\ op[t] # None /\ Told /\ "insert" \in Changing
      /\ UNCHANGED <<leaf, used, op, answer, at, block, count, new>>
  BY InsertIs DEF Inv, Control, Data, Insert, PlaceOk, Changing, local
<1>2. AtOk(t) /\ Len(index) < Limit /\ block[t] \in BlocksOf(index) /\ block[t] \in Leaves
      /\ index[at[t]].block = block[t] /\ H(t) \in Nat /\ Leads(index, block[t], H(t))
  BY <1>1, AtIs DEF SplitOk, Types
<1>3. PICK i \in DOMAIN index : i = at[t]
  BY <1>1, <1>2, AtIs
<1>4. new[t] # None
  BY <1>1 DEF SplitOk, Moved
<1>5. PICK g \in Nat, b \in Leaves, low \in BOOLEAN :
        g = new[t].hash /\ b = new[t].block /\ low = new[t].low
  BY <1>1, <1>4, NewIs
<1>6. PICK old : old = block[t]
  OBVIOUS
<1> DEFINE lower == IF low THEN old ELSE b
           upper == IF low THEN b ELSE old
<1>7. /\ b \notin BlocksOf(index) /\ index[i].hash <= g
           /\ (i < Len(index) => g <= index[i + 1].hash)
      /\ \A n \in leaf[b] : Leads(index, old, Hash[n])
      /\ \A n \in leaf[lower] : Hash[n] < g
      /\ \A n \in leaf[upper] : Even(g) <= Hash[n]
      /\ IF low THEN H(t) < g ELSE Even(g) <= H(t)
  BY <1>1, <1>3, <1>5, <1>6 DEF SplitOk, Moved
<1>8. index' = Grown(index, i, g, b, low)
  <2>1. index' = Grown(index, at[t], new[t].hash, new[t].block, new[t].low)
    BY InsertIs
  <2> QED
    BY <1>3, <1>5, <2>1
<1>9. PICK r : r = Grown(index, i, g, b, low)
  OBVIOUS
<1>10. IndexOk(r) /\ Len(r) = Len(index) + 1 /\ Len(index) \in Nat
  <2>1. IndexOk(Grown(index, i, g, b, low))
        /\ Widened(Grown(index, i, g, b, low), index, i, g, b, low)
    BY <1>1, <1>2, <1>7, GrownOk, GrownIs
  <2> QED
    BY <1>1, <1>9, <2>1 DEF Widened, IndexOk
<1>11. BlocksOf(r) = BlocksOf(index) \cup {b}
  <2>1. 0 \in Nat /\ index[i].block = old
    BY <1>2, <1>3, <1>6
  <2> QED
    BY <1>1, <1>7, <1>9, <2>1, GrownLeads
<1>12. ASSUME NEW h \in Nat
       PROVE  /\ \A c : c \notin {b, old} => (Leads(r, c, h) <=> Leads(index, c, h))
              /\ Leads(r, lower, h) <=> Leads(index, old, h) /\ h < g
              /\ Leads(r, upper, h) <=> Leads(index, old, h) /\ Even(g) <= h
  <2>1. index[i].block = old
    BY <1>2, <1>3, <1>6
  <2> QED
    BY <1>1, <1>7, <1>9, <2>1, GrownLeads
<1>13. index' = r /\ old # b
  BY <1>2, <1>6, <1>7, <1>8, <1>9
<1>14. pc'[t] = "added" /\ \A u \in Threads : u # t => pc'[u] = pc[u]
  BY <1>1, InsertIs DEF Still, Set, Types
<1>15. ASSUME NEW u \in Threads, u # t
       PROVE  FoundOk(u)' /\ SplitOk(u)'
  <2>1. Same(u) /\ FoundOk(u) /\ PlaceOk(u) /\ (Warned(u) => Warned(u)')
    <3>1. Same(u)
      BY <1>15, OthersSame
    <3> QED
      BY <1>15, <3>1, StaysWarned DEF Warned, Same, Inv, Control, Data
  <2>2. ~DxLocked(u) /\ pc[u] \notin Changing
    BY <1>1, <1>15, OneChanges
  <2>3. SplitOk(u)'
    BY <2>1, <2>2 DEF SplitOk, Same, Changing, Moved
  <2>4. CASE pc[u] \notin FoundPlaces
    BY <2>1, <2>2, <2>3, <2>4 DEF FoundOk, Same, FoundPlaces, Changing
  <2>5. CASE pc[u] \in FoundPlaces
    <3>1. count[u] <= Len(index) /\ (Warned(u) \/ Leads(index, block[u], H(u))) /\ count[u] \in Nat
          /\ (pc[u] # "try" /\ op[u].kind # "add" => Warned(u)
               \/ \A c \in Leaves : Leads(index, c, H(u)) => c = block[u])
          /\ H(u) \in Nat /\ (pc[u] = "try" => count[u] < Limit)
      BY <1>1, <2>1, <2>2, <2>5, OpIs DEF FoundOk, FoundPlaces, PlaceOk, Types
    <3>2. count'[u] <= Len(r) /\ count'[u] # Len(r)
      BY <1>10, <2>1, <3>1 DEF Same
    <3>3. Warned(u) \/ block[u] # old
      <4>1. pc[u] \in {"de", "listen"} => Warned(u) \/ block[u] # old
        BY <1>1, <1>6, <1>15 DEF Told, Warned
      <4>2. pc[u] \in OnLeaf => block[u] # old
        <5>1. pc[t] \in OnLeaf /\ op[t].kind # "lookup"
          BY <1>1 DEF OnLeaf, Changing, PlaceOk
        <5> QED
          BY <1>1, <1>6, <1>15, <5>1, OneWrites
      <4> QED
        BY <2>5, <4>1, <4>2 DEF FoundPlaces, OnLeaf
    <3>4. block[u] # b \/ Warned(u)
      BY <1>7, <3>1 DEF Leads, BlocksOf
    <3>5. Warned(u) \/ Leads(r, block[u], H(u))
      BY <1>12, <3>1, <3>3, <3>4
    <3>6. pc[u] # "try" /\ op[u].kind # "add" => Warned(u)
          \/ \A c \in Leaves : Leads(r, c, H(u)) => c = block[u]
      <4> SUFFICES ASSUME pc[u] # "try", op[u].kind # "add", ~Warned(u), NEW c \in Leaves,
      Leads(r, c, H(u))
                   PROVE  c = block[u]
        OBVIOUS
      <4>1. CASE c \in {b, old}
        <5>1. Leads(index, old, H(u))
          BY <1>12, <3>1, <4>1
        <5> QED
          BY <1>2, <1>6, <3>1, <3>3, <5>1
      <4>2. CASE c \notin {b, old}
        BY <1>12, <3>1, <4>2
      <4> QED
        BY <4>1, <4>2
    <3>7. FoundOk(u)'
      <4>1. /\ Leads(index, block[u], H(u))' <=> Leads(r, block[u], H(u))
            /\ \A c : Leads(index, c, H(u))' <=> Leads(r, c, H(u))
            /\ Len(index)' = Len(r)
        BY <1>13, <2>1 DEF Same, Leads, Fits
      <4> QED
        BY <2>1, <2>2, <2>5, <3>1, <3>2, <3>5, <3>6, <4>1 DEF FoundOk, Same, FoundPlaces
    <3> QED
      BY <2>3, <3>7
  <2> QED
    BY <2>4, <2>5
<1>16. FoundOk(t)'
  BY <1>14 DEF FoundOk, FoundPlaces
<1>17. SplitOk(t)'
  <2>1. Leads(r, old, H(t))
    BY <1>2, <1>6, <1>7, <1>12
  <2>2. Leads(index, block[t], H(t))'
    BY <1>1, <1>6, <1>13, <2>1 DEF Leads, Fits, H
  <2>3. Cardinality(leaf'[block'[t]]) < Capacity
    BY <1>1 DEF SplitOk
  <2> QED
    BY <1>14, <2>2, <2>3 DEF SplitOk, Moved
<1>18. LeavesOk'
  <2>1. {new'[u].block : u \in {v \in Threads : pc'[v] \in Moved}} = {}
    BY <1>1, <1>14, OneChanges DEF Changing, Moved
  <2>2. {new[u].block : u \in {v \in Threads : pc[v] \in Moved}} = {b}
    <3>1. \A v \in Threads : pc[v] \in Moved <=> v = t
      BY <1>1, OneChanges DEF Changing, Moved
    <3> QED
      BY <1>5, <3>1
  <2>3. used' = BlocksOf(index)' \cup {new'[u].block : u \in {v \in Threads : pc'[v] \in Moved}}
    <3>1. used = BlocksOf(index) \cup {b}
      BY <1>1, <2>2 DEF LeavesOk
    <3>2. BlocksOf(index)' = BlocksOf(r)
      BY <1>13 DEF BlocksOf
    <3> QED
      BY <1>1, <1>11, <2>1, <3>1, <3>2
  <2>4. \A c \in BlocksOf(r) : \A n \in leaf[c] : Leads(r, c, Hash[n])
    <3> TAKE c \in BlocksOf(r)
    <3> TAKE n \in leaf[c]
    <3>1. c \in Leaves /\ n \in Names /\ Hash[n] \in Nat
      <4>1. c \in Leaves
        <5>1. c \in BlocksOf(index) => c \in Leaves
          BY <1>1, EntryIs DEF BlocksOf
        <5> QED
          BY <1>11, <5>1
      <4> QED
        BY <1>1, <4>1, EvenIs DEF Types
    <3>2. CASE c \in {b, old}
      <4>1. Leads(index, old, Hash[n])
        BY <1>1, <1>2, <1>6, <1>7, <3>2 DEF LeavesOk
      <4> QED
        BY <1>7, <1>12, <3>1, <3>2, <4>1
    <3>3. CASE c \notin {b, old}
      BY <1>1, <1>11, <1>12, <3>1, <3>3 DEF LeavesOk
    <3> QED
      BY <3>2, <3>3
  <2>5. BlocksOf(index)' = BlocksOf(r) /\ (\A c, h : Leads(index, c, h)' <=> Leads(r, c, h))
        /\ Contents' = Contents
    BY <1>1, <1>13 DEF BlocksOf, Leads, Fits, Contents
  <2>6. \A u \in Threads : op'[u] # None /\ op'[u].kind = "add" /\ answer'[u] = None
        => op'[u].name \notin Contents
    BY <1>1 DEF LeavesOk
  <2> QED
    BY <1>1, <2>3, <2>4, <2>5, <2>6 DEF LeavesOk
<1>19. Told'
  BY ToldStep
<1>20. IndexOk(index)'
  BY <1>10, <1>13 DEF IndexOk
<1> QED
  BY <1>15, <1>16, <1>17, <1>18, <1>19, <1>20 DEF Data

-----------------------------------------------------------------------------
(***************************************************************************)
(* The invariant, and what follows from it.                                *)
(***************************************************************************)
\* The steps that change neither index nor leaves.
Plain(t) == \/ Call(t) \/ LockTree(t) \/ Relock(t) \/ Probe(t) \/ NotHere(t) \/ IndexFull(t)
\/ NeedSplit(t)
            \/ TryDx(t) \/ Recount(t) \/ Notify(t) \/ Release(t) \/ Released(t)

\* They keep what is known of the data.
LEMMA PlainData ==
  ASSUME Inv, Control', NEW t \in Threads, Plain(t), Continue(t) \/ Call(t), Still(t)
  PROVE  Data'
<1>1. Types /\ Types' /\ IndexOk(index)
  BY DEF Inv, Control, Data
<1>2. index' = index /\ leaf' = leaf /\ used' = used /\ new' = new
  BY
     DEF Plain, Call, LockTree, Relock, Probe, Release, Released, LockDx, LockSpin, Search,
         LockDe, StopListen, NotHere, IndexFull, NeedSplit, TryDx, Recount, Notify, Leave,
         dataVars, local
<1>3. FoundOk(t)' /\ SplitOk(t)'
  <2>1. CASE Search(t) \/ LockDe(t) \/ StopListen(t) \/ NotHere(t) \/ NeedSplit(t) \/ TryDx(t)
             \/ Recount(t) \/ Notify(t)
    BY <2>1, SearchFound, LockDeFound, StopListenFound, NotHereFound, NeedSplitFound,
       TryDxFound, RecountFound, NotifyFound
  <2>2. CASE Call(t) \/ LockTree(t) \/ Relock(t) \/ LockDx(t) \/ LockSpin(t) \/ IndexFull(t)
             \/ Release(t) \/ Released(t)
    <3>1. pc'[t] \in Careless
      <4>1. then[t] \in {"done", "again", "relock"}
        BY <1>1 DEF Types
      <4>2. DOMAIN pc = Threads
        BY <1>1 DEF Types
      <4> QED
        BY <2>2, <4>1, <4>2
           DEF Careless, Call, LockTree, Relock, LockDx, LockSpin, IndexFull, Release, Released,
               Leave, Free, Finish, Goto
    <3> QED
      BY <3>1, CarelessNext
  <2> QED
    BY <2>1, <2>2 DEF Plain, Probe
<1>4. pc[t] \in Moved <=> pc'[t] \in Moved
  <2>1. DOMAIN pc = Threads /\ then[t] \in {"done", "again", "relock"}
    BY <1>1 DEF Types
  <2> QED
    BY <2>1
       DEF Moved, Plain, Call, LockTree, Relock, Probe, Release, Released, LockDx, LockSpin,
           Search, LockDe, StopListen, NotHere, IndexFull, NeedSplit, TryDx, Recount, Notify,
           Leave, Full, Free, Finish, Goto
<1>5. LeavesOk'
  BY <1>1, <1>2, <1>4, LeavesSame DEF dataVars
<1>6. Told'
  BY ToldStep
<1>7. \A u \in Threads : u # t => FoundOk(u)' /\ SplitOk(u)'
  BY <1>2, OthersFound
<1>8. IndexOk(index)'
  BY <1>1, <1>2
<1> QED
  BY <1>3, <1>5, <1>6, <1>7, <1>8 DEF Data

\* Every step keeps the invariant,
LEMMA InvStep ==
  ASSUME Inv, [Next]_vars
  PROVE  Inv'
<1>1. CASE Next
  <2>1. PICK t \in Threads : (Continue(t) /\ UNCHANGED left) \/ Call(t)
    BY <1>1 DEF Next, Continue
  <2>2. Control' /\ Still(t)
    BY <2>1, ControlStep
  <2>3. CASE Plain(t)
    BY <2>1, <2>2, <2>3, PlainData DEF Inv
  <2>4. CASE Continue(t) /\ (Found(t) \/ AddHere(t) \/ Split(t) \/ Insert(t) \/ AddAfterSplit(t))
    BY <2>2, <2>4, FoundData, AddHereData, SplitData, InsertData, AddAfterSplitData DEF Inv
  <2> QED
    BY <2>1, <2>3, <2>4 DEF Plain, Continue, AtLeaf, Splitting
<1>2. CASE UNCHANGED vars
  <2>1. UNCHANGED <<mode, key, told, tree, index, leaf, used, pc, op, answer, left, changed,
        safe, at, block, count, new, then>>
    BY <1>2 DEF vars, lockVars, dataVars, local
  <2>2. Control'
    BY <2>1
       DEF Inv, Control, Types, LockRows, Alone, NamesApart, Lock!Exclusive, Lock!Held, PlaceOk,
           ModesOk, KeysOk, EX, DxMode, DeMode, SpinMode
  <2>3. IndexOk(index)' /\ LeavesOk' /\ Told'
    BY <2>1 DEF Inv, Data, IndexOk, LeavesOk, Told, BlocksOf, Leads, Fits, Contents
  <2>4. ASSUME NEW u \in Threads PROVE FoundOk(u)' /\ SplitOk(u)'
    <3>1. Same(u) /\ (Warned(u) => Warned(u)')
      BY <2>1 DEF Same, Warned, DxLocked, EX, Holds, Lock!Held, H
    <3> QED
      BY <2>1, <3>1, SameData DEF Inv, Data
  <2> QED
    BY <2>2, <2>3, <2>4 DEF Inv, Data
<1> QED
  BY <1>1, <1>2

\* it holds at first,
LEMMA InitInv == Init => Inv
<1> SUFFICES ASSUME Init PROVE Inv
  OBVIOUS
<1>1. PICK s \in Starts :
         /\ index = [i \in DOMAIN s.hashes |-> [hash |-> s.hashes[i], block |-> i]]
         /\ used = DOMAIN s.hashes
         /\ leaf = [b \in Leaves |-> IF b \in used THEN s.leaves[b] ELSE {}]
  BY DEF Init
<1> DEFINE h == s.hashes
           l == s.leaves
           n == Len(h)
<1>2. /\ h \in Seq(Nat) /\ n \in 1 .. Limit /\ h[1] = 0
      /\ l \in [DOMAIN h -> SUBSET Names]
      /\ \A i \in DOMAIN h : IsFiniteSet(l[i]) /\ Cardinality(l[i]) <= Capacity
      /\ \A i, j \in DOMAIN h : i < j => h[i] <= h[j] /\ l[i] \cap l[j] = {}
      /\ \A i \in DOMAIN h : \A m \in l[i] :
           Even(h[i]) <= Hash[m] /\ (i < Len(h) => Hash[m] < h[i + 1])
      /\ 1 .. Limit \subseteq Leaves /\ Limit \in Nat
  BY DirAssumption
<1>3. DOMAIN h = 1 .. n /\ n \in Nat /\ (\A i \in 1 .. n : h[i] \in Nat)
      /\ 1 .. n \subseteq Leaves /\ 1 \in Leaves /\ 1 \in 1 .. n
  BY <1>2
<1> HIDE DEF h, l, n
<1>4. index = [i \in 1 .. n |-> [hash |-> h[i], block |-> i]] /\ used = 1 .. n
      /\ leaf = [b \in Leaves |-> IF b \in 1 .. n THEN l[b] ELSE {}]
  BY <1>1, <1>3 DEF h, l
<1>5. index \in Seq(Entries) /\ Len(index) = n
  <2>1. \A i \in 1 .. n : [hash |-> h[i], block |-> i] \in Entries
    BY <1>3 DEF Entries
  <2>2. \A i \in 1 .. n : index[i] \in Entries
    BY <1>4, <2>1
  <2> QED
    BY <1>3, <1>4, <2>2
<1>6. \A i \in 1 .. n : index[i].hash = h[i] /\ index[i].block = i
  BY <1>4
<1>7. DOMAIN index = 1 .. n
  BY <1>4
<1>8. IndexOk(index)
  BY <1>2, <1>3, <1>5, <1>6, <1>7 DEF IndexOk
<1>9. Types
  <2>1. LockRows
    BY DEF Init, Lock!ChildInit, LockRows
  <2>2. leaf \in [Leaves -> SUBSET Names] /\ used \subseteq Leaves
    BY <1>2, <1>3, <1>4
  <2> QED
    BY <1>3, <2>1, <2>2, DirAssumption DEF Init, Types, Places, Away
<1>10. \A t \in Threads : pc[t] = "idle" /\ op[t] = None /\ answer[t] = None /\ tree[t] = "NL"
       /\ then[t] = "done"
          /\ \A d \in LockTypes : mode[d][t] = "INVAL"
  BY DEF Init, Lock!ChildInit
<1>11. Control
  <2>1. Lock!Exclusive
    BY <1>10 DEF Lock!Exclusive, Lock!Held
  <2>2. ASSUME NEW t \in Threads PROVE PlaceOk(t) /\ ModesOk(t) /\ KeysOk(t)
    BY <1>10 DEF PlaceOk, ModesOk, KeysOk, Away, Changing, OnLeaf, EX, SpinMode, LockTypes
  <2> QED
    BY <1>9, <1>10, <2>1, <2>2 DEF Control, Alone, NamesApart, EX
<1>12. LeavesOk
  <2>1. \A b \in Leaves : leaf[b] = IF b \in 1 .. n THEN l[b] ELSE {}
    BY <1>4
  <2>2. \A b, c \in Leaves : b # c => leaf[b] \cap leaf[c] = {}
    <3> SUFFICES ASSUME NEW b \in 1 .. n, NEW c \in 1 .. n, b # c PROVE l[b] \cap l[c] = {}
      BY <2>1
    <3>1. b \in DOMAIN h /\ c \in DOMAIN h /\ (b < c \/ c < b)
      BY <1>3
    <3>2. b < c => l[b] \cap l[c] = {}
      BY <1>2, <3>1
    <3>3. c < b => l[c] \cap l[b] = {}
      BY <1>2, <3>1
    <3> QED
      BY <3>1, <3>2, <3>3
  <2>3. \A b \in Leaves : IsFiniteSet(leaf[b]) /\ Cardinality(leaf[b]) <= Capacity
    <3>1. IsFiniteSet({}) /\ Cardinality({}) = 0 /\ Capacity \in Nat
      BY FS_EmptySet, DirAssumption
    <3> QED
      BY <1>2, <1>3, <2>1, <3>1
  <2>4. BlocksOf(index) = 1 .. n
    BY <1>6, <1>7 DEF BlocksOf
  <2>5. used = BlocksOf(index) \cup {new[t].block : t \in {u \in Threads : pc[u] \in Moved}}
    BY <1>4, <1>10, <2>4 DEF Moved
  <2>6. \A b \in 1 .. n : \A m \in leaf[b] : Leads(index, b, Hash[m])
    <3> TAKE b \in 1 .. n
    <3> TAKE m \in leaf[b]
    <3>1. m \in l[b]
      BY <1>3, <2>1
    <3>2. Even(h[b]) <= Hash[m] /\ (b < n => Hash[m] < h[b + 1])
      BY <1>2, <1>3, <3>1 DEF n
    <3>3. b < n => index[b + 1].hash = h[b + 1]
      BY <1>3, <1>6
    <3>4. Fits(index, b, Hash[m])
      BY <1>5, <1>6, <3>2, <3>3 DEF Fits
    <3> QED
      BY <1>6, <1>7, <3>4 DEF Leads
  <2> QED
    BY <1>4, <1>10, <2>1, <2>2, <2>3, <2>4, <2>5, <2>6 DEF LeavesOk
<1>13. \A t \in Threads : FoundOk(t) /\ SplitOk(t)
  BY <1>10, CarelessOk DEF Careless
<1>14. Told
  BY <1>10 DEF Told
<1> QED
  BY <1>8, <1>11, <1>12, <1>13, <1>14 DEF Inv, Data

\* and so always.
LEMMA InvHolds == Spec => []Inv
<1>1. Inv /\ [Next]_vars => Inv'
  BY InvStep
<1> QED
  BY InitInv, <1>1, PTL DEF Spec

\* The entries of the index name leaves in use, and no leaf has more names than it
\* holds (do_split makes room before add_dirent_to_buf).
THEOREM DirIndexTypes == Spec => []TypeOK
<1>1. Inv => TypeOK
  <2> SUFFICES ASSUME Inv PROVE TypeOK
    OBVIOUS
  <2>1. Types /\ IndexOk(index) /\ LeavesOk
    BY DEF Inv, Control, Data
  <2>2. \A i \in DOMAIN index : index[i].hash \in Nat /\ index[i].block \in used
    BY <2>1, EntryIs DEF LeavesOk, BlocksOf
  <2> QED
    BY <2>1, <2>2 DEF TypeOK, Types, LeavesOk
<1> QED
  BY <1>1, InvHolds, PTL

\* The position of a thread that splits.
LEMMA AtFound ==
  ASSUME Inv
  PROVE  AtIsRight
<1> SUFFICES ASSUME NEW t \in Threads, pc[t] \in {"split", "notify", "insert"}
             PROVE  at[t] <= Len(index) /\ index[at[t]].block = block[t]
  BY DEF AtIsRight
<1> QED
  BY DEF Inv, Data, SplitOk, AtOk

\* ld_at, saved before SPIN was let go, points at the entry of the locked leaf whenever
\* it is used (namei.c:2704-2719).
THEOREM AtRight == Spec => []AtIsRight
BY AtFound, InvHolds, PTL

\* The leaf of a thread that works on one.
LEMMA LeafFound ==
  ASSUME Inv
  PROVE  LeafIsRight
<1> SUFFICES ASSUME NEW t \in Threads, pc[t] \in {"leaf", "try", "recount", "split"}
             PROVE  block[t] \in Path(H(t))
  BY DEF LeafIsRight
<1>1. Types /\ IndexOk(index) /\ op[t] # None
  BY DEF Inv, Control, Data, PlaceOk
<1>2. op[t].name \in Names /\ H(t) = Hash[op[t].name]
  BY <1>1, OpIs DEF H
<1>3. Leads(index, block[t], H(t))
  BY HereLeads
<1> QED
  BY <1>1, <1>2, <1>3, PathIs

\* A thread works on a leaf its hash leads to, whatever was split between the search
\* and the lock (namei.c:1073-1094).
THEOREM LeafRight == Spec => []LeafIsRight
BY LeafFound, InvHolds, PTL

\* The leaves between two steps of a split.
LEMMA NamesFound ==
  ASSUME Inv
  PROVE  IndexFindsNames
<1>1. Types /\ IndexOk(index) /\ LeavesOk
  BY DEF Inv, Control, Data
<1>2. ASSUME NEW b \in used, NEW n \in leaf[b]
      PROVE  \/ b \in Path(Hash[n])
             \/ \E t \in Threads : pc[t] \in {"notify", "insert"} /\ new[t].block = b
                  /\ block[t] \in Path(Hash[n]) /\ (EX(t) \/ mode["DE"][t] = "PW")
  <2>1. n \in Names
    BY <1>1 DEF Types
  <2>2. CASE b \in BlocksOf(index)
    <3>1. Leads(index, b, Hash[n])
      BY <1>1, <2>2 DEF LeavesOk
    <3> QED
      BY <1>1, <2>1, <3>1, PathIs
  <2>3. CASE b \notin BlocksOf(index)
    <3>1. PICK t \in Threads : pc[t] \in Moved /\ new[t].block = b
      BY <1>1, <2>3 DEF LeavesOk
    <3>2. Leads(index, block[t], Hash[n])
      BY <3>1 DEF Inv, Data, SplitOk
    <3>3. EX(t) \/ mode["DE"][t] = "PW"
      BY <3>1 DEF Inv, Control, PlaceOk, ModesOk, DeMode, Moved, OnLeaf, Changing
    <3> QED
      BY <1>1, <2>1, <3>1, <3>2, <3>3, PathIs DEF Moved
  <2> QED
    BY <2>2, <2>3
<1> QED
  BY <1>1, <1>2 DEF IndexFindsNames, LeavesOk

\* Every name is in one leaf, and a search finds it there, or the thread that has just
\* moved it has the leaf locked where the search comes to (namei.c:1983-2026).
THEOREM NamesAreFound == Spec => []IndexFindsNames
BY NamesFound, InvHolds, PTL

-----------------------------------------------------------------------------
\* A search that gives up gives up rightly.
LEMMA NowhereElse ==
  ASSUME Inv, NEW t \in Threads, NotHere(t), ~Continues(t)
  PROVE  op[t].name \notin Contents
<1>1. /\ Types /\ Control /\ IndexOk(index) /\ LeavesOk /\ PlaceOk(t) /\ FoundOk(t)
           /\ pc[t] = "leaf" /\ op[t] # None /\ op[t].kind # "add"
      /\ op[t].name \notin leaf[block[t]]
  BY DEF Inv, Control, Data, NotHere, PlaceOk, There
<1> DEFINE m == op[t].name
<1>2. m \in Names /\ H(t) = Hash[m] /\ H(t) \in Nat
  BY <1>1, OpIs DEF H
<1> SUFFICES ASSUME NEW b \in Leaves, m \in leaf[b] PROVE FALSE
  BY DEF Contents
<1>3. CASE b \in BlocksOf(index)
  <2>1. PICK j \in DOMAIN index : index[j].block = b
    BY <1>3 DEF BlocksOf
  <2>2. Leads(index, b, H(t)) /\ Fits(index, j, H(t))
    BY <1>1, <1>2, <1>3, <2>1, LeadsFits DEF LeavesOk
  <2>3. CASE DxLocked(t)
    <3>1. AtOk(t) /\ \A i \in 1 .. at[t] - 1 : Fits(index, i, H(t)) => m \notin leaf[index[i].block]
      BY <1>1, <2>3 DEF FoundOk
    <3>2. PICK i \in DOMAIN index : i = at[t]
      BY <1>1, <3>1, AtIs
    <3>3. DOMAIN index = 1 .. Len(index) /\ Len(index) \in Nat
      BY <1>1 DEF IndexOk
    <3>4. j # at[t]
      BY <1>1, <2>1, <3>1 DEF AtOk
    <3>5. ~(j < at[t])
      <4>1. j < at[t] => j \in 1 .. at[t] - 1
        BY <3>2, <3>3
      <4> QED
        BY <2>1, <2>2, <3>1, <4>1
    <3>6. ~(j > i)
      <4>1. Fits(index, i, H(t)) /\ ~(i < Len(index) /\ Even(index[i + 1].hash) = H(t))
        BY <2>3, <3>1, <3>2 DEF AtOk, Continues
      <4> QED
        BY <1>1, <1>2, <2>2, <4>1, NextFits
    <3> QED
      BY <3>2, <3>3, <3>4, <3>5, <3>6
  <2>4. CASE ~DxLocked(t)
    BY <1>1, <2>2, <2>4 DEF FoundOk, Warned
  <2> QED
    BY <2>3, <2>4
<1>4. CASE b \notin BlocksOf(index)
  <2>1. b \in used
    BY <1>1 DEF LeavesOk
  <2>2. PICK u \in Threads : pc[u] \in Moved /\ new[u].block = b
    BY <1>1, <1>4, <2>1 DEF LeavesOk
  <2>3. Leads(index, block[u], H(t)) /\ op[u].kind = "add" /\ u # t /\ pc[u] \in Changing
        /\ block[u] \in Leaves
    BY <1>1, <1>2, <2>2 DEF Inv, Control, Data, SplitOk, PlaceOk, Moved, Changing, Types
  <2>4. ~DxLocked(t)
    BY <1>1, <2>3, OneChanges
  <2>5. block[u] = block[t]
    BY <1>1, <2>3, <2>4 DEF FoundOk, Warned
  <2> QED
    BY <1>1, <2>3, <2>5, OneWrites DEF OnLeaf
<1> QED
  BY <1>3, <1>4

-----------------------------------------------------------------------------
(***************************************************************************)
(* The directory: every operation happens at one step.                     *)
(***************************************************************************)
\* An operation happens when its thread has the answer,
LEMMA Happens ==
  ASSUME NEW t \in Threads, op[t] # None, answer[t] = None, NEW a,
         answer' = [answer EXCEPT ![t] = a], op' = op,
         <<a, Contents'>> \in Dir!Outcomes(op[t])
  PROVE  Dir!Happen(t)
BY DEF Dir!Happen

\* at the leaf where the name was found and deleted,
LEMMA FoundHappens ==
  ASSUME Inv, NEW t \in Threads, Found(t)
  PROVE  Dir!Happen(t)
<1> DEFINE m == op[t].name
           b == block[t]
<1>1. /\ Types /\ LeavesOk /\ pc[t] = "leaf" /\ op[t].kind # "add" /\ op[t] # None
           /\ answer[t] = None
      /\ b \in Leaves /\ op[t].kind \in Kinds /\ m \in leaf[b]
  BY OpIs DEF Inv, Control, Data, Found, PlaceOk, Types, There
<1>2. m \in Contents
  BY <1>1 DEF Contents
<1>3. op' = op /\ answer' = [answer EXCEPT ![t] = "found"]
  BY DEF Found, Finish, Set
<1>4. CASE op[t].kind = "lookup"
  <2>1. leaf' = leaf
    BY <1>4 DEF Found
  <2>2. Contents' = Contents
    BY <2>1 DEF Contents
  <2>3. <<"found", Contents'>> \in Dir!Outcomes(op[t])
    BY <1>2, <1>4, <2>2 DEF Dir!Outcomes
  <2> QED
    BY <1>1, <1>3, <2>3, Happens
<1>5. CASE op[t].kind = "del"
  <2>1. leaf' = [leaf EXCEPT ![b] = leaf[b] \ {m}]
    BY <1>5 DEF Found, Set
  <2>2. leaf'[b] = leaf[b] \ {m} /\ \A c \in Leaves : c # b => leaf'[c] = leaf[c]
        /\ m \notin leaf[c]
    BY <1>1, <2>1 DEF Types, LeavesOk
  <2>3. Contents' = Contents \ {m}
    BY <1>1, <2>2 DEF Contents
  <2>4. <<"found", Contents'>> \in Dir!Outcomes(op[t])
    BY <1>2, <1>5, <2>3 DEF Dir!Outcomes
  <2> QED
    BY <1>1, <1>3, <2>4, Happens
<1> QED
  BY <1>1, <1>4, <1>5 DEF Kinds

\* at the last leaf that was searched: the name is in no other by then,
LEMMA NotHereHappens ==
  ASSUME Inv, NEW t \in Threads, NotHere(t), ~Continues(t)
  PROVE  Dir!Happen(t)
<1>1. /\ op[t] # None /\ answer[t] = None /\ op[t].kind \in Kinds /\ op[t].kind # "add"
      /\ leaf' = leaf /\ op' = op /\ answer' = [answer EXCEPT ![t] = "not_found"]
  BY OpIs DEF Inv, Control, NotHere, PlaceOk, Finish, Set, dataVars
<1>2. op[t].name \notin Contents /\ Contents' = Contents
  BY <1>1, NowhereElse DEF Contents
<1>3. Contents' = Contents \ {op[t].name}
  BY <1>2
<1>4. <<"not_found", Contents'>> \in Dir!Outcomes(op[t])
  BY <1>1, <1>2, <1>3 DEF Dir!Outcomes, Kinds
<1> QED
  BY <1>1, <1>4, Happens

\* when the name is in a leaf,
LEMMA AddHappens ==
  ASSUME Inv, NEW t \in Threads, AddHere(t) \/ AddAfterSplit(t)
  PROVE  Dir!Happen(t)
<1>1. /\ op[t] # None /\ answer[t] = None /\ op[t].kind = "add" /\ block[t] \in Leaves
      /\ op' = op /\ answer' = [answer EXCEPT ![t] = "done"]
      /\ leaf' = [leaf EXCEPT ![block[t]] = leaf[block[t]] \cup {op[t].name}]
           /\ leaf \in [Leaves -> SUBSET Names]
  BY DEF Inv, Control, AddHere, AddAfterSplit, PlaceOk, Finish, Set, Types, Changing
<1>2. /\ leaf'[block[t]] = leaf[block[t]] \cup {op[t].name}
      /\ \A c \in Leaves : c # block[t] => leaf'[c] = leaf[c]
  BY <1>1
<1>3. Contents' = Contents \cup {op[t].name}
  BY <1>1, <1>2 DEF Contents
<1>4. <<"done", Contents'>> \in Dir!Outcomes(op[t])
  BY <1>1, <1>3 DEF Dir!Outcomes
<1> QED
  BY <1>1, <1>4, Happens

\* or when there is no space for it.
LEMMA NoSpaceHappens ==
  ASSUME Inv, NEW t \in Threads, op[t] # None, op[t].kind = "add", answer[t] = None,
         UNCHANGED <<leaf, op>>,
         answer' = [answer EXCEPT ![t] = "no_space"]
  PROVE  Dir!Happen(t)
<1>1. Contents' = Contents
  BY DEF Contents
<1>2. <<"no_space", Contents'>> \in Dir!Outcomes(op[t])
  BY <1>1 DEF Dir!Outcomes
<1> QED
  BY <1>2, Happens

\* The names that do_split moves stay in the directory.
LEMMA SplitKeeps ==
  ASSUME Inv, NEW t \in Threads, NEW U, NEW g, NEW b, NEW low, Parted(t, U, g, b, low)
  PROVE  Contents' = Contents
<1> DEFINE S == leaf[block[t]]
           mine == IF low THEN S \ U ELSE U
           moved == IF low THEN U ELSE S \ U
<1>1. /\ b \in Leaves \ used /\ U \subseteq S
           /\ leaf' = [leaf EXCEPT ![block[t]] = mine, ![b] = moved]
      /\ block[t] \in Leaves /\ leaf \in [Leaves -> SUBSET Names]
      /\ \A c \in Leaves \ used : leaf[c] = {}
  BY DEF Parted, Uppers, Inv, Control, Data, Types, LeavesOk
<1>2. mine \cup moved = S /\ leaf[b] = {}
  BY <1>1
<1>3. CASE b = block[t]
  <2>1. S = {} /\ moved = {} /\ mine = {}
    BY <1>1, <1>2, <1>3
  <2>2. leaf' = leaf
    BY <1>1, <1>3, <2>1
  <2> QED
    BY <2>2 DEF Contents
<1>4. CASE b # block[t]
  <2>1. /\ leaf'[block[t]] = mine /\ leaf'[b] = moved
        /\ \A c \in Leaves : c # block[t] /\ c # b => leaf'[c] = leaf[c]
    BY <1>1, <1>4
  <2> HIDE DEF mine, moved
  <2>2. ASSUME NEW n PROVE n \in Contents' <=> n \in Contents
    BY <1>1, <1>2, <1>4, <2>1 DEF Contents
  <2> QED
    BY <2>2 DEF Contents
<1> QED
  BY <1>3, <1>4

\* Every step is a step of the directory or leaves it alone.
LEMMA DirStep ==
  ASSUME Inv, [Next]_vars
  PROVE  [Dir!DirNext]_Dir!dirVars
<1> SUFFICES ASSUME Next PROVE Dir!DirNext \/ UNCHANGED <<Contents, op, answer>>
  BY DEF vars, dataVars, Contents, Dir!dirVars
<1>1. PICK t \in Threads : Call(t) \/ Continue(t)
  BY DEF Next
<1>2. Types /\ PlaceOk(t)
  BY DEF Inv, Control
<1>3. CASE Call(t)
  <2>1. Contents' = Contents /\ op[t] = None
    BY <1>2, <1>3 DEF Call, dataVars, Contents, PlaceOk
  <2>2. Dir!Call(t)
    BY <1>3, <2>1 DEF Call, Dir!Call, Set
  <2> QED
    BY <2>2 DEF Dir!DirNext
<1>4. CASE LockTree(t) \/ Relock(t) \/ Probe(t) \/ NeedSplit(t) \/ TryDx(t) \/ Recount(t)
           \/ Notify(t) \/ Release(t)
  <2>1. UNCHANGED <<leaf, op, answer>>
    BY <1>4
       DEF LockTree, Relock, Probe, NeedSplit, TryDx, Recount, Notify, Release, LockDx,
           LockSpin, Search, LockDe, StopListen, dataVars
  <2> QED
    BY <2>1 DEF Contents
<1>5. CASE Found(t)
  BY <1>5, FoundHappens DEF Dir!DirNext
<1>6. CASE NotHere(t)
  <2>1. CASE Continues(t)
    <3>1. UNCHANGED <<leaf, op, answer>>
      BY <1>6, <2>1 DEF NotHere, dataVars
    <3> QED
      BY <3>1 DEF Contents
  <2>2. CASE ~Continues(t)
    BY <1>6, <2>2, NotHereHappens DEF Dir!DirNext
  <2> QED
    BY <2>1, <2>2
<1>7. CASE AddHere(t) \/ AddAfterSplit(t)
  BY <1>7, AddHappens DEF Dir!DirNext
<1>8. CASE IndexFull(t)
  <2>1. /\ op[t] # None /\ op[t].kind = "add" /\ answer[t] = None /\ UNCHANGED <<leaf, op>>
        /\ UNCHANGED answer \/ answer' = [answer EXCEPT ![t] = "no_space"]
    BY <1>2, <1>8 DEF IndexFull, Full, PlaceOk, Finish, Set, dataVars
  <2>2. CASE UNCHANGED answer
    BY <2>1, <2>2 DEF Contents
  <2>3. CASE answer' = [answer EXCEPT ![t] = "no_space"]
    BY <2>1, <2>3, NoSpaceHappens DEF Dir!DirNext
  <2> QED
    BY <2>1, <2>2, <2>3
<1>9. CASE Split(t)
  <2>1. /\ op[t] # None /\ op[t].kind = "add" /\ answer[t] = None /\ op' = op
             /\ pc[t] \in Changing \ Moved
        /\ IndexOk(index) /\ LeavesOk /\ Control /\ Len(index) < Limit
    BY <1>9 DEF Inv, Control, Data, Split, PlaceOk, SplitOk, Changing, Moved
  <2>2. used = BlocksOf(index)
    BY <2>1, AllIndexed
  <2>3. \/ answer' = Set(answer, t, "no_space") /\ leaf' = leaf
        \/ (\E U, g, b, low : Parted(t, U, g, b, low)) /\ answer' = answer
    BY <1>2, <1>9, <2>1, <2>2, SplitIs
  <2>4. CASE answer' = Set(answer, t, "no_space") /\ leaf' = leaf
    BY <2>1, <2>4, NoSpaceHappens DEF Dir!DirNext, Set
  <2>5. CASE (\E U, g, b, low : Parted(t, U, g, b, low)) /\ answer' = answer
    BY <2>1, <2>5, SplitKeeps
  <2> QED
    BY <2>3, <2>4, <2>5
<1>10. CASE Insert(t)
  <2>1. UNCHANGED <<leaf, op, answer>>
    BY <1>10 DEF Insert
  <2> QED
    BY <2>1 DEF Contents
<1>11. CASE Released(t)
  <2>1. leaf' = leaf /\ pc[t] = "free"
    BY <1>11 DEF Released, Leave, dataVars
  <2>2. CASE then[t] = "done"
    <3>1. answer[t] # None
      BY <1>2, <2>1, <2>2 DEF PlaceOk
    <3>2. op' = [op EXCEPT ![t] = None] /\ answer' = [answer EXCEPT ![t] = None]
          /\ Contents' = Contents
      BY <1>11, <2>1, <2>2 DEF Released, Leave, Set, Contents
    <3>3. Dir!Return(t)
      BY <3>1, <3>2 DEF Dir!Return
    <3> QED
      BY <3>3 DEF Dir!DirNext
  <2>3. CASE then[t] # "done"
    <3>1. UNCHANGED <<leaf, op, answer>>
      BY <1>11, <2>1, <2>3 DEF Released, Leave
    <3> QED
      BY <3>1 DEF Contents
  <2> QED
    BY <2>2, <2>3
<1> QED
  BY <1>1, <1>3, <1>4, <1>5, <1>6, <1>7, <1>8, <1>9, <1>10, <1>11
     DEF Continue, AtLeaf, Splitting

\* The directory is a set of names with atomic operations (Directory): no split, however
\* it interleaves with searches, additions and deletions, loses a name, shows one twice
\* or makes an operation answer what was not so.
THEOREM DirectoryImplemented == Spec => DirectoryKept
<1>1. Init => Dir!DirInit
  <2> SUFFICES ASSUME Init PROVE Dir!DirInit
    OBVIOUS
  <2>1. leaf \in [Leaves -> SUBSET Names]
    BY InitInv DEF Inv, Control, Types
  <2>2. Contents \subseteq Names
    BY <2>1 DEF Contents
  <2> QED
    BY <2>2 DEF Init, Dir!DirInit
<1>2. Inv /\ [Next]_vars => [Dir!DirNext]_Dir!dirVars
  BY DirStep
<1> QED
  BY <1>1, <1>2, InvHolds, PTL DEF Spec, DirectoryKept, Dir!DirSpec

=============================================================================
