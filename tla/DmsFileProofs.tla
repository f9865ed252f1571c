--------------------------- MODULE DmsFileProofs ---------------------------
(***************************************************************************)
(* Proofs about DmsFile, for any number of threads, documents, segments,   *)
(* pages per segment and crashes: FileInvariant and MapInvariant are       *)
(* inductive, and the properties of rids and of the free-space map follow. *)
(***************************************************************************)
EXTENDS DmsFile, NaturalFacts, SequenceTheorems, TLAPS

-----------------------------------------------------------------------------
(* The free-space map as a sequence.                                       *)

\* c holds the elements of a and then those of b.
Joins(c, a, b) ==
    /\ c \in Seq(Entries)
    /\ Len(c) = Len(a) + Len(b)
    /\ \A k \in 1 .. Len(a) : c[k] = a[k]
    /\ \A k \in 1 .. Len(b) : c[Len(a) + k] = b[k]

\* s is m with e put in behind its first i elements, or without element i.
PutsIn(s, m, e, i) ==
    /\ s \in Seq(Entries)
    /\ Len(s) = Len(m) + 1
    /\ \A k \in 1 .. i : s[k] = m[k]
    /\ s[i + 1] = e
    /\ \A k \in i + 1 .. Len(m) : s[k + 1] = m[k]

TakesOut(s, m, i) ==
    /\ s \in Seq(Entries)
    /\ Len(s) = Len(m) - 1
    /\ \A k \in 1 .. i - 1 : s[k] = m[k]
    /\ \A k \in i + 1 .. Len(m) : s[k - 1] = m[k]

\* The elements of a concatenation, and of a part of a sequence.
LEMMA Glued ==
    ASSUME NEW a \in Seq(Entries), NEW b \in Seq(Entries)
    PROVE  Joins(a \o b, a, b)
<1>1. /\ a \o b \in Seq(Entries) /\ Len(a \o b) = Len(a) + Len(b)
      /\ \A k \in 1 .. Len(a) + Len(b) : (a \o b)[k] = IF k <= Len(a) THEN a[k] ELSE b[k - Len(a)]
  BY ConcatProperties, Zenon
<1>2. Len(a) \in Nat /\ Len(b) \in Nat
  BY LenProperties, Zenon
<1>3. ASSUME NEW k \in 1 .. Len(a) PROVE (a \o b)[k] = a[k]
  <2>1. k \in 1 .. Len(a) + Len(b) /\ k <= Len(a)
    BY <1>2
  <2>2. QED  BY <1>1, <2>1, Zenon
<1>4. ASSUME NEW k \in 1 .. Len(b) PROVE (a \o b)[Len(a) + k] = b[k]
  <2>1. Len(a) + k \in 1 .. Len(a) + Len(b) /\ ~(Len(a) + k <= Len(a)) /\ (Len(a) + k) - Len(a) = k
    BY <1>2
  <2>2. QED  BY <1>1, <2>1, Zenon
<1>5. QED  BY <1>1, <1>3, <1>4, Zenon DEF Joins

LEMMA PartOf ==
    ASSUME NEW S, NEW m \in Seq(S), NEW l \in Nat, NEW h \in Nat, l <= h, h <= Len(m),
           NEW a, a = SubSeq(m, l + 1, h)
    PROVE  a \in Seq(S) /\ Len(a) = h - l /\ \A k \in 1 .. h - l : a[k] = m[l + k]
<1>1. \A k \in l + 1 .. h : m[k] \in S
  <2>1. \A k \in 1 .. Len(m) : m[k] \in S
    BY ElementOfSeq, Zenon
  <2>2. Len(m) \in Nat
    BY LenProperties, Zenon
  <2>3. \A k \in l + 1 .. h : k \in 1 .. Len(m)
    BY <2>2
  <2>4. QED  BY <2>1, <2>3, Zenon
<1>2. l + 1 \in Int /\ h \in Int
  OBVIOUS
<1>3. /\ a \in Seq(S) /\ Len(a) = IF l + 1 <= h THEN h - (l + 1) + 1 ELSE 0
      /\ \A k \in 1 .. h - (l + 1) + 1 : a[k] = m[(l + 1) + k - 1]
  BY <1>1, <1>2, SubSeqProperties, SMTT(30)
<1>4. h - (l + 1) + 1 = h - l /\ \A k \in Int : (l + 1) + k - 1 = l + k
  OBVIOUS
<1>5. ~(l + 1 <= h) => h - l = 0
  OBVIOUS
<1>6. Len(a) = h - l
  BY <1>3, <1>4, <1>5, Zenon
<1>7. ASSUME NEW k \in 1 .. h - l PROVE a[k] = m[l + k]
  <2>1. k \in Int
    OBVIOUS
  <2>2. QED  BY <1>3, <1>4, <2>1, Zenon
<1>8. QED  BY <1>3, <1>6, <1>7, Zenon

\* An element put between two parts of a sequence.
LEMMA Spliced ==
    ASSUME NEW m \in Seq(Entries), NEW e \in Entries, NEW n \in Nat, n = Len(m), NEW i \in 0 .. n
    PROVE  PutsIn(SubSeq(m, 1, i) \o <<e>> \o SubSeq(m, i + 1, n), m, e, i)
<1> DEFINE a == SubSeq(m, 1, i)
           b == SubSeq(m, i + 1, n)
           one == <<e>>
           c == a \o one
           s == c \o b
<1>1. i \in Nat /\ 0 <= i /\ i <= n /\ n <= n /\ n - i \in Nat /\ i + 1 \in Nat /\ 0 + 1 = 1
      /\ i - 0 = i /\ (i + 1) + (n - i) = n + 1
  OBVIOUS
<1>2. a \in Seq(Entries) /\ Len(a) = i /\ \A k \in 1 .. i : a[k] = m[0 + k]
  <2>1. a = SubSeq(m, 0 + 1, i) /\ 0 \in Nat /\ i <= Len(m)
    BY <1>1, Zenon
  <2> HIDE DEF a
  <2>2. a \in Seq(Entries) /\ Len(a) = i - 0 /\ \A k \in 1 .. i - 0 : a[k] = m[0 + k]
    BY <1>1, <2>1, PartOf, SMTT(30)
  <2>3. QED  BY <1>1, <2>2, Zenon
<1>3. b \in Seq(Entries) /\ Len(b) = n - i /\ \A k \in 1 .. n - i : b[k] = m[i + k]
  BY <1>1, PartOf, SMTT(30)
<1>4. one \in Seq(Entries) /\ Len(one) = 1 /\ 1 \in 1 .. 1 /\ one[1] = e
  OBVIOUS
<1> HIDE DEF a, b, one
<1>5. Joins(c, a, one)
  BY <1>2, <1>4, Glued, Zenon
<1>6. /\ c \in Seq(Entries) /\ Len(c) = i + 1
      /\ \A k \in 1 .. i : c[k] = a[k]
      /\ c[i + 1] = e
  BY <1>2, <1>4, <1>5, Zenon DEF Joins
<1> HIDE DEF c
<1>7. Joins(s, c, b)
  BY <1>3, <1>6, Glued, Zenon
<1>8. /\ s \in Seq(Entries) /\ Len(s) = (i + 1) + (n - i)
      /\ \A k \in 1 .. i + 1 : s[k] = c[k]
      /\ \A k \in 1 .. n - i : s[(i + 1) + k] = b[k]
  BY <1>3, <1>6, <1>7, Zenon DEF Joins
<1> HIDE DEF s
<1>9. ASSUME NEW k \in 1 .. i PROVE s[k] = m[k]
  <2>1. k \in 1 .. i + 1 /\ 0 + k = k
    OBVIOUS
  <2>2. s[k] = c[k] /\ c[k] = a[k] /\ a[k] = m[0 + k]
    BY <1>2, <1>6, <1>8, <2>1, Zenon
  <2>3. QED  BY <2>1, <2>2, Zenon
<1>10. s[i + 1] = e
  <2>1. i + 1 \in 1 .. i + 1
    OBVIOUS
  <2>2. QED  BY <1>6, <1>8, <2>1, Zenon
<1>11. ASSUME NEW k \in i + 1 .. n PROVE s[k + 1] = m[k]
  <2>1. k - i \in 1 .. n - i /\ i + (k - i) = k /\ (i + 1) + (k - i) = k + 1
    OBVIOUS
  <2>2. s[(i + 1) + (k - i)] = b[k - i] /\ b[k - i] = m[i + (k - i)]
    BY <1>3, <1>8, <2>1, Zenon
  <2>3. QED  BY <2>1, <2>2, Zenon
<1>12. PutsIn(s, m, e, i)
  BY <1>1, <1>8, <1>9, <1>10, <1>11, Zenon DEF PutsIn
<1>13. QED  BY <1>12, Zenon DEF s, c, b, a, one

\* A sequence without one of its elements.
LEMMA Cut ==
    ASSUME NEW m \in Seq(Entries), NEW n \in Nat, n = Len(m), NEW i \in 1 .. n
    PROVE  TakesOut(SubSeq(m, 1, i - 1) \o SubSeq(m, i + 1, n), m, i)
<1> DEFINE a == SubSeq(m, 1, i - 1)
           b == SubSeq(m, i + 1, n)
           s == a \o b
<1>1. i \in Nat /\ i - 1 \in Nat /\ 0 <= i - 1 /\ i - 1 <= n /\ i <= n /\ n <= n /\ n - i \in Nat
      /\ 0 + 1 = 1 /\ (i - 1) - 0 = i - 1 /\ (i - 1) + (n - i) = n - 1 /\ 0 \in Nat
  OBVIOUS
<1>2. a \in Seq(Entries) /\ Len(a) = i - 1 /\ \A k \in 1 .. i - 1 : a[k] = m[0 + k]
  <2>1. a = SubSeq(m, 0 + 1, i - 1) /\ i - 1 <= Len(m)
    BY <1>1, Zenon
  <2> HIDE DEF a
  <2>2. a \in Seq(Entries) /\ Len(a) = (i - 1) - 0 /\ \A k \in 1 .. (i - 1) - 0 : a[k] = m[0 + k]
    BY <1>1, <2>1, PartOf, SMTT(30)
  <2>3. QED  BY <1>1, <2>2, Zenon
<1>3. b \in Seq(Entries) /\ Len(b) = n - i /\ \A k \in 1 .. n - i : b[k] = m[i + k]
  BY <1>1, PartOf, SMTT(30)
<1> HIDE DEF a, b
<1>4. Joins(s, a, b)
  BY <1>2, <1>3, Glued, Zenon
<1>5. /\ s \in Seq(Entries) /\ Len(s) = (i - 1) + (n - i)
      /\ \A k \in 1 .. i - 1 : s[k] = a[k]
      /\ \A k \in 1 .. n - i : s[(i - 1) + k] = b[k]
  BY <1>2, <1>3, <1>4, Zenon DEF Joins
<1> HIDE DEF s
<1>6. ASSUME NEW k \in 1 .. i - 1 PROVE s[k] = m[k]
  <2>1. 0 + k = k
    OBVIOUS
  <2>2. s[k] = a[k] /\ a[k] = m[0 + k]
    BY <1>2, <1>5, Zenon
  <2>3. QED  BY <2>1, <2>2, Zenon
<1>7. ASSUME NEW k \in i + 1 .. n PROVE s[k - 1] = m[k]
  <2>1. k - i \in 1 .. n - i /\ i + (k - i) = k /\ (i - 1) + (k - i) = k - 1
    OBVIOUS
  <2>2. s[(i - 1) + (k - i)] = b[k - i] /\ b[k - i] = m[i + (k - i)]
    BY <1>3, <1>5, <2>1, Zenon
  <2>3. QED  BY <2>1, <2>2, Zenon
<1>8. TakesOut(s, m, i)
  BY <1>1, <1>5, <1>6, <1>7, Zenon DEF TakesOut
<1>9. QED  BY <1>8, Zenon DEF s, b, a

\* s is m with e somewhere in it.
Inserts(s, m, e) ==
    /\ s \in Seq(Entries)
    /\ Len(s) = Len(m) + 1
    /\ \E k \in 1 .. Len(s) : s[k] = e
    /\ \A i \in 1 .. Len(m) : \E k \in 1 .. Len(s) : s[k] = m[i]

\* multimap::insert adds the entry and keeps all others.
LEMMA MapInsertInserts ==
    ASSUME NEW m \in Seq(Entries), NEW e \in Entries, NEW s, s = MapInsert(m, e)
    PROVE  Inserts(s, m, e)
<1> DEFINE n == Len(m)
           Place(j) == /\ \A k \in 1 .. j : m[k].free <= e.free
                       /\ j = n \/ m[j + 1].free > e.free
           T == {j \in 0 .. n : j = n \/ m[j + 1].free > e.free}
<1>1. n \in Nat /\ e.free \in Nat /\ \A k \in 1 .. n : m[k].free \in Nat
  <2>1. n \in Nat /\ \A k \in 1 .. n : m[k] \in Entries
    BY ElementOfSeq, LenProperties, Zenon
  <2>2. \A x \in Entries : x.free \in Nat
    BY DEF Entries
  <2>3. QED  BY <2>1, <2>2, Zenon
<1>2. n \in T /\ T \subseteq Nat
  BY <1>1
<1>3. PICK x \in T : \A y \in T : x <= y
  BY <1>2, LeastNatural
<1>4. Place(x)
  <2>1. ASSUME NEW k \in 1 .. x PROVE m[k].free <= e.free
    <3>1. k - 1 \in 0 .. n /\ ~(x <= k - 1) /\ k - 1 # n /\ k \in 1 .. n
      BY <1>1, <1>3
    <3>2. k - 1 \notin T
      BY <1>3, <3>1
    <3>3. ~(m[(k - 1) + 1].free > e.free)
      BY <3>1, <3>2
    <3>4. (k - 1) + 1 = k /\ m[k].free \in Nat
      BY <1>1, <3>1
    <3>5. QED  BY <1>1, <3>3, <3>4
  <2>2. QED  BY <1>3, <2>1
<1> DEFINE i == CHOOSE j \in 0 .. n : Place(j)
<1>5. i \in 0 .. n
  BY <1>1, <1>3, <1>4
<1>6. s = SubSeq(m, 1, i) \o <<e>> \o SubSeq(m, i + 1, n)
  BY DEF MapInsert
<1> HIDE DEF i, n
<1>7. n = Len(m)
  BY DEF n
<1>8. /\ s \in Seq(Entries) /\ Len(s) = n + 1
      /\ \A k \in 1 .. i : s[k] = m[k]
      /\ s[i + 1] = e
      /\ \A k \in i + 1 .. n : s[k + 1] = m[k]
  <2>1. PutsIn(s, m, e, i)
    BY <1>1, <1>5, <1>6, <1>7, Spliced, Zenon
  <2>2. QED  BY <1>7, <2>1, Zenon DEF PutsIn
<1>9. \E k \in 1 .. Len(s) : s[k] = e
  BY <1>1, <1>5, <1>8
<1>10. ASSUME NEW j \in 1 .. n PROVE \E k \in 1 .. Len(s) : s[k] = m[j]
  <2>1. CASE j <= i
    <3>1. j \in 1 .. i /\ j \in 1 .. n + 1
      BY <1>1, <1>5, <2>1
    <3>2. QED  BY <1>8, <3>1, Zenon
  <2>2. CASE j > i
    <3>1. j \in i + 1 .. n /\ j + 1 \in 1 .. n + 1
      BY <1>1, <1>5, <2>2
    <3>2. QED  BY <1>8, <3>1, Zenon
  <2>3. j <= i \/ j > i
    BY <1>1, <1>5
  <2>4. QED  BY <2>1, <2>2, <2>3
<1>11. QED  BY <1>7, <1>8, <1>9, <1>10, Zenon DEF Inserts

LEMMA MapInsertTyped ==
    ASSUME NEW m \in Seq(Entries), NEW e \in Entries
    PROVE  MapInsert(m, e) \in Seq(Entries)
<1>1. PICK s : s = MapInsert(m, e)
  OBVIOUS
<1>2. Inserts(s, m, e)
  BY <1>1, MapInsertInserts, Zenon
<1>3. QED  BY <1>1, <1>2, Zenon DEF Inserts

\* multimap::erase takes out at most one entry, and only an equal one.
LEMMA MapEraseProperties ==
    ASSUME NEW m \in Seq(Entries), NEW e, NEW s, s = MapErase(m, e)
    PROVE  /\ s \in Seq(Entries)
           /\ Len(s) = IF \E i \in 1 .. Len(m) : m[i] = e THEN Len(m) - 1 ELSE Len(m)
           /\ \A i \in 1 .. Len(m) : m[i] # e => \E k \in 1 .. Len(s) : s[k] = m[i]
<1> DEFINE n == Len(m)
           T == {j \in 1 .. n : m[j] = e}
           First(j) == m[j] = e /\ \A k \in 1 .. j - 1 : m[k] # e
<1>1. n \in Nat
  OBVIOUS
<1>2. CASE ~\E i \in 1 .. n : m[i] = e
  <2>1. s = m
    BY <1>2 DEF MapErase
  <2>2. QED  BY <1>2, <2>1
<1>3. CASE \E i \in 1 .. n : m[i] = e
  <2>1. T # {} /\ T \subseteq Nat
    BY <1>1, <1>3
  <2>2. PICK x \in T : \A y \in T : x <= y
    BY <2>1, LeastNatural
  <2>3. First(x)
    <3>1. ASSUME NEW k \in 1 .. x - 1, m[k] = e PROVE FALSE
      <4>1. k \in T /\ ~(x <= k)
        BY <1>1, <3>1
      <4>2. QED  BY <2>2, <4>1
    <3>2. QED  BY <3>1
  <2> DEFINE i == CHOOSE j \in 1 .. n : First(j)
  <2>4. i \in 1 .. n /\ First(i)
    BY <2>3
  <2>5. s = SubSeq(m, 1, i - 1) \o SubSeq(m, i + 1, n)
    BY <1>3 DEF MapErase
  <2> HIDE DEF i, n
  <2>6. /\ s \in Seq(Entries) /\ Len(s) = n - 1
        /\ \A k \in 1 .. i - 1 : s[k] = m[k]
        /\ \A k \in i + 1 .. n : s[k - 1] = m[k]
    <3>1. n = Len(m)
      BY DEF n
    <3>2. TakesOut(s, m, i)
      BY <1>1, <2>4, <2>5, <3>1, Cut, Zenon
    <3>3. QED  BY <3>1, <3>2, Zenon DEF TakesOut
  <2>7. ASSUME NEW j \in 1 .. n, m[j] # e PROVE \E k \in 1 .. Len(s) : s[k] = m[j]
    <3>1. j # i
      BY <2>4, <2>7
    <3>2. CASE j < i
      <4>1. j \in 1 .. i - 1 /\ j \in 1 .. Len(s)
        BY <1>1, <2>4, <2>6, <3>2
      <4>2. QED  BY <2>6, <4>1
    <3>3. CASE j > i
      <4>1. j \in i + 1 .. n /\ j - 1 \in 1 .. Len(s)
        BY <1>1, <2>4, <2>6, <3>3
      <4>2. QED  BY <2>6, <4>1
    <3>4. QED  BY <2>4, <3>1, <3>2, <3>3
  <2>8. QED  BY <1>3, <2>6, <2>7 DEF n
<1>4. QED  BY <1>2, <1>3
-----------------------------------------------------------------------------
(* Pages of the file.                                                      *)

Disks == [Segments -> [InSegment -> Pages]]
Bodies == {b \in Seq(Segments) : \A i, j \in 1 .. Len(b) : b[i] = b[j] => i = j}
Covers(b, p) == p \in Nat /\ p < Len(b) * PagesPerSegment

\* A mapped page id denotes a page of the file.
LEMMA PageInFile ==
    ASSUME NEW d \in Disks, NEW b \in Seq(Segments), NEW p, Covers(b, p)
    PROVE  /\ p \div PagesPerSegment + 1 \in 1 .. Len(b)
           /\ b[p \div PagesPerSegment + 1] \in Segments
           /\ p % PagesPerSegment \in InSegment
           /\ PageIn(d, b, p) \in Pages
<1>1. PagesPerSegment \in Nat \ {0} /\ p \in Nat /\ p < Len(b) * PagesPerSegment /\ Len(b) \in Nat
  BY PageAssumption DEF Covers
<1>2. p \div PagesPerSegment \in 0 .. Len(b) - 1
  BY <1>1, QuotientLess, Zenon
<1>3. p % PagesPerSegment \in InSegment
  BY <1>1, Division, Zenon DEF InSegment
<1> DEFINE i == p \div PagesPerSegment + 1
<1>4. i \in 1 .. Len(b)
  BY <1>1, <1>2
<1> HIDE DEF i
<1>5. b[i] \in Segments
  BY <1>4, ElementOfSeq, Zenon
<1>6. d[b[i]][p % PagesPerSegment] \in Pages
  BY <1>3, <1>5, Zenon DEF Disks
<1>7. QED  BY <1>3, <1>4, <1>5, <1>6, Zenon DEF i, PageIn

\* An empty page, new or formatted.
LEMMA EmptyPages == BlankPage \in Pages /\ FreshPage \in Pages
<1>1. /\ <<>> \in Seq(Docs \cup {None, Stray}) /\ PageFree \in Nat
      /\ <<>> \in Seq({None} \cup IF TRUE THEN Docs ELSE {Stray})
  BY PageAssumption
<1>2. /\ BlankPage.slots = <<>> /\ BlankPage.whole = TRUE /\ BlankPage.slotOffset = 0
      /\ BlankPage.freeOffset = 0 /\ FreshPage.slots = <<>> /\ FreshPage.whole = TRUE
      /\ FreshPage.slotOffset = 0 /\ FreshPage.freeOffset = PageFree
      /\ {BlankPage, FreshPage} \subseteq
            [magic : BOOLEAN, free : Nat, slotOffset : Nat, freeOffset : Nat,
             slots : Seq(Docs \cup {None, Stray}), whole : BOOLEAN]
  BY <1>1 DEF BlankPage, FreshPage
<1>3. QED  BY <1>1, <1>2 DEF Pages

\* Different page ids denote different pages.
LEMMA PagesApart ==
    ASSUME NEW b \in Bodies, NEW p, NEW q, Covers(b, p), Covers(b, q),
           b[p \div PagesPerSegment + 1] = b[q \div PagesPerSegment + 1],
           p % PagesPerSegment = q % PagesPerSegment
    PROVE  p = q
<1>1. PagesPerSegment \in Nat \ {0} /\ p \in Nat /\ q \in Nat
  BY PageAssumption DEF Covers
<1>2. PICK d \in Disks : TRUE
  <2>1. BlankPage \in Pages
    BY EmptyPages
  <2>2. [s \in Segments |-> [i \in InSegment |-> BlankPage]] \in Disks
    BY <2>1 DEF Disks
  <2>3. QED  BY <2>2
<1>3. b \in Seq(Segments)
  BY DEF Bodies
<1>4. p \div PagesPerSegment + 1 \in 1 .. Len(b) /\ q \div PagesPerSegment + 1 \in 1 .. Len(b)
  BY <1>2, <1>3, PageInFile, Zenon
<1>5. p \div PagesPerSegment + 1 = q \div PagesPerSegment + 1
  BY <1>4, Zenon DEF Bodies
<1>6. /\ p \div PagesPerSegment \in Nat /\ q \div PagesPerSegment \in Nat
      /\ p = (p \div PagesPerSegment) * PagesPerSegment + (p % PagesPerSegment)
      /\ q = (q \div PagesPerSegment) * PagesPerSegment + (q % PagesPerSegment)
  BY <1>1, Division, Zenon
<1>7. p \div PagesPerSegment = q \div PagesPerSegment
  BY <1>5, <1>6
<1>8. QED  BY <1>6, <1>7, Zenon

\* A page that is written is read back, and no other page changes.
Writes(e, d, b, p, page) ==
    /\ e \in Disks
    /\ \A q \in Nat : Covers(b, q) => PageIn(e, b, q) = IF q = p THEN page ELSE PageIn(d, b, q)
    /\ \A s \in Segments : (\A i \in 1 .. Len(b) : b[i] # s) => e[s] = d[s]

\* On disk e, page q is the given page if it is p, and what it was on d if not.
Reads(e, d, b, p, page, q) == PageIn(e, b, q) = IF q = p THEN page ELSE PageIn(d, b, q)

LEMMA PutPageReads ==
    ASSUME NEW d \in Disks, NEW b \in Bodies, NEW p, Covers(b, p), NEW page,
           NEW q, Covers(b, q)
    PROVE  Reads(PutPage(d, b, p, page), d, b, p, page, q)
<1> DEFINE s == b[p \div PagesPerSegment + 1]
           k == p % PagesPerSegment
           u == b[q \div PagesPerSegment + 1]
           j == q % PagesPerSegment
           e == PutPage(d, b, p, page)
<1>0. b \in Seq(Segments)
  BY DEF Bodies
<1>1. s \in Segments /\ k \in InSegment /\ u \in Segments /\ j \in InSegment
  BY <1>0, PageInFile, Zenon
<1>2. e = [d EXCEPT ![s] = [d[s] EXCEPT ![k] = page]]
  BY DEF PutPage
<1>3. u = s /\ j = k => q = p
  BY PagesApart, Zenon
<1>4. q = p => u = s /\ j = k
  OBVIOUS
<1>5. PageIn(e, b, q) = e[u][j] /\ PageIn(d, b, q) = d[u][j]
  BY DEF PageIn
<1> HIDE DEF u, j, s, k, e
<1>6. e[u][j] = IF u = s /\ j = k THEN page ELSE d[u][j]
  BY <1>1, <1>2 DEF Disks
<1>7. PageIn(e, b, q) = IF q = p THEN page ELSE PageIn(d, b, q)
  BY <1>3, <1>4, <1>5, <1>6, Zenon
<1>8. QED  BY <1>7, Zenon DEF e, Reads

LEMMA PutPageWrites ==
    ASSUME NEW d \in Disks, NEW b \in Bodies, NEW p, Covers(b, p), NEW page \in Pages
    PROVE  Writes(PutPage(d, b, p, page), d, b, p, page)
<1> DEFINE s == b[p \div PagesPerSegment + 1]
           k == p % PagesPerSegment
           e == PutPage(d, b, p, page)
<1>0. b \in Seq(Segments)
  BY DEF Bodies
<1>1. s \in Segments /\ k \in InSegment /\ p \div PagesPerSegment + 1 \in 1 .. Len(b)
  BY <1>0, PageInFile, Zenon
<1>2. e = [d EXCEPT ![s] = [d[s] EXCEPT ![k] = page]]
  BY DEF PutPage
<1>3. ASSUME NEW q \in Nat, Covers(b, q)
      PROVE  PageIn(e, b, q) = IF q = p THEN page ELSE PageIn(d, b, q)
  <2>1. Reads(e, d, b, p, page, q)
    BY <1>3, PutPageReads, Zenon
  <2>2. QED  BY <2>1, Zenon DEF Reads
<1> HIDE DEF e, k
<1>4. e \in Disks
  <2> HIDE DEF s
  <2>1. d[s] \in [InSegment -> Pages]
    BY <1>1 DEF Disks
  <2>2. [d[s] EXCEPT ![k] = page] \in [InSegment -> Pages]
    BY <2>1
  <2>3. QED  BY <1>2, <2>2 DEF Disks
<1>5. ASSUME NEW u \in Segments, \A i \in 1 .. Len(b) : b[i] # u PROVE e[u] = d[u]
  <2>1. u # s
    BY <1>1, <1>5, Zenon
  <2> HIDE DEF s
  <2>2. QED  BY <1>1, <1>2, <2>1 DEF Disks
<1>6. QED  BY <1>3, <1>4, <1>5, Zenon DEF Writes, e
-----------------------------------------------------------------------------
(* The steps of the agent threads keep FileInvariant.                      *)

\* FileInvariant while the server runs.
Running ==
    /\ status = "up" /\ StateTyped /\ LatchesHeld
    /\ SegmentsCounted /\ SegmentsInPlace /\ LocalsSound /\ RidsSound

\* The sets of program counters.
USE DEF Holding, Pending, Growing, Inserting, Placing, Updates, PCs

\* Elements of the map, and the locals of an idle thread.
LEMMA EntryTyped ==
    ASSUME StateTyped, NEW i \in 1 .. Len(freeMap)
    PROVE  freeMap[i] \in Entries /\ freeMap[i].page \in Nat /\ freeMap[i].free \in Nat
<1>1. freeMap[i] \in Entries
  BY ElementOfSeq, Zenon DEF StateTyped
<1>2. QED  BY <1>1 DEF Entries

LEMMA NoLocalsTyped == NoLocals \in Locals
  BY DEF NoLocals, Locals

\* Writing local variables of a thread.
LEMMA PageLocal ==
    ASSUME NEW l \in Locals, NEW p \in Nat PROVE [l EXCEPT !.page = p] \in Locals
  BY DEF Locals

LEMMA ListedLocal ==
    ASSUME NEW l \in Locals, NEW n \in Nat PROVE [l EXCEPT !.listed = n] \in Locals
  BY DEF Locals

LEMMA SlotLocal ==
    ASSUME NEW l \in Locals, NEW n \in Nat PROVE [l EXCEPT !.slot = n] \in Locals
  BY DEF Locals

LEMMA ChangeLocal ==
    ASSUME NEW l \in Locals, NEW c \in Int PROVE [l EXCEPT !.change = c] \in Locals
  BY DEF Locals

LEMMA InsertLockStep ==
    ASSUME Running, NEW t \in Threads, InsertLock(t)
    PROVE  Running'
<1> USE DEF InsertLock, Goto, persistent, volatile, history
<1>1. StateTyped'
  BY DEF Running, StateTyped, TypeOK
<1>2. LatchesHeld' /\ status' = "up"
  BY NoneAssumption DEF Running, StateTyped, LatchesHeld
<1>3. SegmentsCounted'
  BY DEF Running, StateTyped, SegmentsCounted
<1>4. SegmentsInPlace'
  BY DEF Running, StateTyped, SegmentsInPlace
<1>5. LocalsSound'
  BY DEF Running, StateTyped, LocalsSound, Mapped, PageAt, Need
<1>6. RidsSound'
  BY DEF Running, StateTyped, RidsSound, Rid, Located, Mapped, PageAt
<1>7. QED  BY <1>1, <1>2, <1>3, <1>4, <1>5, <1>6 DEF Running

LEMMA InsertStartStep ==
    ASSUME Running, NEW t \in Threads, NEW d \in Docs, InsertStart(t, d)
    PROVE  Running'
<1> USE DEF InsertStart, Goto, Return, NoLocals, persistent, volatile, history
<1>1. StateTyped'
  BY DEF Running, StateTyped, TypeOK, Locals
<1>2. LatchesHeld' /\ status' = "up"
  BY NoneAssumption DEF Running, StateTyped, LatchesHeld
<1>3. SegmentsCounted'
  BY DEF Running, StateTyped, LatchesHeld, SegmentsCounted
<1>4. SegmentsInPlace'
  BY DEF Running, StateTyped, LatchesHeld, SegmentsInPlace
<1>5. LocalsSound'
  BY DEF Running, StateTyped, LocalsSound, Mapped, PageAt, Need
<1>6. RidsSound'
  BY DEF Running, StateTyped, RidsSound, Rid, Located, Mapped, PageAt
<1>7. QED  BY <1>1, <1>2, <1>3, <1>4, <1>5, <1>6 DEF Running

LEMMA FindPageStep ==
    ASSUME Running, NEW t \in Threads, FindPage(t)
    PROVE  Running'
<1>1. /\ pc[t] = "find"
      /\ UNCHANGED <<persistent, body, freeMap, extendMutex, status, rc, history>>
  BY DEF FindPage
<1>2. \/ loc' = loc /\ pc' = [pc EXCEPT ![t] = "tryExtend"] /\ mutex' = None
      \/ \E p \in Nat : /\ loc' = [loc EXCEPT ![t].page = p]
                       /\ pc' = [pc EXCEPT ![t] = "place"]
                       /\ mutex' = mutex
  <2>1. \A i \in 1 .. Len(freeMap) : freeMap[i].page \in Nat
    BY EntryTyped DEF Running
  <2>2. QED  BY <2>1 DEF Fitting, FindPage, Goto
<1> USE DEF persistent, history
<1>3. CASE loc' = loc /\ pc' = [pc EXCEPT ![t] = "tryExtend"] /\ mutex' = None
  <2>1. StateTyped'
    BY <1>1, <1>3 DEF Running, StateTyped, TypeOK
  <2>2. LatchesHeld' /\ status' = "up"
    BY <1>1, <1>3, NoneAssumption DEF Running, StateTyped, LatchesHeld
  <2>3. SegmentsCounted' /\ SegmentsInPlace'
    BY <1>1, <1>3 DEF Running, StateTyped, SegmentsCounted, SegmentsInPlace
  <2>4. LocalsSound'
    BY <1>1, <1>3 DEF Running, StateTyped, LocalsSound, Mapped, PageAt, Need
  <2>5. RidsSound'
    BY <1>1, <1>3 DEF Running, StateTyped, RidsSound, Rid, Located, Mapped, PageAt
  <2>6. QED  BY <2>1, <2>2, <2>3, <2>4, <2>5 DEF Running
<1>4. ASSUME NEW p \in Nat, loc' = [loc EXCEPT ![t].page = p],
             pc' = [pc EXCEPT ![t] = "place"], mutex' = mutex
      PROVE  Running'
  <2>1. StateTyped'
    <3>1. loc[t] \in Locals /\ [loc[t] EXCEPT !.page = p] \in Locals
      BY PageLocal, Zenon DEF Running, StateTyped
    <3>2. loc' \in [Threads -> Locals]
      BY <1>4, <3>1 DEF Running, StateTyped
    <3>3. QED  BY <1>1, <1>4, <3>2 DEF Running, StateTyped, TypeOK
  <2>2. LatchesHeld' /\ status' = "up"
    BY <1>1, <1>4, NoneAssumption DEF Running, StateTyped, LatchesHeld
  <2>3. SegmentsCounted' /\ SegmentsInPlace'
    BY <1>1, <1>4 DEF Running, StateTyped, SegmentsCounted, SegmentsInPlace
  <2>4. LocalsSound'
    BY <1>1, <1>4 DEF Running, StateTyped, Locals, LocalsSound, Mapped, PageAt, Need
  <2>5. RidsSound'
    BY <1>1, <1>4 DEF Running, StateTyped, RidsSound, Rid, Located, Mapped, PageAt
  <2>6. QED  BY <2>1, <2>2, <2>3, <2>4, <2>5 DEF Running
<1>5. QED  BY <1>2, <1>3, <1>4

LEMMA EraseEntryStep ==
    ASSUME Running, NEW t \in Threads, EraseEntry(t)
    PROVE  Running'
<1> USE DEF EraseEntry, Goto, Return, NoLocals, persistent, volatile, history
<1>1. StateTyped'
  <2>1. freeMap' \in Seq(Entries)
    BY MapEraseProperties DEF Running, StateTyped
  <2>2. QED  BY <2>1 DEF Running, StateTyped, TypeOK
<1>2. LatchesHeld' /\ status' = "up"
  BY NoneAssumption DEF Running, StateTyped, LatchesHeld
<1>3. SegmentsCounted'
  BY DEF Running, StateTyped, LatchesHeld, SegmentsCounted
<1>4. SegmentsInPlace'
  BY DEF Running, StateTyped, LatchesHeld, SegmentsInPlace
<1>5. LocalsSound'
  BY DEF Running, StateTyped, LocalsSound, Mapped, PageAt, Need
<1>6. RidsSound'
  BY DEF Running, StateTyped, RidsSound, Rid, Located, Mapped, PageAt
<1>7. QED  BY <1>1, <1>2, <1>3, <1>4, <1>5, <1>6 DEF Running

LEMMA TryExtendStep ==
    ASSUME Running, NEW t \in Threads, TryExtend(t)
    PROVE  Running'
<1> USE DEF TryExtend, Goto, Return, NoLocals, persistent, volatile, history
<1>1. StateTyped'
  BY DEF Running, StateTyped, TypeOK, Locals
<1>2. LatchesHeld' /\ status' = "up"
  BY NoneAssumption DEF Running, StateTyped, LatchesHeld
<1>3. SegmentsCounted'
  BY DEF Running, StateTyped, LatchesHeld, SegmentsCounted
<1>4. SegmentsInPlace'
  BY DEF Running, StateTyped, LatchesHeld, SegmentsInPlace
<1>5. LocalsSound'
  BY DEF Running, StateTyped, LocalsSound, Mapped, PageAt, Need
<1>6. RidsSound'
  BY DEF Running, StateTyped, RidsSound, Rid, Located, Mapped, PageAt
<1>7. QED  BY <1>1, <1>2, <1>3, <1>4, <1>5, <1>6 DEF Running

LEMMA WaitExtendStep ==
    ASSUME Running, NEW t \in Threads, WaitExtend(t)
    PROVE  Running'
<1> USE DEF WaitExtend, Goto, Return, NoLocals, persistent, volatile, history
<1>1. StateTyped'
  BY DEF Running, StateTyped, TypeOK, Locals
<1>2. LatchesHeld' /\ status' = "up"
  BY NoneAssumption DEF Running, StateTyped, LatchesHeld
<1>3. SegmentsCounted'
  BY DEF Running, StateTyped, LatchesHeld, SegmentsCounted
<1>4. SegmentsInPlace'
  BY DEF Running, StateTyped, LatchesHeld, SegmentsInPlace
<1>5. LocalsSound'
  BY DEF Running, StateTyped, LocalsSound, Mapped, PageAt, Need
<1>6. RidsSound'
  BY DEF Running, StateTyped, RidsSound, Rid, Located, Mapped, PageAt
<1>7. QED  BY <1>1, <1>2, <1>3, <1>4, <1>5, <1>6 DEF Running

LEMMA MapFailsStep ==
    ASSUME Running, NEW t \in Threads, MapFails(t)
    PROVE  Running'
<1> USE DEF MapFails, Goto, Return, NoLocals, persistent, volatile, history
<1>1. StateTyped'
  <2>1. loc' \in [Threads -> Locals]
    BY NoLocalsTyped DEF Running, StateTyped
  <2>2. QED  BY <2>1 DEF Running, StateTyped, TypeOK
<1>2. LatchesHeld' /\ status' = "up"
  BY NoneAssumption DEF Running, StateTyped, LatchesHeld
<1>3. SegmentsCounted'
  BY DEF Running, StateTyped, LatchesHeld, SegmentsCounted
<1>4. SegmentsInPlace'
  BY DEF Running, StateTyped, LatchesHeld, SegmentsInPlace
<1>5. LocalsSound'
  BY DEF Running, StateTyped, LocalsSound, Mapped, PageAt, Need
<1>6. RidsSound'
  BY DEF Running, StateTyped, RidsSound, Rid, Located, Mapped, PageAt
<1>7. QED  BY <1>1, <1>2, <1>3, <1>4, <1>5, <1>6 DEF Running

LEMMA MeasureMapStep ==
    ASSUME Running, NEW t \in Threads, MeasureMap(t)
    PROVE  Running'
<1> USE DEF MeasureMap, Goto, Return, NoLocals, persistent, volatile, history
<1>1. StateTyped'
  <2>1. loc' \in [Threads -> Locals]
    <3>1. loc[t] \in Locals /\ Len(freeMap) \in Nat /\ 0 \in Nat
      BY DEF Running, StateTyped
    <3>2. [loc[t] EXCEPT !.page = Len(freeMap), !.listed = 0] \in Locals
      BY <3>1, PageLocal, ListedLocal, Zenon
    <3>3. QED  BY <3>2 DEF Running, StateTyped
  <2>2. QED  BY <2>1 DEF Running, StateTyped, TypeOK
<1>2. LatchesHeld' /\ status' = "up"
  BY NoneAssumption DEF Running, StateTyped, LatchesHeld
<1>3. SegmentsCounted'
  BY DEF Running, StateTyped, LatchesHeld, SegmentsCounted
<1>4. SegmentsInPlace'
  BY DEF Running, StateTyped, LatchesHeld, SegmentsInPlace
<1>5. LocalsSound'
  BY PageAssumption DEF Running, StateTyped, LocalsSound, Mapped, PageAt, Need, Locals
<1>6. RidsSound'
  BY DEF Running, StateTyped, RidsSound, Rid, Located, Mapped, PageAt
<1>7. QED  BY <1>1, <1>2, <1>3, <1>4, <1>5, <1>6 DEF Running

LEMMA ListPageStep ==
    ASSUME Running, NEW t \in Threads, ListPage(t)
    PROVE  Running'
<1> USE DEF ListPage, Goto, Return, NoLocals, persistent, volatile, history
<1>1. StateTyped'
  <2>1. loc' \in [Threads -> Locals]
    <3>1. loc[t].listed + 1 \in Nat
      BY DEF Running, StateTyped, Locals
    <3>2. QED  BY <3>1 DEF Running, StateTyped, Locals
  <2>2. freeMap' \in Seq(Entries)
    <3>1. loc[t].page \in Nat /\ loc[t].listed \in Nat
      BY DEF Running, LocalsSound, StateTyped, Locals
    <3>2. Entry(PageFree, loc[t].page + loc[t].listed) \in Entries
      BY <3>1, PageAssumption DEF Entry, Entries
    <3>3. freeMap \in Seq(Entries)
      BY DEF Running, StateTyped
    <3>4. QED  BY <3>2, <3>3, MapInsertTyped, Zenon
  <2>3. QED  BY <2>1, <2>2 DEF Running, StateTyped, TypeOK
<1>2. LatchesHeld' /\ status' = "up"
  BY NoneAssumption DEF Running, StateTyped, LatchesHeld
<1>3. SegmentsCounted'
  BY DEF Running, StateTyped, LatchesHeld, SegmentsCounted
<1>4. SegmentsInPlace'
  BY DEF Running, StateTyped, LatchesHeld, SegmentsInPlace
<1>5. LocalsSound'
  BY PageAssumption, SMTT(30) DEF Running, StateTyped, LocalsSound, Mapped, PageAt, Need, Locals
<1>6. RidsSound'
  BY DEF Running, StateTyped, RidsSound, Rid, Located, Mapped, PageAt
<1>7. QED  BY <1>1, <1>2, <1>3, <1>4, <1>5, <1>6 DEF Running

LEMMA CountPagesStep ==
    ASSUME Running, NEW t \in Threads, CountPages(t)
    PROVE  Running'
<1> USE DEF CountPages, Goto, Return, NoLocals, persistent, volatile, history
<1>1. StateTyped'
  <2>1. loc' \in [Threads -> Locals]
    BY DEF Running, StateTyped, Locals
  <2>2. headerSize' \in Nat
    BY PageAssumption DEF Running, StateTyped, TypeOK
  <2>3. QED  BY <2>1, <2>2 DEF Running, StateTyped, TypeOK
<1>2. LatchesHeld' /\ status' = "up"
  BY NoneAssumption DEF Running, StateTyped, LatchesHeld
<1>3. SegmentsCounted'
  BY DEF Running, StateTyped, LatchesHeld, SegmentsCounted
<1>4. SegmentsInPlace'
  BY DEF Running, StateTyped, LatchesHeld, SegmentsInPlace
<1>5. LocalsSound'
  BY DEF Running, StateTyped, LocalsSound, Mapped, PageAt, Need
<1>6. RidsSound'
  BY DEF Running, StateTyped, RidsSound, Rid, Located, Mapped, PageAt
<1>7. QED  BY <1>1, <1>2, <1>3, <1>4, <1>5, <1>6 DEF Running

LEMMA RemoveStartStep ==
    ASSUME Running, NEW t \in Threads, NEW a \in acked, RemoveStart(t, a)
    PROVE  Running'
<1> USE DEF RemoveStart, Goto, Return, NoLocals, persistent, volatile, history
<1>0. a \in Records /\ a.rid \in Nat \X Nat /\ a.rid = <<a.rid[1], a.rid[2]>>
  BY DEF Running, StateTyped, Records
<1>1. StateTyped'
  <2>1. loc' \in [Threads -> Locals]
    <3>1. [NoLocals EXCEPT !.page = a.rid[1], !.slot = a.rid[2]] \in Locals
      <4>1. a.rid[1] \in Nat /\ a.rid[2] \in Nat
        BY <1>0
      <4> HIDE DEF NoLocals
      <4>2. QED  BY <4>1, NoLocalsTyped, PageLocal, SlotLocal, Zenon
    <3>2. QED  BY <3>1 DEF Running, StateTyped
  <2>2. QED  BY <2>1 DEF Running, StateTyped, TypeOK
<1>2. LatchesHeld' /\ status' = "up"
  BY NoneAssumption DEF Running, StateTyped, LatchesHeld
<1>3. SegmentsCounted'
  BY DEF Running, StateTyped, LatchesHeld, SegmentsCounted
<1>4. SegmentsInPlace'
  BY DEF Running, StateTyped, LatchesHeld, SegmentsInPlace
<1>5. LocalsSound'
  <2>1. /\ \A u \in Threads : u # t => pc'[u] = pc[u] /\ loc'[u] = loc[u]
        /\ pc'[t] = "lockRemove" /\ loc'[t].doc = None /\ loc'[t].page = a.rid[1]
        /\ a.rid[1] \in Nat /\ Mapped(a.rid[1]) /\ disk' = disk /\ body' = body
    BY <1>0 DEF Running, StateTyped, Locals
  <2>2. QED  BY <2>1 DEF Running, LocalsSound, Mapped, PageAt, Need
<1>6. RidsSound'
  <2> SUFFICES ASSUME ~lost PROVE RidsSound'
    BY DEF RidsSound
  <2>1. \A b \in acked : Located(b)
    BY DEF Running, RidsSound
  <2>2. \A b \in acked' : Located(b)'
    BY <2>1 DEF Located, Mapped, PageAt
  <2>3. Rid(t)' = a.rid
    BY <1>0 DEF Rid, Running, StateTyped
  <2>4. \A b \in acked' : b.rid # a.rid /\ b \in acked
    <3>1. \A b, c \in acked : b.rid = c.rid => b = c
      BY DEF Running, RidsSound
    <3>2. QED  BY <3>1
  <2>5. ASSUME NEW u \in Threads, u # t PROVE pc'[u] = pc[u] /\ Rid(u)' = Rid(u) /\ loc'[u] = loc[u]
    BY <2>5 DEF Rid, Running, StateTyped
  <2>6. pc'[t] = "lockRemove" /\ loc'[t].page = a.rid[1] /\ loc'[t].slot = a.rid[2]
    BY DEF Running, StateTyped
  <2>7. ASSUME NEW u \in Threads, pc'[u] = "lockRemove"
        PROVE  (loc[u].slot < Len(PageAt(loc[u].page).slots) /\ \A b \in acked : b.rid # Rid(u))'
    <3>1. CASE u = t
      BY <2>1, <2>3, <2>4, <2>6, <3>1 DEF Located, PageAt
    <3>2. CASE u # t
      BY <2>5, <2>7, <3>2 DEF Running, RidsSound, PageAt
    <3>3. QED  BY <3>1, <3>2
  <2>8. ASSUME NEW u \in Threads, pc'[u] \in Updates, loc'[u].doc # None
        PROVE  /\ Located([rid |-> Rid(u), doc |-> loc[u].doc])'
               /\ \A b \in acked' : b.rid # Rid(u)'
               /\ \A v \in Threads : pc'[v] = "lockRemove" => Rid(v)' # Rid(u)'
    <3>1. u # t /\ pc[u] \in Updates /\ loc[u].doc # None /\ Rid(u)' = Rid(u)
      BY <2>5, <2>6, <2>8
    <3>2. /\ Located([rid |-> Rid(u), doc |-> loc[u].doc])
          /\ \A b \in acked : b.rid # Rid(u)
          /\ \A v \in Threads : pc[v] = "lockRemove" => Rid(v) # Rid(u)
      BY <3>1 DEF Running, RidsSound
    <3>3. Located([rid |-> Rid(u), doc |-> loc[u].doc])'
      BY <2>5, <3>1, <3>2 DEF Located, Mapped, PageAt, Rid
    <3>4. ASSUME NEW v \in Threads, pc'[v] = "lockRemove" PROVE Rid(v)' # Rid(u)'
      BY <2>3, <2>5, <3>1, <3>2, <3>4
    <3>5. QED  BY <3>1, <3>2, <3>3, <3>4
  <2>9. \A b, c \in acked' : b.rid = c.rid => b = c
    BY <2>4 DEF Running, RidsSound
  <2>10. QED  BY <2>2, <2>7, <2>8, <2>9 DEF RidsSound
<1>7. QED  BY <1>1, <1>2, <1>3, <1>4, <1>5, <1>6 DEF Running

\* A page that was mapped before a step is mapped after it, and the same.
PagesKept ==
    \A q \in Nat : q < Len(body) * PagesPerSegment =>
        /\ q < Len(body') * PagesPerSegment
        /\ PageIn(disk', body', q) = PageIn(disk, body, q)

\* Then what the threads know of their pages and rids remains true.
LEMMA PagesKeptStep ==
    ASSUME Running, PagesKept, NEW t \in Threads, NEW l, pc' = [pc EXCEPT ![t] = l],
           l \notin {"lockRemove"} \cup Updates, loc' \in [Threads -> Locals],
           \A u \in Threads : u # t => loc'[u] = loc[u],
           l \in Inserting => loc'[t].doc \in Docs,
           l \in {"place", "list"} => loc'[t].page \in Nat,
           l = "list" => loc'[t].listed <= PagesPerSegment,
           l \in Placing => loc'[t].page \in Nat /\ loc'[t].page < Len(body') * PagesPerSegment,
           acked' = acked, lost => lost'
    PROVE  LocalsSound' /\ RidsSound'
<1>1. \A u \in Threads : u # t => pc'[u] = pc[u] /\ loc'[u] = loc[u]
  BY DEF Running, StateTyped
<1>2. pc'[t] = l
  BY DEF Running, StateTyped
<1>3. LocalsSound'
  <2> SUFFICES ASSUME NEW u \in Threads
        PROVE  /\ pc'[u] \in Inserting => loc'[u].doc \in Docs
               /\ pc'[u] = "lockRemove" => loc'[u].doc = None
               /\ pc'[u] \in {"place", "list"} => loc'[u].page \in Nat
               /\ pc'[u] = "list" => loc'[u].listed <= PagesPerSegment
               /\ pc'[u] \in {"lockRemove", "erase", "reenter"} \cup Placing =>
                     loc'[u].page \in Nat /\ loc'[u].page < Len(body') * PagesPerSegment
               /\ pc'[u] = "header" /\ PageIn(disk', body', loc'[u].page).whole =>
                     Gap(PageIn(disk', body', loc'[u].page)) >= Size[loc'[u].doc] + Overhead
               /\ pc'[u] \in Updates =>
                     PageIn(disk', body', loc'[u].page).free + loc'[u].change \in Nat
    BY DEF LocalsSound, Mapped, PageAt, Need
  <2>1. CASE u = t
    BY <1>2, <2>1
  <2>2. CASE u # t
    <3>1. pc'[u] = pc[u] /\ loc'[u] = loc[u]
      BY <1>1, <2>2
    <3>2. QED  BY <3>1 DEF Running, LocalsSound, Mapped, PageAt, Need, PagesKept
  <2>3. QED  BY <2>1, <2>2
<1>4. RidsSound'
  <2> SUFFICES ASSUME ~lost' PROVE RidsSound'
    BY DEF RidsSound
  <2>1. ASSUME NEW a, a.rid[1] \in Nat, Located(a) PROVE Located(a)'
    BY <2>1 DEF Located, Mapped, PageAt, PagesKept
  <2>2. \A a \in acked : a.rid[1] \in Nat
    BY DEF Running, StateTyped, Records
  <2>3. ~lost
    OBVIOUS
  <2>4. \A a \in acked' : Located(a)'
    BY <2>1, <2>2, <2>3 DEF Running, RidsSound
  <2>5. ASSUME NEW u \in Threads, pc'[u] = "lockRemove"
        PROVE  (loc[u].slot < Len(PageAt(loc[u].page).slots) /\ \A a \in acked : a.rid # Rid(u))'
    <3>1. pc[u] = pc'[u] /\ loc'[u] = loc[u]
      BY <1>1, <1>2, <2>5
    <3>2. loc[u].page \in Nat /\ loc[u].page < Len(body) * PagesPerSegment
      BY <2>5, <3>1 DEF Running, LocalsSound, Mapped
    <3>3. QED  BY <2>3, <2>5, <3>1, <3>2 DEF Running, RidsSound, PagesKept, PageAt, Rid
  <2>6. ASSUME NEW u \in Threads, pc'[u] \in Updates, loc'[u].doc # None
        PROVE  /\ Located([rid |-> Rid(u), doc |-> loc[u].doc])'
               /\ \A a \in acked' : a.rid # Rid(u)'
               /\ \A v \in Threads : pc'[v] = "lockRemove" => Rid(v)' # Rid(u)'
    <3>1. pc[u] = pc'[u] /\ loc'[u] = loc[u]
      BY <1>1, <1>2, <2>6
    <3>2. loc[u].page \in Nat
      BY <2>6, <3>1 DEF Running, LocalsSound
    <3>3. \A v \in Threads : pc'[v] = "lockRemove" => pc[v] = "lockRemove" /\ loc'[v] = loc[v]
      BY <1>1, <1>2
    <3>4. Located([rid |-> Rid(u), doc |-> loc[u].doc])
      BY <2>3, <2>6, <3>1 DEF Running, RidsSound
    <3>5. Located([rid |-> Rid(u), doc |-> loc[u].doc])'
      BY <3>1, <3>2, <3>4 DEF Located, Mapped, PageAt, PagesKept, Rid
    <3>6. QED  BY <2>3, <2>6, <3>1, <3>3, <3>5 DEF Running, RidsSound, Rid
  <2>7. \A a, b \in acked' : a.rid = b.rid => a = b
    BY <2>3 DEF Running, RidsSound
  <2>8. QED  BY <2>4, <2>5, <2>6, <2>7 DEF RidsSound
<1>5. QED  BY <1>3, <1>4

LEMMA GrowFileStep ==
    ASSUME Running, NEW t \in Threads, GrowFile(t)
    PROVE  Running'
<1> USE DEF persistent, volatile, history
<1>0. /\ pc[t] = "grow" /\ t = extendMutex /\ loc[t] \in Locals /\ loc[t].doc \in Docs
      /\ \A u \in Threads : u # t => pc[u] \notin Growing
      /\ fileSegments \in Nat /\ MaxSegments \in Nat /\ Len(body) \in Nat
      /\ UNCHANGED <<headerSize, disk, body, freeMap, mutex, status, history>>
      /\ fileSegments < MaxSegments
      /\ fileSegments' = fileSegments + 1
      /\ loc' = [loc EXCEPT ![t].base = fileSegments]
      /\ pc' = [pc EXCEPT ![t] = "map"]
      /\ UNCHANGED <<extendMutex, rc>>
  BY BoundsAssumption DEF GrowFile, Goto, Running, StateTyped, TypeOK, LatchesHeld, LocalsSound
<1>1. PagesKept
  BY <1>0 DEF PagesKept
<1>2. loc' \in [Threads -> Locals]
  BY <1>0 DEF Running, StateTyped, Locals
<1>3. StateTyped'
  BY <1>0, <1>2 DEF Running, StateTyped, TypeOK
<1>4. LatchesHeld' /\ status' = "up"
  BY <1>0 DEF Running, StateTyped, LatchesHeld
<1>5. SegmentsCounted'
  <2>1. /\ loc'[t].base = fileSegments /\ pc'[t] = "map"
        /\ \A u \in Threads : u # t => pc'[u] \notin Growing
    BY <1>0 DEF Running, StateTyped, Locals
  <2>2. \A i \in 1 .. Len(body) : body[i] \in Int
    <3>1. \A i \in 1 .. Len(body) : body[i] \in Segments
      BY ElementOfSeq, Zenon DEF Running, StateTyped, TypeOK
    <3>2. QED  BY <1>0, <3>1 DEF Segments
  <2>3. /\ Len(body) <= fileSegments /\ headerSize = Len(body) * PagesPerSegment
        /\ \A i \in 1 .. Len(body) : body[i] < fileSegments
        /\ \A i, j \in 1 .. Len(body) : body[i] = body[j] => i = j
    BY <1>0 DEF Running, SegmentsCounted
  <2>4. Len(body) < fileSegments' /\ \A i \in 1 .. Len(body) : body[i] < fileSegments'
    BY <1>0, <2>2, <2>3
  <2>5. QED  BY <1>0, <2>1, <2>3, <2>4 DEF SegmentsCounted
<1>6. SegmentsInPlace'
  BY <1>0 DEF Running, StateTyped, SegmentsInPlace
<1>7. loc'[t].doc \in Docs
  BY <1>0 DEF Running, StateTyped, Locals
<1>8. LocalsSound' /\ RidsSound'
  BY <1>0, <1>1, <1>2, <1>7, PagesKeptStep
<1>9. QED  BY <1>3, <1>4, <1>5, <1>6, <1>8 DEF Running

LEMMA GrowFailsStep ==
    ASSUME Running, NEW t \in Threads, GrowFails(t)
    PROVE  Running'
<1>0. /\ pc[t] = "grow" /\ t = extendMutex
      /\ \A u \in Threads : u # t => pc[u] \notin Growing
      /\ fileSegments \in Nat /\ MaxSegments \in Nat /\ Len(body) \in Nat
      /\ extendMutex' = None /\ pc' = [pc EXCEPT ![t] = "idle"]
      /\ loc' = [loc EXCEPT ![t] = NoLocals]
      /\ UNCHANGED <<headerSize, disk, body, freeMap, mutex, status, used, acked, misnumbered,
                     crashes>>
  BY BoundsAssumption
  DEF GrowFails, Return, Goto, Running, StateTyped, TypeOK, LatchesHeld, LocalsSound
<1>1. /\ fileSegments' \in 0 .. MaxSegments /\ fileSegments <= fileSegments'
      /\ lost' \in BOOLEAN /\ (lost => lost') /\ (~lost' => fileSegments' = fileSegments)
  <2>1. PICK part \in {0, 1} : /\ fileSegments + part <= MaxSegments
                               /\ fileSegments' = fileSegments + part
                               /\ lost' = (lost \/ part = 1)
    BY DEF GrowFails
  <2>2. fileSegments' \in 0 .. MaxSegments /\ fileSegments <= fileSegments'
    BY <1>0, <2>1
  <2>3. part = 0 => fileSegments' = fileSegments
    BY <1>0, <2>1
  <2>4. lost \in BOOLEAN /\ (part = 0 \/ part = 1)
    BY DEF Running, StateTyped, TypeOK
  <2>5. QED  BY <2>1, <2>2, <2>3, <2>4, Zenon
<1>2. PagesKept
  BY <1>0 DEF PagesKept
<1>3. loc' \in [Threads -> Locals] /\ \A u \in Threads : u # t => loc'[u] = loc[u]
  BY <1>0, NoLocalsTyped DEF Running, StateTyped
<1>4. StateTyped'
  BY <1>0, <1>1, <1>3 DEF Running, StateTyped, TypeOK
<1>5. LatchesHeld' /\ status' = "up"
  BY <1>0, NoneAssumption DEF Running, StateTyped, LatchesHeld
<1>6. SegmentsCounted'
  <2>1. /\ Len(body) <= fileSegments /\ headerSize = Len(body) * PagesPerSegment
        /\ \A i \in 1 .. Len(body) : body[i] < fileSegments
        /\ \A i, j \in 1 .. Len(body) : body[i] = body[j] => i = j
    BY <1>0 DEF Running, SegmentsCounted
  <2>2. \A i \in 1 .. Len(body) : body[i] \in Int
    <3>1. \A i \in 1 .. Len(body) : body[i] \in Segments
      BY ElementOfSeq, Zenon DEF Running, StateTyped, TypeOK
    <3>2. QED  BY <1>0, <3>1 DEF Segments
  <2>3. Len(body) <= fileSegments' /\ \A i \in 1 .. Len(body) : body[i] < fileSegments'
    BY <1>0, <1>1, <2>1, <2>2
  <2>4. \A u \in Threads : pc'[u] \notin Growing
    BY <1>0 DEF Running, StateTyped
  <2>5. QED  BY <1>0, <2>1, <2>3, <2>4 DEF SegmentsCounted
<1>7. SegmentsInPlace'
  <2>1. \A u \in Threads : pc[u] \notin Pending /\ pc'[u] \notin Pending
    BY <1>0 DEF Running, StateTyped
  <2>2. QED  BY <1>0, <1>1, <2>1 DEF Running, SegmentsInPlace
<1>8. LocalsSound' /\ RidsSound'
  BY <1>0, <1>1, <1>2, <1>3, PagesKeptStep
<1>9. QED  BY <1>4, <1>5, <1>6, <1>7, <1>8 DEF Running

LEMMA FormatPagesStep ==
    ASSUME Running, NEW t \in Threads, FormatPages(t)
    PROVE  Running'
<1> DEFINE fresh == [i \in InSegment |-> FreshPage]
           b == loc[t].base
<1>0. /\ pc[t] = "map" /\ pc' = [pc EXCEPT ![t] = "measure"]
      /\ disk' = [disk EXCEPT ![b] = fresh]
      /\ UNCHANGED <<fileSegments, headerSize, body, freeMap, mutex, extendMutex, status,
                     loc, rc, used, acked, lost, misnumbered, crashes>>
  BY DEF FormatPages, Goto, volatile, history
<1>1. /\ t = extendMutex /\ loc[t].doc \in Docs
      /\ \A u \in Threads : u # t => pc[u] \notin Growing
      /\ b \in Segments /\ \A i \in 1 .. Len(body) : body[i] # b
  <2>1. /\ fileSegments \in 0 .. MaxSegments /\ MaxSegments \in Nat /\ b \in Nat
        /\ b + 1 = fileSegments
        /\ \A i \in 1 .. Len(body) : body[i] < b
    BY <1>0, BoundsAssumption DEF Running, StateTyped, TypeOK, Locals, SegmentsCounted
  <2>2. b \in Segments
    BY <2>1 DEF Segments
  <2>3. \A i \in 1 .. Len(body) : body[i] # b
    BY <2>1
  <2>4. QED  BY <1>0, <2>2, <2>3 DEF Running, LatchesHeld, LocalsSound
<1> HIDE DEF b, fresh
<1>2. fresh \in [InSegment -> Pages]
  <2>1. FreshPage \in Pages
    BY EmptyPages
  <2>2. QED  BY <2>1 DEF fresh
<1>3. disk \in Disks /\ body \in Seq(Segments)
  BY DEF Running, StateTyped, TypeOK, Disks
<1>4. disk' \in Disks /\ disk'[b] = fresh /\ \A s \in Segments : s # b => disk'[s] = disk[s]
  BY <1>0, <1>1, <1>2, <1>3 DEF Disks
<1>5. PagesKept
  <2>1. ASSUME NEW q \in Nat, q < Len(body) * PagesPerSegment
        PROVE  PageIn(disk', body, q) = PageIn(disk, body, q)
    <3>1. Covers(body, q)
      BY <2>1 DEF Covers
    <3>2. /\ q \div PagesPerSegment + 1 \in 1 .. Len(body)
          /\ body[q \div PagesPerSegment + 1] \in Segments
      BY <1>3, <3>1, PageInFile, Zenon
    <3>3. body[q \div PagesPerSegment + 1] # b
      BY <1>1, <3>2, Zenon
    <3>4. QED  BY <1>4, <3>2, <3>3, Zenon DEF PageIn
  <2>2. QED  BY <1>0, <2>1 DEF PagesKept
<1>6. StateTyped'
  BY <1>0, <1>4 DEF Running, StateTyped, TypeOK, Disks
<1>7. LatchesHeld' /\ status' = "up"
  BY <1>0 DEF Running, StateTyped, LatchesHeld
<1>8. SegmentsCounted'
  BY <1>0, <1>1, <1>4 DEF Running, StateTyped, SegmentsCounted, b, fresh
<1>9. SegmentsInPlace'
  BY <1>0 DEF Running, StateTyped, SegmentsInPlace
<1>10. LocalsSound' /\ RidsSound'
  BY <1>0, <1>1, <1>5, <1>6, PagesKeptStep DEF StateTyped
<1>11. QED  BY <1>6, <1>7, <1>8, <1>9, <1>10 DEF Running

LEMMA PushSegmentStep ==
    ASSUME Running, NEW t \in Threads, PushSegment(t)
    PROVE  Running'
<1> DEFINE n == Len(body)
           b == loc[t].base
<1>0. /\ pc[t] = "list" /\ pc' = [pc EXCEPT ![t] = "count"]
      /\ body' = Append(body, b)
      /\ UNCHANGED <<fileSegments, headerSize, disk, freeMap, mutex, extendMutex, status,
                     loc, rc, used, acked, lost, misnumbered, crashes>>
  BY DEF PushSegment, Goto, persistent, history
<1>1. /\ t = extendMutex /\ loc[t].doc \in Docs
      /\ \A u \in Threads : u # t => pc[u] \notin Growing
      /\ \A u \in Threads : u # t => pc'[u] \notin Growing
      /\ pc'[t] = "count"
  BY <1>0 DEF Running, LatchesHeld, LocalsSound, StateTyped
<1>2. disk \in Disks /\ body \in Seq(Segments) /\ n \in Nat
  BY DEF Running, StateTyped, TypeOK, Disks
<1>3. /\ fileSegments \in 0 .. MaxSegments /\ MaxSegments \in Nat /\ b \in Nat
      /\ b + 1 = fileSegments /\ n < fileSegments
      /\ \A i \in 1 .. n : body[i] < b
  BY <1>0, BoundsAssumption DEF Running, StateTyped, TypeOK, Locals, SegmentsCounted
<1>4. b \in Segments
  BY <1>3 DEF Segments
<1> HIDE DEF b
<1>5. /\ body' \in Seq(Segments) /\ Len(body') = n + 1
      /\ \A i \in 1 .. n : body'[i] = body[i]
      /\ body'[n + 1] = b
  BY <1>0, <1>2, <1>4, AppendProperties
<1>6. Len(body') * PagesPerSegment = n * PagesPerSegment + PagesPerSegment
      /\ n * PagesPerSegment \in Nat
  BY <1>2, <1>5, PageAssumption
<1>7. PagesKept
  <2>1. ASSUME NEW q \in Nat, q < n * PagesPerSegment
        PROVE  /\ q < Len(body') * PagesPerSegment
               /\ PageIn(disk, body', q) = PageIn(disk, body, q)
    <3>1. Covers(body, q)
      BY <2>1 DEF Covers
    <3>2. q \div PagesPerSegment + 1 \in 1 .. n
      BY <1>2, <3>1, PageInFile, Zenon
    <3>3. body'[q \div PagesPerSegment + 1] = body[q \div PagesPerSegment + 1]
      BY <1>5, <3>2, Zenon
    <3>4. PageIn(disk, body', q) = PageIn(disk, body, q)
      BY <3>3, Zenon DEF PageIn
    <3>5. q < Len(body') * PagesPerSegment
      BY <1>6, <2>1, PageAssumption
    <3>6. QED  BY <3>4, <3>5
  <2>2. QED  BY <1>0, <2>1 DEF PagesKept
<1>8. StateTyped'
  BY <1>0, <1>5 DEF Running, StateTyped, TypeOK
<1>9. LatchesHeld' /\ status' = "up"
  BY <1>0 DEF Running, StateTyped, LatchesHeld
<1>10. SegmentsCounted'
  <2>1. /\ \A i \in 1 .. n : body[i] < fileSegments
        /\ \A i, j \in 1 .. n : body[i] = body[j] => i = j
        /\ headerSize = n * PagesPerSegment
    BY <1>0, <1>1 DEF Running, SegmentsCounted
  <2>2. \A i \in 1 .. n + 1 : i \in 1 .. n \/ i = n + 1
    BY <1>2
  <2>3. \A i \in 1 .. n + 1 : body'[i] < fileSegments
    BY <1>3, <1>5, <2>1, <2>2
  <2>4. \A i, j \in 1 .. n + 1 : body'[i] = body'[j] => i = j
    BY <1>3, <1>5, <2>1, <2>2
  <2>5. headerSize + PagesPerSegment = Len(body') * PagesPerSegment
    BY <1>6, <2>1
  <2>6. Len(body') <= fileSegments
    BY <1>2, <1>3, <1>5
  <2> HIDE DEF n
  <2>7. QED  BY <1>0, <1>1, <1>5, <2>3, <2>4, <2>5, <2>6 DEF SegmentsCounted
<1>11. SegmentsInPlace'
  <2>1. SUFFICES ASSUME ~lost PROVE SegmentsInPlace'
    BY <1>0 DEF SegmentsInPlace
  <2>2. (\A i \in 1 .. n : body[i] = i - 1) /\ fileSegments = n + 1
    BY <1>0, <2>1 DEF Running, SegmentsInPlace
  <2>3. \A i \in 1 .. n + 1 : body'[i] = i - 1
    <3>1. \A i \in 1 .. n + 1 : i \in 1 .. n \/ i = n + 1
      BY <1>2
    <3>2. b = (n + 1) - 1
      BY <1>2, <1>3, <2>2
    <3>3. QED  BY <1>5, <2>2, <3>1, <3>2
  <2> HIDE DEF n
  <2>4. QED  BY <1>0, <1>1, <1>5, <2>2, <2>3 DEF SegmentsInPlace
<1>12. LocalsSound' /\ RidsSound'
  BY <1>0, <1>1, <1>7, <1>8, PagesKeptStep DEF StateTyped
<1>13. QED  BY <1>8, <1>9, <1>10, <1>11, <1>12 DEF Running

\* The slots of every page are kept, and new ones may be added at the end; on a
\* page that stays whole they lead to the same documents.
Keeps(old, new) ==
    /\ Len(new.slots) \in Nat /\ Len(old.slots) <= Len(new.slots)
    /\ new.whole => old.whole /\ \A k \in 1 .. Len(old.slots) : new.slots[k] = old.slots[k]

SlotsKept ==
    \A q \in Nat : q < Len(body) * PagesPerSegment =>
        Keeps(PageIn(disk, body, q), PageIn(disk', body, q))

\* No thread but t is in the middle of an update.
Alone(t) == \A u \in Threads : u # t => pc[u] \notin Updates

\* A mapped page and its slots.
LEMMA MappedPage ==
    ASSUME Running, NEW q \in Nat, q < Len(body) * PagesPerSegment
    PROVE  /\ Covers(body, q) /\ PageIn(disk, body, q) \in Pages
           /\ PageIn(disk, body, q).slots \in Seq(Docs \cup {None, Stray})
           /\ Len(PageIn(disk, body, q).slots) \in Nat
<1>1. Covers(body, q)
  BY DEF Covers
<1>2. PageIn(disk, body, q) \in Pages
  BY <1>1, PageInFile DEF Running, StateTyped, TypeOK, Disks
<1>3. PageIn(disk, body, q).slots \in Seq(Docs \cup {None, Stray})
  BY <1>2 DEF Pages
<1>4. QED  BY <1>1, <1>2, <1>3, LenProperties, Zenon

\* Then acknowledged records stay where they are.
LEMMA LocatedKept ==
    ASSUME Running, SlotsKept, body' = body, NEW a, a.rid[1] \in Nat, a.rid[2] \in Nat, Located(a)
    PROVE  Located(a)'
<1> DEFINE p == a.rid[1]
           k == a.rid[2]
           old == PageIn(disk, body, p)
           new == PageIn(disk', body, p)
<1>1. /\ p < Len(body) * PagesPerSegment /\ k < Len(old.slots) /\ p \in Nat /\ k \in Nat
      /\ old.whole => old.slots[k + 1] = a.doc
  BY DEF Located, Mapped, PageAt
<1>2. Keeps(old, new)
  BY <1>1 DEF SlotsKept
<1>3. Len(old.slots) \in Nat
  BY <1>1, MappedPage, Zenon
<1> HIDE DEF k, old, new, p
<1>4. k < Len(new.slots) /\ k + 1 \in 1 .. Len(old.slots)
  BY <1>1, <1>2, <1>3 DEF Keeps
<1>5. new.whole => new.slots[k + 1] = a.doc
  BY <1>1, <1>2, <1>4, Zenon DEF Keeps
<1>6. QED  BY <1>1, <1>4, <1>5 DEF Located, Mapped, PageAt, k, new, p

\* What a thread at l with locals r must know, and may claim for the record it writes.
Knows(l, r) ==
    /\ l \in Inserting => r.doc \in Docs
    /\ l \in {"erase", "reenter"} \cup Placing =>
          r.page \in Nat /\ r.page < Len(body) * PagesPerSegment
    /\ l = "header" /\ PageIn(disk', body, r.page).whole =>
          Gap(PageIn(disk', body, r.page)) >= Size[r.doc] + Overhead
    /\ l \in Updates => PageIn(disk', body, r.page).free + r.change \in Nat

Claims(t, l, r) ==
    ~lost /\ l \in Updates /\ r.doc # None =>
        /\ Located([rid |-> Rid(t), doc |-> loc[t].doc])'
        /\ \A a \in acked : a.rid # <<r.page, r.slot>>
        /\ \A u \in Threads : u # t /\ pc[u] = "lockRemove" => Rid(u) # <<r.page, r.slot>>

\* A thread that is alone in its update takes a step without moving a record,
\* and may acknowledge the one it has written.
LEMMA SlotsKeptStep ==
    ASSUME Running, NEW t \in Threads, Alone(t), SlotsKept, body' = body, lost' = lost,
           NEW l, pc' = [pc EXCEPT ![t] = l], l \notin {"lockRemove", "place", "list"},
           loc' \in [Threads -> Locals], \A u \in Threads : u # t => loc'[u] = loc[u],
           Knows(l, loc'[t]), Claims(t, l, loc'[t]),
           acked \subseteq acked', l \in Updates => acked' = acked,
           \A a \in acked' \ acked :
              /\ ~lost => Located(a) /\ a.rid \in Nat \X Nat
              /\ ~lost => \A u \in Threads : pc[u] = "lockRemove" => Rid(u) # a.rid
              /\ ~lost => \A b \in acked' : a.rid = b.rid => a = b
    PROVE  LocalsSound' /\ RidsSound'
<1>1. \A u \in Threads : u # t => pc'[u] = pc[u] /\ loc'[u] = loc[u]
  BY DEF Running, StateTyped
<1>2. pc'[t] = l
  BY DEF Running, StateTyped
<1>3. \A u \in Threads : u # t => pc'[u] \notin Updates
  BY <1>1 DEF Alone
<1>4. LocalsSound'
  <2> SUFFICES ASSUME NEW u \in Threads
        PROVE  /\ pc'[u] \in Inserting => loc'[u].doc \in Docs
               /\ pc'[u] = "lockRemove" => loc'[u].doc = None
               /\ pc'[u] \in {"place", "list"} => loc'[u].page \in Nat
               /\ pc'[u] = "list" => loc'[u].listed <= PagesPerSegment
               /\ pc'[u] \in {"lockRemove", "erase", "reenter"} \cup Placing =>
                     loc'[u].page \in Nat /\ loc'[u].page < Len(body') * PagesPerSegment
               /\ pc'[u] = "header" /\ PageIn(disk', body', loc'[u].page).whole =>
                     Gap(PageIn(disk', body', loc'[u].page)) >= Size[loc'[u].doc] + Overhead
               /\ pc'[u] \in Updates =>
                     PageIn(disk', body', loc'[u].page).free + loc'[u].change \in Nat
    BY DEF LocalsSound, Mapped, PageAt, Need
  <2>1. CASE u = t
    BY <1>2, <2>1 DEF Knows
  <2>2. CASE u # t
    <3>1. pc'[u] = pc[u] /\ loc'[u] = loc[u] /\ pc[u] \notin Updates
      BY <1>1, <1>3, <2>2
    <3>2. QED  BY <3>1 DEF Running, LocalsSound, Mapped
  <2>3. QED  BY <2>1, <2>2
<1>5. RidsSound'
  <2> SUFFICES ASSUME ~lost PROVE RidsSound'
    BY DEF RidsSound
  <2>1. ASSUME NEW a \in acked' PROVE Located(a)'
    <3>1. Located(a) /\ a.rid \in Nat \X Nat
      BY DEF Running, RidsSound, StateTyped, Records
    <3>2. QED  BY <3>1, LocatedKept
  <2>2. \A a, b \in acked' : a.rid = b.rid => a = b
    BY DEF Running, RidsSound
  <2>3. ASSUME NEW u \in Threads, pc'[u] = "lockRemove"
        PROVE  (loc[u].slot < Len(PageAt(loc[u].page).slots) /\ \A a \in acked : a.rid # Rid(u))'
    <3> DEFINE old == PageIn(disk, body, loc[u].page)
               new == PageIn(disk', body, loc[u].page)
    <3>1. pc[u] = "lockRemove" /\ loc'[u] = loc[u]
      BY <1>1, <1>2, <2>3
    <3>2. loc[u].page \in Nat /\ loc[u].page < Len(body) * PagesPerSegment
      BY <3>1 DEF Running, LocalsSound, Mapped
    <3>3. loc[u].slot < Len(old.slots) /\ \A a \in acked : a.rid # Rid(u)
      BY <3>1 DEF Running, RidsSound, PageAt
    <3>4. Len(new.slots) \in Nat /\ Len(old.slots) <= Len(new.slots)
      BY <3>2 DEF SlotsKept, Keeps
    <3>5. Len(old.slots) \in Nat /\ loc[u].slot \in Nat
      <4>1. Len(old.slots) \in Nat
        BY <3>2, MappedPage, Zenon
      <4>2. QED  BY <4>1 DEF Running, StateTyped, Locals
    <3>6. loc[u].slot < Len(new.slots)
      <4> HIDE DEF old, new
      <4>1. QED  BY <3>3, <3>4, <3>5
    <3>7. Rid(u)' = Rid(u)
      BY <3>1 DEF Rid
    <3>8. \A a \in acked' : a.rid # Rid(u)
      BY <3>1, <3>3
    <3>9. QED  BY <3>1, <3>6, <3>7, <3>8 DEF PageAt
  <2>4. ASSUME NEW u \in Threads, pc'[u] \in Updates, loc'[u].doc # None
        PROVE  /\ Located([rid |-> Rid(u), doc |-> loc[u].doc])'
               /\ \A a \in acked' : a.rid # Rid(u)'
               /\ \A v \in Threads : pc'[v] = "lockRemove" => Rid(v)' # Rid(u)'
    <3>1. u = t /\ l \in Updates /\ l # "lockRemove"
      BY <1>2, <1>3, <2>4
    <3>2. /\ Located([rid |-> Rid(t), doc |-> loc[t].doc])'
          /\ \A a \in acked : a.rid # <<loc'[t].page, loc'[t].slot>>
          /\ \A v \in Threads : v # t /\ pc[v] = "lockRemove" =>
                Rid(v) # <<loc'[t].page, loc'[t].slot>>
      BY <2>4, <3>1, Zenon DEF Claims
    <3>3. Rid(t)' = <<loc'[t].page, loc'[t].slot>> /\ acked' = acked
      BY <3>1 DEF Rid
    <3>4. ASSUME NEW v \in Threads, pc'[v] = "lockRemove" PROVE Rid(v)' # Rid(t)'
      <4>1. v # t /\ pc[v] = "lockRemove" /\ Rid(v)' = Rid(v)
        BY <1>1, <1>2, <3>1, <3>4 DEF Rid
      <4>2. QED  BY <3>2, <3>3, <4>1, Zenon
    <3>5. QED  BY <3>1, <3>2, <3>3, <3>4, Zenon
  <2>5. QED  BY <2>1, <2>2, <2>3, <2>4 DEF RidsSound
<1>6. QED  BY <1>4, <1>5

\* A page of _body is written: the segments stay what they were.
LEMMA WriteStep ==
    ASSUME Running, NEW t \in Threads, NEW p, Covers(body, p), NEW page \in Pages,
           Writes(disk', disk, body, p, page), NEW l, pc' = [pc EXCEPT ![t] = l],
           pc[t] \notin Growing, l \notin Growing,
           \A u \in Threads : u # t => loc'[u] = loc[u],
           UNCHANGED <<fileSegments, headerSize, body, lost>>
    PROVE  SegmentsCounted' /\ SegmentsInPlace'
<1>2. Writes(disk', disk, body, p, page)
  OBVIOUS
<1>3. \A u \in Threads : u # t => pc'[u] = pc[u] /\ loc'[u] = loc[u]
  BY DEF Running, StateTyped
<1>4. pc'[t] = l
  BY DEF Running, StateTyped
<1>5. ASSUME NEW u \in Threads, pc'[u] \in {"measure", "list"}
      PROVE  disk'[loc'[u].base] = disk[loc[u].base]
  <2>1. pc[u] \in {"measure", "list"} /\ loc'[u] = loc[u]
    BY <1>3, <1>4, <1>5
  <2>2. /\ fileSegments \in 0 .. MaxSegments /\ MaxSegments \in Nat /\ loc[u].base \in Nat
        /\ loc[u].base + 1 = fileSegments
        /\ \A i \in 1 .. Len(body) : body[i] < loc[u].base
    BY <2>1, BoundsAssumption DEF Running, StateTyped, TypeOK, Locals, SegmentsCounted
  <2>3. loc[u].base \in Segments /\ \A i \in 1 .. Len(body) : body[i] # loc[u].base
    BY <2>2 DEF Segments
  <2>4. QED  BY <1>2, <2>1, <2>3 DEF Writes
<1>6. SegmentsCounted'
  BY <1>3, <1>4, <1>5 DEF Running, SegmentsCounted
<1>7. SegmentsInPlace'
  BY <1>3, <1>4 DEF Running, SegmentsInPlace
<1>8. QED  BY <1>2, <1>6, <1>7

\* The holder of _mutex releases it and returns; the disk may have changed.
LEMMA ReleaseStep ==
    ASSUME Running, NEW t \in Threads, pc[t] \in Holding, mutex' = None,
           pc' = [pc EXCEPT ![t] = "idle"], loc' = [loc EXCEPT ![t] = NoLocals],
           disk' \in Disks, freeMap' \in Seq(Entries), acked' \subseteq Records,
           UNCHANGED <<fileSegments, headerSize, body, extendMutex, status, used, lost,
                       misnumbered, crashes>>
    PROVE  StateTyped' /\ LatchesHeld' /\ status' = "up"
<1>1. loc' \in [Threads -> Locals]
  BY NoLocalsTyped DEF Running, StateTyped
<1>2. StateTyped'
  BY <1>1 DEF Running, StateTyped, TypeOK, Disks
<1>3. LatchesHeld' /\ status' = "up"
  BY NoneAssumption DEF Running, StateTyped, LatchesHeld
<1>4. QED  BY <1>2, <1>3

\* Nobody else is inside the critical section of _mutex.
LEMMA HolderIsAlone ==
    ASSUME Running, NEW t \in Threads, pc[t] \in Holding \/ mutex = None
    PROVE  Alone(t) /\ \A u \in Threads : u # t => pc[u] \notin Holding
  BY NoneAssumption DEF Running, LatchesHeld, Alone

\* A page may be written without a change to its slots, or with slots added.
LEMMA PutWrites ==
    ASSUME Running, NEW p, Covers(body, p), NEW page \in Pages,
           disk' = PutPage(disk, body, p, page)
    PROVE  Writes(disk', disk, body, p, page)
<1>1. disk \in Disks /\ body \in Bodies
  BY DEF Running, StateTyped, TypeOK, SegmentsCounted, Disks, Bodies
<1>2. QED  BY <1>1, PutPageWrites, Zenon

LEMMA KeepingWrite ==
    ASSUME Running, NEW p, Covers(body, p), NEW page \in Pages,
           Writes(disk', disk, body, p, page), Keeps(PageIn(disk, body, p), page)
    PROVE  SlotsKept
<1>1. ASSUME NEW q \in Nat, q < Len(body) * PagesPerSegment
      PROVE  Keeps(PageIn(disk, body, q), PageIn(disk', body, q))
  <2>1. Covers(body, q) /\ Len(PageIn(disk, body, q).slots) \in Nat
    BY <1>1, MappedPage, Zenon
  <2>2. CASE q = p
    BY <2>1, <2>2 DEF Writes
  <2>3. CASE q # p
    <3>1. PageIn(disk', body, q) = PageIn(disk, body, q)
      BY <2>1, <2>3 DEF Writes
    <3>2. QED  BY <2>1, <3>1 DEF Keeps
  <2>4. QED  BY <2>2, <2>3
<1>2. QED  BY <1>1 DEF SlotsKept

LEMMA SameSlots ==
    ASSUME Running, NEW p, Covers(body, p), NEW page \in Pages,
           Writes(disk', disk, body, p, page), page.slots = PageIn(disk, body, p).slots,
           page.whole = PageIn(disk, body, p).whole
    PROVE  SlotsKept
<1>1. Len(PageIn(disk, body, p).slots) \in Nat
  BY MappedPage DEF Covers
<1>2. Keeps(PageIn(disk, body, p), page)
  BY <1>1 DEF Keeps
<1>3. QED  BY <1>2, KeepingWrite, Zenon

LEMMA ReenterEntryStep ==
    ASSUME Running, NEW t \in Threads, ReenterEntry(t)
    PROVE  Running'
<1> DEFINE p == loc[t].page
           old == PageIn(disk, body, p)
           free == old.free + loc[t].change
           page == [old EXCEPT !.free = free]
           x == [rid |-> Rid(t), doc |-> loc[t].doc]
<1>0. /\ pc[t] = "reenter" /\ mutex' = None
      /\ pc' = [pc EXCEPT ![t] = "idle"] /\ loc' = [loc EXCEPT ![t] = NoLocals]
      /\ disk' = PutPage(disk, body, p, page)
      /\ freeMap' = MapInsert(freeMap, Entry(free, p))
      /\ acked' = IF loc[t].doc = None THEN acked ELSE acked \cup {x}
      /\ UNCHANGED <<fileSegments, headerSize, body, extendMutex, status, used, lost,
                     misnumbered, crashes>>
  BY DEF ReenterEntry, Return, Goto, PageAt, SetPage
<1>1. Covers(body, p) /\ free \in Nat /\ p \in Nat
  BY <1>0 DEF Running, LocalsSound, Mapped, Covers, PageAt
<1>2. disk \in Disks /\ body \in Seq(Segments) /\ freeMap \in Seq(Entries)
  BY DEF Running, StateTyped, TypeOK, Disks
<1>3. old \in Pages
  BY <1>1, <1>2, PageInFile, Zenon
<1> HIDE DEF old, free, p
<1>4. page \in Pages /\ page.slots = old.slots /\ page.whole = old.whole
  BY <1>1, <1>3 DEF Pages
<1> HIDE DEF page
<1>5. Writes(disk', disk, body, p, page) /\ SegmentsCounted' /\ SegmentsInPlace'
  <2>1. \A u \in Threads : u # t => loc'[u] = loc[u]
    BY <1>0 DEF Running, StateTyped
  <2>2. Writes(disk', disk, body, p, page)
    BY <1>0, <1>1, <1>4, PutWrites, Zenon
  <2>3. QED  BY <1>0, <1>1, <1>4, <2>1, <2>2, WriteStep
<1>6. SlotsKept
  BY <1>1, <1>4, <1>5, SameSlots DEF old
<1>7. disk' \in Disks
  BY <1>5 DEF Writes
<1>8. freeMap' \in Seq(Entries)
  <2>1. Entry(free, p) \in Entries
    BY <1>1 DEF Entry, Entries
  <2>2. QED  BY <1>0, <1>2, <2>1, MapInsertTyped, Zenon
<1>9. acked' \subseteq Records
  <2>1. loc[t].doc # None => x \in Records
    BY <1>1 DEF Rid, Records, Running, StateTyped, Locals, p
  <2>2. QED  BY <1>0, <2>1 DEF Running, StateTyped
<1>10. StateTyped' /\ LatchesHeld' /\ status' = "up"
  BY <1>0, <1>7, <1>8, <1>9, ReleaseStep
<1>11. Alone(t)
  BY <1>0, HolderIsAlone
<1>12. LocalsSound' /\ RidsSound'
  <2>1. ASSUME NEW a \in acked' \ acked, ~lost
        PROVE  /\ Located(a) /\ a.rid \in Nat \X Nat
               /\ \A u \in Threads : pc[u] = "lockRemove" => Rid(u) # a.rid
               /\ \A b \in acked' : a.rid = b.rid => a = b
    <3>1. a = x /\ loc[t].doc # None /\ \A b \in acked' : b = x \/ b \in acked
      BY <1>0
    <3>2. /\ Located(x)
          /\ \A b \in acked : b.rid # Rid(t)
          /\ \A u \in Threads : pc[u] = "lockRemove" => Rid(u) # Rid(t)
      BY <1>0, <2>1, <3>1 DEF Running, RidsSound
    <3>3. a.rid = Rid(t) /\ a.rid \in Nat \X Nat
      BY <1>1, <3>1 DEF Rid, Running, StateTyped, Locals, p
    <3>4. QED  BY <3>1, <3>2, <3>3
  <2>2. /\ loc' \in [Threads -> Locals] /\ \A u \in Threads : u # t => loc'[u] = loc[u]
        /\ acked \subseteq acked'
    BY <1>0, NoLocalsTyped DEF Running, StateTyped
  <2>3. Knows("idle", loc'[t]) /\ Claims(t, "idle", loc'[t])
    BY DEF Knows, Claims
  <2>4. QED  BY <1>0, <1>6, <1>11, <2>1, <2>2, <2>3, SlotsKeptStep
<1>13. QED  BY <1>5, <1>10, <1>12 DEF Running

\* w is the slots s and one more, for document e.
Adds(w, s, e) ==
    /\ w \in Seq(Docs \cup {None, Stray}) /\ Len(s) \in Nat /\ Len(w) = Len(s) + 1
    /\ \A k \in 1 .. Len(s) : w[k] = s[k]
    /\ w[Len(s) + 1] = e

LEMMA Appended ==
    ASSUME NEW s \in Seq(Docs \cup {None, Stray}), NEW e \in Docs \cup {None}
    PROVE  Adds(Append(s, e), s, e)
  BY AppendProperties DEF Adds

\* What is known of the slots of a page: the number, and on a whole page all.
LEMMA KnownSlots ==
    ASSUME NEW S, NEW w \in BOOLEAN, NEW s \in Seq(S)
    PROVE  /\ Known(w, s) \in Seq({None} \cup IF w THEN S ELSE {Stray})
           /\ Len(Known(w, s)) = Len(s) /\ Len(s) \in Nat
           /\ w => Known(w, s) = s
<1>1. Len(s) \in Nat /\ \A k \in 1 .. Len(s) : s[k] \in S
  BY ElementOfSeq, LenProperties, Zenon
<1>2. CASE w
  <2>1. Known(w, s) = s /\ s \in Seq({None} \cup S)
    BY <1>2 DEF Known
  <2>2. QED  BY <1>1, <1>2, <2>1
<1>3. CASE ~w
  <2> DEFINE f == [i \in 1 .. Len(s) |-> IF s[i] = None THEN None ELSE Stray]
  <2>1. Known(w, s) = f
    BY <1>3 DEF Known
  <2>2. f \in [1 .. Len(s) -> {None, Stray}]
    OBVIOUS
  <2>3. f \in Seq({None, Stray}) /\ Len(f) = Len(s)
    BY <1>1, <2>2
  <2>4. {None} \cup (IF w THEN S ELSE {Stray}) = {None, Stray}
    BY <1>3
  <2>5. QED  BY <1>1, <1>3, <2>1, <2>3, <2>4, Zenon
<1>4. QED  BY <1>2, <1>3

\* The holder of _mutex stores into its page, or leaves it alone.
LEMMA PageStep ==
    ASSUME Running, NEW t \in Threads, pc[t] \in Placing,
           NEW l, l \in {"recover", "check", "header", "erase"},
           NEW p, Covers(body, p), NEW page \in Pages, Writes(disk', disk, body, p, page),
           Keeps(PageIn(disk, body, p), page),
           pc' = [pc EXCEPT ![t] = l], loc' \in [Threads -> Locals],
           \A u \in Threads : u # t => loc'[u] = loc[u], Knows(l, loc'[t]), Claims(t, l, loc'[t]),
           UNCHANGED <<fileSegments, headerSize, body, freeMap, mutex, extendMutex, status,
                       used, acked, lost, misnumbered, crashes>>
    PROVE  Running'
<1>1. SlotsKept
  BY KeepingWrite
<1>2. Alone(t)
  BY HolderIsAlone
<1>3. LocalsSound' /\ RidsSound'
  BY <1>1, <1>2, SlotsKeptStep
<1>4. SegmentsCounted' /\ SegmentsInPlace'
  BY WriteStep
<1>5. StateTyped'
  BY DEF Running, StateTyped, TypeOK, Writes, Disks
<1>6. LatchesHeld' /\ status' = "up"
  BY DEF Running, StateTyped, LatchesHeld
<1>7. QED  BY <1>3, <1>4, <1>5, <1>6 DEF Running

\* The page a thread works on.
LEMMA OwnPage ==
    ASSUME Running, NEW t \in Threads, pc[t] \in Placing,
           NEW p, p = loc[t].page, NEW old, old = PageIn(disk, body, p)
    PROVE  /\ p \in Nat /\ p < Len(body) * PagesPerSegment /\ Covers(body, p) /\ old \in Pages
           /\ old.slots \in Seq(Docs \cup {None, Stray}) /\ Len(old.slots) \in Nat
           /\ old.free \in Nat /\ old.slotOffset \in Nat /\ old.freeOffset \in Nat
           /\ loc[t] \in Locals /\ loc[t].doc \in Docs
           /\ Size[loc[t].doc] \in Nat /\ Need(t) = Size[loc[t].doc] + 3
           /\ Writes(disk, disk, body, p, old) /\ Keeps(old, old)
<1>1. p \in Nat /\ p < Len(body) * PagesPerSegment /\ loc[t].doc \in Docs /\ loc[t] \in Locals
  BY DEF Running, LocalsSound, Mapped, StateTyped
<1>2. Covers(body, p) /\ old \in Pages /\ old.slots \in Seq(Docs \cup {None, Stray}) /\ Len(old.slots) \in Nat
  BY <1>1, MappedPage, Zenon
<1>3. old.free \in Nat /\ old.slotOffset \in Nat /\ old.freeOffset \in Nat
  BY <1>2 DEF Pages
<1>4. Size[loc[t].doc] \in Nat /\ Need(t) = Size[loc[t].doc] + 3
  BY <1>1, SizeAssumption DEF Need, Overhead, RecordWords, SlotWords
<1>5. Writes(disk, disk, body, p, old)
  BY DEF Writes, Running, StateTyped, TypeOK, Disks
<1>6. Keeps(old, old)
  BY <1>2 DEF Keeps
<1>7. QED  BY <1>1, <1>2, <1>3, <1>4, <1>5, <1>6

LEMMA ReadPageStep ==
    ASSUME Running, NEW t \in Threads, ReadPage(t)
    PROVE  Running'
<1>0. /\ pc[t] = "place" /\ loc[t].page \in Nat /\ loc[t].doc \in Docs /\ loc[t] \in Locals
      /\ UNCHANGED <<fileSegments, headerSize, disk, body, freeMap, extendMutex, status,
                     used, acked, lost, misnumbered, crashes>>
  BY DEF ReadPage, Running, LocalsSound, StateTyped, persistent, history
<1>1. /\ disk \in Disks /\ freeMap \in Seq(Entries) /\ acked \subseteq Records
      /\ loc \in [Threads -> Locals] /\ PagesKept
  BY <1>0 DEF Running, StateTyped, TypeOK, Disks, PagesKept
<1>2. CASE /\ mutex' = None /\ pc' = [pc EXCEPT ![t] = "idle"]
           /\ loc' = [loc EXCEPT ![t] = NoLocals]
  <2>1. StateTyped' /\ LatchesHeld' /\ status' = "up"
    BY <1>0, <1>1, <1>2, ReleaseStep
  <2>2. SegmentsCounted' /\ SegmentsInPlace'
    BY <1>0, <1>2 DEF Running, StateTyped, SegmentsCounted, SegmentsInPlace
  <2>3. LocalsSound' /\ RidsSound'
    <3>1. loc' \in [Threads -> Locals] /\ \A u \in Threads : u # t => loc'[u] = loc[u]
      BY <1>2, NoLocalsTyped DEF Running, StateTyped
    <3>2. QED  BY <1>0, <1>1, <1>2, <3>1, PagesKeptStep
  <2>4. QED  BY <2>1, <2>2, <2>3 DEF Running
<1>3. CASE /\ Mapped(loc[t].page) /\ mutex' = mutex /\ pc' = [pc EXCEPT ![t] = "sweep"]
           /\ loc' = loc
  <2>1. StateTyped' /\ LatchesHeld' /\ status' = "up"
    BY <1>0, <1>1, <1>3 DEF Running, StateTyped, TypeOK, LatchesHeld
  <2>2. SegmentsCounted' /\ SegmentsInPlace'
    BY <1>0, <1>3 DEF Running, StateTyped, SegmentsCounted, SegmentsInPlace
  <2>3. LocalsSound' /\ RidsSound'
    BY <1>0, <1>1, <1>3, PagesKeptStep DEF Mapped
  <2>4. QED  BY <2>1, <2>2, <2>3 DEF Running
<1>4. QED  BY <1>2, <1>3 DEF ReadPage, Return, Goto

LEMMA MoveImagesStep ==
    ASSUME Running, NEW t \in Threads, MoveImages(t)
    PROVE  Running'
<1> DEFINE p == loc[t].page
           old == PageIn(disk, body, p)
           whole == old.whole /\ \A i \in 1 .. Len(old.slots) : old.slots[i] = None
           page == [old EXCEPT !.whole = whole, !.slots = Known(whole, old.slots)]
<1>0. /\ pc[t] = "sweep" /\ loc' = loc
      /\ UNCHANGED <<fileSegments, headerSize, body, freeMap, mutex, extendMutex, status,
                     used, acked, lost, misnumbered, crashes>>
  BY DEF MoveImages, volatile, history
<1>1. \/ disk' = PutPage(disk, body, p, page) /\ pc' = [pc EXCEPT ![t] = "recover"]
      \/ disk' = disk /\ pc' = [pc EXCEPT ![t] = "check"]
  BY DEF MoveImages, Goto, PageAt, SetPage
<1>2. /\ p \in Nat /\ p < Len(body) * PagesPerSegment /\ Covers(body, p) /\ old \in Pages
      /\ old.slots \in Seq(Docs \cup {None, Stray}) /\ Len(old.slots) \in Nat
      /\ loc[t].doc \in Docs /\ Writes(disk, disk, body, p, old) /\ Keeps(old, old)
  BY <1>0, OwnPage, Zenon
<1>3. /\ loc' \in [Threads -> Locals] /\ \A u \in Threads : u # t => loc'[u] = loc[u]
      /\ \A l \in {"recover", "check"} : Knows(l, loc'[t]) /\ Claims(t, l, loc'[t])
  BY <1>0, <1>2 DEF Running, StateTyped, Knows, Claims
<1> HIDE DEF p, old, page
<1>4. page \in Pages /\ Keeps(old, page)
  <2>1. whole \in BOOLEAN /\ old.whole \in BOOLEAN /\ (whole => old.whole)
    BY <1>2 DEF Pages
  <2> HIDE DEF whole
  <2> DEFINE k == Known(whole, old.slots)
  <2>2. old.slots \in Seq({None} \cup IF old.whole THEN Docs ELSE {Stray})
    BY <1>2 DEF Pages
  <2>3. k \in Seq({None} \cup IF whole THEN Docs ELSE {Stray}) /\ Len(k) = Len(old.slots)
        /\ (whole => k = old.slots)
    <3>1. Len(k) = Len(old.slots) /\ (whole => k = old.slots)
          /\ (~whole => k \in Seq({None} \cup {Stray}))
      BY <1>2, <2>1, KnownSlots
    <3>2. whole => k \in Seq({None} \cup Docs)
      BY <2>1, <2>2, <3>1
    <3>3. QED  BY <3>1, <3>2
  <2>4. k \in Seq(Docs \cup {None, Stray})
    <3>1. CASE whole
      BY <1>2, <2>3, <3>1
    <3>2. CASE ~whole
      <4>1. k \in Seq({None, Stray})
        BY <2>3, <3>2
      <4>2. QED  BY <4>1
    <3>3. QED  BY <3>1, <3>2
  <2>5. page = [old EXCEPT !.whole = whole, !.slots = k]
    BY DEF page
  <2> HIDE DEF k
  <2>6. /\ page.slots = k /\ page.whole = whole /\ page.slotOffset = old.slotOffset
        /\ page.freeOffset = old.freeOffset
        /\ page \in [magic : BOOLEAN, free : Nat, slotOffset : Nat, freeOffset : Nat,
                     slots : Seq(Docs \cup {None, Stray}), whole : BOOLEAN]
    BY <1>2, <2>1, <2>4, <2>5 DEF Pages
  <2>7. page \in Pages
    BY <1>2, <2>3, <2>6 DEF Pages
  <2>8. Keeps(old, page)
    BY <1>2, <2>1, <2>3, <2>6 DEF Keeps
  <2>9. QED  BY <2>7, <2>8
<1>5. CASE disk' = PutPage(disk, body, p, page) /\ pc' = [pc EXCEPT ![t] = "recover"]
  <2>1. Writes(disk', disk, body, p, page)
    BY <1>2, <1>4, <1>5, PutWrites, Zenon
  <2>2. Keeps(PageIn(disk, body, p), page)
    BY <1>4 DEF old
  <2>3. QED  BY <1>0, <1>2, <1>3, <1>4, <1>5, <2>1, <2>2, PageStep
<1>6. CASE disk' = disk /\ pc' = [pc EXCEPT ![t] = "check"]
  <2>1. Writes(disk', disk, body, p, old) /\ Keeps(PageIn(disk, body, p), old)
    BY <1>2, <1>6 DEF old
  <2>2. QED  BY <1>0, <1>2, <1>3, <1>6, <2>1, PageStep
<1>7. QED  BY <1>1, <1>5, <1>6

LEMMA RecoverSpaceStep ==
    ASSUME Running, NEW t \in Threads, RecoverSpace(t)
    PROVE  Running'
<1> DEFINE p == loc[t].page
           old == PageIn(disk, body, p)
           page == [old EXCEPT !.freeOffset = PageFree]
<1>0. /\ pc[t] = "recover" /\ loc' = loc /\ pc' = [pc EXCEPT ![t] = "check"]
      /\ UNCHANGED <<fileSegments, headerSize, body, freeMap, mutex, extendMutex, status,
                     used, acked, lost, misnumbered, crashes>>
  BY DEF RecoverSpace, volatile, history, Goto
<1>1. disk' = PutPage(disk, body, p, page) \/ disk' = disk
  BY DEF RecoverSpace, PageAt, SetPage
<1>2. /\ p \in Nat /\ p < Len(body) * PagesPerSegment /\ Covers(body, p) /\ old \in Pages
      /\ Len(old.slots) \in Nat
      /\ loc[t].doc \in Docs /\ Writes(disk, disk, body, p, old) /\ Keeps(old, old)
  BY <1>0, OwnPage, Zenon
<1>3. /\ loc' \in [Threads -> Locals] /\ \A u \in Threads : u # t => loc'[u] = loc[u]
      /\ Knows("check", loc'[t]) /\ Claims(t, "check", loc'[t])
  BY <1>0, <1>2 DEF Running, StateTyped, Knows, Claims
<1> HIDE DEF p, old
<1>4. page \in Pages /\ Keeps(old, page)
  <2>1. page \in Pages /\ page.slots = old.slots /\ page.whole = old.whole
    BY <1>2, PageAssumption DEF Pages
  <2>2. QED  BY <1>2, <2>1 DEF Keeps
<1> HIDE DEF page
<1>5. CASE disk' = PutPage(disk, body, p, page)
  <2>1. Writes(disk', disk, body, p, page)
    BY <1>2, <1>4, <1>5, PutWrites, Zenon
  <2>2. Keeps(PageIn(disk, body, p), page)
    BY <1>4 DEF old
  <2>3. QED  BY <1>0, <1>2, <1>3, <1>4, <2>1, <2>2, PageStep
<1>6. CASE disk' = disk
  <2>1. Writes(disk', disk, body, p, old) /\ Keeps(PageIn(disk, body, p), old)
    BY <1>2, <1>6 DEF old
  <2>2. QED  BY <1>0, <1>2, <1>3, <2>1, PageStep
<1>7. QED  BY <1>1, <1>5, <1>6

LEMMA AppendRecordStep ==
    ASSUME Running, NEW t \in Threads, AppendRecord(t)
    PROVE  Running'
<1> DEFINE p == loc[t].page
           old == PageIn(disk, body, p)
           d == loc[t].doc
           n == Len(old.slots)
           k == Known(old.whole, Append(old.slots, d))
           page == [old EXCEPT !.slots = k]
<1>0. /\ pc[t] = "check"
      /\ UNCHANGED <<fileSegments, headerSize, body, freeMap, extendMutex, status,
                     used, acked, lost, misnumbered, crashes>>
  BY DEF AppendRecord, history
<1>1. \/ /\ mutex' = None /\ pc' = [pc EXCEPT ![t] = "idle"] /\ disk' = disk
         /\ loc' = [loc EXCEPT ![t] = NoLocals]
      \/ /\ disk' = PutPage(disk, body, p, page) /\ mutex' = mutex
         /\ loc' = [loc EXCEPT ![t] = [@ EXCEPT !.slot = n, !.change = -Need(t)]]
         /\ pc' = [pc EXCEPT ![t] = "header"]
         /\ ~(old.free < Need(t)) /\ (old.whole => ~(Gap(old) < Need(t)))
  BY DEF AppendRecord, Return, Goto, PageAt, SetPage, Lacks
<1>2. /\ p \in Nat /\ p < Len(body) * PagesPerSegment /\ Covers(body, p) /\ old \in Pages
      /\ old.slots \in Seq(Docs \cup {None, Stray}) /\ n \in Nat
      /\ old.free \in Nat /\ old.slotOffset \in Nat /\ old.freeOffset \in Nat
      /\ loc[t] \in Locals /\ d \in Docs /\ Size[d] \in Nat /\ Need(t) = Size[d] + 3
  BY <1>0, OwnPage, Zenon
<1>3. CASE /\ mutex' = None /\ pc' = [pc EXCEPT ![t] = "idle"] /\ disk' = disk
           /\ loc' = [loc EXCEPT ![t] = NoLocals]
  <2>1. disk' \in Disks /\ freeMap' \in Seq(Entries) /\ acked' \subseteq Records /\ PagesKept
    BY <1>0, <1>3 DEF Running, StateTyped, TypeOK, Disks, PagesKept
  <2>2. StateTyped' /\ LatchesHeld' /\ status' = "up"
    BY <1>0, <1>3, <2>1, ReleaseStep
  <2>3. SegmentsCounted' /\ SegmentsInPlace'
    BY <1>0, <1>3 DEF Running, StateTyped, SegmentsCounted, SegmentsInPlace
  <2>4. loc' \in [Threads -> Locals] /\ \A u \in Threads : u # t => loc'[u] = loc[u]
    BY <1>3, NoLocalsTyped DEF Running, StateTyped
  <2>5. LocalsSound' /\ RidsSound'
    BY <1>0, <1>3, <2>1, <2>4, PagesKeptStep
  <2>6. QED  BY <2>2, <2>3, <2>5 DEF Running
<1>4. CASE /\ disk' = PutPage(disk, body, p, page) /\ mutex' = mutex
           /\ loc' = [loc EXCEPT ![t] = [@ EXCEPT !.slot = n, !.change = -Need(t)]]
           /\ pc' = [pc EXCEPT ![t] = "header"]
           /\ ~(old.free < Need(t)) /\ (old.whole => ~(Gap(old) < Need(t)))
  <2>0. /\ loc' = [loc EXCEPT ![t] = [loc[t] EXCEPT !.slot = n, !.change = -Need(t)]]
        /\ Covers(body, p) /\ p = loc[t].page /\ n = Len(PageIn(disk, body, p).slots)
    BY <1>2, <1>4
  <2> HIDE DEF p
  <2>1. old.whole \in BOOLEAN
        /\ old.slots \in Seq({None} \cup IF old.whole THEN Docs ELSE {Stray})
    BY <1>2 DEF Pages
  <2> HIDE DEF old, d
  <2>2. /\ k \in Seq({None} \cup IF old.whole THEN Docs ELSE {Stray})
        /\ k \in Seq(Docs \cup {None, Stray}) /\ Len(k) = n + 1
        /\ old.whole => Adds(k, old.slots, d)
    <3> DEFINE w == Append(old.slots, d)
    <3>1. /\ w \in Seq(Docs \cup {None, Stray}) /\ Len(w) = n + 1 /\ Adds(w, old.slots, d)
      BY <1>2, Appended DEF Adds
    <3>2. old.whole => w \in Seq({None} \cup Docs)
      BY <1>2, <2>1
    <3> HIDE DEF w
    <3>3. /\ Len(k) = Len(w) /\ (old.whole => k = w)
          /\ (~old.whole => k \in Seq({None} \cup {Stray}))
      BY <2>1, <3>1, KnownSlots DEF w
    <3> HIDE DEF k
    <3>4. k \in Seq({None} \cup IF old.whole THEN Docs ELSE {Stray})
      BY <2>1, <3>2, <3>3
    <3>5. k \in Seq(Docs \cup {None, Stray})
      <4>1. CASE old.whole
        BY <3>1, <3>3, <4>1
      <4>2. CASE ~old.whole
        <5>1. k \in Seq({None, Stray})
          BY <3>3, <4>2
        <5>2. QED  BY <5>1
      <4>3. QED  BY <4>1, <4>2
    <3>6. QED  BY <3>1, <3>3, <3>4, <3>5
  <2> HIDE DEF k
  <2>3. /\ page \in Pages /\ page.slots = k /\ page.whole = old.whole /\ page.free = old.free
        /\ Gap(page) = Gap(old)
    <3>1. /\ page.slots = k /\ page.whole = old.whole /\ page.slotOffset = old.slotOffset
          /\ page.freeOffset = old.freeOffset /\ page.free = old.free
          /\ page \in [magic : BOOLEAN, free : Nat, slotOffset : Nat, freeOffset : Nat,
                       slots : Seq(Docs \cup {None, Stray}), whole : BOOLEAN]
      BY <1>2, <2>1, <2>2 DEF Pages
    <3>2. page \in Pages
      BY <1>2, <2>2, <3>1 DEF Pages
    <3>3. QED  BY <3>1, <3>2 DEF Gap
  <2> HIDE DEF page
  <2>4. Writes(disk', disk, body, p, page) /\ Keeps(PageIn(disk, body, p), page)
    <3>1. Writes(disk', disk, body, p, page)
      BY <1>2, <1>4, <2>3, PutWrites, Zenon
    <3>2. Keeps(old, page)
      BY <1>2, <2>2, <2>3 DEF Keeps, Adds
    <3>3. QED  BY <3>1, <3>2 DEF old
  <2>5. PageIn(disk', body, p) = page
    BY <1>2, <2>4 DEF Writes
  <2>6. /\ loc'[t].doc = d /\ loc'[t].page = p /\ loc'[t].slot = n /\ loc'[t].change = -Need(t)
        /\ loc' \in [Threads -> Locals] /\ \A u \in Threads : u # t => loc'[u] = loc[u]
    <3>1. -Need(t) \in Int /\ n \in Nat
      BY <1>2
    <3>2. [loc[t] EXCEPT !.slot = n, !.change = -Need(t)] \in Locals
      BY <1>2, <3>1, SlotLocal, ChangeLocal, Zenon
    <3>3. QED  BY <1>2, <2>0, <3>2 DEF Running, StateTyped, Locals, d
  <2>7. Knows("header", loc'[t])
    <3>1. page.whole => Gap(page) >= Size[d] + Overhead
      BY <1>2, <1>4, <2>3 DEF Gap, Overhead, RecordWords, SlotWords
    <3>2. page.free + -Need(t) \in Nat
      BY <1>2, <1>4, <2>3
    <3>3. QED  BY <1>2, <2>5, <2>6, <3>1, <3>2, Zenon DEF Knows
  <2>8. Claims(t, "header", loc'[t])
    <3> SUFFICES ASSUME ~lost PROVE Claims(t, "header", loc'[t])
      BY DEF Claims
    <3>1. Located([rid |-> Rid(t), doc |-> loc[t].doc])'
      <4>0. PICK x : x = [rid |-> <<p, n>>, doc |-> d]
        OBVIOUS
      <4>1. x = [rid |-> Rid(t)', doc |-> loc'[t].doc]
        BY <2>6, <4>0 DEF Rid
      <4>2. x.rid[1] = p /\ x.rid[2] = n /\ x.doc = d
        BY <4>0
      <4>3. n < Len(page.slots) /\ (page.whole => page.slots[n + 1] = d)
        <5>1. Len(page.slots) = n + 1 /\ n \in Nat
          BY <1>2, <2>2, <2>3
        <5>2. page.whole => page.slots[n + 1] = d
          BY <2>2, <2>3 DEF Adds
        <5> HIDE DEF n
        <5>3. QED  BY <5>1, <5>2
      <4>4. /\ x.rid[1] < Len(body') * PagesPerSegment
            /\ x.rid[2] < Len(PageIn(disk', body', x.rid[1]).slots)
            /\ PageIn(disk', body', x.rid[1]).whole =>
                  PageIn(disk', body', x.rid[1]).slots[x.rid[2] + 1] = x.doc
        BY <1>0, <1>2, <2>5, <4>2, <4>3, Zenon
      <4>5. QED  BY <4>1, <4>4, Zenon DEF Located, Mapped, PageAt
    <3>2. ASSUME NEW a \in acked, a.rid = <<p, n>> PROVE FALSE
      <4>1. n < Len(PageIn(disk, body, p).slots)
        BY <3>2 DEF Running, RidsSound, Located, PageAt
      <4>2. QED  BY <1>2, <2>0, <4>1
    <3>3. ASSUME NEW u \in Threads, pc[u] = "lockRemove", Rid(u) = <<p, n>> PROVE FALSE
      <4>1. loc[u].page = p /\ loc[u].slot = n
        BY <3>3 DEF Rid
      <4>2. loc[u].slot < Len(PageIn(disk, body, loc[u].page).slots)
        BY <3>3 DEF Running, RidsSound, PageAt
      <4>3. QED  BY <1>2, <2>0, <4>1, <4>2
    <3>4. QED  BY <2>6, <3>1, <3>2, <3>3, Zenon DEF Claims
  <2>9. QED  BY <1>0, <1>4, <2>0, <2>3, <2>4, <2>6, <2>7, <2>8, PageStep
<1>5. QED  BY <1>1, <1>3, <1>4

LEMMA SetOffsetsStep ==
    ASSUME Running, NEW t \in Threads, SetOffsets(t)
    PROVE  Running'
<1> DEFINE p == loc[t].page
           old == PageIn(disk, body, p)
           page == [old EXCEPT !.slotOffset = @ + SlotWords,
                               !.freeOffset = @ - RecordWords - Size[loc[t].doc]]
<1>0. /\ pc[t] = "header" /\ loc' = loc /\ pc' = [pc EXCEPT ![t] = "erase"]
      /\ UNCHANGED <<fileSegments, headerSize, body, freeMap, mutex, extendMutex, status,
                     used, acked, lost, misnumbered, crashes>>
  BY DEF SetOffsets, volatile, history, Goto
<1>1. (old.whole /\ disk' = PutPage(disk, body, p, page)) \/ disk' = disk
  BY DEF SetOffsets, PageAt, SetPage
<1>2. /\ p \in Nat /\ p < Len(body) * PagesPerSegment /\ Covers(body, p) /\ old \in Pages
      /\ Len(old.slots) \in Nat
      /\ old.free \in Nat /\ old.slotOffset \in Nat /\ old.freeOffset \in Nat
      /\ loc[t].doc \in Docs /\ Size[loc[t].doc] \in Nat /\ Need(t) = Size[loc[t].doc] + 3
      /\ Writes(disk, disk, body, p, old) /\ Keeps(old, old)
  BY <1>0, OwnPage, Zenon
<1>3. /\ loc' \in [Threads -> Locals] /\ \A u \in Threads : u # t => loc'[u] = loc[u]
      /\ old.free + loc[t].change \in Nat /\ (old.whole => Gap(old) >= Need(t))
  BY <1>0 DEF Running, StateTyped, LocalsSound, PageAt
<1>4. PICK e \in Pages : /\ e.slots = old.slots /\ e.whole = old.whole /\ e.free = old.free
                         /\ Writes(disk', disk, body, p, e)
  <2> HIDE DEF p, old
  <2>1. CASE old.whole /\ disk' = PutPage(disk, body, p, page)
    <3>1. page \in Pages /\ page.slots = old.slots /\ page.whole = old.whole /\ page.free = old.free
      <4>1. PICK z : z = Size[loc[t].doc]
        OBVIOUS
      <4>2. PICK so, fo : so = old.slotOffset + 1 /\ fo = old.freeOffset - 2 - z
        OBVIOUS
      <4>3. so \in Nat /\ fo \in Nat /\ so <= fo /\ fo <= PageFree
        <5>1. old.freeOffset - old.slotOffset >= z + 3 /\ old.freeOffset <= PageFree
          BY <1>2, <1>3, <2>1, <4>1 DEF Gap, Pages
        <5>2. z \in Nat /\ old.freeOffset \in Nat /\ old.slotOffset \in Nat /\ PageFree \in Nat
          BY <1>2, <4>1, PageAssumption, Zenon
        <5>3. QED  BY <4>2, <5>1, <5>2
      <4>4. page = [old EXCEPT !.slotOffset = so, !.freeOffset = fo]
        BY <4>1, <4>2 DEF SlotWords, RecordWords
      <4>5. QED  BY <1>2, <4>3, <4>4 DEF Pages
    <3>2. QED  BY <1>2, <2>1, <3>1, PutWrites, Zenon
  <2>2. CASE disk' = disk
    BY <1>2, <2>2, Zenon
  <2>3. QED  BY <1>1, <2>1, <2>2 DEF p, old
<1>5. Keeps(PageIn(disk, body, p), e) /\ PageIn(disk', body, p) = e
  <2>1. PageIn(disk', body, p) = e
    BY <1>2, <1>4 DEF Writes
  <2>2. Keeps(old, e)
    BY <1>2, <1>4 DEF Keeps
  <2>3. QED  BY <2>1, <2>2
<1>6. Knows("erase", loc'[t])
  BY <1>0, <1>2, <1>3, <1>4, <1>5 DEF Knows
<1>7. Claims(t, "erase", loc'[t])
  <2> SUFFICES ASSUME ~lost, loc'[t].doc # None PROVE Claims(t, "erase", loc'[t])
    BY DEF Claims
  <2>1. /\ Located([rid |-> Rid(t), doc |-> loc[t].doc])
        /\ \A a \in acked : a.rid # Rid(t)
        /\ \A u \in Threads : pc[u] = "lockRemove" => Rid(u) # Rid(t)
    BY <1>0 DEF Running, RidsSound
  <2>2. Rid(t) = <<loc'[t].page, loc'[t].slot>>
    BY <1>0 DEF Rid
  <2>3. SlotsKept
    BY <1>2, <1>4, <1>5, KeepingWrite, Zenon
  <2>4. PICK x : x = [rid |-> Rid(t), doc |-> loc[t].doc]
    OBVIOUS
  <2>5. x.rid[1] \in Nat /\ x.rid[2] \in Nat
    BY <1>2, <2>4 DEF Rid, Running, StateTyped, Locals
  <2>6. Located(x)'
    BY <1>0, <2>1, <2>3, <2>4, <2>5, LocatedKept, Zenon
  <2>7. x = [rid |-> Rid(t)', doc |-> loc'[t].doc]
    BY <1>0, <2>4 DEF Rid
  <2>8. QED  BY <2>1, <2>2, <2>6, <2>7, Zenon DEF Claims
<1>8. QED  BY <1>0, <1>2, <1>3, <1>4, <1>5, <1>6, <1>7, PageStep

\* What EmptySlot does when it finds the record: slot s of page p is emptied.
Empties(t, p, s, c) ==
    LET old == PageIn(disk, body, p)
    IN /\ pc[t] = "lockRemove" /\ mutex = None /\ mutex' = t
       /\ p = loc[t].page /\ s = loc[t].slot + 1 /\ p \in Nat /\ Covers(body, p)
       /\ ~(s > Len(old.slots)) /\ old.slots[s] # None
       /\ disk' = PutPage(disk, body, p, [old EXCEPT !.slots[s] = None])
       /\ c \in Sizes(old, s) /\ loc' = [loc EXCEPT ![t].change = c]
       /\ pc' = [pc EXCEPT ![t] = "erase"]
       /\ UNCHANGED <<fileSegments, headerSize, body, freeMap, extendMutex, status, rc,
                      used, acked, lost, misnumbered, crashes>>

LEMMA SlotEmptied ==
    ASSUME Running, NEW t \in Threads, NEW p, NEW s, NEW c, Empties(t, p, s, c)
    PROVE  Running'
<1> DEFINE old == PageIn(disk, body, p)
           new == [old.slots EXCEPT ![s] = None]
           page == [old EXCEPT !.slots = new]
<1>0. /\ pc[t] = "lockRemove" /\ mutex = None /\ mutex' = t
      /\ p = loc[t].page /\ s = loc[t].slot + 1 /\ p \in Nat /\ Covers(body, p)
      /\ ~(s > Len(old.slots)) /\ old.slots[s] # None
      /\ disk' = PutPage(disk, body, p, page)
      /\ c \in Sizes(old, s) /\ loc' = [loc EXCEPT ![t].change = c]
      /\ pc' = [pc EXCEPT ![t] = "erase"]
      /\ UNCHANGED <<fileSegments, headerSize, body, freeMap, extendMutex, status, rc,
                     used, acked, lost, misnumbered, crashes>>
  BY DEF Empties
<1>1. disk \in Disks /\ body \in Seq(Segments) /\ loc[t] \in Locals /\ loc[t].slot \in Nat
  BY DEF Running, StateTyped, TypeOK, Disks, Locals
<1>2. old \in Pages
  BY <1>0, <1>1, PageInFile, Zenon
<1> HIDE DEF old
<1>3. old.slots \in Seq(Docs \cup {None, Stray}) /\ old.free \in Nat /\ Len(old.slots) \in Nat
  BY <1>2 DEF Pages
<1>4. s \in 1 .. Len(old.slots)
  <2>1. s \in Nat /\ s >= 1
    BY <1>0, <1>1
  <2>2. QED  BY <1>0, <1>3, <2>1
<1>5. /\ old.whole \in BOOLEAN /\ (old.whole => old.slots[s] \in Docs)
      /\ old.slots \in Seq({None} \cup IF old.whole THEN Docs ELSE {Stray})
  <2>1. old.whole \in BOOLEAN /\ old.slots \in Seq({None} \cup IF old.whole THEN Docs ELSE {Stray})
    BY <1>2 DEF Pages
  <2>2. old.slots[s] \in {None} \cup IF old.whole THEN Docs ELSE {Stray}
    BY <1>4, <2>1, ElementOfSeq, Zenon
  <2>3. QED  BY <1>0, <2>1, <2>2
<1>6. c \in Nat
  <2>1. \A d \in Docs : Size[d] \in Nat
    BY SizeAssumption
  <2>2. QED  BY <1>0, <1>5, <2>1, Zenon DEF Sizes
<1>7. /\ new \in Seq(Docs \cup {None, Stray}) /\ Len(new) = Len(old.slots)
      /\ new \in Seq({None} \cup IF old.whole THEN Docs ELSE {Stray})
      /\ \A j \in 1 .. Len(old.slots) : j # s => new[j] = old.slots[j]
  <2>1. None \in Docs \cup {None, Stray} /\ None \in {None} \cup IF old.whole THEN Docs ELSE {Stray}
    OBVIOUS
  <2>2. QED  BY <1>3, <1>4, <1>5, <2>1, ExceptSeq
<1> HIDE DEF new
<1>8. page \in Pages /\ page.slots = new /\ page.free = old.free /\ page.whole = old.whole
  <2>1. /\ page.slots = new /\ page.whole = old.whole /\ page.slotOffset = old.slotOffset
        /\ page.freeOffset = old.freeOffset /\ page.free = old.free
        /\ page \in [magic : BOOLEAN, free : Nat, slotOffset : Nat, freeOffset : Nat,
                     slots : Seq(Docs \cup {None, Stray}), whole : BOOLEAN]
    BY <1>2, <1>7 DEF Pages
  <2>2. page \in Pages
    BY <1>2, <1>7, <2>1 DEF Pages
  <2>3. QED  BY <2>1, <2>2
<1> HIDE DEF page
<1>9. /\ \A u \in Threads : u # t => pc'[u] = pc[u] /\ loc'[u] = loc[u]
      /\ pc'[t] = "erase" /\ loc'[t].slot = loc[t].slot /\ loc'[t].change = c
      /\ loc'[t].page = p /\ loc'[t].doc = None
  <2>1. loc[t].doc = None
    BY <1>0 DEF Running, LocalsSound
  <2>2. QED  BY <1>0, <2>1 DEF Running, StateTyped, Locals
<1>10. Writes(disk', disk, body, p, page) /\ SegmentsCounted' /\ SegmentsInPlace'
  <2>1. Writes(disk', disk, body, p, page)
    BY <1>0, <1>8, PutWrites, Zenon
  <2>2. QED  BY <1>0, <1>8, <1>9, <2>1, WriteStep
<1>11. StateTyped'
  <2>1. [loc[t] EXCEPT !.change = c] \in Locals
    BY <1>1, <1>6, ChangeLocal
  <2>2. loc' \in [Threads -> Locals]
    BY <1>0, <2>1 DEF Running, StateTyped
  <2>3. disk' \in Disks
    BY <1>10 DEF Writes
  <2>4. QED  BY <1>0, <2>2, <2>3 DEF Running, StateTyped, TypeOK, Disks
<1>12. LatchesHeld' /\ status' = "up"
  BY <1>0, NoneAssumption DEF Running, StateTyped, LatchesHeld
<1>13. \A u \in Threads : u # t => pc'[u] \notin Updates
  BY <1>0, <1>9, HolderIsAlone DEF Alone
<1>14. PageIn(disk', body, p) = page
  BY <1>0, <1>10 DEF Writes
<1>15. LocalsSound'
  <2> SUFFICES ASSUME NEW u \in Threads
        PROVE  /\ pc'[u] \in Inserting => loc'[u].doc \in Docs
               /\ pc'[u] = "lockRemove" => loc'[u].doc = None
               /\ pc'[u] \in {"place", "list"} => loc'[u].page \in Nat
               /\ pc'[u] = "list" => loc'[u].listed <= PagesPerSegment
               /\ pc'[u] \in {"lockRemove", "erase", "reenter"} \cup Placing =>
                     loc'[u].page \in Nat /\ loc'[u].page < Len(body') * PagesPerSegment
               /\ pc'[u] = "header" /\ PageIn(disk', body', loc'[u].page).whole =>
                     Gap(PageIn(disk', body', loc'[u].page)) >= Size[loc'[u].doc] + Overhead
               /\ pc'[u] \in Updates =>
                     PageIn(disk', body', loc'[u].page).free + loc'[u].change \in Nat
    BY DEF LocalsSound, Mapped, PageAt, Need
  <2>1. CASE u = t
    <3>1. pc'[u] = "erase" /\ loc'[u].page = p /\ loc'[u].change = c /\ body' = body
      BY <1>0, <1>9, <2>1
    <3>2. page.free + c \in Nat
      BY <1>3, <1>6, <1>8
    <3>3. PageIn(disk', body', loc'[u].page).free + loc'[u].change \in Nat
      BY <1>14, <3>1, <3>2, Zenon
    <3>4. loc'[u].page \in Nat /\ loc'[u].page < Len(body') * PagesPerSegment
      BY <1>0, <3>1, Zenon DEF Covers
    <3>5. QED  BY <3>1, <3>3, <3>4, Zenon
  <2>2. CASE u # t
    BY <1>0, <1>9, <1>13, <2>2 DEF Running, LocalsSound, Mapped
  <2>3. QED  BY <2>1, <2>2
<1>16. RidsSound'
  <2> SUFFICES ASSUME ~lost PROVE RidsSound'
    BY <1>0 DEF RidsSound
  <2>1. /\ \A a \in acked : Located(a) /\ a.rid \in Nat \X Nat /\ a.rid # Rid(t)
    BY <1>0 DEF Running, RidsSound, StateTyped, Records
  <2>2. \A q \in Nat : Covers(body, q) =>
           Len(PageIn(disk', body, q).slots) = Len(PageIn(disk, body, q).slots)
    BY <1>7, <1>8, <1>10 DEF Writes, old
  <2>3. ASSUME NEW a \in acked PROVE Located(a)'
    <3>1. PICK q, k : q = a.rid[1] /\ k = a.rid[2]
      OBVIOUS
    <3>2. q \in Nat /\ k \in Nat /\ a.rid = <<q, k>>
      BY <2>1, <3>1
    <3>3. /\ Covers(body, q) /\ k < Len(PageIn(disk, body, q).slots)
          /\ PageIn(disk, body, q).whole => PageIn(disk, body, q).slots[k + 1] = a.doc
      BY <2>1, <3>1, <3>2 DEF Located, Mapped, PageAt, Covers
    <3>4. CASE q = p
      <4>1. k # loc[t].slot
        BY <1>0, <2>1, <3>2, <3>4 DEF Rid
      <4>2. k + 1 # s /\ k + 1 \in 1 .. Len(old.slots)
        <5>1. k < Len(old.slots)
          BY <3>3, <3>4 DEF old
        <5>2. k \in Nat /\ loc[t].slot \in Nat /\ s = loc[t].slot + 1
          BY <1>0, <1>1, <3>2, Zenon
        <5>3. k + 1 # s
          BY <4>1, <5>2
        <5>4. k + 1 \in 1 .. Len(old.slots)
          BY <1>3, <5>1, <5>2
        <5>5. QED  BY <5>3, <5>4
      <4>3. new[k + 1] = old.slots[k + 1]
        BY <1>7, <4>2
      <4>4. PageIn(disk', body, q).whole => PageIn(disk', body, q).slots[k + 1] = a.doc
        BY <1>8, <1>14, <3>3, <3>4, <4>3 DEF old
      <4>5. k < Len(PageIn(disk', body, q).slots)
        BY <2>2, <3>2, <3>3
      <4>6. QED  BY <1>0, <3>1, <3>3, <4>4, <4>5 DEF Located, Mapped, PageAt, Covers
    <3>5. CASE q # p
      <4>1. PageIn(disk', body, q) = PageIn(disk, body, q)
        BY <1>10, <3>2, <3>3, <3>5 DEF Writes
      <4>2. QED  BY <1>0, <3>1, <3>3, <4>1 DEF Located, Mapped, PageAt, Covers
    <3>6. QED  BY <3>4, <3>5
  <2>4. ASSUME NEW u \in Threads, pc'[u] = "lockRemove"
        PROVE  (loc[u].slot < Len(PageAt(loc[u].page).slots) /\ \A a \in acked : a.rid # Rid(u))'
    <3>1. pc[u] = "lockRemove" /\ loc'[u] = loc[u]
      BY <1>9, <2>4
    <3>2. loc[u].page \in Nat /\ Covers(body, loc[u].page)
      BY <3>1 DEF Running, LocalsSound, Mapped, Covers
    <3>3. loc[u].slot < Len(PageIn(disk, body, loc[u].page).slots) /\ \A a \in acked : a.rid # Rid(u)
      BY <3>1 DEF Running, RidsSound, PageAt
    <3>4. loc[u].slot < Len(PageIn(disk', body, loc[u].page).slots)
      BY <2>2, <3>2, <3>3
    <3>5. Rid(u)' = Rid(u)
      BY <3>1 DEF Rid
    <3>6. QED  BY <1>0, <3>1, <3>3, <3>4, <3>5 DEF PageAt
  <2>5. \A a, b \in acked : a.rid = b.rid => a = b
    BY DEF Running, RidsSound
  <2>6. \A u \in Threads : ~(pc'[u] \in Updates /\ loc'[u].doc # None)
    BY <1>9, <1>13
  <2>7. QED  BY <1>0, <2>3, <2>4, <2>5, <2>6 DEF RidsSound
<1>17. QED  BY <1>10, <1>11, <1>12, <1>15, <1>16 DEF Running

LEMMA EmptySlotStep ==
    ASSUME Running, NEW t \in Threads, EmptySlot(t)
    PROVE  Running'
<1> DEFINE p == loc[t].page
           s == loc[t].slot + 1
           old == PageIn(disk, body, p)
<1>0. /\ pc[t] = "lockRemove" /\ mutex = None /\ p \in Nat /\ Covers(body, p)
      /\ UNCHANGED <<fileSegments, headerSize, body, freeMap, extendMutex, status,
                     used, acked, lost, misnumbered, crashes>>
  BY DEF EmptySlot, Running, LocalsSound, Mapped, Covers, history
<1>1. CASE /\ disk' = disk /\ mutex' = mutex
           /\ pc' = [pc EXCEPT ![t] = "idle"] /\ loc' = [loc EXCEPT ![t] = NoLocals]
  <2>1. loc' \in [Threads -> Locals] /\ \A u \in Threads : u # t => loc'[u] = loc[u]
    BY <1>1, NoLocalsTyped DEF Running, StateTyped
  <2>2. StateTyped'
    BY <1>0, <1>1, <2>1 DEF Running, StateTyped, TypeOK
  <2>3. LatchesHeld' /\ status' = "up"
    BY <1>0, <1>1 DEF Running, StateTyped, LatchesHeld
  <2>4. SegmentsCounted' /\ SegmentsInPlace'
    BY <1>0, <1>1 DEF Running, StateTyped, SegmentsCounted, SegmentsInPlace
  <2>5. PagesKept
    BY <1>0, <1>1 DEF PagesKept
  <2>6. LocalsSound' /\ RidsSound'
    BY <1>0, <1>1, <2>1, <2>5, PagesKeptStep
  <2>7. QED  BY <2>2, <2>3, <2>4, <2>6 DEF Running
<1>2. CASE /\ ~(s > Len(old.slots)) /\ old.slots[s] # None
           /\ disk' = PutPage(disk, body, p, [old EXCEPT !.slots[s] = None])
           /\ \E size \in Sizes(old, s) : loc' = [loc EXCEPT ![t].change = size]
           /\ mutex' = t /\ pc' = [pc EXCEPT ![t] = "erase"] /\ rc' = rc
  <2>1. PICK c \in Sizes(old, s) : loc' = [loc EXCEPT ![t].change = c]
    BY <1>2
  <2>2. Empties(t, p, s, c)
    BY <1>0, <1>2, <2>1, Zenon DEF Empties
  <2>3. QED  BY <2>2, SlotEmptied, Zenon
<1>3. QED  BY <1>1, <1>2 DEF EmptySlot, Return, Goto, PageAt, SetPage

\* Once its threads have run wild, the server is no longer followed.
LEMMA RunWildStep ==
    ASSUME Running, RunWild
    PROVE  FileInvariant'
<1>1. loc' \in [Threads -> Locals]
  BY NoLocalsTyped DEF RunWild
<1>2. StateTyped'
  BY <1>1 DEF RunWild, Running, StateTyped, TypeOK, persistent, history
<1>3. LatchesHeld' /\ status' # "up"
  BY DEF RunWild, LatchesHeld
<1>4. QED  BY <1>2, <1>3 DEF FileInvariant
-----------------------------------------------------------------------------
(* Restart.                                                                *)

\* What the map holds that is built from the headers of the first n pages.
Loads(d, m, n) ==
    /\ m \in Seq(Entries)
    /\ Len(m) = n
    /\ \A p \in 0 .. n - 1 : \E i \in 1 .. Len(m) : m[i] = Entry(DiskPage(d, p).free, p)

\* The page at its place from the start of the file.
LEMMA DiskPageTyped ==
    ASSUME NEW d \in Disks, NEW n \in Nat, n <= MaxSegments,
           NEW p \in Nat, p < n * PagesPerSegment
    PROVE  /\ DiskPage(d, p) \in Pages /\ DiskPage(d, p).free \in Nat
           /\ p \div PagesPerSegment \in 0 .. n - 1
<1>1. PagesPerSegment \in Nat \ {0} /\ MaxSegments \in Nat
  BY PageAssumption, BoundsAssumption
<1>2. p \div PagesPerSegment \in 0 .. n - 1
  BY <1>1, QuotientLess, Zenon
<1>3. p % PagesPerSegment \in InSegment
  BY <1>1, Division, Zenon DEF InSegment
<1>4. p \div PagesPerSegment \in Segments
  BY <1>1, <1>2 DEF Segments
<1>5. DiskPage(d, p) \in Pages
  BY <1>3, <1>4, Zenon DEF DiskPage, Disks
<1>6. DiskPage(d, p).free \in Nat
  BY <1>5 DEF Pages
<1>7. QED  BY <1>2, <1>5, <1>6

\* _loadData lists every page once, with the free space of its header.
LEMMA LoadedMapLoads ==
    ASSUME NEW d \in Disks, NEW n \in Nat, n <= MaxSegments
    PROVE  Loads(d, LoadedMap(d, n), n * PagesPerSegment)
<1> DEFINE K == n * PagesPerSegment
           e(k) == Entry(DiskPage(d, k).free, k)
           G == [x \in Seq(Entries) \X Nat |->
                    IF x[2] < K THEN MapInsert(x[1], e(x[2])) ELSE x[1]]
           Rec(f) == [k \in 0 .. K |-> IF k = 0 THEN <<>> ELSE MapInsert(f[k - 1], e(k - 1))]
           m == CHOOSE f : f = Rec(f)
<1>1. K \in Nat
  BY PageAssumption
<1>2. ASSUME NEW k \in Nat, k < K PROVE e(k) \in Entries
  BY <1>2, DiskPageTyped DEF Entry, Entries
<1> HIDE DEF K, e
<1>3. G \in [Seq(Entries) \X Nat -> Seq(Entries)]
  <2>1. ASSUME NEW x \in Seq(Entries) \X Nat
        PROVE  (IF x[2] < K THEN MapInsert(x[1], e(x[2])) ELSE x[1]) \in Seq(Entries)
    <3>1. x[1] \in Seq(Entries) /\ x[2] \in Nat
      OBVIOUS
    <3>2. x[2] < K => MapInsert(x[1], e(x[2])) \in Seq(Entries)
      BY <1>2, <3>1, MapInsertTyped, Zenon
    <3>3. QED  BY <3>1, <3>2, Zenon
  <2>2. QED  BY <2>1
<1>4. <<>> \in Seq(Entries)
  OBVIOUS
<1>5. \A s \in Seq(Entries), k \in Nat : k < K => G[<<s, k>>] = MapInsert(s, e(k))
  <2>1. ASSUME NEW s \in Seq(Entries), NEW k \in Nat, k < K PROVE G[<<s, k>>] = MapInsert(s, e(k))
    <3>1. <<s, k>> \in Seq(Entries) \X Nat /\ <<s, k>>[1] = s /\ <<s, k>>[2] = k
      OBVIOUS
    <3>2. G[<<s, k>>] = IF <<s, k>>[2] < K THEN MapInsert(<<s, k>>[1], e(<<s, k>>[2])) ELSE <<s, k>>[1]
      BY <3>1, Zenon
    <3> HIDE DEF G
    <3>3. QED  BY <2>1, <3>1, <3>2, Zenon
  <2>2. QED  BY <2>1
<1> HIDE DEF G
<1>6. PICK f \in [0 .. K -> Seq(Entries)] :
         f[0] = <<>> /\ \A k \in 0 .. K - 1 : f[k + 1] = G[<<f[k], k>>]
  <2>1. PICK f \in [0 .. K -> Seq(Entries)] : Computes(f, <<>>, G, K)
    BY <1>1, <1>3, <1>4, Recursion, Zenon
  <2>2. QED  BY <2>1, Zenon DEF Computes
<1>7. f = Rec(f)
  <2>1. ASSUME NEW k \in 0 .. K, k # 0 PROVE f[k] = MapInsert(f[k - 1], e(k - 1))
    <3>1. k - 1 \in 0 .. K - 1 /\ k - 1 \in Nat /\ k - 1 < K /\ (k - 1) + 1 = k /\ k - 1 \in 0 .. K
      BY <1>1, <2>1
    <3>2. f[k] = G[<<f[k - 1], k - 1>>] /\ f[k - 1] \in Seq(Entries)
      BY <1>6, <3>1
    <3>3. QED  BY <1>5, <3>1, <3>2, Zenon
  <2>2. QED  BY <1>6, <2>1
<1>8. m = Rec(m)
  BY <1>7, Zenon
<1>9. LoadedMap(d, n) = m[K]
  BY Zenon DEF LoadedMap, K, e
<1> HIDE DEF m
<1> DEFINE S == {k \in Nat : k <= K => Loads(d, m[k], k)}
<1>10. 0 \in S
  <2>1. m[0] = <<>>
    BY <1>1, <1>8
  <2>2. Loads(d, <<>>, 0)
    BY DEF Loads
  <2>3. QED  BY <2>1, <2>2
<1>11. ASSUME NEW k \in Nat, k \in S PROVE k + 1 \in S
  <2>1. SUFFICES ASSUME k + 1 <= K PROVE Loads(d, m[k + 1], k + 1)
    OBVIOUS
  <2>2. k < K /\ Loads(d, m[k], k)
    BY <1>1, <1>11, <2>1
  <2>3. m[k + 1] = MapInsert(m[k], e(k))
    <3>1. k + 1 \in 0 .. K /\ k + 1 # 0 /\ (k + 1) - 1 = k
      BY <1>1, <2>1
    <3>2. m[k + 1] = MapInsert(m[(k + 1) - 1], e((k + 1) - 1))
      BY <1>8, <3>1
    <3>3. QED  BY <3>1, <3>2, Zenon
  <2>4. m[k] \in Seq(Entries) /\ Len(m[k]) = k /\ e(k) \in Entries
    BY <1>2, <2>2 DEF Loads
  <2>5. /\ m[k + 1] \in Seq(Entries)
        /\ Len(m[k + 1]) = Len(m[k]) + 1
        /\ \E j \in 1 .. Len(m[k + 1]) : m[k + 1][j] = e(k)
        /\ \A i \in 1 .. Len(m[k]) : \E j \in 1 .. Len(m[k + 1]) : m[k + 1][j] = m[k][i]
    <3>1. Inserts(m[k + 1], m[k], e(k))
      BY <2>3, <2>4, MapInsertInserts, Zenon
    <3>2. QED  BY <3>1, Zenon DEF Inserts
  <2>6. ASSUME NEW p \in 0 .. (k + 1) - 1
        PROVE  \E j \in 1 .. Len(m[k + 1]) : m[k + 1][j] = Entry(DiskPage(d, p).free, p)
    <3>1. CASE p = k
      BY <2>5, <3>1, Zenon DEF e
    <3>2. CASE p # k
      <4>1. p \in 0 .. k - 1
        BY <3>2
      <4>2. PICK i \in 1 .. Len(m[k]) : m[k][i] = Entry(DiskPage(d, p).free, p)
        BY <2>2, <4>1, Zenon DEF Loads
      <4>3. QED  BY <2>5, <4>2, Zenon
    <3>3. QED  BY <3>1, <3>2
  <2>7. QED  BY <2>4, <2>5, <2>6, Zenon DEF Loads
<1> HIDE DEF S
<1>12. K \in S
  BY <1>1, <1>10, <1>11, SetInduction
<1>13. Loads(d, m[K], K)
  BY <1>1, <1>12 DEF S
<1>14. QED  BY <1>9, <1>13, Zenon DEF K

\* The header counts whole segments: all that _body maps, or all but one.
LEMMA HeaderCounts ==
    ASSUME Running
    PROVE  /\ headerSize \div PagesPerSegment \in Nat
           /\ headerSize = (headerSize \div PagesPerSegment) * PagesPerSegment
           /\ headerSize \div PagesPerSegment <= Len(body)
           /\ Len(body) <= fileSegments
<1> DEFINE k == PagesPerSegment
           b == Len(body)
<1>1. k \in Nat \ {0} /\ b \in Nat /\ headerSize \in Nat /\ b <= fileSegments
  BY PageAssumption DEF Running, StateTyped, TypeOK, SegmentsCounted
<1>2. headerSize = b * k \/ headerSize + k = b * k
  BY DEF Running, SegmentsCounted
<1> HIDE DEF k, b
<1>3. PICK n \in Nat : headerSize = n * k /\ n <= b
  <2>1. CASE headerSize = b * k
    BY <1>1, <2>1
  <2>2. CASE headerSize + k = b * k
    <3>1. b # 0
      BY <1>1, <2>2
    <3>2. b - 1 \in Nat /\ (b - 1) * k = b * k - k /\ b * k \in Nat
      BY <1>1, <3>1
    <3>3. headerSize = (b - 1) * k /\ b - 1 <= b
      BY <1>1, <2>2, <3>2
    <3>4. QED  BY <3>2, <3>3
  <2>3. QED  BY <1>2, <2>1, <2>2
<1>4. (n * k + 0) \div k = n
  <2>1. 0 \in 0 .. k - 1
    BY <1>1
  <2>2. QED  BY <1>1, <2>1, DivisionUnique, Zenon
<1>5. n * k + 0 = headerSize
  BY <1>1, <1>3
<1>6. headerSize \div k = n
  BY <1>4, <1>5, Zenon
<1>7. QED  BY <1>1, <1>3, <1>6, Zenon DEF k, b

\* When segment i of _body is segment i of the file, a page id denotes the page
\* at its place from the start of the file.
LEMMA PageInPlace ==
    ASSUME NEW d, NEW b, NEW n \in Nat, \A i \in 1 .. n : b[i] = i - 1,
           NEW p \in Nat, p < n * PagesPerSegment
    PROVE  PageIn(d, b, p) = d[p \div PagesPerSegment][p % PagesPerSegment]
<1> DEFINE q == p \div PagesPerSegment
<1>1. q \in 0 .. n - 1
  BY PageAssumption, QuotientLess, Zenon
<1> HIDE DEF q
<1>2. q + 1 \in 1 .. n /\ (q + 1) - 1 = q
  BY <1>1
<1>3. b[q + 1] = q
  BY <1>2, Zenon
<1>4. QED  BY <1>3, Zenon DEF PageIn, q

\* The records _loadData finds are records of the pages it loads.
LEMMA LoadedRecordsTyped ==
    ASSUME NEW d \in Disks, NEW n \in Nat, n <= MaxSegments, NEW a \in LoadedRecords(d, n)
    PROVE  /\ a \in Records
           /\ a.rid[1] < n * PagesPerSegment
           /\ a.rid[2] < Len(DiskPage(d, a.rid[1]).slots)
           /\ DiskPage(d, a.rid[1]).slots[a.rid[2] + 1] = a.doc
           /\ DiskPage(d, a.rid[1]).whole
<1>0. PagesPerSegment \in Nat \ {0} /\ n * PagesPerSegment \in Nat
  BY PageAssumption
<1>1. PICK p \in 0 .. n * PagesPerSegment - 1 :
         \E s \in 1 .. Len(DiskPage(d, p).slots) :
            DiskPage(d, p).slots[s] \in Docs /\ a = [rid |-> <<p, s - 1>>, doc |-> DiskPage(d, p).slots[s]]
  BY Zenon DEF LoadedRecords
<1>2. PICK s \in 1 .. Len(DiskPage(d, p).slots) :
         DiskPage(d, p).slots[s] \in Docs /\ a = [rid |-> <<p, s - 1>>, doc |-> DiskPage(d, p).slots[s]]
  BY <1>1, Zenon
<1>3. p \in Nat /\ p < n * PagesPerSegment
  BY <1>0
<1>4. DiskPage(d, p) \in Pages
  BY <1>3, DiskPageTyped, Zenon
<1> DEFINE S == DiskPage(d, p).slots
<1>5. /\ S \in Seq(Docs \cup {None, Stray})
      /\ DiskPage(d, p).whole \/ S \in Seq({None} \cup {Stray})
  BY <1>4 DEF Pages
<1> HIDE DEF S
<1>6. s \in 1 .. Len(S) /\ S[s] \in Docs /\ a = [rid |-> <<p, s - 1>>, doc |-> S[s]]
  BY <1>2, Zenon DEF S
<1>7. S[s] \in Docs /\ s - 1 \in Nat /\ s - 1 < Len(S) /\ (s - 1) + 1 = s
  BY <1>5, <1>6
<1>8. a.rid[1] = p /\ a.rid[2] = s - 1 /\ a.doc = S[s] /\ a \in Records
  BY <1>3, <1>6, <1>7 DEF Records
<1>9. DiskPage(d, p).whole
  <2>1. S[s] \notin {None} \cup {Stray}
    BY <1>6, NoneAssumption
  <2>2. S \notin Seq({None} \cup {Stray})
    BY <1>6, <2>1, ElementOfSeq, Zenon
  <2>3. QED  BY <1>5, <2>2
<1>10. QED  BY <1>3, <1>7, <1>8, <1>9, Zenon DEF S

\* A crash leaves every slot, and the free space of every page.
LEMMA TornKeeps ==
    ASSUME Running, NEW d, d = Torn
    PROVE  /\ d \in Disks
           /\ \A q \in Nat : Covers(body, q) =>
                 /\ Keeps(PageIn(disk, body, q), PageIn(d, body, q))
                 /\ PageIn(d, body, q).free = PageIn(disk, body, q).free
<1>1. disk \in Disks /\ body \in Bodies
  BY DEF Running, StateTyped, TypeOK, SegmentsCounted, Disks, Bodies
<1>2. \A q \in Nat : Covers(body, q) => Len(PageIn(disk, body, q).slots) \in Nat
  BY MappedPage DEF Covers
<1>3. CASE ~\E t \in Threads : pc[t] = "header"
  <2>1. d = disk
    BY <1>3 DEF Torn
  <2>2. QED  BY <1>1, <1>2, <2>1 DEF Keeps
<1>4. CASE \E t \in Threads : pc[t] = "header"
  <2> DEFINE t == CHOOSE u \in Threads : pc[u] = "header"
             p == loc[t].page
             old == PageIn(disk, body, p)
             k == Known(FALSE, old.slots)
             page == [old EXCEPT !.whole = FALSE, !.slots = k]
  <2>1. t \in Threads /\ pc[t] = "header"
    BY <1>4
  <2>2. d = PutPage(disk, body, p, page)
    BY <1>4 DEF Torn, PageAt, SetPage
  <2> HIDE DEF t
  <2>3. /\ Covers(body, p) /\ old \in Pages
        /\ old.slots \in Seq(Docs \cup {None, Stray}) /\ Len(old.slots) \in Nat
    BY <2>1, OwnPage, Zenon
  <2> HIDE DEF p, old
  <2>4. k \in Seq({None} \cup {Stray}) /\ Len(k) = Len(old.slots)
    <3>1. FALSE \in BOOLEAN
      OBVIOUS
    <3>2. k \in Seq({None} \cup IF FALSE THEN Docs \cup {None, Stray} ELSE {Stray})
          /\ Len(k) = Len(old.slots)
      BY <2>3, <3>1, KnownSlots, Zenon
    <3>3. QED  BY <3>2
  <2> HIDE DEF k
  <2>5. /\ page \in Pages /\ page.slots = k /\ page.whole = FALSE /\ page.free = old.free
    <3>1. k \in Seq(Docs \cup {None, Stray})
      BY <2>4
    <3>2. /\ page.slots = k /\ page.whole = FALSE /\ page.slotOffset = old.slotOffset
          /\ page.freeOffset = old.freeOffset /\ page.free = old.free
          /\ page \in [magic : BOOLEAN, free : Nat, slotOffset : Nat, freeOffset : Nat,
                       slots : Seq(Docs \cup {None, Stray}), whole : BOOLEAN]
      BY <2>3, <3>1 DEF Pages
    <3>3. page \in Pages
      BY <2>3, <2>4, <3>2 DEF Pages
    <3>4. QED  BY <3>2, <3>3
  <2> HIDE DEF page
  <2>6. Writes(d, disk, body, p, page)
    BY <1>1, <2>2, <2>3, <2>5, PutPageWrites, Zenon
  <2>7. Keeps(old, page)
    BY <2>3, <2>4, <2>5 DEF Keeps
  <2>8. ASSUME NEW q \in Nat, Covers(body, q)
        PROVE  /\ Keeps(PageIn(disk, body, q), PageIn(d, body, q))
               /\ PageIn(d, body, q).free = PageIn(disk, body, q).free
    <3>1. PageIn(d, body, q) = IF q = p THEN page ELSE PageIn(disk, body, q)
      BY <2>6, <2>8, Zenon DEF Writes
    <3>2. CASE q = p
      BY <2>5, <2>7, <3>1, <3>2 DEF old
    <3>3. CASE q # p
      BY <1>2, <2>8, <3>1, <3>3 DEF Keeps
    <3>4. QED  BY <3>2, <3>3
  <2>9. QED  BY <2>6, <2>8, Zenon DEF Writes
<1>5. QED  BY <1>3, <1>4

\* What a restart that opens the file leaves behind, n segments of disk d being
\* counted.
Restarts(d, n) ==
    /\ status' = "up"
    /\ body' = [i \in 1 .. n |-> i - 1]
    /\ freeMap' = LoadedMap(d, n)
    /\ acked' = acked \cup LoadedRecords(d, n)

LEMMA CrashStep ==
    ASSUME Running, Crash
    PROVE  FileInvariant'
<1> DEFINE n == headerSize \div PagesPerSegment
<1>d. PICK d : d = Torn
  OBVIOUS
<1>0. /\ crashes < MaxCrashes /\ crashes' = crashes + 1
      /\ mutex' = None /\ extendMutex' = None
      /\ pc' = [t \in Threads |-> "idle"]
      /\ loc' = [t \in Threads |-> NoLocals]
      /\ lost' = (lost \/ n # fileSegments)
      /\ misnumbered' = FALSE
      /\ fileSegments' = fileSegments /\ headerSize' = headerSize /\ disk' = d /\ used' = used
  BY <1>d, Zenon DEF Crash
<1>1. \/ Restarts(d, n)
      \/ status' = "closed" /\ body' = <<>> /\ freeMap' = <<>> /\ acked' = acked
  BY <1>d, Zenon DEF Crash, Restarts
<1>2. /\ n \in Nat /\ headerSize = n * PagesPerSegment
      /\ n <= Len(body) /\ Len(body) <= fileSegments
  BY HeaderCounts, Zenon
<1> HIDE DEF n
<1>3. /\ d \in Disks /\ fileSegments \in 0 .. MaxSegments /\ MaxSegments \in Nat
      /\ body \in Seq(Segments) /\ acked \subseteq Records /\ lost \in BOOLEAN
  BY <1>d, TornKeeps, BoundsAssumption DEF Running, StateTyped, TypeOK
<1>4. n <= fileSegments /\ n <= MaxSegments
  BY <1>2, <1>3
<1>5. loc' \in [Threads -> Locals] /\ pc' \in [Threads -> PCs]
  BY <1>0, NoLocalsTyped
<1>6. crashes' \in 0 .. MaxCrashes /\ lost' \in BOOLEAN
  BY <1>0, <1>3, BoundsAssumption DEF Running, StateTyped, TypeOK
<1>7. CASE status' = "closed" /\ body' = <<>> /\ freeMap' = <<>> /\ acked' = acked
  <2>1. StateTyped'
    <3>1. body' \in Seq(Segments) /\ freeMap' \in Seq(Entries) /\ acked' \subseteq Records
      BY <1>3, <1>7
    <3>2. QED  BY <1>0, <1>3, <1>5, <1>6, <1>7, <3>1 DEF Running, StateTyped, TypeOK, Disks
  <2>2. LatchesHeld'
    BY <1>0 DEF LatchesHeld
  <2>3. QED  BY <1>7, <2>1, <2>2 DEF FileInvariant
<1>8. CASE Restarts(d, n)
  <2>1. /\ status' = "up" /\ body' = [i \in 1 .. n |-> i - 1]
        /\ freeMap' = LoadedMap(d, n) /\ acked' = acked \cup LoadedRecords(d, n)
    BY <1>8, Zenon DEF Restarts
  <2>2. body' \in Seq(Segments) /\ Len(body') = n /\ \A i \in 1 .. n : body'[i] = i - 1
    <3>1. \A i \in 1 .. n : i - 1 \in Segments
      BY <1>2, <1>3, <1>4 DEF Segments
    <3>2. QED  BY <1>2, <2>1, <3>1
  <2>3. freeMap' \in Seq(Entries)
    <3>1. Loads(d, LoadedMap(d, n), n * PagesPerSegment)
      BY <1>2, <1>3, <1>4, LoadedMapLoads, Zenon
    <3>2. QED  BY <2>1, <3>1, Zenon DEF Loads
  <2>4. acked' \subseteq Records
    <3>1. \A a \in LoadedRecords(d, n) : a \in Records
      BY <1>2, <1>3, <1>4, LoadedRecordsTyped, Zenon
    <3>2. QED  BY <1>3, <2>1, <3>1, Zenon
  <2>5. StateTyped'
    BY <1>0, <1>3, <1>5, <1>6, <2>1, <2>2, <2>3, <2>4 DEF Running, StateTyped, TypeOK, Disks
  <2>6. LatchesHeld' /\ LocalsSound'
    BY <1>0 DEF LatchesHeld, LocalsSound
  <2>7. SegmentsCounted'
    <3>1. Len(body') <= fileSegments' /\ \A i \in 1 .. Len(body') : body'[i] < fileSegments'
      BY <1>0, <1>2, <1>3, <1>4, <2>2
    <3>2. \A i, j \in 1 .. Len(body') : body'[i] = body'[j] => i = j
      BY <1>2, <2>2
    <3>3. headerSize' = Len(body') * PagesPerSegment
      BY <1>0, <1>2, <2>2
    <3>4. \A t \in Threads : pc'[t] = "idle"
      BY <1>0
    <3>5. QED  BY <3>1, <3>2, <3>3, <3>4 DEF SegmentsCounted
  <2>8. SegmentsInPlace'
    BY <1>0, <2>2 DEF SegmentsInPlace
  <2>9. RidsSound'
    <3>1. SUFFICES ASSUME ~lost' PROVE RidsSound'
      BY DEF RidsSound
    <3>2. ~lost /\ n = fileSegments /\ Len(body) = n
      <4>1. ~lost /\ n = fileSegments
        BY <1>0, <3>1, Zenon
      <4>2. Len(body) = n
        BY <1>2, <1>3, <4>1
      <4>3. QED  BY <4>1, <4>2
    <3>3. \A i \in 1 .. n : body[i] = i - 1
      BY <3>2 DEF Running, SegmentsInPlace
    <3>4. ASSUME NEW p \in Nat, p < n * PagesPerSegment
          PROVE  PageIn(disk', body', p) = DiskPage(d, p) /\ PageIn(d, body, p) = DiskPage(d, p)
      <4>1. PageIn(disk', body', p) = disk'[p \div PagesPerSegment][p % PagesPerSegment]
        BY <1>2, <2>2, <3>4, PageInPlace, Zenon
      <4>2. PageIn(d, body, p) = d[p \div PagesPerSegment][p % PagesPerSegment]
        BY <1>2, <3>3, <3>4, PageInPlace, Zenon
      <4>3. QED  BY <1>0, <4>1, <4>2, Zenon DEF DiskPage
    <3>5. ASSUME NEW a \in acked'
          PROVE  /\ a \in Records /\ a.rid[1] < n * PagesPerSegment
                 /\ a.rid[2] < Len(DiskPage(d, a.rid[1]).slots)
                 /\ DiskPage(d, a.rid[1]).whole => DiskPage(d, a.rid[1]).slots[a.rid[2] + 1] = a.doc
                 /\ a \notin acked => DiskPage(d, a.rid[1]).whole
      <4>1. a.rid[1] \in Nat /\ a.rid[2] \in Nat /\ a \in Records
        BY <2>4 DEF Records
      <4>2. CASE a \in acked
        <5> DEFINE p == a.rid[1]
                   k == a.rid[2]
                   old == PageIn(disk, body, p)
                   new == PageIn(d, body, p)
        <5>1. /\ p < n * PagesPerSegment /\ k < Len(old.slots)
              /\ old.whole => old.slots[k + 1] = a.doc
          BY <3>2, <4>2 DEF Running, RidsSound, Located, Mapped, PageAt
        <5>2. Covers(body, p)
          BY <3>2, <4>1, <5>1, Zenon DEF Covers
        <5>3. Keeps(old, new) /\ Len(old.slots) \in Nat
          <6>1. Len(old.slots) \in Nat
            BY <4>1, <5>2, MappedPage, Zenon DEF Covers
          <6>2. QED  BY <1>d, <4>1, <5>2, <6>1, TornKeeps, Zenon
        <5>4. new = DiskPage(d, p)
          BY <3>4, <4>1, <5>1, Zenon
        <5> HIDE DEF p, k, old, new
        <5>5. k \in Nat /\ k + 1 \in 1 .. Len(old.slots) /\ k < Len(new.slots)
          BY <4>1, <5>1, <5>3 DEF Keeps, k
        <5>6. new.whole => new.slots[k + 1] = a.doc
          BY <5>1, <5>3, <5>5, Zenon DEF Keeps
        <5>7. QED  BY <4>1, <4>2, <5>1, <5>4, <5>5, <5>6, Zenon DEF p, k
      <4>3. CASE a \in LoadedRecords(d, n)
        BY <1>2, <1>3, <1>4, <4>3, LoadedRecordsTyped, Zenon
      <4>4. QED  BY <2>1, <4>2, <4>3
    <3>6. ASSUME NEW a \in acked' PROVE Located(a)'
      <4>1. a.rid[1] \in Nat
        BY <3>5 DEF Records
      <4>2. QED  BY <2>2, <3>4, <3>5, <4>1, Zenon DEF Located, Mapped, PageAt
    <3>7. ASSUME NEW a \in acked', NEW b \in acked', a.rid = b.rid PROVE a = b
      <4>1. CASE a \in acked /\ b \in acked
        BY <3>2, <3>7, <4>1 DEF Running, RidsSound
      <4>2. CASE a \notin acked \/ b \notin acked
        <5>1. a.doc = b.doc
          BY <3>5, <3>7, <4>2, Zenon
        <5>2. a \in Records /\ b \in Records
          BY <3>5, Zenon
        <5>3. QED  BY <3>7, <5>1, <5>2 DEF Records
      <4>3. QED  BY <4>1, <4>2
    <3>8. QED  BY <1>0, <3>6, <3>7 DEF RidsSound
  <2>10. QED  BY <2>1, <2>5, <2>6, <2>7, <2>8, <2>9 DEF FileInvariant
<1>9. QED  BY <1>1, <1>7, <1>8
-----------------------------------------------------------------------------
(* The file invariant holds.                                               *)

LEMMA InitIsSound ==
    ASSUME Init
    PROVE  FileInvariant
<1>1. BlankPage \in Pages
  BY EmptyPages
<1>2. disk \in [Segments -> [InSegment -> Pages]]
  BY <1>1 DEF Init
<1>3. loc \in [Threads -> Locals] /\ pc \in [Threads -> PCs] /\ \A t \in Threads : pc[t] = "idle"
  BY NoLocalsTyped DEF Init
<1>4. body \in Seq(Segments) /\ freeMap \in Seq(Entries) /\ Len(body) = 0
  BY DEF Init
<1>5. fileSegments \in 0 .. MaxSegments /\ crashes \in 0 .. MaxCrashes /\ headerSize \in Nat
  BY BoundsAssumption DEF Init
<1>6. StateTyped
  BY <1>2, <1>3, <1>4, <1>5 DEF Init, StateTyped, TypeOK
<1>7. LatchesHeld /\ LocalsSound
  BY <1>3 DEF Init, LatchesHeld, LocalsSound
<1>8. SegmentsCounted
  BY <1>3, <1>4, PageAssumption DEF Init, SegmentsCounted
<1>9. SegmentsInPlace /\ RidsSound
  BY <1>3, <1>4 DEF Init, SegmentsInPlace, RidsSound
<1>10. QED  BY <1>6, <1>7, <1>8, <1>9 DEF FileInvariant

\* Only a running server takes steps.
LEMMA OnlyRunningSteps ==
    ASSUME FileInvariant, Next
    PROVE  Running
<1>1. SUFFICES ASSUME status # "up" PROVE FALSE
  BY DEF FileInvariant, Running
<1>2. \A t \in Threads : pc[t] = "idle"
  BY <1>1 DEF FileInvariant, LatchesHeld
<1>3. \A t \in Threads : ~Step(t)
  BY <1>2 DEF Step, InsertLock, FindPage, ReadPage, MoveImages, RecoverSpace, AppendRecord,
     SetOffsets, EraseEntry, ReenterEntry, TryExtend, WaitExtend, GrowFile, GrowFails, MapFails, FormatPages, MeasureMap, ListPage, PushSegment, CountPages,
     EmptySlot
<1>4. \A t, u \in Threads : ~Collide(t, u) /\ ~Wander(t)
  BY <1>2 DEF Collide, Wander
<1>5. ~Crash /\ \A t \in Threads : (\A d : ~InsertStart(t, d)) /\ (\A a : ~RemoveStart(t, a))
  BY <1>1, Zenon DEF InsertStart, RemoveStart, Crash
<1>6. QED  BY <1>3, <1>4, <1>5, Zenon DEF Next

\* One step of a thread.
LEMMA ThreadStep ==
    ASSUME Running, NEW t \in Threads, Step(t)
    PROVE  Running'
BY InsertLockStep, FindPageStep, ReadPageStep, MoveImagesStep, RecoverSpaceStep, AppendRecordStep,
   SetOffsetsStep, EraseEntryStep, ReenterEntryStep, TryExtendStep, WaitExtendStep, GrowFileStep,
   GrowFailsStep, MapFailsStep, FormatPagesStep, MeasureMapStep, ListPageStep,
   PushSegmentStep, CountPagesStep, EmptySlotStep, Zenon DEF Step

LEMMA NextIsSound ==
    ASSUME FileInvariant, [Next]_vars
    PROVE  FileInvariant'
<1>1. CASE UNCHANGED vars
  BY <1>1 DEF vars, persistent, volatile, history, FileInvariant, StateTyped, TypeOK, LatchesHeld,
     SegmentsCounted, SegmentsInPlace, LocalsSound, RidsSound, Located, Mapped, PageAt, Rid, Need
<1>2. CASE Next
  <2>1. Running
    BY <1>2, OnlyRunningSteps
  <2>2. Running' => FileInvariant'
    BY DEF Running, FileInvariant
  <2>3. ASSUME NEW t \in Threads, NEW d \in Docs, InsertStart(t, d) PROVE FileInvariant'
    BY <2>1, <2>2, <2>3, InsertStartStep, Zenon
  <2>4. ASSUME NEW t \in Threads, NEW a \in acked, RemoveStart(t, a) PROVE FileInvariant'
    BY <2>1, <2>2, <2>4, RemoveStartStep, Zenon
  <2>5. ASSUME NEW t \in Threads, Step(t) PROVE FileInvariant'
    BY <2>1, <2>2, <2>5, ThreadStep, Zenon
  <2>6. ASSUME NEW t \in Threads, NEW u \in Threads, Collide(t, u) \/ Wander(t) PROVE FileInvariant'
    BY <2>1, <2>6, RunWildStep, Zenon DEF Collide, Wander
  <2>7. Crash => FileInvariant'
    BY <2>1, CrashStep, Zenon
  <2>8. QED  BY <1>2, <2>3, <2>4, <2>5, <2>6, <2>7, Zenon DEF Next
<1>3. QED  BY <1>1, <1>2

\* The segments of the file, the latches, what every thread knows of its page
\* between two stores of insert or remove, and the rids handed out stay
\* consistent, whatever the threads of dmsFile do, across restarts, and also when
\* a recovery of space or a crash between the stores damages pages: rids stay
\* unique and in range, and on an undamaged page each leads to its own record.
THEOREM FileIsSound == Spec => []FileInvariant
<1>1. Init => FileInvariant
  BY InitIsSound
<1>2. FileInvariant /\ [Next]_vars => FileInvariant'
  BY NextIsSound
<1>3. QED  BY <1>1, <1>2, PTL DEF Spec

\* The types of the state of dmsFile; the free space of a page header, unsigned
\* in the code, is never charged below zero, on damaged pages neither, and the
\* slots of a page never cross its images.
THEOREM TypesHold == Spec => []TypeOK
<1>1. FileInvariant => TypeOK
  BY DEF FileInvariant, StateTyped
<1>2. QED  BY <1>1, FileIsSound, PTL

\* As long as the file keeps no segment that its header does not count, the rid
\* of an acknowledged record is that of a slot of a mapped page, and on every
\* page whose images no recovery of space and no torn insert has damaged it
\* locates that very record, whatever threads insert, remove and extend
\* meanwhile, and after every restart of dmsFile.
THEOREM RidsLocateRecords == Spec => []RidLocatesRecord
<1>1. FileInvariant => RidLocatesRecord
  BY DEF FileInvariant, RidsSound, RidLocatesRecord
<1>2. QED  BY <1>1, FileIsSound, PTL
-----------------------------------------------------------------------------
(* The free-space map.                                                     *)

\* The entry of page p with this free space is in map m.
Has(m, p, free) == \E i \in 1 .. Len(m) : m[i] = Entry(free, p)

\* A thread with locals r lists new pages behind the n pages of the body.
Lists(m, n, c, r) ==
    /\ r.page = n
    /\ \A k \in 0 .. r.listed - 1 : Has(m, n + k, PageFree)
    /\ Len(m) = r.listed + c

\* MapComplete of a map m, a disk d, a body b with n pages, and threads at w
\* with locals l; c is the number of those pages whose entries are in the map.
Complete(m, d, b, n, w, l, c) ==
    /\ \A p \in 0 .. n - 1 :
          Has(m, p, PageIn(d, b, p).free) \/ \E t \in Threads : w[t] = "reenter" /\ l[t].page = p
    /\ (\A t \in Threads : w[t] # "list") => Len(m) = c
    /\ \A t \in Threads : w[t] = "list" => Lists(m, n, c, l[t])
PageCount(b) == Len(b) * PagesPerSegment
EntryCount(n, w) == IF \E t \in Threads : w[t] = "reenter" THEN n - 1 ELSE n

LEMMA MapCompleteIs ==
    /\ MapComplete <=> Complete(freeMap, disk, body, PageCount(body), pc, loc,
                                EntryCount(PageCount(body), pc))
    /\ MapComplete' <=> Complete(freeMap', disk', body', PageCount(body'), pc', loc',
                                 EntryCount(PageCount(body'), pc'))
BY Zenon DEF MapComplete, Complete, Lists, PageCount, EntryCount, Listed, Has, PageAt

\* No mapped page changes its free space.
FreeKept ==
    \A q \in Nat : q < Len(body) * PagesPerSegment =>
        PageIn(disk', body, q).free = PageIn(disk, body, q).free

\* Thread u changes the map before the step as after it, with the same locals.
SameRole(u) ==
    /\ pc'[u] = "reenter" <=> pc[u] = "reenter"
    /\ pc'[u] = "list" <=> pc[u] = "list"
    /\ pc[u] \in {"reenter", "list"} => loc'[u] = loc[u]

\* A step that leaves the map, the free space and the threads at work on the
\* map alone keeps MapInvariant.
Quiet ==
    /\ body' = body /\ freeMap' = freeMap /\ status' = status /\ misnumbered' = misnumbered
    /\ FreeKept
    /\ \A u \in Threads : SameRole(u)

LEMMA QuietKeepsMap ==
    ASSUME Running, MapInvariant, Quiet
    PROVE  MapInvariant'
<1>1. SUFFICES ASSUME status' = "up", ~misnumbered' PROVE MapComplete'
  BY DEF MapInvariant
<1>2. MapComplete /\ body' = body /\ freeMap' = freeMap
  BY <1>1, Zenon DEF MapInvariant, Quiet
<1>3. \A u \in Threads : SameRole(u)
  BY Zenon DEF Quiet
<1>4. PICK n : n = PageCount(body)
  OBVIOUS
<1>5. PICK c : c = EntryCount(n, pc)
  OBVIOUS
<1>6. Complete(freeMap, disk, body, n, pc, loc, c)
  BY <1>2, <1>4, <1>5, MapCompleteIs, Zenon
<1>7. c = EntryCount(n, pc')
  <2>1. (\E u \in Threads : pc'[u] = "reenter") <=> (\E u \in Threads : pc[u] = "reenter")
    BY <1>3, Zenon DEF SameRole
  <2>2. QED  BY <1>5, <2>1, Zenon DEF EntryCount
<1>8. ASSUME NEW p \in 0 .. n - 1
      PROVE  \/ Has(freeMap, p, PageIn(disk', body, p).free)
             \/ \E t \in Threads : pc'[t] = "reenter" /\ loc'[t].page = p
  <2>1. p \in Nat /\ p < Len(body) * PagesPerSegment
    <3>1. n \in Nat
      BY <1>4, PageAssumption DEF Running, StateTyped, TypeOK, PageCount
    <3>2. p \in Nat /\ p < n
      BY <3>1
    <3>3. QED  BY <1>4, <3>2, Zenon DEF PageCount
  <2>2. PageIn(disk', body, p).free = PageIn(disk, body, p).free
    BY <2>1, Zenon DEF Quiet, FreeKept
  <2>3. CASE \E t \in Threads : pc[t] = "reenter" /\ loc[t].page = p
    BY <1>3, <2>3, Zenon DEF SameRole
  <2>4. QED  BY <1>6, <2>2, <2>3, Zenon DEF Complete
<1>9. \A t \in Threads : (pc'[t] = "list" <=> pc[t] = "list") /\ (pc[t] = "list" => loc'[t] = loc[t])
  BY <1>3, Zenon DEF SameRole
<1>10. Complete(freeMap, disk', body, n, pc', loc', c)
  BY <1>6, <1>8, <1>9, Zenon DEF Complete
<1>11. QED  BY <1>2, <1>4, <1>7, <1>10, MapCompleteIs, Zenon

\* Most steps do: thread t goes from one place where it is not at work on the
\* map to another.
Passes(t) ==
    /\ disk' = disk /\ body' = body /\ freeMap' = freeMap /\ status' = status
    /\ misnumbered' = misnumbered
    /\ pc[t] \notin {"reenter", "list"}
    /\ \E l \in PCs \ {"reenter", "list"} : pc' = [pc EXCEPT ![t] = l]
    /\ \A u \in Threads : u # t => loc'[u] = loc[u]

LEMMA PassesQuietly ==
    ASSUME Running, NEW t \in Threads, Passes(t)
    PROVE  Quiet
<1>1. FreeKept
  BY Zenon DEF FreeKept, Passes
<1>2. PICK l \in PCs \ {"reenter", "list"} : pc' = [pc EXCEPT ![t] = l]
  BY Zenon DEF Passes
<1>3. pc \in [Threads -> PCs]
  BY DEF Running, StateTyped
<1>4. pc[t] \notin {"reenter", "list"} /\ \A u \in Threads : u # t => loc'[u] = loc[u]
  BY Zenon DEF Passes
<1>5. \A u \in Threads : SameRole(u)
  BY <1>2, <1>3, <1>4 DEF SameRole
<1>6. QED  BY <1>1, <1>5, Zenon DEF Quiet, Passes

LEMMA QuietStep ==
    ASSUME Running, NEW t \in Threads,
           \/ \E d \in Docs : InsertStart(t, d)
           \/ \E a \in acked : RemoveStart(t, a)
           \/ InsertLock(t) \/ FindPage(t) \/ TryExtend(t) \/ WaitExtend(t)
           \/ GrowFile(t) \/ GrowFails(t) \/ MapFails(t) \/ CountPages(t) \/ ReadPage(t)
    PROVE  Quiet
<1> USE DEF Goto, Return, persistent, volatile, history, Passes
<1>0. loc \in [Threads -> Locals]
  BY DEF Running, StateTyped
<1>1. (\E d \in Docs : InsertStart(t, d)) => Passes(t)
  BY <1>0 DEF InsertStart
<1>2. (\E a \in acked : RemoveStart(t, a)) => Passes(t)
  <2>1. ASSUME NEW x, NEW a, pc[t] = "idle", pc' = [pc EXCEPT ![t] = "lockRemove"],
               loc' = [loc EXCEPT ![t] = x],
               UNCHANGED <<persistent, volatile, used, lost, misnumbered, crashes>>
        PROVE  Passes(t)
    BY <1>0, <2>1
  <2>2. QED  BY <2>1, Zenon DEF RemoveStart
<1>3. InsertLock(t) => Passes(t)
  BY <1>0 DEF InsertLock
<1>4. FindPage(t) => Passes(t)
  BY <1>0 DEF FindPage
<1>5. TryExtend(t) => Passes(t)
  BY <1>0 DEF TryExtend
<1>6. WaitExtend(t) => Passes(t)
  BY <1>0 DEF WaitExtend
<1>7. GrowFile(t) => Passes(t)
  BY <1>0 DEF GrowFile
<1>8. MapFails(t) => Passes(t)
  BY <1>0 DEF MapFails
<1>9. CountPages(t) => Passes(t)
  BY <1>0 DEF CountPages
<1>10. GrowFails(t) => Passes(t)
  BY <1>0 DEF GrowFails
<1>11. ReadPage(t) => Passes(t)
  BY <1>0 DEF ReadPage
<1>12. QED  BY <1>1, <1>2, <1>3, <1>4, <1>5, <1>6, <1>7, <1>8, <1>9, <1>10, <1>11, PassesQuietly,
               Zenon

\* A write to one page that keeps its free space, with or without a write: the
\* thread goes on to erase the entry of the page, or returns.
Fills(t, p, l) ==
    /\ body' = body /\ freeMap' = freeMap /\ status' = status /\ misnumbered' = misnumbered
    /\ \/ disk' = disk
       \/ /\ Covers(body, p)
          /\ \E page : /\ page.free = PageIn(disk, body, p).free
                       /\ disk' = PutPage(disk, body, p, page)
    /\ pc[t] \notin {"reenter", "list"} /\ l \notin {"reenter", "list"}
    /\ pc' = [pc EXCEPT ![t] = l]
    /\ \A u \in Threads : u # t => loc'[u] = loc[u]

LEMMA FillsQuietly ==
    ASSUME Running, NEW t \in Threads, NEW p, NEW l, Fills(t, p, l)
    PROVE  Quiet
<1>1. pc \in [Threads -> PCs] /\ disk \in Disks /\ body \in Bodies
  BY DEF Running, StateTyped, TypeOK, SegmentsCounted, Disks, Bodies
<1>2. FreeKept
  <2>1. CASE disk' = disk
    BY <2>1, Zenon DEF FreeKept
  <2>2. CASE /\ Covers(body, p)
             /\ \E page : /\ page.free = PageIn(disk, body, p).free
                          /\ disk' = PutPage(disk, body, p, page)
    <3>1. PICK page : /\ page.free = PageIn(disk, body, p).free
                      /\ disk' = PutPage(disk, body, p, page)
      BY <2>2
    <3>2. ASSUME NEW q \in Nat, q < Len(body) * PagesPerSegment
          PROVE  PageIn(disk', body, q).free = PageIn(disk, body, q).free
      <4>1. Covers(body, q)
        BY <3>2 DEF Covers
      <4>2. PageIn(disk', body, q) = IF q = p THEN page ELSE PageIn(disk, body, q)
        <5>1. Reads(PutPage(disk, body, p, page), disk, body, p, page, q)
          BY <1>1, <2>2, <4>1, PutPageReads, Zenon
        <5>2. QED  BY <3>1, <5>1, Zenon DEF Reads
      <4>3. QED  BY <3>1, <4>2, Zenon
    <3>3. QED  BY <3>2, Zenon DEF FreeKept
  <2>3. QED  BY <2>1, <2>2, Zenon DEF Fills
<1>3. /\ pc[t] \notin {"reenter", "list"} /\ l \notin {"reenter", "list"}
      /\ pc' = [pc EXCEPT ![t] = l]
      /\ \A u \in Threads : u # t => loc'[u] = loc[u]
  BY Zenon DEF Fills
<1>4. \A u \in Threads : SameRole(u)
  BY <1>1, <1>3 DEF SameRole
<1>5. QED  BY <1>2, <1>4, Zenon DEF Quiet, Fills

LEMMA PlacingQuiet ==
    ASSUME Running, NEW t \in Threads,
           MoveImages(t) \/ RecoverSpace(t) \/ AppendRecord(t) \/ SetOffsets(t)
    PROVE  Quiet
<1> DEFINE p == loc[t].page
           old == PageIn(disk, body, p)
<1>0. /\ pc[t] \in Placing
      /\ body' = body /\ freeMap' = freeMap /\ status' = status /\ misnumbered' = misnumbered
  BY DEF MoveImages, RecoverSpace, AppendRecord, SetOffsets, volatile, history
<1>1. Covers(body, p) /\ old \in Pages
  BY <1>0, OwnPage, Zenon
<1>2. \E l : l \notin {"reenter", "list"} /\ pc' = [pc EXCEPT ![t] = l]
  <2>1. \E l \in {"recover", "check", "header", "erase", "idle"} : pc' = [pc EXCEPT ![t] = l]
    BY DEF MoveImages, RecoverSpace, AppendRecord, SetOffsets, Goto, Return
  <2>2. QED  BY <2>1
<1>3. \A u \in Threads : u # t => loc'[u] = loc[u]
  <2>1. loc' = loc \/ \E x : loc' = [loc EXCEPT ![t] = x]
    BY Zenon DEF MoveImages, RecoverSpace, AppendRecord, SetOffsets, Return
  <2>2. QED  BY <2>1 DEF Running, StateTyped
<1>4. disk' = disk \/ \E page : page.free = old.free /\ disk' = PutPage(disk, body, p, page)
  <2>1. MoveImages(t) =>
           disk' = disk \/ \E w, k : disk' = PutPage(disk, body, p, [old EXCEPT !.whole = w, !.slots = k])
    BY DEF MoveImages, PageAt, SetPage
  <2>2. RecoverSpace(t) =>
           disk' = disk \/ \E o : disk' = PutPage(disk, body, p, [old EXCEPT !.freeOffset = o])
    BY DEF RecoverSpace, PageAt, SetPage
  <2>3. AppendRecord(t) =>
           disk' = disk \/ \E k : disk' = PutPage(disk, body, p, [old EXCEPT !.slots = k])
    BY DEF AppendRecord, PageAt, SetPage
  <2>4. SetOffsets(t) =>
           disk' = disk \/ \E o, q : disk' = PutPage(disk, body, p,
                                               [old EXCEPT !.slotOffset = o, !.freeOffset = q])
    BY DEF SetOffsets, PageAt, SetPage
  <2>5. \A w, k, o, q : /\ [old EXCEPT !.whole = w, !.slots = k].free = old.free
                        /\ [old EXCEPT !.freeOffset = o].free = old.free
                        /\ [old EXCEPT !.slots = k].free = old.free
                        /\ [old EXCEPT !.slotOffset = o, !.freeOffset = q].free = old.free
    BY <1>1 DEF Pages
  <2>6. QED  BY <2>1, <2>2, <2>3, <2>4, <2>5, Zenon
<1>5. PICK l : l \notin {"reenter", "list"} /\ pc' = [pc EXCEPT ![t] = l]
  BY <1>2
<1>6. pc[t] \notin {"reenter", "list"}
  BY <1>0
<1> HIDE DEF p, old
<1>7. Fills(t, p, l)
  BY <1>0, <1>1, <1>3, <1>4, <1>5, <1>6, Zenon DEF Fills, old
<1>8. QED  BY <1>7, FillsQuietly, Zenon

LEMMA EmptySlotQuiet ==
    ASSUME Running, NEW t \in Threads, EmptySlot(t)
    PROVE  Quiet
<1> DEFINE p == loc[t].page
           s == loc[t].slot + 1
           old == PageIn(disk, body, p)
<1>1. /\ pc[t] = "lockRemove" /\ p \in Nat /\ Covers(body, p)
      /\ body' = body /\ freeMap' = freeMap /\ status' = status /\ misnumbered' = misnumbered
  BY DEF EmptySlot, Running, LocalsSound, Mapped, Covers, history
<1>2. /\ loc \in [Threads -> Locals] /\ disk \in Disks /\ body \in Seq(Segments)
  BY DEF Running, StateTyped, TypeOK, Disks
<1>3. old \in Pages
  BY <1>1, <1>2, PageInFile, Zenon
<1>4. CASE /\ disk' = disk /\ pc' = [pc EXCEPT ![t] = "idle"]
           /\ loc' = [loc EXCEPT ![t] = NoLocals]
  <2>1. \A u \in Threads : u # t => loc'[u] = loc[u]
    BY <1>2, <1>4
  <2>2. Fills(t, p, "idle")
    BY <1>1, <1>4, <2>1 DEF Fills
  <2>3. QED  BY <2>2, FillsQuietly, Zenon
<1>5. ASSUME NEW x, disk' = PutPage(disk, body, p, [old EXCEPT !.slots[s] = None]),
             pc' = [pc EXCEPT ![t] = "erase"], loc' = [loc EXCEPT ![t] = x]
      PROVE  Quiet
  <2>1. \A u \in Threads : u # t => loc'[u] = loc[u]
    BY <1>2, <1>5
  <2>2. [old EXCEPT !.slots[s] = None].free = old.free
    BY <1>3 DEF Pages
  <2>3. Fills(t, p, "erase")
    BY <1>1, <1>5, <2>1, <2>2 DEF Fills
  <2>4. QED  BY <2>3, FillsQuietly, Zenon
<1>6. QED  BY <1>4, <1>5, Zenon DEF EmptySlot, Return, Goto, PageAt, SetPage

LEMMA FormatPagesQuiet ==
    ASSUME Running, NEW t \in Threads, FormatPages(t)
    PROVE  Quiet
<1> DEFINE b == loc[t].base
<1>0. /\ pc[t] = "map" /\ pc' = [pc EXCEPT ![t] = "measure"]
      /\ disk' = [disk EXCEPT ![b] = [i \in InSegment |-> FreshPage]]
      /\ body' = body /\ freeMap' = freeMap /\ status' = status /\ misnumbered' = misnumbered
      /\ loc' = loc
  BY DEF FormatPages, Goto, volatile, history
<1>1. b \in Nat /\ \A i \in 1 .. Len(body) : body[i] < b
  BY <1>0 DEF Running, StateTyped, Locals, SegmentsCounted
<1>2. disk \in Disks /\ body \in Seq(Segments) /\ pc \in [Threads -> PCs]
  BY DEF Running, StateTyped, TypeOK, Disks
<1> HIDE DEF b
<1>3. ASSUME NEW q \in Nat, q < Len(body) * PagesPerSegment
      PROVE  PageIn(disk', body, q) = PageIn(disk, body, q)
  <2> DEFINE s == body[q \div PagesPerSegment + 1]
  <2>1. Covers(body, q)
    BY <1>3 DEF Covers
  <2>2. q \div PagesPerSegment + 1 \in 1 .. Len(body) /\ s \in Segments
    BY <1>2, <2>1, PageInFile, Zenon
  <2>3. s < b
    BY <1>1, <2>2, Zenon
  <2>4. PageIn(disk', body, q) = disk'[s][q % PagesPerSegment]
        /\ PageIn(disk, body, q) = disk[s][q % PagesPerSegment]
    BY DEF PageIn
  <2> HIDE DEF s
  <2>5. s # b
    BY <1>1, <2>2, <2>3 DEF Segments
  <2>6. disk'[s] = disk[s]
    BY <1>0, <1>2, <2>2, <2>5 DEF Disks
  <2>7. QED  BY <2>4, <2>6, Zenon
<1>4. FreeKept
  BY <1>3, Zenon DEF FreeKept
<1>5. \A u \in Threads : SameRole(u)
  BY <1>0, <1>2 DEF SameRole
<1>6. QED  BY <1>0, <1>4, <1>5, Zenon DEF Quiet

\* MapErase of an entry that is there.
Erases(s, m, e) ==
    /\ s \in Seq(Entries) /\ Len(s) = Len(m) - 1
    /\ \A q, f : Has(m, q, f) /\ Entry(f, q) # e => Has(s, q, f)

LEMMA MapEraseErases ==
    ASSUME NEW m \in Seq(Entries), NEW p, NEW f, Has(m, p, f)
    PROVE  Erases(MapErase(m, Entry(f, p)), m, Entry(f, p))
<1>1. PICK s : s = MapErase(m, Entry(f, p))
  OBVIOUS
<1>2. PICK e : e = Entry(f, p)
  OBVIOUS
<1>3. /\ s \in Seq(Entries)
      /\ Len(s) = IF \E i \in 1 .. Len(m) : m[i] = e THEN Len(m) - 1 ELSE Len(m)
      /\ \A i \in 1 .. Len(m) : m[i] # e => \E k \in 1 .. Len(s) : s[k] = m[i]
  BY <1>1, <1>2, MapEraseProperties, SMTT(30)
<1>4. \E i \in 1 .. Len(m) : m[i] = e
  BY <1>2, Zenon DEF Has
<1>5. ASSUME NEW q, NEW g, Has(m, q, g), Entry(g, q) # e PROVE Has(s, q, g)
  BY <1>3, <1>5, Zenon DEF Has
<1>6. Erases(s, m, e)
  BY <1>3, <1>4, <1>5, Zenon DEF Erases
<1>7. QED  BY <1>1, <1>2, <1>6, Zenon

\* MapInsert in the same terms.
Enters(s, m, p, f) ==
    /\ s \in Seq(Entries) /\ Len(s) = Len(m) + 1
    /\ Has(s, p, f)
    /\ \A q, g : Has(m, q, g) => Has(s, q, g)

LEMMA MapInsertEnters ==
    ASSUME NEW m \in Seq(Entries), NEW p \in Nat, NEW f \in Nat
    PROVE  Enters(MapInsert(m, Entry(f, p)), m, p, f)
<1>1. PICK s : s = MapInsert(m, Entry(f, p))
  OBVIOUS
<1>2. Entry(f, p) \in Entries
  BY DEF Entry, Entries
<1>3. Inserts(s, m, Entry(f, p))
  BY <1>1, <1>2, MapInsertInserts, Zenon
<1>4. Enters(s, m, p, f)
  BY <1>3, Zenon DEF Enters, Inserts, Has
<1>5. QED  BY <1>1, <1>4, Zenon

\* Entries of different pages differ.
LEMMA EntriesApart ==
    ASSUME NEW p, NEW q, NEW f, NEW g, Entry(f, p) = Entry(g, q)
    PROVE  p = q
BY DEF Entry

\* What the steps on the map start from: n mapped pages, c of them in the map.
LEMMA MapFacts ==
    ASSUME Running, MapComplete, NEW n, n = PageCount(body), NEW c, c = EntryCount(n, pc)
    PROVE  /\ Complete(freeMap, disk, body, n, pc, loc, c)
           /\ n \in Nat /\ freeMap \in Seq(Entries) /\ Len(freeMap) \in Nat
           /\ loc \in [Threads -> Locals] /\ pc \in [Threads -> PCs]
<1>1. Complete(freeMap, disk, body, n, pc, loc, c)
  BY MapCompleteIs, Zenon
<1>2. QED  BY <1>1, PageAssumption DEF Running, StateTyped, TypeOK, PageCount

LEMMA EraseEntryMap ==
    ASSUME Running, MapComplete, NEW t \in Threads, EraseEntry(t)
    PROVE  MapComplete'
<1>1. PICK p : p = loc[t].page
  OBVIOUS
<1>2. PICK f : f = PageIn(disk, body, p).free
  OBVIOUS
<1>3. PICK n : n = PageCount(body)
  OBVIOUS
<1>4. /\ pc[t] = "erase" /\ pc' = [pc EXCEPT ![t] = "reenter"]
      /\ freeMap' = MapErase(freeMap, Entry(f, p))
      /\ body' = body /\ disk' = disk /\ loc' = loc
  BY <1>1, <1>2 DEF EraseEntry, Goto, persistent, PageAt
<1>5. \A u \in Threads : pc[u] # "reenter"
  <2>1. \A u \in Threads : u # t => pc[u] \notin Holding
    BY <1>4, HolderIsAlone
  <2>2. QED  BY <1>4, <2>1
<1>6. EntryCount(n, pc) = n
  BY <1>5, Zenon DEF EntryCount
<1>7. /\ Complete(freeMap, disk, body, n, pc, loc, n)
      /\ n \in Nat /\ freeMap \in Seq(Entries) /\ Len(freeMap) \in Nat
      /\ loc \in [Threads -> Locals] /\ pc \in [Threads -> PCs]
  BY <1>3, <1>6, MapFacts
<1>8. p \in 0 .. n - 1
  <2>1. p \in Nat /\ p < n
    BY <1>1, <1>3, <1>4 DEF Running, LocalsSound, Mapped, PageCount
  <2>2. QED  BY <1>7, <2>1
<1>9. Has(freeMap, p, f)
  BY <1>2, <1>5, <1>7, <1>8, Zenon DEF Complete
<1>10. Erases(freeMap', freeMap, Entry(f, p))
  BY <1>4, <1>7, <1>9, MapEraseErases, Zenon
<1>11. ASSUME NEW q, NEW g, q # p, Has(freeMap, q, g) PROVE Has(freeMap', q, g)
  <2>1. Entry(g, q) # Entry(f, p)
    BY <1>11, EntriesApart, Zenon
  <2>2. QED  BY <1>10, <1>11, <2>1, Zenon DEF Erases
<1>12. Len(freeMap') = Len(freeMap) - 1
  BY <1>10, Zenon DEF Erases
<1>13. EntryCount(n, pc') = n - 1
  <2>1. pc'[t] = "reenter"
    BY <1>4, <1>7
  <2>2. QED  BY <2>1, Zenon DEF EntryCount
<1>14. ASSUME NEW q \in 0 .. n - 1
       PROVE  \/ Has(freeMap', q, PageIn(disk', body', q).free)
              \/ \E u \in Threads : pc'[u] = "reenter" /\ loc'[u].page = q
  <2>1. CASE q = p
    BY <1>1, <1>4, <1>7, <2>1
  <2>2. CASE q # p
    <3>1. Has(freeMap, q, PageIn(disk, body, q).free)
      BY <1>5, <1>7, Zenon DEF Complete
    <3>2. QED  BY <1>4, <1>11, <2>2, <3>1, Zenon
  <2>3. QED  BY <2>1, <2>2
<1>15. \A u \in Threads : pc'[u] = "list" => pc[u] = "list"
  BY <1>4, <1>7
<1>16. (\A u \in Threads : pc'[u] # "list") => Len(freeMap') = n - 1
  <2>1. (\A u \in Threads : pc'[u] # "list") => (\A u \in Threads : pc[u] # "list")
    BY <1>4, <1>7
  <2>2. (\A u \in Threads : pc[u] # "list") => Len(freeMap) = n
    BY <1>7, Zenon DEF Complete
  <2>3. QED  BY <1>12, <2>1, <2>2
<1>17. ASSUME NEW u \in Threads, pc'[u] = "list" PROVE Lists(freeMap', n, n - 1, loc'[u])
  <2>1. Lists(freeMap, n, n, loc[u])
    BY <1>7, <1>15, <1>17, Zenon DEF Complete
  <2>2. loc[u].listed \in Nat
    BY <1>7 DEF Locals
  <2>3. ASSUME NEW k \in 0 .. loc[u].listed - 1 PROVE Has(freeMap', n + k, PageFree)
    <3>1. n + k # p
      BY <1>7, <1>8, <2>2
    <3>2. Has(freeMap, n + k, PageFree)
      BY <2>1, Zenon DEF Lists
    <3>3. QED  BY <1>11, <3>1, <3>2, Zenon
  <2>4. Len(freeMap) = loc[u].listed + n
    BY <2>1, Zenon DEF Lists
  <2>5. Len(freeMap') = loc[u].listed + (n - 1)
    <3>1. \A i, j \in Nat : (i + j) - 1 = i + (j - 1)
      OBVIOUS
    <3>2. n \in Nat
      BY <1>7
    <3>3. (loc[u].listed + n) - 1 = loc[u].listed + (n - 1)
      BY <2>2, <3>1, <3>2, Zenon
    <3>4. QED  BY <1>12, <2>4, <3>3, Zenon
  <2>6. QED  BY <1>4, <2>1, <2>3, <2>5, Zenon DEF Lists
<1>18. Complete(freeMap', disk', body', n, pc', loc', n - 1)
  BY <1>14, <1>16, <1>17, Zenon DEF Complete
<1>19. QED  BY <1>3, <1>4, <1>13, <1>18, MapCompleteIs, Zenon

LEMMA ReenterEntryMap ==
    ASSUME Running, MapComplete, NEW t \in Threads, ReenterEntry(t)
    PROVE  MapComplete'
<1>1. PICK p : p = loc[t].page
  OBVIOUS
<1>2. PICK f : f = PageIn(disk, body, p).free + loc[t].change
  OBVIOUS
<1>3. PICK n : n = PageCount(body)
  OBVIOUS
<1>4. PICK page : page = [PageIn(disk, body, p) EXCEPT !.free = f]
  OBVIOUS
<1>5. /\ pc[t] = "reenter" /\ pc' = [pc EXCEPT ![t] = "idle"]
      /\ disk' = PutPage(disk, body, p, page)
      /\ freeMap' = MapInsert(freeMap, Entry(f, p))
      /\ loc' = [loc EXCEPT ![t] = NoLocals]
      /\ body' = body
  BY <1>1, <1>2, <1>4 DEF ReenterEntry, Return, Goto, PageAt, SetPage
<1>6. \A u \in Threads : u # t => pc[u] # "reenter"
  BY <1>5, HolderIsAlone DEF Alone
<1>7. EntryCount(n, pc) = n - 1
  BY <1>5, Zenon DEF EntryCount
<1>8. /\ Complete(freeMap, disk, body, n, pc, loc, n - 1)
      /\ n \in Nat /\ freeMap \in Seq(Entries) /\ Len(freeMap) \in Nat
      /\ loc \in [Threads -> Locals] /\ pc \in [Threads -> PCs]
  BY <1>3, <1>7, MapFacts
<1>9. Covers(body, p) /\ p \in Nat /\ f \in Nat
  BY <1>1, <1>2, <1>5 DEF Running, LocalsSound, Mapped, Covers, PageAt
<1>10. disk \in Disks /\ body \in Bodies /\ body \in Seq(Segments)
  BY DEF Running, StateTyped, TypeOK, SegmentsCounted, Disks, Bodies
<1>11. page.free = f
  <2>1. PageIn(disk, body, p) \in Pages
    BY <1>9, <1>10, PageInFile, Zenon
  <2>2. QED  BY <1>4, <2>1 DEF Pages
<1>12. Enters(freeMap', freeMap, p, f)
  BY <1>5, <1>8, <1>9, MapInsertEnters, Zenon
<1>13. /\ Has(freeMap', p, f) /\ Len(freeMap') = Len(freeMap) + 1
       /\ \A q, g : Has(freeMap, q, g) => Has(freeMap', q, g)
  BY <1>12, Zenon DEF Enters
<1>14. ASSUME NEW q \in 0 .. n - 1 PROVE Has(freeMap', q, PageIn(disk', body', q).free)
  <2>1. Covers(body, q)
    <3>1. q \in Nat /\ q < n
      BY <1>8
    <3>2. QED  BY <1>3, <3>1, Zenon DEF Covers, PageCount
  <2>2. Reads(disk', disk, body, p, page, q)
    BY <1>5, <1>9, <1>10, <2>1, PutPageReads, Zenon
  <2>3. CASE q = p
    BY <1>5, <1>11, <1>13, <2>2, <2>3, Zenon DEF Reads
  <2>4. CASE q # p
    <3>1. \A u \in Threads : ~(pc[u] = "reenter" /\ loc[u].page = q)
      BY <1>1, <1>6, <2>4, Zenon
    <3>2. Has(freeMap, q, PageIn(disk, body, q).free)
      BY <1>8, <3>1, Zenon DEF Complete
    <3>3. QED  BY <1>5, <1>13, <2>2, <2>4, <3>2, Zenon DEF Reads
  <2>5. QED  BY <2>3, <2>4
<1>15. \A u \in Threads : (pc'[u] = "list" <=> pc[u] = "list") /\ (u # t => loc'[u] = loc[u])
  BY <1>5, <1>8
<1>16. EntryCount(n, pc') = n
  <2>1. \A u \in Threads : pc'[u] # "reenter"
    BY <1>5, <1>6, <1>8
  <2>2. QED  BY <2>1, Zenon DEF EntryCount
<1>17. (\A u \in Threads : pc'[u] # "list") => Len(freeMap') = n
  <2>1. (\A u \in Threads : pc'[u] # "list") => (\A u \in Threads : pc[u] # "list")
    BY <1>15, Zenon
  <2>2. (\A u \in Threads : pc[u] # "list") => Len(freeMap) = n - 1
    BY <1>8, Zenon DEF Complete
  <2>3. QED  BY <1>8, <1>13, <2>1, <2>2
<1>18. ASSUME NEW u \in Threads, pc'[u] = "list" PROVE Lists(freeMap', n, n, loc'[u])
  <2>1. pc[u] = "list" /\ loc'[u] = loc[u]
    <3>1. pc[u] = "list"
      BY <1>15, <1>18, Zenon
    <3>2. u # t
      BY <1>5, <3>1
    <3>3. QED  BY <1>15, <3>1, <3>2, Zenon
  <2>2. Lists(freeMap, n, n - 1, loc[u])
    BY <1>8, <2>1, Zenon DEF Complete
  <2>3. loc[u].listed \in Nat
    BY <1>8 DEF Locals
  <2>4. Len(freeMap) = loc[u].listed + (n - 1)
    BY <2>2, Zenon DEF Lists
  <2>5. Len(freeMap') = loc[u].listed + n
    BY <1>8, <1>13, <2>3, <2>4
  <2>6. QED  BY <1>13, <2>1, <2>2, <2>5, Zenon DEF Lists
<1>19. Complete(freeMap', disk', body', n, pc', loc', n)
  BY <1>14, <1>17, <1>18, Zenon DEF Complete
<1>20. QED  BY <1>3, <1>5, <1>16, <1>19, MapCompleteIs, Zenon

\* The extension numbers its pages behind the mapped ones.
LEMMA MeasureMapMap ==
    ASSUME Running, MapComplete, NEW t \in Threads, MeasureMap(t), ~misnumbered'
    PROVE  MapComplete'
<1>1. PICK n : n = PageCount(body)
  OBVIOUS
<1>2. PICK c : c = EntryCount(n, pc)
  OBVIOUS
<1>3. /\ pc[t] = "measure" /\ pc' = [pc EXCEPT ![t] = "list"]
      /\ loc' = [loc EXCEPT ![t] = [@ EXCEPT !.page = Len(freeMap), !.listed = 0]]
      /\ body' = body /\ freeMap' = freeMap /\ disk' = disk
  BY DEF MeasureMap, Goto, persistent, volatile
<1>4. Len(freeMap) = n
  BY <1>1, Zenon DEF MeasureMap, PageCount
<1>5. /\ Complete(freeMap, disk, body, n, pc, loc, c)
      /\ n \in Nat /\ freeMap \in Seq(Entries) /\ Len(freeMap) \in Nat
      /\ loc \in [Threads -> Locals] /\ pc \in [Threads -> PCs]
  BY <1>1, <1>2, MapFacts, Zenon
<1>6. \A u \in Threads : u # t => pc[u] # "list"
  BY <1>3 DEF Running, LatchesHeld
<1>7. c = n
  <2>1. \A u \in Threads : pc[u] # "list"
    BY <1>3, <1>6
  <2>2. QED  BY <1>4, <1>5, <2>1, Zenon DEF Complete
<1>8. \A u \in Threads : /\ pc'[u] = "reenter" <=> pc[u] = "reenter"
                         /\ pc[u] = "reenter" => loc'[u] = loc[u]
                         /\ pc'[u] = "list" <=> u = t
  BY <1>3, <1>5, <1>6
<1>9. EntryCount(n, pc') = n
  BY <1>2, <1>7, <1>8, Zenon DEF EntryCount
<1>10. loc'[t].page = n /\ loc'[t].listed = 0
  BY <1>3, <1>4, <1>5 DEF Locals
<1>11. Lists(freeMap, n, n, loc'[t])
  BY <1>4, <1>5, <1>10 DEF Lists
<1>12. ASSUME NEW q \in 0 .. n - 1
       PROVE  \/ Has(freeMap, q, PageIn(disk, body, q).free)
              \/ \E u \in Threads : pc'[u] = "reenter" /\ loc'[u].page = q
  BY <1>5, <1>8, Zenon DEF Complete
<1>13. Complete(freeMap, disk, body, n, pc', loc', n)
  BY <1>4, <1>8, <1>11, <1>12, Zenon DEF Complete
<1>14. QED  BY <1>1, <1>3, <1>9, <1>13, MapCompleteIs, Zenon

LEMMA ListPageMap ==
    ASSUME Running, MapComplete, NEW t \in Threads, ListPage(t)
    PROVE  MapComplete'
<1>1. PICK n : n = PageCount(body)
  OBVIOUS
<1>2. PICK c : c = EntryCount(n, pc)
  OBVIOUS
<1>3. PICK k : k = loc[t].listed
  OBVIOUS
<1>4. /\ pc[t] = "list" /\ pc' = pc
      /\ freeMap' = MapInsert(freeMap, Entry(PageFree, loc[t].page + k))
      /\ loc' = [loc EXCEPT ![t].listed = k + 1]
      /\ body' = body /\ disk' = disk
  BY <1>3 DEF ListPage, persistent
<1>5. /\ Complete(freeMap, disk, body, n, pc, loc, c)
      /\ n \in Nat /\ freeMap \in Seq(Entries) /\ Len(freeMap) \in Nat
      /\ loc \in [Threads -> Locals] /\ pc \in [Threads -> PCs]
  BY <1>1, <1>2, MapFacts, Zenon
<1>6. \A u \in Threads : u # t => pc[u] # "list"
  BY <1>4 DEF Running, LatchesHeld
<1>7. Lists(freeMap, n, c, loc[t]) /\ k \in Nat /\ c \in Int
  <2>1. Lists(freeMap, n, c, loc[t])
    BY <1>4, <1>5, Zenon DEF Complete
  <2>2. QED  BY <1>2, <1>3, <1>5, <2>1 DEF Locals, EntryCount
<1>8. Enters(freeMap', freeMap, n + k, PageFree)
  <2>1. n + k \in Nat /\ PageFree \in Nat
    BY <1>5, <1>7, PageAssumption
  <2>2. loc[t].page + k = n + k
    BY <1>7, Zenon DEF Lists
  <2>3. QED  BY <1>4, <1>5, <2>1, <2>2, MapInsertEnters, Zenon
<1>9. /\ Has(freeMap', n + k, PageFree) /\ Len(freeMap') = Len(freeMap) + 1
      /\ \A q, g : Has(freeMap, q, g) => Has(freeMap', q, g)
  BY <1>8, Zenon DEF Enters
<1>10. /\ loc'[t].page = loc[t].page /\ loc'[t].listed = k + 1
       /\ \A u \in Threads : u # t => loc'[u] = loc[u]
  BY <1>4, <1>5 DEF Locals
<1>11. Lists(freeMap', n, c, loc'[t])
  <2>1. loc'[t].page = n
    BY <1>7, <1>10, Zenon DEF Lists
  <2>2. ASSUME NEW j \in 0 .. (k + 1) - 1 PROVE Has(freeMap', n + j, PageFree)
    <3>1. j = k \/ j \in 0 .. k - 1
      BY <1>7
    <3>2. \A i \in 0 .. k - 1 : Has(freeMap, n + i, PageFree)
      BY <1>3, <1>7, Zenon DEF Lists
    <3>3. QED  BY <1>9, <3>1, <3>2, Zenon
  <2>3. Len(freeMap') = (k + 1) + c
    <3>1. Len(freeMap) = k + c
      BY <1>3, <1>7, Zenon DEF Lists
    <3>2. (k + c) + 1 = (k + 1) + c
      BY <1>7
    <3>3. QED  BY <1>9, <3>1, <3>2, Zenon
  <2>4. QED  BY <1>10, <2>1, <2>2, <2>3, Zenon DEF Lists
<1>12. \A u \in Threads : pc[u] = "reenter" => loc'[u] = loc[u]
  BY <1>4, <1>10
<1>13. ASSUME NEW q \in 0 .. n - 1
       PROVE  \/ Has(freeMap', q, PageIn(disk, body, q).free)
              \/ \E u \in Threads : pc[u] = "reenter" /\ loc'[u].page = q
  <2>1. \/ Has(freeMap, q, PageIn(disk, body, q).free)
        \/ \E u \in Threads : pc[u] = "reenter" /\ loc[u].page = q
    BY <1>5, Zenon DEF Complete
  <2>2. QED  BY <1>9, <1>12, <2>1, Zenon
<1>14. Complete(freeMap', disk, body, n, pc, loc', c)
  BY <1>4, <1>6, <1>11, <1>13, Zenon DEF Complete
<1>15. QED  BY <1>1, <1>2, <1>4, <1>14, MapCompleteIs, Zenon

\* A segment behind the mapped ones brings its pages into the body.
LEMMA PushedPages ==
    ASSUME NEW d \in Disks, NEW b \in Seq(Segments), NEW s \in Segments, NEW k \in InSegment
    PROVE  PageIn(d, Append(b, s), Len(b) * PagesPerSegment + k) = d[s][k]
<1> DEFINE n == Len(b)
           q == n * PagesPerSegment + k
<1>1. n \in Nat /\ PagesPerSegment \in Nat \ {0} /\ k \in 0 .. PagesPerSegment - 1
  BY PageAssumption DEF InSegment
<1>2. Append(b, s)[n + 1] = s
  OBVIOUS
<1> HIDE DEF n
<1>3. q \div PagesPerSegment = n /\ q % PagesPerSegment = k
  BY <1>1, DivisionUnique, Zenon
<1> HIDE DEF q
<1>4. PageIn(d, Append(b, s), q) = d[Append(b, s)[n + 1]][k]
  BY <1>3, Zenon DEF PageIn
<1>5. QED  BY <1>2, <1>4, Zenon DEF q, n

LEMMA PushSegmentMap ==
    ASSUME Running, MapComplete, NEW t \in Threads, PushSegment(t)
    PROVE  MapComplete'
<1>1. PICK n : n = PageCount(body)
  OBVIOUS
<1>2. PICK c : c = EntryCount(n, pc)
  OBVIOUS
<1>3. PICK s : s = loc[t].base
  OBVIOUS
<1>4. /\ pc[t] = "list" /\ pc' = [pc EXCEPT ![t] = "count"]
      /\ loc[t].listed = PagesPerSegment
      /\ body' = Append(body, s)
      /\ disk' = disk /\ freeMap' = freeMap /\ loc' = loc
  BY <1>3 DEF PushSegment, Goto, persistent
<1>5. /\ Complete(freeMap, disk, body, n, pc, loc, c)
      /\ n \in Nat /\ freeMap \in Seq(Entries) /\ Len(freeMap) \in Nat
      /\ loc \in [Threads -> Locals] /\ pc \in [Threads -> PCs]
  BY <1>1, <1>2, MapFacts, Zenon
<1>6. \A u \in Threads : u # t => pc[u] # "list"
  BY <1>4 DEF Running, LatchesHeld
<1>7. Lists(freeMap, n, c, loc[t])
  BY <1>4, <1>5, Zenon DEF Complete
<1>8. \A u \in Threads : pc'[u] # "list" /\ (pc'[u] = "reenter" <=> pc[u] = "reenter")
  BY <1>4, <1>5, <1>6
<1>9. disk \in Disks /\ body \in Seq(Segments) /\ Len(body) \in Nat
  BY DEF Running, StateTyped, TypeOK, Disks
<1>10. s \in Segments /\ disk[s] = [i \in InSegment |-> FreshPage]
  <2>1. /\ fileSegments \in 0 .. MaxSegments /\ MaxSegments \in Nat /\ s \in Nat
        /\ s + 1 = fileSegments
        /\ disk[s] = [i \in InSegment |-> FreshPage]
    BY <1>3, <1>4, BoundsAssumption DEF Running, StateTyped, TypeOK, Locals, SegmentsCounted
  <2>2. QED  BY <2>1 DEF Segments
<1>11. PageCount(body') = n + PagesPerSegment /\ PagesPerSegment \in Nat \ {0}
  <2>1. Len(body') = Len(body) + 1
    BY <1>4, <1>9, <1>10
  <2>2. \A i \in Nat : (i + 1) * PagesPerSegment = i * PagesPerSegment + PagesPerSegment
    BY PageAssumption
  <2>3. QED  BY <1>1, <1>9, <2>1, <2>2, PageAssumption, Zenon DEF PageCount
<1>12. PICK N : N = n + PagesPerSegment
  OBVIOUS
<1>13. EntryCount(N, pc') = PagesPerSegment + c
  <2>1. CASE \E u \in Threads : pc[u] = "reenter"
    <3>1. c = n - 1 /\ EntryCount(N, pc') = N - 1
      BY <1>2, <1>8, <2>1, Zenon DEF EntryCount
    <3>2. QED  BY <1>5, <1>11, <1>12, <3>1
  <2>2. CASE ~\E u \in Threads : pc[u] = "reenter"
    <3>1. c = n /\ EntryCount(N, pc') = N
      BY <1>2, <1>8, <2>2, Zenon DEF EntryCount
    <3>2. QED  BY <1>5, <1>11, <1>12, <3>1
  <2>3. QED  BY <2>1, <2>2
<1>14. ASSUME NEW q \in 0 .. N - 1
       PROVE  \/ Has(freeMap, q, PageIn(disk, body', q).free)
              \/ \E u \in Threads : pc'[u] = "reenter" /\ loc[u].page = q
  <2>0. q \in Nat /\ N \in Nat
    BY <1>5, <1>11, <1>12
  <2>1. CASE q < n
    <3>1. Covers(body, q) /\ q \in 0 .. n - 1
      BY <1>1, <1>5, <2>0, <2>1 DEF Covers, PageCount
    <3>2. q \div PagesPerSegment + 1 \in 1 .. Len(body)
      BY <1>9, <3>1, PageInFile, Zenon
    <3>3. \A i \in 1 .. Len(body) : Append(body, s)[i] = body[i]
      BY <1>9, <1>10
    <3>4. PageIn(disk, body', q) = PageIn(disk, body, q)
      BY <1>4, <3>2, <3>3, Zenon DEF PageIn
    <3>5. \/ Has(freeMap, q, PageIn(disk, body, q).free)
          \/ \E u \in Threads : pc[u] = "reenter" /\ loc[u].page = q
      BY <1>5, <3>1, Zenon DEF Complete
    <3>6. QED  BY <1>8, <3>4, <3>5, Zenon
  <2>2. CASE ~(q < n)
    <3>1. PICK k : k = q - n
      OBVIOUS
    <3>2. k \in InSegment /\ k \in 0 .. PagesPerSegment - 1 /\ q = n + k
      BY <1>5, <1>11, <1>12, <2>0, <2>2, <3>1 DEF InSegment
    <3>3. Has(freeMap, q, PageFree)
      BY <1>4, <1>7, <3>2, Zenon DEF Lists
    <3>4. PageIn(disk, body', q) = disk[s][k]
      <4>1. q = Len(body) * PagesPerSegment + k
        BY <1>1, <3>2, Zenon DEF PageCount
      <4>2. PageIn(disk, Append(body, s), Len(body) * PagesPerSegment + k) = disk[s][k]
        BY <1>9, <1>10, <3>2, PushedPages, Zenon
      <4>3. QED  BY <1>4, <4>1, <4>2, Zenon
    <3>5. disk[s][k].free = PageFree
      BY <1>10, <3>2 DEF FreshPage
    <3>6. QED  BY <3>3, <3>4, <3>5, Zenon
  <2>3. QED  BY <2>1, <2>2
<1>15. Len(freeMap) = PagesPerSegment + c
  BY <1>4, <1>7, Zenon DEF Lists
<1>16. Complete(freeMap, disk, body', N, pc', loc, PagesPerSegment + c)
  BY <1>8, <1>14, <1>15, Zenon DEF Complete
<1>17. QED  BY <1>4, <1>11, <1>12, <1>13, <1>16, MapCompleteIs, Zenon

LEMMA CrashMap ==
    ASSUME Running, Crash, status' = "up"
    PROVE  MapComplete'
<1>1. PICK n : n = headerSize \div PagesPerSegment
  OBVIOUS
<1>2. PICK N : N = n * PagesPerSegment
  OBVIOUS
<1>d. PICK d : d = Torn
  OBVIOUS
<1>3. pc' = [t \in Threads |-> "idle"] /\ disk' = d
  BY <1>d, Zenon DEF Crash
<1>4. body' = [i \in 1 .. n |-> i - 1] /\ freeMap' = LoadedMap(d, n)
  <2>1. PICK opens \in BOOLEAN :
           /\ status' = IF opens THEN "up" ELSE "closed"
           /\ body' = IF opens THEN [i \in 1 .. n |-> i - 1] ELSE <<>>
           /\ freeMap' = IF opens THEN LoadedMap(d, n) ELSE <<>>
    BY <1>d, <1>1, Zenon DEF Crash
  <2>2. opens
    BY <2>1
  <2>3. QED  BY <2>1, <2>2, Zenon
<1>5. n \in Nat /\ n <= Len(body) /\ Len(body) <= fileSegments
  BY <1>1, HeaderCounts, Zenon
<1>6. /\ d \in Disks /\ fileSegments \in 0 .. MaxSegments /\ MaxSegments \in Nat
      /\ Len(body) \in Nat
  BY <1>d, TornKeeps, BoundsAssumption DEF Running, StateTyped, TypeOK
<1>7. n <= MaxSegments
  BY <1>5, <1>6
<1>8. Loads(d, freeMap', N)
  BY <1>2, <1>4, <1>5, <1>6, <1>7, LoadedMapLoads, Zenon
<1>9. Len(body') = n /\ \A i \in 1 .. n : body'[i] = i - 1
  BY <1>4, <1>5
<1>10. PageCount(body') = N
  BY <1>2, <1>9, Zenon DEF PageCount
<1>11. \A t \in Threads : pc'[t] = "idle"
  BY <1>3
<1>12. EntryCount(N, pc') = N
  BY <1>11 DEF EntryCount
<1>13. ASSUME NEW q \in 0 .. N - 1 PROVE Has(freeMap', q, PageIn(disk', body', q).free)
  <2>1. q \in Nat /\ q < N
    BY <1>2, <1>5, PageAssumption
  <2>2. PageIn(disk', body', q) = disk'[q \div PagesPerSegment][q % PagesPerSegment]
    BY <1>2, <1>5, <1>9, <2>1, PageInPlace, Zenon
  <2>3. PageIn(disk', body', q) = DiskPage(d, q)
    BY <1>3, <2>2, Zenon DEF DiskPage
  <2>4. QED  BY <1>8, <2>3, Zenon DEF Loads, Has
<1>14. Len(freeMap') = N
  BY <1>8, Zenon DEF Loads
<1>15. Complete(freeMap', disk', body', N, pc', loc', N)
  BY <1>11, <1>13, <1>14 DEF Complete
<1>16. QED  BY <1>10, <1>12, <1>15, MapCompleteIs, Zenon

LEMMA NextKeepsMap ==
    ASSUME FileInvariant, MapInvariant, [Next]_vars
    PROVE  MapInvariant'
<1>1. CASE UNCHANGED vars
  BY <1>1 DEF vars, persistent, volatile, history, MapInvariant, MapComplete, Listed, PageAt
<1>2. CASE Next
  <2>1. Running
    BY <1>2, OnlyRunningSteps
  <2>2. Quiet => MapInvariant'
    BY <2>1, QuietKeepsMap
  <2>3. ASSUME NEW t \in Threads, NEW d \in Docs, InsertStart(t, d) PROVE Quiet
    BY <2>1, <2>3, QuietStep, Zenon
  <2>4. ASSUME NEW t \in Threads, NEW a \in acked, RemoveStart(t, a) PROVE Quiet
    BY <2>1, <2>4, QuietStep, Zenon
  <2>5. ASSUME NEW t \in Threads, Step(t) PROVE MapInvariant'
    <3>1. CASE \/ InsertLock(t) \/ FindPage(t) \/ TryExtend(t) \/ WaitExtend(t)
               \/ GrowFile(t) \/ GrowFails(t) \/ MapFails(t) \/ CountPages(t) \/ ReadPage(t)
               \/ MoveImages(t) \/ RecoverSpace(t) \/ AppendRecord(t) \/ SetOffsets(t)
               \/ EmptySlot(t) \/ FormatPages(t)
      BY <2>1, <2>2, <3>1, QuietStep, PlacingQuiet, EmptySlotQuiet, FormatPagesQuiet, Zenon
    <3>2. CASE \/ EraseEntry(t) \/ ReenterEntry(t) \/ ListPage(t) \/ PushSegment(t)
      <4>1. status' = status /\ misnumbered' = misnumbered
        BY <3>2 DEF EraseEntry, ReenterEntry, ListPage, PushSegment, history
      <4>2. MapComplete => MapComplete'
        BY <2>1, <3>2, EraseEntryMap, ReenterEntryMap, ListPageMap, PushSegmentMap, Zenon
      <4>3. QED  BY <4>1, <4>2, Zenon DEF MapInvariant
    <3>3. CASE MeasureMap(t)
      <4>1. status' = status /\ (~misnumbered' => ~misnumbered)
        BY <3>3 DEF MeasureMap, volatile
      <4>2. ~misnumbered' /\ MapComplete => MapComplete'
        BY <2>1, <3>3, MeasureMapMap, Zenon
      <4>3. QED  BY <4>1, <4>2, Zenon DEF MapInvariant
    <3>4. QED  BY <2>5, <3>1, <3>2, <3>3, Zenon DEF Step
  <2>6. ASSUME NEW t \in Threads, NEW u \in Threads, Collide(t, u) \/ Wander(t) PROVE MapInvariant'
    BY <2>6 DEF Collide, Wander, RunWild, MapInvariant
  <2>7. Crash => MapInvariant'
    BY <2>1, CrashMap, Zenon DEF MapInvariant
  <2>8. QED  BY <1>2, <2>2, <2>3, <2>4, <2>5, <2>6, <2>7, Zenon DEF Next
<1>3. QED  BY <1>1, <1>2

\* Unless an extension measured the map mid-update, _freeSpaceMap holds every
\* mapped page but the one whose entry a thread has taken out, and the pages
\* that an extension has listed so far.
THEOREM MapIsComplete == Spec => []MapInvariant
<1>1. Init => MapInvariant
  <2>1. SUFFICES ASSUME Init PROVE MapComplete
    BY DEF MapInvariant
  <2>2. body = <<>> /\ freeMap = <<>> /\ \A t \in Threads : pc[t] = "idle"
    BY <2>1 DEF Init
  <2>3. Len(body) * PagesPerSegment = 0 /\ Len(freeMap) = 0
    BY <2>2, PageAssumption
  <2>4. QED  BY <2>2, <2>3 DEF MapComplete
<1>2. FileInvariant /\ MapInvariant /\ [Next]_vars => MapInvariant'
  BY NextKeepsMap
<1>3. QED  BY <1>1, <1>2, FileIsSound, PTL DEF Spec

\* When nobody is changing it, _freeSpaceMap holds every mapped page once, with
\* the free space of its header, unless an extension measured it mid-update.
THEOREM MapMatchesHeaders == Spec => []MapMatchesPages
<1>1. MapInvariant => MapMatchesPages
  <2>1. SUFFICES ASSUME MapInvariant, status = "up", ~misnumbered, ~Updating, ~Extending
                 PROVE  /\ Len(freeMap) = Len(body) * PagesPerSegment
                        /\ \A p \in 0 .. Len(freeMap) - 1 :
                              \E i \in 1 .. Len(freeMap) : freeMap[i] = Entry(PageAt(p).free, p)
    BY DEF MapMatchesPages
  <2>2. MapComplete
    BY <2>1 DEF MapInvariant
  <2>3. \A t \in Threads : pc[t] # "reenter" /\ pc[t] # "list"
    BY <2>1 DEF Updating, Extending
  <2>4. QED  BY <2>2, <2>3, Zenon DEF MapComplete, Listed
<1>2. QED  BY <1>1, MapIsComplete, PTL
=============================================================================
