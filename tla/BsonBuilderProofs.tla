------------------------- MODULE BsonBuilderProofs -------------------------
(***************************************************************************)
(* Proofs about the byte buffer and the builders that share it: nothing is *)
(* written outside the buffer, a buffer that has thrown stays as it is,    *)
(* and the bytes are those of the documents that were built.               *)
(***************************************************************************)
EXTENDS BsonBuilder, NaturalFacts, SequenceTheorems, TLAPS

-----------------------------------------------------------------------------
(***************************************************************************)
(* The buffer.  A sound one has its bytes inside its memory; one that has  *)
(* thrown is beyond its size and every larger request is beyond the limit. *)
(***************************************************************************)
Buffers == [data : Seq(Int), l : Nat, size : Nat, ok : BOOLEAN, over : BOOLEAN]

Stuck(b) ==
    /\ b.l > b.size
    /\ b.l > 2 * b.size  => b.l + Slack > BufferMaxSize
    /\ b.l <= 2 * b.size => 2 * b.size > BufferMaxSize

SoundBuffers ==
    {b \in Buffers : /\ b.size > 0 /\ Len(b.data) = b.size /\ ~b.over
                     /\ b.ok => b.l <= b.size
                     /\ ~b.ok => Stuck(b)}

\* The bytes s have been put behind those of b, if nothing was thrown.
Extends(b, r, s) ==
    r.ok => /\ b.ok
            /\ r.l = b.l + Len(s)
            /\ \A i \in 1..b.l : r.data[i] = b.data[i]
            /\ \A j \in 1..Len(s) : r.data[b.l + j] = s[j]

\* A reallocated block keeps the old bytes.
LEMMA ReallocKeeps ==
    ASSUME NEW data \in Seq(Int), NEW a \in Nat
    PROVE  /\ realloc(data, a) \in Seq(Int) /\ Len(realloc(data, a)) = a
           /\ \A i \in 1..a : i <= Len(data) => realloc(data, a)[i] = data[i]
<1>1. DOMAIN data = 1..Len(data) /\ \A i \in 1..Len(data) : data[i] \in Int
  OBVIOUS
<1>2. realloc(data, a) \in [1..a -> Int]
  BY <1>1 DEF realloc, Junk
<1>3. realloc(data, a) \in Seq(Int) /\ Len(realloc(data, a)) = a
  BY <1>2, IsASeq, LenProperties
<1>4. \A i \in 1..a : i <= Len(data) => realloc(data, a)[i] = data[i]
  BY <1>1 DEF realloc
<1>5. QED  BY <1>3, <1>4

\* grow gives a sound buffer of the wanted length, with the bytes in place.
LEMMA GrowKeeps ==
    ASSUME NEW b \in SoundBuffers, b.ok, NEW by \in Nat
    PROVE  /\ grow(b, by) \in SoundBuffers
           /\ grow(b, by).l = b.l + by
           /\ \A i \in 1..b.l : grow(b, by).data[i] = b.data[i]
<1> DEFINE l == b.l + by
           c == IF l > 2 * b.size THEN l + Slack ELSE 2 * b.size
           g == grow(b, by)
<1>1. /\ b \in Buffers /\ b.size > 0 /\ Len(b.data) = b.size /\ ~b.over /\ b.l <= b.size
      /\ b.l \in Nat /\ b.size \in Nat /\ b.data \in Seq(Int) /\ l \in Nat /\ l >= b.l
  BY DEF SoundBuffers, Buffers
<1>2. c \in Nat /\ Slack \in Nat /\ BufferMaxSize \in Nat /\ b.size # 0
  <2>1. Slack \in Nat /\ BufferMaxSize \in Nat
    BY BufferAssumption
  <2>2. ASSUME NEW x \in Nat, NEW y \in Nat PROVE (IF x > 2 * y THEN x + Slack ELSE 2 * y) \in Nat
    BY <2>1
  <2> HIDE DEF l
  <2>3. c \in Nat
    BY <1>1, <2>2
  <2>4. QED  BY <1>1, <2>1, <2>3
<1>3. CASE l <= b.size
  <2>1. g = [b EXCEPT !.l = l]
    BY <1>3, <1>1 DEF grow
  <2>2. g \in Buffers /\ g.l = l /\ g.size = b.size /\ g.data = b.data /\ g.ok = b.ok /\ g.over = b.over
    BY <2>1, <1>1 DEF Buffers
  <2> HIDE DEF g
  <2>3. g \in SoundBuffers
    BY <2>2, <1>1, <1>3 DEF SoundBuffers
  <2>4. QED  BY <2>2, <2>3 DEF g
<1>4. CASE l > b.size /\ c <= BufferMaxSize
  <2>1. g = [b EXCEPT !.l = l, !.size = c, !.data = realloc(b.data, c)]
    BY <1>4, <1>1, <1>2 DEF grow
  <2>2. realloc(b.data, c) \in Seq(Int) /\ Len(realloc(b.data, c)) = c
        /\ \A i \in 1..c : i <= Len(b.data) => realloc(b.data, c)[i] = b.data[i]
    BY <1>1, <1>2, ReallocKeeps
  <2>3. /\ g \in Buffers /\ g.l = l /\ g.size = c /\ g.data = realloc(b.data, c)
        /\ g.ok = b.ok /\ g.over = b.over
    BY <2>1, <2>2, <1>1, <1>2 DEF Buffers
  <2> HIDE DEF g
  <2>4. g \in SoundBuffers
    <3>1. l <= c /\ c > 0
      BY <1>1, <1>2, SMTT(30)
    <3>2. QED  BY <2>2, <2>3, <3>1, <1>1, <1>2 DEF SoundBuffers
  <2>5. ASSUME NEW i \in 1..b.l PROVE g.data[i] = b.data[i]
    <3>1. b.l <= c
      BY <1>1, <1>2
    <3> HIDE DEF c
    <3>2. i \in 1..c /\ i <= Len(b.data)
      BY <1>1, <1>2, <3>1
    <3>3. QED  BY <3>2, <2>2, <2>3
  <2>6. QED  BY <2>3, <2>4, <2>5 DEF g
<1>5. CASE l > b.size /\ c > BufferMaxSize
  <2>1. g = [b EXCEPT !.l = l, !.ok = FALSE]
    BY <1>5, <1>1, <1>2 DEF grow
  <2>2. /\ g \in Buffers /\ g.l = l /\ g.size = b.size /\ g.data = b.data
        /\ g.ok = FALSE /\ g.over = b.over
    BY <2>1, <1>1 DEF Buffers
  <2> HIDE DEF g
  <2>3. Stuck(g)
    BY <2>2, <1>5, <1>1, <1>2 DEF Stuck
  <2>4. g \in SoundBuffers
    BY <2>2, <2>3, <1>1 DEF SoundBuffers
  <2>5. QED  BY <2>2, <2>4 DEF g
<1>6. QED  BY <1>1, <1>2, <1>3, <1>4, <1>5

\* A buffer that has thrown throws again, however little it is asked for.
LEMMA StuckThrows ==
    ASSUME NEW b \in SoundBuffers, ~b.ok, NEW by \in Nat
    PROVE  grow(b, by).ok = FALSE
<1> DEFINE l == b.l + by
           c == IF l > 2 * b.size THEN l + Slack ELSE 2 * b.size
<1>1. b \in Buffers /\ b.size > 0 /\ b.l \in Nat /\ b.size \in Nat /\ l \in Nat /\ l >= b.l /\ Stuck(b)
  BY DEF SoundBuffers, Buffers
<1>2. Slack \in Nat /\ BufferMaxSize \in Nat /\ b.size # 0
  BY <1>1, BufferAssumption
<1>3. l > b.size /\ c > BufferMaxSize
  BY <1>1, <1>2 DEF Stuck
<1>4. grow(b, by) = [b EXCEPT !.l = l, !.ok = FALSE]
  BY <1>1, <1>2, <1>3 DEF grow
<1>5. QED  BY <1>1, <1>4 DEF Buffers

\* Bytes written inside the length stay inside the memory.
LEMMA WriteKeeps ==
    ASSUME NEW b \in SoundBuffers, b.ok, NEW at \in Nat, NEW s \in Seq(Int), at + Len(s) <= b.l
    PROVE  /\ Write(b, at, s) \in SoundBuffers
           /\ Write(b, at, s).ok /\ Write(b, at, s).l = b.l
           /\ \A i \in 1..b.l : Write(b, at, s).data[i] =
                IF at < i /\ i <= at + Len(s) THEN s[i - at] ELSE b.data[i]
<1> DEFINE w == Write(b, at, s)
           d == [i \in DOMAIN b.data |-> IF i - at \in DOMAIN s THEN s[i - at] ELSE b.data[i]]
<1>1. /\ b \in Buffers /\ b.size > 0 /\ Len(b.data) = b.size /\ ~b.over /\ b.l <= b.size
      /\ b.l \in Nat /\ b.size \in Nat /\ b.data \in Seq(Int) /\ Len(s) \in Nat
  BY DEF SoundBuffers, Buffers
<1>2. DOMAIN b.data = 1..b.size /\ DOMAIN s = 1..Len(s) /\ \A j \in 1..Len(s) : s[j] \in Int
  BY <1>1
<1>3. \A i \in 1..b.size : d[i] = IF at < i /\ i <= at + Len(s) THEN s[i - at] ELSE b.data[i]
  BY <1>1, <1>2
<1>4. d \in Seq(Int) /\ Len(d) = b.size
  <2>1. \A i \in 1..b.size : b.data[i] \in Int
    BY <1>1
  <2>2. d \in [1..b.size -> Int]
    BY <1>2, <2>1
  <2> HIDE DEF d
  <2>3. d \in Seq(Int)
    BY <2>2, <1>1, IsASeq, SMTT(30)
  <2>4. DOMAIN d = 1..b.size
    BY <2>2
  <2>5. QED  BY <2>3, <2>4, <1>1, LenProperties
<1>5. w = [b EXCEPT !.data = d, !.over = b.over \/ at + Len(s) > b.size]
  BY DEF Write
<1>6. ~(b.over \/ at + Len(s) > b.size)
  BY <1>1
<1> HIDE DEF d
<1>7. w \in Buffers /\ w.data = d /\ w.l = b.l /\ w.size = b.size /\ w.ok = b.ok /\ w.over = FALSE
  BY <1>1, <1>4, <1>5, <1>6 DEF Buffers
<1> HIDE DEF w
<1>8. w \in SoundBuffers
  BY <1>1, <1>4, <1>7 DEF SoundBuffers
<1>9. \A i \in 1..b.l : w.data[i] = IF at < i /\ i <= at + Len(s) THEN s[i - at] ELSE b.data[i]
  BY <1>1, <1>3, <1>7
<1>10. QED  BY <1>7, <1>8, <1>9 DEF w

\* append puts bytes behind those that are there.
LEMMA AppendExtends ==
    ASSUME NEW b \in SoundBuffers, NEW s \in Seq(Int)
    PROVE  append(b, s) \in SoundBuffers /\ Extends(b, append(b, s), s)
<1> DEFINE g == grow(b, Len(s))
           w == Write(g, b.l, s)
<1>1. b.ok \in BOOLEAN /\ b.l \in Nat /\ Len(s) \in Nat
  BY DEF SoundBuffers, Buffers
<1>2. CASE ~b.ok
  <2>1. append(b, s) = b
    BY <1>2 DEF append
  <2>2. QED  BY <2>1, <1>2 DEF Extends
<1>3. CASE b.ok
  <2>1. g \in SoundBuffers /\ g.l = b.l + Len(s) /\ \A i \in 1..b.l : g.data[i] = b.data[i]
    BY <1>1, <1>3, GrowKeeps
  <2>2. CASE ~g.ok
    <3>1. append(b, s) = g
      BY <1>3, <2>2 DEF append
    <3>2. QED  BY <3>1, <2>1, <2>2 DEF Extends
  <2>3. CASE g.ok
    <3>1. append(b, s) = w
      BY <1>3, <2>3 DEF append
    <3> HIDE DEF g
    <3>2. /\ w \in SoundBuffers /\ w.ok /\ w.l = g.l
          /\ \A i \in 1..g.l : w.data[i] = IF b.l < i /\ i <= b.l + Len(s) THEN s[i - b.l] ELSE g.data[i]
      BY <1>1, <2>1, <2>3, WriteKeeps
    <3> HIDE DEF w
    <3>3. \A i \in 1..b.l : w.data[i] = b.data[i]
      BY <3>2, <2>1, <1>1
    <3>4. ASSUME NEW j \in 1..Len(s) PROVE w.data[b.l + j] = s[j]
      <4>1. b.l + j \in 1..g.l /\ b.l < b.l + j /\ b.l + j <= b.l + Len(s) /\ (b.l + j) - b.l = j
        BY <2>1, <1>1
      <4>2. QED  BY <4>1, <3>2
    <3>5. Extends(b, w, s)
      BY <3>2, <3>3, <3>4, <1>3, <2>1 DEF Extends
    <3>6. QED  BY <3>1, <3>2, <3>5
  <2>4. g.ok \in BOOLEAN
    BY <2>1 DEF SoundBuffers, Buffers
  <2>5. QED  BY <2>2, <2>3, <2>4
<1>4. QED  BY <1>1, <1>2, <1>3

\* Two extensions, one after the other.
LEMMA ExtendsTwice ==
    ASSUME NEW b \in SoundBuffers, NEW r, NEW q, NEW s \in Seq(Int), NEW t \in Seq(Int),
           Extends(b, r, s), Extends(r, q, t)
    PROVE  Extends(b, q, s \o t)
<1> SUFFICES ASSUME q.ok PROVE Extends(b, q, s \o t)!2
  BY DEF Extends
<1>1. /\ r.ok /\ q.l = r.l + Len(t)
      /\ \A i \in 1..r.l : q.data[i] = r.data[i]
      /\ \A j \in 1..Len(t) : q.data[r.l + j] = t[j]
  BY DEF Extends
<1>2. /\ b.ok /\ r.l = b.l + Len(s)
      /\ \A i \in 1..b.l : r.data[i] = b.data[i]
      /\ \A j \in 1..Len(s) : r.data[b.l + j] = s[j]
  BY <1>1 DEF Extends
<1>3. b.l \in Nat /\ Len(s) \in Nat /\ Len(t) \in Nat /\ Len(s \o t) = Len(s) + Len(t)
  BY DEF SoundBuffers, Buffers
<1>4. q.l = b.l + Len(s \o t)
  BY <1>1, <1>2, <1>3
<1>5. ASSUME NEW i \in 1..b.l PROVE q.data[i] = b.data[i]
  <2>1. i \in 1..r.l
    BY <1>2, <1>3
  <2>2. QED  BY <2>1, <1>1, <1>2
<1>6. ASSUME NEW j \in 1..Len(s \o t) PROVE q.data[b.l + j] = (s \o t)[j]
  <2>1. CASE j <= Len(s)
    <3>1. j \in 1..Len(s) /\ b.l + j \in 1..r.l
      BY <2>1, <1>2, <1>3
    <3>2. (s \o t)[j] = s[j]
      BY <3>1, <1>3
    <3>3. QED  BY <3>1, <3>2, <1>1, <1>2
  <2>2. CASE j > Len(s)
    <3>1. j - Len(s) \in 1..Len(t) /\ b.l + j = r.l + (j - Len(s))
      BY <2>2, <1>2, <1>3
    <3>2. (s \o t)[j] = t[j - Len(s)]
      BY <2>2, <1>3
    <3>3. QED  BY <3>1, <3>2, <1>1
  <2>3. QED  BY <2>1, <2>2, <1>3
<1>7. QED  BY <1>2, <1>4, <1>5, <1>6

\* appendPieces puts all the pieces behind the bytes that are there.
LEMMA PiecesExtend ==
    ASSUME NEW b \in SoundBuffers, NEW p \in Seq(Seq(Int))
    PROVE  appendPieces(b, p) \in SoundBuffers /\ Extends(b, appendPieces(b, p), FlattenSeq(p))
<1> DEFINE N == Len(p)
           Rec(f) == [i \in 0..N |-> IF i = 0 THEN b ELSE append(f[i-1], p[i])]
           m == CHOOSE f : f = Rec(f)
           G == [q \in SoundBuffers \X Nat |-> IF q[2] + 1 <= N THEN append(q[1], p[q[2] + 1]) ELSE q[1]]
<1>1. N \in Nat /\ \A i \in 1..N : p[i] \in Seq(Int)
  OBVIOUS
<1>2. appendPieces(b, p) = m[N]
  BY Zenon DEF appendPieces
<1>3. G \in [SoundBuffers \X Nat -> SoundBuffers]
  <2>1. ASSUME NEW q \in SoundBuffers \X Nat
        PROVE  (IF q[2] + 1 <= N THEN append(q[1], p[q[2] + 1]) ELSE q[1]) \in SoundBuffers
    <3>1. q[1] \in SoundBuffers /\ q[2] \in Nat
      OBVIOUS
    <3>2. q[2] + 1 <= N => p[q[2] + 1] \in Seq(Int)
      BY <3>1, <1>1
    <3>3. QED  BY <3>1, <3>2, AppendExtends
  <2>2. QED  BY <2>1
<1> HIDE DEF N, G
<1>4. PICK f \in [0 .. N -> SoundBuffers] : Computes(f, b, G, N)
  BY <1>1, <1>3, Recursion
<1>5. ASSUME NEW i \in 0..N PROVE f[i] = IF i = 0 THEN b ELSE append(f[i-1], p[i])
  <2>1. CASE i = 0
    BY <2>1, <1>4 DEF Computes
  <2>2. CASE i # 0
    <3> DEFINE j == i - 1
    <3>1. j \in 0 .. N - 1 /\ j \in Nat /\ j \in 0..N /\ j + 1 = i /\ i <= N
      BY <2>2, <1>1
    <3> HIDE DEF j
    <3>2. f[j + 1] = G[<<f[j], j>>] /\ f[j] \in SoundBuffers
      BY <3>1, <1>4 DEF Computes
    <3>3. <<f[j], j>> \in SoundBuffers \X Nat
      BY <3>1, <3>2
    <3>4. G[<<f[j], j>>] = append(f[j], p[j + 1])
      BY <3>1, <3>3 DEF G
    <3>5. QED  BY <3>1, <3>2, <3>4, <2>2 DEF j
  <2>3. QED  BY <2>1, <2>2
<1>6. f = Rec(f)
  BY <1>5
<1>7. m = Rec(m)
  BY <1>6, Zenon
<1> HIDE DEF m
<1>8. \A i \in 0..N : m[i] = IF i = 0 THEN b ELSE append(m[i-1], p[i])
  <2> DEFINE r == Rec(m)
  <2>1. \A i \in 0..N : r[i] = IF i = 0 THEN b ELSE append(m[i-1], p[i])
    OBVIOUS
  <2>2. m = r
    BY <1>7
  <2> HIDE DEF r
  <2>3. QED  BY <2>1, <2>2
<1>9. CASE N = 0
  <2>1. p = <<>> /\ FlattenSeq(p) = <<>>
    <3>1. p = <<>>
      BY <1>9 DEF N
    <3>2. QED  BY <3>1, <1>9 DEF FlattenSeq, N
  <2>2. m[N] = b
    BY <1>8, <1>9
  <2>3. Extends(b, b, <<>>)
    BY DEF Extends, SoundBuffers, Buffers
  <2>4. QED  BY <1>2, <2>1, <2>2, <2>3
<1>10. CASE N # 0
  <2>1. p # <<>> /\ N \in 1..N /\ N - 1 \in Nat /\ (N - 1) + 1 = N
    BY <1>10, <1>1 DEF N
  <2>2. PICK h : Flattens(h, p) /\ FlattenSeq(p) = h[N] /\ h \in [1..N -> Seq(Int)]
    BY <2>1, FlattenDefined DEF N
  <2>3. \A i \in 1..N : h[i] = IF i = 1 THEN p[i] ELSE h[i-1] \o p[i]
    <3> DEFINE r == [i \in 1..N |-> IF i = 1 THEN p[i] ELSE h[i-1] \o p[i]]
    <3>1. \A i \in 1..N : r[i] = IF i = 1 THEN p[i] ELSE h[i-1] \o p[i]
      OBVIOUS
    <3>2. h = r
      BY <2>2 DEF Flattens, N
    <3> HIDE DEF r
    <3>3. QED  BY <3>1, <3>2
  <2> DEFINE Good(i) == m[i] \in SoundBuffers /\ Extends(b, m[i], h[i])
             S == {k \in Nat : k + 1 <= N => Good(k + 1)}
  <2>4. 0 \in S
    <3>1. 0 \in 0..N /\ 1 \in 0..N /\ 1 \in 1..N
      BY <2>1
    <3>2. m[0] = b /\ m[1] = append(m[0], p[1]) /\ h[1] = p[1]
      BY <3>1, <1>8, <2>3
    <3>3. Good(1)
      BY <3>1, <3>2, <1>1, AppendExtends
    <3>4. QED  BY <3>3
  <2>5. ASSUME NEW k \in Nat, k \in S PROVE k + 1 \in S
    <3>1. SUFFICES ASSUME (k + 1) + 1 <= N PROVE Good((k + 1) + 1)
      OBVIOUS
    <3>2. Good(k + 1)
      BY <2>5, <3>1, <1>1
    <3> DEFINE i == (k + 1) + 1
    <3>3. i \in 1..N /\ i \in 0..N /\ i # 1 /\ i # 0 /\ i - 1 = k + 1 /\ k + 1 \in 1..N
      BY <3>1, <1>1
    <3> HIDE DEF i
    <3>4. m[i] = append(m[k + 1], p[i]) /\ h[i] = h[k + 1] \o p[i]
      BY <3>3, <1>8, <2>3
    <3>5. m[i] \in SoundBuffers /\ Extends(m[k + 1], m[i], p[i])
      BY <3>2, <3>3, <3>4, <1>1, AppendExtends
    <3>6. h[k + 1] \in Seq(Int) /\ p[i] \in Seq(Int)
      BY <3>3, <2>2, <1>1
    <3>7. Extends(b, m[i], h[i])
      BY <3>2, <3>4, <3>5, <3>6, ExtendsTwice
    <3>8. QED  BY <3>5, <3>7 DEF i
  <2> HIDE DEF S
  <2>6. N - 1 \in S
    BY <2>1, <2>4, <2>5, SetInduction
  <2>7. Good(N)
    BY <2>1, <2>6 DEF S
  <2>8. QED  BY <1>2, <2>2, <2>7
<1>11. QED  BY <1>9, <1>10

-----------------------------------------------------------------------------
(***************************************************************************)
(* Elements and documents as bytes.                                        *)
(***************************************************************************)
\* Four bytes of a number.
LEMMA Int4Type ==
    ASSUME NEW v \in Int
    PROVE  Int4(v) \in Seq(Int) /\ Len(Int4(v)) = 4
<1>1. /\ v % 256 \in Int /\ (v \div 256) % 256 \in Int
      /\ (v \div 65536) % 256 \in Int /\ (v \div 16777216) % 256 \in Int
  OBVIOUS
<1>2. \A x \in Int : Signed(x) \in Int
  BY DEF Signed
<1> DEFINE a == Signed(v % 256)
           b == Signed((v \div 256) % 256)
           c == Signed((v \div 65536) % 256)
           d == Signed((v \div 16777216) % 256)
<1>3. a \in Int /\ b \in Int /\ c \in Int /\ d \in Int
  BY <1>1, <1>2
<1>4. Int4(v) = <<a, b, c, d>>
  BY DEF Int4
<1> HIDE DEF a, b, c, d
<1>5. QED  BY <1>3, <1>4

\* The parts of elements are sequences of bytes.
LEMMA PartTypes ==
    /\ \A s \in Seq(Int) : Str(s) \in Seq(Int)
    /\ \A e \in Element : Int8(e) \in Seq(Int)
<1>1. \A s \in Seq(Int) : Str(s) \in Seq(Int)
  BY DEF Str
<1>2. ASSUME NEW e \in Element PROVE Int8(e) \in Seq(Int)
  <2>1. e.n \in Int /\ e.o \in Seq(Int)
    BY DEF Element
  <2>2. High(e.n) \in Seq(Int)
    BY <2>1 DEF High
  <2>3. Int4(e.n) \in Seq(Int)
    BY <2>1, Int4Type
  <2> DEFINE h == IF e.o = <<>> THEN High(e.n) ELSE e.o
  <2>4. h \in Seq(Int)
    BY <2>1, <2>2
  <2>5. Int8(e) = Int4(e.n) \o h
    BY DEF Int8
  <2> HIDE DEF h
  <2>6. QED  BY <2>3, <2>4, <2>5
<1>3. QED  BY <1>1, <1>2

\* The pieces of an element are sequences of bytes.
LEMMA PiecesType ==
    ASSUME NEW e \in Element
    PROVE  Pieces(e) \in Seq(Seq(Int))
<1> DEFINE B == Seq(Int)
<1>1. /\ e.type \in Int /\ e.n \in Int /\ e.name \in B /\ e.s \in B /\ e.o \in B /\ e.d \in B
      /\ Len(e.s) \in Nat /\ Len(e.d) \in Nat
  BY DEF Element
<1>2. /\ <<e.type>> \in B /\ <<e.n>> \in B /\ Str(e.name) \in B /\ Str(e.s) \in B /\ Str(e.o) \in B
      /\ Int8(e) \in B
  <2>1. <<e.type>> \in B /\ <<e.n>> \in B
    BY <1>1
  <2>2. Str(e.name) \in B /\ Str(e.s) \in B /\ Str(e.o) \in B /\ Int8(e) \in B
    BY <1>1, PartTypes, Zenon
  <2>3. QED  BY <2>1, <2>2
<1>3. /\ Int4(e.n) \in B /\ Int4(Len(e.s)) \in B /\ Int4(Len(e.s) + 1) \in B
      /\ Int4(4 + 4 + Len(e.s) + 1 + Len(e.d)) \in B
  <2>1. Len(e.s) \in Int /\ Len(e.s) + 1 \in Int /\ 4 + 4 + Len(e.s) + 1 + Len(e.d) \in Int
    BY <1>1
  <2>2. QED  BY <1>1, <2>1, Int4Type, Zenon
<1> HIDE DEF B
<1>4. NumberPieces(e) \in Seq(B)
  BY <1>2, <1>3 DEF NumberPieces
<1>5. DatePieces(e) \in Seq(B)
  BY <1>1, <1>2 DEF DatePieces
<1>6. TextPieces(e) \in Seq(B)
  BY <1>2, <1>3 DEF TextPieces
<1>7. KeyPieces(e) \in Seq(B)
  BY <1>2 DEF KeyPieces
<1>8. BinaryPieces(e) \in Seq(B)
  <2>1. <<Int4(Len(e.s) + 1), Str(e.s), e.o>> \in Seq(B)
    BY <1>1, <1>2, <1>3
  <2>2. <<Int4(Len(e.s)), <<e.n>>, e.s>> \in Seq(B)
    BY <1>1, <1>2, <1>3
  <2>3. <<Int4(4 + 4 + Len(e.s) + 1 + Len(e.d)), Int4(Len(e.s) + 1), Str(e.s), e.d>> \in Seq(B)
    <3>1. ASSUME NEW x1 \in B, NEW x2 \in B, NEW x3 \in B, NEW x4 \in B
          PROVE  <<x1, x2, x3, x4>> \in Seq(B)
      OBVIOUS
    <3>2. QED  BY <1>1, <1>2, <1>3, <3>1, Zenon
  <2>4. <<>> \in Seq(B)
    OBVIOUS
  <2>5. CASE e.type = DBRef
    <3>1. e.type # BinData /\ e.type # CodeWScope
      BY <2>5 DEF DBRef, BinData, CodeWScope
    <3>2. BinaryPieces(e) = <<Int4(Len(e.s) + 1), Str(e.s), e.o>>
      BY <2>5, <3>1 DEF BinaryPieces
    <3>3. QED  BY <2>1, <3>2
  <2>6. CASE e.type = BinData
    <3>1. e.type # DBRef
      BY <2>6 DEF DBRef, BinData
    <3>2. BinaryPieces(e) = <<Int4(Len(e.s)), <<e.n>>, e.s>>
      BY <2>6, <3>1 DEF BinaryPieces, BinData, CodeWScope, DBRef
    <3>3. QED  BY <2>2, <3>2
  <2>7. CASE e.type = CodeWScope
    <3>1. e.type # DBRef /\ e.type # BinData
      BY <2>7 DEF DBRef, BinData, CodeWScope
    <3>2. BinaryPieces(e) = <<Int4(4 + 4 + Len(e.s) + 1 + Len(e.d)), Int4(Len(e.s) + 1), Str(e.s), e.d>>
      BY <2>7, <3>1 DEF BinaryPieces
    <3>3. QED  BY <2>3, <3>2
  <2>8. CASE e.type \notin {DBRef, BinData, CodeWScope}
    BY <2>8, <2>4 DEF BinaryPieces
  <2>9. QED  BY <2>5, <2>6, <2>7, <2>8
<1>9. ObjectPieces(e) \in Seq(B)
  BY <1>1 DEF ObjectPieces
<1>10. ValuePieces(e) \in Seq(B)
  BY <1>4, <1>5, <1>6, <1>7, <1>8, <1>9 DEF ValuePieces
<1>11. <<<<e.type>>, Str(e.name)>> \in Seq(B)
  BY <1>2
<1> DEFINE h == <<<<e.type>>, Str(e.name)>>
           v == ValuePieces(e)
<1>12. Pieces(e) = h \o v
  BY DEF Pieces
<1> HIDE DEF h, v
<1>13. Pieces(e) \in Seq(B)
  BY <1>10, <1>11, <1>12 DEF h, v
<1>14. QED  BY <1>13 DEF B

\* The elements the builders make are elements.
LEMMA MadeElements ==
    /\ \A t \in Int, nm \in Seq(Int) : Elt(t, nm) \in Element
    /\ \A t \in Int, nm \in Seq(Int), x \in Seq(Int) : SubElt(t, nm, x) \in Element
    /\ \A e \in Element, nm \in Seq(Int) : appendAs(e, nm) \in Element
<1>1. <<>> \in Seq(Int)
  OBVIOUS
<1>2. \A t \in Int, nm \in Seq(Int) : Elt(t, nm) \in Element
  BY <1>1 DEF Elt, Element
<1>3. \A t \in Int, nm \in Seq(Int), x \in Seq(Int) : SubElt(t, nm, x) \in Element
  <2>1. ASSUME NEW t \in Int, NEW nm \in Seq(Int), NEW x \in Seq(Int) PROVE SubElt(t, nm, x) \in Element
    <3>1. SubElt(t, nm, x) = [type |-> t, name |-> nm, n |-> 0, s |-> <<>>, o |-> <<>>, d |-> x]
      BY DEF SubElt, Elt
    <3>2. QED  BY <1>1, <3>1 DEF Element
  <2>2. QED  BY <2>1
<1>4. \A e \in Element, nm \in Seq(Int) : appendAs(e, nm) \in Element
  BY DEF appendAs, Element
<1>5. QED  BY <1>2, <1>3, <1>4

\* The bytes of a document, element by element.
LEMMA BytesAppend ==
    ASSUME NEW d \in Seq(Element), NEW e \in Element
    PROVE  Bytes(Append(d, e)) = Bytes(d) \o FlattenSeq(Pieces(e))
<1> DEFINE F(x) == FlattenSeq(Pieces(x))
           a == [i \in DOMAIN d |-> F(d[i])]
           t == Append(d, e)
           c == [i \in DOMAIN t |-> F(t[i])]
<1>1. \A x \in Element : F(x) \in Seq(Int)
  BY PiecesType, FlattenType
<1>2. /\ DOMAIN d = 1..Len(d) /\ Len(d) \in Nat /\ \A i \in 1..Len(d) : d[i] \in Element
      /\ t \in Seq(Element) /\ DOMAIN t = 1..Len(d) + 1 /\ t[Len(d) + 1] = e
      /\ \A i \in 1..Len(d) : t[i] = d[i]
  BY AppendProperties
<1> HIDE DEF t, F
<1>3. a \in Seq(Seq(Int)) /\ Len(a) = Len(d) /\ \A i \in 1..Len(d) : a[i] = F(d[i])
  <2>1. a \in [1..Len(d) -> Seq(Int)]
    BY <1>1, <1>2
  <2>2. \A i \in 1..Len(d) : a[i] = F(d[i])
    BY <1>2
  <2> HIDE DEF a
  <2>3. a \in Seq(Seq(Int)) /\ DOMAIN a = 1..Len(d)
    BY <2>1, <1>2, IsASeq
  <2>4. QED  BY <2>2, <2>3, <1>2, LenProperties
<1>4. c = Append(a, F(e))
  <2>1. F(e) \in Seq(Int)
    BY <1>1
  <2>2. \A i \in 1..Len(d) + 1 : c[i] = F(t[i])
    BY <1>2
  <2>3. DOMAIN c = 1..Len(d) + 1
    BY <1>2
  <2>4. /\ Append(a, F(e)) \in Seq(Seq(Int)) /\ Len(Append(a, F(e))) = Len(d) + 1
        /\ Append(a, F(e))[Len(d) + 1] = F(e)
        /\ \A i \in 1..Len(d) : Append(a, F(e))[i] = a[i]
    <3> HIDE DEF a
    <3>1. QED  BY <1>3, <2>1, AppendProperties
  <2>5. c \in Seq(Seq(Int))
    <3>1. \A i \in 1..Len(d) + 1 : t[i] \in Element
      BY <1>2
    <3>2. c \in [1..Len(d) + 1 -> Seq(Int)]
      BY <1>1, <1>2, <3>1
    <3>3. QED  BY <3>2, <1>2, IsASeq
  <2> HIDE DEF c, a
  <2>6. Len(c) = Len(d) + 1
    BY <2>3, <2>5, <1>2, LenProperties
  <2>7. ASSUME NEW i \in 1..Len(d) + 1 PROVE c[i] = Append(a, F(e))[i]
    <3>1. CASE i \in 1..Len(d)
      BY <3>1, <2>2, <2>4, <1>2, <1>3
    <3>2. CASE i = Len(d) + 1
      BY <3>2, <2>2, <2>4, <1>2
    <3>3. i \in 1..Len(d) \/ i = Len(d) + 1
      BY <1>2
    <3>4. QED  BY <3>1, <3>2, <3>3
  <2>8. QED  BY <2>4, <2>5, <2>6, <2>7, SeqEqual
<1>5. Bytes(t) = FlattenSeq(c) /\ Bytes(d) = FlattenSeq(a)
  BY DEF Bytes, F
<1> HIDE DEF a, c
<1>6. FlattenSeq(c) = FlattenSeq(a) \o F(e)
  BY <1>1, <1>3, <1>4, FlattenAppend
<1>7. QED  BY <1>5, <1>6 DEF t, F

\* Three sequences in a row.
LEMMA ThreeInARow ==
    ASSUME NEW h \in Seq(Int), NEW y \in Seq(Int), NEW z \in Seq(Int)
    PROVE  h \o y \o z \in Seq(Int) /\ Len(h \o y \o z) = Len(h) + Len(y) + Len(z)
<1>1. h \o y \in Seq(Int) /\ Len(h \o y) = Len(h) + Len(y)
  BY ConcatProperties
<1>2. (h \o y) \o z \in Seq(Int) /\ Len((h \o y) \o z) = Len(h \o y) + Len(z)
  BY <1>1, ConcatProperties
<1>3. QED  BY <1>1, <1>2

\* The bytes of a document are a sequence of bytes.
LEMMA BytesType ==
    ASSUME NEW d \in Seq(Element)
    PROVE  Bytes(d) \in Seq(Int) /\ Encode(d) \in Seq(Int) /\ Len(Encode(d)) = Len(Bytes(d)) + 5
<1> DEFINE a == [i \in DOMAIN d |-> FlattenSeq(Pieces(d[i]))]
<1>1. DOMAIN d = 1..Len(d) /\ Len(d) \in Nat /\ \A i \in 1..Len(d) : d[i] \in Element
  OBVIOUS
<1>2. \A i \in 1..Len(d) : FlattenSeq(Pieces(d[i])) \in Seq(Int)
  BY <1>1, PiecesType, FlattenType
<1>3. a \in [1..Len(d) -> Seq(Int)]
  BY <1>1, <1>2
<1>4. Bytes(d) = FlattenSeq(a)
  BY DEF Bytes
<1> HIDE DEF a
<1>5. a \in Seq(Seq(Int))
  BY <1>1, <1>3, IsASeq
<1>6. Bytes(d) \in Seq(Int) /\ Len(Bytes(d)) + 5 \in Int
  BY <1>4, <1>5, FlattenType
<1>7. Int4(Len(Bytes(d)) + 5) \in Seq(Int) /\ Len(Int4(Len(Bytes(d)) + 5)) = 4
  BY <1>6, Int4Type
<1> DEFINE h == Int4(Len(Bytes(d)) + 5)
           y == Bytes(d)
<1>8. Encode(d) = h \o y \o <<EOO>>
  BY DEF Encode
<1> HIDE DEF h, y
<1>9. h \in Seq(Int) /\ Len(h) = 4 /\ y \in Seq(Int) /\ EOO \in Int
  BY <1>6, <1>7 DEF h, y, EOO
<1>10. h \o y \o <<EOO>> \in Seq(Int) /\ Len(h \o y \o <<EOO>>) = 4 + Len(y) + 1
  <2> DEFINE z == <<EOO>>
  <2>1. z \in Seq(Int) /\ Len(z) = 1
    BY <1>9
  <2> HIDE DEF z
  <2>2. h \o y \o z \in Seq(Int) /\ Len(h \o y \o z) = Len(h) + Len(y) + Len(z)
    BY <1>9, <2>1, ThreeInARow
  <2>3. QED  BY <1>9, <2>1, <2>2 DEF z
<1>11. Len(y) \in Nat
  BY <1>9
<1>12. QED  BY <1>6, <1>8, <1>10, <1>11 DEF y

\* An empty document has no element bytes.
LEMMA BytesEmpty == Bytes(<<>>) = <<>>
<1>1. [i \in DOMAIN <<>> |-> FlattenSeq(Pieces(<<>>[i]))] = <<>>
  OBVIOUS
<1>2. Len(<<>>) = 0
  OBVIOUS
<1>3. FlattenSeq(<<>>) = <<>>
  BY <1>2 DEF FlattenSeq
<1>4. QED  BY <1>1, <1>3 DEF Bytes

\* A sub-document is its type, its name and its own bytes.
LEMMA SubBytes ==
    ASSUME NEW t \in {Object, Array}, NEW nm \in Seq(Int), NEW x \in Seq(Int)
    PROVE  FlattenSeq(Pieces(SubElt(t, nm, x))) = <<t>> \o Str(nm) \o x
<1> DEFINE e == SubElt(t, nm, x)
           B == Seq(Int)
           p == <<t>>
           q == Str(nm)
<1>1. e.type = t /\ e.name = nm /\ e.d = x
  BY DEF SubElt, Elt
<1>2. t = 3 \/ t = 4
  BY DEF Object, Array
<1>3. ValuePieces(e) = <<x>>
  BY <1>1, <1>2 DEF ValuePieces, ObjectPieces, Bool, Numeric, NumberDouble, NumberInt, NumberLong,
     Date, jstOID, Textual, String, Symbol, Code, RegEx, jstNULL, MinKey, MaxKey, Timestamp, Object, Array
<1>4. Pieces(e) = <<p, q>> \o <<x>>
  BY <1>1, <1>3 DEF Pieces
<1>5. p \in B /\ q \in B
  BY <1>2, PartTypes
<1> HIDE DEF p, q, e, B
<1>6. x \in B
  BY DEF B
<1>7. <<p, q>> \o <<x>> = Append(Append(Append(<<>>, p), q), x)
  BY <1>5, <1>6
<1>8. /\ Append(<<>>, p) \in Seq(B) /\ Append(Append(<<>>, p), q) \in Seq(B)
      /\ <<>> \in Seq(B)
  BY <1>5, <1>6
<1>9. FlattenSeq(<<>>) = <<>>
  <2>1. Len(<<>>) = 0
    OBVIOUS
  <2>2. QED  BY <2>1 DEF FlattenSeq
<1>10. FlattenSeq(Append(<<>>, p)) = <<>> \o p
  BY <1>5, <1>8, <1>9, FlattenAppend DEF B
<1>11. FlattenSeq(Append(Append(<<>>, p), q)) = FlattenSeq(Append(<<>>, p)) \o q
  BY <1>5, <1>8, FlattenAppend DEF B
<1>12. FlattenSeq(Append(Append(Append(<<>>, p), q), x)) = FlattenSeq(Append(Append(<<>>, p), q)) \o x
  BY <1>6, <1>8, FlattenAppend DEF B
<1>13. <<>> \o p = p
  BY <1>5 DEF B
<1>14. QED  BY <1>4, <1>7, <1>10, <1>11, <1>12, <1>13 DEF p, q, e

\* An index as text is a name.
LEMMA NumStrType ==
    ASSUME NEW i \in Nat
    PROVE  numStr(i) \in Seq(Int)
<1> DEFINE R == [rest : Nat, text : Seq(Int)]
           first == [rest |-> i \div 10, text |-> <<48 + (i % 10)>>]
           nxt(x) == [rest |-> x.rest \div 10, text |-> <<48 + (x.rest % 10)>> \o x.text]
           upd(x) == IF x.rest = 0 THEN x ELSE nxt(x)
           Rec(f) == [k \in 0..i |-> IF k = 0 THEN first
                                     ELSE IF f[k-1].rest = 0 THEN f[k-1] ELSE nxt(f[k-1])]
           m == CHOOSE f : f = Rec(f)
           G == [q \in R \X Nat |-> upd(q[1])]
<1>1. numStr(i) = m[i].text
  BY Zenon DEF numStr
<1>2. \A r \in Nat : r \div 10 \in Nat /\ 48 + (r % 10) \in Int
  OBVIOUS
<1>3. first \in R
  BY <1>2
<1>4. ASSUME NEW x \in R PROVE upd(x) \in R
  <2>1. x.rest \in Nat /\ x.text \in Seq(Int)
    OBVIOUS
  <2>2. <<48 + (x.rest % 10)>> \in Seq(Int)
    BY <2>1, <1>2
  <2>3. <<48 + (x.rest % 10)>> \o x.text \in Seq(Int)
    BY <2>1, <2>2, ConcatProperties
  <2>4. QED  BY <2>1, <2>3, <1>2
<1> HIDE DEF first, upd
<1>5. G \in [R \X Nat -> R]
  BY <1>4
<1> HIDE DEF R, G
<1>6. PICK f \in [0 .. i -> R] : Computes(f, first, G, i)
  BY <1>3, <1>5, Recursion
<1>7. ASSUME NEW k \in 0..i PROVE f[k] = IF k = 0 THEN first ELSE upd(f[k-1])
  <2>1. CASE k = 0
    BY <2>1, <1>6 DEF Computes
  <2>2. CASE k # 0
    <3> DEFINE j == k - 1
    <3>1. j \in 0 .. i - 1 /\ j \in Nat /\ j \in 0..i /\ j + 1 = k
      BY <2>2
    <3> HIDE DEF j
    <3>2. f[j + 1] = G[<<f[j], j>>] /\ f[j] \in R
      BY <3>1, <1>6 DEF Computes
    <3>3. <<f[j], j>> \in R \X Nat
      BY <3>1, <3>2
    <3>4. G[<<f[j], j>>] = upd(f[j])
      BY <3>3 DEF G
    <3>5. QED  BY <3>1, <3>2, <3>4, <2>2 DEF j
  <2>3. QED  BY <2>1, <2>2
<1>8. f = Rec(f)
  BY <1>7 DEF upd
<1>9. m = Rec(m)
  BY <1>8, Zenon
<1> HIDE DEF m
<1>10. \A k \in 0..i : m[k] = IF k = 0 THEN first ELSE upd(m[k-1])
  <2> DEFINE r == Rec(m)
  <2>1. \A k \in 0..i : r[k] = IF k = 0 THEN first ELSE upd(m[k-1])
    BY DEF upd
  <2>2. m = r
    BY <1>9
  <2> HIDE DEF r
  <2>3. QED  BY <2>1, <2>2
<1> DEFINE S == {k \in Nat : k <= i => m[k] \in R}
<1>11. 0 \in S
  BY <1>3, <1>10
<1>12. ASSUME NEW k \in Nat, k \in S PROVE k + 1 \in S
  <2>1. SUFFICES ASSUME k + 1 <= i PROVE m[k + 1] \in R
    OBVIOUS
  <2>2. m[k] \in R /\ k + 1 \in 0..i /\ k + 1 # 0 /\ (k + 1) - 1 = k
    BY <1>12, <2>1
  <2>3. m[k + 1] = upd(m[k])
    BY <1>10, <2>2
  <2>4. QED  BY <2>2, <2>3, <1>4
<1> HIDE DEF S
<1>13. i \in S
  BY <1>11, <1>12, SetInduction
<1>14. m[i] \in R
  BY <1>13 DEF S
<1>15. QED  BY <1>1, <1>14 DEF R

-----------------------------------------------------------------------------
(***************************************************************************)
(* Builders over the buffer.                                               *)
(***************************************************************************)
Builders ==
    [off : Nat, type : {Object, Array}, name : Seq(Int), doc : Seq(Element), i : Nat,
     field : SUBSET Seq(Int), sub : SUBSET Seq(Element)]

States == [b : SoundBuffers, top : Builders]

\* The memory from offset lo to offset hi is s.
HasBytes(b, lo, hi, s) == hi = lo + Len(s) /\ \A j \in 1..Len(s) : b.data[lo + j] = s[j]

\* The bytes behind a builder's room for the size are those of its elements.
Holds(b, top) == b.ok => HasBytes(b, top.off + 4, b.l, Bytes(top.doc))

\* The builder of st has gone on and is that of q; its older bytes are the same.
Follows(st, q) ==
    /\ q \in States /\ Holds(q.b, q.top)
    /\ q.top.off = st.top.off /\ q.top.type = st.top.type /\ q.top.name = st.top.name
    /\ q.b.ok => /\ st.b.ok /\ st.b.l <= q.b.l
                 /\ \A j \in 1..st.b.l : q.b.data[j] = st.b.data[j]

\* What HasBytes says about SubSeq.
LEMMA HasBytesSubSeq ==
    ASSUME NEW b \in SoundBuffers, NEW lo \in Nat, NEW hi \in Nat, NEW s \in Seq(Int), hi <= b.size
    PROVE  HasBytes(b, lo, hi, s) => SubSeq(b.data, lo + 1, hi) = s
<1> SUFFICES ASSUME HasBytes(b, lo, hi, s) PROVE SubSeq(b.data, lo + 1, hi) = s
  OBVIOUS
<1>1. b.data \in Seq(Int) /\ Len(b.data) = b.size /\ b.size \in Nat /\ Len(s) \in Nat
  BY DEF SoundBuffers, Buffers
<1>2. hi = lo + Len(s) /\ \A j \in 1..Len(s) : b.data[lo + j] = s[j]
  BY DEF HasBytes
<1>3. hi <= Len(b.data) /\ lo + 1 >= 1
  BY <1>1
<1>4. \A j \in (lo + 1)..hi : b.data[j] \in Int
  BY <1>1, <1>3
<1>5. /\ SubSeq(b.data, lo + 1, hi) \in Seq(Int)
      /\ Len(SubSeq(b.data, lo + 1, hi)) = Len(s)
      /\ \A j \in 1..Len(s) : SubSeq(b.data, lo + 1, hi)[j] = b.data[lo + j]
  <2>1. lo + 1 \in Int /\ hi \in Int
    OBVIOUS
  <2> DEFINE t == SubSeq(b.data, lo + 1, hi)
  <2>2. t = [j \in 1..Len(s) |-> b.data[lo + j]]
    <3>1. (1 + hi) - (lo + 1) = Len(s) /\ \A j \in 1..Len(s) : (lo + 1) + j - 1 = lo + j
      BY <1>1, <1>2
    <3>2. t = [j \in 1..((1 + hi) - (lo + 1)) |-> b.data[(lo + 1) + j - 1]]
      BY <1>1, <1>3
    <3>3. QED  BY <3>1, <3>2
  <2> HIDE DEF t
  <2>3. t \in [1..Len(s) -> Int]
    <3>1. \A j \in 1..Len(s) : b.data[lo + j] \in Int
      BY <1>1, <1>2, <1>4
    <3>2. QED  BY <3>1, <2>2
  <2>4. t \in Seq(Int)
    BY <2>3, <1>1, IsASeq, SMTT(30)
  <2>5. DOMAIN t = 1..Len(s)
    BY <2>3
  <2>6. Len(t) = Len(s)
    BY <2>4, <2>5, <1>1, LenProperties
  <2>7. QED  BY <2>2, <2>4, <2>6 DEF t
<1> DEFINE t == SubSeq(b.data, lo + 1, hi)
<1> HIDE DEF t
<1>6. t \in Seq(Int) /\ Len(t) = Len(s) /\ \A j \in 1..Len(s) : t[j] = s[j]
  BY <1>2, <1>5 DEF t
<1>7. t = s
  BY <1>6, SeqEqual
<1>8. QED  BY <1>7 DEF t

\* Bytes at the end of the buffer, and more of them behind.
LEMMA HasBytesExtends ==
    ASSUME NEW b \in SoundBuffers, NEW r, NEW lo \in Nat, NEW s \in Seq(Int), NEW t \in Seq(Int),
           HasBytes(b, lo, b.l, s), Extends(b, r, t), r.ok
    PROVE  HasBytes(r, lo, r.l, s \o t)
<1>1. b.l \in Nat /\ Len(s) \in Nat /\ Len(t) \in Nat /\ Len(s \o t) = Len(s) + Len(t)
  BY DEF SoundBuffers, Buffers
<1>2. b.l = lo + Len(s) /\ \A j \in 1..Len(s) : b.data[lo + j] = s[j]
  BY DEF HasBytes
<1>3. /\ r.l = b.l + Len(t) /\ \A j \in 1..b.l : r.data[j] = b.data[j]
      /\ \A j \in 1..Len(t) : r.data[b.l + j] = t[j]
  BY DEF Extends
<1>4. ASSUME NEW j \in 1..Len(s \o t) PROVE r.data[lo + j] = (s \o t)[j]
  <2>1. CASE j <= Len(s)
    <3>1. j \in 1..Len(s) /\ lo + j \in 1..b.l
      BY <2>1, <1>1, <1>2
    <3>2. (s \o t)[j] = s[j]
      BY <3>1, <1>1
    <3>3. QED  BY <3>1, <3>2, <1>2, <1>3
  <2>2. CASE j > Len(s)
    <3>1. j - Len(s) \in 1..Len(t) /\ lo + j = b.l + (j - Len(s))
      BY <2>2, <1>1, <1>2
    <3>2. (s \o t)[j] = t[j - Len(s)]
      BY <2>2, <1>1
    <3>3. QED  BY <3>1, <3>2, <1>3
  <2>3. QED  BY <2>1, <2>2, <1>1
<1>5. r.l = lo + Len(s \o t)
  BY <1>1, <1>2, <1>3
<1>6. QED  BY <1>4, <1>5 DEF HasBytes

\* One more element.
LEMMA PutFollows ==
    ASSUME NEW st \in States, Holds(st.b, st.top), NEW e \in Element
    PROVE  /\ Follows(st, Put(st, e))
           /\ Put(st, e).top = [st.top EXCEPT !.doc = Append(st.top.doc, e)]
<1> DEFINE q == Put(st, e)
           x == FlattenSeq(Pieces(e))
<1>1. st.b \in SoundBuffers /\ st.top \in Builders /\ st.top.doc \in Seq(Element) /\ st.top.off \in Nat
  BY DEF States, Builders
<1>2. x \in Seq(Int) /\ Pieces(e) \in Seq(Seq(Int))
  BY PiecesType, FlattenType
<1>3. q.b = appendPieces(st.b, Pieces(e)) /\ q.top = [st.top EXCEPT !.doc = Append(st.top.doc, e)]
      /\ q = [b |-> q.b, top |-> q.top]
  BY DEF Put, appendElement
<1>4. q.b \in SoundBuffers /\ Extends(st.b, q.b, x)
  BY <1>1, <1>2, <1>3, PiecesExtend
<1>5. Append(st.top.doc, e) \in Seq(Element)
  BY <1>1
<1>6. q.top \in Builders /\ q.top.doc = Append(st.top.doc, e) /\ q.top.off = st.top.off
      /\ q.top.type = st.top.type /\ q.top.name = st.top.name
  BY <1>1, <1>3, <1>5 DEF Builders
<1> HIDE DEF q, x
<1>7. q \in States
  BY <1>3, <1>4, <1>6 DEF States
<1>8. Bytes(q.top.doc) = Bytes(st.top.doc) \o x /\ Bytes(st.top.doc) \in Seq(Int)
  BY <1>1, <1>6, BytesAppend, BytesType DEF x
<1>9. ASSUME q.b.ok
      PROVE  /\ st.b.ok /\ st.b.l <= q.b.l
             /\ \A j \in 1..st.b.l : q.b.data[j] = st.b.data[j]
             /\ HasBytes(q.b, q.top.off + 4, q.b.l, Bytes(q.top.doc))
  <2>1. st.b.ok /\ q.b.l = st.b.l + Len(x) /\ \A j \in 1..st.b.l : q.b.data[j] = st.b.data[j]
    BY <1>4, <1>9 DEF Extends
  <2>2. st.b.l \in Nat /\ Len(x) \in Nat
    BY <1>1, <1>2 DEF SoundBuffers, Buffers
  <2>3. HasBytes(st.b, st.top.off + 4, st.b.l, Bytes(st.top.doc)) /\ st.top.off + 4 \in Nat
    BY <1>1, <2>1 DEF Holds
  <2>4. HasBytes(q.b, st.top.off + 4, q.b.l, Bytes(st.top.doc) \o x)
    BY <1>1, <1>2, <1>4, <1>8, <1>9, <2>3, HasBytesExtends
  <2>5. QED  BY <2>1, <2>2, <2>4, <1>6, <1>8
<1>10. QED  BY <1>3, <1>6, <1>7, <1>9 DEF Follows, Holds, q

\* Following twice.
LEMMA FollowsTwice ==
    ASSUME NEW st \in States, NEW q \in States, NEW r, Follows(st, q), Follows(q, r)
    PROVE  Follows(st, r)
<1>1. st.b.l \in Nat /\ q.b.l \in Nat /\ r.b.l \in Nat
  BY DEF States, SoundBuffers, Buffers, Follows
<1>2. r.b.ok => /\ st.b.ok /\ st.b.l <= r.b.l
                /\ \A j \in 1..st.b.l : r.b.data[j] = st.b.data[j]
  <2>1. SUFFICES ASSUME r.b.ok
                 PROVE  /\ st.b.ok /\ st.b.l <= r.b.l
                        /\ \A j \in 1..st.b.l : r.b.data[j] = st.b.data[j]
    OBVIOUS
  <2>2. q.b.ok /\ q.b.l <= r.b.l /\ \A j \in 1..q.b.l : r.b.data[j] = q.b.data[j]
    BY <2>1 DEF Follows
  <2>3. st.b.ok /\ st.b.l <= q.b.l /\ \A j \in 1..st.b.l : q.b.data[j] = st.b.data[j]
    BY <2>2 DEF Follows
  <2>4. \A j \in 1..st.b.l : j \in 1..q.b.l
    BY <2>3, <1>1
  <2>5. QED  BY <2>2, <2>3, <2>4, <1>1
<1>3. /\ q.top.off = st.top.off /\ q.top.type = st.top.type /\ q.top.name = st.top.name
  BY DEF Follows
<1>4. /\ r \in States /\ Holds(r.b, r.top)
      /\ r.top.off = q.top.off /\ r.top.type = q.top.type /\ r.top.name = q.top.name
  BY DEF Follows
<1>5. QED  BY <1>2, <1>3, <1>4 DEF Follows

\* The value stream and the index of a builder do not touch the bytes.
LEMMA FollowsOther ==
    ASSUME NEW st \in States, NEW q, Follows(st, q), NEW r \in States,
           r.b = q.b, r.top.off = q.top.off, r.top.type = q.top.type, r.top.name = q.top.name,
           r.top.doc = q.top.doc
    PROVE  Follows(st, r)
BY DEF Follows, Holds

\* Every state follows itself.
LEMMA FollowsItself ==
    ASSUME NEW st \in States, Holds(st.b, st.top)
    PROVE  Follows(st, st)
<1>1. st.b.l \in Nat
  BY DEF States, SoundBuffers, Buffers
<1>2. QED  BY <1>1 DEF Follows

\* The end of a field, with the sub-document of its label.
LEMMA EndFieldFollows ==
    ASSUME NEW st \in States, Holds(st.b, st.top), NEW nx \in SUBSET Seq(Int)
    PROVE  Follows(st, endField(st, nx))
<1> DEFINE has == st.top.field # {} /\ st.top.sub # {}
           f == CHOOSE f \in st.top.field : TRUE
           d == CHOOSE d \in st.top.sub : TRUE
           e == SubElt(Object, f, Encode(d))
           q == IF has THEN Put(st, e) ELSE st
           r == [q EXCEPT !.top = [q.top EXCEPT !.field = nx, !.sub = {}]]
<1>1. st.b \in SoundBuffers /\ st.top \in Builders
  BY DEF States
<1>2. endField(st, nx) = r
  BY DEF endField
<1>3. Follows(st, q)
  <2>1. CASE has
    <3>1. f \in Seq(Int) /\ d \in Seq(Element)
      BY <2>1, <1>1 DEF Builders
    <3>2. Encode(d) \in Seq(Int) /\ Object \in Int
      BY <3>1, BytesType DEF Object
    <3>3. e \in Element
      BY <3>1, <3>2, MadeElements
    <3> HIDE DEF e
    <3>4. QED  BY <2>1, <3>3, PutFollows
  <2>2. CASE ~has
    BY <2>2, FollowsItself
  <2>3. QED  BY <2>1, <2>2
<1> HIDE DEF q
<1>4. q \in States /\ q.top \in Builders /\ q.b \in SoundBuffers
  BY <1>3 DEF Follows, States
<1>5. r.b = q.b /\ r.top = [q.top EXCEPT !.field = nx, !.sub = {}] /\ r = [b |-> r.b, top |-> r.top]
  BY <1>4 DEF States
<1> HIDE DEF r
<1>6. r.top \in Builders /\ r.top.off = q.top.off /\ r.top.type = q.top.type
      /\ r.top.name = q.top.name /\ r.top.doc = q.top.doc
  BY <1>4, <1>5 DEF Builders
<1>7. r \in States
  BY <1>4, <1>5, <1>6 DEF States
<1>8. Follows(st, r)
  BY <1>3, <1>5, <1>6, <1>7, FollowsOther
<1>9. QED  BY <1>2, <1>8

\* done: the object from the builder's start on is the encoding of its document.
LEMMA DoneEncodes ==
    ASSUME NEW st \in States, Holds(st.b, st.top)
    PROVE  /\ _done(st) \in States
           /\ _done(st).top.off = st.top.off /\ _done(st).top.type = st.top.type
           /\ _done(st).top.name = st.top.name
           /\ _done(st).b.ok =>
                /\ st.b.ok
                /\ HasBytes(_done(st).b, st.top.off, _done(st).b.l, Encode(_done(st).top.doc))
                /\ \A j \in 1..st.top.off : _done(st).b.data[j] = st.b.data[j]
<1> DEFINE e == endField(st, {})
           b == append(e.b, <<EOO>>)
           w == Write(b, e.top.off, Int4(b.l - e.top.off))
           r == _done(st)
           y == Bytes(e.top.doc)
           off == e.top.off
<1>1. Follows(st, e)
  BY EndFieldFollows
<1> HIDE DEF e
<1>2. /\ e \in States /\ Holds(e.b, e.top) /\ off = st.top.off
      /\ e.top.type = st.top.type /\ e.top.name = st.top.name
  BY <1>1 DEF Follows
<1>3. e.b \in SoundBuffers /\ e.top \in Builders /\ off \in Nat /\ e.top.doc \in Seq(Element)
      /\ e.b.l \in Nat
  BY <1>2 DEF States, Builders, SoundBuffers, Buffers
<1>4. y \in Seq(Int) /\ Len(y) \in Nat
  BY <1>3, BytesType
<1>5. <<EOO>> \in Seq(Int) /\ Len(<<EOO>>) = 1
  BY DEF EOO
<1>6. b \in SoundBuffers /\ Extends(e.b, b, <<EOO>>)
  BY <1>3, <1>5, AppendExtends
<1>7. r = [e EXCEPT !.b = IF b.ok THEN w ELSE b]
  BY DEF _done, e
<1>8. r.b = (IF b.ok THEN w ELSE b) /\ r.top = e.top /\ r = [b |-> r.b, top |-> r.top]
  BY <1>2, <1>7 DEF States
<1> HIDE DEF r
<1>9. CASE ~b.ok
  <2>1. r.b = b
    BY <1>8, <1>9
  <2>2. r \in States
    BY <2>1, <1>3, <1>6, <1>8 DEF States
  <2>3. QED  BY <2>1, <2>2, <1>2, <1>8, <1>9 DEF r
<1>10. CASE b.ok
  <2>1. /\ e.b.ok /\ b.l = e.b.l + 1
        /\ \A j \in 1..e.b.l : b.data[j] = e.b.data[j]
    BY <1>6, <1>5, <1>10 DEF Extends
  <2>2. HasBytes(e.b, off + 4, e.b.l, y)
    BY <2>1, <1>2 DEF Holds
  <2>3. off + 4 \in Nat
    BY <1>3
  <2>4. HasBytes(b, off + 4, b.l, y \o <<EOO>>)
    BY <2>2, <2>3, <1>3, <1>4, <1>5, <1>6, <1>10, HasBytesExtends
  <2> DEFINE t == y \o <<EOO>>
             h == Int4(Len(y) + 5)
  <2>5. t \in Seq(Int) /\ Len(t) = Len(y) + 1
    BY <1>4, <1>5
  <2>6. h \in Seq(Int) /\ Len(h) = 4
    BY <1>4, Int4Type
  <2>7. b.l = off + 4 + Len(y) + 1 /\ b.l - off = Len(y) + 5
    <3>1. b.l = (off + 4) + Len(t)
      BY <2>4 DEF HasBytes
    <3> HIDE DEF t, b, y, off
    <3>2. QED  BY <3>1, <2>5, <1>3, <1>4
  <2>8. Int4(b.l - off) = h
    BY <2>7
  <2> HIDE DEF t, h, b, y, off
  <2>9. off + Len(h) <= b.l
    BY <2>6, <2>7, <1>3, <1>4
  <2>10. /\ Write(b, off, h) \in SoundBuffers /\ Write(b, off, h).ok /\ Write(b, off, h).l = b.l
         /\ \A i \in 1..b.l : Write(b, off, h).data[i] =
               IF off < i /\ i <= off + Len(h) THEN h[i - off] ELSE b.data[i]
    BY <2>6, <2>9, <1>3, <1>6, <1>10, WriteKeeps
  <2>11. r.b = Write(b, off, h)
    BY <1>8, <1>10, <2>8 DEF off
  <2>12. /\ r.b \in SoundBuffers /\ r.b.ok /\ r.b.l = b.l
         /\ \A i \in 1..b.l : r.b.data[i] = IF off < i /\ i <= off + 4 THEN h[i - off] ELSE b.data[i]
    BY <2>6, <2>10, <2>11
  <2>13. Encode(e.top.doc) = h \o t /\ Len(h \o t) = Len(y) + 5
    <3>1. Encode(e.top.doc) = (h \o y) \o <<EOO>>
      BY DEF Encode, h, y
    <3>2. (h \o y) \o <<EOO>> = h \o (y \o <<EOO>>)
      <4> DEFINE z == <<EOO>>
      <4>1. z \in Seq(Int)
        BY <1>5
      <4> HIDE DEF z
      <4>2. (h \o y) \o z = h \o (y \o z)
        BY <2>6, <1>4, <4>1, ConcatAssociative
      <4>3. QED  BY <4>2 DEF z
    <3>3. Len(h \o t) = Len(h) + Len(t)
      BY <2>5, <2>6, ConcatProperties
    <3>4. QED  BY <3>1, <3>2, <3>3, <2>5, <2>6, <1>4 DEF t
  <2>14. ASSUME NEW j \in 1..Len(y) + 5 PROVE r.b.data[off + j] = (h \o t)[j]
    <3>1. off + j \in 1..b.l /\ off < off + j /\ (off + j) - off = j /\ j \in Nat
      BY <2>7, <1>3, <1>4
    <3>2. CASE j <= 4
      <4>1. r.b.data[off + j] = h[j]
        BY <2>12, <3>1, <3>2, <1>3
      <4>2. (h \o t)[j] = h[j]
        <5>1. j \in 1..Len(h) + Len(t) /\ j <= Len(h)
          BY <2>5, <2>6, <3>2, <1>4
        <5>2. QED  BY <2>5, <2>6, <5>1, ConcatProperties
      <4>3. QED  BY <4>1, <4>2
    <3>3. CASE j > 4
      <4>1. r.b.data[off + j] = b.data[off + j]
        BY <2>12, <3>1, <3>3, <1>3
      <4>2. j - 4 \in 1..Len(t) /\ (off + 4) + (j - 4) = off + j
        BY <3>3, <2>5, <1>3, <1>4
      <4>3. b.data[off + j] = t[j - 4]
        <5>1. \A k \in 1..Len(t) : b.data[(off + 4) + k] = t[k]
          BY <2>4 DEF HasBytes, t
        <5>2. QED  BY <5>1, <4>2
      <4>4. (h \o t)[j] = t[j - 4]
        <5>1. j \in 1..Len(h) + Len(t) /\ ~(j <= Len(h))
          BY <2>5, <2>6, <3>3, <1>4
        <5>2. (h \o t)[j] = t[j - Len(h)]
          BY <2>5, <2>6, <5>1, ConcatProperties
        <5>3. QED  BY <5>2, <2>6
      <4>5. QED  BY <4>1, <4>3, <4>4
    <3>4. j <= 4 \/ j > 4
      BY <3>1
    <3>5. QED  BY <3>2, <3>3, <3>4
  <2>15. HasBytes(r.b, off, r.b.l, Encode(r.top.doc))
    <3>1. r.b.l = off + (Len(y) + 5)
      BY <2>7, <2>12, <1>3, <1>4
    <3>2. QED  BY <3>1, <2>13, <2>14, <1>8 DEF HasBytes
  <2>16. ASSUME NEW j \in 1..off PROVE r.b.data[j] = st.b.data[j]
    <3>1. j \in 1..b.l /\ j \in 1..e.b.l /\ ~(off < j)
      BY <2>1, <2>7, <1>3, <1>4
    <3>2. r.b.data[j] = e.b.data[j]
      BY <3>1, <2>1, <2>12 DEF b
    <3>3. st.b.l \in Nat /\ st.top.off + 4 <= st.b.l /\ \A k \in 1..st.b.l : e.b.data[k] = st.b.data[k]
      <4>1. st.b.ok /\ \A k \in 1..st.b.l : e.b.data[k] = st.b.data[k]
        BY <1>1, <2>1 DEF Follows
      <4>2. HasBytes(st.b, st.top.off + 4, st.b.l, Bytes(st.top.doc))
        BY <4>1 DEF Holds
      <4>3. st.top.doc \in Seq(Element) /\ st.b.l \in Nat
        BY DEF States, Builders, SoundBuffers, Buffers
      <4>4. Len(Bytes(st.top.doc)) \in Nat
        BY <4>3, BytesType
      <4>5. QED  BY <4>1, <4>2, <4>3, <4>4, <1>2, <1>3 DEF HasBytes
    <3>4. j \in 1..st.b.l
      BY <3>3, <1>2, <1>3
    <3>5. QED  BY <3>2, <3>3, <3>4
  <2>17. r \in States
    BY <2>12, <1>3, <1>8 DEF States
  <2>18. st.b.ok
    BY <1>1, <2>1 DEF Follows
  <2>19. r.top.off = st.top.off /\ r.top.type = st.top.type /\ r.top.name = st.top.name
    BY <1>2, <1>8 DEF off
  <2>20. \A j \in 1..st.top.off : r.b.data[j] = st.b.data[j]
    BY <2>16, <1>2
  <2>21. HasBytes(r.b, st.top.off, r.b.l, Encode(r.top.doc))
    BY <2>15, <1>2
  <2>22. QED  BY <2>17, <2>18, <2>19, <2>20, <2>21 DEF r
<1>11. b.ok \in BOOLEAN
  BY <1>6 DEF SoundBuffers, Buffers
<1>12. QED  BY <1>9, <1>10, <1>11

\* The next index.
LEMMA BumpFollows ==
    ASSUME NEW st \in States, NEW q, Follows(st, q)
    PROVE  Follows(st, [q EXCEPT !.top.i = q.top.i + 1])
<1> DEFINE r == [q EXCEPT !.top.i = q.top.i + 1]
<1>1. q \in States /\ q.top \in Builders /\ q.b \in SoundBuffers
  BY DEF Follows, States
<1>2. q.top.i + 1 \in Nat
  BY <1>1 DEF Builders
<1>3. r.b = q.b /\ r.top = [q.top EXCEPT !.i = q.top.i + 1] /\ r = [b |-> r.b, top |-> r.top]
  BY <1>1 DEF States
<1> HIDE DEF r
<1>4. r.top \in Builders /\ r.top.off = q.top.off /\ r.top.type = q.top.type
      /\ r.top.name = q.top.name /\ r.top.doc = q.top.doc
  BY <1>1, <1>2, <1>3 DEF Builders
<1>5. r \in States
  BY <1>1, <1>3, <1>4 DEF States
<1>6. Follows(st, r)
  BY <1>3, <1>4, <1>5, FollowsOther
<1>7. QED  BY <1>6 DEF r

\* Nulls up to a position.
LEMMA FillFollows ==
    ASSUME NEW st \in States, Holds(st.b, st.top), NEW upTo \in Nat
    PROVE  Follows(st, fill(st, upTo))
<1> DEFINE gap == IF upTo > st.top.i THEN upTo - st.top.i ELSE 0
           Null(x) == [Put(x, Elt(jstNULL, numStr(x.top.i))) EXCEPT !.top.i = @ + 1]
           Rec(f) == [k \in 0..gap |-> IF k = 0 THEN st ELSE Null(f[k-1])]
           m == CHOOSE f : f = Rec(f)
           A == {q \in States : Follows(st, q)}
           G == [p \in A \X Nat |-> Null(p[1])]
<1>1. fill(st, upTo) = m[gap]
  BY Zenon DEF fill
<1>2. gap \in Nat
  <2>1. st.top.i \in Nat
    BY DEF States, Builders
  <2>2. QED  BY <2>1
<1>3. st \in A
  BY FollowsItself
<1>4. ASSUME NEW q \in A PROVE Null(q) \in A
  <2>1. q \in States /\ Follows(st, q) /\ Holds(q.b, q.top) /\ q.top.i \in Nat
    BY DEF Follows, States, Builders
  <2> DEFINE e == Elt(jstNULL, numStr(q.top.i))
             p == Put(q, e)
  <2>2. e \in Element
    <3>1. numStr(q.top.i) \in Seq(Int) /\ jstNULL \in Int
      BY <2>1, NumStrType DEF jstNULL
    <3>2. QED  BY <3>1, MadeElements
  <2> HIDE DEF e
  <2>3. Follows(q, p)
    BY <2>1, <2>2, PutFollows
  <2> HIDE DEF p
  <2>4. Follows(q, [p EXCEPT !.top.i = p.top.i + 1])
    BY <2>1, <2>3, BumpFollows
  <2>5. Null(q) = [p EXCEPT !.top.i = p.top.i + 1]
    BY DEF p, e
  <2> HIDE DEF Null
  <2>6. Follows(st, Null(q))
    BY <2>1, <2>4, <2>5, FollowsTwice
  <2>7. Null(q) \in States
    BY <2>6 DEF Follows
  <2>8. QED  BY <2>6, <2>7
<1> HIDE DEF Null
<1>5. G \in [A \X Nat -> A]
  BY <1>4
<1> HIDE DEF A, G, gap
<1>6. PICK f \in [0 .. gap -> A] : Computes(f, st, G, gap)
  BY <1>2, <1>3, <1>5, Recursion
<1>7. ASSUME NEW k \in 0..gap PROVE f[k] = IF k = 0 THEN st ELSE Null(f[k-1])
  <2>1. CASE k = 0
    BY <2>1, <1>6 DEF Computes
  <2>2. CASE k # 0
    <3> DEFINE j == k - 1
    <3>1. j \in 0 .. gap - 1 /\ j \in Nat /\ j \in 0..gap /\ j + 1 = k
      BY <2>2, <1>2
    <3> HIDE DEF j
    <3>2. f[j + 1] = G[<<f[j], j>>] /\ f[j] \in A
      BY <3>1, <1>6 DEF Computes
    <3>3. <<f[j], j>> \in A \X Nat
      BY <3>1, <3>2
    <3>4. G[<<f[j], j>>] = Null(f[j])
      BY <3>3 DEF G
    <3>5. QED  BY <3>1, <3>2, <3>4, <2>2 DEF j
  <2>3. QED  BY <2>1, <2>2
<1>8. f = Rec(f)
  BY <1>7
<1>9. m = Rec(m)
  BY <1>8, Zenon
<1> HIDE DEF m
<1>10. \A k \in 0..gap : m[k] = IF k = 0 THEN st ELSE Null(m[k-1])
  <2> DEFINE r == Rec(m)
  <2>1. \A k \in 0..gap : r[k] = IF k = 0 THEN st ELSE Null(m[k-1])
    OBVIOUS
  <2>2. m = r
    BY <1>9
  <2> HIDE DEF r
  <2>3. QED  BY <2>1, <2>2
<1> DEFINE S == {k \in Nat : k <= gap => m[k] \in A}
<1>11. 0 \in S
  BY <1>2, <1>3, <1>10
<1>12. ASSUME NEW k \in Nat, k \in S PROVE k + 1 \in S
  <2>1. SUFFICES ASSUME k + 1 <= gap PROVE m[k + 1] \in A
    OBVIOUS
  <2>2. m[k] \in A /\ k + 1 \in 0..gap /\ k + 1 # 0 /\ (k + 1) - 1 = k
    BY <1>2, <1>12, <2>1
  <2>3. m[k + 1] = Null(m[k])
    BY <1>10, <2>2
  <2>4. QED  BY <2>2, <2>3, <1>4
<1> HIDE DEF S
<1>13. gap \in S
  BY <1>2, <1>11, <1>12, SetInduction
<1>14. m[gap] \in A
  BY <1>2, <1>13 DEF S
<1>15. QED  BY <1>1, <1>14 DEF A

-----------------------------------------------------------------------------
(***************************************************************************)
(* The inductive invariant: the buffer is sound, the innermost builder's   *)
(* bytes end the buffer, and those of every outer builder end, with the    *)
(* type and the name of the next one, where that one starts.               *)
(***************************************************************************)
Levels(b, s) ==
    /\ \A k, j \in 1..Len(s) : k <= j => s[k].off <= s[j].off
    /\ \A k \in 1..(Len(s) - 1) :
         HasBytes(b, s[k].off + 4, s[k+1].off,
                  Bytes(s[k].doc) \o (<<s[k+1].type>> \o Str(s[k+1].name)))

BuildersHold ==
    /\ bs \in Seq(Builders) /\ bs # <<>>
    /\ Holds(buf, bs[Len(bs)])
    /\ Levels(buf, bs)

BuildInv ==
    /\ buf \in SoundBuffers
    /\ phase = "build" /\ buf.ok => BuildersHold
    /\ ObjectIsExact

\* A change of the innermost builder leaves the outer ones' bytes.
LEMMA LevelsKept ==
    ASSUME NEW s \in Seq(Builders), s # <<>>, NEW b, NEW r, Levels(b, s),
           NEW top \in Builders, top.off = s[Len(s)].off, top.type = s[Len(s)].type,
           top.name = s[Len(s)].name,
           \A j \in 1..s[Len(s)].off : r.data[j] = b.data[j]
    PROVE  Levels(r, [s EXCEPT ![Len(s)] = top])
<1> DEFINE t == [s EXCEPT ![Len(s)] = top]
           N == Len(s)
<1>1. N \in Nat /\ N > 0 /\ \A k \in 1..N : s[k] \in Builders
  OBVIOUS
<1>2. \A k \in 1..N : s[k].off \in Nat /\ s[k].doc \in Seq(Element) /\ s[k].name \in Seq(Int)
      /\ s[k].type \in Int
  <2>1. \A x \in Builders : x.off \in Nat /\ x.doc \in Seq(Element) /\ x.name \in Seq(Int)
                            /\ x.type \in {Object, Array}
    BY DEF Builders
  <2>2. {Object, Array} \subseteq Int
    BY DEF Object, Array
  <2>3. QED  BY <1>1, <2>1, <2>2
<1>3. t \in Seq(Builders) /\ Len(t) = N /\ t[N] = top /\ \A k \in 1..N : k # N => t[k] = s[k]
  BY <1>1
<1> HIDE DEF t, N
<1>4. \A k \in 1..N : t[k].off = s[k].off /\ t[k].type = s[k].type /\ t[k].name = s[k].name
  BY <1>3 DEF N
<1>5. \A k, j \in 1..N : k <= j => t[k].off <= t[j].off
  <2>1. \A k, j \in 1..N : k <= j => s[k].off <= s[j].off
    BY DEF Levels, N
  <2>2. QED  BY <1>4, <2>1
<1>6. ASSUME NEW k \in 1..(N - 1)
      PROVE  HasBytes(r, t[k].off + 4, t[k+1].off,
                      Bytes(t[k].doc) \o (<<t[k+1].type>> \o Str(t[k+1].name)))
  <2> DEFINE x == Bytes(s[k].doc) \o (<<s[k+1].type>> \o Str(s[k+1].name))
  <2>1. k \in 1..N /\ k + 1 \in 1..N /\ k # N /\ t[k] = s[k] /\ k + 1 <= N /\ N \in 1..N
    BY <1>1, <1>3
  <2>2. HasBytes(b, s[k].off + 4, s[k+1].off, x)
    BY DEF Levels, N
  <2>3. s[k+1].off <= s[N].off /\ s[k].off \in Nat /\ s[N].off \in Nat /\ s[k+1].off \in Nat
    BY <1>2, <2>1 DEF Levels, N
  <2>4. x \in Seq(Int) /\ Len(x) \in Nat
    <3>1. Bytes(s[k].doc) \in Seq(Int)
      BY <1>2, <2>1, BytesType
    <3>2. <<s[k+1].type>> \in Seq(Int) /\ Str(s[k+1].name) \in Seq(Int)
      BY <1>2, <2>1, PartTypes
    <3>3. <<s[k+1].type>> \o Str(s[k+1].name) \in Seq(Int)
      BY <3>2, ConcatProperties
    <3>4. x \in Seq(Int)
      BY <3>1, <3>3, ConcatProperties
    <3> HIDE DEF x
    <3>5. QED  BY <3>4
  <2> HIDE DEF x
  <2>5. s[k+1].off = (s[k].off + 4) + Len(x) /\ \A j \in 1..Len(x) : b.data[(s[k].off + 4) + j] = x[j]
    BY <2>2 DEF HasBytes
  <2>6. ASSUME NEW j \in 1..Len(x) PROVE r.data[(s[k].off + 4) + j] = x[j]
    <3>1. (s[k].off + 4) + j \in 1..s[N].off
      <4>1. \A u, v, w, z \in Nat : u <= v /\ u = (w + 4) + z => \A i \in 1..z : (w + 4) + i \in 1..v
        OBVIOUS
      <4>2. QED  BY <4>1, <2>3, <2>4, <2>5
    <3>2. QED  BY <2>5, <3>1 DEF N
  <2>7. HasBytes(r, s[k].off + 4, s[k+1].off, x)
    BY <2>5, <2>6 DEF HasBytes
  <2>8. QED  BY <2>1, <2>7, <1>4 DEF x
<1>7. QED  BY <1>3, <1>5, <1>6 DEF Levels, t

\* A step of the innermost builder.
LEMMA TopSteps ==
    ASSUME BuildInv, Building, NEW q, Follows(Now, q), buf' = q.b, bs' = SetTop(q.top),
           img' = img, doc' = doc, phase' = phase
    PROVE  BuildInv'
<1> DEFINE N == Len(bs)
           top == bs[N]
<1>1. BuildersHold /\ buf \in SoundBuffers /\ buf.ok
  BY DEF BuildInv, Building
<1>2. bs \in Seq(Builders) /\ N \in Nat /\ N > 0 /\ top \in Builders
  BY <1>1 DEF BuildersHold
<1>3. Now = [b |-> buf, top |-> top] /\ Now.b = buf /\ Now.top = top
  BY DEF Now, Top, Last
<1>4. q.b \in SoundBuffers /\ q.top \in Builders /\ q.top.off = top.off /\ q.top.type = top.type
      /\ q.top.name = top.name /\ Holds(q.b, q.top)
  BY <1>3 DEF Follows, States
<1>5. bs' = [bs EXCEPT ![N] = q.top] /\ bs' \in Seq(Builders) /\ Len(bs') = N /\ bs'[N] = q.top
  BY <1>2, <1>4 DEF SetTop
<1>6. ASSUME q.b.ok PROVE BuildersHold'
  <2>1. buf.l <= q.b.l /\ \A j \in 1..buf.l : q.b.data[j] = buf.data[j]
    BY <1>6, <1>3 DEF Follows
  <2>2. top.off + 4 <= buf.l /\ top.off \in Nat /\ buf.l \in Nat
    <3>1. HasBytes(buf, top.off + 4, buf.l, Bytes(top.doc))
      BY <1>1 DEF BuildersHold, Holds
    <3>2. top.off \in Nat /\ top.doc \in Seq(Element) /\ buf.l \in Nat
      BY <1>1, <1>2 DEF Builders, SoundBuffers, Buffers
    <3>3. Len(Bytes(top.doc)) \in Nat
      BY <3>2, BytesType
    <3>4. QED  BY <3>1, <3>2, <3>3 DEF HasBytes
  <2>3. \A j \in 1..top.off : q.b.data[j] = buf.data[j]
    BY <2>1, <2>2
  <2>4. Levels(q.b, [bs EXCEPT ![N] = q.top])
    BY <1>1, <1>2, <1>4, <2>3, LevelsKept DEF BuildersHold
  <2>5. bs' # <<>>
    BY <1>2, <1>5
  <2>6. QED  BY <1>4, <1>5, <2>4, <2>5 DEF BuildersHold
<1>7. ObjectIsExact'
  BY DEF BuildInv, ObjectIsExact
<1>8. QED  BY <1>4, <1>6, <1>7 DEF BuildInv

-----------------------------------------------------------------------------
(***************************************************************************)
(* More about bytes in memory.                                             *)
(***************************************************************************)
\* Memory that is the same holds the same bytes.
LEMMA HasBytesSame ==
    ASSUME NEW b, NEW r, NEW lo \in Nat, NEW hi \in Nat, NEW s \in Seq(Int), NEW u \in Nat,
           HasBytes(b, lo, hi, s), hi <= u, \A j \in 1..u : r.data[j] = b.data[j]
    PROVE  HasBytes(r, lo, hi, s)
<1>1. hi = lo + Len(s) /\ Len(s) \in Nat /\ \A j \in 1..Len(s) : b.data[lo + j] = s[j]
  BY DEF HasBytes
<1>2. ASSUME NEW j \in 1..Len(s) PROVE r.data[lo + j] = s[j]
  <2>1. lo + j \in 1..u
    BY <1>1
  <2>2. QED  BY <1>1, <2>1
<1>3. QED  BY <1>1, <1>2 DEF HasBytes

\* Adjacent bytes.
LEMMA HasBytesJoin ==
    ASSUME NEW b, NEW lo \in Nat, NEW mid \in Nat, NEW hi \in Nat, NEW s \in Seq(Int), NEW t \in Seq(Int),
           HasBytes(b, lo, mid, s), HasBytes(b, mid, hi, t)
    PROVE  HasBytes(b, lo, hi, s \o t)
<1>1. mid = lo + Len(s) /\ \A j \in 1..Len(s) : b.data[lo + j] = s[j]
  BY DEF HasBytes
<1>2. hi = mid + Len(t) /\ \A j \in 1..Len(t) : b.data[mid + j] = t[j]
  BY DEF HasBytes
<1>3. Len(s) \in Nat /\ Len(t) \in Nat /\ Len(s \o t) = Len(s) + Len(t)
  OBVIOUS
<1>4. ASSUME NEW j \in 1..Len(s \o t) PROVE b.data[lo + j] = (s \o t)[j]
  <2>1. CASE j <= Len(s)
    <3>1. j \in 1..Len(s) /\ (s \o t)[j] = s[j]
      BY <2>1, <1>3
    <3>2. QED  BY <3>1, <1>1
  <2>2. CASE j > Len(s)
    <3>1. j - Len(s) \in 1..Len(t) /\ lo + j = mid + (j - Len(s))
      BY <2>2, <1>1, <1>3
    <3>2. (s \o t)[j] = t[j - Len(s)]
      BY <2>2, <1>3
    <3>3. QED  BY <3>1, <3>2, <1>2
  <2>3. QED  BY <2>1, <2>2, <1>3
<1>5. hi = lo + Len(s \o t)
  BY <1>1, <1>2, <1>3
<1>6. QED  BY <1>4, <1>5 DEF HasBytes

\* Between its size and its end an object has the bytes of its elements.
LEMMA EncodeSplit ==
    ASSUME NEW b, NEW off \in Nat, NEW hi \in Nat, NEW d \in Seq(Element), HasBytes(b, off, hi, Encode(d))
    PROVE  HasBytes(b, off + 4, hi - 1, Bytes(d)) /\ hi - 1 \in Nat
<1> DEFINE y == Bytes(d)
           h == Int4(Len(y) + 5)
           z == <<EOO>>
<1>1. y \in Seq(Int) /\ Len(y) \in Nat /\ Len(Encode(d)) = Len(y) + 5
  BY BytesType
<1>2. h \in Seq(Int) /\ Len(h) = 4
  BY <1>1, Int4Type
<1>3. z \in Seq(Int) /\ Len(z) = 1
  BY DEF EOO
<1>4. Encode(d) = (h \o y) \o z
  BY DEF Encode
<1> HIDE DEF y, h, z
<1>5. /\ h \o y \in Seq(Int) /\ Len(h \o y) = 4 + Len(y)
      /\ \A i \in 1..Len(h) + Len(y) : (h \o y)[i] = IF i <= Len(h) THEN h[i] ELSE y[i - Len(h)]
  <2>1. h \in Seq(Int) /\ y \in Seq(Int)
    BY <1>1, <1>2
  <2>2. /\ h \o y \in Seq(Int) /\ Len(h \o y) = Len(h) + Len(y)
        /\ \A i \in 1..Len(h) + Len(y) : (h \o y)[i] = IF i <= Len(h) THEN h[i] ELSE y[i - Len(h)]
    BY <2>1, ConcatProperties
  <2>3. QED  BY <2>2, <1>2
<1> DEFINE u == h \o y
<1>6. u \in Seq(Int) /\ Len(u) = 4 + Len(y) /\ \A i \in 5..4 + Len(y) : u[i] = y[i - 4]
  BY <1>1, <1>2, <1>5
<1> HIDE DEF u
<1>7. Encode(d) = u \o z
  BY <1>4 DEF u
<1>8. \A i \in 1..Len(u) + Len(z) : (u \o z)[i] = IF i <= Len(u) THEN u[i] ELSE z[i - Len(u)]
  BY <1>3, <1>6, ConcatProperties
<1>9. hi = off + (Len(y) + 5) /\ \A j \in 1..Len(y) + 5 : b.data[off + j] = Encode(d)[j]
  BY <1>1 DEF HasBytes
<1>10. ASSUME NEW j \in 1..Len(y) PROVE b.data[(off + 4) + j] = y[j]
  <2> DEFINE i == 4 + j
  <2>1. i \in 1..Len(y) + 5 /\ i \in 1..Len(u) + Len(z) /\ i <= Len(u) /\ i \in 5..4 + Len(y)
        /\ i - 4 = j /\ (off + 4) + j = off + i
    BY <1>1, <1>3, <1>6
  <2> HIDE DEF i
  <2>2. b.data[off + i] = (u \o z)[i]
    BY <2>1, <1>7, <1>9
  <2>3. (u \o z)[i] = u[i]
    BY <2>1, <1>8
  <2>4. u[i] = y[j]
    BY <2>1, <1>6
  <2>5. QED  BY <2>1, <2>2, <2>3, <2>4
<1>11. hi - 1 = (off + 4) + Len(y) /\ hi - 1 \in Nat
  BY <1>1, <1>9
<1>12. QED  BY <1>10, <1>11 DEF HasBytes, y

\* One more builder on top of the others.
LEMMA LevelsAppend ==
    ASSUME NEW s \in Seq(Builders), s # <<>>, NEW b, Levels(b, s),
           NEW x \in Builders, s[Len(s)].off <= x.off,
           HasBytes(b, s[Len(s)].off + 4, x.off, Bytes(s[Len(s)].doc) \o (<<x.type>> \o Str(x.name)))
    PROVE  Levels(b, Append(s, x))
<1> DEFINE t == Append(s, x)
           N == Len(s)
<1>1. N \in Nat /\ N > 0 /\ \A k \in 1..N : s[k].off \in Nat
  <2>1. \A z \in Builders : z.off \in Nat
    BY DEF Builders
  <2>2. \A k \in 1..N : s[k] \in Builders
    OBVIOUS
  <2>3. QED  BY <2>1, <2>2
<1>2. x.off \in Nat
  BY DEF Builders
<1>3. t \in Seq(Builders) /\ Len(t) = N + 1 /\ t[N + 1] = x /\ \A k \in 1..N : t[k] = s[k]
  BY AppendProperties
<1> HIDE DEF t, N
<1>4. \A k, j \in 1..N : k <= j => s[k].off <= s[j].off
  BY DEF Levels, N
<1>5. ASSUME NEW k \in 1..N + 1, NEW j \in 1..N + 1, k <= j PROVE t[k].off <= t[j].off
  <2>1. CASE j <= N
    <3>1. k \in 1..N /\ j \in 1..N
      BY <2>1, <1>1, <1>5
    <3>2. QED  BY <3>1, <1>3, <1>4, <1>5
  <2>2. CASE j = N + 1 /\ k <= N
    <3>1. k \in 1..N /\ N \in 1..N /\ k <= N
      BY <2>2, <1>1
    <3>2. s[k].off <= s[N].off /\ s[N].off <= x.off /\ s[k].off \in Nat /\ s[N].off \in Nat
      BY <3>1, <1>1, <1>4 DEF N
    <3>3. QED  BY <2>2, <3>1, <3>2, <1>2, <1>3
  <2>3. CASE j = N + 1 /\ k = N + 1
    BY <2>3, <1>2, <1>3
  <2>4. QED  BY <2>1, <2>2, <2>3, <1>1, <1>5
<1>6. ASSUME NEW k \in 1..((N + 1) - 1)
      PROVE  HasBytes(b, t[k].off + 4, t[k+1].off, Bytes(t[k].doc) \o (<<t[k+1].type>> \o Str(t[k+1].name)))
  <2>1. CASE k = N
    <3>1. t[k] = s[N] /\ t[k + 1] = x
      BY <2>1, <1>1, <1>3
    <3>2. QED  BY <3>1 DEF N
  <2>2. CASE k # N
    <3>1. k \in 1..(N - 1) /\ k \in 1..N /\ k + 1 \in 1..N
      BY <2>2, <1>1
    <3>2. t[k] = s[k] /\ t[k + 1] = s[k + 1]
      BY <3>1, <1>3
    <3>3. HasBytes(b, s[k].off + 4, s[k+1].off, Bytes(s[k].doc) \o (<<s[k+1].type>> \o Str(s[k+1].name)))
      BY <3>1 DEF Levels, N
    <3>4. QED  BY <3>2, <3>3
  <2>3. QED  BY <2>1, <2>2
<1>7. QED  BY <1>3, <1>5, <1>6 DEF Levels, t

\* Without the innermost builder the others are as they were.
LEMMA LevelsFront ==
    ASSUME NEW s \in Seq(Builders), NEW b, Levels(b, s), Len(s) > 1
    PROVE  /\ SubSeq(s, 1, Len(s) - 1) \in Seq(Builders)
           /\ Len(SubSeq(s, 1, Len(s) - 1)) = Len(s) - 1
           /\ \A k \in 1..(Len(s) - 1) : SubSeq(s, 1, Len(s) - 1)[k] = s[k]
           /\ Levels(b, SubSeq(s, 1, Len(s) - 1))
<1> DEFINE t == SubSeq(s, 1, Len(s) - 1)
           N == Len(s)
<1>1. N \in Nat /\ N - 1 \in Nat
  OBVIOUS
<1>2. t \in Seq(Builders) /\ Len(t) = N - 1 /\ \A k \in 1..(N - 1) : t[k] = s[k]
  <2>1. t = [k \in 1..(N - 1) |-> s[k]]
    OBVIOUS
  <2>2. \A k \in 1..(N - 1) : s[k] \in Builders
    OBVIOUS
  <2> HIDE DEF t, N
  <2>3. t \in [1..(N - 1) -> Builders]
    BY <2>1, <2>2
  <2>4. t \in Seq(Builders) /\ DOMAIN t = 1..(N - 1)
    BY <2>3, <1>1, IsASeq
  <2>5. Len(t) = N - 1
    BY <2>4, <1>1, LenProperties
  <2>6. QED  BY <2>1, <2>4, <2>5
<1> HIDE DEF t, N
<1>3. \A k, j \in 1..(N - 1) : k <= j => t[k].off <= t[j].off
  <2>1. \A k, j \in 1..N : k <= j => s[k].off <= s[j].off
    BY DEF Levels, N
  <2>2. \A k \in 1..(N - 1) : k \in 1..N
    BY <1>1
  <2>3. QED  BY <1>2, <2>1, <2>2
<1>4. ASSUME NEW k \in 1..((N - 1) - 1)
      PROVE  HasBytes(b, t[k].off + 4, t[k+1].off, Bytes(t[k].doc) \o (<<t[k+1].type>> \o Str(t[k+1].name)))
  <2>1. k \in 1..(N - 1) /\ k + 1 \in 1..(N - 1)
    BY <1>1
  <2>2. t[k] = s[k] /\ t[k + 1] = s[k + 1]
    BY <1>2, <2>1
  <2>3. HasBytes(b, s[k].off + 4, s[k+1].off, Bytes(s[k].doc) \o (<<s[k+1].type>> \o Str(s[k+1].name)))
    BY <2>1 DEF Levels, N
  <2>4. QED  BY <2>2, <2>3
<1>5. Levels(b, t)
  BY <1>2, <1>3, <1>4 DEF Levels
<1>6. QED  BY <1>2, <1>5 DEF t, N

-----------------------------------------------------------------------------
(***************************************************************************)
(* The steps.                                                              *)
(***************************************************************************)
\* What a build in progress gives.
LEMMA BuildingFacts ==
    ASSUME BuildInv, Building
    PROVE  /\ BuildersHold /\ buf \in SoundBuffers /\ buf.ok
           /\ Now \in States /\ Holds(Now.b, Now.top)
           /\ Now.b = buf /\ Now.top = bs[Len(bs)] /\ Top = bs[Len(bs)] /\ Top \in Builders
           /\ Len(bs) \in Nat /\ Len(bs) > 0
           /\ Top.off \in Nat /\ buf.l \in Nat /\ Top.off + 4 <= buf.l
<1>1. BuildersHold /\ buf \in SoundBuffers /\ buf.ok
  BY DEF BuildInv, Building
<1>2. bs \in Seq(Builders) /\ Len(bs) \in Nat /\ Len(bs) > 0 /\ bs[Len(bs)] \in Builders
  BY <1>1 DEF BuildersHold
<1>3. Top = bs[Len(bs)] /\ Now.b = buf /\ Now.top = Top /\ Now = [b |-> buf, top |-> Top]
  BY DEF Now, Top, Last
<1>4. Holds(Now.b, Now.top)
  BY <1>1, <1>3 DEF BuildersHold
<1>5. Now \in States
  BY <1>1, <1>2, <1>3 DEF States
<1>6. HasBytes(buf, Top.off + 4, buf.l, Bytes(Top.doc))
  BY <1>1, <1>3, <1>4 DEF Holds
<1>7. Top.off \in Nat /\ Top.doc \in Seq(Element) /\ buf.l \in Nat
  BY <1>1, <1>2, <1>3 DEF Builders, SoundBuffers, Buffers
<1>8. Len(Bytes(Top.doc)) \in Nat
  BY <1>7, BytesType
<1>9. Top.off + 4 <= buf.l
  BY <1>6, <1>7, <1>8 DEF HasBytes
<1>10. QED  BY <1>1, <1>2, <1>3, <1>4, <1>5, <1>7, <1>9

\* Steps that append to the innermost builder.
LEMMA AppendSteps ==
    ASSUME BuildInv, NEW e \in Elements
    PROVE  /\ AppendElement(e) => BuildInv'
           /\ \A pos \in Nat : ArrayAppend(e, pos) => BuildInv'
           /\ StreamValue(e) => BuildInv'
           /\ \A label \in Labels : StreamLabel(e, label) => BuildInv'
<1>1. e \in Element
  BY ElementAssumption
<1>2. ASSUME AppendElement(e) PROVE BuildInv'
  <2>1. Building /\ Become(Put(Now, e), 1)
    BY <1>2 DEF AppendElement
  <2>2. Follows(Now, Put(Now, e))
    BY <2>1, <1>1, BuildingFacts, PutFollows
  <2>3. QED  BY <2>1, <2>2, TopSteps DEF Become
<1>3. ASSUME NEW pos \in Nat, ArrayAppend(e, pos) PROVE BuildInv'
  <2> DEFINE st == fill(Now, pos)
             x == appendAs(e, numStr(st.top.i))
             p == Put(st, x)
             q == [p EXCEPT !.top.i = p.top.i + 1]
  <2>1. Building /\ Become(q, 1 + st.top.i - Top.i)
    BY <1>3 DEF ArrayAppend
  <2>2. Now \in States /\ Holds(Now.b, Now.top)
    BY <2>1, BuildingFacts
  <2>3. Follows(Now, st)
    BY <2>2, FillFollows
  <2> HIDE DEF st
  <2>4. st \in States /\ Holds(st.b, st.top) /\ st.top.i \in Nat
    BY <2>3 DEF Follows, States, Builders
  <2>5. x \in Element
    <3>1. numStr(st.top.i) \in Seq(Int)
      BY <2>4, NumStrType
    <3>2. QED  BY <3>1, <1>1, MadeElements
  <2> HIDE DEF x
  <2>6. Follows(st, p)
    BY <2>4, <2>5, PutFollows
  <2> HIDE DEF p
  <2>7. Follows(st, q)
    BY <2>4, <2>6, BumpFollows
  <2> HIDE DEF q
  <2>8. Follows(Now, q)
    BY <2>2, <2>3, <2>4, <2>7, FollowsTwice
  <2>9. QED  BY <2>1, <2>8, TopSteps DEF Become
<1>4. ASSUME StreamValue(e) PROVE BuildInv'
  <2> DEFINE f == CHOOSE f \in Top.field : TRUE
             x == appendAs(e, f)
             p == Put(Now, x)
             q == [p EXCEPT !.top.field = {}]
  <2>1. Building /\ Become(q, 1) /\ Top.field # {}
    BY <1>4 DEF StreamValue
  <2>2. Now \in States /\ Holds(Now.b, Now.top) /\ Top \in Builders
    BY <2>1, BuildingFacts
  <2>3. f \in Seq(Int)
    BY <2>1, <2>2 DEF Builders
  <2> HIDE DEF f
  <2>4. x \in Element
    BY <2>3, <1>1, MadeElements
  <2> HIDE DEF x
  <2>5. Follows(Now, p)
    BY <2>2, <2>4, PutFollows
  <2> HIDE DEF p
  <2>6. p \in States /\ p.top \in Builders /\ p.b \in SoundBuffers
    BY <2>5 DEF Follows, States
  <2>7. q.b = p.b /\ q.top = [p.top EXCEPT !.field = {}] /\ q = [b |-> q.b, top |-> q.top]
    BY <2>6 DEF States
  <2> HIDE DEF q
  <2>8. q.top \in Builders /\ q.top.off = p.top.off /\ q.top.type = p.top.type
        /\ q.top.name = p.top.name /\ q.top.doc = p.top.doc
    BY <2>6, <2>7 DEF Builders
  <2>9. q \in States
    BY <2>6, <2>7, <2>8 DEF States
  <2>10. Follows(Now, q)
    BY <2>2, <2>5, <2>7, <2>8, <2>9, FollowsOther
  <2>11. QED  BY <2>1, <2>10, TopSteps DEF Become
<1>5. ASSUME NEW label \in Labels, StreamLabel(e, label) PROVE BuildInv'
  <2> DEFINE d == IF Top.sub = {} THEN <<>> ELSE CHOOSE d \in Top.sub : TRUE
             x == Append(d, appendAs(e, label))
             q == [Now EXCEPT !.top.sub = {x}]
  <2>1. Building /\ Become(q, 1)
    BY <1>5 DEF StreamLabel
  <2>2. Now \in States /\ Holds(Now.b, Now.top) /\ Top \in Builders /\ Now.top = Top /\ Now.b = buf
        /\ buf \in SoundBuffers
    BY <2>1, BuildingFacts
  <2>3. d \in Seq(Element)
    <3>1. Top.sub \in SUBSET Seq(Element) /\ <<>> \in Seq(Element)
      BY <2>2 DEF Builders
    <3>2. QED  BY <3>1
  <2> HIDE DEF d
  <2>4. appendAs(e, label) \in Element
    BY <1>1, MadeElements, ElementAssumption
  <2>5. x \in Seq(Element)
    BY <2>3, <2>4
  <2> HIDE DEF x
  <2>6. q.b = buf /\ q.top = [Top EXCEPT !.sub = {x}] /\ q = [b |-> q.b, top |-> q.top]
    BY <2>2 DEF States, Now
  <2> HIDE DEF q
  <2>7. q.top \in Builders /\ q.top.off = Top.off /\ q.top.type = Top.type
        /\ q.top.name = Top.name /\ q.top.doc = Top.doc
    <3> DEFINE y == {x}
    <3>1. y \in SUBSET Seq(Element)
      BY <2>5
    <3>2. q.top = [Top EXCEPT !.sub = y]
      BY <2>6
    <3> HIDE DEF y
    <3>3. ASSUME NEW z \in Builders PROVE LET w == [z EXCEPT !.sub = y]
                   IN  w \in Builders /\ w.off = z.off /\ w.type = z.type /\ w.name = z.name /\ w.doc = z.doc
      BY <3>1 DEF Builders
    <3>4. QED  BY <2>2, <3>2, <3>3
  <2>8. q \in States
    BY <2>2, <2>6, <2>7 DEF States
  <2>9. Follows(Now, Now)
    BY <2>2, FollowsItself
  <2>10. q.b = Now.b /\ q.top.off = Now.top.off /\ q.top.type = Now.top.type
         /\ q.top.name = Now.top.name /\ q.top.doc = Now.top.doc
    BY <2>2, <2>6, <2>7
  <2>11. Follows(Now, q)
    BY <2>2, <2>8, <2>9, <2>10, FollowsOther
  <2>12. QED  BY <2>1, <2>11, TopSteps DEF Become
<1>6. QED  BY <1>2, <1>3, <1>4, <1>5

\* builder << "name".
LEMMA StreamNameStep ==
    ASSUME BuildInv, NEW nm \in Names, StreamName(nm)
    PROVE  BuildInv'
<1>1. Building /\ Become(endField(Now, {nm}), 0)
  BY DEF StreamName
<1>2. {nm} \in SUBSET Seq(Int)
  BY ElementAssumption
<1>3. Follows(Now, endField(Now, {nm}))
  BY <1>1, <1>2, BuildingFacts, EndFieldFollows
<1>4. QED  BY <1>1, <1>3, TopSteps DEF Become

\* A nested builder starts behind its type and its name.
LEMMA SubStartStep ==
    ASSUME BuildInv, NEW t \in {Object, Array}, NEW nm \in Names, SubStart(t, nm)
    PROVE  BuildInv'
<1> DEFINE name == IF Top.type = Array THEN numStr(Top.i) ELSE nm
           a == append(buf, <<t>>)
           b == append(a, Str(name))
           h == <<t>> \o Str(name)
           q == [Top EXCEPT !.i = Top.i + 1]
           s == SetTop(q)
           x == Builder(b.l, t, name)
           N == Len(bs)
<1>1. /\ Building /\ buf' = skip(b, 4) /\ img' = img /\ doc' = doc /\ phase' = phase
      /\ buf'.ok => bs' = Append(s, x)
  BY DEF SubStart
<1>2. /\ BuildersHold /\ buf \in SoundBuffers /\ buf.ok /\ Top = bs[N] /\ Top \in Builders
      /\ N \in Nat /\ N > 0 /\ Top.off \in Nat /\ buf.l \in Nat /\ Top.off + 4 <= buf.l
  BY <1>1, BuildingFacts
<1>3. name \in Seq(Int)
  <2>1. Top.i \in Nat /\ nm \in Seq(Int)
    BY <1>2, ElementAssumption DEF Builders
  <2>2. QED  BY <2>1, NumStrType
<1> HIDE DEF name
<1>4. <<t>> \in Seq(Int) /\ Str(name) \in Seq(Int)
  BY <1>3, PartTypes DEF Object, Array
<1>5. a \in SoundBuffers /\ Extends(buf, a, <<t>>)
  BY <1>2, <1>4, AppendExtends
<1> HIDE DEF a
<1>6. b \in SoundBuffers /\ Extends(a, b, Str(name))
  BY <1>4, <1>5, AppendExtends
<1> HIDE DEF b
<1>7. Extends(buf, b, h) /\ h \in Seq(Int)
  BY <1>2, <1>4, <1>5, <1>6, ExtendsTwice, ConcatProperties
<1> HIDE DEF h
<1>8. buf' \in SoundBuffers
  <2>1. b.ok \in BOOLEAN
    BY <1>6 DEF SoundBuffers, Buffers
  <2>2. QED  BY <1>1, <1>6, <2>1, GrowKeeps DEF skip
<1>9. ASSUME buf'.ok PROVE BuildersHold'
  <2>1. b.ok /\ buf' = grow(b, 4)
    BY <1>1, <1>9 DEF skip
  <2>2. buf'.l = b.l + 4 /\ \A j \in 1..b.l : buf'.data[j] = b.data[j]
    BY <2>1, <1>6, GrowKeeps
  <2>3. bs' = Append(s, x)
    BY <1>1, <1>9
  <2>4. b.l \in Nat /\ b.l = buf.l + Len(h) /\ Len(h) \in Nat /\ \A j \in 1..buf.l : b.data[j] = buf.data[j]
    BY <1>6, <1>7, <2>1 DEF Extends, SoundBuffers, Buffers
  <2>5. x \in Builders /\ x.off = b.l /\ x.type = t /\ x.name = name /\ x.doc = <<>>
    <3>1. <<>> \in Seq(Element) /\ {} \in SUBSET Seq(Int) /\ {} \in SUBSET Seq(Element) /\ 0 \in Nat
      OBVIOUS
    <3>2. QED  BY <3>1, <1>3, <2>4 DEF Builder, Builders
  <2> HIDE DEF x
  <2>6. q \in Builders /\ q.off = Top.off /\ q.type = Top.type /\ q.name = Top.name /\ q.doc = Top.doc
    <3>1. Top.i + 1 \in Nat
      BY <1>2 DEF Builders
    <3>2. QED  BY <1>2, <3>1 DEF Builders
  <2> HIDE DEF q
  <2>7. bs \in Seq(Builders) /\ bs # <<>> /\ Levels(buf, bs)
    BY <1>2 DEF BuildersHold
  <2>8. s = [bs EXCEPT ![N] = q] /\ s \in Seq(Builders) /\ Len(s) = N /\ s[N] = q
    BY <1>2, <2>6, <2>7 DEF SetTop
  <2>9. \A j \in 1..buf.l : buf'.data[j] = buf.data[j]
    <3>1. \A j \in 1..buf.l : j \in 1..b.l
      BY <1>2, <2>4
    <3>2. QED  BY <3>1, <2>2, <2>4
  <2>10. \A j \in 1..Top.off : buf'.data[j] = buf.data[j]
    BY <2>9, <1>2
  <2>11. Levels(buf', s)
    <3> DEFINE u == [bs EXCEPT ![Len(bs)] = q]
    <3>1. Top = bs[Len(bs)] /\ q.off = bs[Len(bs)].off /\ q.type = bs[Len(bs)].type /\ q.name = bs[Len(bs)].name
          /\ \A j \in 1..bs[Len(bs)].off : buf'.data[j] = buf.data[j]
      BY <1>2, <2>6, <2>10
    <3>2. Levels(buf', u)
      BY <3>1, <2>6, <2>7, LevelsKept
    <3>3. QED  BY <3>2, <2>8
  <2> HIDE DEF s
  <2>12. Top.doc \in Seq(Element) /\ Bytes(Top.doc) \in Seq(Int)
    BY <1>2, BytesType DEF Builders
  <2>13. HasBytes(buf, Top.off + 4, buf.l, Bytes(Top.doc)) /\ Top.off + 4 \in Nat
    BY <1>2 DEF BuildersHold, Holds
  <2>14. HasBytes(b, Top.off + 4, b.l, Bytes(Top.doc) \o h)
    BY <1>2, <1>7, <2>1, <2>12, <2>13, HasBytesExtends
  <2>15. HasBytes(buf', Top.off + 4, b.l, Bytes(Top.doc) \o h)
    <3>1. Bytes(Top.doc) \o h \in Seq(Int)
      BY <1>7, <2>12, ConcatProperties
    <3>2. b.l <= b.l
      BY <2>4
    <3>3. \A j \in 1..b.l : buf'.data[j] = b.data[j]
      BY <2>2, <2>4
    <3>4. b.l \in Nat /\ Top.off + 4 \in Nat
      BY <2>4, <2>13
    <3>5. QED  BY <3>1, <3>2, <3>3, <3>4, <2>14, HasBytesSame
  <2>16. Levels(buf', Append(s, x))
    <3>1. HasBytes(buf', s[Len(s)].off + 4, x.off, Bytes(s[Len(s)].doc) \o (<<x.type>> \o Str(x.name)))
      BY <2>5, <2>6, <2>8, <2>15 DEF h
    <3>2. s # <<>> /\ s[Len(s)].off <= x.off
      BY <1>2, <2>4, <2>5, <2>6, <2>8
    <3>3. QED  BY <3>1, <3>2, <2>5, <2>8, <2>11, LevelsAppend
  <2>17. Append(s, x) \in Seq(Builders) /\ Len(Append(s, x)) = N + 1 /\ Append(s, x)[N + 1] = x
    <3>1. s \in Seq(Builders) /\ x \in Builders /\ Len(s) = N
      BY <2>5, <2>8
    <3>2. Append(s, x) \in Seq(Builders) /\ Len(Append(s, x)) = Len(s) + 1 /\ Append(s, x)[Len(s) + 1] = x
      BY <3>1, AppendProperties
    <3>3. QED  BY <3>1, <3>2
  <2>18. Holds(buf', x)
    <3>1. Bytes(x.doc) = <<>> /\ Len(<<>>) = 0
      BY <2>5, BytesEmpty
    <3>2. buf'.l = (x.off + 4) + 0
      BY <2>2, <2>4, <2>5
    <3>3. QED  BY <3>1, <3>2 DEF Holds, HasBytes
  <2>19. Append(s, x) # <<>>
    BY <2>17, <1>2
  <2>20. QED  BY <2>3, <2>16, <2>17, <2>18, <2>19 DEF BuildersHold
<1>10. ObjectIsExact'
  BY <1>1 DEF BuildInv, ObjectIsExact
<1>11. QED  BY <1>1, <1>8, <1>9, <1>10 DEF BuildInv

\* A nested builder that is done leaves one more element to the outer one.
LEMMA SubDoneStep ==
    ASSUME BuildInv, SubDone
    PROVE  BuildInv'
<1> DEFINE st == _done(Now)
           m == Len(bs) - 1
           f == SubSeq(bs, 1, Len(bs) - 1)
           c == Encode(st.top.doc)
           e == SubElt(Top.type, Top.name, c)
           h == <<Top.type>> \o Str(Top.name)
           q == [bs[m] EXCEPT !.doc = Append(bs[m].doc, e)]
<1>1. /\ Building /\ Len(bs) > 1 /\ buf' = st.b /\ img' = img /\ doc' = doc /\ phase' = phase
      /\ bs' = [f EXCEPT ![m].doc = Append(@, e)]
  BY DEF SubDone
<1>2. /\ BuildersHold /\ buf \in SoundBuffers /\ buf.ok /\ Top = bs[Len(bs)] /\ Top \in Builders
      /\ Len(bs) \in Nat /\ Top.off \in Nat /\ Now.b = buf /\ Now.top = Top
      /\ Now \in States /\ Holds(Now.b, Now.top)
  BY <1>1, BuildingFacts
<1>3. /\ st \in States /\ st.top.off = Top.off
      /\ st.b.ok => /\ HasBytes(st.b, Top.off, st.b.l, c)
                    /\ \A j \in 1..Top.off : st.b.data[j] = buf.data[j]
  BY <1>2, DoneEncodes
<1> HIDE DEF st
<1>4. st.b \in SoundBuffers /\ st.b.l \in Nat /\ st.top.doc \in Seq(Element)
  BY <1>3 DEF States, Builders, SoundBuffers, Buffers
<1>5. c \in Seq(Int) /\ Top.type \in {Object, Array} /\ Top.name \in Seq(Int) /\ Top.type \in Int
  <2>1. Top.type \in {Object, Array} /\ Top.name \in Seq(Int)
    BY <1>2 DEF Builders
  <2>2. QED  BY <2>1, <1>4, BytesType DEF Object, Array
<1> HIDE DEF c
<1>6. e \in Element /\ FlattenSeq(Pieces(e)) = h \o c /\ h \in Seq(Int)
  <2>1. <<Top.type>> \in Seq(Int) /\ Str(Top.name) \in Seq(Int)
    BY <1>5, PartTypes
  <2>2. QED  BY <2>1, <1>5, MadeElements, SubBytes, ConcatProperties
<1> HIDE DEF e
<1>7. bs \in Seq(Builders) /\ Levels(buf, bs) /\ m \in Nat /\ m > 0 /\ m \in 1..(Len(bs) - 1) /\ m + 1 = Len(bs)
  BY <1>1, <1>2 DEF BuildersHold
<1>8. /\ f \in Seq(Builders) /\ Len(f) = m /\ f[m] = bs[m] /\ Levels(buf, f)
  BY <1>1, <1>7, LevelsFront
<1>9. bs[m] \in Builders /\ bs[m].off \in Nat /\ bs[m].doc \in Seq(Element) /\ bs[m].off <= Top.off
  <2>1. m \in 1..Len(bs) /\ Len(bs) \in 1..Len(bs) /\ m <= Len(bs)
    BY <1>7
  <2>2. bs[m] \in Builders
    BY <1>7, <2>1
  <2>3. bs[m].off <= Top.off
    BY <1>2, <1>7, <2>1 DEF Levels
  <2>4. QED  BY <2>2, <2>3 DEF Builders
<1>10. HasBytes(buf, bs[m].off + 4, Top.off, Bytes(bs[m].doc) \o h)
  <2>1. HasBytes(buf, bs[m].off + 4, bs[m+1].off, Bytes(bs[m].doc) \o (<<bs[m+1].type>> \o Str(bs[m+1].name)))
    BY <1>7 DEF Levels
  <2>2. QED  BY <2>1, <1>2, <1>7
<1> HIDE DEF h
<1>11. /\ q \in Builders /\ q.off = bs[m].off /\ q.type = bs[m].type /\ q.name = bs[m].name
       /\ q.doc = Append(bs[m].doc, e)
  <2>1. Append(bs[m].doc, e) \in Seq(Element)
    BY <1>6, <1>9
  <2>2. QED  BY <2>1, <1>9 DEF Builders
<1>12. /\ bs' = [f EXCEPT ![Len(f)] = q] /\ bs' \in Seq(Builders) /\ Len(bs') = Len(f) /\ bs'[Len(bs')] = q
       /\ bs' # <<>>
  <2>1. f[m].doc = bs[m].doc
    BY <1>8
  <2>2. bs' = [f EXCEPT ![m] = [f[m] EXCEPT !.doc = Append(f[m].doc, e)]]
    BY <1>1
  <2> HIDE DEF f, m
  <2>3. bs' = [f EXCEPT ![Len(f)] = q]
    BY <1>8, <2>2
  <2> HIDE DEF q
  <2>4. QED  BY <2>3, <1>7, <1>8, <1>11
<1> HIDE DEF q, f, m
<1>13. ASSUME st.b.ok PROVE BuildersHold'
  <2>1. \A j \in 1..Top.off : buf'.data[j] = buf.data[j]
    BY <1>1, <1>3, <1>13
  <2>2. Bytes(bs[m].doc) \in Seq(Int) /\ Bytes(bs[m].doc) \o h \in Seq(Int)
    <3>1. Bytes(bs[m].doc) \in Seq(Int)
      BY <1>9, BytesType
    <3>2. QED  BY <3>1, <1>6, ConcatProperties
  <2>3. HasBytes(buf', bs[m].off + 4, Top.off, Bytes(bs[m].doc) \o h)
    <3>1. bs[m].off + 4 \in Nat /\ Top.off \in Nat /\ Top.off <= Top.off
      BY <1>2, <1>9
    <3>2. QED  BY <3>1, <2>1, <2>2, <1>10, HasBytesSame
  <2>4. HasBytes(buf', Top.off, buf'.l, c) /\ buf'.l \in Nat
    BY <1>1, <1>3, <1>4, <1>13
  <2>5. HasBytes(buf', bs[m].off + 4, buf'.l, (Bytes(bs[m].doc) \o h) \o c)
    <3>1. bs[m].off + 4 \in Nat
      BY <1>9
    <3>2. QED  BY <3>1, <2>2, <2>3, <2>4, <1>2, <1>5, HasBytesJoin
  <2>6. (Bytes(bs[m].doc) \o h) \o c = Bytes(bs[m].doc) \o (h \o c)
    BY <2>2, <1>5, <1>6, ConcatAssociative, SMTT(30)
  <2>7. Bytes(q.doc) = Bytes(bs[m].doc) \o (h \o c)
    BY <1>6, <1>9, <1>11, BytesAppend
  <2>8. Holds(buf', q)
    BY <2>5, <2>6, <2>7, <1>11 DEF Holds
  <2>9. \A j \in 1..f[Len(f)].off : buf'.data[j] = buf.data[j]
    <3>1. f[Len(f)] = bs[m]
      BY <1>8
    <3>2. \A j \in 1..bs[m].off : j \in 1..Top.off
      BY <1>2, <1>9
    <3>3. QED  BY <3>1, <3>2, <2>1
  <2>10. f # <<>>
    BY <1>7, <1>8
  <2>11. Levels(buf', [f EXCEPT ![Len(f)] = q])
    BY <1>8, <1>11, <2>9, <2>10, LevelsKept
  <2>12. QED  BY <1>12, <2>8, <2>11 DEF BuildersHold
<1>14. ObjectIsExact'
  BY <1>1 DEF BuildInv, ObjectIsExact
<1>15. QED  BY <1>1, <1>4, <1>13, <1>14 DEF BuildInv

\* A temporary object is exact, and the build goes on where it was.
LEMMA AsTempObjStep ==
    ASSUME BuildInv, AsTempObj
    PROVE  BuildInv'
<1> DEFINE st == _done(Now)
           r == [st.b EXCEPT !.l = st.b.l - 1]
<1>1. /\ Building /\ phase' = phase
      /\ buf' = IF st.b.ok THEN r ELSE st.b
      /\ st.b.ok => bs' = SetTop(st.top) /\ img' = Object_(st.b, Top.off) /\ doc' = st.top.doc
      /\ ~st.b.ok => img' = img /\ doc' = doc
  BY DEF AsTempObj
<1>2. /\ BuildersHold /\ buf \in SoundBuffers /\ buf.ok /\ Top = bs[Len(bs)] /\ Top \in Builders
      /\ Len(bs) \in Nat /\ Len(bs) > 0 /\ Top.off \in Nat /\ Now.b = buf /\ Now.top = Top
      /\ Now \in States /\ Holds(Now.b, Now.top)
  BY <1>1, BuildingFacts
<1>3. /\ st \in States /\ st.top.off = Top.off /\ st.top.type = Top.type /\ st.top.name = Top.name
      /\ st.b.ok => /\ HasBytes(st.b, Top.off, st.b.l, Encode(st.top.doc))
                    /\ \A j \in 1..Top.off : st.b.data[j] = buf.data[j]
  BY <1>2, DoneEncodes
<1> HIDE DEF st
<1>4. /\ st.b \in SoundBuffers /\ st.b.l \in Nat /\ st.top \in Builders /\ st.top.doc \in Seq(Element)
      /\ st.b.ok \in BOOLEAN /\ st.b \in Buffers
  BY <1>3 DEF States, Builders, SoundBuffers, Buffers
<1>5. CASE ~st.b.ok
  <2>1. buf' = st.b
    BY <1>1, <1>5
  <2>2. ObjectIsExact'
    BY <1>1, <1>5 DEF BuildInv, ObjectIsExact
  <2>3. QED  BY <2>1, <2>2, <1>4, <1>5 DEF BuildInv
<1>6. CASE st.b.ok
  <2>1. HasBytes(st.b, Top.off + 4, st.b.l - 1, Bytes(st.top.doc)) /\ st.b.l - 1 \in Nat
    BY <1>2, <1>3, <1>4, <1>6, EncodeSplit
  <2>2. r \in Buffers /\ r.data = st.b.data /\ r.l = st.b.l - 1 /\ r.size = st.b.size /\ r.ok = st.b.ok
        /\ r.over = st.b.over
    BY <1>4, <2>1 DEF Buffers
  <2>3. buf' = r
    BY <1>1, <1>6
  <2> HIDE DEF r
  <2>4. r \in SoundBuffers
    <3>1. st.b.size \in Nat /\ st.b.l <= st.b.size /\ st.b.size > 0 /\ Len(st.b.data) = st.b.size /\ ~st.b.over
      BY <1>4, <1>6 DEF SoundBuffers, Buffers
    <3>2. r.l <= r.size
      BY <3>1, <2>2, <1>4
    <3>3. QED  BY <3>1, <3>2, <1>6, <2>2 DEF SoundBuffers
  <2>5. Holds(r, st.top)
    BY <2>1, <2>2, <1>3 DEF Holds, HasBytes
  <2>6. bs \in Seq(Builders) /\ bs # <<>> /\ Levels(buf, bs)
    BY <1>2 DEF BuildersHold
  <2>7. bs' = [bs EXCEPT ![Len(bs)] = st.top] /\ bs' \in Seq(Builders) /\ Len(bs') = Len(bs)
        /\ bs'[Len(bs')] = st.top /\ bs' # <<>>
    BY <1>1, <1>2, <1>4, <1>6, <2>6 DEF SetTop
  <2>8. Levels(r, [bs EXCEPT ![Len(bs)] = st.top])
    <3>1. \A j \in 1..bs[Len(bs)].off : r.data[j] = buf.data[j]
      BY <1>2, <1>3, <1>6, <2>2
    <3>2. st.top.off = bs[Len(bs)].off /\ st.top.type = bs[Len(bs)].type /\ st.top.name = bs[Len(bs)].name
      BY <1>2, <1>3
    <3>3. QED  BY <3>1, <3>2, <1>4, <2>6, LevelsKept
  <2>9. BuildersHold'
    BY <2>3, <2>5, <2>7, <2>8 DEF BuildersHold
  <2>10. img' = Encode(doc')
    <3>1. st.b.l <= st.b.size
      BY <1>4, <1>6 DEF SoundBuffers
    <3>2. Encode(st.top.doc) \in Seq(Int)
      BY <1>4, BytesType
    <3>3. SubSeq(st.b.data, Top.off + 1, st.b.l) = Encode(st.top.doc)
      BY <3>1, <3>2, <1>2, <1>3, <1>4, <1>6, HasBytesSubSeq
    <3>4. QED  BY <3>3, <1>1, <1>6 DEF Object_
  <2>11. ObjectIsExact'
    BY <2>10 DEF ObjectIsExact
  <2>12. QED  BY <2>3, <2>4, <2>9, <2>11 DEF BuildInv
<1>7. QED  BY <1>4, <1>5, <1>6

\* The finished object is exact.
LEMMA ObjStep ==
    ASSUME BuildInv, Obj
    PROVE  BuildInv'
<1> DEFINE st == _done(Now)
<1>1. /\ Building /\ buf' = st.b
      /\ st.b.ok => img' = Object_(st.b, Top.off) /\ doc' = st.top.doc /\ phase' = "built"
      /\ ~st.b.ok => img' = img /\ doc' = doc /\ phase' = phase
  BY DEF Obj
<1>2. Top.off \in Nat /\ Now \in States /\ Holds(Now.b, Now.top) /\ Now.top = Top
  BY <1>1, BuildingFacts
<1>3. /\ st \in States
      /\ st.b.ok => HasBytes(st.b, Top.off, st.b.l, Encode(st.top.doc))
  BY <1>2, DoneEncodes
<1> HIDE DEF st
<1>4. /\ st.b \in SoundBuffers /\ st.b.l \in Nat /\ st.top.doc \in Seq(Element) /\ st.b.ok \in BOOLEAN
  BY <1>3 DEF States, Builders, SoundBuffers, Buffers
<1>5. CASE ~st.b.ok
  <2>1. ObjectIsExact'
    BY <1>1, <1>5 DEF BuildInv, ObjectIsExact
  <2>2. QED  BY <2>1, <1>1, <1>4, <1>5 DEF BuildInv
<1>6. CASE st.b.ok
  <2>1. st.b.l <= st.b.size
    BY <1>4, <1>6 DEF SoundBuffers
  <2>2. Encode(st.top.doc) \in Seq(Int)
    BY <1>4, BytesType
  <2>3. SubSeq(st.b.data, Top.off + 1, st.b.l) = Encode(st.top.doc)
    BY <2>1, <2>2, <1>2, <1>3, <1>4, <1>6, HasBytesSubSeq
  <2>4. img' = Encode(doc')
    BY <2>3, <1>1, <1>6 DEF Object_
  <2>5. ObjectIsExact'
    BY <2>4 DEF ObjectIsExact
  <2>6. QED  BY <2>5, <1>1, <1>4, <1>6 DEF BuildInv
<1>7. QED  BY <1>4, <1>5, <1>6

\* A new builder: the reference count, and room for the size.
LEMMA BuildInvInit == Init => BuildInv
<1> SUFFICES ASSUME Init PROVE BuildInv
  OBVIOUS
<1> DEFINE z == NewBuffer(InitSize + 4)
           a == append(z, Int4(0))
           x == Builder(4, Object, <<>>)
<1>1. buf = skip(a, 4) /\ bs = <<x>> /\ img = <<>>
  BY DEF Init
<1>2. z \in SoundBuffers /\ z.l = 0 /\ z.ok
  <2> DEFINE k == InitSize + 4
             d == [i \in 1..k |-> Junk]
  <2>1. k \in Nat /\ k > 0
    BY BufferAssumption
  <2>2. z = [data |-> d, l |-> 0, size |-> k, ok |-> TRUE, over |-> FALSE]
    BY DEF NewBuffer
  <2> HIDE DEF k
  <2>3. d \in [1..k -> Int] /\ DOMAIN d = 1..k
    BY DEF Junk
  <2>4. d \in Seq(Int)
    BY <2>1, <2>3, IsASeq
  <2>5. Len(d) = k
    BY <2>1, <2>3, <2>4, LenProperties
  <2> HIDE DEF d, z
  <2>6. z \in Buffers /\ z.data = d /\ z.l = 0 /\ z.size = k /\ z.ok = TRUE /\ z.over = FALSE
    <3>1. z.data = d /\ z.l = 0 /\ z.size = k /\ z.ok = TRUE /\ z.over = FALSE
      BY <2>2
    <3>2. 0 \in Nat /\ TRUE \in BOOLEAN /\ FALSE \in BOOLEAN
      OBVIOUS
    <3>3. z \in Buffers
      BY <2>1, <2>2, <2>4, <3>2, Zenon DEF Buffers
    <3>4. QED  BY <3>1, <3>3
  <2>7. QED  BY <2>1, <2>5, <2>6 DEF SoundBuffers
<1> HIDE DEF z
<1>3. Int4(0) \in Seq(Int) /\ Len(Int4(0)) = 4
  BY Int4Type
<1>4. a \in SoundBuffers /\ Extends(z, a, Int4(0))
  BY <1>2, <1>3, AppendExtends
<1> HIDE DEF a
<1>5. buf \in SoundBuffers
  <2>1. a.ok \in BOOLEAN
    BY <1>4 DEF SoundBuffers, Buffers
  <2>2. QED  BY <1>1, <1>4, <2>1, GrowKeeps DEF skip
<1>6. ASSUME buf.ok PROVE BuildersHold
  <2>1. a.ok /\ buf = grow(a, 4)
    BY <1>1, <1>6 DEF skip
  <2>2. a.l = 4
    <3>1. a.l = z.l + Len(Int4(0))
      BY <1>4, <2>1 DEF Extends
    <3>2. QED  BY <3>1, <1>2, <1>3
  <2>3. buf.l = 8
    BY <1>4, <2>1, <2>2, GrowKeeps
  <2>4. x \in Builders /\ x.off = 4 /\ x.doc = <<>>
    <3>1. <<>> \in Seq(Element) /\ <<>> \in Seq(Int) /\ {} \in SUBSET Seq(Int) /\ {} \in SUBSET Seq(Element)
      OBVIOUS
    <3>2. QED  BY <3>1 DEF Builder, Builders
  <2> HIDE DEF x
  <2>5. bs \in Seq(Builders) /\ bs # <<>> /\ Len(bs) = 1 /\ bs[1] = x
    BY <1>1, <2>4
  <2>6. Holds(buf, x)
    <3>1. Bytes(x.doc) = <<>> /\ Len(<<>>) = 0
      BY <2>4, BytesEmpty
    <3>2. QED  BY <3>1, <2>3, <2>4 DEF Holds, HasBytes
  <2>7. Levels(buf, bs)
    BY <2>4, <2>5 DEF Levels
  <2>8. QED  BY <2>5, <2>6, <2>7 DEF BuildersHold
<1>7. ObjectIsExact
  BY <1>1 DEF ObjectIsExact
<1>8. QED  BY <1>5, <1>6, <1>7 DEF BuildInv

\* Every step keeps the invariant.
LEMMA BuildInvStep == BuildInv /\ [Next]_vars => BuildInv'
<1> SUFFICES ASSUME BuildInv, [Next]_vars PROVE BuildInv'
  OBVIOUS
<1>1. ASSUME NEW e \in Elements, AppendElement(e) PROVE BuildInv'
  BY <1>1, AppendSteps
<1>2. ASSUME NEW e \in Elements, NEW pos \in 0..MaxElements, ArrayAppend(e, pos) PROVE BuildInv'
  <2>1. pos \in Nat
    OBVIOUS
  <2>2. QED  BY <1>2, <2>1, AppendSteps
<1>3. ASSUME NEW e \in Elements, StreamValue(e) PROVE BuildInv'
  BY <1>3, AppendSteps
<1>4. ASSUME NEW e \in Elements, NEW label \in Labels, StreamLabel(e, label) PROVE BuildInv'
  BY <1>4, AppendSteps
<1>5. ASSUME NEW nm \in Names, NEW t \in {Object, Array}, SubStart(t, nm) PROVE BuildInv'
  BY <1>5, SubStartStep
<1>6. ASSUME NEW nm \in Names, StreamName(nm) PROVE BuildInv'
  BY <1>6, StreamNameStep
<1>7. CASE SubDone
  BY <1>7, SubDoneStep
<1>8. CASE AsTempObj
  BY <1>8, AsTempObjStep
<1>9. CASE Obj
  BY <1>9, ObjStep
<1>10. CASE Unwind
  <2>1. buf' = buf /\ img' = <<>> /\ phase' # "build"
    BY <1>10 DEF Unwind
  <2>2. QED  BY <2>1 DEF BuildInv, ObjectIsExact
<1>11. ASSUME NEW v \in Damage, NEW k \in DOMAIN img, DamageByte(k, v) PROVE BuildInv'
  <2>1. buf' = buf /\ phase' = "damaged"
    BY <1>11 DEF DamageByte
  <2>2. QED  BY <2>1 DEF BuildInv, ObjectIsExact
<1>12. CASE UNCHANGED vars
  BY <1>12 DEF vars, BuildInv, BuildersHold, ObjectIsExact
<1>13. QED
  BY <1>1, <1>2, <1>3, <1>4, <1>5, <1>6, <1>7, <1>8, <1>9, <1>10, <1>11, <1>12 DEF Next

-----------------------------------------------------------------------------
(***************************************************************************)
(* The theorems.                                                           *)
(***************************************************************************)

(***************************************************************************)
(* The bytes of every open BSONObjBuilder stay where they were put,        *)
(* whatever the _BufBuilder they share does, and an object handed out is   *)
(* the encoding of its document: the inductive invariant.                  *)
(***************************************************************************)
THEOREM BuildInvariant == Spec => []BuildInv
<1>1. QED  BY BuildInvInit, BuildInvStep, PTL DEF Spec

(***************************************************************************)
(* _BufBuilder never writes outside its memory, and one that has thrown at *)
(* BufferMaxSize throws on every later append, for every initial size,     *)
(* slack and limit, and every sequence of appends, nestings and temporary  *)
(* objects.                                                                *)
(***************************************************************************)
THEOREM BufferAlwaysSafe == Spec => []BufferIsSafe
<1>1. BuildInv => BufferIsSafe
  <2> SUFFICES ASSUME BuildInv PROVE BufferIsSafe
    OBVIOUS
  <2>1. buf \in SoundBuffers /\ ~buf.over
    BY DEF BuildInv, SoundBuffers
  <2>2. ASSUME ~buf.ok PROVE buf.l > buf.size
    BY <2>1, <2>2 DEF SoundBuffers, Stuck
  <2>3. ASSUME ~buf.ok, NEW by \in 1..BufferMaxSize PROVE ~grow(buf, by).ok
    <3>1. by \in Nat
      BY BufferAssumption
    <3>2. QED  BY <2>1, <2>3, <3>1, StuckThrows
  <2>4. QED  BY <2>1, <2>2, <2>3 DEF BufferIsSafe, WritesInside, FailedStaysFailed
<1>2. QED  BY <1>1, BuildInvariant, PTL

(***************************************************************************)
(* At every moment of a build the shared buffer holds, level by level, the *)
(* bytes of what was appended, and the object that obj or asTempObj hands  *)
(* out is the encoding of its document.                                    *)
(***************************************************************************)
THEOREM BytesAlwaysExact == Spec => []BuiltBytesAreExact
<1>1. BuildInv => BuiltBytesAreExact
  <2> SUFFICES ASSUME BuildInv PROVE BuiltBytesAreExact
    OBVIOUS
  <2>1. ObjectIsExact
    BY DEF BuildInv
  <2>2. ASSUME phase = "build", buf.ok, NEW k \in DOMAIN bs
        PROVE  LET inner == IF k = Len(bs) THEN <<>> ELSE <<bs[k + 1].type>> \o Str(bs[k + 1].name)
                   upto  == IF k = Len(bs) THEN buf.l ELSE bs[k + 1].off
               IN  SubSeq(buf.data, bs[k].off + 5, upto) = Bytes(bs[k].doc) \o inner
    <3> DEFINE N == Len(bs)
    <3>1. buf \in SoundBuffers /\ BuildersHold /\ buf.l \in Nat /\ buf.size \in Nat /\ buf.l <= buf.size
      BY <2>2 DEF BuildInv, SoundBuffers, Buffers
    <3>2. bs \in Seq(Builders) /\ Levels(buf, bs) /\ Holds(buf, bs[N]) /\ k \in 1..N /\ N \in Nat /\ N \in 1..N
      BY <3>1 DEF BuildersHold
    <3>3. bs[k] \in Builders /\ bs[k].off \in Nat /\ Bytes(bs[k].doc) \in Seq(Int)
      <4>1. bs[k] \in Builders
        BY <3>2
      <4>2. QED  BY <4>1, BytesType DEF Builders
    <3>4. bs[k].off + 4 \in Nat /\ bs[k].off + 5 = (bs[k].off + 4) + 1
      BY <3>3
    <3>5. CASE k = N
      <4>1. HasBytes(buf, bs[k].off + 4, buf.l, Bytes(bs[k].doc))
        BY <2>2, <3>2, <3>5 DEF Holds
      <4>2. SubSeq(buf.data, bs[k].off + 5, buf.l) = Bytes(bs[k].doc)
        BY <4>1, <3>1, <3>3, <3>4, HasBytesSubSeq
      <4>3. Bytes(bs[k].doc) \o <<>> = Bytes(bs[k].doc)
        BY <3>3, ConcatEmptySeq
      <4>4. QED  BY <4>2, <4>3, <3>5
    <3>6. CASE k # N
      <4> DEFINE h == <<bs[k+1].type>> \o Str(bs[k+1].name)
                 x == Bytes(bs[k].doc) \o h
      <4>1. k \in 1..(N - 1) /\ k + 1 \in 1..N /\ k + 1 <= N
        BY <3>2, <3>6
      <4>2. bs[k+1] \in Builders /\ bs[N] \in Builders
        BY <3>2, <4>1
      <4>3. /\ bs[k+1].off \in Nat /\ <<bs[k+1].type>> \in Seq(Int) /\ Str(bs[k+1].name) \in Seq(Int)
            /\ bs[N].off \in Nat /\ Bytes(bs[N].doc) \in Seq(Int)
        <5>1. \A z \in Builders : z.off \in Nat /\ z.type \in {Object, Array} /\ z.name \in Seq(Int)
                                  /\ z.doc \in Seq(Element)
          BY DEF Builders
        <5>2. {Object, Array} \subseteq Int
          BY DEF Object, Array
        <5>3. QED  BY <4>2, <5>1, <5>2, PartTypes, BytesType, SMTT(30)
      <4>4. h \in Seq(Int)
        BY <4>3, ConcatProperties
      <4>5. x \in Seq(Int)
        BY <4>4, <3>3, ConcatProperties
      <4>6. HasBytes(buf, bs[k].off + 4, bs[k+1].off, x)
        BY <3>2, <4>1 DEF Levels
      <4> HIDE DEF x, h
      <4>7. bs[k+1].off <= buf.size
        <5>1. bs[k+1].off <= bs[N].off
          BY <3>2, <4>1 DEF Levels
        <5>2. buf.l = (bs[N].off + 4) + Len(Bytes(bs[N].doc))
          BY <2>2, <3>2 DEF Holds, HasBytes
        <5>3. Len(Bytes(bs[N].doc)) \in Nat
          BY <4>3
        <5>4. QED  BY <5>1, <5>2, <5>3, <3>1, <4>3, SMTT(30)
      <4>8. SubSeq(buf.data, bs[k].off + 5, bs[k+1].off) = x
        BY <4>3, <4>5, <4>6, <4>7, <3>1, <3>4, HasBytesSubSeq
      <4>9. QED  BY <4>8, <3>6 DEF x, h
    <3>7. QED  BY <3>5, <3>6
  <2>3. BytesFollowBuilders
    BY <2>2 DEF BytesFollowBuilders
  <2>4. QED  BY <2>1, <2>3 DEF BuiltBytesAreExact
<1>2. QED  BY <1>1, BuildInvariant, PTL
=============================================================================
