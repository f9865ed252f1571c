--------------------------- MODULE NaturalFacts ---------------------------
(***************************************************************************)
(* Facts that the proofs share.  About natural numbers: the least element  *)
(* of a set, induction stated over a set, recursion stated over functions, *)
(* and division by a parameter; and what they give about FlattenSeq.  The  *)
(* induction theorems of the library take an operator; here a predicate is *)
(* a set and a step is a function, which the first-order provers can       *)
(* instantiate.                                                            *)
(***************************************************************************)
EXTENDS Integers, SequencesExt, SequenceTheorems, WellFoundedInduction, TLAPS

\* Every set of natural numbers has a least element.
LEMMA LeastNatural ==
    ASSUME NEW T, T \subseteq Nat, T # {}
    PROVE  \E x \in T : \A y \in T : x <= y
<1> DEFINE R == {p \in Nat \X Nat : p[1] < p[2]}
<1>1. IsWellFoundedOn(R, Nat)
  BY NatLessThanWellFounded, Zenon DEF OpToRel
<1>2. \A x, y \in Nat : <<y, x>> \in R <=> y < x
  OBVIOUS
<1> HIDE DEF R
<1>3. \E x \in T : \A y \in T : ~(<<y, x>> \in R)
  BY <1>1, WFMin
<1>4. PICK x \in T : \A y \in T : ~(<<y, x>> \in R)
  BY <1>3
<1>5. \A y \in T : ~(y < x)
  BY <1>2, <1>4
<1>6. x \in Nat /\ \A y \in T : y \in Nat
  OBVIOUS
<1>7. \A y \in T : x <= y
  BY <1>5, <1>6
<1>8. QED  BY <1>7

\* A set with zero and all successors of its members holds every natural number.
LEMMA SetInduction ==
    ASSUME NEW S, 0 \in S, \A n \in Nat : n \in S => n + 1 \in S
    PROVE  \A n \in Nat : n \in S
<1> DEFINE T == Nat \ S
<1> SUFFICES ASSUME T # {} PROVE FALSE
  OBVIOUS
<1>1. PICK x \in T : \A y \in T : x <= y
  BY LeastNatural
<1>2. x \in Nat /\ x # 0 /\ x - 1 \in Nat /\ (x - 1) + 1 = x
  OBVIOUS
<1>3. x - 1 \notin T
  BY <1>1, <1>2
<1>4. QED  BY <1>2, <1>3

\* f starts at c and goes on with G, up to N.
Computes(f, c, G, N) == f[0] = c /\ \A n \in 0 .. N - 1 : f[n + 1] = G[<<f[n], n>>]

\* Recursion: a first value and a step determine a sequence of values.
LEMMA Recursion ==
    ASSUME NEW D, NEW c \in D, NEW G \in [D \X Nat -> D], NEW N \in Nat
    PROVE  \E f \in [0 .. N -> D] : Computes(f, c, G, N)
<1> DEFINE Good(f, n) == f[0] = c /\ \A k \in 0 .. n - 1 : f[k + 1] = G[<<f[k], k>>]
           S == {n \in Nat : \E f \in [0 .. n -> D] : Good(f, n)}
<1>1. 0 \in S
  <2>1. [i \in 0 .. 0 |-> c] \in [0 .. 0 -> D] /\ Good([i \in 0 .. 0 |-> c], 0)
    OBVIOUS
  <2>2. QED  BY <2>1
<1>2. ASSUME NEW n \in Nat, n \in S PROVE n + 1 \in S
  <2>1. PICK f \in [0 .. n -> D] : Good(f, n)
    BY <1>2
  <2> DEFINE g == [i \in 0 .. n + 1 |-> IF i <= n THEN f[i] ELSE G[<<f[n], n>>]]
  <2>2. f[n] \in D /\ G[<<f[n], n>>] \in D
    OBVIOUS
  <2>3. g \in [0 .. n + 1 -> D]
    BY <2>2
  <2>4. g[0] = c
    BY <2>1
  <2>5. ASSUME NEW k \in 0 .. (n + 1) - 1 PROVE g[k + 1] = G[<<g[k], k>>]
    <3>1. CASE k < n
      <4>1. k \in 0 .. n - 1 /\ g[k] = f[k] /\ g[k + 1] = f[k + 1]
        BY <3>1
      <4>2. QED  BY <2>1, <4>1
    <3>2. CASE k = n
      <4>1. g[n] = f[n] /\ g[n + 1] = G[<<f[n], n>>]
        OBVIOUS
      <4>2. QED  BY <3>2, <4>1
    <3>3. k < n \/ k = n
      OBVIOUS
    <3>4. QED  BY <3>1, <3>2, <3>3
  <2> HIDE DEF g
  <2>6. Good(g, n + 1)
    BY <2>4, <2>5
  <2>7. QED  BY <2>3, <2>6
<1> HIDE DEF S
<1>3. N \in S
  BY <1>1, <1>2, SetInduction
<1>4. QED  BY <1>3 DEF S, Computes

\* Quotient and remainder.
LEMMA Division ==
    ASSUME NEW p \in Nat, NEW k \in Nat \ {0}
    PROVE  /\ p \div k \in Nat
           /\ p % k \in 0 .. k - 1
           /\ p = (p \div k) * k + (p % k)
<1>1. p % k = p - k * (p \div k)
  BY SMTT(20)
<1>2. p % k \in 0 .. k - 1 /\ p \div k \in Nat
  OBVIOUS
<1>3. ASSUME NEW q \in Nat PROVE k * q = q * k /\ q * k \in Nat
  OBVIOUS
<1>4. k * (p \div k) = (p \div k) * k /\ (p \div k) * k \in Nat
  BY <1>2, <1>3, Zenon
<1> DEFINE a == (p \div k) * k
<1> HIDE DEF a
<1>5. p % k = p - a /\ a \in Nat
  BY <1>1, <1>4 DEF a
<1>6. p = a + (p % k)
  BY <1>5
<1>7. QED  BY <1>2, <1>6 DEF a

\* They are unique.
LEMMA DivisionUnique ==
    ASSUME NEW q \in Nat, NEW k \in Nat \ {0}, NEW r \in 0 .. k - 1
    PROVE  (q * k + r) \div k = q /\ (q * k + r) % k = r
OBVIOUS

\* Multiplication by a positive number is strictly monotonic.
LEMMA ProductLess ==
    ASSUME NEW q \in Nat, NEW n \in Nat, NEW k \in Nat \ {0}
    PROVE  /\ q * k < n * k => q < n
           /\ q <= n => q * k <= n * k
           /\ q * k = n * k => q = n
<1>1. ASSUME NEW a \in Nat, NEW d \in Nat PROVE (a + d) * k = a * k + d * k /\ d * k \in Nat
  OBVIOUS
<1>2. q <= n => \E d \in Nat : n = q + d
  <2>1. q <= n => n - q \in Nat /\ n = q + (n - q)
    OBVIOUS
  <2>2. QED  BY <2>1
<1>3. n <= q => \E d \in Nat : q = n + d
  <2>1. n <= q => q - n \in Nat /\ q = n + (q - n)
    OBVIOUS
  <2>2. QED  BY <2>1
<1>4. q * k < n * k => q < n
  BY <1>1, <1>3
<1>5. q <= n => q * k <= n * k
  BY <1>1, <1>2
<1>6. q * k = n * k => q = n
  <2>1. ASSUME q * k = n * k, q < n PROVE FALSE
    <3>1. PICK d \in Nat : n = q + d /\ d > 0
      <4>1. n - q \in Nat /\ n = q + (n - q) /\ n - q > 0
        BY <2>1
      <4>2. QED  BY <4>1
    <3>2. n * k = q * k + d * k /\ d * k > 0
      BY <3>1, <1>1
    <3>3. QED  BY <2>1, <3>2
  <2>2. ASSUME q * k = n * k, n < q PROVE FALSE
    <3>1. PICK d \in Nat : q = n + d /\ d > 0
      <4>1. q - n \in Nat /\ q = n + (q - n) /\ q - n > 0
        BY <2>2
      <4>2. QED  BY <4>1
    <3>2. q * k = n * k + d * k /\ d * k > 0
      BY <3>1, <1>1
    <3>3. QED  BY <2>2, <3>2
  <2>3. QED  BY <2>1, <2>2
<1>7. QED  BY <1>4, <1>5, <1>6

\* The quotient of a number below a multiple.
LEMMA QuotientLess ==
    ASSUME NEW p \in Nat, NEW k \in Nat \ {0}, NEW n \in Nat, p < n * k
    PROVE  p \div k \in 0 .. n - 1
<1>1. p \div k \in Nat /\ (p \div k) * k <= p
  BY Division
<1>2. (p \div k) * k < n * k
  BY <1>1
<1>3. p \div k < n
  BY <1>1, <1>2, ProductLess
<1>4. QED  BY <1>1, <1>3

-----------------------------------------------------------------------------
(***************************************************************************)
(* FlattenSeq, one sequence at a time.                                     *)
(***************************************************************************)
Flattens(f, seqs) ==
    f = [i \in 1..Len(seqs) |-> IF i = 1 THEN seqs[i] ELSE f[i-1] \o seqs[i]]

\* The recursive function inside FlattenSeq exists.
LEMMA FlattenDefined ==
    ASSUME NEW D, NEW seqs \in Seq(Seq(D)), seqs # <<>>
    PROVE  \E f : /\ Flattens(f, seqs)
                  /\ FlattenSeq(seqs) = f[Len(seqs)]
                  /\ f \in [1..Len(seqs) -> Seq(D)]
<1> DEFINE N == Len(seqs)
           A == Seq(D)
           G == [p \in A \X Nat |-> IF p[2] + 2 <= N THEN p[1] \o seqs[p[2] + 2] ELSE p[1]]
           m == CHOOSE f : Flattens(f, seqs)
<1>1. N \in Nat /\ N > 0 /\ seqs[1] \in A /\ \A i \in 1..N : seqs[i] \in A
  OBVIOUS
<1>2. ASSUME NEW a \in A, NEW b \in A PROVE a \o b \in A
  OBVIOUS
<1>3. G \in [A \X Nat -> A]
  <2>1. ASSUME NEW p \in A \X Nat
        PROVE  (IF p[2] + 2 <= N THEN p[1] \o seqs[p[2] + 2] ELSE p[1]) \in A
    <3>1. p[1] \in A /\ p[2] \in Nat
      OBVIOUS
    <3>2. p[2] + 2 <= N => seqs[p[2] + 2] \in A
      BY <3>1, <1>1
    <3>3. QED  BY <3>1, <3>2, <1>2
  <2>2. QED  BY <2>1
<1> HIDE DEF A
<1>4. PICK g \in [0 .. N - 1 -> A] : Computes(g, seqs[1], G, N - 1)
  <2>1. N - 1 \in Nat
    BY <1>1
  <2> DEFINE M == N - 1
  <2> HIDE DEF M, G
  <2>2. \E g \in [0 .. M -> A] : Computes(g, seqs[1], G, M)
    BY <1>1, <1>3, <2>1, Recursion DEF M
  <2>3. QED  BY <2>2 DEF M
<1> DEFINE f == [i \in 1..N |-> g[i - 1]]
<1>5. f \in [1..N -> A]
  BY <1>1
<1>6. ASSUME NEW i \in 1..N PROVE f[i] = IF i = 1 THEN seqs[i] ELSE f[i-1] \o seqs[i]
  <2>1. CASE i = 1
    BY <2>1, <1>1, <1>4 DEF Computes
  <2>2. CASE i # 1
    <3>1. i - 2 \in 0 .. (N - 1) - 1 /\ i - 2 \in Nat /\ (i - 2) + 1 = i - 1 /\ (i - 2) + 2 = i /\ i - 1 \in 1..N
      BY <2>2, <1>1
    <3>2. g[i - 1] = G[<<g[i - 2], i - 2>>]
      BY <3>1, <1>4 DEF Computes
    <3>3. g[i - 2] \in A
      <4>1. i - 2 \in 0 .. N - 1
        BY <3>1, <1>1
      <4>2. QED  BY <4>1, <1>4
    <3>4. G[<<g[i - 2], i - 2>>] = g[i - 2] \o seqs[i]
      <4> DEFINE a == g[i - 2]
                 j == i - 2
      <4>1. a \in A /\ j \in Nat /\ j + 2 = i /\ i <= N
        BY <3>1, <3>3, <1>1
      <4> HIDE DEF a, j
      <4>2. <<a, j>> \in A \X Nat
        BY <4>1
      <4>3. G[<<a, j>>] = a \o seqs[j + 2]
        BY <4>1, <4>2
      <4>4. QED  BY <4>1, <4>3 DEF a, j
    <3>5. f[i] = g[i - 1] /\ f[i - 1] = g[i - 2]
      BY <3>1
    <3>6. QED  BY <3>2, <3>4, <3>5, <2>2
  <2>3. QED  BY <2>1, <2>2
<1>7. f = [i \in 1..N |-> IF i = 1 THEN seqs[i] ELSE f[i-1] \o seqs[i]]
  BY <1>6
<1> HIDE DEF f
<1>8. Flattens(f, seqs)
  BY <1>7 DEF Flattens
<1>9. Flattens(m, seqs)
  BY <1>8, Zenon
<1>10. FlattenSeq(seqs) = m[N]
  <2>1. Len(seqs) # 0
    BY <1>1
  <2>2. QED  BY <2>1, Zenon DEF FlattenSeq, Flattens
<1> DEFINE S == {k \in Nat : k + 1 <= N => m[k + 1] \in A}
<1> HIDE DEF m
<1>11. \A i \in 1..N : m[i] = IF i = 1 THEN seqs[i] ELSE m[i-1] \o seqs[i]
  <2>1. m = [i \in 1..N |-> IF i = 1 THEN seqs[i] ELSE m[i-1] \o seqs[i]]
    BY <1>9 DEF Flattens
  <2> DEFINE r == [i \in 1..N |-> IF i = 1 THEN seqs[i] ELSE m[i-1] \o seqs[i]]
  <2>2. \A i \in 1..N : r[i] = IF i = 1 THEN seqs[i] ELSE m[i-1] \o seqs[i]
    OBVIOUS
  <2>3. m = r
    BY <2>1
  <2> HIDE DEF r
  <2>4. QED  BY <2>2, <2>3
<1>12. 0 \in S
  BY <1>1, <1>11
<1>13. ASSUME NEW k \in Nat, k \in S PROVE k + 1 \in S
  <2>1. SUFFICES ASSUME (k + 1) + 1 <= N PROVE m[(k + 1) + 1] \in A
    OBVIOUS
  <2>2. m[k + 1] \in A
    BY <1>13, <2>1, <1>1
  <2>3. (k + 1) + 1 \in 1..N /\ (k + 1) + 1 # 1 /\ ((k + 1) + 1) - 1 = k + 1
    BY <2>1, <1>1
  <2>4. m[(k + 1) + 1] = m[k + 1] \o seqs[(k + 1) + 1]
    BY <1>11, <2>3
  <2>5. QED  BY <2>2, <2>3, <2>4, <1>1, <1>2
<1> HIDE DEF S
<1>14. \A k \in Nat : k \in S
  BY <1>12, <1>13, SetInduction
<1>15. \A i \in 1..N : m[i] \in A
  <2>1. ASSUME NEW i \in 1..N PROVE m[i] \in A
    <3>1. i - 1 \in Nat /\ (i - 1) + 1 = i /\ i <= N
      BY <1>1
    <3>2. QED  BY <3>1, <1>14 DEF S
  <2>2. QED  BY <2>1
<1>16. m \in [1..N -> A]
  <2>1. DOMAIN m = 1..N /\ m = [i \in DOMAIN m |-> m[i]]
    BY <1>9, Zenon DEF Flattens
  <2>2. QED  BY <2>1, <1>15
<1>17. QED  BY <1>9, <1>10, <1>16 DEF A

\* Flattening gives a sequence.
LEMMA FlattenType ==
    ASSUME NEW D, NEW seqs \in Seq(Seq(D))
    PROVE  FlattenSeq(seqs) \in Seq(D)
<1>1. CASE seqs = <<>>
  <2>1. Len(seqs) = 0
    BY <1>1
  <2>2. QED  BY <2>1, <1>1 DEF FlattenSeq
<1>2. CASE seqs # <<>>
  <2>1. PICK f : FlattenSeq(seqs) = f[Len(seqs)] /\ f \in [1..Len(seqs) -> Seq(D)]
    BY <1>2, FlattenDefined
  <2>2. Len(seqs) \in 1..Len(seqs)
    BY <1>2
  <2>3. QED  BY <2>1, <2>2
<1>3. QED  BY <1>1, <1>2

\* One more sequence is put at the end.
LEMMA FlattenAppend ==
    ASSUME NEW D, NEW seqs \in Seq(Seq(D)), NEW x \in Seq(D)
    PROVE  FlattenSeq(Append(seqs, x)) = FlattenSeq(seqs) \o x
<1> DEFINE N == Len(seqs)
           t == Append(seqs, x)
<1>1. t \in Seq(Seq(D)) /\ t # <<>> /\ Len(t) = N + 1 /\ t[N + 1] = x /\ N \in Nat
  BY AppendProperties
<1>2. \A i \in 1..N : t[i] = seqs[i]
  OBVIOUS
<1> HIDE DEF t
<1>3. PICK g : Flattens(g, t) /\ FlattenSeq(t) = g[N + 1] /\ g \in [1..N + 1 -> Seq(D)]
  BY <1>1, FlattenDefined
<1>4. \A i \in 1..N + 1 : g[i] = IF i = 1 THEN t[i] ELSE g[i-1] \o t[i]
  <2> DEFINE r == [i \in 1..N + 1 |-> IF i = 1 THEN t[i] ELSE g[i-1] \o t[i]]
  <2>1. \A i \in 1..N + 1 : r[i] = IF i = 1 THEN t[i] ELSE g[i-1] \o t[i]
    OBVIOUS
  <2>2. g = r
    BY <1>3, <1>1 DEF Flattens
  <2> HIDE DEF r
  <2>3. QED  BY <2>1, <2>2
<1>5. CASE seqs = <<>>
  <2>1. N = 0 /\ FlattenSeq(seqs) = <<>>
    <3>1. Len(seqs) = 0
      BY <1>5
    <3>2. QED  BY <3>1, <1>5 DEF FlattenSeq
  <2>2. g[1] = x
    BY <1>1, <1>4, <2>1
  <2>3. QED  BY <2>1, <2>2, <1>3 DEF t
<1>6. CASE seqs # <<>>
  <2>1. N \in 1..N + 1 /\ N > 0 /\ N + 1 \in 1..N + 1 /\ N + 1 # 1 /\ (N + 1) - 1 = N
    BY <1>6
  <2>2. PICK f : Flattens(f, seqs) /\ FlattenSeq(seqs) = f[N] /\ f \in [1..N -> Seq(D)]
    BY <1>6, FlattenDefined
  <2>3. \A i \in 1..N : f[i] = IF i = 1 THEN seqs[i] ELSE f[i-1] \o seqs[i]
    <3> DEFINE r == [i \in 1..N |-> IF i = 1 THEN seqs[i] ELSE f[i-1] \o seqs[i]]
    <3>1. \A i \in 1..N : r[i] = IF i = 1 THEN seqs[i] ELSE f[i-1] \o seqs[i]
      OBVIOUS
    <3>2. f = r
      BY <2>2 DEF Flattens
    <3> HIDE DEF r
    <3>3. QED  BY <3>1, <3>2
  <2> DEFINE S == {k \in Nat : k + 1 <= N => g[k + 1] = f[k + 1]}
  <2>4. 0 \in S
    <3>1. 1 \in 1..N /\ 1 \in 1..N + 1
      BY <2>1
    <3>2. g[1] = t[1] /\ f[1] = seqs[1] /\ t[1] = seqs[1]
      BY <3>1, <2>3, <1>2, <1>4
    <3>3. QED  BY <3>2
  <2>5. ASSUME NEW k \in Nat, k \in S PROVE k + 1 \in S
    <3>1. SUFFICES ASSUME (k + 1) + 1 <= N PROVE g[(k + 1) + 1] = f[(k + 1) + 1]
      OBVIOUS
    <3>2. g[k + 1] = f[k + 1]
      BY <2>5, <3>1, <2>1
    <3>3. (k + 1) + 1 \in 1..N /\ (k + 1) + 1 \in 1..N + 1 /\ (k + 1) + 1 # 1 /\ ((k + 1) + 1) - 1 = k + 1
      BY <2>1, <3>1
    <3>4. f[(k + 1) + 1] = f[k + 1] \o seqs[(k + 1) + 1]
      BY <3>3, <2>3
    <3>5. g[(k + 1) + 1] = g[k + 1] \o t[(k + 1) + 1]
      BY <3>3, <1>4
    <3>6. t[(k + 1) + 1] = seqs[(k + 1) + 1]
      BY <3>3, <1>2
    <3>7. QED  BY <3>2, <3>4, <3>5, <3>6
  <2> HIDE DEF S
  <2>6. N - 1 \in S
    <3>1. \A k \in Nat : k \in S
      BY <2>4, <2>5, SetInduction
    <3>2. N - 1 \in Nat
      BY <2>1
    <3>3. QED  BY <3>1, <3>2
  <2>7. g[N] = f[N]
    BY <2>6, <2>1 DEF S
  <2>8. g[N + 1] = g[N] \o t[N + 1]
    BY <1>4, <2>1
  <2>9. QED  BY <2>2, <2>7, <2>8, <1>1, <1>3 DEF t
<1>7. QED  BY <1>5, <1>6
=============================================================================
