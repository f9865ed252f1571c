---------------------------- MODULE WireProofs ----------------------------
(***************************************************************************)
(* Proofs about Wire, for any documents, buffers, cuts of the stream and   *)
(* numbers of commands and connections: WireInvariant is inductive, and    *)
(* with it every request is handled as it was issued, in order, and        *)
(* answered to the command that asked, and no buffer is too small.         *)
(***************************************************************************)
EXTENDS Wire, SequenceTheorems, NaturalFacts

(* Sequences that are cut and joined.                                      *)

Joins(a, b, S) ==
  /\ a \o b \in Seq(S) /\ Len(a \o b) = Len(a) + Len(b)
  /\ Len(a) \in Nat /\ Len(b) \in Nat
  /\ \A i \in 1 .. Len(a) : (a \o b)[i] = a[i]
  /\ \A i \in 1 .. Len(b) : (a \o b)[Len(a) + i] = b[i]

LEMMA Join == ASSUME NEW S, NEW a \in Seq(S), NEW b \in Seq(S) PROVE Joins(a, b, S)
  <1>1. a \o b \in Seq(S) /\ Len(a \o b) = Len(a) + Len(b) /\ Len(a) \in Nat /\ Len(b) \in Nat
    OBVIOUS
  <1>2. \A i \in 1 .. Len(a) : (a \o b)[i] = a[i]
    OBVIOUS
  <1>3. ASSUME NEW i \in 1 .. Len(b) PROVE (a \o b)[Len(a) + i] = b[i]
    BY <1>1
  <1> QED
    BY <1>1, <1>2, <1>3 DEF Joins

Cuts2(s, k, S) ==
  /\ Take(s, k) \in Seq(S) /\ Len(Take(s, k)) = k
  /\ \A j \in 1 .. k : Take(s, k)[j] = s[j]
  /\ Drop(s, k) \in Seq(S) /\ Len(Drop(s, k)) = Len(s) - k
  /\ \A j \in 1 .. Len(s) - k : Drop(s, k)[j] = s[k + j]

LEMMA CutAndJoin ==
  ASSUME NEW S, NEW s \in Seq(S), NEW k \in 0 .. Len(s)
  PROVE  Cuts2(s, k, S) /\ Take(s, k) \o Drop(s, k) = s
  <1> DEFINE a == Take(s, k)
             b == Drop(s, k)
  <1>1. a \in Seq(S) /\ Len(a) = k /\ \A j \in 1 .. k : a[j] = s[j]
    BY DEF Take
  <1>2. b \in Seq(S) /\ Len(b) = Len(s) - k /\ \A j \in 1 .. Len(s) - k : b[j] = s[k + j]
    BY DEF Drop
  <1>3. Cuts2(s, k, S)
    BY <1>1, <1>2 DEF Cuts2
  <1> HIDE DEF a, b
  <1>4. Joins(a, b, S)
    BY <1>1, <1>2, Join, Zenon
  <1> DEFINE t == a \o b
  <1>5a. /\ t \in Seq(S) /\ Len(t) = Len(a) + Len(b) /\ \A i \in 1 .. Len(a) : t[i] = a[i]
         /\ \A i \in 1 .. Len(b) : t[Len(a) + i] = b[i]
    BY <1>4 DEF Joins
  <1> HIDE DEF t
  <1>5. /\ t \in Seq(S) /\ Len(t) = Len(s)
        /\ \A i \in 1 .. k : t[i] = s[i]
        /\ \A i \in 1 .. Len(s) - k : t[k + i] = s[k + i]
    BY <1>1, <1>2, <1>5a
  <1>6. ASSUME NEW i \in 1 .. Len(s) PROVE t[i] = s[i]
    <2>1. CASE i <= k
      BY <1>5, <2>1
    <2>2. CASE i > k
      <3>1. i - k \in 1 .. Len(s) - k /\ k + (i - k) = i
        BY <2>2
      <3> QED
        BY <1>5, <3>1
    <2> QED
      BY <2>1, <2>2
  <1>7. t = s
    BY <1>5, <1>6, SeqEqual, Zenon
  <1> QED
    BY <1>3, <1>7 DEF t, a, b

Associates(a, b, c) == (a \o b) \o c = a \o (b \o c)

LEMMA Associative ==
  ASSUME NEW S, NEW a \in Seq(S), NEW b \in Seq(S), NEW c \in Seq(S) PROVE Associates(a, b, c)
  BY ConcatAssociative DEF Associates

\* Words that move from the head of one sequence to the end of another one
\* leave the whole unchanged.
LEMMA MoveWords ==
  ASSUME NEW S, NEW a \in Seq(S), NEW b \in Seq(S), NEW k \in 0 .. Len(b)
  PROVE  (a \o Take(b, k)) \o Drop(b, k) = a \o b
  <1>1. Take(b, k) \in Seq(S) /\ Drop(b, k) \in Seq(S) /\ Take(b, k) \o Drop(b, k) = b
    BY CutAndJoin DEF Cuts2
  <1>2. (a \o Take(b, k)) \o Drop(b, k) = a \o (Take(b, k) \o Drop(b, k))
    <2>1. Associates(a, Take(b, k), Drop(b, k))
      BY <1>1, Associative, Zenon
    <2> QED
      BY <2>1 DEF Associates
  <1> QED
    BY <1>1, <1>2, Zenon

LEMMA HeadMoves ==
  ASSUME NEW S, NEW s \in Seq(S), s # <<>>
  PROVE  /\ <<Head(s)>> \in Seq(S) /\ Tail(s) \in Seq(S)
         /\ <<Head(s)>> \o Tail(s) = s /\ Head(s) = s[1]
  BY SMTT(20)

LEMMA EmptyJoins ==
  ASSUME NEW S, NEW s \in Seq(S)
  PROVE  <<>> \in Seq(S) /\ <<>> \o s = s /\ s \o <<>> = s /\ (s = <<>> <=> Len(s) = 0)
  BY SMTT(20)
-----------------------------------------------------------------------------
(* Messages.                                                               *)

LEMMA DocFacts ==
  /\ NoDoc \notin Documents /\ EmptyDoc \in Documents
  /\ Stored \subseteq Documents
  /\ ShellDocs \subseteq Documents
  /\ \A i \in Ids : KeyOf(i) \in Documents /\ KeyOf(i).id = i
  <1>1. NoDoc \notin Documents /\ EmptyDoc \in Documents
    BY DEF Documents, NoDoc, EmptyDoc, EmptyWords
  <1>2. Stored \subseteq Documents
    BY StoredAssumption DEF Documents
  <1>3. ShellDocs \subseteq Documents
    BY WordsAssumption DEF Documents, ShellDocs
  <1>4. \A i \in Ids : KeyOf(i) \in Documents /\ KeyOf(i).id = i
    BY WordsAssumption DEF Documents, KeyOf
  <1> QED
    BY <1>1, <1>2, <1>3, <1>4

\* The words of a document.
LEMMA DocWordsShape ==
  ASSUME NEW d \in Documents, NEW n \in Nat
  PROVE  /\ DocWords(d, n) \in Seq(Words) /\ Len(DocWords(d, n)) = d.words
         /\ d.words \in Nat \ {0}
         /\ \A k \in 1 .. d.words :
               DocWords(d, n)[k].doc = d /\ DocWords(d, n)[k].k = k /\ DocWords(d, n)[k].of = n
  <1>1. d.words \in Nat \ {0}
    BY DEF Documents
  <1> DEFINE w(k) == [int |-> IF k = 1 THEN Word * d.words ELSE Content, doc |-> d, k |-> k, of |-> n]
  <1>2. \A k \in 1 .. d.words : w(k) \in Words
    BY <1>1 DEF Words, Word, Content
  <1>3. DocWords(d, n) = [k \in 1 .. d.words |-> w(k)]
    BY DEF DocWords
  <1>4. \A k \in 1 .. d.words : w(k).doc = d /\ w(k).k = k /\ w(k).of = n
    OBVIOUS
  <1> HIDE DEF w
  <1> QED
    BY <1>1, <1>2, <1>3, <1>4

LEMMA HeaderShape ==
  ASSUME NEW v \in Int, NEW n \in Nat
  PROVE  /\ HeaderWord(v, n) \in Words
         /\ HeaderWord(v, n).int = v /\ HeaderWord(v, n).k = 0 /\ HeaderWord(v, n).of = n
  BY DEF HeaderWord, Words

\* Number of header words of a request.
HeadLen(op) == IF op = OP_INSERT THEN 3 ELSE 2

\* A request: its length in its first word, which alone looks like a first
\* word, the opcode in the second, and the document it carries at the end.
RequestLooks(r, n, op, d) ==
  /\ r \in Seq(Words) /\ Len(r) \in Nat /\ Len(r) >= 3
  /\ r[1].int = Word * Len(r) /\ r[1].of = n /\ Begins(r[1])
  /\ \A j \in 2 .. Len(r) : ~Begins(r[j])
  /\ r[2].int = op
  /\ DocAt(r, HeadLen(op) + 1) = d

LEMMA RequestShape ==
  ASSUME NEW n \in Nat, NEW op \in Messages, NEW d \in Documents
  PROVE  RequestLooks(Request(n, op, d), n, op, d)
  <1> DEFINE head == HeadLen(op)
             h(i) == HeaderWord(IF i = 1 THEN Word * (head + d.words)
                                ELSE IF i = 2 THEN op ELSE 1, n)
             hs == [i \in 1 .. head |-> h(i)]
             ds == DocWords(d, n)
             r == hs \o ds
  <1>1. head \in {2, 3} /\ op \in Int /\ op <= OP_QUERY /\ d.words \in Nat \ {0}
    BY DEF HeadLen, Messages, OP_INSERT, OP_DELETE, OP_QUERY, Documents
  <1>2. Request(n, op, d) = r
    BY DEF Request, HeadLen
  <1>3. \A i \in 1 .. head : /\ h(i) \in Words /\ h(i).k = 0 /\ h(i).of = n
                             /\ i = 1 => h(i).int = Word * (head + d.words)
                             /\ i = 2 => h(i).int = op
                             /\ i = 3 => h(i).int = 1
    <2> SUFFICES ASSUME NEW i \in 1 .. head
                 PROVE  /\ h(i) \in Words /\ h(i).k = 0 /\ h(i).of = n
                        /\ i = 1 => h(i).int = Word * (head + d.words)
                        /\ i = 2 => h(i).int = op
                        /\ i = 3 => h(i).int = 1
      OBVIOUS
    <2> DEFINE v == IF i = 1 THEN Word * (head + d.words) ELSE IF i = 2 THEN op ELSE 1
    <2>1. v \in Int
      BY <1>1 DEF Word
    <2>2. h(i) = HeaderWord(v, n)
      OBVIOUS
    <2>3. (i = 1 => v = Word * (head + d.words)) /\ (i = 2 => v = op) /\ (i = 3 => v = 1)
      OBVIOUS
    <2> HIDE DEF v, h, head
    <2> QED
      BY <2>1, <2>2, <2>3, HeaderShape
  <1> HIDE DEF h, head
  <1>4. hs \in Seq(Words) /\ Len(hs) = head /\ \A i \in 1 .. head : hs[i] = h(i)
    BY <1>1, <1>3
  <1>5. /\ ds \in Seq(Words) /\ Len(ds) = d.words
        /\ \A k \in 1 .. d.words : ds[k].doc = d /\ ds[k].k = k /\ ds[k].of = n
    BY DocWordsShape
  <1> HIDE DEF hs, ds
  <1>6. /\ r \in Seq(Words) /\ Len(r) = head + d.words
        /\ \A i \in 1 .. head : r[i] = h(i)
        /\ \A k \in 1 .. d.words : r[head + k] = ds[k]
    BY <1>1, <1>4, <1>5
  <1> HIDE DEF r
  <1>7. r[1].int = Word * Len(r) /\ r[1].of = n /\ Begins(r[1]) /\ Len(r) >= 3
    <2>1. 1 \in 1 .. head /\ Len(r) \in Nat /\ Len(r) >= 3
      BY <1>1, <1>6
    <2>2. r[1] = h(1)
      BY <1>6, <2>1
    <2>3. r[1].int = Word * Len(r) /\ r[1].of = n /\ r[1].k = 0
      BY <1>3, <1>6, <2>1, <2>2
    <2>4. Word * Len(r) > OP_QUERY
      BY <2>1 DEF Word, OP_QUERY
    <2> QED
      BY <2>1, <2>3, <2>4 DEF Begins
  <1>8. r[2].int = op
    BY <1>1, <1>3, <1>6
  <1>9. ASSUME NEW j \in 2 .. Len(r) PROVE ~Begins(r[j])
    <2>1. CASE j <= head
      BY <1>1, <1>3, <1>6, <2>1 DEF Begins, OP_QUERY
    <2>2. CASE j > head
      <3>1. j - head \in 1 .. d.words /\ j = head + (j - head)
        BY <1>1, <1>6, <2>2
      <3>2. r[j].k = j - head
        BY <1>5, <1>6, <3>1
      <3> QED
        BY <3>1, <3>2 DEF Begins
    <2> QED
      BY <1>1, <2>1, <2>2
  <1>10. DocAt(r, head + 1) = d
    <2>1. r[head + 1].k = 1 /\ r[head + 1].doc = d
      BY <1>1, <1>5, <1>6, SMTT(30)
    <2>2. \A k \in 1 .. d.words : r[(head + 1) + k - 1].doc = d /\ r[(head + 1) + k - 1].k = k
      <3>1. \A k \in 1 .. d.words : (head + 1) + k - 1 = head + k
        BY <1>1
      <3> QED
        BY <1>5, <1>6, <3>1
    <2> QED
      BY <1>1, <1>6, <2>1, <2>2 DEF DocAt
  <1> QED
    BY <1>2, <1>6, <1>7, <1>8, <1>9, <1>10 DEF RequestLooks, head

\* A reply: its length in its first word, the code in the third, and, for a
\* query, the document after the fourth.
ReplyLooks(r, op, code, d) ==
  /\ r \in Seq(Words) /\ Len(r) \in Nat /\ Len(r) >= 4
  /\ r[1].int = Word * Len(r)
  /\ r[3].int = code
  /\ op = OP_QUERY => DocAt(r, 5) = d

LEMMA ReplyShape ==
  ASSUME NEW n \in Nat, NEW op, NEW code \in Int, NEW d \in Documents
  PROVE  ReplyLooks(Reply(n, op, code, d), op, code, d)
  <1> DEFINE body == IF op = OP_QUERY THEN DocWords(d, n) ELSE <<>>
             many == IF op = OP_QUERY THEN 1 ELSE 0
             len == ReplyBytes + Word * Len(body)
             h == <<HeaderWord(len, n), HeaderWord(OP_REPLY, n), HeaderWord(code, n),
                    HeaderWord(many, n)>>
             r == h \o body
  <1>1. Reply(n, op, code, d) = r
    BY DEF Reply
  <1>2. /\ DocWords(d, n) \in Seq(Words) /\ Len(DocWords(d, n)) = d.words
        /\ d.words \in Nat \ {0}
        /\ \A k \in 1 .. d.words : DocWords(d, n)[k].doc = d /\ DocWords(d, n)[k].k = k
    BY DocWordsShape
  <1>3. /\ body \in Seq(Words) /\ Len(body) \in Nat
        /\ op = OP_QUERY => /\ Len(body) = d.words /\ d.words \in Nat \ {0}
                            /\ \A k \in 1 .. d.words : body[k].doc = d /\ body[k].k = k
    BY <1>2
  <1> HIDE DEF body
  <1>4. len \in Int /\ many \in Int /\ OP_REPLY \in Int
    BY <1>3 DEF ReplyBytes, Word, OP_REPLY
  <1> HIDE DEF len, many
  <1>5. /\ HeaderWord(len, n) \in Words /\ HeaderWord(OP_REPLY, n) \in Words
        /\ HeaderWord(code, n) \in Words /\ HeaderWord(many, n) \in Words
        /\ HeaderWord(len, n).int = len /\ HeaderWord(code, n).int = code
    BY <1>4, HeaderShape
  <1>6. h \in Seq(Words) /\ Len(h) = 4 /\ h[1].int = len /\ h[3].int = code
    BY <1>5
  <1> HIDE DEF h
  <1>7. /\ r \in Seq(Words) /\ Len(r) = 4 + Len(body)
        /\ r[1] = h[1] /\ r[3] = h[3]
        /\ \A k \in 1 .. Len(body) : r[4 + k] = body[k]
    <2>1. Joins(h, body, Words)
      BY <1>3, <1>6, Join, Zenon
    <2>2. 1 \in 1 .. Len(h) /\ 3 \in 1 .. Len(h)
      BY <1>6
    <2> QED
      BY <1>6, <2>1, <2>2 DEF Joins
  <1> HIDE DEF r
  <1>8. r[1].int = Word * Len(r)
    BY <1>3, <1>6, <1>7 DEF len, Word, ReplyBytes
  <1>9. op = OP_QUERY => DocAt(r, 5) = d
    <2> SUFFICES ASSUME op = OP_QUERY PROVE DocAt(r, 5) = d
      OBVIOUS
    <2>1. \A k \in 1 .. d.words : 5 + k - 1 = 4 + k /\ r[5 + k - 1] = r[4 + k]
      BY <1>3
    <2>2. \A k \in 1 .. d.words : r[5 + k - 1].doc = d /\ r[5 + k - 1].k = k
      BY <1>3, <1>7, <2>1
    <2>3. r[5].k = 1 /\ r[5].doc = d
      BY <1>3, <1>7
    <2> QED
      BY <1>3, <1>7, <2>2, <2>3 DEF DocAt
  <1> QED
    BY <1>1, <1>3, <1>6, <1>7, <1>8, <1>9 DEF ReplyLooks

\* The lengths a receiver computes from the first word of a message.
LEMMA BodyOfLength ==
  ASSUME NEW len \in Nat, len >= 1
  PROVE  BodyWords(Word * len) = len - 1
  BY DEF BodyWords, BodyBytes, Word
-----------------------------------------------------------------------------
(* Sequences of whole requests.                                            *)

\* Every command that has a request has a proper one.
Proper(list) ==
  \A n \in 1 .. Len(list) : list[n].op \in Messages =>
     RequestLooks(RequestOf(list, n), n, list[n].op, list[n].doc)

LEMMA ListIsProper ==
  ASSUME NEW list, \A n \in 1 .. Len(list) : list[n].op \in Messages => list[n].doc \in Documents
  PROVE  Proper(list)
  <1> SUFFICES ASSUME NEW n \in 1 .. Len(list), list[n].op \in Messages
               PROVE  RequestLooks(RequestOf(list, n), n, list[n].op, list[n].doc)
    BY DEF Proper
  <1>1. list[n].doc \in Documents /\ n \in Nat
    OBVIOUS
  <1> QED
    BY <1>1, RequestShape DEF RequestOf

LEMMA IssuedIsProper == WireTypes => Proper(issued)
  BY ListIsProper DEF WireTypes, IssuedTypes, Current

LEMMA WholeEmpty == ASSUME NEW list PROVE WholeRequests(list, <<>>)
  BY DEF WholeRequests

\* A longer list of commands changes nothing.
LEMMA WholeGrows ==
  ASSUME NEW list, NEW more, NEW s, WholeRequests(list, s),
         Len(list) \in Nat, Len(more) \in Nat, Len(list) <= Len(more),
         \A n \in 1 .. Len(list) : more[n] = list[n]
  PROVE  WholeRequests(more, s)
  <1>1. ASSUME NEW p \in 1 .. Len(s), NEW n, RequestAt(list, s, p, n) PROVE RequestAt(more, s, p, n)
    <2>1. n \in 1 .. Len(list) /\ n \in 1 .. Len(more) /\ more[n] = list[n]
      BY <1>1 DEF RequestAt
    <2>2. RequestOf(more, n) = RequestOf(list, n)
      BY <2>1 DEF RequestOf
    <2> QED
      BY <1>1, <2>1, <2>2 DEF RequestAt
  <1> QED
    BY <1>1 DEF WholeRequests

LEMMA WholeAppend ==
  ASSUME NEW list, Proper(list), NEW s \in Seq(Words), WholeRequests(list, s),
         NEW n \in 1 .. Len(list), list[n].op \in Messages,
         \A p \in 1 .. Len(s) : Begins(s[p]) => s[p].of < n
  PROVE  WholeRequests(list, s \o RequestOf(list, n))
  <1> DEFINE r == RequestOf(list, n)
             t == s \o r
  <1>1. /\ r \in Seq(Words) /\ Len(r) \in Nat /\ Len(r) >= 3 /\ r[1].of = n /\ Begins(r[1])
        /\ \A j \in 2 .. Len(r) : ~Begins(r[j])
    BY DEF Proper, RequestLooks
  <1> HIDE DEF r
  <1>2. Joins(s, r, Words)
    BY <1>1, Join, Zenon
  <1>3. /\ t \in Seq(Words) /\ Len(t) = Len(s) + Len(r) /\ Len(s) \in Nat
        /\ \A i \in 1 .. Len(s) : t[i] = s[i]
        /\ \A i \in 1 .. Len(r) : t[Len(s) + i] = r[i]
    BY <1>2 DEF Joins
  <1> HIDE DEF t
  <1>4. t[Len(s) + 1] = r[1]
    BY <1>1, <1>3
  <1>5. ASSUME NEW p \in 1 .. Len(t), Begins(t[p]) PROVE p <= Len(s) \/ p = Len(s) + 1
    <2> SUFFICES ASSUME p > Len(s) + 1 PROVE FALSE
      BY <1>3
    <2>1. p - Len(s) \in 2 .. Len(r) /\ p = Len(s) + (p - Len(s))
      BY <1>3
    <2>2. t[p] = r[p - Len(s)]
      BY <1>3, <2>1
    <2> QED
      BY <1>1, <1>5, <2>1, <2>2
  <1>6. t # <<>> => Begins(t[1])
    <2>1. CASE Len(s) = 0
      BY <1>1, <1>4, <2>1
    <2>2. CASE Len(s) > 0
      <3>1. s # <<>> /\ 1 \in 1 .. Len(s)
        BY <1>3, <2>2
      <3> QED
        BY <1>3, <3>1 DEF WholeRequests
    <2> QED
      BY <1>3, <2>1, <2>2
  <1>7. ASSUME NEW p \in 1 .. Len(t), Begins(t[p]) PROVE RequestAt(list, t, p, t[p].of)
    <2>1. CASE p <= Len(s)
      <3> DEFINE m == s[p].of
                 q == RequestOf(list, m)
      <3>1. p \in 1 .. Len(s) /\ t[p] = s[p]
        BY <1>3, <2>1
      <3>2. RequestAt(list, s, p, m)
        BY <1>7, <3>1 DEF WholeRequests
      <3>3. m \in 1 .. Len(list) /\ list[m].op \in Messages
        BY <3>2 DEF RequestAt
      <3>4. Len(q) \in Nat /\ Len(q) >= 3
        BY <3>3 DEF Proper, RequestLooks
      <3>5. /\ p + Len(q) - 1 <= Len(s)
            /\ \A j \in 1 .. Len(q) : s[p + j - 1] = q[j]
            /\ p + Len(q) <= Len(s) => Begins(s[p + Len(q)])
        BY <3>2 DEF RequestAt
      <3> HIDE DEF m, q
      <3>6. \A j \in 1 .. Len(q) : t[p + j - 1] = q[j]
        <4>1. \A j \in 1 .. Len(q) : p + j - 1 \in 1 .. Len(s)
          BY <1>3, <3>1, <3>4, <3>5
        <4> QED
          BY <1>3, <3>5, <4>1
      <3>7. p + Len(q) <= Len(t) => Begins(t[p + Len(q)])
        <4>1. CASE p + Len(q) <= Len(s)
          <5>1. p + Len(q) \in 1 .. Len(s)
            BY <1>3, <3>1, <3>4, <4>1
          <5> QED
            BY <1>3, <3>5, <4>1, <5>1
        <4>2. CASE p + Len(q) = Len(s) + 1
          BY <1>1, <1>4, <4>2
        <4>3. p + Len(q) - 1 <= Len(s) /\ p \in Nat /\ Len(s) \in Nat /\ Len(q) \in Nat
          BY <1>3, <3>1, <3>4, <3>5
        <4>3a. \A a, b, c \in Nat : a + b - 1 <= c => a + b <= c \/ a + b = c + 1
          OBVIOUS
        <4>4. p + Len(q) <= Len(s) \/ p + Len(q) = Len(s) + 1
          BY <4>3, <4>3a, ZenonT(30)
        <4> QED
          BY <4>1, <4>2, <4>4
      <3>8. p + Len(q) - 1 <= Len(t)
        BY <1>1, <1>3, <3>1, <3>4, <3>5
      <3>9. RequestAt(list, t, p, m)
        BY <3>3, <3>6, <3>7, <3>8 DEF RequestAt, q
      <3> QED
        BY <3>1, <3>9 DEF m
    <2>2. CASE p = Len(s) + 1
      <3>1. t[p].of = n
        BY <1>1, <1>4, <2>2
      <3>2. \A j \in 1 .. Len(r) : p + j - 1 = Len(s) + j
        BY <1>3, <2>2
      <3>3. \A j \in 1 .. Len(r) : t[p + j - 1] = r[j]
        BY <1>3, <3>2
      <3>4. p + Len(r) - 1 <= Len(t) /\ ~(p + Len(r) <= Len(t))
        BY <1>1, <1>3, <2>2
      <3>5. RequestAt(list, t, p, n)
        BY <3>3, <3>4 DEF RequestAt, r
      <3> QED
        BY <3>1, <3>5
    <2> QED
      BY <1>5, <1>7, <2>1, <2>2
  <1>8. ASSUME NEW p \in 1 .. Len(t), NEW q \in 1 .. Len(t), p < q, Begins(t[p]), Begins(t[q])
        PROVE  t[p].of < t[q].of
    <2>1. p <= Len(s) /\ t[p] = s[p] /\ p \in 1 .. Len(s)
      BY <1>3, <1>5, <1>8
    <2>2. CASE q <= Len(s)
      <3>1. t[q] = s[q] /\ q \in 1 .. Len(s)
        BY <1>3, <2>2
      <3> QED
        BY <1>8, <2>1, <3>1 DEF WholeRequests
    <2>3. CASE q = Len(s) + 1
      <3>1. t[q].of = n
        BY <1>1, <1>4, <2>3
      <3> QED
        BY <1>8, <2>1, <3>1
    <2> QED
      BY <1>5, <1>8, <2>2, <2>3
  <1>9. WholeRequests(list, t)
    BY <1>6, <1>7, <1>8 DEF WholeRequests
  <1> QED
    BY <1>9 DEF t, r

\* The first request of a sequence, and what follows it.
LEMMA WholeFirst ==
  ASSUME NEW list, Proper(list), NEW s \in Seq(Words), WholeRequests(list, s), s # <<>>
  PROVE  /\ Begins(s[1]) /\ s[1].of \in 1 .. Len(list) /\ list[s[1].of].op \in Messages
         /\ Len(RequestOf(list, s[1].of)) <= Len(s)
         /\ \A j \in 1 .. Len(RequestOf(list, s[1].of)) : s[j] = RequestOf(list, s[1].of)[j]
         /\ s[1].int = Word * Len(RequestOf(list, s[1].of))
  <1> DEFINE n == s[1].of
             r == RequestOf(list, n)
  <1>1. 1 \in 1 .. Len(s) /\ Len(s) \in Nat
    BY EmptyJoins
  <1>2. Begins(s[1]) /\ RequestAt(list, s, 1, n)
    BY <1>1 DEF WholeRequests
  <1>3. n \in 1 .. Len(list) /\ list[n].op \in Messages
    BY <1>2 DEF RequestAt
  <1>4. Len(r) \in Nat /\ Len(r) >= 3 /\ r[1].int = Word * Len(r)
    BY <1>3 DEF Proper, RequestLooks
  <1>5. 1 + Len(r) - 1 <= Len(s) /\ \A j \in 1 .. Len(r) : s[1 + j - 1] = r[j]
    BY <1>2 DEF RequestAt
  <1> HIDE DEF n, r
  <1>6. \A j \in 1 .. Len(r) : 1 + j - 1 = j
    BY <1>4
  <1>7. Len(r) <= Len(s) /\ \A j \in 1 .. Len(r) : s[j] = r[j]
    BY <1>1, <1>4, <1>5, <1>6
  <1>8. s[1].int = Word * Len(r)
    BY <1>4, <1>7
  <1> QED
    BY <1>2, <1>3, <1>7, <1>8 DEF n, r

LEMMA WholeDropFirst ==
  ASSUME NEW list, Proper(list), NEW s \in Seq(Words), WholeRequests(list, s), s # <<>>,
         NEW k, k = Len(RequestOf(list, s[1].of))
  PROVE  WholeRequests(list, Drop(s, k))
  <1> DEFINE t == Drop(s, k)
  <1>1. k \in 0 .. Len(s) /\ Len(s) \in Nat /\ k >= 3
    BY WholeFirst DEF Proper, RequestLooks
  <1>2. t \in Seq(Words) /\ Len(t) = Len(s) - k /\ \A j \in 1 .. Len(s) - k : t[j] = s[k + j]
    BY <1>1, CutAndJoin DEF Cuts2
  <1> HIDE DEF t
  <1>3. \A j \in 1 .. Len(t) : k + j \in 1 .. Len(s) /\ t[j] = s[k + j]
    BY <1>1, <1>2
  <1>4. t # <<>> => Begins(t[1])
    <2> SUFFICES ASSUME t # <<>> PROVE Begins(t[1])
      OBVIOUS
    <2>1. 1 \in 1 .. Len(t)
      BY <1>2, EmptyJoins
    <2>2. 1 \in 1 .. Len(s) /\ Begins(s[1])
      BY <1>1, WholeFirst
    <2>3. 1 + k <= Len(s) => Begins(s[1 + k])
      BY <2>2 DEF WholeRequests, RequestAt
    <2>4. 1 + k = k + 1 /\ 1 + k <= Len(s)
      BY <1>1, <1>2, <2>1
    <2> QED
      BY <1>3, <2>1, <2>3, <2>4
  <1>5. ASSUME NEW p \in 1 .. Len(t), Begins(t[p]) PROVE RequestAt(list, t, p, t[p].of)
    <2> DEFINE m == t[p].of
               q == RequestOf(list, m)
    <2>1. k + p \in 1 .. Len(s) /\ t[p] = s[k + p]
      BY <1>3
    <2>2. RequestAt(list, s, k + p, m)
      BY <1>5, <2>1 DEF WholeRequests
    <2>3. m \in 1 .. Len(list) /\ list[m].op \in Messages
      BY <2>2 DEF RequestAt
    <2>4. Len(q) \in Nat /\ Len(q) >= 3
      BY <2>3 DEF Proper, RequestLooks
    <2>5. /\ (k + p) + Len(q) - 1 <= Len(s)
          /\ \A j \in 1 .. Len(q) : s[(k + p) + j - 1] = q[j]
          /\ (k + p) + Len(q) <= Len(s) => Begins(s[(k + p) + Len(q)])
      BY <2>2 DEF RequestAt
    <2> HIDE DEF m, q
    <2>6. \A j \in 1 .. Len(q) : t[p + j - 1] = q[j]
      <3>1. \A j \in 1 .. Len(q) : p + j - 1 \in 1 .. Len(t) /\ k + (p + j - 1) = (k + p) + j - 1
        BY <1>1, <1>2, <2>4, <2>5
      <3> QED
        BY <1>3, <2>5, <3>1
    <2>7. p + Len(q) <= Len(t) => Begins(t[p + Len(q)])
      <3> SUFFICES ASSUME p + Len(q) <= Len(t) PROVE Begins(t[p + Len(q)])
        OBVIOUS
      <3>1. p + Len(q) \in 1 .. Len(t) /\ k + (p + Len(q)) = (k + p) + Len(q)
            /\ (k + p) + Len(q) <= Len(s)
        BY <1>1, <1>2, <2>4
      <3> QED
        BY <1>3, <2>5, <3>1
    <2>8. p + Len(q) - 1 <= Len(t)
      BY <1>1, <1>2, <2>4, <2>5
    <2>9. RequestAt(list, t, p, m)
      BY <2>3, <2>6, <2>7, <2>8 DEF RequestAt, q
    <2> QED
      BY <2>9 DEF m
  <1>6. ASSUME NEW p \in 1 .. Len(t), NEW q \in 1 .. Len(t), p < q, Begins(t[p]), Begins(t[q])
        PROVE  t[p].of < t[q].of
    <2>1. k + p \in 1 .. Len(s) /\ k + q \in 1 .. Len(s) /\ k + p < k + q
      BY <1>1, <1>3, <1>6
    <2> QED
      BY <1>3, <1>6, <2>1 DEF WholeRequests
  <1>7. WholeRequests(list, t)
    BY <1>4, <1>5, <1>6 DEF WholeRequests
  <1> QED
    BY <1>7 DEF t

LEMMA WholeDropLast ==
  ASSUME NEW list, Proper(list), NEW s \in Seq(Words),
         NEW n \in 1 .. Len(list), list[n].op \in Messages,
         WholeRequests(list, s \o RequestOf(list, n))
  PROVE  WholeRequests(list, s)
  <1> DEFINE r == RequestOf(list, n)
             t == s \o r
  <1>1. r \in Seq(Words) /\ Len(r) \in Nat /\ Len(r) >= 3 /\ Begins(r[1])
    BY DEF Proper, RequestLooks
  <1>0. WholeRequests(list, t)
    OBVIOUS
  <1> HIDE DEF r
  <1>2. Joins(s, r, Words)
    BY <1>1, Join, Zenon
  <1>3. /\ t \in Seq(Words) /\ Len(t) = Len(s) + Len(r) /\ Len(s) \in Nat
        /\ \A i \in 1 .. Len(s) : t[i] = s[i]
        /\ \A i \in 1 .. Len(r) : t[Len(s) + i] = r[i]
    BY <1>2 DEF Joins
  <1> HIDE DEF t
  <1>4. Begins(t[Len(s) + 1])
    BY <1>1, <1>3
  <1>5. \A i \in 1 .. Len(s) : i \in 1 .. Len(t) /\ t[i] = s[i]
    BY <1>1, <1>3
  <1>6. s # <<>> => Begins(s[1])
    <2> SUFFICES ASSUME s # <<>> PROVE Begins(s[1])
      OBVIOUS
    <2>1. 1 \in 1 .. Len(s)
      BY EmptyJoins
    <2>2. t # <<>> /\ t[1] = s[1]
      BY <1>3, <1>5, <2>1, EmptyJoins
    <2> QED
      BY <1>0, <2>2 DEF WholeRequests
  <1>7. ASSUME NEW p \in 1 .. Len(s), Begins(s[p]) PROVE RequestAt(list, s, p, s[p].of)
    <2> DEFINE m == s[p].of
               q == RequestOf(list, m)
    <2>1. p \in 1 .. Len(t) /\ t[p] = s[p]
      BY <1>5
    <2>2. RequestAt(list, t, p, m)
      BY <1>0, <1>7, <2>1 DEF WholeRequests
    <2>3. m \in 1 .. Len(list) /\ list[m].op \in Messages
      BY <2>2 DEF RequestAt
    <2>4. Len(q) \in Nat /\ Len(q) >= 3 /\ \A j \in 2 .. Len(q) : ~Begins(q[j])
      BY <2>3 DEF Proper, RequestLooks
    <2>5. /\ p + Len(q) - 1 <= Len(t)
          /\ \A j \in 1 .. Len(q) : t[p + j - 1] = q[j]
          /\ p + Len(q) <= Len(t) => Begins(t[p + Len(q)])
      BY <2>2 DEF RequestAt
    <2> HIDE DEF m, q
    \* Otherwise the first word of r would be inside another request.
    <2>6. p + Len(q) - 1 <= Len(s)
      <3> SUFFICES ASSUME p + Len(q) - 1 > Len(s) PROVE FALSE
        BY <1>3, <2>4
      <3> DEFINE j == Len(s) + 2 - p
      <3>1. j \in 2 .. Len(q) /\ p + j - 1 = Len(s) + 1
        BY <1>3, <2>4
      <3> HIDE DEF j
      <3>2. j \in 1 .. Len(q)
        BY <2>4, <3>1
      <3>3. t[p + j - 1] = q[j]
        BY <2>5, <3>2
      <3> QED
        BY <1>4, <2>4, <3>1, <3>3
    <2>7. \A j \in 1 .. Len(q) : s[p + j - 1] = q[j]
      <3>0. p \in Nat /\ p >= 1 /\ Len(q) \in Nat /\ Len(s) \in Nat /\ p + Len(q) - 1 <= Len(s)
        BY <1>3, <2>4, <2>6
      <3>1. \A j \in 1 .. Len(q) : p + j - 1 \in 1 .. Len(s)
        BY <3>0
      <3> QED
        BY <1>5, <2>5, <3>1
    <2>8. p + Len(q) <= Len(s) => Begins(s[p + Len(q)])
      <3> SUFFICES ASSUME p + Len(q) <= Len(s) PROVE Begins(s[p + Len(q)])
        OBVIOUS
      <3>1. p + Len(q) \in 1 .. Len(s) /\ p + Len(q) <= Len(t)
        BY <1>1, <1>3, <2>4
      <3> QED
        BY <1>5, <2>5, <3>1
    <2>9. RequestAt(list, s, p, m)
      BY <2>3, <2>6, <2>7, <2>8 DEF RequestAt, q
    <2> QED
      BY <2>9 DEF m
  <1>8. ASSUME NEW p \in 1 .. Len(s), NEW q \in 1 .. Len(s), p < q, Begins(s[p]), Begins(s[q])
        PROVE  s[p].of < s[q].of
    BY <1>0, <1>5, <1>8 DEF WholeRequests
  <1> QED
    BY <1>6, <1>7, <1>8 DEF WholeRequests
-----------------------------------------------------------------------------
(* The commands whose requests are in a sequence.                          *)

LEMMA BegunMember ==
  ASSUME NEW s, NEW f, NEW m
  PROVE  m \in BegunFrom(s, f) <=> \E p \in f .. Len(s) : Begins(s[p]) /\ m = s[p].of
  BY DEF BegunFrom

LEMMA BegunEmpty == ASSUME NEW f \in {1, 2} PROVE BegunFrom(<<>>, f) = {}
  <1>1. f .. Len(<<>>) = {}
    OBVIOUS
  <1> QED
    BY <1>1 DEF BegunFrom

LEMMA BegunIssued ==
  ASSUME NEW list, NEW s \in Seq(Words), WholeRequests(list, s), NEW f \in {1, 2},
         NEW m \in BegunFrom(s, f)
  PROVE  m \in 1 .. Len(list)
  <1>1. PICK p \in f .. Len(s) : Begins(s[p]) /\ m = s[p].of
    BY BegunMember
  <1>2. p \in 1 .. Len(s)
    OBVIOUS
  <1> QED
    BY <1>1, <1>2 DEF WholeRequests, RequestAt

\* The first request comes before all others.
LEMMA BegunFirst ==
  ASSUME NEW list, NEW s \in Seq(Words), WholeRequests(list, s), s # <<>>
  PROVE  /\ s[1].of \in BegunFrom(s, 1)
         /\ BegunFrom(s, 2) \subseteq BegunFrom(s, 1)
         /\ \A m \in BegunFrom(s, 2) : s[1].of < m
  <1>1. Len(s) \in Nat /\ 1 \in 1 .. Len(s) /\ Begins(s[1])
    BY EmptyJoins DEF WholeRequests
  <1>2. s[1].of \in BegunFrom(s, 1)
    BY <1>1, BegunMember
  <1>3. \A p \in 2 .. Len(s) : p \in 1 .. Len(s) /\ 1 < p
    BY <1>1
  <1>4. BegunFrom(s, 2) \subseteq BegunFrom(s, 1)
    BY <1>3, BegunMember
  <1>5. ASSUME NEW m \in BegunFrom(s, 2) PROVE s[1].of < m
    <2>1. PICK p \in 2 .. Len(s) : Begins(s[p]) /\ m = s[p].of
      BY BegunMember
    <2> QED
      BY <1>1, <1>3, <2>1 DEF WholeRequests
  <1> QED
    BY <1>2, <1>4, <1>5

LEMMA BegunDropFirst ==
  ASSUME NEW s \in Seq(Words), NEW k \in 1 .. Len(s)
  PROVE  BegunFrom(Drop(s, k), 1) \subseteq BegunFrom(s, 2)
  <1> DEFINE t == Drop(s, k)
  <1>1. k \in 0 .. Len(s) /\ Len(s) \in Nat
    OBVIOUS
  <1>2. t \in Seq(Words) /\ Len(t) = Len(s) - k /\ \A j \in 1 .. Len(s) - k : t[j] = s[k + j]
    BY <1>1, CutAndJoin DEF Cuts2
  <1> HIDE DEF t
  <1>3. \A j \in 1 .. Len(t) : k + j \in 2 .. Len(s) /\ t[j] = s[k + j]
    BY <1>1, <1>2
  <1>4. ASSUME NEW m \in BegunFrom(t, 1) PROVE m \in BegunFrom(s, 2)
    <2>1. PICK p \in 1 .. Len(t) : Begins(t[p]) /\ m = t[p].of
      BY BegunMember
    <2> QED
      BY <1>3, <2>1, BegunMember
  <1> QED
    BY <1>4 DEF t

\* Every message begun in r is that of command n.
BegunBy(r, n) == \A j \in 1 .. Len(r) : Begins(r[j]) => r[j].of = n

LEMMA BegunInRequest ==
  ASSUME NEW list, Proper(list), NEW n \in 1 .. Len(list), list[n].op \in Messages
  PROVE  BegunBy(RequestOf(list, n), n)
  <1> DEFINE r == RequestOf(list, n)
  <1>1. Len(r) \in Nat /\ r[1].of = n /\ \A j \in 2 .. Len(r) : ~Begins(r[j])
    BY DEF Proper, RequestLooks
  <1> HIDE DEF r
  <1>2. \A j \in 1 .. Len(r) : j # 1 => j \in 2 .. Len(r)
    BY <1>1
  <1> QED
    BY <1>1, <1>2 DEF BegunBy, r

BegunJoins(s, r, f, n) ==
  /\ BegunFrom(s \o r, f) \subseteq BegunFrom(s, f) \cup {n}
  /\ BegunFrom(s, f) \subseteq BegunFrom(s \o r, f)

LEMMA BegunAppend ==
  ASSUME NEW s \in Seq(Words), NEW r \in Seq(Words), NEW f \in {1, 2}, NEW n, BegunBy(r, n)
  PROVE  BegunJoins(s, r, f, n)
  <1> DEFINE t == s \o r
  <1>1. Joins(s, r, Words)
    BY Join, Zenon
  <1>2. /\ Len(t) = Len(s) + Len(r) /\ Len(s) \in Nat /\ Len(r) \in Nat
        /\ \A i \in 1 .. Len(s) : t[i] = s[i]
        /\ \A i \in 1 .. Len(r) : t[Len(s) + i] = r[i]
    BY <1>1 DEF Joins
  <1> HIDE DEF t
  <1>3. ASSUME NEW m \in BegunFrom(t, f) PROVE m \in BegunFrom(s, f) \cup {n}
    <2>1. PICK p \in f .. Len(t) : Begins(t[p]) /\ m = t[p].of
      BY BegunMember
    <2>2. CASE p <= Len(s)
      <3>1. p \in f .. Len(s) /\ p \in 1 .. Len(s)
        BY <1>2, <2>2
      <3> QED
        BY <1>2, <2>1, <3>1, BegunMember
    <2>3. CASE p > Len(s)
      <3>1. p - Len(s) \in 1 .. Len(r) /\ p = Len(s) + (p - Len(s))
        BY <1>2, <2>3
      <3>2. PICK i \in 1 .. Len(r) : p = Len(s) + i
        BY <3>1
      <3>3. t[p] = r[i]
        BY <1>2, <3>2
      <3>4. m = n
        BY <2>1, <3>3 DEF BegunBy
      <3> QED
        BY <3>4
    <2> QED
      BY <1>2, <2>2, <2>3
  <1>4. ASSUME NEW m \in BegunFrom(s, f) PROVE m \in BegunFrom(t, f)
    <2>1. PICK p \in f .. Len(s) : Begins(s[p]) /\ m = s[p].of
      BY BegunMember
    <2>2. p \in f .. Len(t) /\ p \in 1 .. Len(s)
      BY <1>2
    <2> QED
      BY <1>2, <2>1, <2>2, BegunMember
  <1> QED
    BY <1>3, <1>4 DEF t, BegunJoins
-----------------------------------------------------------------------------
(* Connections and their streams.                                          *)

LEMMA ConnFacts ==
  /\ Conns \subseteq Nat /\ NoConn \notin Conns /\ 1 \in Conns
  /\ \A c \in Conns : c >= 1
  BY BoundsAssumption DEF Conns, NoConn

LEMMA HandledType ==
  ASSUME HandledTypes, NEW i \in 1 .. Len(handled)
  PROVE  /\ handled[i].n \in Nat /\ handled[i].conn \in Conns /\ handled[i].op \in Messages
         /\ handled[i].doc \in Documents /\ handled[i].code \in Int
         /\ handled[i].found \in Documents \cup {NoDoc}
  <1> DEFINE H == [n : Nat, conn : Conns, op : Messages, doc : Documents, code : Int,
                   found : Documents \cup {NoDoc}]
  <1>1. \A h \in H : /\ h.n \in Nat /\ h.conn \in Conns /\ h.op \in Messages
                     /\ h.doc \in Documents /\ h.code \in Int
                     /\ h.found \in Documents \cup {NoDoc}
    OBVIOUS
  <1> HIDE DEF H
  <1>2. handled \in Seq(H)
    BY DEF HandledTypes, H
  <1>3. handled[i] \in H
    BY <1>2
  <1> QED
    BY <1>1, <1>3

LEMMA StreamType ==
  ASSUME WireTypes, NEW c \in Conns
  PROVE  /\ Stream(c) \in Seq(Words) /\ Unsents(c) \in Seq(Words) /\ Kept(c) \in Seq(Words)
         /\ Back(c) \in Seq(Words)
  <1>1. areq[c] \in Seq(Words) /\ up[c] \in Seq(Words) /\ down[c] \in Seq(Words)
        /\ asend[c] \in Seq(Words) /\ csend \in Seq(Words) /\ cbuf \in Seq(Words)
        /\ cut[c] \in Seq(Words)
    BY DEF WireTypes, PlaceTypes, BufferTypes, IssuedTypes, HandledTypes
  <1>2. <<>> \in Seq(Words)
    OBVIOUS
  <1>3. Unsents(c) \in Seq(Words) /\ Kept(c) \in Seq(Words)
    BY <1>1, <1>2 DEF Unsents, Kept
  <1>4. \A a, b \in Seq(Words) : a \o b \in Seq(Words)
    OBVIOUS
  <1>5. areq[c] \o up[c] \in Seq(Words) /\ Kept(c) \o down[c] \in Seq(Words)
    BY <1>1, <1>3, <1>4, Zenon
  <1>6. (areq[c] \o up[c]) \o Unsents(c) \in Seq(Words) /\ Back(c) \in Seq(Words)
    BY <1>1, <1>3, <1>4, <1>5, Zenon DEF Back
  <1>7. Stream(c) \in Seq(Words)
    BY <1>2, <1>6 DEF Stream
  <1> QED
    BY <1>3, <1>6, <1>7

\* Nothing changes the stream of a connection.
LEMMA StreamSame ==
  ASSUME NEW d, areq'[d] = areq[d], up'[d] = up[d], Live(d)' <=> Live(d),
         Unsents(d)' = Unsents(d) \/ ~Live(d)
  PROVE  Stream(d)' = Stream(d)
  BY DEF Stream

\* AgentPlaces for one connection.
PlaceOf(c) ==
  /\ Live(c) <=> apc[c] \notin {"none", "end"}
  /\ c > opened => apc[c] = "none" /\ down[c] = <<>>
  /\ ~Live(c) => up[c] = <<>>
  /\ apc[c] \in {"none", "length", "end"} => areq[c] = <<>>
  /\ apc[c] = "body" => Len(areq[c]) = 1
  /\ apc[c] \in {"handle", "send"} =>
        areq[c] # <<>> /\ Len(areq[c]) = Len(RequestOf(issued, areq[c][1].of))
  /\ apc[c] # "send" => asend[c] = <<>>
  /\ apc[c] = "send" => asend[c] # <<>>
  /\ apc[c] \in {"body", "handle"} => areq[c][1].int + 1 <= recvSize[c]
  /\ Word * Len(asend[c]) <= resultSize[c]

LEMMA PlaceOfAll == AgentPlaces <=> \A c \in Conns : PlaceOf(c)
  BY DEF AgentPlaces, PlaceOf

IssuedGrows ==
  /\ Len(issued) \in Nat /\ Len(issued') \in Nat /\ Len(issued) <= Len(issued')
  /\ \A n \in 1 .. Len(issued) : issued'[n] = issued[n]

LEMMA GrowsSame == WireTypes /\ UNCHANGED issued => IssuedGrows
  BY DEF WireTypes, PlaceTypes, BufferTypes, IssuedTypes, HandledTypes, IssuedGrows

LEMMA GrowsAppend ==
  ASSUME WireTypes, NEW x, issued' = Append(issued, x)
  PROVE  /\ IssuedGrows /\ Len(issued') = Current + 1 /\ issued'[Current + 1] = x
         /\ Current \in Nat
  <1>1. issued \in Seq([op : Messages \cup {OP_NONE}, doc : Documents \cup {NoDoc}])
    BY DEF WireTypes, PlaceTypes, BufferTypes, IssuedTypes, HandledTypes
  <1> QED
    BY <1>1 DEF IssuedGrows, Current

\* The words an agent has begin with a request.
LEMMA AgentWords ==
  ASSUME WireInvariant, NEW c \in Conns, areq[c] # <<>>
  PROVE  /\ Live(c) /\ areq[c] \in Seq(Words) /\ Len(areq[c]) \in Nat /\ Len(areq[c]) >= 1
         /\ Stream(c) # <<>> /\ Stream(c)[1] = areq[c][1]
         /\ Len(areq[c]) <= Len(Stream(c))
         /\ \A j \in 1 .. Len(areq[c]) : Stream(c)[j] = areq[c][j]
         /\ areq[c][1].of \in 1 .. Current /\ issued[areq[c][1].of].op \in Messages
         /\ areq[c][1].int = Word * Len(RequestOf(issued, areq[c][1].of))
  <1> DEFINE a == areq[c]
             b == up[c] \o Unsents(c)
             s == Stream(c)
  <1>1. PlaceOf(c) /\ WireTypes
    BY PlaceOfAll DEF WireInvariant
  <1>2. Live(c)
    BY <1>1 DEF PlaceOf
  <1>3. a \in Seq(Words) /\ up[c] \in Seq(Words) /\ Unsents(c) \in Seq(Words)
    BY <1>1, StreamType DEF WireTypes, PlaceTypes, BufferTypes, IssuedTypes, HandledTypes
  <1>4. b \in Seq(Words)
    BY <1>3
  <1>5. s = a \o b
    <2>1. Associates(a, up[c], Unsents(c))
      BY <1>3, Associative, Zenon
    <2> QED
      BY <1>2, <2>1 DEF Associates, Stream
  <1> HIDE DEF a, b, s
  <1>6. Joins(a, b, Words)
    BY <1>3, <1>4, Join, Zenon
  <1>7. Len(a) \in Nat /\ Len(a) >= 1
    BY <1>3, EmptyJoins DEF a
  <1>8. s \in Seq(Words) /\ Len(a) <= Len(s) /\ Len(s) \in Nat /\ \A j \in 1 .. Len(a) : s[j] = a[j]
    BY <1>5, <1>6, <1>7 DEF Joins
  <1>9. s # <<>> /\ s[1] = a[1]
    BY <1>7, <1>8
  <1>10. WholeRequests(issued, s) /\ Proper(issued)
    BY <1>1, IssuedIsProper DEF s, WireInvariant, StreamsWhole
  <1>11. /\ s[1].of \in 1 .. Current /\ issued[s[1].of].op \in Messages
         /\ s[1].int = Word * Len(RequestOf(issued, s[1].of))
    BY <1>8, <1>9, <1>10, WholeFirst DEF Current
  <1> QED
    BY <1>2, <1>3, <1>7, <1>8, <1>9, <1>11 DEF a, s
-----------------------------------------------------------------------------
(* Steps that leave a part alone.                                          *)

\* A step that does not touch the agent of d.
AgentSame(d) ==
  /\ apc'[d] = apc[d] /\ areq'[d] = areq[d] /\ asend'[d] = asend[d]
  /\ recvSize'[d] = recvSize[d] /\ resultSize'[d] = resultSize[d]
  /\ Live(d)' <=> Live(d)
  /\ ~Live(d) => up'[d] = up[d]
  /\ d > opened => down'[d] = down[d]

LEMMA PlaceKeeps ==
  ASSUME WireInvariant, IssuedGrows, opened' \in Conns, opened <= opened',
         NEW d \in Conns, AgentSame(d)
  PROVE  PlaceOf(d)'
  <1>1. PlaceOf(d)
    BY PlaceOfAll DEF WireInvariant
  <1>2. d > opened' => d > opened
    BY ConnFacts DEF WireInvariant, WireTypes, PlaceTypes, BufferTypes, IssuedTypes, HandledTypes
  <1>3. areq[d] # <<>> => RequestOf(issued', areq[d][1].of) = RequestOf(issued, areq[d][1].of)
    <2> SUFFICES ASSUME areq[d] # <<>>
                 PROVE  RequestOf(issued', areq[d][1].of) = RequestOf(issued, areq[d][1].of)
      OBVIOUS
    <2>1. areq[d][1].of \in 1 .. Len(issued)
      BY AgentWords DEF Current
    <2>2. issued'[areq[d][1].of] = issued[areq[d][1].of]
      BY <2>1 DEF IssuedGrows
    <2> QED
      BY <2>2 DEF RequestOf
  <1>4. apc[d] \in {"handle", "send"} =>
           areq[d] # <<>> /\ Len(areq[d]) = Len(RequestOf(issued', areq[d][1].of))
    BY <1>1, <1>3 DEF PlaceOf
  <1>5. (Live(d) <=> apc[d] \notin {"none", "end"}) /\ (d > opened' => apc[d] = "none" /\ down[d] = <<>>)
    BY <1>1, <1>2 DEF PlaceOf
  <1> HIDE DEF Live
  <1>6. /\ Live(d)' <=> apc'[d] \notin {"none", "end"}
        /\ d > opened' => apc'[d] = "none" /\ down'[d] = <<>>
        /\ ~Live(d)' => up'[d] = <<>>
    BY <1>1, <1>2, <1>5 DEF AgentSame, PlaceOf
  <1>7. /\ apc'[d] \in {"none", "length", "end"} => areq'[d] = <<>>
        /\ apc'[d] = "body" => Len(areq'[d]) = 1
        /\ apc'[d] \in {"handle", "send"} =>
              areq'[d] # <<>> /\ Len(areq'[d]) = Len(RequestOf(issued', areq'[d][1].of))
        /\ apc'[d] # "send" => asend'[d] = <<>>
        /\ apc'[d] = "send" => asend'[d] # <<>>
        /\ apc'[d] \in {"body", "handle"} => areq'[d][1].int + 1 <= recvSize'[d]
        /\ Word * Len(asend'[d]) <= resultSize'[d]
    BY <1>1, <1>4 DEF AgentSame, PlaceOf
  <1> QED
    BY <1>6, <1>7 DEF PlaceOf

LEMMA MatchGrows ==
  ASSUME WireInvariant, IssuedGrows, UNCHANGED handled, opened' \in Conns, opened <= opened'
  PROVE  HandledMatch'
  <1> SUFFICES ASSUME NEW i \in 1 .. Len(handled)
               PROVE  /\ handled[i].n \in 1 .. Len(issued')
                      /\ handled[i].conn <= opened'
                      /\ handled[i].op = issued'[handled[i].n].op
                      /\ handled[i].doc = issued'[handled[i].n].doc
                      /\ handled[i].found = NoDoc <=>
                            ~(handled[i].op = OP_QUERY /\ handled[i].code = EDB_OK)
    BY DEF HandledMatch, Current
  <1>1. /\ handled[i].n \in 1 .. Len(issued) /\ handled[i].conn <= opened
        /\ handled[i].op = issued[handled[i].n].op
        /\ handled[i].doc = issued[handled[i].n].doc
        /\ handled[i].found = NoDoc <=> ~(handled[i].op = OP_QUERY /\ handled[i].code = EDB_OK)
    BY DEF WireInvariant, HandledMatch, Current
  <1>2. issued'[handled[i].n] = issued[handled[i].n] /\ handled[i].n \in 1 .. Len(issued')
    BY <1>1 DEF IssuedGrows
  <1>3. handled[i].conn \in Nat /\ opened \in Nat /\ opened' \in Nat
    BY ConnFacts, HandledType DEF WireInvariant, WireTypes, PlaceTypes
  <1>4. handled[i].conn <= opened'
    BY <1>1, <1>3
  <1> QED
    BY <1>1, <1>2, <1>4

\* Streams that only lose requests, while no new one is handled.
LEMMA KeepOrder ==
  ASSUME WireInvariant, IssuedGrows, UNCHANGED handled, opened' \in Conns, opened <= opened',
         \A d \in Conns : WholeRequests(issued', Stream(d)'),
         \A d \in Conns : Waiting(d)' \subseteq Waiting(d)
  PROVE  StreamsWhole' /\ HandledMatch' /\ Order'
  <1>1. StreamsWhole'
    BY DEF StreamsWhole
  <1>2. HandledMatch'
    BY MatchGrows
  <1>3. Order'
    <2>1. \A c, d \in Conns : c < d => \A m \in Waiting(c)', n \in Waiting(d)' : m < n
      BY DEF WireInvariant, Order
    <2>2. \A i \in 1 .. Len(handled), c \in Conns : \A n \in Waiting(c)' :
             IF handled[i].conn <= c THEN handled[i].n < n ELSE n < handled[i].n
      BY DEF WireInvariant, Order
    <2>3. \A i, j \in 1 .. Len(handled) :
             /\ handled[i].conn < handled[j].conn => handled[i].n < handled[j].n
             /\ i < j /\ handled[i].conn = handled[j].conn => handled[i].n < handled[j].n
      BY DEF WireInvariant, Order
    <2> QED
      BY <2>1, <2>2, <2>3 DEF Order
  <1> QED
    BY <1>1, <1>2, <1>3

\* The same, where every stream stays as it is or is lost.
LEMMA KeepStreams ==
  ASSUME WireInvariant, IssuedGrows, UNCHANGED handled, opened' \in Conns, opened <= opened',
         \A d \in Conns : (Stream(d)' = Stream(d) /\ apc'[d] = apc[d]) \/ Stream(d)' = <<>>
  PROVE  StreamsWhole' /\ HandledMatch' /\ Order'
  <1>1. ASSUME NEW d \in Conns PROVE WholeRequests(issued', Stream(d)')
    <2>1. CASE Stream(d)' = <<>>
      BY <2>1, WholeEmpty
    <2>2. CASE Stream(d)' = Stream(d)
      <3>1. WholeRequests(issued, Stream(d))
        BY DEF WireInvariant, StreamsWhole
      <3>2. WholeRequests(issued', Stream(d))
        BY <3>1, WholeGrows DEF IssuedGrows
      <3> QED
        BY <2>2, <3>2
    <2> QED
      BY <2>1, <2>2
  <1>2. ASSUME NEW d \in Conns PROVE Waiting(d)' \subseteq Waiting(d)
    <2>1. CASE Stream(d)' = <<>>
      <3>1. Waiting(d)' = BegunFrom(<<>>, IF apc'[d] = "send" THEN 2 ELSE 1)
        BY <2>1 DEF Waiting
      <3> QED
        BY <3>1, BegunEmpty
    <2>2. CASE Stream(d)' = Stream(d) /\ apc'[d] = apc[d]
      BY <2>2 DEF Waiting
    <2> QED
      BY <2>1, <2>2
  <1> QED
    BY <1>1, <1>2, KeepOrder
\* A request that waits is still the current one or given up.
LEMMA KeepPending ==
  ASSUME WireInvariant, ~skewed, NEW d \in Conns, Waiting(d)' \subseteq Waiting(d),
         UNCHANGED <<conn, issued, gaveUp>>, cpc # "prompt" => cpc' # "prompt"
  PROVE  \A n \in Waiting(d)' : Pending(d, n)'
  <1>1. TurnOf(d)
    BY DEF WireInvariant, InTurn
  <1>2. \A n : Pending(d, n) => Pending(d, n)'
    BY DEF Pending, Current
  <1> QED
    BY <1>1, <1>2 DEF TurnOf

\* A step of another agent.
LEMMA OtherTurn ==
  ASSUME WireInvariant, ~skewed, NEW d \in Conns,
         UNCHANGED <<conn, cpc, issued, gaveUp>>,
         "client" \in alive'[d] => "client" \in alive[d], Live(d)' <=> Live(d),
         Back(d)' = Back(d), Stream(d)' = Stream(d), apc'[d] = apc[d], areq'[d] = areq[d],
         \A i \in 1 .. Len(handled) : i \in 1 .. Len(handled') /\ handled'[i] = handled[i]
  PROVE  TurnOf(d)'
  <1>1. TurnOf(d)
    BY DEF WireInvariant, InTurn
  <1>2. Asked(d) => Asked(d)'
    BY DEF Asked, Current
  <1>3. ASSUME NEW i \in 1 .. Len(handled), Answered(d, i)
        PROVE  i \in 1 .. Len(handled') /\ Answered(d, i)'
    <2>1. i \in 1 .. Len(handled') /\ handled'[i] = handled[i]
      OBVIOUS
    <2>2. Prefix(Back(d)', ReplyOf(handled'[i])) /\ handled'[i].n = Current'
      BY <1>3, <2>1 DEF Answered, Current
    <2> QED
      BY <1>3, <2>1, <2>2 DEF Answered
  <1>4. Waiting(d)' = Waiting(d)
    BY DEF Waiting
  <1>5. \A n \in Waiting(d)' : Pending(d, n)'
    BY <1>4, KeepPending
  <1>6. d = conn /\ cpc = "prompt" /\ "client" \in alive'[d] => Stream(d)' = <<>> /\ Back(d)' = <<>>
    BY <1>1 DEF TurnOf
  <1>7. d = conn /\ cpc = "send" => Asked(d)'
    BY <1>1, <1>2 DEF TurnOf
  <1>8. d = conn /\ cpc \in {"length", "body"} =>
           Asked(d)' \/ \E i \in 1 .. Len(handled') : Answered(d, i)'
    BY <1>1, <1>2, <1>3 DEF TurnOf
  <1> QED
    BY <1>5, <1>6, <1>7, <1>8 DEF TurnOf

\* Nothing was kept from a connection that the shell still has.
LEMMA Uncut ==
  ASSUME WireInvariant, NEW d \in Conns, "client" \in alive[d] \/ d > opened
  PROVE  cut[d] = <<>>
  BY DEF WireInvariant, ShellPlaces
-----------------------------------------------------------------------------
(* The shell's command ends.                                               *)

LEMMA ShellConn ==
  ASSUME WireInvariant, cpc # "prompt"
  PROVE  /\ conn \in Conns /\ conn = opened /\ "client" \in alive[conn]
         /\ Current \in Nat /\ Current > 0 /\ issued[Current].op \in Messages
  <1>1. conn \in {NoConn, opened} /\ opened \in Conns
    BY DEF WireInvariant, WireTypes, PlaceTypes
  <1>2. Connected /\ Current > 0 /\ issued[Current].op \in Messages
    BY DEF WireInvariant, ShellPlaces
  <1>3. Current \in Nat
    BY DEF WireInvariant, WireTypes, IssuedTypes, Current
  <1> QED
    BY <1>1, <1>2, <1>3 DEF Connected

LEMMA ReportInv ==
  ASSUME WireInvariant, cpc' = "prompt", csend' = <<>>, cbuf' = <<>>,
         UNCHANGED <<store, up, conn, opened, agent, handled>>,
         IssuedGrows, IssuedTypes', skewed' \in BOOLEAN, skewed => skewed',
         ~skewed' => AnswersOwnRequest',
         alive' \in [Conns -> SUBSET Ends],
         \A d \in Conns : Live(d)' <=> Live(d),
         cut' \in [Conns -> Seq(Words)], \A d \in Conns : d # conn => cut'[d] = cut[d],
         \A d \in Conns : "client" \in alive'[d] \/ d > opened => cut'[d] = <<>>,
         gaveUp \subseteq gaveUp',
         ~skewed' => \A d \in Conns : d = conn => Waiting(d)' \subseteq gaveUp',
         down' \in [Conns -> Seq(Words)], \A d \in Conns : d # conn => down'[d] = down[d],
         \A d \in Conns : d = conn => WholeRequests(issued', Stream(d)'),
         \A d \in Conns : d = conn => Waiting(d)' \subseteq Waiting(d),
         ~skewed' => \A c \in Conns : c = conn /\ "client" \in alive'[c] =>
                        Stream(c)' = <<>> /\ Back(c)' = <<>>
  PROVE  WireInvariant'
  <1>1. WireTypes'
    <2>1. PlaceTypes'
      BY DEF WireInvariant, WireTypes, PlaceTypes, agent
    <2>2. BufferTypes'
      BY DEF WireInvariant, WireTypes, BufferTypes, agent
    <2>3. HandledTypes'
      BY DEF WireInvariant, WireTypes, HandledTypes
    <2> QED
      BY <2>1, <2>2, <2>3 DEF WireTypes
  <1>2. ShellPlaces'
    BY DEF ShellPlaces
  <1>0. /\ UNCHANGED <<apc, areq, asend, recvSize, resultSize>>
        /\ opened' \in Conns /\ opened <= opened'
    BY ConnFacts DEF WireInvariant, WireTypes, PlaceTypes, agent
  <1>3. AgentPlaces'
    <2>1. ASSUME NEW d \in Conns PROVE PlaceOf(d)'
      <3>1. d > opened => down'[d] = down[d]
        BY ConnFacts DEF WireInvariant, WireTypes, PlaceTypes
      <3>2. AgentSame(d)
        BY <1>0, <3>1 DEF AgentSame
      <3> QED
        BY <1>0, <3>2, PlaceKeeps
    <2> QED
      BY <2>1, PlaceOfAll DEF AgentPlaces, PlaceOf
  <1>4. ASSUME NEW d \in Conns, d # conn PROVE Stream(d)' = Stream(d) /\ Waiting(d)' = Waiting(d)
    <2>1. Unsents(d)' = Unsents(d)
      BY <1>4 DEF Unsents
    <2>2. Stream(d)' = Stream(d)
      BY <1>0, <2>1, StreamSame
    <2> QED
      BY <1>0, <2>2 DEF Waiting
  <1>5. StreamsWhole' /\ HandledMatch' /\ Order'
    <2>1. ASSUME NEW d \in Conns PROVE WholeRequests(issued', Stream(d)')
      <3>1. CASE d # conn
        <4>1. WholeRequests(issued, Stream(d))
          BY DEF WireInvariant, StreamsWhole
        <4>2. WholeRequests(issued', Stream(d))
          BY <4>1, WholeGrows DEF IssuedGrows
        <4> QED
          BY <1>4, <3>1, <4>2
      <3> QED
        BY <3>1
    <2>2. \A d \in Conns : Waiting(d)' \subseteq Waiting(d)
      BY <1>4
    <2> QED
      BY <1>0, <2>1, <2>2, KeepOrder
  <1>6. InTurn'
    <2> SUFFICES ASSUME ~skewed'
                 PROVE  (\A c \in Conns : TurnOf(c))' /\ ExecutedInOrder' /\ AnswersOwnRequest'
      BY DEF InTurn
    <2>1. ASSUME NEW c \in Conns PROVE TurnOf(c)'
      <3>1. ASSUME NEW m \in Waiting(c)' PROVE Pending(c, m)'
        <4>1. CASE c = conn
          BY <4>1 DEF Pending
        <4>2. CASE c # conn
          <5>1. Pending(c, m)
            BY <1>4, <4>2 DEF WireInvariant, InTurn, TurnOf
          <5> QED
            BY <4>2, <5>1 DEF Pending
        <4> QED
          BY <4>1, <4>2
      <3> QED
        BY <3>1 DEF TurnOf
    <2>2. ExecutedInOrder'
      BY DEF WireInvariant, InTurn, ExecutedInOrder
    <2> QED
      BY <2>1, <2>2
  <1> QED
    BY <1>1, <1>2, <1>3, <1>5, <1>6 DEF WireInvariant

LEMMA IssuedTypesAppend ==
  ASSUME WireTypes, NEW x \in [op : Messages \cup {OP_NONE}, doc : Documents \cup {NoDoc}],
         x.op \in Messages => x.doc \in Documents /\ (x.op # OP_INSERT => x.doc.id \in Ids),
         issued' = Append(issued, x)
  PROVE  IssuedTypes'
  <1> DEFINE X == [op : Messages \cup {OP_NONE}, doc : Documents \cup {NoDoc}]
  <1>1. issued \in Seq(X) /\ Current = Len(issued)
    BY DEF WireTypes, IssuedTypes, Current
  <1> HIDE DEF X
  <1>2. x \in X
    BY DEF X
  <1>3. issued' \in Seq(X)
    BY <1>1, <1>2
  <1>4. /\ Len(issued') = Current + 1 /\ issued'[Current + 1] = x /\ Current \in Nat
        /\ \A n \in 1 .. Current : issued'[n] = issued[n]
    BY GrowsAppend DEF IssuedGrows, Current
  <1>5. ASSUME NEW n \in 1 .. Len(issued'), issued'[n].op \in Messages
        PROVE  issued'[n].doc \in Documents /\ (issued'[n].op # OP_INSERT => issued'[n].doc.id \in Ids)
    <2>1. CASE n = Current + 1
      BY <1>4, <1>5, <2>1
    <2>2. CASE n # Current + 1
      <3>1. n \in 1 .. Current
        BY <1>4, <2>2
      <3> QED
        BY <1>4, <1>5, <3>1 DEF WireTypes, IssuedTypes
    <2> QED
      BY <2>1, <2>2
  <1> QED
    BY <1>3, <1>5 DEF IssuedTypes, Current, X

LEMMA LeaveType ==
  ASSUME WireTypes
  PROVE  /\ Leave(conn) \in [Conns -> SUBSET Ends]
         /\ \A d \in Conns : "agent" \in Leave(conn)[d] <=> "agent" \in alive[d]
         /\ \A d \in Conns : d = conn => "client" \notin Leave(conn)[d]
         /\ \A d \in Conns : d # conn => Leave(conn)[d] = alive[d]
  BY ConnFacts DEF WireTypes, PlaceTypes, Leave

\* A command that ends without an answer of the server: the connection stays
\* as it is at the prompt, or the agent has ended, or the connection is left,
\* and with it what was not sent.
LEMMA PlainReport ==
  ASSUME WireInvariant, NEW n, NEW code, NEW d, Report(n, code, d, FALSE),
         UNCHANGED <<store, up, conn, opened, agent, handled, skewed>>,
         IssuedGrows, IssuedTypes', cpc # "prompt" => n = Current,
         cut' = IF cpc = "send" THEN [cut EXCEPT ![conn] = csend] ELSE cut,
         UNCHANGED down \/ down' = [down EXCEPT ![conn] = <<>>],
         \/ cpc = "prompt" /\ UNCHANGED <<alive, down>>
         \/ /\ cpc \in {"length", "body"} /\ ~Live(conn) /\ UNCHANGED alive
            /\ down' = [down EXCEPT ![conn] = <<>>]
         \/ alive' = Leave(conn)
  PROVE  WireInvariant'
  <1>0. WireTypes /\ ShellPlaces /\ InTurn
    BY DEF WireInvariant
  <1>1. /\ cpc' = "prompt" /\ csend' = <<>> /\ cbuf' = <<>> /\ result'.server = FALSE
        /\ gaveUp' = gaveUp \cup {n}
    BY DEF Report
  <1>2. ~skewed' => AnswersOwnRequest'
    BY <1>1 DEF AnswersOwnRequest
  <1>3. alive' \in [Conns -> SUBSET Ends] /\ \A e \in Conns : Live(e)' <=> Live(e)
    BY <1>0, LeaveType DEF WireTypes, PlaceTypes, Live
  <1>u. cut' \in [Conns -> Seq(Words)] /\ \A e \in Conns : e # conn => cut'[e] = cut[e]
    BY <1>0 DEF WireTypes, BufferTypes
  <1>4. ASSUME NEW c \in Conns, "client" \in alive'[c] \/ c > opened PROVE cut'[c] = <<>>
    <2>1. CASE c # conn
      <3>1. "client" \in alive[c] \/ c > opened
        BY <1>0, <1>4, <2>1, LeaveType
      <3> QED
        BY <1>u, <2>1, <3>1, Uncut
    <2>2. CASE c = conn
      <3>1. "client" \in alive'[c]
        BY <1>0, <1>4, <2>2, ConnFacts DEF WireTypes, PlaceTypes
      <3>2. alive' # Leave(conn)
        BY <1>0, <2>2, <3>1, LeaveType
      <3>3. UNCHANGED <<alive, cut>>
        BY <3>2
      <3> QED
        BY <3>1, <3>3, Uncut
    <2> QED
      BY <2>1, <2>2
  <1>5. down' \in [Conns -> Seq(Words)] /\ \A e \in Conns : e # conn => down'[e] = down[e]
    <2>1. <<>> \in Seq(Words)
      OBVIOUS
    <2> QED
      BY <1>0, <2>1 DEF WireTypes, BufferTypes
  <1>6. ASSUME NEW c \in Conns, c = conn PROVE Stream(c)' = Stream(c)
    <2>1. cpc # "send" => csend = <<>> /\ cut' = cut
      BY <1>0 DEF ShellPlaces
    <2>2. cpc = "send" => cut'[c] = csend /\ "client" \in alive[c]
      BY <1>0, <1>6, ShellConn DEF WireTypes, BufferTypes
    <2>3. "client" \in alive[c] => cut[c] = <<>>
      BY Uncut
    <2>4. CASE alive' = Leave(conn)
      <3>1. Unsents(c)' = cut'[c]
        BY <1>0, <1>6, <2>4, LeaveType DEF Unsents
      <3>2. Unsents(c)' = Unsents(c)
        BY <1>6, <2>1, <2>2, <2>3, <3>1 DEF Unsents
      <3> QED
        BY <1>3, <3>2, StreamSame DEF agent
    <2>5. CASE alive' # Leave(conn)
      <3>1. UNCHANGED alive /\ cpc # "send"
        BY <2>5
      <3>2. Unsents(c)' = Unsents(c)
        BY <1>1, <1>6, <2>1, <3>1 DEF Unsents
      <3> QED
        BY <1>3, <3>2, StreamSame DEF agent
    <2> QED
      BY <2>4, <2>5
  <1>7. ASSUME NEW c \in Conns, c = conn
        PROVE  WholeRequests(issued', Stream(c)') /\ Waiting(c)' \subseteq Waiting(c)
    <2>1. WholeRequests(issued, Stream(c))
      BY DEF WireInvariant, StreamsWhole
    <2>2. WholeRequests(issued', Stream(c))
      BY <2>1, WholeGrows DEF IssuedGrows
    <2> QED
      BY <1>6, <1>7, <2>2 DEF Waiting, agent
  <1>8. ASSUME ~skewed', NEW c \in Conns, c = conn, "client" \in alive'[c]
        PROVE  Stream(c)' = <<>> /\ Back(c)' = <<>>
    <2>1. alive' # Leave(conn)
      BY <1>0, <1>8, LeaveType
    <2>2. CASE cpc = "prompt"
      <3>1. UNCHANGED <<alive, down>>
        BY <2>1, <2>2
      <3>2. Stream(c) = <<>> /\ Back(c) = <<>>
        BY <1>0, <1>8, <2>2, <3>1 DEF InTurn, TurnOf
      <3>3. Kept(c)' = Kept(c)
        BY <1>0, <1>1, <2>2 DEF Kept, ShellPlaces
      <3>4. Back(c)' = Back(c)
        BY <3>1, <3>3 DEF Back, agent
      <3> QED
        BY <1>6, <1>8, <3>2, <3>4
    <2>3. CASE cpc # "prompt"
      <3>1. down' = [down EXCEPT ![conn] = <<>>] /\ ~Live(c)
        BY <1>8, <2>1, <2>3
      <3>2. down'[c] = <<>> /\ Kept(c)' = <<>>
        BY <1>0, <1>1, <1>8, <3>1 DEF WireTypes, BufferTypes, Kept
      <3>3. asend'[c] = <<>>
        <4>1. PlaceOf(c)
          BY PlaceOfAll DEF WireInvariant
        <4> QED
          BY <3>1, <4>1 DEF PlaceOf, agent
      <3>4. Stream(c) = <<>>
        BY <3>1 DEF Stream
      <3>5. Back(c)' = (<<>> \o <<>>) \o <<>>
        BY <3>2, <3>3 DEF Back
      <3> QED
        BY <1>6, <1>8, <3>4, <3>5
    <2> QED
      BY <2>2, <2>3
  <1>9. skewed' \in BOOLEAN /\ (skewed => skewed')
    BY <1>0 DEF WireTypes, HandledTypes
  <1>10. ASSUME ~skewed', NEW c \in Conns, c = conn PROVE Waiting(c)' \subseteq gaveUp'
    <2>1. \A m \in Waiting(c) : Pending(c, m)
      BY <1>0, <1>10 DEF InTurn, TurnOf
    <2> QED
      BY <1>1, <1>7, <1>10, <2>1 DEF Pending
  <1>11. gaveUp \subseteq gaveUp'
    BY <1>1
  <1> QED
    BY <1>1, <1>2, <1>3, <1>4, <1>u, <1>5, <1>7, <1>8, <1>9, <1>10, <1>11, ReportInv

LEMMA StepIssueFails == WireInvariant /\ IssueFails => WireInvariant'
  <1> SUFFICES ASSUME WireInvariant, IssueFails PROVE WireInvariant'
    OBVIOUS
  <1>1. WireTypes
    BY DEF WireInvariant
  <1> DEFINE x == [op |-> OP_NONE, doc |-> NoDoc]
  <1>2. /\ cpc = "prompt" /\ issued' = Append(issued, x)
        /\ UNCHANGED <<store, up, down, conn, opened, agent, handled, skewed, cut>>
    BY DEF IssueFails
  <1>3. x \in [op : Messages \cup {OP_NONE}, doc : Documents \cup {NoDoc}] /\ x.op \notin Messages
    BY DEF Messages, OP_NONE, OP_INSERT, OP_DELETE, OP_QUERY
  <1> HIDE DEF x
  <1>4. IssuedTypes' /\ IssuedGrows
    BY <1>1, <1>2, <1>3, IssuedTypesAppend, GrowsAppend
  <1>5. CASE Connected /\ Report(Current + 1, EDB_INVALID_RECORD, NoDoc, FALSE) /\ UNCHANGED alive
    BY <1>2, <1>4, <1>5, PlainReport
  <1>6. CASE Report(Current + 1, EDB_SOCKET_NOT_CONNECT, NoDoc, FALSE) /\ alive' = Leave(conn)
    BY <1>2, <1>4, <1>6, PlainReport
  <1> QED
    BY <1>5, <1>6 DEF IssueFails

\* The connection was lost: the three places where the shell learns of it.
LEMMA StepLost ==
  ASSUME WireInvariant, SendFails \/ ReplyUnreachable \/ ReceiveFails PROVE WireInvariant'
  <1>1. WireTypes
    BY DEF WireInvariant
  <1>2. cpc # "prompt" /\ UNCHANGED <<store, up, conn, opened, issued, agent, handled, skewed>>
    BY DEF SendFails, ReplyUnreachable, ReceiveFails
  <1>4. IssuedTypes' /\ IssuedGrows
    BY <1>1, <1>2, GrowsSame DEF WireTypes, IssuedTypes, Current
  <1>5. CASE SendFails
    <2>1. Report(Current, EDB_SOCKET_SEND_FAILED, NoDoc, FALSE)
      BY <1>5, Zenon DEF SendFails
    <2>2. alive' = Leave(conn) /\ UNCHANGED down /\ cut' = [cut EXCEPT ![conn] = csend] /\ cpc = "send"
      BY <1>5, Zenon DEF SendFails
    <2> QED
      BY <1>2, <1>4, <2>1, <2>2, PlainReport
  <1>6. CASE ReplyUnreachable
    <2>1. Report(Current, EDB_SOCKET_NOT_CONNECT, NoDoc, FALSE)
      BY <1>6, Zenon DEF ReplyUnreachable
    <2>2. alive' = Leave(conn) /\ UNCHANGED <<down, cut>> /\ cpc = "length"
      BY <1>6 DEF ReplyUnreachable
    <2> QED
      BY <1>2, <1>4, <2>1, <2>2, PlainReport
  <1>7. CASE ReceiveFails
    <2>1. /\ Report(Current, EDB_INTERNAL_ERROR, NoDoc, FALSE) /\ cpc \in {"length", "body"}
          /\ down' = [down EXCEPT ![conn] = <<>>] /\ UNCHANGED cut
      BY <1>7 DEF ReceiveFails
    <2>2. ("agent" \notin alive[conn] /\ UNCHANGED alive) \/ alive' = Leave(conn)
      BY <1>7 DEF ReceiveFails
    <2>3. (~Live(conn) /\ UNCHANGED alive) \/ alive' = Leave(conn)
      BY <2>2 DEF Live
    <2> QED
      BY <1>2, <1>4, <2>1, <2>3, PlainReport
  <1> QED
    BY <1>5, <1>6, <1>7

\* The request was not begun: the stream ends with all of it.
LEMMA StepSendTimesOut == WireInvariant /\ SendTimesOut => WireInvariant'
  <1> SUFFICES ASSUME WireInvariant, SendTimesOut PROVE WireInvariant'
    OBVIOUS
  <1>0. WireTypes /\ ShellPlaces /\ InTurn /\ Proper(issued)
    BY IssuedIsProper DEF WireInvariant
  <1>1. /\ cpc = "send" /\ csend = RequestOf(issued, Current)
        /\ cpc' = "prompt" /\ csend' = <<>> /\ cbuf' = <<>> /\ result'.server = FALSE
        /\ gaveUp' = gaveUp \cup {Current}
        /\ UNCHANGED <<store, up, down, alive, conn, opened, issued, agent, handled, skewed, cut>>
    BY DEF SendTimesOut, Report, Unsent, RequestOf
  <1>2. /\ conn \in Conns /\ Current \in Nat /\ Current > 0 /\ issued[Current].op \in Messages
        /\ Current \in 1 .. Len(issued) /\ cbuf = <<>> /\ "client" \in alive[conn]
    BY <1>0, <1>1, ShellConn DEF ShellPlaces, Current
  <1> DEFINE c == conn
             r == RequestOf(issued, Current)
             s == areq[c] \o up[c]
  <1>3. /\ r \in Seq(Words) /\ Len(r) \in Nat /\ r[1].of = Current
        /\ \A j \in 2 .. Len(r) : ~Begins(r[j])
    BY <1>0, <1>2 DEF Proper, RequestLooks
  <1>4. s \in Seq(Words)
    BY <1>0, <1>2 DEF WireTypes, BufferTypes
  <1>5. s \o <<>> = s
    BY <1>4, EmptyJoins
  <1>6. Live(c) => Stream(c) = s \o r /\ Stream(c)' = s
    BY <1>1, <1>2, <1>5 DEF Stream, Unsents, Live, agent
  <1>7. ~Live(c) => Stream(c) = <<>> /\ Stream(c)' = <<>>
    BY <1>1 DEF Stream, Live
  <1>8. IssuedTypes' /\ IssuedGrows
    BY <1>0, <1>1, GrowsSame DEF WireTypes, IssuedTypes, Current
  <1>9. WholeRequests(issued, Stream(c)')
    <2>1. CASE Live(c)
      <3>1. WholeRequests(issued, s \o r)
        BY <1>2, <1>6, <2>1 DEF WireInvariant, StreamsWhole
      <3> HIDE DEF s
      <3>2. WholeRequests(issued, s)
        BY <1>0, <1>2, <1>4, <3>1, WholeDropLast
      <3> QED
        BY <1>6, <2>1, <3>2
    <2>2. CASE ~Live(c)
      BY <1>7, <2>2, WholeEmpty
    <2> QED
      BY <2>1, <2>2
  <1>10. Waiting(c)' \subseteq Waiting(c)
    <2> DEFINE f == IF apc[c] = "send" THEN 2 ELSE 1
    <2>1. Waiting(c)' = BegunFrom(Stream(c)', f) /\ Waiting(c) = BegunFrom(Stream(c), f)
      BY <1>1 DEF Waiting, agent
    <2>2. f \in {1, 2}
      OBVIOUS
    <2> HIDE DEF f
    <2>3. CASE Live(c)
      <3>1. BegunBy(r, Current)
        BY <1>0, <1>2, BegunInRequest
      <3> HIDE DEF s, r
      <3>2. BegunJoins(s, r, f, Current)
        BY <1>3, <1>4, <2>2, <3>1, BegunAppend, Zenon
      <3>3. BegunFrom(s, f) \subseteq BegunFrom(s \o r, f)
        BY <3>2 DEF BegunJoins
      <3> QED
        BY <1>6, <2>1, <2>3, <3>3
    <2>4. CASE ~Live(c)
      BY <1>7, <2>1, <2>4
    <2> QED
      BY <2>3, <2>4
  <1>11. ASSUME ~skewed PROVE Stream(c)' = <<>> /\ Back(c)' = <<>>
    <2>1. Asked(c)
      BY <1>0, <1>1, <1>2, <1>11 DEF InTurn, TurnOf
    <2>2. Back(c)' = Back(c)
      BY <1>1, <1>2 DEF Back, Kept, agent
    <2>3. CASE Live(c)
      <3>1. s \o r = r
        BY <1>6, <2>1, <2>3 DEF Asked
      <3> HIDE DEF s, r
      <3>2. Joins(s, r, Words)
        BY <1>3, <1>4, Join, Zenon
      <3>3. Len(s) = 0
        BY <3>1, <3>2 DEF Joins
      <3> QED
        BY <1>4, <1>6, <2>1, <2>2, <2>3, <3>3, EmptyJoins DEF Asked
    <2> QED
      BY <1>7, <2>1, <2>2, <2>3 DEF Asked
  <1>12. \A d \in Conns : Live(d)' <=> Live(d)
    BY <1>1 DEF Live
  <1>13. \A d \in Conns : "client" \in alive'[d] \/ d > opened => cut'[d] = <<>>
    BY <1>1, Uncut
  <1>14. ~skewed' => AnswersOwnRequest'
    BY <1>1 DEF AnswersOwnRequest
  <1>15. alive' \in [Conns -> SUBSET Ends] /\ down' \in [Conns -> Seq(Words)] /\ skewed' \in BOOLEAN
         /\ cut' \in [Conns -> Seq(Words)] /\ gaveUp \subseteq gaveUp'
    BY <1>0, <1>1 DEF WireTypes, PlaceTypes, BufferTypes, HandledTypes
  <1>18. ~skewed => \A m \in Waiting(c)' : m \in gaveUp'
    BY <1>0, <1>1, <1>2, <1>10 DEF InTurn, TurnOf, Pending
  <1> HIDE DEF c, r, s
  <1>16. \A d \in Conns : d = conn => WholeRequests(issued', Stream(d)') /\ Waiting(d)' \subseteq Waiting(d)
    BY <1>1, <1>9, <1>10 DEF c
  <1>17. ~skewed' => \A d \in Conns : d = conn /\ "client" \in alive'[d] => Stream(d)' = <<>> /\ Back(d)' = <<>>
    BY <1>1, <1>11 DEF c
  <1>19. ~skewed' => \A d \in Conns : d = conn => Waiting(d)' \subseteq gaveUp'
    BY <1>1, <1>18 DEF c
  <1> QED
    BY <1>1, <1>8, <1>12, <1>13, <1>14, <1>15, <1>16, <1>17, <1>19, ReportInv
-----------------------------------------------------------------------------
(* The shell sends, and waits for the reply.                               *)

\* A step in which the shell only moves words from buffer to buffer.
LEMMA ShellMoves ==
  ASSUME WireInvariant, cpc # "prompt", cpc' \in {"send", "length", "body"},
         cpc' = "send" => cpc = "send",
         UNCHANGED <<store, alive, conn, opened, issued, result, agent, handled, skewed, gaveUp>>,
         BufferTypes', ShellPlaces',
         \A d \in Conns : ~Live(d) => up'[d] = up[d],
         \A d \in Conns : d > opened => down'[d] = down[d],
         \A d \in Conns : Stream(d)' = Stream(d) /\ Back(d)' = Back(d)
  PROVE  WireInvariant'
  <1>0. /\ UNCHANGED <<apc, areq, asend, recvSize, resultSize>> /\ WireTypes
        /\ opened' \in Conns /\ opened <= opened' /\ IssuedGrows
    BY ConnFacts, GrowsSame DEF WireInvariant, WireTypes, PlaceTypes, agent
  <1>1. WireTypes'
    <2>1. PlaceTypes'
      BY <1>0 DEF WireTypes, PlaceTypes
    <2>2. IssuedTypes' /\ HandledTypes'
      BY <1>0 DEF WireTypes, IssuedTypes, HandledTypes, Current
    <2> QED
      BY <2>1, <2>2 DEF WireTypes
  <1>2. \A d \in Conns : Live(d)' <=> Live(d)
    BY DEF Live
  <1>3. AgentPlaces'
    <2>1. ASSUME NEW d \in Conns PROVE PlaceOf(d)'
      <3>1. AgentSame(d)
        BY <1>0, <1>2 DEF AgentSame
      <3> QED
        BY <1>0, <3>1, PlaceKeeps
    <2> QED
      BY <2>1, PlaceOfAll DEF AgentPlaces, PlaceOf
  <1>4. StreamsWhole' /\ HandledMatch' /\ Order'
    BY <1>0, KeepStreams
  <1>5. InTurn'
    <2> SUFFICES ASSUME ~skewed
                 PROVE  (\A c \in Conns : TurnOf(c))' /\ ExecutedInOrder' /\ AnswersOwnRequest'
      BY DEF InTurn
    <2>0. /\ \A c \in Conns : TurnOf(c)
          /\ ExecutedInOrder /\ AnswersOwnRequest
      BY DEF WireInvariant, InTurn
    <2>1. ASSUME NEW c \in Conns PROVE TurnOf(c)'
      <3>1. Stream(c)' = Stream(c) /\ Back(c)' = Back(c) /\ (Live(c)' <=> Live(c)) /\ TurnOf(c)
        BY <1>2, <2>0
      <3>2. Asked(c) => Asked(c)'
        BY <1>0, <3>1 DEF Asked, Current
      <3>3. ASSUME NEW i, Answered(c, i) PROVE Answered(c, i)'
        <4>1. Prefix(Back(c), ReplyOf(handled[i])) => Prefix(Back(c)', ReplyOf(handled'[i]))
          BY <3>1
        <4> QED
          BY <1>0, <3>1, <3>3, <4>1 DEF Answered, Current
      <3>4. \A n \in Waiting(c)' : Pending(c, n)'
        <4>1. Waiting(c)' = Waiting(c)
          BY <1>0, <3>1 DEF Waiting
        <4> QED
          BY <4>1, KeepPending
      <3>5. c = conn /\ cpc' = "send" => Asked(c)'
        BY <3>1, <3>2 DEF TurnOf
      <3>6. c = conn => Asked(c)' \/ \E i \in 1 .. Len(handled) : Answered(c, i)'
        BY <3>1, <3>2, <3>3 DEF TurnOf, WireInvariant, WireTypes, PlaceTypes
      <3> QED
        BY <3>4, <3>5, <3>6 DEF TurnOf
    <2>2. ExecutedInOrder' /\ AnswersOwnRequest'
      BY <2>0 DEF ExecutedInOrder, AnswersOwnRequest
    <2> QED
      BY <2>1, <2>2
  <1> QED
    BY <1>1, <1>3, <1>4, <1>5 DEF WireInvariant

LEMMA StepSendSome == WireInvariant /\ SendSome => WireInvariant'
  <1> SUFFICES ASSUME WireInvariant, SendSome PROVE WireInvariant'
    OBVIOUS
  <1>0. WireTypes /\ ShellPlaces /\ BufferTypes
    BY DEF WireInvariant, WireTypes
  <1>1. PICK k \in Chunks(csend) :
          /\ up' = IF "agent" \in alive[conn]
                   THEN [up EXCEPT ![conn] = @ \o Take(csend, k)] ELSE up
          /\ csend' = Drop(csend, k)
          /\ cpc' = IF k = Len(csend) THEN "length" ELSE "send"
    BY DEF SendSome
  <1>2. /\ cpc = "send"
        /\ UNCHANGED <<store, down, alive, conn, cbuf, result, opened, issued, agent, handled, skewed,
                       cut, gaveUp>>
    BY DEF SendSome
  <1>3. conn \in Conns /\ conn = opened /\ "client" \in alive[conn]
    BY <1>2, ShellConn
  <1> DEFINE c == conn
             a == areq[c] \o up[c]
             t == Take(csend, k)
             e == Drop(csend, k)
  <1>4. csend \in Seq(Words) /\ Len(csend) \in Nat /\ k \in 1 .. Len(csend) /\ k \in 0 .. Len(csend)
    BY <1>0 DEF BufferTypes, Chunks
  <1>5. t \in Seq(Words) /\ e \in Seq(Words) /\ Len(e) = Len(csend) - k
    BY <1>4, CutAndJoin DEF Cuts2
  <1>6. areq[c] \in Seq(Words) /\ up[c] \in Seq(Words) /\ a \in Seq(Words)
    BY <1>0, <1>3 DEF BufferTypes
  <1>7. (a \o t) \o e = a \o csend
    <2> HIDE DEF a
    <2> QED
      BY <1>4, <1>6, MoveWords, Zenon
  <1>8. (areq[c] \o (up[c] \o t)) = a \o t
    <2> HIDE DEF t
    <2>1. Associates(areq[c], up[c], t)
      BY <1>5, <1>6, Associative, Zenon
    <2> QED
      BY <2>1 DEF Associates
  <1> HIDE DEF t, e
  <1>9. \A d \in Conns : Live(d)' <=> Live(d)
    BY <1>2 DEF Live
  <1>10. up' \in [Conns -> Seq(Words)] /\ \A d \in Conns : ~Live(d) \/ d # conn => up'[d] = up[d]
    <2>1. up[c] \o t \in Seq(Words)
      BY <1>5, <1>6
    <2> QED
      BY <1>0, <1>1, <1>3, <2>1 DEF BufferTypes, Live, t
  <1>11. Live(c) => up'[c] = up[c] \o t
    BY <1>0, <1>1, <1>3 DEF BufferTypes, Live, t
  <1>12. csend' = e
    BY <1>1 DEF e
  <1>13. ASSUME NEW d \in Conns PROVE Stream(d)' = Stream(d) /\ Back(d)' = Back(d)
    <2>1. Back(d)' = Back(d)
      BY <1>2 DEF Back, Kept, agent
    <2>2. CASE d # conn
      <3>1. Unsents(d)' = Unsents(d)
        BY <1>2, <2>2 DEF Unsents
      <3>2. Stream(d)' = Stream(d)
        BY <1>2, <1>9, <1>10, <2>2, <3>1, StreamSame DEF agent
      <3> QED
        BY <2>1, <3>2
    <2>3. CASE d = conn /\ ~Live(d)
      BY <1>9, <2>1, <2>3 DEF Stream
    <2>4. CASE d = conn /\ Live(d)
      <3>1. Stream(d) = a \o csend
        BY <1>3, <2>4 DEF Stream, Unsents
      <3>2. Stream(d)' = (areq[c] \o (up[c] \o t)) \o e
        BY <1>2, <1>3, <1>9, <1>11, <1>12, <2>4 DEF Stream, Unsents, agent
      <3> QED
        BY <1>7, <1>8, <2>1, <3>1, <3>2
    <2> QED
      BY <2>2, <2>3, <2>4
  <1>14. BufferTypes'
    BY <1>0, <1>2, <1>5, <1>10, <1>12 DEF BufferTypes, agent
  <1>15. ShellPlaces'
    <2>1. cpc' = "send" => csend' # <<>>
      BY <1>1, <1>4, <1>5, <1>12
    <2>2. cpc' # "send" => csend' = <<>>
      BY <1>1, <1>4, <1>5, <1>12, EmptyJoins
    <2>3. cpc' # "body" /\ cbuf' = <<>> /\ cpc' # "prompt"
      BY <1>0, <1>1, <1>2 DEF ShellPlaces
    <2>4. Connected' /\ Current' > 0 /\ issued'[Current'].op \in Messages
      BY <1>0, <1>2 DEF ShellPlaces, Connected, Current
    <2>5. \A d \in Conns : "client" \in alive'[d] \/ d > opened' => cut'[d] = <<>>
      BY <1>2, Uncut
    <2> QED
      BY <2>1, <2>2, <2>3, <2>4, <2>5 DEF ShellPlaces
  <1> QED
    BY <1>1, <1>2, <1>10, <1>13, <1>14, <1>15, ShellMoves

\* A step in which the shell takes words of a reply leaves the streams to the
\* agents alone.
LEMMA NoneSent ==
  ASSUME WireInvariant, cpc \in {"length", "body"}, csend' = <<>>,
         UNCHANGED <<up, alive, conn, agent, cut>>, NEW d \in Conns
  PROVE  Stream(d)' = Stream(d) /\ (Live(d)' <=> Live(d)) /\ Waiting(d)' = Waiting(d)
  <1>1. csend = <<>>
    BY DEF WireInvariant, ShellPlaces
  <1>2. (Live(d)' <=> Live(d)) /\ Unsents(d)' = Unsents(d)
    BY <1>1 DEF Live, Unsents
  <1>3. Stream(d)' = Stream(d)
    BY <1>2, StreamSame DEF agent
  <1> QED
    BY <1>2, <1>3 DEF Waiting, agent

\* The end of a command for the steps that take words of a reply.
LEMMA ReplyEnds ==
  ASSUME WireInvariant, cpc \in {"length", "body"}, NEW code, NEW d, NEW server,
         Report(Current, code, d, server),
         UNCHANGED <<store, up, alive, conn, opened, issued, agent, handled, cut>>,
         skewed' \in BOOLEAN, skewed => skewed', ~skewed' => AnswersOwnRequest',
         down' \in [Conns -> Seq(Words)], \A e \in Conns : e # conn => down'[e] = down[e],
         ~skewed' => Stream(conn)' = <<>> /\ Back(conn)' = <<>>
  PROVE  WireInvariant'
  <1>0. WireTypes /\ ShellPlaces
    BY DEF WireInvariant
  <1>1. cpc' = "prompt" /\ csend' = <<>> /\ cbuf' = <<>>
    BY DEF Report
  <1>2. ASSUME NEW e \in Conns
        PROVE  Stream(e)' = Stream(e) /\ (Live(e)' <=> Live(e)) /\ Waiting(e)' = Waiting(e)
    BY <1>1, NoneSent
  <1>3. IssuedTypes' /\ IssuedGrows
    BY <1>0, GrowsSame DEF WireTypes, IssuedTypes, Current
  <1>4. \A e \in Conns : "client" \in alive'[e] \/ e > opened => cut'[e] = <<>>
    BY Uncut
  <1>5. alive' \in [Conns -> SUBSET Ends] /\ cut' \in [Conns -> Seq(Words)]
    BY <1>0 DEF WireTypes, PlaceTypes, BufferTypes
  <1>6. \A e \in Conns : WholeRequests(issued', Stream(e)') /\ Waiting(e)' \subseteq Waiting(e)
    BY <1>2 DEF WireInvariant, StreamsWhole
  <1>7. ~skewed' => \A e \in Conns : e = conn /\ "client" \in alive'[e] => Stream(e)' = <<>> /\ Back(e)' = <<>>
    OBVIOUS
  <1>8. gaveUp \subseteq gaveUp'
    BY DEF Report
  <1>9. ASSUME ~skewed', NEW e \in Conns, e = conn PROVE Waiting(e)' \subseteq gaveUp'
    <2>1. Waiting(e)' = BegunFrom(<<>>, IF apc'[e] = "send" THEN 2 ELSE 1)
      BY <1>9 DEF Waiting
    <2> QED
      BY <2>1, BegunEmpty
  <1> QED
    BY <1>1, <1>2, <1>3, <1>4, <1>5, <1>6, <1>7, <1>8, <1>9, ReportInv

LEMMA StepReadLength == WireInvariant /\ ReadLength => WireInvariant'
  <1> SUFFICES ASSUME WireInvariant, ReadLength PROVE WireInvariant'
    OBVIOUS
  <1>0. WireTypes /\ ShellPlaces /\ BufferTypes
    BY DEF WireInvariant, WireTypes
  <1>1. /\ cpc = "length" /\ down[conn] # <<>> /\ down' = [down EXCEPT ![conn] = Tail(@)]
        /\ UNCHANGED <<store, up, alive, conn, opened, issued, agent, handled, cut>>
    BY DEF ReadLength
  <1>2. conn \in Conns /\ conn = opened /\ cbuf = <<>> /\ csend = <<>>
    BY <1>0, <1>1, ShellConn DEF ShellPlaces
  <1> DEFINE c == conn
             s == down[c]
             w == Head(s)
  <1>3. s \in Seq(Words) /\ asend[c] \in Seq(Words)
    BY <1>0, <1>2 DEF BufferTypes
  <1>4. <<w>> \in Seq(Words) /\ Tail(s) \in Seq(Words) /\ <<w>> \o Tail(s) = s /\ w = s[1]
    <2> HIDE DEF s
    <2> QED
      BY <1>1, <1>3, HeadMoves DEF s
  <1>5. w \in Words /\ w.int \in Int
    <2>1. w \in Words
      BY <1>1, <1>3
    <2> QED
      BY <2>1 DEF Words
  <1>6. down' \in [Conns -> Seq(Words)] /\ \A d \in Conns : d # conn => down'[d] = down[d]
    BY <1>0, <1>1, <1>4 DEF BufferTypes
  <1>7. down'[c] = Tail(s)
    BY <1>0, <1>1, <1>2 DEF BufferTypes
  <1>8. CASE w.int > RecvBuf
    <2>1. Report(Current, EDB_RECV_DATA_LENGTH_ERROR, NoDoc, FALSE) /\ skewed' = TRUE
      BY <1>8 DEF ReadLength
    <2> HIDE DEF c, s, w
    <2> QED
      BY <1>1, <1>6, <2>1, ReplyEnds
  <1>9. CASE ~(w.int > RecvBuf)
    <2>1. cbuf' = <<w>> /\ cpc' = "body" /\ UNCHANGED <<csend, result, skewed, gaveUp>>
      BY <1>9 DEF ReadLength
    <2>2. Len(cbuf') = 1 /\ cbuf'[1].int <= RecvBuf
      <3>1. w.int <= RecvBuf
        BY <1>5, <1>9, BuffersAssumption
      <3> HIDE DEF w
      <3> QED
        BY <2>1, <3>1
    <2> HIDE DEF w, s
    <2>3. ASSUME NEW d \in Conns PROVE Stream(d)' = Stream(d) /\ Back(d)' = Back(d)
      <3>1. Stream(d)' = Stream(d)
        BY <1>1, <1>2, <2>1, NoneSent
      <3>2. CASE d # conn
        BY <1>1, <1>6, <3>1, <3>2 DEF Back, Kept, agent
      <3>3. CASE d = conn
        <4>1. Back(d)' = (<<w>> \o Tail(s)) \o asend[c]
          BY <1>1, <1>7, <2>1, <3>3 DEF Back, Kept, agent
        <4>2. Back(d) = (<<>> \o s) \o asend[c]
          BY <1>2, <3>3 DEF Back, Kept, s
        <4>3. <<>> \o s = s
          BY <1>3, EmptyJoins
        <4> QED
          BY <1>4, <3>1, <4>1, <4>2, <4>3
      <3> QED
        BY <3>2, <3>3
    <2>4. BufferTypes'
      BY <1>0, <1>1, <1>4, <1>6, <2>1 DEF BufferTypes, agent
    <2>5. Connected' /\ Current' > 0 /\ issued'[Current'].op \in Messages
      BY <1>0, <1>1 DEF ShellPlaces, Connected, Current
    <2>6. \A d \in Conns : "client" \in alive'[d] \/ d > opened' => cut'[d] = <<>>
      BY <1>1, Uncut
    <2>7. ShellPlaces'
      BY <1>2, <2>1, <2>2, <2>5, <2>6 DEF ShellPlaces
    <2>8. \A d \in Conns : d > opened => down'[d] = down[d]
      BY <1>2, <1>6, ConnFacts
    <2> QED
      BY <1>1, <2>1, <2>3, <2>4, <2>7, <2>8, ShellMoves
  <1> QED
    BY <1>8, <1>9

ReplyDoc(h) == IF h.found = NoDoc THEN EmptyDoc ELSE h.found

LEMMA ReplyOfShape ==
  ASSUME WireTypes, NEW i \in 1 .. Len(handled)
  PROVE  ReplyLooks(ReplyOf(handled[i]), handled[i].op, handled[i].code, ReplyDoc(handled[i]))
  <1> DEFINE h == handled[i]
             d == ReplyDoc(h)
  <1>1. h.n \in Nat /\ h.code \in Int /\ h.found \in Documents \cup {NoDoc}
    BY HandledType DEF WireTypes
  <1>2. d \in Documents
    BY <1>1, DocFacts DEF ReplyDoc
  <1>3. ReplyOf(h) = Reply(h.n, h.op, h.code, d)
    BY DEF ReplyOf, ReplyDoc
  <1> HIDE DEF d, h
  <1>4. ReplyLooks(Reply(h.n, h.op, h.code, d), h.op, h.code, d)
    BY <1>1, <1>2, ReplyShape
  <1> QED
    BY <1>3, <1>4 DEF h, d

\* How many words the shell takes.
LEMMA BodyWordsNat == ASSUME NEW length \in Int PROVE BodyWords(length) \in Nat
  BY DEF BodyWords, BodyBytes, Word

\* While no reply was left in the stream, what the shell reads is the whole
\* reply to its command, and nothing follows it.
LEMMA WholeReply ==
  ASSUME WireInvariant, ~skewed, cpc = "body", Readable(down[conn], cbuf[1].int)
  PROVE  \E i \in 1 .. Len(handled) :
           /\ handled[i].n = Current
           /\ cbuf \o Take(down[conn], BodyWords(cbuf[1].int)) = ReplyOf(handled[i])
           /\ Drop(down[conn], BodyWords(cbuf[1].int)) = <<>>
           /\ asend[conn] = <<>> /\ Stream(conn) = <<>>
  <1> DEFINE c == conn
             s == down[c]
             g == asend[c]
             k == BodyWords(cbuf[1].int)
  <1>0. WireTypes /\ ShellPlaces /\ InTurn /\ c \in Conns /\ PlaceOf(c)
    BY ShellConn, PlaceOfAll DEF WireInvariant
  <1>1. /\ cbuf \in Seq(Words) /\ Len(cbuf) = 1 /\ cbuf # <<>>
        /\ s \in Seq(Words) /\ g \in Seq(Words)
    <2>1. cbuf \in Seq(Words) /\ s \in Seq(Words) /\ g \in Seq(Words)
      BY <1>0 DEF WireTypes, BufferTypes
    <2>2. Len(cbuf) = 1
      BY <1>0 DEF ShellPlaces
    <2>3. cbuf # <<>>
      BY <2>2
    <2> QED
      BY <2>1, <2>2, <2>3, Zenon
  <1>2. Back(c) = (cbuf \o s) \o g
    BY DEF Back, Kept
  <1> HIDE DEF s, g
  <1> DEFINE t == cbuf \o s
             b == t \o g
  <1>3. Joins(cbuf, s, Words)
    BY <1>1, Join, Zenon
  <1>4. t \in Seq(Words) /\ Len(t) = 1 + Len(s) /\ t[1] = cbuf[1] /\ Len(s) \in Nat
    BY <1>1, <1>3 DEF Joins
  <1> HIDE DEF t
  <1>5. Joins(t, g, Words)
    BY <1>1, <1>4, Join, Zenon
  <1>6. /\ b \in Seq(Words) /\ Len(b) = 1 + Len(s) + Len(g) /\ Len(g) \in Nat
        /\ \A j \in 1 .. Len(t) : b[j] = t[j]
    BY <1>4, <1>5 DEF Joins
  <1> HIDE DEF b
  <1>7. b[1] = cbuf[1] /\ b # <<>>
    BY <1>4, <1>6, EmptyJoins
  <1>8. Back(c) = b
    BY <1>2 DEF b, t
  <1>9. PICK i \in 1 .. Len(handled) : Answered(c, i)
    BY <1>0, <1>7, <1>8 DEF InTurn, TurnOf, Asked
  <1> DEFINE r == ReplyOf(handled[i])
  <1>10. r \in Seq(Words) /\ Len(r) \in Nat /\ Len(r) >= 4 /\ r[1].int = Word * Len(r)
    BY <1>0, ReplyOfShape DEF ReplyLooks
  <1>11. handled[i].n = Current /\ Len(b) <= Len(r) /\ \A j \in 1 .. Len(b) : b[j] = r[j]
    BY <1>8, <1>9 DEF Answered, Prefix
  <1> HIDE DEF r
  <1>12. cbuf[1].int = Word * Len(r)
    BY <1>4, <1>6, <1>7, <1>10, <1>11
  <1>13. k = Len(r) - 1
    BY <1>10, <1>12, BodyOfLength
  <1>14. k <= Len(s)
    BY DEF Readable, s
  <1> HIDE DEF k
  <1>15. Len(s) = k /\ Len(g) = 0 /\ Len(b) = Len(r) /\ Len(t) = Len(r)
    BY <1>4, <1>6, <1>10, <1>11, <1>13, <1>14
  <1>16. g = <<>>
    BY <1>1, <1>15, EmptyJoins
  <1>17. Take(s, k) = s /\ Drop(s, k) = <<>>
    <2>1. k \in 0 .. Len(s)
      BY <1>4, <1>15
    <2>2. Cuts2(s, k, Words)
      BY <1>1, <2>1, CutAndJoin
    <2>3. /\ Take(s, k) \in Seq(Words) /\ Len(Take(s, k)) = Len(s)
          /\ \A j \in 1 .. Len(s) : Take(s, k)[j] = s[j]
          /\ Drop(s, k) \in Seq(Words) /\ Len(Drop(s, k)) = 0
      BY <1>4, <1>15, <2>2 DEF Cuts2
    <2>4. Take(s, k) = s
      BY <1>1, <2>3, SeqEqual, Zenon
    <2> QED
      BY <2>3, <2>4, EmptyJoins
  <1>18. t = r
    <2>1. \A j \in 1 .. Len(t) : t[j] = r[j]
      BY <1>4, <1>6, <1>11, <1>15
    <2> QED
      BY <1>4, <1>10, <1>15, <2>1, SeqEqual, Zenon
  <1>19. cbuf \o Take(s, k) = r
    BY <1>17, <1>18 DEF t
  <1>20. Stream(c) = <<>>
    <2>1. CASE Live(c)
      <3>1. Stream(c) = areq[c] /\ apc[c] \in {"length", "send"}
        BY <1>9, <2>1 DEF Answered
      <3>2. apc[c] = "length"
        BY <1>0, <1>16, <3>1 DEF PlaceOf, g
      <3> QED
        BY <1>0, <3>1, <3>2 DEF PlaceOf
    <2>2. CASE ~Live(c)
      BY <2>2 DEF Stream
    <2> QED
      BY <2>1, <2>2
  <1> QED
    BY <1>11, <1>16, <1>17, <1>19, <1>20 DEF k, s, g, r

LEMMA StepReadBody == WireInvariant /\ ReadBody => WireInvariant'
  <1> SUFFICES ASSUME WireInvariant, ReadBody PROVE WireInvariant'
    OBVIOUS
  <1> DEFINE c == conn
             k == BodyWords(cbuf[1].int)
             buf == cbuf \o Take(down[c], k)
             code == IF Len(buf) >= 3 THEN buf[3].int ELSE EDB_OK
             shown == IF issued[Current].op = OP_QUERY /\ code = EDB_OK
                      THEN DocAt(buf, 5) ELSE NoDoc
  <1>0. WireTypes /\ ShellPlaces /\ BufferTypes /\ HandledMatch
    BY DEF WireInvariant, WireTypes
  <1>1. /\ cpc = "body" /\ Readable(down[c], cbuf[1].int)
        /\ down' = [down EXCEPT ![c] = Drop(@, k)]
        /\ UNCHANGED <<store, up, alive, conn, opened, issued, agent, handled, skewed, cut>>
    BY DEF ReadBody
  <1>2. Report(Current, code, shown, TRUE)
    BY DEF ReadBody
  <1>3. c \in Conns /\ Len(cbuf) = 1 /\ cbuf \in Seq(Words)
    BY <1>0, <1>1, ShellConn DEF ShellPlaces, BufferTypes
  <1>4. cbuf[1].int \in Int
    <2>1. cbuf[1] \in Words
      BY <1>3
    <2> QED
      BY <2>1 DEF Words
  <1>5. k \in Nat /\ k <= Len(down[c])
    BY <1>1, <1>4, BodyWordsNat DEF Readable
  <1>6. down[c] \in Seq(Words) /\ Drop(down[c], k) \in Seq(Words)
    <2>1. down[c] \in Seq(Words)
      BY <1>0, <1>3 DEF BufferTypes
    <2>2. k \in 0 .. Len(down[c])
      BY <1>5, <2>1
    <2> HIDE DEF k
    <2>3. Cuts2(down[c], k, Words)
      BY <2>1, <2>2, CutAndJoin
    <2> QED
      BY <2>1, <2>3 DEF Cuts2
  <1> HIDE DEF k
  <1>7. down' \in [Conns -> Seq(Words)] /\ \A e \in Conns : e # c => down'[e] = down[e]
    BY <1>0, <1>1, <1>6 DEF BufferTypes
  <1>8. down'[c] = Drop(down[c], k)
    BY <1>0, <1>1, <1>3 DEF BufferTypes
  <1>9. ASSUME ~skewed
        PROVE  Stream(c)' = <<>> /\ Back(c)' = <<>> /\ AnswersOwnRequest'
    <2>1. PICK i \in 1 .. Len(handled) :
             /\ handled[i].n = Current /\ buf = ReplyOf(handled[i])
             /\ Drop(down[c], k) = <<>> /\ asend[c] = <<>> /\ Stream(c) = <<>>
      BY <1>1, <1>9, WholeReply DEF k
    <2>2. Stream(c)' = Stream(c)
      <3>1. csend' = <<>>
        BY <1>2 DEF Report
      <3> QED
        BY <1>1, <1>3, <3>1, NoneSent
    <2>3. Back(c)' = <<>>
      <3>1. cbuf' = <<>>
        BY <1>2 DEF Report
      <3>2. Back(c)' = (<<>> \o <<>>) \o <<>>
        BY <1>1, <1>8, <2>1, <3>1 DEF Back, Kept, agent
      <3> QED
        BY <3>2
    <2>4. handled[i].code = code /\ handled[i].found = shown
      <3> DEFINE r == ReplyOf(handled[i])
                 h == handled[i]
      <3>1. /\ Len(r) \in Nat /\ Len(r) >= 4 /\ r[3].int = h.code
            /\ h.op = OP_QUERY => DocAt(r, 5) = ReplyDoc(h)
        BY <1>0, ReplyOfShape DEF ReplyLooks
      <3>2. h.op = issued[Current].op /\ (h.found = NoDoc <=> ~(h.op = OP_QUERY /\ h.code = EDB_OK))
        BY <1>0, <2>1 DEF HandledMatch
      <3>3. buf = r
        BY <2>1
      <3> HIDE DEF r, buf, h
      <3>4. code = h.code
        BY <3>1, <3>3
      <3> HIDE DEF code
      <3>5. h.found = shown
        BY <3>1, <3>2, <3>3, <3>4 DEF ReplyDoc
      <3> QED
        BY <3>4, <3>5 DEF h
    <2> HIDE DEF code, shown
    <2>5. result' = [n |-> Current, code |-> code, doc |-> shown, server |-> TRUE]
      BY <1>2 DEF Report
    <2>6. AnswersOwnRequest'
      BY <1>1, <2>1, <2>4, <2>5 DEF AnswersOwnRequest
    <2> QED
      BY <2>1, <2>2, <2>3, <2>6
  <1>10. skewed' \in BOOLEAN /\ (skewed' <=> skewed)
    BY <1>0, <1>1 DEF WireTypes, HandledTypes
  <1> HIDE DEF buf, code, shown
  <1> QED
    BY <1>1, <1>2, <1>7, <1>9, <1>10, ReplyEnds DEF c
-----------------------------------------------------------------------------
(* The shell at its prompt.                                                *)

\* The requests that still wait then are given up, while no reply was left in
\* the stream.
LEMMA IdleStreams ==
  ASSUME WireInvariant, cpc = "prompt", ~skewed, NEW c \in Conns
  PROVE  Waiting(c) \subseteq gaveUp
  <1>1. TurnOf(c)
    BY DEF WireInvariant, InTurn
  <1> QED
    BY <1>1 DEF TurnOf, Pending

\* A connection the shell has not opened yet.
LEMMA Unopened ==
  ASSUME WireInvariant, NEW c \in Conns, c > opened
  PROVE  /\ ~Live(c) /\ Stream(c) = <<>> /\ Waiting(c) = {}
         /\ up[c] = <<>> /\ down[c] = <<>> /\ areq[c] = <<>> /\ asend[c] = <<>>
         /\ Word * Len(asend[c]) <= resultSize[c]
  <1>1. PlaceOf(c)
    BY PlaceOfAll DEF WireInvariant
  <1>2. Stream(c) = <<>> /\ apc[c] = "none"
    BY <1>1 DEF PlaceOf, Stream
  <1>3. Waiting(c) = BegunFrom(<<>>, 1)
    BY <1>2 DEF Waiting
  <1>4. Waiting(c) = {}
    BY <1>3, BegunEmpty
  <1> QED
    BY <1>1, <1>2, <1>4 DEF PlaceOf

LEMMA EmptyBack ==
  ASSUME WireTypes, NEW c \in Conns, Back(c) = <<>>
  PROVE  asend[c] = <<>>
  <1> DEFINE t == Kept(c) \o down[c]
             g == asend[c]
  <1>1. Kept(c) \in Seq(Words) /\ down[c] \in Seq(Words) /\ g \in Seq(Words)
    BY StreamType DEF WireTypes, BufferTypes
  <1>2. t \in Seq(Words) /\ t \o g = <<>>
    BY <1>1 DEF Back
  <1> HIDE DEF t, g
  <1>3. Joins(t, g, Words)
    BY <1>1, <1>2, Join, Zenon
  <1>4. Len(g) = 0
    BY <1>2, <1>3 DEF Joins
  <1> QED
    BY <1>1, <1>4, EmptyJoins DEF g

LEMMA StepConnect == WireInvariant /\ Connect => WireInvariant'
  <1> SUFFICES ASSUME WireInvariant, Connect PROVE WireInvariant'
    OBVIOUS
  <1>0. WireTypes /\ ShellPlaces /\ PlaceTypes
    BY DEF WireInvariant, WireTypes
  <1>e. PICK e \in Conns : e = opened + 1
    BY <1>0, BoundsAssumption DEF PlaceTypes, Conns, Connect
  <1>1. /\ cpc = "prompt" /\ opened < MaxConns /\ opened' = e /\ conn' = e
        /\ alive' = [Leave(conn) EXCEPT ![e] = Ends]
        /\ apc' = [apc EXCEPT ![e] = "length"]
        /\ result'.server = FALSE
        /\ UNCHANGED <<store, up, down, cpc, csend, cbuf, issued, areq, asend, recvSize,
                       resultSize, handled, skewed, cut, gaveUp>>
    BY <1>e DEF Connect, NoResult
  <1>2. e \in Conns /\ e > opened /\ opened \in Conns /\ opened \in Nat
    BY <1>0, <1>e, ConnFacts DEF PlaceTypes
  <1>3. csend = <<>> /\ cbuf = <<>>
    BY <1>0, <1>1 DEF ShellPlaces
  <1>4. /\ alive' \in [Conns -> SUBSET Ends] /\ alive'[e] = Ends
        /\ \A d \in Conns : d # e => Live(d)' <=> Live(d)
    BY <1>0, <1>1, <1>2, LeaveType DEF Live
  <1>5. apc' \in [Conns -> {"none", "length", "body", "handle", "send", "end"}] /\ apc'[e] = "length"
        /\ \A d \in Conns : d # e => apc'[d] = apc[d]
    BY <1>0, <1>1, <1>2 DEF PlaceTypes
  <1>6. WireTypes'
    <2>1. PlaceTypes'
      BY <1>0, <1>1, <1>2, <1>4, <1>5 DEF PlaceTypes
    <2>2. BufferTypes' /\ IssuedTypes' /\ HandledTypes'
      BY <1>0, <1>1 DEF WireTypes, BufferTypes, IssuedTypes, HandledTypes, Current
    <2> QED
      BY <2>1, <2>2 DEF WireTypes
  <1>7. ShellPlaces'
    <2>1. ASSUME NEW d \in Conns, "client" \in alive'[d] \/ d > opened' PROVE cut'[d] = <<>>
      <3>1. CASE d = e
        BY <1>1, <1>2, <3>1, Uncut
      <3>2. CASE d # e
        <4>1. "client" \in alive[d] \/ d > opened
          BY <1>0, <1>1, <1>2, <2>1, <3>2, LeaveType, ConnFacts
        <4> QED
          BY <1>1, <4>1, Uncut
      <3> QED
        BY <3>1, <3>2
    <2> QED
      BY <1>1, <1>3, <1>4, <2>1 DEF ShellPlaces, Ends
  <1>8. /\ up[e] = <<>> /\ down[e] = <<>> /\ areq[e] = <<>> /\ asend[e] = <<>>
        /\ Word * Len(asend[e]) <= resultSize[e]
    BY <1>2, Unopened
  <1>9. IssuedGrows /\ opened' \in Conns /\ opened <= opened'
    BY <1>0, <1>1, <1>2, GrowsSame
  <1>10. AgentPlaces'
    <2>1. ASSUME NEW d \in Conns, d # e PROVE PlaceOf(d)'
      <3>1. AgentSame(d)
        BY <1>1, <1>4, <1>5, <2>1 DEF AgentSame
      <3> QED
        BY <1>9, <3>1, PlaceKeeps
    <2>2. PlaceOf(e)'
      <3>1. Live(e)'
        BY <1>4 DEF Live, Ends
      <3>2. ~(e > opened')
        BY <1>1, ConnFacts
      <3> QED
        BY <1>1, <1>5, <1>8, <3>1, <3>2 DEF PlaceOf
    <2> QED
      BY <2>1, <2>2, PlaceOfAll DEF AgentPlaces, PlaceOf
  <1>11. ASSUME NEW d \in Conns, d # e PROVE Stream(d)' = Stream(d)
    <2>1. Unsents(d)' = Unsents(d)
      BY <1>1, <1>3, <1>11, Uncut DEF Unsents
    <2> QED
      BY <1>1, <1>4, <1>11, <2>1, StreamSame
  <1>12. Stream(e)' = <<>>
    <2>1. Stream(e)' = (<<>> \o <<>>) \o <<>>
      BY <1>1, <1>3, <1>4, <1>8 DEF Stream, Live, Ends, Unsents
    <2> QED
      BY <2>1
  <1>13. StreamsWhole' /\ HandledMatch' /\ Order'
    BY <1>1, <1>5, <1>9, <1>11, <1>12, KeepStreams
  <1>14. InTurn'
    <2> SUFFICES ASSUME ~skewed
                 PROVE  (\A c \in Conns : TurnOf(c))' /\ ExecutedInOrder' /\ AnswersOwnRequest'
      BY <1>1 DEF InTurn
    <2>1. Back(e)' = <<>>
      <3>1. Back(e)' = (<<>> \o <<>>) \o <<>>
        BY <1>1, <1>3, <1>8 DEF Back, Kept
      <3> QED
        BY <3>1
    <2>2. ASSUME NEW c \in Conns PROVE TurnOf(c)'
      <3>1. Waiting(c)' \subseteq Waiting(c)
        <4>1. CASE c = e
          <5>1. Waiting(c)' = BegunFrom(<<>>, 1)
            BY <1>5, <1>12, <4>1 DEF Waiting
          <5> QED
            BY <5>1, BegunEmpty
        <4>2. CASE c # e
          BY <1>5, <1>11, <4>2 DEF Waiting
        <4> QED
          BY <4>1, <4>2
      <3>2. \A m \in Waiting(c)' : Pending(c, m)'
        BY <1>1, <3>1, IdleStreams DEF Pending
      <3> QED
        BY <1>1, <1>12, <2>1, <3>2 DEF TurnOf
    <2>3. ExecutedInOrder' /\ AnswersOwnRequest'
      BY <1>1 DEF WireInvariant, InTurn, ExecutedInOrder, AnswersOwnRequest
    <2> QED
      BY <2>2, <2>3
  <1> QED
    BY <1>6, <1>7, <1>10, <1>13, <1>14 DEF WireInvariant

LEMMA StepConnectFails == WireInvariant /\ ConnectFails => WireInvariant'
  <1> SUFFICES ASSUME WireInvariant, ConnectFails PROVE WireInvariant'
    OBVIOUS
  <1>0. WireTypes /\ ShellPlaces /\ PlaceTypes
    BY DEF WireInvariant, WireTypes
  <1>1. /\ cpc = "prompt" /\ conn' = NoConn /\ alive' = Leave(conn) /\ result'.server = FALSE
        /\ UNCHANGED <<store, up, down, cpc, csend, cbuf, opened, issued, agent, handled, skewed,
                       cut, gaveUp>>
    BY DEF ConnectFails
  <1>2. UNCHANGED <<apc, areq, asend, recvSize, resultSize>>
    BY <1>1 DEF agent
  <1>3. csend = <<>> /\ cbuf = <<>>
    BY <1>0, <1>1 DEF ShellPlaces
  <1>4. alive' \in [Conns -> SUBSET Ends] /\ \A d \in Conns : Live(d)' <=> Live(d)
    BY <1>0, <1>1, LeaveType DEF Live
  <1>5. WireTypes'
    <2>1. PlaceTypes'
      BY <1>0, <1>1, <1>2, <1>4 DEF PlaceTypes
    <2>2. BufferTypes' /\ IssuedTypes' /\ HandledTypes'
      BY <1>0, <1>1, <1>2 DEF WireTypes, BufferTypes, IssuedTypes, HandledTypes, Current
    <2> QED
      BY <2>1, <2>2 DEF WireTypes
  <1>6. ShellPlaces'
    <2>1. ASSUME NEW d \in Conns, "client" \in alive'[d] \/ d > opened' PROVE cut'[d] = <<>>
      <3>1. "client" \in alive[d] \/ d > opened
        BY <1>0, <1>1, <2>1, LeaveType
      <3> QED
        BY <1>1, <3>1, Uncut
    <2> QED
      BY <1>1, <1>3, <2>1, ConnFacts DEF ShellPlaces
  <1>7. IssuedGrows /\ opened' \in Conns /\ opened <= opened'
    BY <1>0, <1>1, GrowsSame, ConnFacts DEF PlaceTypes
  <1>8. AgentPlaces'
    <2>1. ASSUME NEW d \in Conns PROVE PlaceOf(d)'
      <3>1. AgentSame(d)
        BY <1>1, <1>2, <1>4 DEF AgentSame
      <3> QED
        BY <1>7, <3>1, PlaceKeeps
    <2> QED
      BY <2>1, PlaceOfAll DEF AgentPlaces, PlaceOf
  <1>9. ASSUME NEW d \in Conns PROVE Stream(d)' = Stream(d)
    <2>1. Unsents(d)' = Unsents(d)
      BY <1>1, <1>3, Uncut, ConnFacts DEF Unsents
    <2> QED
      BY <1>1, <1>2, <1>4, <2>1, StreamSame
  <1>10. StreamsWhole' /\ HandledMatch' /\ Order'
    BY <1>1, <1>2, <1>7, <1>9, KeepStreams
  <1>11. InTurn'
    <2> SUFFICES ASSUME ~skewed
                 PROVE  (\A c \in Conns : TurnOf(c))' /\ ExecutedInOrder' /\ AnswersOwnRequest'
      BY <1>1 DEF InTurn
    <2>1. ASSUME NEW c \in Conns PROVE TurnOf(c)'
      <3>1. Waiting(c)' = Waiting(c)
        BY <1>2, <1>9 DEF Waiting
      <3>2. \A m \in Waiting(c)' : Pending(c, m)'
        BY <1>1, <3>1, IdleStreams DEF Pending
      <3> QED
        BY <1>1, <3>2, ConnFacts DEF TurnOf
    <2>2. ExecutedInOrder' /\ AnswersOwnRequest'
      BY <1>1 DEF WireInvariant, InTurn, ExecutedInOrder, AnswersOwnRequest
    <2> QED
      BY <2>1, <2>2
  <1> QED
    BY <1>5, <1>6, <1>8, <1>10, <1>11 DEF WireInvariant

\* The new command comes after all others.
LEMMA StepIssue ==
  ASSUME WireInvariant, NEW op \in Messages, NEW d \in Documents,
         op # OP_INSERT => d.id \in Ids, Issue(op, d)
  PROVE  WireInvariant'
  <1>0. WireTypes /\ ShellPlaces /\ PlaceTypes /\ BufferTypes /\ Order /\ HandledMatch
    BY DEF WireInvariant, WireTypes
  <1>1. /\ cpc = "prompt" /\ Connected /\ cpc' = "send"
        /\ result'.server = FALSE
        /\ UNCHANGED <<store, up, down, alive, conn, cbuf, opened, agent, handled, skewed, cut, gaveUp>>
    BY DEF Issue, NoResult
  <1> DEFINE x == [op |-> op, doc |-> d]
  <1>2. issued' = Append(issued, x)
    BY DEF Issue
  <1>3. /\ x \in [op : Messages \cup {OP_NONE}, doc : Documents \cup {NoDoc}]
        /\ x.op = op /\ x.doc = d
    OBVIOUS
  <1> HIDE DEF x
  <1>4. IssuedTypes' /\ IssuedGrows /\ Current \in Nat
    BY <1>0, <1>2, <1>3, IssuedTypesAppend, GrowsAppend
  <1>n. PICK n \in Nat : n = Current + 1
    BY <1>4
  <1>5. Len(issued') = n /\ issued'[n] = x /\ n \in 1 .. Len(issued') /\ issued'[n].op \in Messages
    BY <1>0, <1>2, <1>3, <1>4, <1>n, GrowsAppend
  <1> DEFINE r == RequestOf(issued', n)
  <1>6. csend' = r
    BY <1>3, <1>5, <1>n DEF Issue, RequestOf
  <1>7. RequestLooks(r, n, op, d) /\ Proper(issued')
    <2>1. Proper(issued')
      BY <1>4, ListIsProper DEF IssuedTypes, Current
    <2> QED
      BY <1>3, <1>5, <2>1 DEF Proper
  <1>8. r \in Seq(Words) /\ Len(r) \in Nat /\ Len(r) >= 3
    BY <1>7 DEF RequestLooks
  <1> HIDE DEF r
  <1>c. PICK c \in Conns : c = conn /\ c = opened /\ "client" \in alive[c]
    BY <1>0, <1>1 DEF PlaceTypes, Connected
  <1>9. UNCHANGED <<apc, areq, asend, recvSize, resultSize>> /\ \A e \in Conns : Live(e)' <=> Live(e)
    BY <1>1 DEF agent, Live
  <1>10. WireTypes'
    <2>1. PlaceTypes'
      BY <1>0, <1>1, <1>9 DEF PlaceTypes
    <2>2. BufferTypes'
      BY <1>0, <1>1, <1>6, <1>8, <1>9 DEF BufferTypes
    <2>3. HandledTypes'
      BY <1>0, <1>1 DEF WireTypes, HandledTypes
    <2> QED
      BY <1>4, <2>1, <2>2, <2>3 DEF WireTypes
  <1>11. csend = <<>> /\ cbuf = <<>>
    BY <1>0, <1>1 DEF ShellPlaces
  <1>12. ShellPlaces'
    <2>1. csend' # <<>>
      BY <1>6, <1>8, EmptyJoins
    <2>2. Current' > 0 /\ issued'[Current'].op \in Messages
      BY <1>4, <1>5, <1>n DEF Current
    <2>3. Connected'
      BY <1>1 DEF Connected
    <2>4. \A e \in Conns : "client" \in alive'[e] \/ e > opened' => cut'[e] = <<>>
      BY <1>1, Uncut
    <2> QED
      BY <1>1, <1>11, <2>1, <2>2, <2>3, <2>4 DEF ShellPlaces
  <1>13. opened' \in Conns /\ opened <= opened' /\ opened \in Nat
    BY <1>0, <1>1, ConnFacts DEF PlaceTypes
  <1>14. AgentPlaces'
    <2>1. ASSUME NEW e \in Conns PROVE PlaceOf(e)'
      <3>1. AgentSame(e)
        BY <1>1, <1>9 DEF AgentSame
      <3> QED
        BY <1>4, <1>13, <3>1, PlaceKeeps
    <2> QED
      BY <2>1, PlaceOfAll DEF AgentPlaces, PlaceOf
  \* The streams.
  <1>15. ASSUME NEW e \in Conns, e # c PROVE Stream(e)' = Stream(e)
    <2>1. Unsents(e)' = Unsents(e)
      BY <1>1, <1>c, <1>15 DEF Unsents
    <2> QED
      BY <1>1, <1>9, <2>1, StreamSame
  <1>16. Live(c) => Stream(c)' = Stream(c) \o r
    <2> DEFINE a == areq[c] \o up[c]
    <2>1. a \in Seq(Words)
      BY <1>0 DEF BufferTypes
    <2>2. a \o <<>> = a
      BY <2>1, EmptyJoins
    <2>3. Live(c) => Stream(c) = a \o <<>> /\ Stream(c)' = a \o r
      BY <1>1, <1>6, <1>9, <1>11, <1>c DEF Stream, Unsents
    <2> QED
      BY <2>2, <2>3
  <1>17. ~Live(c) => Stream(c)' = Stream(c)
    BY <1>9 DEF Stream
  <1>18. ASSUME NEW e \in Conns PROVE WholeRequests(issued', Stream(e)) /\ Stream(e) \in Seq(Words)
    <2>1. WholeRequests(issued, Stream(e))
      BY DEF WireInvariant, StreamsWhole
    <2>2. WholeRequests(issued', Stream(e))
      BY <1>4, <2>1, WholeGrows DEF IssuedGrows
    <2> QED
      BY <1>0, <2>2, StreamType
  <1>19. ASSUME NEW e \in Conns, NEW m \in Waiting(e) PROVE m \in Nat /\ m < n
    <2> DEFINE f == IF apc[e] = "send" THEN 2 ELSE 1
    <2>1. WholeRequests(issued, Stream(e))
      BY DEF WireInvariant, StreamsWhole
    <2>2. m \in BegunFrom(Stream(e), f) /\ f \in {1, 2}
      BY <1>19 DEF Waiting
    <2> HIDE DEF f
    <2>3. m \in 1 .. Len(issued)
      BY <1>18, <2>1, <2>2, BegunIssued
    <2> QED
      BY <1>4, <1>n, <2>3 DEF Current
  <1>20. StreamsWhole'
    <2>1. ASSUME NEW e \in Conns PROVE WholeRequests(issued', Stream(e)')
      <3>1. CASE e = c /\ Live(c)
        <4>1. ASSUME NEW p \in 1 .. Len(Stream(c)), Begins(Stream(c)[p]) PROVE Stream(c)[p].of < n
          <5>1. WholeRequests(issued, Stream(c))
            BY DEF WireInvariant, StreamsWhole
          <5>2. Stream(c)[p].of \in 1 .. Len(issued)
            BY <4>1, <5>1 DEF WholeRequests, RequestAt
          <5> QED
            BY <1>4, <1>n, <5>2 DEF Current
        <4>2. WholeRequests(issued', Stream(c)) /\ Stream(c) \in Seq(Words)
          BY <1>18
        <4>3. WholeRequests(issued', Stream(c) \o r)
          <5> DEFINE s == Stream(c)
          <5> HIDE DEF s
          <5>1. WholeRequests(issued', s) /\ s \in Seq(Words) /\ \A p \in 1 .. Len(s) : Begins(s[p]) => s[p].of < n
            BY <4>1, <4>2 DEF s
          <5>2. WholeRequests(issued', s \o RequestOf(issued', n))
            BY <1>5, <1>7, <5>1, WholeAppend
          <5> QED
            BY <5>2 DEF s, r
        <4> QED
          BY <1>16, <3>1, <4>3
      <3>2. CASE ~(e = c /\ Live(c))
        <4>1. Stream(e)' = Stream(e)
          BY <1>15, <1>17, <3>2
        <4> QED
          BY <1>18, <4>1
      <3> QED
        BY <3>1, <3>2
    <2> QED
      BY <2>1 DEF StreamsWhole
  <1>21. \A e \in Conns : e # c => Waiting(e)' = Waiting(e)
    BY <1>9, <1>15 DEF Waiting
  <1>22. Waiting(c)' \subseteq Waiting(c) \cup {n}
    <2> DEFINE f == IF apc[c] = "send" THEN 2 ELSE 1
    <2>1. Waiting(c)' = BegunFrom(Stream(c)', f) /\ Waiting(c) = BegunFrom(Stream(c), f)
      BY <1>9 DEF Waiting
    <2>2. f \in {1, 2}
      OBVIOUS
    <2> HIDE DEF f
    <2>3. BegunBy(r, n)
      BY <1>5, <1>7, BegunInRequest DEF r
    <2>4. BegunJoins(Stream(c), r, f, n)
      BY <1>8, <1>18, <2>2, <2>3, BegunAppend, Zenon
    <2>5. CASE Live(c)
      BY <1>16, <2>1, <2>4, <2>5 DEF BegunJoins
    <2>6. CASE ~Live(c)
      BY <1>17, <2>1, <2>6
    <2> QED
      BY <2>5, <2>6
  <1>23. Order'
    <2>1. ASSUME NEW e \in Conns, NEW g \in Conns, e < g,
                 NEW m \in Waiting(e)', NEW q \in Waiting(g)'
          PROVE  m < q
      <3>1. g <= opened
        <4> SUFFICES ASSUME g > opened PROVE FALSE
          BY <1>13, ConnFacts
        <4>1. Waiting(g) = {} /\ g # c
          BY <1>c, Unopened, ConnFacts
        <4> QED
          BY <1>21, <2>1, <4>1
      <3>2. e # c /\ m \in Waiting(e)
        <4>1. e # c
          BY <1>c, <2>1, <3>1, ConnFacts
        <4> QED
          BY <1>21, <2>1, <4>1
      <3>3. CASE q \in Waiting(g)
        BY <1>0, <2>1, <3>2, <3>3 DEF Order
      <3>4. CASE q = n
        BY <1>19, <3>2, <3>4
      <3> QED
        BY <1>21, <1>22, <3>3, <3>4
    <2>2. ASSUME NEW i \in 1 .. Len(handled), NEW e \in Conns, NEW m \in Waiting(e)'
          PROVE  IF handled[i].conn <= e THEN handled[i].n < m ELSE m < handled[i].n
      <3>1. CASE m \in Waiting(e)
        BY <1>0, <3>1 DEF Order
      <3>2. CASE m = n /\ e = c
        <4>1. handled[i].n \in 1 .. Current /\ handled[i].conn <= opened
          BY <1>0 DEF HandledMatch
        <4>2. handled[i].n < n
          BY <1>4, <1>n, <4>1
        <4> QED
          BY <1>c, <3>2, <4>1, <4>2
      <3> QED
        BY <1>21, <1>22, <3>1, <3>2
    <2>3. \A i, j \in 1 .. Len(handled) :
             /\ handled[i].conn < handled[j].conn => handled[i].n < handled[j].n
             /\ i < j /\ handled[i].conn = handled[j].conn => handled[i].n < handled[j].n
      BY <1>0 DEF Order
    <2> QED
      BY <1>1, <2>1, <2>2, <2>3 DEF Order
  <1>24. HandledMatch'
    BY <1>1, <1>4, <1>13, MatchGrows
  <1>25. InTurn'
    <2> SUFFICES ASSUME ~skewed
                 PROVE  (\A e \in Conns : TurnOf(e))' /\ ExecutedInOrder' /\ AnswersOwnRequest'
      BY <1>1 DEF InTurn
    <2>1. Stream(c) = <<>> /\ Back(c) = <<>>
      BY <1>1, <1>c DEF WireInvariant, InTurn, TurnOf
    <2>2. Asked(c)'
      <3>1. Back(c)' = <<>>
        BY <1>1, <1>9, <2>1 DEF Back, Kept
      <3>2. ASSUME Live(c) PROVE apc[c] # "send" /\ Stream(c)' = r
        <4>1. asend[c] = <<>>
          BY <1>0, <2>1, EmptyBack
        <4>2. PlaceOf(c)
          BY PlaceOfAll DEF WireInvariant
        <4>3. <<>> \o r = r
          BY <1>8, EmptyJoins
        <4> QED
          BY <1>16, <2>1, <3>2, <4>1, <4>2, <4>3 DEF PlaceOf
      <3> QED
        BY <1>5, <1>9, <3>1, <3>2 DEF Asked, Current, r
    <2>3. ASSUME NEW e \in Conns PROVE TurnOf(e)'
      <3>1. ASSUME NEW m \in Waiting(e)' PROVE Pending(e, m)'
        <4>1. m \in Waiting(e) => m \in gaveUp
          BY <1>1, IdleStreams
        <4>2. m \in Waiting(e) \/ (e = c /\ m = n)
          BY <1>21, <1>22
        <4>3. n = Current' /\ cpc' # "prompt"
          BY <1>1, <1>5 DEF Current
        <4> QED
          BY <1>1, <1>c, <4>1, <4>2, <4>3 DEF Pending
      <3> QED
        BY <1>1, <1>c, <2>2, <3>1 DEF TurnOf
    <2>4. ExecutedInOrder' /\ AnswersOwnRequest'
      BY <1>1 DEF WireInvariant, InTurn, ExecutedInOrder, AnswersOwnRequest
    <2> QED
      BY <2>3, <2>4
  <1> QED
    BY <1>10, <1>12, <1>14, <1>20, <1>23, <1>24, <1>25 DEF WireInvariant

LEMMA StepStutter == WireInvariant /\ UNCHANGED vars => WireInvariant'
  <1> SUFFICES ASSUME WireInvariant, UNCHANGED vars PROVE WireInvariant'
    OBVIOUS
  <1>1. /\ UNCHANGED <<store, up, down, alive, conn, cpc, csend, cbuf, result, opened, issued>>
        /\ UNCHANGED <<apc, areq, asend, recvSize, resultSize, handled, skewed, cut, gaveUp>>
    BY DEF vars, client, agent
  <1>2. WireTypes' /\ ShellPlaces'
    BY <1>1 DEF WireInvariant, WireTypes, PlaceTypes, BufferTypes, IssuedTypes, HandledTypes,
                Current, ShellPlaces, Connected, Live
  <1>3. AgentPlaces' /\ HandledMatch'
    BY <1>1 DEF WireInvariant, AgentPlaces, HandledMatch, Live, Current
  <1>4. \A c \in Conns : /\ (Live(c)' <=> Live(c)) /\ Stream(c)' = Stream(c)
                         /\ Back(c)' = Back(c) /\ Waiting(c)' = Waiting(c)
    BY <1>1 DEF Live, Stream, Unsents, Back, Kept, Waiting
  <1>5. StreamsWhole' /\ Order'
    BY <1>1, <1>4 DEF WireInvariant, StreamsWhole, Order
  <1>6. \A c \in Conns : TurnOf(c)' <=> TurnOf(c)
    BY <1>1, <1>4 DEF TurnOf, Asked, Answered, Current, Pending
  <1>7. InTurn'
    BY <1>1, <1>6 DEF WireInvariant, InTurn, ExecutedInOrder, AnswersOwnRequest
  <1> QED
    BY <1>2, <1>3, <1>5, <1>7 DEF WireInvariant
-----------------------------------------------------------------------------
(* The agents.                                                             *)

\* A step of agent c that only receives words.
LEMMA AgentMoves ==
  ASSUME WireInvariant, NEW c \in Conns, apc[c] \in {"length", "body"},
         apc[c] = "length" => up[c] # <<>>,
         apc'[c] \in {"body", "handle"},
         apc' \in [Conns -> {"none", "length", "body", "handle", "send", "end"}],
         BufferTypes', UNCHANGED <<store, down, alive, client, asend, resultSize, handled, skewed>>,
         \A d \in Conns : d # c => /\ apc'[d] = apc[d] /\ areq'[d] = areq[d]
                                   /\ up'[d] = up[d] /\ recvSize'[d] = recvSize[d],
         Stream(c)' = Stream(c), PlaceOf(c)'
  PROVE  WireInvariant'
  <1>0. WireTypes /\ ShellPlaces /\ PlaceTypes
    BY DEF WireInvariant, WireTypes
  <1>1. UNCHANGED <<conn, cpc, csend, cbuf, result, opened, issued, cut, gaveUp>>
    BY DEF client
  <1>2. IssuedGrows /\ opened' \in Conns /\ opened <= opened'
    BY <1>0, <1>1, GrowsSame, ConnFacts DEF PlaceTypes
  <1>3. \A d \in Conns : Live(d)' <=> Live(d)
    BY DEF Live
  <1>4. WireTypes'
    <2>1. PlaceTypes'
      BY <1>0, <1>1 DEF PlaceTypes
    <2>2. IssuedTypes' /\ HandledTypes'
      BY <1>0, <1>1 DEF WireTypes, IssuedTypes, HandledTypes, Current
    <2> QED
      BY <2>1, <2>2 DEF WireTypes
  <1>5. ShellPlaces'
    BY <1>0, <1>1 DEF ShellPlaces, Connected, Current, Live
  <1>6. AgentPlaces'
    <2>1. ASSUME NEW d \in Conns, d # c PROVE PlaceOf(d)'
      <3>1. AgentSame(d)
        BY <1>3, <2>1 DEF AgentSame
      <3> QED
        BY <1>2, <3>1, PlaceKeeps
    <2>2. \A d \in Conns : PlaceOf(d)'
      BY <2>1
    <2> QED
      BY <2>2 DEF AgentPlaces, PlaceOf
  <1>7. ASSUME NEW d \in Conns PROVE Stream(d)' = Stream(d) /\ Waiting(d)' = Waiting(d)
    <2>1. CASE d = c
      BY <2>1 DEF Waiting
    <2>2. CASE d # c
      <3>1. Unsents(d)' = Unsents(d)
        BY <1>1 DEF Unsents
      <3>2. Stream(d)' = Stream(d)
        BY <1>3, <2>2, <3>1, StreamSame
      <3> QED
        BY <2>2, <3>2 DEF Waiting
    <2> QED
      BY <2>1, <2>2
  <1>8. StreamsWhole' /\ HandledMatch' /\ Order'
    <2>1. \A d \in Conns : WholeRequests(issued', Stream(d)')
      BY <1>1, <1>7 DEF WireInvariant, StreamsWhole
    <2>2. \A d \in Conns : Waiting(d)' \subseteq Waiting(d)
      BY <1>7
    <2> QED
      BY <1>2, <2>1, <2>2, KeepOrder
  <1>9. \A d \in Conns : Back(d)' = Back(d)
    BY <1>1 DEF Back, Kept
  <1>10. ASSUME Live(c) PROVE ~(Stream(c) = areq[c] /\ apc[c] \in {"length", "send"})
    <2> SUFFICES ASSUME Stream(c) = areq[c], apc[c] = "length" PROVE FALSE
      OBVIOUS
    <2> DEFINE b == up[c] \o Unsents(c)
    <2>1. areq[c] = <<>>
      BY PlaceOfAll DEF WireInvariant, PlaceOf
    <2>2. up[c] \in Seq(Words) /\ Unsents(c) \in Seq(Words)
      BY <1>0, StreamType DEF WireTypes, BufferTypes
    <2>3. (<<>> \o up[c]) \o Unsents(c) = <<>>
      BY <1>10, <2>1 DEF Stream
    <2>4. <<>> \o up[c] = up[c]
      BY <2>2, EmptyJoins
    <2>5. Joins(up[c], Unsents(c), Words)
      BY <2>2, Join, Zenon
    <2>6. Len(up[c]) = 0
      BY <2>3, <2>4, <2>5 DEF Joins
    <2> QED
      BY <2>2, <2>6, EmptyJoins
  <1>11. InTurn'
    <2> SUFFICES ASSUME ~skewed
                 PROVE  (\A d \in Conns : TurnOf(d))' /\ ExecutedInOrder' /\ AnswersOwnRequest'
      BY DEF InTurn
    <2>1. ASSUME NEW d \in Conns PROVE TurnOf(d)'
      <3>0. TurnOf(d)
        BY DEF WireInvariant, InTurn
      <3>1. Asked(d) => Asked(d)'
        BY <1>1, <1>3, <1>7, <1>9 DEF Asked, Current
      <3>2. ASSUME NEW i, Answered(d, i) PROVE Answered(d, i)'
        <4>1. Live(d) => d # c
          BY <1>10, <3>2 DEF Answered
        <4>2. Prefix(Back(d)', ReplyOf(handled'[i]))
          BY <1>9, <3>2 DEF Answered
        <4>3. Live(d) => Stream(d)' = areq'[d] /\ apc'[d] \in {"length", "send"}
          BY <1>7, <3>2, <4>1 DEF Answered
        <4> QED
          BY <1>1, <1>3, <1>9, <3>2, <4>2, <4>3 DEF Answered, Current
      <3>3. \A n \in Waiting(d)' : Pending(d, n)'
        BY <1>1, <1>7, KeepPending
      <3>4. d = conn /\ cpc = "prompt" /\ "client" \in alive[d] => Stream(d)' = <<>> /\ Back(d)' = <<>>
        BY <1>7, <1>9, <3>0 DEF TurnOf
      <3>5. d = conn /\ cpc = "send" => Asked(d)'
        BY <3>0, <3>1 DEF TurnOf
      <3>6. d = conn /\ cpc \in {"length", "body"} =>
               Asked(d)' \/ \E i \in 1 .. Len(handled) : Answered(d, i)'
        BY <3>0, <3>1, <3>2 DEF TurnOf
      <3> QED
        BY <1>1, <3>3, <3>4, <3>5, <3>6 DEF TurnOf
    <2>2. ExecutedInOrder' /\ AnswersOwnRequest'
      BY <1>1 DEF WireInvariant, InTurn, ExecutedInOrder, AnswersOwnRequest
    <2> QED
      BY <2>1, <2>2
  <1> QED
    BY <1>4, <1>5, <1>6, <1>8, <1>11 DEF WireInvariant

\* Whole pages hold what they are asked for.
LEMMA PagesHold == ASSUME NEW x \in Nat PROVE RoundUp(x) \in Nat /\ x <= RoundUp(x)
  <1> DEFINE P == AgentPage
             p == x + P - 1
             q == p \div P
             m == p % P
  <1>1. P \in Nat \ {0} /\ p \in Nat
    BY BuffersAssumption
  <1> HIDE DEF p, P
  <1>2. q \in Nat /\ m \in 0 .. P - 1 /\ p = q * P + m
    BY <1>1, Division
  <1> HIDE DEF q, m
  <1>3. q * P \in Nat
    BY <1>1, <1>2
  <1> DEFINE g == q * P
  <1>4. RoundUp(x) = g
    BY DEF RoundUp, g, q, p, P
  <1> HIDE DEF g
  <1>5. g \in Nat /\ p = g + m
    BY <1>2, <1>3 DEF g
  <1>6. x <= g
    BY <1>1, <1>2, <1>5 DEF p
  <1> QED
    BY <1>4, <1>5, <1>6

LEMMA StepAgentLength ==
  ASSUME WireInvariant, NEW c \in Conns, AgentLength(c) PROVE WireInvariant'
  <1> DEFINE s == up[c]
             w == Head(s)
             z == IF TooSmall(recvSize[c], w.int) THEN RoundUp(w.int + 1) ELSE recvSize[c]
  <1>0. WireTypes /\ PlaceTypes /\ BufferTypes /\ PlaceOf(c)
    BY PlaceOfAll DEF WireInvariant, WireTypes
  <1>1. /\ apc[c] = "length" /\ s # <<>> /\ w.int >= Word
        /\ areq' = [areq EXCEPT ![c] = <<w>>]
        /\ up' = [up EXCEPT ![c] = Tail(s)]
        /\ recvSize' = [recvSize EXCEPT ![c] = z]
        /\ apc' = [apc EXCEPT ![c] = "body"]
        /\ UNCHANGED <<store, down, alive, client, asend, resultSize, handled, skewed>>
    BY DEF AgentLength
  <1>2. s \in Seq(Words) /\ recvSize[c] \in Nat
    BY <1>0 DEF BufferTypes
  <1>3. <<w>> \in Seq(Words) /\ Tail(s) \in Seq(Words) /\ <<w>> \o Tail(s) = s /\ w = s[1]
    <2> HIDE DEF s
    <2> QED
      BY <1>1, <1>2, HeadMoves DEF s
  <1>4. w.int \in Nat
    <2>1. w \in Words
      BY <1>1, <1>2
    <2>2. w.int \in Int
      BY <2>1 DEF Words
    <2> HIDE DEF w
    <2> QED
      BY <1>1, <2>2 DEF Word
  <1>5. z \in Nat /\ w.int + 1 <= z
    <2> DEFINE v == w.int
    <2> HIDE DEF v
    <2>1. v \in Nat /\ v + 1 \in Nat
      BY <1>4 DEF v
    <2>2. RoundUp(v + 1) \in Nat /\ v + 1 <= RoundUp(v + 1)
      BY <2>1, PagesHold
    <2>3. CASE TooSmall(recvSize[c], v)
      BY <2>2, <2>3 DEF v
    <2>4. CASE ~TooSmall(recvSize[c], v)
      <3>1. v + 1 <= recvSize[c]
        BY <1>2, <2>1, <2>4 DEF TooSmall
      <3> QED
        BY <1>2, <2>4, <3>1 DEF v
    <2> QED
      BY <2>3, <2>4
  <1> HIDE DEF z, w, s
  <1>6. BufferTypes'
    <2>1. /\ areq' \in [Conns -> Seq(Words)] /\ up' \in [Conns -> Seq(Words)]
          /\ recvSize' \in [Conns -> Nat]
      BY <1>0, <1>1, <1>3, <1>5 DEF BufferTypes
    <2> QED
      BY <1>0, <1>1, <2>1 DEF BufferTypes, client
  <1>7. /\ apc'[c] = "body" /\ areq'[c] = <<w>> /\ up'[c] = Tail(s) /\ recvSize'[c] = z
        /\ apc' \in [Conns -> {"none", "length", "body", "handle", "send", "end"}]
    BY <1>0, <1>1 DEF PlaceTypes, BufferTypes
  <1>8. \A d \in Conns : d # c => /\ apc'[d] = apc[d] /\ areq'[d] = areq[d]
                                  /\ up'[d] = up[d] /\ recvSize'[d] = recvSize[d]
    BY <1>0, <1>1 DEF PlaceTypes, BufferTypes
  <1>9. Live(c) /\ Live(c)'
    BY <1>0, <1>1 DEF PlaceOf, Live
  <1>10. Stream(c)' = Stream(c)
    <2>1. Stream(c) = (<<>> \o s) \o Unsents(c)
      BY <1>0, <1>1, <1>9 DEF Stream, PlaceOf, s
    <2>2. Unsents(c)' = Unsents(c)
      BY <1>1 DEF Unsents, client
    <2>3. Stream(c)' = (<<w>> \o Tail(s)) \o Unsents(c)
      BY <1>7, <1>9, <2>2 DEF Stream
    <2>4. <<>> \o s = s
      BY <1>2, EmptyJoins
    <2> QED
      BY <1>3, <2>1, <2>3, <2>4
  <1>11. PlaceOf(c)'
    <2>1. c > opened' => FALSE
      BY <1>0, <1>1 DEF PlaceOf, client
    <2>2. Len(areq'[c]) = 1 /\ areq'[c][1] = w
      BY <1>7
    <2>3. asend'[c] = <<>> /\ Word * Len(asend'[c]) <= resultSize'[c]
      BY <1>0, <1>1 DEF PlaceOf
    <2> QED
      BY <1>5, <1>7, <1>9, <2>1, <2>2, <2>3 DEF PlaceOf
  <1>12. up[c] # <<>>
    BY <1>1 DEF s
  <1> QED
    BY <1>1, <1>6, <1>7, <1>8, <1>10, <1>11, <1>12, AgentMoves

LEMMA StepAgentBody ==
  ASSUME WireInvariant, NEW c \in Conns, AgentBody(c) PROVE WireInvariant'
  <1> DEFINE a == areq[c]
             s == up[c]
             n == a[1].of
             k == BodyWords(a[1].int)
             t == Take(s, k)
             e == Drop(s, k)
  <1>0. WireTypes /\ PlaceTypes /\ BufferTypes /\ PlaceOf(c)
    BY PlaceOfAll DEF WireInvariant, WireTypes
  <1>1. /\ apc[c] = "body" /\ k <= Len(s)
        /\ areq' = [areq EXCEPT ![c] = a \o t]
        /\ up' = [up EXCEPT ![c] = e]
        /\ apc' = [apc EXCEPT ![c] = "handle"]
        /\ UNCHANGED <<store, down, alive, client, asend, recvSize, resultSize, handled, skewed>>
    BY DEF AgentBody, Readable
  <1>2. a \in Seq(Words) /\ Len(a) = 1 /\ s \in Seq(Words) /\ Len(s) \in Nat
    BY <1>0, <1>1 DEF BufferTypes, PlaceOf
  <1>2a. \A q : Len(q) = 1 => q # <<>>
    OBVIOUS
  <1>3. a # <<>>
    BY <1>2, <1>2a, Zenon
  <1> DEFINE r == RequestOf(issued, n)
  <1>4. Live(c) /\ n \in 1 .. Current /\ issued[n].op \in Messages /\ a[1].int = Word * Len(r)
    BY <1>3, AgentWords
  <1>5. Len(r) \in Nat /\ Len(r) >= 3
    BY <1>0, <1>4, IssuedIsProper DEF Proper, RequestLooks, Current
  <1> HIDE DEF r
  <1>6. k = Len(r) - 1
    BY <1>4, <1>5, BodyOfLength
  <1>7. k \in 0 .. Len(s)
    BY <1>1, <1>2, <1>5, <1>6
  <1> HIDE DEF k, s
  <1>8. t \in Seq(Words) /\ Len(t) = k /\ e \in Seq(Words)
    BY <1>2, <1>7, CutAndJoin DEF Cuts2
  <1> HIDE DEF a
  <1>9. (a \o t) \o e = a \o s
    BY <1>2, <1>7, MoveWords, Zenon
  <1> HIDE DEF t, e
  <1>10. Joins(a, t, Words)
    BY <1>2, <1>8, Join, Zenon
  <1>11. a \o t \in Seq(Words) /\ Len(a \o t) = Len(r) /\ (a \o t)[1] = a[1]
    BY <1>2, <1>5, <1>6, <1>8, <1>10 DEF Joins
  <1>12. BufferTypes'
    <2>1. areq' \in [Conns -> Seq(Words)] /\ up' \in [Conns -> Seq(Words)]
      BY <1>0, <1>1, <1>8, <1>11 DEF BufferTypes
    <2> QED
      BY <1>0, <1>1, <2>1 DEF BufferTypes, client
  <1>13. /\ apc'[c] = "handle" /\ areq'[c] = a \o t /\ up'[c] = e
         /\ apc' \in [Conns -> {"none", "length", "body", "handle", "send", "end"}]
    BY <1>0, <1>1 DEF PlaceTypes, BufferTypes
  <1>14. \A d \in Conns : d # c => /\ apc'[d] = apc[d] /\ areq'[d] = areq[d]
                                   /\ up'[d] = up[d] /\ recvSize'[d] = recvSize[d]
    BY <1>0, <1>1 DEF PlaceTypes, BufferTypes
  <1>15. Live(c)'
    BY <1>1, <1>4 DEF Live
  <1>16. Stream(c)' = Stream(c)
    <2>1. Stream(c) = (a \o s) \o Unsents(c)
      BY <1>4 DEF Stream, a, s
    <2>2. Unsents(c)' = Unsents(c)
      BY <1>1 DEF Unsents, client
    <2>3. Stream(c)' = ((a \o t) \o e) \o Unsents(c)
      BY <1>13, <1>15, <2>2 DEF Stream
    <2> QED
      BY <1>9, <2>1, <2>3
  <1>17. PlaceOf(c)'
    <2>1. c > opened' => FALSE
      BY <1>0, <1>1 DEF PlaceOf, client
    <2>2. asend'[c] = <<>> /\ Word * Len(asend'[c]) <= resultSize'[c] /\ a[1].int + 1 <= recvSize'[c]
      BY <1>0, <1>1 DEF PlaceOf, a
    <2>3. Len(areq'[c]) = Len(RequestOf(issued', areq'[c][1].of)) /\ areq'[c][1] = a[1]
      BY <1>1, <1>11, <1>13 DEF client, r
    <2>4. areq'[c] # <<>>
      BY <1>5, <1>11, <1>13
    <2> QED
      BY <1>13, <1>15, <2>1, <2>2, <2>3, <2>4 DEF PlaceOf
  <1> QED
    BY <1>1, <1>12, <1>13, <1>14, <1>16, <1>17, AgentMoves

\* What an agent handles is a request as the shell built it.
LEMMA HandledRequest ==
  ASSUME WireInvariant, NEW c \in Conns, apc[c] \in {"handle", "send"}
  PROVE  /\ Live(c) /\ areq[c][1].of \in 1 .. Current /\ issued[areq[c][1].of].op \in Messages
         /\ areq[c] = RequestOf(issued, areq[c][1].of)
         /\ Stream(c) # <<>> /\ Stream(c)[1] = areq[c][1]
  <1> DEFINE a == areq[c]
             s == Stream(c)
             r == RequestOf(issued, a[1].of)
  <1>0. WireTypes /\ PlaceOf(c) /\ Proper(issued) /\ WholeRequests(issued, s)
    BY PlaceOfAll, IssuedIsProper DEF WireInvariant, StreamsWhole
  <1>1. a # <<>> /\ Len(a) = Len(r)
    BY <1>0 DEF PlaceOf
  <1>2. /\ Live(c) /\ a \in Seq(Words) /\ Len(a) \in Nat /\ s # <<>> /\ s[1] = a[1]
        /\ \A j \in 1 .. Len(a) : s[j] = a[j]
        /\ a[1].of \in 1 .. Current /\ issued[a[1].of].op \in Messages
    BY <1>1, AgentWords
  <1>3. s \in Seq(Words)
    BY <1>0, StreamType
  <1> HIDE DEF a, s
  <1>4. \A j \in 1 .. Len(r) : s[j] = r[j]
    BY <1>0, <1>2, <1>3, WholeFirst
  <1>5. r \in Seq(Words)
    BY <1>0, <1>2 DEF Proper, RequestLooks, Current
  <1> HIDE DEF r
  <1>6. \A j \in 1 .. Len(a) : a[j] = r[j]
    BY <1>1, <1>2, <1>4
  <1>7. a = r
    BY <1>1, <1>2, <1>5, <1>6, SeqEqual, Zenon
  <1> QED
    BY <1>2, <1>7 DEF a, s, r

\* What a handler answers.
OutcomeLooks(o, op) ==
  /\ o.code \in Int /\ o.doc \in Documents
  /\ o.store \in [Ids -> Documents \cup {NoDoc}]
  /\ ~(op = OP_QUERY /\ o.code = EDB_OK) => o.doc = EmptyDoc

LEMMA OutcomeShape ==
  ASSUME HandledTypes, NEW op \in Messages, NEW d \in Documents, op # OP_INSERT => d.id \in Ids,
         NEW o \in {Outcome(op, d)} \cup (IF op = OP_INSERT THEN {Refusal} ELSE {})
  PROVE  OutcomeLooks(o, op)
  <1>1. /\ store \in [Ids -> Documents \cup {NoDoc}] /\ EmptyDoc \in Documents
        /\ d.id \in Ids \cup {NoId} /\ NoDoc \notin Documents
    BY DocFacts DEF HandledTypes, Documents
  <1>2. \A e \in Documents \cup {NoDoc} :
           d.id \in Ids => [store EXCEPT ![d.id] = e] \in [Ids -> Documents \cup {NoDoc}]
    BY <1>1
  <1>3. /\ EDB_NO_ID \in Int /\ EDB_IXM_ID_EXIST \in Int /\ EDB_OK \in Int
        /\ EDB_INVALIDARG \in Int /\ EDB_SYS \in Int /\ EDB_INVALIDARG # EDB_OK
        /\ OP_INSERT # OP_QUERY
    BY DEF EDB_NO_ID, EDB_IXM_ID_EXIST, EDB_OK, EDB_INVALIDARG, EDB_SYS, OP_INSERT, OP_QUERY
  <1>4. CASE op = OP_INSERT /\ o = Refusal
    BY <1>1, <1>3, <1>4 DEF Refusal, OutcomeLooks
  <1>5. CASE op = OP_INSERT /\ o = Outcome(op, d)
    <2>1. CASE d.id = NoId
      <3>1. o = [code |-> EDB_NO_ID, doc |-> EmptyDoc, store |-> store]
        BY <1>5, <2>1 DEF Outcome
      <3> QED
        BY <1>1, <1>3, <1>5, <3>1 DEF OutcomeLooks
    <2>2. CASE d.id # NoId
      <3>1. \/ o = [code |-> EDB_IXM_ID_EXIST, doc |-> EmptyDoc, store |-> store]
            \/ o = [code |-> EDB_OK, doc |-> EmptyDoc, store |-> [store EXCEPT ![d.id] = d]]
        BY <1>5, <2>2 DEF Outcome
      <3> QED
        BY <1>1, <1>2, <1>3, <1>5, <2>2, <3>1 DEF OutcomeLooks
    <2> QED
      BY <2>1, <2>2
  <1>6. CASE op # OP_INSERT
    <2>1. o = Outcome(op, d) /\ d.id \in Ids
      BY <1>6
    <2>2. CASE store[d.id] = NoDoc
      <3>1. o = [code |-> EDB_INVALIDARG, doc |-> EmptyDoc, store |-> store]
        BY <1>6, <2>1, <2>2 DEF Outcome
      <3> QED
        BY <1>1, <1>3, <3>1 DEF OutcomeLooks
    <2>3. CASE store[d.id] # NoDoc /\ op = OP_QUERY
      <3>1. o = [code |-> EDB_OK, doc |-> store[d.id], store |-> store]
        BY <1>6, <2>1, <2>3 DEF Outcome
      <3>2. store[d.id] \in Documents
        BY <1>1, <2>1, <2>3
      <3> QED
        BY <1>1, <1>3, <2>3, <3>1, <3>2 DEF OutcomeLooks
    <2>4. CASE store[d.id] # NoDoc /\ op # OP_QUERY
      <3>1. o = [code |-> EDB_OK, doc |-> EmptyDoc, store |-> [store EXCEPT ![d.id] = NoDoc]]
        BY <1>6, <2>1, <2>4 DEF Outcome
      <3> QED
        BY <1>1, <1>2, <1>3, <2>1, <3>1 DEF OutcomeLooks
    <2> QED
      BY <2>2, <2>3, <2>4
  <1> QED
    BY <1>4, <1>5, <1>6

\* The result buffer for a reply.
LEMMA ResultHolds ==
  ASSUME NEW len \in Nat PROVE ResultFor(len) \in Nat /\ len <= ResultFor(len)
  BY DEF ResultFor, ReplyBytes, Word

\* The facts of a Handle step: the request of command n, which is op on d, is
\* handled with outcome h and answered with reply r.
HandleFacts(c, n, r, h) ==
  /\ apc[c] = "handle"
  /\ n \in 1 .. Current /\ areq[c][1].of = n
  /\ h = [n |-> n, conn |-> c, op |-> issued[n].op, doc |-> issued[n].doc,
          code |-> h.code, found |-> h.found]
  /\ h.op \in Messages /\ h.doc \in Documents /\ h.code \in Int
  /\ h.found \in Documents \cup {NoDoc}
  /\ h.found = NoDoc <=> ~(h.op = OP_QUERY /\ h.code = EDB_OK)
  /\ r = ReplyOf(h) /\ r \in Seq(Words) /\ Len(r) \in Nat /\ Len(r) >= 4
  /\ store' \in [Ids -> Documents \cup {NoDoc}]
  /\ asend' = [asend EXCEPT ![c] = r]
  /\ resultSize' = [resultSize EXCEPT ![c] = ResultFor(Word * Len(r))]
  /\ handled' = Append(handled, h)
  /\ apc' = [apc EXCEPT ![c] = "send"]
  /\ UNCHANGED <<up, down, alive, client, areq, recvSize, skewed>>

LEMMA HandleGives ==
  ASSUME WireInvariant, NEW c \in Conns, Handle(c)
  PROVE  \E n, r, h : HandleFacts(c, n, r, h)
  <1> DEFINE n == areq[c][1].of
             op == areq[c][2].int
             p == IF op = OP_INSERT THEN 4 ELSE 3
             d == DocAt(areq[c], p)
  <1>0. WireTypes /\ Proper(issued) /\ HandledTypes
    BY IssuedIsProper DEF WireInvariant, WireTypes
  <1>1. apc[c] = "handle"
    BY DEF Handle
  <1>2. /\ n \in 1 .. Current /\ issued[n].op \in Messages /\ areq[c] = RequestOf(issued, n)
    BY <1>1, HandledRequest
  <1>3. op = issued[n].op /\ d = issued[n].doc
    <2>1. RequestLooks(areq[c], n, issued[n].op, issued[n].doc)
      BY <1>0, <1>2 DEF Proper, Current
    <2>2. op = issued[n].op
      BY <2>1 DEF RequestLooks
    <2>3. p = HeadLen(op) + 1
      BY DEF HeadLen
    <2> QED
      BY <2>1, <2>2, <2>3 DEF RequestLooks
  <1>4. op \in Messages /\ d \in Documents /\ (op # OP_INSERT => d.id \in Ids) /\ n \in Nat
    BY <1>0, <1>2, <1>3 DEF WireTypes, IssuedTypes
  <1>5. PICK o \in {Outcome(op, d)} \cup (IF op = OP_INSERT THEN {Refusal} ELSE {}) :
           LET reply == Reply(n, op, o.code, o.doc)
           IN /\ store' = o.store
              /\ asend' = [asend EXCEPT ![c] = reply]
              /\ resultSize' = [resultSize EXCEPT ![c] = ResultFor(reply[1].int)]
              /\ handled' = Append(handled,
                              [n |-> n, conn |-> c, op |-> op, doc |-> d, code |-> o.code,
                               found |-> IF op = OP_QUERY /\ o.code = EDB_OK THEN o.doc ELSE NoDoc])
    BY DEF Handle
  <1>6. apc' = [apc EXCEPT ![c] = "send"] /\ UNCHANGED <<up, down, alive, client, areq, recvSize, skewed>>
    BY DEF Handle
  <1> HIDE DEF p, d, op
  <1>7. OutcomeLooks(o, op)
    BY <1>0, <1>4, OutcomeShape
  <1> DEFINE f == IF op = OP_QUERY /\ o.code = EDB_OK THEN o.doc ELSE NoDoc
             h == [n |-> n, conn |-> c, op |-> op, doc |-> d, code |-> o.code, found |-> f]
             r == Reply(n, op, o.code, o.doc)
  <1>8. f \in Documents \cup {NoDoc} /\ (f = NoDoc <=> ~(op = OP_QUERY /\ o.code = EDB_OK))
    BY <1>7, DocFacts DEF OutcomeLooks
  <1>9. o.doc = IF f = NoDoc THEN EmptyDoc ELSE f
    BY <1>7, <1>8 DEF OutcomeLooks
  <1>10. ReplyLooks(r, op, o.code, o.doc)
    BY <1>4, <1>7, ReplyShape DEF OutcomeLooks
  <1>11. r \in Seq(Words) /\ Len(r) \in Nat /\ Len(r) >= 4 /\ r[1].int = Word * Len(r)
    BY <1>10 DEF ReplyLooks
  <1>12. store' = o.store /\ asend' = [asend EXCEPT ![c] = r]
         /\ resultSize' = [resultSize EXCEPT ![c] = ResultFor(Word * Len(r))]
         /\ handled' = Append(handled, h)
    BY <1>5, <1>11
  <1> HIDE DEF f, n
  <1>13. h.n = n /\ h.conn = c /\ h.op = op /\ h.doc = d /\ h.code = o.code /\ h.found = f
    OBVIOUS
  <1>14. ReplyOf(h) = r
    BY <1>9, <1>13 DEF ReplyOf
  <1> HIDE DEF r
  <1>15. h = [n |-> n, conn |-> c, op |-> issued[n].op, doc |-> issued[n].doc,
              code |-> h.code, found |-> h.found]
    BY <1>3, <1>13
  <1> HIDE DEF h
  <1>16. HandleFacts(c, n, r, h)
    <2>1. apc[c] = "handle" /\ n \in 1 .. Current /\ areq[c][1].of = n
      BY <1>1, <1>2 DEF n
    <2>2. /\ h.op \in Messages /\ h.doc \in Documents /\ h.code \in Int
          /\ h.found \in Documents \cup {NoDoc}
          /\ h.found = NoDoc <=> ~(h.op = OP_QUERY /\ h.code = EDB_OK)
      BY <1>4, <1>7, <1>8, <1>13 DEF OutcomeLooks
    <2>3. store' \in [Ids -> Documents \cup {NoDoc}]
      BY <1>7, <1>12 DEF OutcomeLooks
    <2> QED
      BY <1>6, <1>11, <1>12, <1>14, <1>15, <2>1, <2>2, <2>3 DEF HandleFacts
  <1> QED
    BY <1>16

LEMMA StepHandle ==
  ASSUME WireInvariant, NEW c \in Conns, Handle(c) PROVE WireInvariant'
  <1>0. /\ WireTypes /\ PlaceTypes /\ BufferTypes /\ HandledTypes /\ ShellPlaces /\ Order
        /\ HandledMatch /\ InTurn /\ PlaceOf(c)
    BY PlaceOfAll DEF WireInvariant, WireTypes
  <1>f. PICK n, r, h : HandleFacts(c, n, r, h)
    BY HandleGives
  <1>1. /\ apc[c] = "handle" /\ n \in 1 .. Current /\ areq[c][1].of = n
        /\ asend' = [asend EXCEPT ![c] = r]
        /\ resultSize' = [resultSize EXCEPT ![c] = ResultFor(Word * Len(r))]
        /\ handled' = Append(handled, h)
        /\ apc' = [apc EXCEPT ![c] = "send"]
        /\ UNCHANGED <<up, down, alive, client, areq, recvSize, skewed>>
    BY <1>f DEF HandleFacts
  <1>2. UNCHANGED <<conn, cpc, csend, cbuf, result, opened, issued, cut, gaveUp>>
    BY <1>1 DEF client
  <1>3. h.n = n /\ h.conn = c /\ h.op = issued[n].op /\ h.doc = issued[n].doc
    <2>1. h = [n |-> n, conn |-> c, op |-> issued[n].op, doc |-> issued[n].doc,
               code |-> h.code, found |-> h.found]
      BY <1>f DEF HandleFacts
    <2> DEFINE g == [n |-> n, conn |-> c, op |-> issued[n].op, doc |-> issued[n].doc,
                     code |-> h.code, found |-> h.found]
    <2>2. g.n = n /\ g.conn = c /\ g.op = issued[n].op /\ g.doc = issued[n].doc
      OBVIOUS
    <2> HIDE DEF g
    <2>3. h = g
      BY <2>1 DEF g
    <2> QED
      BY <2>2, <2>3
  <1>4. /\ Live(c) /\ issued[n].op \in Messages /\ areq[c] = RequestOf(issued, n)
        /\ Stream(c) # <<>> /\ Stream(c)[1].of = n
    BY <1>1, HandledRequest
  <1>5. r = ReplyOf(h) /\ r \in Seq(Words) /\ Len(r) \in Nat /\ Len(r) >= 4
    BY <1>f DEF HandleFacts
  <1>6. Word * Len(r) \in Nat /\ Word * Len(r) <= ResultFor(Word * Len(r)) /\ ResultFor(Word * Len(r)) \in Nat
    <2>1. Word * Len(r) \in Nat
      BY <1>5 DEF Word
    <2> QED
      BY <2>1, ResultHolds
  <1>7. HandledTypes' /\ Len(handled) \in Nat /\ Len(handled') = Len(handled) + 1
        /\ handled'[Len(handled) + 1] = h
        /\ \A i \in 1 .. Len(handled) : handled'[i] = handled[i]
    <2> DEFINE H == [n : Nat, conn : Conns, op : Messages, doc : Documents, code : Int,
                     found : Documents \cup {NoDoc}]
    <2>1. h \in H
      <3>1. /\ h = [n |-> n, conn |-> c, op |-> issued[n].op, doc |-> issued[n].doc,
                    code |-> h.code, found |-> h.found]
            /\ h.op \in Messages /\ h.doc \in Documents /\ h.code \in Int
            /\ h.found \in Documents \cup {NoDoc}
        BY <1>f DEF HandleFacts
      <3>2. n \in Nat
        BY <1>1
      <3> QED
        BY <1>3, <3>1, <3>2
    <2> HIDE DEF H
    <2>2. handled \in Seq(H)
      BY <1>0 DEF HandledTypes, H
    <2>3. handled' \in Seq(H) /\ Len(handled) \in Nat /\ Len(handled') = Len(handled) + 1
          /\ handled'[Len(handled) + 1] = h /\ \A i \in 1 .. Len(handled) : handled'[i] = handled[i]
      BY <1>1, <2>1, <2>2
    <2>4. store' \in [Ids -> Documents \cup {NoDoc}] /\ skewed' \in BOOLEAN
      BY <1>0, <1>1, <1>f DEF HandleFacts, HandledTypes
    <2> QED
      BY <2>3, <2>4 DEF HandledTypes, H
  <1>8. /\ apc'[c] = "send" /\ asend'[c] = r /\ resultSize'[c] = ResultFor(Word * Len(r))
        /\ \A d \in Conns : d # c => /\ apc'[d] = apc[d] /\ asend'[d] = asend[d]
                                     /\ resultSize'[d] = resultSize[d]
    BY <1>0, <1>1 DEF PlaceTypes, BufferTypes
  <1>9. \A d \in Conns : (Live(d)' <=> Live(d)) /\ Stream(d)' = Stream(d)
    BY <1>1, <1>2 DEF Live, Stream, Unsents
  <1>10. WireTypes'
    <2>1. PlaceTypes'
      BY <1>0, <1>1, <1>2 DEF PlaceTypes
    <2>2. BufferTypes'
      BY <1>0, <1>1, <1>2, <1>5, <1>6 DEF BufferTypes
    <2>3. IssuedTypes'
      BY <1>0, <1>2 DEF WireTypes, IssuedTypes, Current
    <2> QED
      BY <1>7, <2>1, <2>2, <2>3 DEF WireTypes
  <1>11. ShellPlaces'
    BY <1>0, <1>1, <1>2 DEF ShellPlaces, Connected, Current, Live
  <1>12. IssuedGrows /\ opened' \in Conns /\ opened <= opened'
    BY <1>0, <1>2, GrowsSame, ConnFacts DEF PlaceTypes
  <1>13. AgentPlaces'
    <2>1. ASSUME NEW d \in Conns, d # c PROVE PlaceOf(d)'
      <3>1. AgentSame(d)
        BY <1>1, <1>8, <1>9, <2>1 DEF AgentSame
      <3> QED
        BY <1>12, <3>1, PlaceKeeps
    <2>2. PlaceOf(c)'
      <3>1. ~(c > opened') /\ Live(c)'
        BY <1>0, <1>1, <1>2, <1>4, <1>9 DEF PlaceOf
      <3>2. areq'[c] # <<>> /\ Len(areq'[c]) = Len(RequestOf(issued', areq'[c][1].of))
        BY <1>0, <1>1, <1>2 DEF PlaceOf
      <3>3. asend'[c] # <<>>
        BY <1>5, <1>8
      <3> QED
        BY <1>6, <1>8, <3>1, <3>2, <3>3 DEF PlaceOf
    <2>3. \A d \in Conns : PlaceOf(d)'
      BY <2>1, <2>2
    <2> QED
      BY <2>3 DEF AgentPlaces, PlaceOf
  <1>14. StreamsWhole'
    BY <1>2, <1>9 DEF WireInvariant, StreamsWhole
  <1>15. HandledMatch'
    <2> SUFFICES ASSUME NEW i \in 1 .. Len(handled')
                 PROVE  /\ handled'[i].n \in 1 .. Current
                        /\ handled'[i].conn <= opened
                        /\ handled'[i].op = issued[handled'[i].n].op
                        /\ handled'[i].doc = issued[handled'[i].n].doc
                        /\ handled'[i].found = NoDoc <=>
                              ~(handled'[i].op = OP_QUERY /\ handled'[i].code = EDB_OK)
      BY <1>2 DEF HandledMatch, Current
    <2>1. CASE i \in 1 .. Len(handled)
      BY <1>0, <1>7, <2>1 DEF HandledMatch
    <2>2. CASE i = Len(handled) + 1
      <3>1. c <= opened
        BY <1>0, <1>1, ConnFacts DEF PlaceOf, PlaceTypes
      <3>2. h.found = NoDoc <=> ~(h.op = OP_QUERY /\ h.code = EDB_OK)
        BY <1>f DEF HandleFacts
      <3> QED
        BY <1>1, <1>3, <1>7, <2>2, <3>1, <3>2
    <2> QED
      BY <1>7, <2>1, <2>2
  \* The order of the commands.
  <1>16. /\ n \in Waiting(c) /\ Waiting(c)' \subseteq Waiting(c)
         /\ \A m \in Waiting(c)' : n < m
    <2>1. Waiting(c) = BegunFrom(Stream(c), 1) /\ Waiting(c)' = BegunFrom(Stream(c), 2)
      BY <1>1, <1>8, <1>9 DEF Waiting
    <2>2. WholeRequests(issued, Stream(c)) /\ Stream(c) \in Seq(Words)
      BY <1>0, StreamType DEF WireInvariant, StreamsWhole
    <2> QED
      BY <1>4, <2>1, <2>2, BegunFirst
  <1>17. \A d \in Conns : d # c => Waiting(d)' = Waiting(d)
    BY <1>8, <1>9 DEF Waiting
  <1>18. \A d \in Conns : Waiting(d)' \subseteq Waiting(d)
    BY <1>16, <1>17
  <1>19. \A i \in 1 .. Len(handled) :
            IF handled[i].conn <= c THEN handled[i].n < n ELSE n < handled[i].n
    BY <1>0, <1>16 DEF Order
  <1>20. Order'
    <2>1. \A e, d \in Conns : e < d => \A m \in Waiting(e)', q \in Waiting(d)' : m < q
      BY <1>0, <1>18 DEF Order
    <2>2. ASSUME NEW i \in 1 .. Len(handled'), NEW e \in Conns, NEW m \in Waiting(e)'
          PROVE  IF handled'[i].conn <= e THEN handled'[i].n < m ELSE m < handled'[i].n
      <3>1. CASE i \in 1 .. Len(handled)
        BY <1>0, <1>7, <1>18, <3>1 DEF Order
      <3>2. CASE i = Len(handled) + 1
        <4>1. handled'[i].conn = c /\ handled'[i].n = n
          BY <1>3, <1>7, <3>2
        <4>2. CASE e = c
          BY <1>16, <4>1, <4>2, ConnFacts
        <4>3. CASE c < e
          <5>1. n < m
            BY <1>0, <1>16, <1>18, <4>3 DEF Order
          <5> QED
            BY <4>1, <4>3, <5>1, ConnFacts
        <4>4. CASE e < c
          <5>1. m < n
            BY <1>0, <1>16, <1>18, <4>4 DEF Order
          <5>2. ~(c <= e)
            BY <4>4, ConnFacts
          <5> QED
            BY <4>1, <5>1, <5>2
        <4>5. e = c \/ c < e \/ e < c
          BY ConnFacts
        <4> QED
          BY <4>2, <4>3, <4>4, <4>5
      <3> QED
        BY <1>7, <3>1, <3>2
    <2>3. ASSUME NEW i \in 1 .. Len(handled'), NEW j \in 1 .. Len(handled')
          PROVE  /\ handled'[i].conn < handled'[j].conn => handled'[i].n < handled'[j].n
                 /\ i < j /\ handled'[i].conn = handled'[j].conn => handled'[i].n < handled'[j].n
      <3>0. \A k \in 1 .. Len(handled) : handled[k].conn \in Nat
        BY <1>0, HandledType, ConnFacts
      <3>c. c \in Nat
        BY ConnFacts
      <3>1. CASE i \in 1 .. Len(handled) /\ j \in 1 .. Len(handled)
        BY <1>0, <1>7, <3>1 DEF Order
      <3>2. CASE i \in 1 .. Len(handled) /\ j = Len(handled) + 1
        <4>1. handled'[j].conn = c /\ handled'[j].n = n /\ handled'[i] = handled[i]
          BY <1>3, <1>7, <3>2
        <4> QED
          BY <1>19, <3>0, <3>2, <3>c, <4>1
      <3>3. CASE i = Len(handled) + 1 /\ j \in 1 .. Len(handled)
        <4>1. handled'[i].conn = c /\ handled'[i].n = n /\ handled'[j] = handled[j] /\ ~(i < j)
          BY <1>3, <1>7, <3>3
        <4> QED
          BY <1>19, <3>0, <3>3, <3>c, <4>1
      <3>4. CASE i = Len(handled) + 1 /\ j = Len(handled) + 1
        <4>1. ~(i < j) /\ handled'[i].conn = c /\ handled'[j].conn = c
          BY <1>3, <1>7, <3>4
        <4> QED
          BY <3>c, <4>1
      <3> QED
        BY <1>7, <3>1, <3>2, <3>3, <3>4
    <2> QED
      BY <2>1, <2>2, <2>3 DEF Order
  <1>21. InTurn'
    <2> SUFFICES ASSUME ~skewed
                 PROVE  (\A d \in Conns : TurnOf(d))' /\ ExecutedInOrder' /\ AnswersOwnRequest'
      BY <1>1 DEF InTurn
    <2>0. TurnOf(c) /\ Pending(c, n)
      BY <1>0, <1>16 DEF InTurn, TurnOf
    <2>1. \A d \in Conns : \A m \in Waiting(d)' : Pending(d, m)'
      BY <1>1, <1>2, <1>18, KeepPending
    \* The request of the command the shell waits for.
    <2>2. ASSUME c = conn, cpc # "prompt"
          PROVE  cpc # "send" /\ \E i \in 1 .. Len(handled') : Answered(c, i)'
      <3>3. Asked(c)
        BY <1>0, <1>1, <1>4, <2>0, <2>2 DEF TurnOf, Answered, PlaceTypes
      <3>4. Current = n /\ Stream(c) = areq[c]
        <4>1. Stream(c) = RequestOf(issued, Current)
          BY <1>4, <3>3 DEF Asked
        <4>2. Current \in 1 .. Len(issued) /\ issued[Current].op \in Messages
          BY <2>2, ShellConn DEF Current
        <4>3. RequestOf(issued, Current)[1].of = Current
          BY <1>0, <4>2, IssuedIsProper DEF Proper, RequestLooks
        <4> QED
          BY <1>4, <4>1, <4>3
      <3>5. cpc # "send"
        <4> SUFFICES ASSUME cpc = "send" PROVE FALSE
          OBVIOUS
        <4> DEFINE a == areq[c]
                   b == up[c] \o csend
        <4>1. a \in Seq(Words) /\ up[c] \in Seq(Words) /\ csend \in Seq(Words) /\ csend # <<>>
          BY <1>0 DEF BufferTypes, ShellPlaces
        <4>2. (a \o up[c]) \o csend = a
          BY <1>4, <2>0, <2>2, <3>4, ShellConn DEF Stream, Unsents
        <4>3. a \o up[c] \in Seq(Words)
          BY <4>1
        <4>4. Joins(a, up[c], Words) /\ Joins(a \o up[c], csend, Words)
          BY <4>1, <4>3, Join, Zenon
        <4>5. Len(csend) = 0
          <5>1. Len(a) \in Nat /\ Len(up[c]) \in Nat /\ Len(csend) \in Nat
                /\ Len(a \o up[c]) = Len(a) + Len(up[c])
                /\ Len((a \o up[c]) \o csend) = Len(a \o up[c]) + Len(csend)
            BY <4>4 DEF Joins
          <5>2. Len(a) = Len(a) + Len(up[c]) + Len(csend)
            BY <4>2, <5>1
          <5>3. \A x, y, z \in Nat : x = x + y + z => z = 0
            OBVIOUS
          <5> QED
            BY <5>1, <5>2, <5>3, Zenon
        <4> QED
          BY <4>1, <4>5, EmptyJoins
      <3>6. Back(c)' = r
        <4> DEFINE t == Kept(c) \o down[c]
        <4>1. Back(c) = t \o <<>> /\ Back(c) = <<>>
          BY <1>0, <1>1, <3>3 DEF Back, Asked, PlaceOf
        <4>2. t \in Seq(Words)
          BY <1>0, StreamType DEF BufferTypes
        <4>3. t \o <<>> = t /\ <<>> \o r = r
          BY <1>5, <4>2, EmptyJoins
        <4>4. Kept(c)' = Kept(c)
          BY <1>2 DEF Kept
        <4>5. Back(c)' = t \o r
          BY <1>1, <1>8, <4>4 DEF Back
        <4> QED
          BY <4>1, <4>3, <4>5
      <3>i. PICK l \in Nat : l = Len(handled) + 1
        BY <1>7
      <3>7. Answered(c, l)'
        <4>1. handled'[l] = h
          BY <1>7, <3>i
        <4>2. Prefix(r, r)
          BY <1>5 DEF Prefix
        <4>3. Prefix(Back(c)', ReplyOf(handled'[l])) /\ Len(Back(c)') = Len(ReplyOf(handled'[l]))
          BY <1>5, <3>6, <4>1, <4>2
        <4>4. handled'[l].n = Current'
          BY <1>2, <1>3, <3>4, <4>1 DEF Current
        <4>5. Stream(c)' = areq'[c] /\ apc'[c] = "send"
          BY <1>1, <1>8, <1>9, <3>4
        <4> QED
          BY <4>3, <4>4, <4>5 DEF Answered
      <3> QED
        BY <1>7, <3>i, <3>5, <3>7
    <2>3. ASSUME NEW d \in Conns PROVE TurnOf(d)'
      <3>0. TurnOf(d)
        BY <1>0 DEF InTurn
      <3>1. CASE d = c
        <4>1. ~(c = conn /\ cpc = "prompt" /\ "client" \in alive[c])
          BY <1>4, <2>0 DEF TurnOf
        <4> QED
          BY <1>1, <1>2, <2>1, <2>2, <3>1, <4>1 DEF TurnOf
      <3>2. CASE d # c
        <4>1. Back(d)' = Back(d)
          BY <1>1, <1>2, <1>8, <3>2 DEF Back, Kept
        <4>2. \A i \in 1 .. Len(handled) : i \in 1 .. Len(handled') /\ handled'[i] = handled[i]
          BY <1>7
        <4> QED
          BY <1>1, <1>2, <1>8, <1>9, <3>2, <4>1, <4>2, OtherTurn
      <3> QED
        BY <3>1, <3>2
    <2>9. ExecutedInOrder'
      <3>1. ASSUME NEW i \in 1 .. Len(handled'), NEW j \in 1 .. Len(handled'), i < j
            PROVE  handled'[i].n < handled'[j].n \/ handled'[j].n \in gaveUp'
        <4>1. CASE j \in 1 .. Len(handled)
          <5>1. i \in 1 .. Len(handled)
            BY <1>7, <3>1, <4>1
          <5> QED
            BY <1>0, <1>2, <1>7, <3>1, <4>1, <5>1 DEF InTurn, ExecutedInOrder
        <4>2. CASE j = Len(handled) + 1 /\ n \in gaveUp
          BY <1>2, <1>3, <1>7, <4>2
        <4>3. CASE j = Len(handled) + 1 /\ n \notin gaveUp
          <5>1. i \in 1 .. Len(handled)
            BY <1>7, <3>1, <4>3
          <5>2. handled[i].conn <= opened
            BY <1>0, <5>1 DEF HandledMatch
          <5>3. c = opened
            BY <1>0, <2>0, <4>3, ConnFacts DEF PlaceTypes, Pending
          <5> QED
            BY <1>3, <1>7, <1>19, <4>3, <5>1, <5>2, <5>3
        <4> QED
          BY <1>7, <4>1, <4>2, <4>3
      <3> QED
        BY <3>1 DEF ExecutedInOrder
    <2>10. AnswersOwnRequest'
      <3>1. result.server => \E i \in 1 .. Len(handled) :
               /\ handled[i].n = result.n /\ handled[i].code = result.code
               /\ handled[i].found = result.doc
        BY <1>0 DEF InTurn, AnswersOwnRequest
      <3>2. \A i \in 1 .. Len(handled) : i \in 1 .. Len(handled') /\ handled'[i] = handled[i]
        BY <1>7
      <3> QED
        BY <1>2, <3>1, <3>2 DEF AnswersOwnRequest
    <2> QED
      BY <2>3, <2>9, <2>10
  <1> QED
    BY <1>10, <1>11, <1>13, <1>14, <1>15, <1>20, <1>21 DEF WireInvariant

LEMMA DropJoined ==
  ASSUME NEW S, NEW a \in Seq(S), NEW b \in Seq(S) PROVE Drop(a \o b, Len(a)) = b
  <1> DEFINE s == a \o b
             k == Len(a)
             e == Drop(s, k)
  <1>1. Joins(a, b, S)
    BY Join, Zenon
  <1>2. /\ s \in Seq(S) /\ Len(s) = k + Len(b) /\ k \in Nat /\ Len(b) \in Nat
        /\ \A i \in 1 .. Len(b) : s[k + i] = b[i]
    BY <1>1 DEF Joins
  <1> HIDE DEF s, k
  <1>3. k \in 0 .. Len(s) /\ Len(s) - k = Len(b)
    BY <1>2
  <1>3a. Cuts2(s, k, S)
    BY <1>2, <1>3, CutAndJoin, Zenon
  <1>4. e \in Seq(S) /\ Len(e) = Len(b) /\ \A j \in 1 .. Len(b) : e[j] = s[k + j]
    BY <1>3, <1>3a DEF Cuts2
  <1> HIDE DEF e
  <1>5. \A j \in 1 .. Len(e) : e[j] = b[j]
    BY <1>2, <1>4
  <1>6. e = b
    BY <1>4, <1>5, SeqEqual, Zenon
  <1> QED
    BY <1>6 DEF e, s, k

LEMMA StepAgentSend ==
  ASSUME WireInvariant, NEW c \in Conns, AgentSend(c) PROVE WireInvariant'
  <1>0. /\ WireTypes /\ PlaceTypes /\ BufferTypes /\ HandledTypes /\ ShellPlaces
        /\ InTurn /\ PlaceOf(c)
    BY PlaceOfAll DEF WireInvariant, WireTypes
  <1>k. PICK k \in Chunks(asend[c]) :
          /\ down' = IF "client" \in alive[c]
                     THEN [down EXCEPT ![c] = @ \o Take(asend[c], k)] ELSE down
          /\ asend' = [asend EXCEPT ![c] = Drop(@, k)]
          /\ apc' = [apc EXCEPT ![c] = IF k = Len(asend[c]) THEN "length" ELSE "send"]
          /\ areq' = [areq EXCEPT ![c] = IF k = Len(asend[c]) THEN <<>> ELSE @]
    BY DEF AgentSend
  <1>1. apc[c] = "send" /\ UNCHANGED <<store, up, alive, client, recvSize, resultSize, handled, skewed>>
    BY DEF AgentSend
  <1>2. UNCHANGED <<conn, cpc, csend, cbuf, result, opened, issued, cut, gaveUp>>
    BY <1>1 DEF client
  <1> DEFINE g == asend[c]
             t == Take(g, k)
             e == Drop(g, k)
             a == areq[c]
             n == a[1].of
  <1>3. g \in Seq(Words) /\ Len(g) \in Nat /\ k \in 1 .. Len(g) /\ k \in 0 .. Len(g)
    BY <1>0 DEF BufferTypes, Chunks
  <1>4. /\ Live(c) /\ n \in 1 .. Current /\ issued[n].op \in Messages /\ a = RequestOf(issued, n)
        /\ Stream(c) # <<>> /\ Stream(c)[1].of = n
    BY <1>1, HandledRequest
  <1> HIDE DEF g
  <1>5. t \in Seq(Words) /\ e \in Seq(Words) /\ Len(e) = Len(g) - k
    BY <1>3, CutAndJoin DEF Cuts2
  <1> HIDE DEF t, e
  <1>6. down[c] \in Seq(Words) /\ up[c] \in Seq(Words) /\ a \in Seq(Words) /\ Kept(c) \in Seq(Words)
        /\ Unsents(c) \in Seq(Words) /\ down[c] \o t \in Seq(Words)
    BY <1>0, <1>5, StreamType DEF BufferTypes
  <1>7. /\ apc'[c] = IF k = Len(g) THEN "length" ELSE "send"
        /\ areq'[c] = IF k = Len(g) THEN <<>> ELSE a
        /\ asend'[c] = e
        /\ "client" \in alive[c] => down'[c] = down[c] \o t
        /\ "client" \notin alive[c] => down'[c] = down[c]
        /\ \A d \in Conns : d # c => /\ apc'[d] = apc[d] /\ asend'[d] = asend[d]
                                     /\ areq'[d] = areq[d] /\ down'[d] = down[d]
    BY <1>0, <1>k DEF PlaceTypes, BufferTypes, g, t, e
  <1>8. WireTypes'
    <2>1. PlaceTypes'
      BY <1>0, <1>1, <1>2, <1>k DEF PlaceTypes
    <2>2. <<>> \in Seq(Words)
      OBVIOUS
    <2>3. areq' \in [Conns -> Seq(Words)] /\ asend' \in [Conns -> Seq(Words)]
      BY <1>0, <1>5, <1>6, <1>k, <2>2 DEF BufferTypes, e, g
    <2>4. down' \in [Conns -> Seq(Words)]
      BY <1>0, <1>5, <1>6, <1>k DEF BufferTypes, t, g
    <2>5. BufferTypes'
      BY <1>0, <1>1, <1>2, <2>3, <2>4 DEF BufferTypes
    <2>6. IssuedTypes' /\ HandledTypes'
      BY <1>0, <1>1, <1>2 DEF WireTypes, IssuedTypes, HandledTypes, Current
    <2> QED
      BY <2>1, <2>5, <2>6 DEF WireTypes
  <1>9. ShellPlaces'
    BY <1>0, <1>1, <1>2 DEF ShellPlaces, Connected, Current, Live
  <1>10. IssuedGrows /\ opened' \in Conns /\ opened <= opened'
    BY <1>0, <1>2, GrowsSame, ConnFacts DEF PlaceTypes
  <1>11. \A d \in Conns : Live(d)' <=> Live(d)
    BY <1>1 DEF Live
  <1>12. AgentPlaces'
    <2>1. ASSUME NEW d \in Conns, d # c PROVE PlaceOf(d)'
      <3>1. AgentSame(d)
        BY <1>1, <1>7, <1>11, <2>1 DEF AgentSame
      <3> QED
        BY <1>10, <3>1, PlaceKeeps
    <2>2. PlaceOf(c)'
      <3>1. ~(c > opened') /\ Live(c)'
        BY <1>0, <1>1, <1>2, <1>4, <1>11 DEF PlaceOf
      <3>2. Word * Len(asend'[c]) <= resultSize'[c]
        <4>1. resultSize[c] \in Nat /\ Word * Len(g) <= resultSize[c]
          BY <1>0 DEF PlaceOf, BufferTypes, g
        <4>2. Len(e) \in Nat /\ Len(e) <= Len(g)
          BY <1>3, <1>5
        <4>3. \A x, y, z \in Nat : x <= y /\ 4 * y <= z => 4 * x <= z
          OBVIOUS
        <4>4. 4 * Len(e) <= resultSize[c]
          BY <1>3, <4>1, <4>2, <4>3, Zenon DEF Word
        <4> QED
          BY <1>1, <1>7, <4>4 DEF Word
      <3>3. CASE k = Len(g)
        <4>1. Len(e) = 0
          BY <1>3, <1>5, <3>3
        <4>2. e = <<>>
          BY <1>5, <4>1, EmptyJoins
        <4> QED
          BY <1>7, <3>1, <3>2, <3>3, <4>2 DEF PlaceOf
      <3>4. CASE k # Len(g)
        <4>1. Len(e) # 0
          BY <1>3, <1>5, <3>4
        <4>2. e # <<>>
          BY <1>5, <4>1, EmptyJoins
        <4>3. a # <<>> /\ Len(a) = Len(RequestOf(issued', a[1].of))
          BY <1>0, <1>1, <1>2 DEF PlaceOf
        <4> QED
          BY <1>7, <3>1, <3>2, <3>4, <4>2, <4>3 DEF PlaceOf
      <3> QED
        BY <3>3, <3>4
    <2>3. \A d \in Conns : PlaceOf(d)'
      BY <2>1, <2>2
    <2> QED
      BY <2>3 DEF AgentPlaces, PlaceOf
  \* The streams: the request that was answered leaves its own.
  <1>13. ASSUME NEW d \in Conns, d # c \/ k # Len(g)
         PROVE  Stream(d)' = Stream(d) /\ Waiting(d)' = Waiting(d)
    <2>1. Unsents(d)' = Unsents(d)
      BY <1>1, <1>2 DEF Unsents
    <2>2. areq'[d] = areq[d] /\ apc'[d] = apc[d]
      BY <1>1, <1>7, <1>13
    <2>3. Stream(d)' = Stream(d)
      BY <1>1, <1>11, <2>1, <2>2, StreamSame
    <2> QED
      BY <2>2, <2>3 DEF Waiting
  <1> DEFINE b == up[c] \o Unsents(c)
  <1>14. b \in Seq(Words)
    BY <1>6
  <1>15. Stream(c) = a \o b
    <2>1. Associates(a, up[c], Unsents(c))
      BY <1>6, Associative, Zenon
    <2> QED
      BY <1>4, <2>1 DEF Associates, Stream
  <1>16. k = Len(g) => Stream(c)' = b
    <2>1. Unsents(c)' = Unsents(c) /\ up'[c] = up[c]
      BY <1>1, <1>2 DEF Unsents
    <2>2. k = Len(g) => Stream(c)' = (<<>> \o up[c]) \o Unsents(c)
      BY <1>4, <1>7, <1>11, <2>1 DEF Stream
    <2>3. <<>> \o up[c] = up[c]
      BY <1>6, EmptyJoins
    <2> QED
      BY <2>2, <2>3
  <1>17. ASSUME k = Len(g) PROVE Stream(c)' = Drop(Stream(c), Len(a))
    <2> HIDE DEF a, b
    <2>1. Drop(a \o b, Len(a)) = b
      BY <1>6, <1>14, DropJoined
    <2> QED
      BY <1>15, <1>16, <1>17, <2>1
  <1>18. WholeRequests(issued, Stream(c)) /\ Stream(c) \in Seq(Words) /\ Proper(issued)
    BY <1>0, StreamType, IssuedIsProper DEF WireInvariant, StreamsWhole
  <1>19. ASSUME NEW d \in Conns PROVE WholeRequests(issued', Stream(d)')
    <2>1. CASE d # c \/ k # Len(g)
      BY <1>2, <1>13, <2>1 DEF WireInvariant, StreamsWhole
    <2>2. CASE d = c /\ k = Len(g)
      <3> DEFINE s == Stream(c)
                 l == Len(a)
      <3>1. l = Len(RequestOf(issued, s[1].of)) /\ s # <<>>
        BY <1>4
      <3> HIDE DEF s, l
      <3>2. WholeRequests(issued, Drop(s, l))
        BY <1>18, <3>1, WholeDropFirst DEF s
      <3> QED
        BY <1>2, <1>17, <2>2, <3>2 DEF s, l
    <2> QED
      BY <2>1, <2>2
  <1>20. ASSUME NEW d \in Conns PROVE Waiting(d)' \subseteq Waiting(d)
    <2>1. CASE d # c \/ k # Len(g)
      BY <1>13, <2>1
    <2>2. CASE d = c /\ k = Len(g)
      <3>1. Waiting(c)' = BegunFrom(Stream(c)', 1) /\ Waiting(c) = BegunFrom(Stream(c), 2)
        BY <1>1, <1>7, <2>2 DEF Waiting
      <3>2. Len(a) \in 1 .. Len(Stream(c))
        <4>1. a # <<>>
          BY <1>0, <1>1 DEF PlaceOf
        <4> QED
          BY <1>18, <4>1, AgentWords
      <3>3. BegunFrom(Drop(Stream(c), Len(a)), 1) \subseteq BegunFrom(Stream(c), 2)
        BY <1>18, <3>2, BegunDropFirst
      <3> QED
        BY <1>17, <2>2, <3>1, <3>3
    <2> QED
      BY <2>1, <2>2
  <1>21. StreamsWhole' /\ HandledMatch' /\ Order'
    BY <1>1, <1>10, <1>19, <1>20, KeepOrder
  <1>22. InTurn'
    <2> SUFFICES ASSUME ~skewed
                 PROVE  (\A d \in Conns : TurnOf(d))' /\ ExecutedInOrder' /\ AnswersOwnRequest'
      BY <1>1 DEF InTurn
    <2>0. TurnOf(c)
      BY <1>0 DEF InTurn
    <2>1. \A d \in Conns : \A m \in Waiting(d)' : Pending(d, m)'
      BY <1>1, <1>2, <1>20, KeepPending
    \* The reply to the command the shell waits for.
    <2>2. ASSUME c = conn, cpc # "prompt"
          PROVE  cpc # "send" /\ \E i \in 1 .. Len(handled') : Answered(c, i)'
      <3>1. "client" \in alive[c]
        BY <2>2, ShellConn
      <3>4. ~Asked(c)
        BY <1>1, <1>4 DEF Asked
      <3>5. cpc # "send"
        BY <2>0, <2>2, <3>4 DEF TurnOf
      <3>6. PICK i \in 1 .. Len(handled) : Answered(c, i)
        BY <1>0, <2>0, <2>2, <3>4, <3>5 DEF TurnOf, PlaceTypes
      <3>7. Back(c)' = Back(c)
        <4> DEFINE q == Kept(c) \o down[c]
        <4>1. q \in Seq(Words)
          BY <1>6
        <4>2. Associates(Kept(c), down[c], t)
          BY <1>5, <1>6, Associative, Zenon
        <4>3. Kept(c)' = Kept(c)
          BY <1>2 DEF Kept
        <4>4. Back(c)' = (Kept(c) \o (down[c] \o t)) \o e
          BY <1>7, <3>1, <4>3 DEF Back
        <4>5. Back(c)' = (q \o t) \o e
          BY <4>2, <4>4 DEF Associates
        <4>6. Back(c) = q \o g
          BY DEF Back, g
        <4> HIDE DEF q
        <4>7. (q \o t) \o e = q \o g
          BY <1>3, <4>1, MoveWords, Zenon DEF t, e
        <4> QED
          BY <4>5, <4>6, <4>7
      <3>8. Stream(c)' = areq'[c]
        <4>0. Stream(c) = a
          BY <1>4, <3>6 DEF Answered
        <4>1. CASE k # Len(g)
          BY <1>7, <1>13, <4>0, <4>1
        <4>2. CASE k = Len(g)
          <5> HIDE DEF a, b
          <5>1. Joins(a, b, Words)
            BY <1>6, <1>14, Join, Zenon
          <5>2. Len(a) \in Nat /\ Len(b) \in Nat /\ Len(a) = Len(a) + Len(b)
            BY <1>15, <4>0, <5>1 DEF Joins
          <5>3. Len(b) = 0
            BY <5>2
          <5> QED
            BY <1>7, <1>14, <1>16, <4>2, <5>3, EmptyJoins
        <4> QED
          BY <4>1, <4>2
      <3>9. Answered(c, i)'
        <4>1. Prefix(Back(c)', ReplyOf(handled'[i])) /\ Len(Back(c)') = Len(ReplyOf(handled'[i]))
          BY <1>1, <1>4, <3>6, <3>7 DEF Answered
        <4>2. handled'[i].n = Current' /\ apc'[c] \in {"length", "send"}
          BY <1>1, <1>2, <1>7, <3>6 DEF Answered, Current
        <4> QED
          BY <3>8, <4>1, <4>2 DEF Answered
      <3> QED
        BY <1>1, <3>5, <3>6, <3>9
    <2>10. ASSUME NEW d \in Conns PROVE TurnOf(d)'
      <3>1. CASE d = c
        <4>1. ~(c = conn /\ cpc = "prompt" /\ "client" \in alive[c])
          BY <1>4, <2>0 DEF TurnOf
        <4> QED
          BY <1>1, <1>2, <2>1, <2>2, <3>1, <4>1 DEF TurnOf
      <3>2. CASE d # c
        <4>1. Back(d)' = Back(d)
          BY <1>2, <1>7, <3>2 DEF Back, Kept
        <4>2. \A i \in 1 .. Len(handled) : i \in 1 .. Len(handled') /\ handled'[i] = handled[i]
          BY <1>1
        <4> QED
          BY <1>1, <1>2, <1>7, <1>11, <1>13, <3>2, <4>1, <4>2, OtherTurn
      <3> QED
        BY <3>1, <3>2
    <2>11. ExecutedInOrder' /\ AnswersOwnRequest'
      BY <1>0, <1>1, <1>2 DEF InTurn, ExecutedInOrder, AnswersOwnRequest
    <2> QED
      BY <2>10, <2>11
  <1> QED
    BY <1>8, <1>9, <1>12, <1>21, <1>22 DEF WireInvariant

LEMMA StepAgentEnds ==
  ASSUME WireInvariant, NEW c \in Conns, AgentEnds(c) PROVE WireInvariant'
  <1>0. /\ WireTypes /\ PlaceTypes /\ BufferTypes /\ ShellPlaces /\ InTurn /\ PlaceOf(c)
    BY PlaceOfAll DEF WireInvariant, WireTypes
  <1>1. /\ apc[c] \notin {"none", "end"}
        /\ apc' = [apc EXCEPT ![c] = "end"]
        /\ alive' = [alive EXCEPT ![c] = @ \ {"agent"}]
        /\ up' = [up EXCEPT ![c] = <<>>]
        /\ areq' = [areq EXCEPT ![c] = <<>>]
        /\ asend' = [asend EXCEPT ![c] = <<>>]
        /\ recvSize' = [recvSize EXCEPT ![c] = 0]
        /\ resultSize' = [resultSize EXCEPT ![c] = 0]
        /\ UNCHANGED <<store, down, client, handled, skewed>>
    BY DEF AgentEnds
  <1>2. UNCHANGED <<conn, cpc, csend, cbuf, result, opened, issued, cut, gaveUp>>
    BY <1>1 DEF client
  <1>3. <<>> \in Seq(Words)
    OBVIOUS
  <1>4. /\ apc'[c] = "end" /\ up'[c] = <<>> /\ areq'[c] = <<>> /\ asend'[c] = <<>>
        /\ resultSize'[c] = 0 /\ "agent" \notin alive'[c]
        /\ alive' \in [Conns -> SUBSET Ends]
        /\ \A d \in Conns : "client" \in alive'[d] <=> "client" \in alive[d]
        /\ \A d \in Conns : d # c => /\ apc'[d] = apc[d] /\ up'[d] = up[d] /\ areq'[d] = areq[d]
                                     /\ asend'[d] = asend[d] /\ recvSize'[d] = recvSize[d]
                                     /\ resultSize'[d] = resultSize[d] /\ alive'[d] = alive[d]
    BY <1>0, <1>1 DEF PlaceTypes, BufferTypes
  <1>5. ~Live(c)' /\ \A d \in Conns : d # c => Live(d)' <=> Live(d)
    BY <1>4 DEF Live
  <1>6. WireTypes'
    <2>1. PlaceTypes'
      BY <1>0, <1>1, <1>2, <1>4 DEF PlaceTypes
    <2>2. BufferTypes'
      BY <1>0, <1>1, <1>2, <1>3 DEF BufferTypes
    <2>3. IssuedTypes' /\ HandledTypes'
      BY <1>0, <1>1, <1>2 DEF WireTypes, IssuedTypes, HandledTypes, Current
    <2> QED
      BY <2>1, <2>2, <2>3 DEF WireTypes
  <1>7. ShellPlaces'
    <2>1. cpc # "prompt" => Connected'
      <3>1. cpc # "prompt" => conn \in Conns
        BY ShellConn
      <3> QED
        BY <1>0, <1>2, <1>4, <3>1 DEF ShellPlaces, Connected
    <2>2. \A d \in Conns : "client" \in alive'[d] \/ d > opened' => cut'[d] = <<>>
      BY <1>2, <1>4, Uncut
    <2> QED
      BY <1>0, <1>2, <2>1, <2>2 DEF ShellPlaces, Current
  <1>8. IssuedGrows /\ opened' \in Conns /\ opened <= opened'
    BY <1>0, <1>2, GrowsSame, ConnFacts DEF PlaceTypes
  <1>9. AgentPlaces'
    <2>1. ASSUME NEW d \in Conns, d # c PROVE PlaceOf(d)'
      <3>1. AgentSame(d)
        BY <1>1, <1>4, <1>5, <2>1 DEF AgentSame
      <3> QED
        BY <1>8, <3>1, PlaceKeeps
    <2>2. PlaceOf(c)'
      <3>1. ~(c > opened')
        BY <1>0, <1>1, <1>2 DEF PlaceOf
      <3>2. Word * Len(asend'[c]) <= resultSize'[c]
        BY <1>4 DEF Word
      <3> QED
        BY <1>4, <1>5, <3>1, <3>2 DEF PlaceOf
    <2>3. \A d \in Conns : PlaceOf(d)'
      BY <2>1, <2>2
    <2> QED
      BY <2>3 DEF AgentPlaces, PlaceOf
  <1>10. ASSUME NEW d \in Conns
         PROVE  (Stream(d)' = Stream(d) /\ apc'[d] = apc[d]) \/ Stream(d)' = <<>>
    <2>1. CASE d = c
      BY <1>5, <2>1 DEF Stream
    <2>2. CASE d # c
      <3>1. Unsents(d)' = Unsents(d)
        BY <1>2, <1>4 DEF Unsents
      <3>2. Stream(d)' = Stream(d)
        BY <1>4, <1>5, <2>2, <3>1, StreamSame
      <3> QED
        BY <1>4, <2>2, <3>2
    <2> QED
      BY <2>1, <2>2
  <1>11. StreamsWhole' /\ HandledMatch' /\ Order'
    BY <1>1, <1>8, <1>10, KeepStreams
  \* What the shell can still read is a beginning of what was on its way.
  <1>12. ASSUME NEW d \in Conns
         PROVE  /\ Back(d) = <<>> => Back(d)' = <<>>
                /\ \A r : Prefix(Back(d), r) /\ Len(r) \in Nat => Prefix(Back(d)', r)
                /\ d # c => Back(d)' = Back(d)
    <2>1. Kept(d)' = Kept(d) /\ down'[d] = down[d]
      BY <1>1, <1>2 DEF Kept
    <2>2. CASE d # c
      <3>1. Back(d)' = Back(d)
        BY <1>4, <2>1, <2>2 DEF Back
      <3> QED
        BY <3>1
    <2>3. CASE d = c
      <3> DEFINE q == Kept(d) \o down[d]
                 g == asend[d]
                 b == q \o g
      <3>1. q \in Seq(Words) /\ g \in Seq(Words)
        BY <1>0, StreamType DEF BufferTypes
      <3>2. Back(d)' = q \o <<>>
        BY <1>4, <2>1, <2>3 DEF Back
      <3>3. Back(d) = b
        BY DEF Back
      <3> HIDE DEF q, g
      <3>4. Back(d)' = q
        BY <3>1, <3>2, EmptyJoins
      <3>5. Joins(q, g, Words)
        BY <3>1, Join, Zenon
      <3>6. /\ Len(q) \in Nat /\ Len(b) \in Nat /\ Len(q) <= Len(b)
            /\ \A j \in 1 .. Len(q) : b[j] = q[j]
        BY <3>5 DEF Joins
      <3> HIDE DEF b
      <3>7. b = <<>> => q = <<>>
        <4>1. b = <<>> => Len(q) = 0
          BY <3>6
        <4> QED
          BY <3>1, <4>1, EmptyJoins
      <3>8. ASSUME NEW r, Prefix(b, r), Len(r) \in Nat PROVE Prefix(q, r)
        <4>1. Len(b) <= Len(r) /\ \A j \in 1 .. Len(b) : b[j] = r[j]
          BY <3>8 DEF Prefix
        <4>2. Len(q) <= Len(r) /\ \A j \in 1 .. Len(q) : j \in 1 .. Len(b)
          BY <3>6, <3>8, <4>1
        <4>3. \A j \in 1 .. Len(q) : q[j] = r[j]
          BY <3>6, <4>1, <4>2
        <4> QED
          BY <4>2, <4>3 DEF Prefix
      <3> QED
        BY <2>3, <3>3, <3>4, <3>7, <3>8
    <2> QED
      BY <2>2, <2>3
  <1>13. InTurn'
    <2> SUFFICES ASSUME ~skewed
                 PROVE  (\A d \in Conns : TurnOf(d))' /\ ExecutedInOrder' /\ AnswersOwnRequest'
      BY <1>1 DEF InTurn
    <2>1. ASSUME NEW d \in Conns PROVE TurnOf(d)'
      <3>0. TurnOf(d)
        BY <1>0 DEF InTurn
      <3>1. Stream(d) = <<>> => Stream(d)' = <<>>
        BY <1>10
      <3>2. Asked(d) => Asked(d)'
        <4>1. Live(d)' => d # c /\ Live(d) /\ apc'[d] = apc[d] /\ Stream(d)' = Stream(d)
          <5>1. Live(d)' => d # c
            BY <1>5
          <5>2. d # c => Stream(d)' = Stream(d)
            <6>1. Unsents(d)' = Unsents(d)
              BY <1>2, <1>4 DEF Unsents
            <6> QED
              BY <1>4, <1>5, <6>1, StreamSame
          <5> QED
            BY <1>4, <1>5, <5>1, <5>2
        <4> QED
          BY <1>2, <1>12, <4>1 DEF Asked, Current
      <3>3. ASSUME NEW i \in 1 .. Len(handled), Answered(d, i) PROVE Answered(d, i)'
        <4>1. Len(ReplyOf(handled[i])) \in Nat
          BY <1>0, ReplyOfShape DEF ReplyLooks
        <4>2. Prefix(Back(d)', ReplyOf(handled'[i])) /\ handled'[i].n = Current'
          BY <1>1, <1>2, <1>12, <3>3, <4>1 DEF Answered, Current
        <4>3. ASSUME Live(d)'
              PROVE  /\ Len(Back(d)') = Len(ReplyOf(handled'[i]))
                     /\ Stream(d)' = areq'[d] /\ apc'[d] \in {"length", "send"}
          <5>1. d # c /\ Live(d)
            BY <1>5, <4>3
          <5>2. Unsents(d)' = Unsents(d)
            BY <1>2, <1>4 DEF Unsents
          <5>3. Stream(d)' = Stream(d) /\ Back(d)' = Back(d)
            BY <1>4, <1>5, <1>12, <5>1, <5>2, StreamSame
          <5> QED
            BY <1>1, <1>4, <3>3, <5>1, <5>3 DEF Answered
        <4> QED
          BY <4>2, <4>3 DEF Answered
      <3>4. \A n \in Waiting(d)' : Pending(d, n)'
        <4>1. CASE Stream(d)' = <<>>
          <5>1. Waiting(d)' = BegunFrom(<<>>, IF apc'[d] = "send" THEN 2 ELSE 1)
            BY <4>1 DEF Waiting
          <5> QED
            BY <5>1, BegunEmpty
        <4>2. CASE Stream(d)' = Stream(d) /\ apc'[d] = apc[d]
          <5>1. Waiting(d)' = Waiting(d)
            BY <4>2 DEF Waiting
          <5> QED
            BY <1>2, <5>1, KeepPending
        <4> QED
          BY <1>10, <4>1, <4>2
      <3>5. d = conn /\ cpc = "prompt" /\ "client" \in alive'[d] => Stream(d)' = <<>> /\ Back(d)' = <<>>
        BY <1>4, <1>12, <3>0, <3>1 DEF TurnOf
      <3>6. d = conn /\ cpc = "send" => Asked(d)'
        BY <3>0, <3>2 DEF TurnOf
      <3>7. d = conn /\ cpc \in {"length", "body"} =>
               Asked(d)' \/ \E i \in 1 .. Len(handled') : Answered(d, i)'
        BY <1>1, <3>0, <3>2, <3>3 DEF TurnOf
      <3> QED
        BY <1>2, <3>4, <3>5, <3>6, <3>7 DEF TurnOf
    <2>2. ExecutedInOrder' /\ AnswersOwnRequest'
      BY <1>0, <1>1, <1>2 DEF InTurn, ExecutedInOrder, AnswersOwnRequest
    <2> QED
      BY <2>1, <2>2
  <1> QED
    BY <1>6, <1>7, <1>9, <1>11, <1>13 DEF WireInvariant
-----------------------------------------------------------------------------
(* The specification.                                                      *)

LEMMA InitInvariant == Init => WireInvariant
  <1> SUFFICES ASSUME Init PROVE WireInvariant
    OBVIOUS
  <1>1. <<>> \in Seq(Words) /\ Len(<<>>) = 0 /\ (<<>> \o <<>>) \o <<>> = <<>>
    OBVIOUS
  <1>2. store \in [Ids -> Documents \cup {NoDoc}]
    <2>1. store = [i \in Ids |-> IF \E d \in Stored : d.id = i
                                 THEN CHOOSE d \in Stored : d.id = i ELSE NoDoc]
      BY DEF Init
    <2>2. ASSUME NEW i \in Ids, \E d \in Stored : d.id = i
          PROVE  (CHOOSE d \in Stored : d.id = i) \in Documents
      <3>1. (CHOOSE d \in Stored : d.id = i) \in Stored
        BY <2>2
      <3> QED
        BY <3>1, DocFacts
    <2> QED
      BY <2>1, <2>2
  <1>3. WireTypes
    <2>1. PlaceTypes
      BY ConnFacts DEF Init, PlaceTypes, Ends, Closed
    <2>2. BufferTypes
      BY <1>1, BuffersAssumption DEF Init, BufferTypes, ReplyBytes, Word
    <2>3. IssuedTypes /\ HandledTypes
      <3>1. issued = <<>> /\ handled = <<>> /\ skewed = FALSE
        BY DEF Init
      <3>2. /\ <<>> \in Seq([op : Messages \cup {OP_NONE}, doc : Documents \cup {NoDoc}])
            /\ <<>> \in Seq([n : Nat, conn : Conns, op : Messages, doc : Documents, code : Int,
                              found : Documents \cup {NoDoc}])
            /\ 1 .. Len(<<>>) = {}
        OBVIOUS
      <3> QED
        BY <1>2, <3>1, <3>2 DEF IssuedTypes, HandledTypes, Current
    <2> QED
      BY <2>1, <2>2, <2>3 DEF WireTypes
  <1>4. ShellPlaces
    BY ConnFacts DEF Init, ShellPlaces, Live, Ends
  <1>5. \A c \in Conns : Live(c) <=> c = 1
    BY DEF Init, Live, Ends, Closed
  <1>6. AgentPlaces
    <2>1. ASSUME NEW c \in Conns PROVE PlaceOf(c)
      <3>1. apc[c] = IF c = 1 THEN "length" ELSE "none"
        BY DEF Init
      <3>2. up[c] = <<>> /\ down[c] = <<>> /\ areq[c] = <<>> /\ asend[c] = <<>>
        BY DEF Init
      <3>3. c > opened => c # 1
        BY ConnFacts DEF Init
      <3>4. Word * Len(asend[c]) <= resultSize[c]
        BY <1>1, <3>2 DEF Init, Word, ReplyBytes
      <3> QED
        BY <1>5, <3>1, <3>2, <3>3, <3>4 DEF PlaceOf
    <2> QED
      BY <2>1, PlaceOfAll
  <1>7. ASSUME NEW c \in Conns
        PROVE  Stream(c) = <<>> /\ Back(c) = <<>> /\ Waiting(c) = {} /\ WholeRequests(issued, Stream(c))
    <2>1. up[c] = <<>> /\ down[c] = <<>> /\ areq[c] = <<>> /\ asend[c] = <<>> /\ apc[c] # "send"
          /\ Unsents(c) = <<>> /\ Kept(c) = <<>>
      BY DEF Init, Unsents, Kept
    <2>2. Stream(c) = <<>> /\ Back(c) = <<>>
      BY <1>1, <2>1 DEF Stream, Back
    <2>3. Waiting(c) = BegunFrom(<<>>, 1)
      BY <2>1, <2>2 DEF Waiting
    <2>4. Waiting(c) = {}
      BY <2>3, BegunEmpty
    <2> QED
      BY <2>2, <2>4, WholeEmpty
  <1>8. 1 .. Len(handled) = {} /\ handled = <<>> /\ result.server = FALSE
    BY DEF Init, NoResult
  <1>9. StreamsWhole /\ HandledMatch /\ Order
    BY <1>7, <1>8 DEF StreamsWhole, HandledMatch, Order
  <1>10. InTurn
    <2>1. ASSUME NEW c \in Conns PROVE TurnOf(c)
      BY <1>7 DEF TurnOf, Init
    <2> QED
      BY <1>8, <2>1 DEF InTurn, ExecutedInOrder, AnswersOwnRequest
  <1> QED
    BY <1>3, <1>4, <1>6, <1>9, <1>10 DEF WireInvariant

LEMMA NextInvariant == WireInvariant /\ [Next]_vars => WireInvariant'
  <1> SUFFICES ASSUME WireInvariant, [Next]_vars PROVE WireInvariant'
    OBVIOUS
  <1>1. ASSUME NEW d \in ShellDocs, Issue(OP_INSERT, d) PROVE WireInvariant'
    <2>1. d \in Documents /\ OP_INSERT \in Messages
      BY DocFacts DEF Messages
    <2> QED
      BY <1>1, <2>1, StepIssue
  <1>2. ASSUME NEW i \in Ids, NEW op \in {OP_DELETE, OP_QUERY}, Issue(op, KeyOf(i))
        PROVE  WireInvariant'
    <2>1. KeyOf(i) \in Documents /\ KeyOf(i).id \in Ids /\ op \in Messages
      BY DocFacts DEF Messages
    <2> QED
      BY <1>2, <2>1, StepIssue
  <1>3. CASE IssueFails
    BY <1>3, StepIssueFails
  <1>4. CASE ClientStep
    BY <1>4, StepSendSome, StepLost, StepReadLength, StepReadBody DEF ClientStep, ClientFails
  <1>5. CASE SendTimesOut
    BY <1>5, StepSendTimesOut
  <1>6. CASE Await
    BY <1>6, StepStutter DEF Await
  <1>7. CASE Connect
    BY <1>7, StepConnect
  <1>8. CASE ConnectFails
    BY <1>8, StepConnectFails
  <1>9. ASSUME NEW c \in Conns, AgentStep(c) \/ AgentEnds(c) PROVE WireInvariant'
    BY <1>9, StepAgentLength, StepAgentBody, StepHandle, StepAgentSend, StepAgentEnds DEF AgentStep
  <1>10. CASE UNCHANGED vars
    BY <1>10, StepStutter
  <1> QED
    BY <1>1, <1>2, <1>3, <1>4, <1>5, <1>6, <1>7, <1>8, <1>9, <1>10 DEF Next

\* The inductive invariant holds: the words on their way to a live agent, with
\* those a broken connection kept from it, are whole requests in the order of
\* issue; while no reply was left in the stream, shell and agent take turns and
\* whatever waits on another connection was given up (sendMsg, recvReply,
\* pmdAgentEntryPoint).
THEOREM StreamsAreWhole == Spec => []WireInvariant
  BY InitInvariant, NextInvariant, PTL DEF Spec

\* Every request an agent handles is one command of the user, whole, as
\* issued, at most once and in order, also after a reply was left in the stream
\* (pmdProcessAgentRequest).
THEOREM RequestsAreHandledAsIssued == Spec => []HandledAsIssued
  <1>1. WireInvariant => HandledAsIssued
    <2> SUFFICES ASSUME WireInvariant PROVE HandledAsIssued
      OBVIOUS
    <2>0. HandledMatch /\ Order /\ HandledTypes
      BY DEF WireInvariant, WireTypes
    <2>1. \A i \in 1 .. Len(handled) :
             /\ handled[i].n \in 1 .. Current
             /\ handled[i].op = issued[handled[i].n].op
             /\ handled[i].doc = issued[handled[i].n].doc
      BY <2>0 DEF HandledMatch
    <2>2. ASSUME NEW i \in 1 .. Len(handled), NEW j \in 1 .. Len(handled), i < j
          PROVE  /\ handled[i].n # handled[j].n
                 /\ handled[i].conn = handled[j].conn => handled[i].n < handled[j].n
      <3> DEFINE a == handled[i].conn
                 b == handled[j].conn
                 x == handled[i].n
                 y == handled[j].n
      <3>1. a \in Nat /\ b \in Nat /\ x \in Nat /\ y \in Nat
        BY <2>0, HandledType, ConnFacts
      <3>2. (a < b => x < y) /\ (b < a => y < x) /\ (a = b => x < y)
        BY <2>0, <2>2 DEF Order
      <3> HIDE DEF a, b, x, y
      <3>3. x # y /\ (a = b => x < y)
        BY <3>1, <3>2
      <3> QED
        BY <3>3 DEF a, b, x, y
    <2> QED
      BY <2>1, <2>2 DEF HandledAsIssued
  <1> QED
    BY <1>1, StreamsAreWhole, PTL

\* The commands take effect in the order the user gave them, over all his
\* connections, while no reply was too long for the shell, except those the
\* shell has reported as failed: the agent of a broken connection may still act
\* on such a request after later ones (sendMsg, recvReply).
THEOREM CommandsTakeEffectInOrder == Spec => []ExecutedInOrder
  <1>1. WireInvariant => ExecutedInOrder
    BY DEF WireInvariant, InTurn, ExecutedInOrder
  <1> QED
    BY <1>1, StreamsAreWhole, PTL

\* What the shell shows as the answer to a command is what the server answered
\* to that command, while no reply was too long (recvReply, handleReply).
THEOREM AnswersBelongToTheirRequests == Spec => []AnswersOwnRequest
  <1>1. WireInvariant => AnswersOwnRequest
    BY DEF WireInvariant, InTurn, AnswersOwnRequest
  <1> QED
    BY <1>1, StreamsAreWhole, PTL

\* No message exceeds the buffer it is put into: the agent's receive buffer
\* with its final '\0', its result buffer, and the shell's _recvBuf.
THEOREM BuffersAlwaysHold == Spec => []BuffersHold
  <1>1. WireInvariant => BuffersHold
    <2> SUFFICES ASSUME WireInvariant PROVE BuffersHold
      OBVIOUS
    <2>1. \A c \in Conns :
             /\ apc[c] \in {"body", "handle"} => areq[c][1].int + 1 <= recvSize[c]
             /\ Word * Len(asend[c]) <= resultSize[c]
      BY DEF WireInvariant, AgentPlaces
    <2>2. ASSUME cpc = "body" PROVE Word * (1 + BodyWords(cbuf[1].int)) <= RecvBuf
      <3>1. Len(cbuf) = 1 /\ cbuf \in Seq(Words) /\ cbuf[1].int <= RecvBuf
        BY <2>2 DEF WireInvariant, WireTypes, BufferTypes, ShellPlaces
      <3>2. cbuf[1] \in Words
        BY <3>1
      <3> DEFINE x == cbuf[1].int
      <3>3. x \in Int /\ x <= RecvBuf
        BY <3>1, <3>2 DEF Words
      <3> HIDE DEF x
      <3>4. CASE x - 4 > 0
        <4> DEFINE p == x - 4
                   q == p \div 4
        <4>1. p \in Nat
          BY <3>3, <3>4
        <4> HIDE DEF p
        <4>2. q \in Nat /\ p % 4 \in 0 .. 3 /\ p = q * 4 + (p % 4)
          BY <4>1, Division
        <4>3. BodyWords(x) = q
          BY <3>4 DEF BodyWords, BodyBytes, Word, p
        <4> HIDE DEF q
        <4>4. 4 * (1 + q) <= x
          BY <3>3, <4>2 DEF p
        <4> QED
          BY <3>3, <4>2, <4>3, <4>4, BuffersAssumption DEF Word, x
      <3>5. CASE ~(x - 4 > 0)
        <4>1. BodyWords(x) = 0
          BY <3>5 DEF BodyWords, BodyBytes, Word
        <4> QED
          BY <4>1, BuffersAssumption DEF Word, x
      <3> QED
        BY <3>4, <3>5
    <2> QED
      BY <2>1, <2>2 DEF BuffersHold
  <1> QED
    BY <1>1, StreamsAreWhole, PTL
===========================================================================
