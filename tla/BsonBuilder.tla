---------------------------- MODULE BsonBuilder ----------------------------
(***************************************************************************)
(* BSON documents are built as bytes.  BSONObjBuilder appends elements to  *)
(* a _BufBuilder that grows by reallocation up to a limit; the builders of *)
(* sub-documents write into the buffer of the outer one, and each fills in *)
(* the size it left room for when it is done.                              *)
(*                                                                         *)
(* Bytes are the signed values of char.  A double's eight bytes are those  *)
(* of the integer that stands for it.  As a BSONObj is a pointer to bytes, *)
(* the sub-document d of an element is here the bytes of it.  Offsets      *)
(* count from 0, as pointers do; sequences count from 1.                   *)
(***************************************************************************)
EXTENDS BsonTypes, SequencesExt

CONSTANTS
    InitSize,       \* the builder's initsize (512), without the reference count
    Slack,          \* what a large request adds (16 * 1024)
    BufferMaxSize,  \* where growing throws (64 MB)
    Elements,       \* the elements that may be appended
    MaxElements,    \* bound on the elements of one build
    MaxDepth,       \* bound on the open builders
    Names, Labels,  \* the names of fields and sub-documents, of labels
    Damage,         \* the values a damaged byte may take
    MaxDamaged      \* bound on the elements of a document that is damaged

Element ==
    [type : Int, name : Seq(Int), n : Int, s : Seq(Int), o : Seq(Int), d : Seq(Int)]

ASSUME BufferAssumption ==
    /\ InitSize \in Nat /\ Slack \in Nat /\ BufferMaxSize \in Nat
    /\ InitSize + 4 <= BufferMaxSize

ASSUME ElementAssumption ==
    /\ Elements \subseteq Element
    /\ Names \subseteq Seq(Int) /\ Labels \subseteq Seq(Int)

VARIABLES
    buf,      \* the _BufBuilder: data, l, size; ok is FALSE once it threw,
              \*   over is TRUE if it ever wrote outside its memory
    bs,       \* the open BSONObjBuilders, outermost first
    img,      \* the bytes of the object last handed out
    doc,      \* the document those bytes stand for
    n,        \* elements appended so far
    phase     \* "build", "built", "damaged", "failed", "terminated"

vars == <<buf, bs, img, doc, n, phase>>

Junk == 1000     \* a byte nobody wrote

-----------------------------------------------------------------------------
(***************************************************************************)
(* Numbers as bytes, little endian.                                        *)
(***************************************************************************)
Signed(x) == IF x > 127 THEN x - 256 ELSE x

Int4(v) == <<Signed(v % 256), Signed((v \div 256) % 256),
             Signed((v \div 65536) % 256), Signed((v \div 16777216) % 256)>>
High(v) == IF v < 0 THEN <<-1, -1, -1, -1>> ELSE <<0, 0, 0, 0>>
Int8(e) == Int4(e.n) \o (IF e.o = <<>> THEN High(e.n) ELSE e.o)   \* o: a high half that is not the sign
Str(s)  == s \o <<0>>

(***************************************************************************)
(* _BufBuilder.                                                            *)
(***************************************************************************)
NewBuffer(size) ==
    [data |-> [i \in 1..size |-> Junk], l |-> 0, size |-> size, ok |-> TRUE, over |-> FALSE]

\* A slip: the new block is not given the old bytes.
reallocLost(data, a) == [i \in 1..a |-> Junk]

realloc(data, a) == [i \in 1..a |-> IF i \in DOMAIN data THEN data[i] ELSE Junk]

\* A slip: the length before the append is compared with the size.
growLate(b, by) ==
    IF b.l < b.size THEN [b EXCEPT !.l = @ + by]
    ELSE [b EXCEPT !.l = @ + by, !.size = 2*@, !.data = realloc(@, 2*b.size)]

\* A slip: the length is restored when the buffer cannot grow.
growRestores(b, by) ==
    LET l == b.l + by
        c == IF l > 2 * b.size THEN l + Slack ELSE 2 * b.size
    IN  CASE l <= b.size        -> [b EXCEPT !.l = l]
          [] l > b.size /\ c <= BufferMaxSize ->
                 [b EXCEPT !.l = l, !.size = c, !.data = realloc(@, c)]
          [] OTHER              -> [b EXCEPT !.ok = FALSE]

\* grow and grow_reallocate: the length advances before the throw
grow(b, by) ==
    LET l == b.l + by
        a == IF b.size = 0 THEN InitSize ELSE 2 * b.size
        c == IF l > a THEN l + Slack ELSE a
    IN  CASE l <= b.size        -> [b EXCEPT !.l = l]
          [] l > b.size /\ c <= BufferMaxSize ->
                 [b EXCEPT !.l = l, !.size = c, !.data = realloc(@, c)]
          [] OTHER              -> [b EXCEPT !.l = l, !.ok = FALSE]

\* bytes written at an offset
Write(b, at, bytes) ==
    [b EXCEPT !.data = [i \in DOMAIN @ |-> IF i - at \in DOMAIN bytes THEN bytes[i - at] ELSE @[i]],
              !.over = @ \/ at + Len(bytes) > b.size]

\* appendNum, appendStr, appendBuf: nothing follows an exception
append(b, bytes) ==
    LET g == grow(b, Len(bytes))
    IN  IF ~b.ok THEN b ELSE IF ~g.ok THEN g ELSE Write(g, b.l, bytes)

skip(b, by) == IF b.ok THEN grow(b, by) ELSE b

(***************************************************************************)
(* The appends an element consists of: type, name, then its value.         *)
(***************************************************************************)
NumberPieces(e) ==
    CASE e.type = Bool        -> <<<<e.n>>>>
      [] e.type = NumberInt   -> <<Int4(e.n)>>
      [] OTHER                -> <<Int8(e)>>         \* NumberLong, NumberDouble

DatePieces(e) == IF e.type = jstOID THEN <<e.s>> ELSE <<Int8(e)>>   \* Date, jstOID

TextPieces(e) ==
    IF e.type = RegEx THEN <<Str(e.s), Str(e.o)>>
    ELSE <<Int4(Len(e.s) + 1), Str(e.s)>>              \* Code, String, Symbol

KeyPieces(e) == IF e.type = Timestamp THEN <<Int8(e)>> ELSE <<>>    \* jstNULL, MinKey, MaxKey

BinaryPieces(e) ==
    CASE e.type = DBRef      -> <<Int4(Len(e.s) + 1), Str(e.s), e.o>>
      [] e.type = BinData    -> <<Int4(Len(e.s)), <<e.n>>, e.s>>
      [] e.type = CodeWScope -> <<Int4(4 + 4 + Len(e.s) + 1 + Len(e.d)), Int4(Len(e.s) + 1),
                                  Str(e.s), e.d>>
      [] OTHER               -> <<>>                   \* Undefined

ObjectPieces(e) == <<e.d>>                             \* Object, Array

ValuePieces(e) ==
    CASE e.type \in {Bool} \cup Numeric             -> NumberPieces(e)
      [] e.type \in {Date, jstOID}                  -> DatePieces(e)
      [] e.type \in Textual \cup {RegEx}            -> TextPieces(e)
      [] e.type \in {jstNULL, MinKey, MaxKey, Timestamp} -> KeyPieces(e)
      [] e.type \in {Object, Array}                 -> ObjectPieces(e)
      [] OTHER                                      -> BinaryPieces(e)

Pieces(e) == <<<<e.type>>, Str(e.name)>> \o ValuePieces(e)

\* The bytes of a whole document: its size, its elements, EOO
Bytes(d)  == FlattenSeq([i \in DOMAIN d |-> FlattenSeq(Pieces(d[i]))])
Encode(d) == Int4(Len(Bytes(d)) + 5) \o Bytes(d) \o <<EOO>>

appendPieces(b, p) ==
    LET after[i \in 0..Len(p)] == IF i = 0 THEN b ELSE append(after[i-1], p[i])
    IN  after[Len(p)]

appendElement(b, e) == appendPieces(b, Pieces(e))

-----------------------------------------------------------------------------
(***************************************************************************)
(* Builders.  field and sub are the value stream's _fieldName and _subobj, *)
(* sets of at most one member; i is the next index of a BSONArrayBuilder.  *)
(***************************************************************************)
Builder(off, t, nm) ==
    [off |-> off, type |-> t, name |-> nm, doc |-> <<>>, i |-> 0, field |-> {}, sub |-> {}]

\* The decimal digits of an index, from the last one on
numStr(i) ==
    LET first == [rest |-> i \div 10, text |-> <<48 + (i % 10)>>]
        next(x) == [rest |-> x.rest \div 10, text |-> <<48 + (x.rest % 10)>> \o x.text]
        step[k \in 0..i] ==
            IF k = 0 THEN first
            ELSE IF step[k-1].rest = 0 THEN step[k-1] ELSE next(step[k-1])
    IN  step[i].text

Top       == Last(bs)
SetTop(x) == [bs EXCEPT ![Len(bs)] = x]

\* A builder and its buffer after one more element
Put(st, e) == [b |-> appendElement(st.b, e), top |-> [st.top EXCEPT !.doc = Append(@, e)]]

\* BSONObjBuilderValueStream::endField: a sub-document started by a label is
\* appended when the next field, or the end, comes
endField(st, next) ==
    LET has == st.top.field # {} /\ st.top.sub # {}
        e   == SubElt(Object, CHOOSE f \in st.top.field : TRUE, Encode(CHOOSE d \in st.top.sub : TRUE))
        st2 == IF has THEN Put(st, e) ELSE st
    IN  [st2 EXCEPT !.top = [@ EXCEPT !.field = next, !.sub = {}]]

\* A slip: the EOO byte is not counted in the size.
_doneShort(st) ==
    LET e == endField(st, {})
        b == append(e.b, <<EOO>>)
    IN  [e EXCEPT !.b = IF b.ok THEN Write(b, e.top.off, Int4(b.l - 1 - e.top.off)) ELSE b]

_done(st) ==
    LET e == endField(st, {})
        b == append(e.b, <<EOO>>)
    IN  [e EXCEPT !.b = IF b.ok THEN Write(b, e.top.off, Int4(b.l - e.top.off)) ELSE b]

\* BSONArrayBuilder::fill: nulls up to the wanted position
fill(st, upTo) ==
    LET gap == IF upTo > st.top.i THEN upTo - st.top.i ELSE 0
        Null(x) == [Put(x, Elt(jstNULL, numStr(x.top.i))) EXCEPT !.top.i = @ + 1]
        after[k \in 0..gap] == IF k = 0 THEN st ELSE Null(after[k-1])
    IN  after[gap]

Now == [b |-> buf, top |-> Top]
Object_(b, off) == SubSeq(b.data, off + 1, b.l)     \* the bytes from a builder's start

-----------------------------------------------------------------------------
Init ==
    /\ buf = skip(append(NewBuffer(InitSize + 4), Int4(0)), 4)   \* reference count, room for the size
    /\ bs = <<Builder(4, Object, <<>>)>>
    /\ img = <<>> /\ doc = <<>> /\ n = 0 /\ phase = "build"

Building == phase = "build" /\ buf.ok
Room(k)  == n + k <= MaxElements

Become(st, k) ==
    /\ buf' = st.b /\ bs' = SetTop(st.top) /\ n' = n + k
    /\ UNCHANGED <<img, doc, phase>>

\* append of every type, and appendElements, appendAs, appendObject
AppendElement(e) ==
    /\ Building /\ Room(1) /\ Top.type = Object
    /\ Become(Put(Now, e), 1)

\* BSONArrayBuilder::append, appendAs with a position, appendNull
ArrayAppend(e, pos) ==
    /\ Building /\ Top.type = Array
    /\ Room(1 + IF pos > Top.i THEN pos - Top.i ELSE 0)
    /\ LET st == fill(Now, pos)
       IN  Become([Put(st, appendAs(e, numStr(st.top.i))) EXCEPT !.top.i = @ + 1],
                  1 + st.top.i - Top.i)

\* subobjStart or subarrayStart, and the builder on the same buffer: there is
\* none when its constructor throws
SubStart(t, nm) ==
    /\ Building /\ Room(1) /\ Len(bs) < MaxDepth
    /\ LET name == IF Top.type = Array THEN numStr(Top.i) ELSE nm
           b    == append(append(buf, <<t>>), Str(name))
       IN  /\ buf' = skip(b, 4)
           /\ bs' = IF ~skip(b, 4).ok THEN bs
                    ELSE Append(SetTop([Top EXCEPT !.i = @ + 1]), Builder(b.l, t, name))
    /\ n' = n + 1
    /\ UNCHANGED <<img, doc, phase>>

\* done, or the destructor of a builder that was not done
SubDone ==
    /\ Building /\ Len(bs) > 1
    /\ LET st == _done(Now)  m == Len(bs) - 1
       IN  /\ buf' = st.b
           /\ bs' = [SubSeq(bs, 1, m) EXCEPT ![m].doc = Append(@, SubElt(Top.type, Top.name, Encode(st.top.doc)))]
    /\ UNCHANGED <<img, doc, n, phase>>

\* asTempObj: done, then the next append overwrites the EOO; if done throws
\* the builder counts as done
AsTempObj ==
    /\ Building
    /\ LET st == _done(Now)
       IN  /\ buf' = IF st.b.ok THEN [st.b EXCEPT !.l = @ - 1] ELSE st.b
           /\ bs' = IF st.b.ok THEN SetTop(st.top) ELSE Front(bs)
           /\ img' = IF st.b.ok THEN Object_(st.b, Top.off) ELSE img
           /\ doc' = IF st.b.ok THEN st.top.doc ELSE doc
    /\ UNCHANGED <<n, phase>>

\* obj: done, and the buffer becomes the object's
Obj ==
    /\ Building /\ Len(bs) = 1
    /\ LET st == _done(Now)
       IN  /\ buf' = st.b
           /\ bs' = SetTop(st.top)
           /\ img' = IF st.b.ok THEN Object_(st.b, Top.off) ELSE img
           /\ doc' = IF st.b.ok THEN st.top.doc ELSE doc
           /\ phase' = IF st.b.ok THEN "built" ELSE phase
    /\ UNCHANGED n

\* builder << "name"
StreamName(nm) ==
    /\ Building /\ Room(1) /\ Top.type = Object
    /\ Become(endField(Now, {nm}), 0)

\* << value, after a name: _subobj is left alone
StreamValue(e) ==
    /\ Building /\ Room(1) /\ Top.field # {} /\ Top.sub = {}
    /\ Become([Put(Now, appendAs(e, CHOOSE f \in Top.field : TRUE)) EXCEPT !.top.field = {}], 1)

\* << GT << value, after a name: into the sub-document's own buffer
StreamLabel(e, label) ==
    /\ Building /\ Room(1) /\ Top.field # {}
    /\ LET d == IF Top.sub = {} THEN <<>> ELSE CHOOSE d \in Top.sub : TRUE
       IN  Become([Now EXCEPT !.top.sub = {Append(d, appendAs(e, label))}], 1)

\* An append threw: the destructor of an open sub-document's builder calls
\* _done, which throws again while the stack unwinds
Unwind ==
    /\ phase = "build" /\ ~buf.ok
    /\ phase' = IF Len(bs) > 1 /\ ~grow(buf, 1).ok THEN "terminated" ELSE "failed"
    /\ bs' = <<>> /\ img' = <<>> /\ doc' = <<>>
    /\ UNCHANGED <<buf, n>>

\* One byte of the finished object is changed on its way.
DamageByte(k, v) ==
    /\ phase = "built" /\ n <= MaxDamaged
    /\ img[k] # v
    /\ img' = [img EXCEPT ![k] = v] /\ phase' = "damaged"
    /\ UNCHANGED <<buf, bs, doc, n>>

Next ==
    \/ \E e \in Elements : \/ AppendElement(e)
                           \/ \E pos \in 0..MaxElements : ArrayAppend(e, pos)
                           \/ StreamValue(e)
                           \/ \E label \in Labels : StreamLabel(e, label)
    \/ \E nm \in Names : \/ \E t \in {Object, Array} : SubStart(t, nm)
                         \/ StreamName(nm)
    \/ SubDone \/ AsTempObj \/ Obj \/ Unwind
    \/ \E v \in Damage, k \in DOMAIN img : DamageByte(k, v)

Spec == Init /\ [][Next]_vars

-----------------------------------------------------------------------------
(***************************************************************************)
(* No append writes outside the memory of the buffer, whatever was         *)
(* reallocated, filled in or taken back before.                            *)
(***************************************************************************)
WritesInside == ~buf.over

(***************************************************************************)
(* At every moment of a build the buffer holds exactly the elements        *)
(* appended so far, level by level: growing moves nothing, a nested        *)
(* builder leaves the outer ones' bytes alone, and a temporary object      *)
(* leaves no trace.                                                        *)
(***************************************************************************)
BytesFollowBuilders ==
    phase = "build" /\ buf.ok =>
        \A k \in DOMAIN bs :
            LET inner == IF k = Len(bs) THEN <<>> ELSE <<bs[k + 1].type>> \o Str(bs[k + 1].name)
                upto  == IF k = Len(bs) THEN buf.l ELSE bs[k + 1].off
            IN  SubSeq(buf.data, bs[k].off + 5, upto) = Bytes(bs[k].doc) \o inner

(***************************************************************************)
(* An object handed out by obj or asTempObj is complete: its bytes are the *)
(* encoding of the document that was built, size and end included.         *)
(***************************************************************************)
ObjectIsExact == img # <<>> /\ phase # "damaged" => img = Encode(doc)

(***************************************************************************)
(* Once an append has thrown because the buffer is at its limit, every     *)
(* later one throws as well: the length stays beyond the size, so nothing  *)
(* is written behind the hole and no torn object can be finished.          *)
(***************************************************************************)
FailedStaysFailed ==
    ~buf.ok => buf.l > buf.size /\ \A by \in 1..BufferMaxSize : ~grow(buf, by).ok

(***************************************************************************)
(* BufBuilder at its limits: nothing is written outside its memory, and    *)
(* once it has thrown it is never written to again.                        *)
(***************************************************************************)
BufferIsSafe == WritesInside /\ FailedStaysFailed

(***************************************************************************)
(* Builders that share a buffer: their bytes are those of what was         *)
(* appended, during the build and in the finished object.                  *)
(***************************************************************************)
BuiltBytesAreExact == BytesFollowBuilders /\ ObjectIsExact
=============================================================================
