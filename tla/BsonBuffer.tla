----------------------------- MODULE BsonBuffer -----------------------------
(***************************************************************************)
(* BSON documents are read as bytes: the finished bytes of BsonBuilder by  *)
(* BSONObjIterator and the accessors of BSONElement, and BSONObj::valid    *)
(* checks bytes that may be damaged.                                       *)
(***************************************************************************)
EXTENDS BsonBuilder

CONSTANT MaxInternal    \* BSONObjMaxInternalSize

ASSUME ReadingAssumption == MaxInternal \in Nat /\ Damage \subseteq -128..127

(***************************************************************************)
(* Reading.  m is the memory: the object's bytes, and before and behind    *)
(* them the one byte m.beyond everywhere, whatever happens to be there.  A *)
(* read that throws gives Thrown, which is no size.                        *)
(***************************************************************************)
Memory(b, beyond) == [bytes |-> b, beyond |-> beyond]
Thrown == -2147483647

Unsigned(x) == IF x < 0 THEN x + 256 ELSE x

At(m, p)    == IF p + 1 \in DOMAIN m.bytes THEN m.bytes[p + 1] ELSE m.beyond
IntAt(m, p) == Unsigned(At(m, p)) + 256 * Unsigned(At(m, p + 1))
               + 65536 * Unsigned(At(m, p + 2)) + 16777216 * At(m, p + 3)

\* bson::strnlen; outside the object all bytes are alike
strnlen(m, p, max) ==
    LET zeros == {q \in 0..Len(m.bytes) \cup {p} : q >= p /\ q - p < max /\ At(m, q) = 0}
    IN  IF zeros = {} THEN -1 ELSE (CHOOSE q \in zeros : \A r \in zeros : q <= r) - p

\* BSONElement(d, maxLen): the size of the name with its zero, 0 for EOO
fieldNameSize(m, p, maxLen) ==
    LET k == strnlen(m, p + 1, maxLen - 1)
    IN  IF At(m, p) = EOO THEN 0 ELSE IF k = -1 THEN Thrown ELSE k + 1

\* BSONElement::size(maxLen), without type and name.  A regular expression
\* without its zeros counts as -1 + 1 bytes.  A negative length is refused
\* right after, by validate or by the constructor of the sub-document, except
\* that of BinData.
sizeOfValue(m, t, v, remain) ==
    LET len1 == strnlen(m, v, remain)
        len2 == strnlen(m, v + len1 + 1, remain - len1 - 1)
        plus(k) == IF remain > 3 THEN IntAt(m, v) + k ELSE Thrown
    IN  CASE t \in Keys                                      -> 0
          [] t = Bool                                        -> 1
          [] t = NumberInt                                   -> 4
          [] t \in {Timestamp, Date, NumberDouble, NumberLong} -> 8
          [] t = jstOID                                      -> 12
          [] t \in Textual                                   -> plus(4)
          [] t = DBRef                                       -> plus(4 + 12)
          [] t \in {CodeWScope, Object, Array}               -> plus(0)
          [] t = BinData                                     -> plus(4 + 1)
          [] t = RegEx                                       -> len1 + 1 + len2 + 1
          [] OTHER                                           -> Thrown

\* A slip: the terminating zero of a string is not looked for.
validateLength(m, t, v) ==
    t \in Textual \cup {DBRef} => IntAt(m, v) > 0 /\ IntAt(m, v) < MaxInternal

\* BSONElement::validate does not throw
validate(m, t, v) ==
    LET x    == IntAt(m, v)
        strn == IntAt(m, v + 4)
    IN  CASE t \in Textual \cup {DBRef} -> x > 0 /\ x < MaxInternal /\ At(m, v + 4 + x - 1) = 0
          [] t = CodeWScope ->
                /\ x >= 8 /\ x >= strn + 4 + 4
                /\ strn > 0 /\ strn - 1 = strnlen(m, v + 8, strn)
                /\ x >= strn + 4 + 4 + 4
                /\ x = 4 + 4 + strn + IntAt(m, v + 8 + strn)
          [] OTHER -> TRUE

\* The BSONObj constructor: _assertInvalid throws
isValid(m, p) == IntAt(m, p) > 0 /\ IntAt(m, p) <= MaxInternal

RECURSIVE Walk(_, _), WalkFrom(_, _, _, _)

\* where the sub-document of an element starts; -1 if it has none
SubAt(m, t, v) ==
    CASE t \in {Object, Array} -> v
      [] t = CodeWScope        -> v + 4 + 4 + IntAt(m, v + 4)
      [] OTHER                 -> -1

\* A slip: an EOO before the end is taken for the end.
endsHereAny(p, theend) == TRUE

\* after EOO, moreWithEOO must be false
endsHere(p, theend) == p + 1 > theend

\* How a walk ends ("true", "false", "never") and whether it met a BinData of
\* negative length
Verdict(end, neg) == [end |-> end, neg |-> neg]

\* BSONObj::valid: the loop from position p, _theend being the last byte.  It
\* never ends when it comes to where it was before, one of seen.
WalkFrom(m, p, theend, seen) ==
    LET maxLen == theend + 1 - p
        t      == At(m, p)
        name   == fieldNameSize(m, p, maxLen)
        v      == p + 1 + name
        size   == sizeOfValue(m, t, v, maxLen - name - 1)
        reads  == /\ p <= theend /\ name # Thrown /\ size # Thrown
                  /\ validate(m, t, v)
        neg    == t = BinData /\ IntAt(m, v) < 0
        inner  == IF SubAt(m, t, v) = -1 THEN Verdict("true", neg) ELSE Walk(m, SubAt(m, t, v))
        rest   == WalkFrom(m, v + size, theend, seen \cup {p})
    IN  CASE p \in seen                          -> Verdict("never", FALSE)
          [] p \notin seen /\ ~reads             -> Verdict("false", FALSE)
          [] p \notin seen /\ reads /\ t = EOO   -> Verdict(IF endsHere(p, theend) THEN "true" ELSE "false", FALSE)
          [] OTHER -> IF inner.end # "true" THEN inner ELSE Verdict(rest.end, inner.neg \/ rest.neg)

Walk(m, p) ==
    IF isValid(m, p) THEN WalkFrom(m, p + 4, p + IntAt(m, p) - 1, {}) ELSE Verdict("false", FALSE)

valid(m, p) == Walk(m, p).end = "true"

\* BSONObj::toString: none of its assertions about the structure fails
RECURSIVE toStringFrom(_, _, _)
toStringFrom(m, p, start) ==
    LET end  == start + IntAt(m, start)
        t    == At(m, p)
        name == fieldNameSize(m, p, end - p)
        v    == p + 1 + name
        size == 1 + name + sizeOfValue(m, t, v, end - v)
        sub  == SubAt(m, t, v)
    IN  /\ p < end /\ name # Thrown /\ sizeOfValue(m, t, v, end - v) # Thrown
        /\ size > 0 /\ p + size <= end
        /\ validate(m, t, v)
        /\ IF t = EOO THEN p + size = end
           ELSE /\ sub # -1 => isValid(m, sub) /\ (IntAt(m, sub) > 5 => toStringFrom(m, sub + 4, sub))
                /\ toStringFrom(m, p + size, start)

toString(m) == IntAt(m, 0) > 5 => toStringFrom(m, 4, 0)

\* The values of an element, from the accessors of BSONElement
RECURSIVE DecodeFrom(_, _, _)

Text(m, p, k) == [i \in 1..k |-> At(m, p + i - 1)]
CText(m, p)   == Text(m, p, strnlen(m, p, Len(m.bytes)))
Sub(m, p)     == Text(m, p, IntAt(m, p))          \* the BSONObj at p

DecodeElement(m, t, nm, v) ==
    CASE t \in Keys                -> Elt(t, nm)
      [] t = Bool                  -> NumElt(t, nm, At(m, v))
      [] t = NumberInt             -> NumElt(t, nm, IntAt(m, v))
      [] t \in Numeric \cup {Date, Timestamp} ->
            LET x == IntAt(m, v)  high == Text(m, v + 4, 4)
            IN  [NumElt(t, nm, x) EXCEPT !.o = IF high = High(x) THEN <<>> ELSE high]
      [] t = jstOID                -> StrElt(t, nm, Text(m, v, 12))
      [] t \in Textual             -> StrElt(t, nm, Text(m, v + 4, IntAt(m, v) - 1))
      [] t = RegEx                 -> [StrElt(t, nm, CText(m, v)) EXCEPT !.o = CText(m, v + Len(CText(m, v)) + 1)]
      [] t = DBRef                 -> [StrElt(t, nm, Text(m, v + 4, IntAt(m, v) - 1))
                                          EXCEPT !.o = Text(m, v + 4 + IntAt(m, v), 12)]
      [] t = BinData               -> [StrElt(t, nm, Text(m, v + 5, IntAt(m, v))) EXCEPT !.n = At(m, v + 4)]
      [] t = CodeWScope            -> [SubElt(t, nm, Sub(m, SubAt(m, t, v))) EXCEPT !.s = CText(m, v + 8)]
      [] OTHER                     -> SubElt(t, nm, Sub(m, v))

\* BSONObjIterator: next() until EOO
DecodeFrom(m, p, end) ==
    LET t    == At(m, p)
        name == fieldNameSize(m, p, end - p)
        v    == p + 1 + name
    IN  IF t = EOO THEN <<>>
        ELSE <<DecodeElement(m, t, Text(m, p + 1, name - 1), v)>>
             \o DecodeFrom(m, v + sizeOfValue(m, t, v, end - v), end)

Decode(m, p) == DecodeFrom(m, p + 4, p + IntAt(m, p))

\* The bytes are the encoding of a document, and so are those of every
\* sub-document in it
RECURSIVE IsEncoding(_)
IsEncoding(m) ==
    LET d == Decode(m, 0)
    IN  /\ Encode(d) = m.bytes
        /\ \A i \in DOMAIN d : d[i].d # <<>> => IsEncoding([m EXCEPT !.bytes = d[i].d])

-----------------------------------------------------------------------------
(***************************************************************************)
(* An object that was built is read again as the document it was built     *)
(* from, and valid accepts it whatever lies beyond it in memory.           *)
(***************************************************************************)
BuiltIsValid ==
    img # <<>> /\ phase # "damaged" => \A beyond \in {0, 1} :
        LET m == Memory(img, beyond)
        IN  Decode(m, 0) = doc /\ IsEncoding(m) /\ valid(m, 0)

\* The lengths that valid looks at are all there is to its walk
Straight(m) == ~Walk(m, 0).neg

(***************************************************************************)
(* Unless it meets a BinData of negative length, which it does not look    *)
(* at, valid comes to an end and accepts damaged bytes only if they are    *)
(* the encoding of a document all the same, and those of every             *)
(* sub-document in it, whatever lies beyond them in memory.                *)
(***************************************************************************)
ValidIsExact ==
    phase = "damaged" => \A beyond \in {0, 1} :
        LET m == Memory(img, beyond)
        IN  Straight(m) => Walk(m, 0).end # "never" /\ (valid(m, 0) => IsEncoding(m))

(***************************************************************************)
(* toString, which the server calls on what clients send, meets none of    *)
(* its assertions on an object that valid accepts without such a BinData.  *)
(***************************************************************************)
ValidPrints ==
    img # <<>> => \A beyond \in {0, 1} :
        LET m == Memory(img, beyond)
        IN  Straight(m) /\ valid(m, 0) => toString(m)

(***************************************************************************)
(* How far valid can be relied on: it accepts what was built; and of bytes *)
(* in which no BinData has a negative length, what it accepts is the       *)
(* encoding of a document, and reading that meets no assertion.            *)
(***************************************************************************)
ValidCanBeTrusted == BuiltIsValid /\ ValidIsExact /\ ValidPrints
=============================================================================
