----------------------------- MODULE BsonOrder -----------------------------
(***************************************************************************)
(* The order the BSON library puts on elements and documents ("wo" = well  *)
(* ordered): canonical types, element values, whole documents with and     *)
(* without a key pattern, sort keys, field names with numbers and dots,    *)
(* and the elements appended as the bounds of a type.  The state machine   *)
(* is a BSONElementSet, the std::set ordered by it that getFieldsDotted    *)
(* fills: a set keeps its promises only if its comparison is a strict weak *)
(* order.                                                                  *)
(***************************************************************************)
EXTENDS BsonNested, SequencesExt

CONSTANTS
    Mantissa,     \* bits of a double's significand (53)
    MaxDouble,    \* numeric_limits<double>::max(), an integer here
    MaxInt,       \* numeric_limits<int>::max()
    MinLong,      \* the least long long
    IntLimit,     \* 2^30, where appendNumber(long long) leaves int
    DoubleLimit,  \* 2^40, where it leaves double
    MaxULong,     \* the greatest unsigned long long, a Date or Timestamp
    Elements,     \* the elements that are compared and inserted
    Names,        \* the field names that are sorted and compared
    MaxSet        \* bound on the size of the set and of the field list

ASSUME OrderAssumption ==
    /\ Mantissa \in Nat /\ MaxSet \in Nat /\ IntLimit \in Nat
    /\ DoubleLimit <= 2^Mantissa /\ IntLimit - 1 <= MaxInt
    /\ MinLong % (2 * (MaxInt + 1)) = 0 /\ MinLong < -DoubleLimit

\* the doubles that are no finite numbers: the codes above MaxDouble
PlusInfinity  == MaxDouble + 1
MinusInfinity == -MaxDouble - 1
NaN           == MaxDouble + 2

VARIABLES
    set,      \* the elements of the BSONElementSet, in its order
    fields    \* the names a BSONObjIteratorSorted walks, in its order

vars == <<set, fields>>

-----------------------------------------------------------------------------
(***************************************************************************)
(* Elements.                                                               *)
(***************************************************************************)
canonicalType(t) ==
    CASE t \in {MinKey, MaxKey}    -> t
      [] t \in {EOO, Undefined}    -> 0
      [] t = jstNULL               -> 5
      [] t \in Numeric             -> 10
      [] t \in {String, Symbol}    -> 15
      [] t = Object                -> 20
      [] t = Array                 -> 25
      [] t = BinData               -> 30
      [] t = jstOID                -> 35
      [] t = Bool                  -> 40
      [] t \in {Date, Timestamp}   -> 45
      [] t = RegEx                 -> 50
      [] t = DBRef                 -> 55
      [] t = Code                  -> 60
      [] t = CodeWScope            -> 65

\* (double) of an integer: Mantissa significant bits, ties to even
ToDouble(v) ==
    LET a    == IF v < 0 THEN -v ELSE v
        unit == CHOOSE u \in {2^k : k \in 0..20} :
                    /\ a < u * 2^Mantissa
                    /\ u = 1 \/ a >= (u \div 2) * 2^Mantissa
        down == a \div unit
        rem  == a % unit
        near == IF 2*rem > unit \/ (2*rem = unit /\ down % 2 = 1) THEN down + 1 ELSE down
    IN  Sign(v) * near * unit

number(e) ==
    CASE e.type = NumberDouble            -> e.n
      [] e.type \in {NumberInt, NumberLong} -> ToDouble(e.n)
      [] OTHER                            -> 0

\* Infinities fail the code's test for a finite number too
lNan(x) == ~(x <= MaxDouble /\ x >= -MaxDouble)

\* A slip: two numbers that are not finite are not told to be equal.
compareNumbersNoNan(l, r) ==
    IF l.type = NumberLong /\ r.type = NumberLong THEN Sign(l.n - r.n)
    ELSE LET left == number(l)  right == number(r) IN
         CASE lNan(left)                -> -1
           [] lNan(right)               -> 1
           [] OTHER                     -> Sign(left - right)

compareNumbers(l, r) ==
    IF l.type = NumberLong /\ r.type = NumberLong THEN Sign(l.n - r.n)
    ELSE LET left == number(l)  right == number(r) IN
         CASE lNan(left) /\ lNan(right) -> 0
           [] lNan(left)                -> -1
           [] lNan(right)               -> 1
           [] OTHER                     -> Sign(left - right)


\* memcmp of two values whose sizes are compared first
SizeThenBytes(a, b) == IF Len(a) # Len(b) THEN Sign(Len(a) - Len(b)) ELSE memcmp(a, b)

RECURSIVE woCompareFrom(_, _, _, _, _), compareElementValues(_, _)

\* strcmp of the scopes' bytes sees the low byte of their sizes only: the
\* bytes after it are zero for documents below 256 bytes
compareElementValues(l, r) ==
    CASE l.type \in Keys               -> Sign(canonicalType(l.type) - canonicalType(r.type))
      [] l.type \in {Bool, Timestamp, Date} -> Sign(l.n - r.n)
      [] l.type \in Numeric            -> compareNumbers(l, r)
      [] l.type = jstOID               -> memcmp(l.s, r.s)
      [] l.type \in Textual            -> strcmp(l.s, r.s)
      [] l.type \in {Object, Array}    -> woCompareFrom(l.d, r.d, FALSE, <<>>, TRUE)
      [] l.type = DBRef                -> SizeThenBytes(l.s \o <<0>> \o l.o, r.s \o <<0>> \o r.o)
      [] l.type = BinData              -> SizeThenBytes(<<l.n>> \o l.s, <<r.n>> \o r.s)
      [] l.type = RegEx                ->
            LET c == strcmp(l.s, r.s) IN IF c # 0 THEN c ELSE strcmp(l.o, r.o)
      [] l.type = CodeWScope           ->
            LET f == strcmp(l.s, r.s)
            IN  IF f # 0 THEN f ELSE Sign((objsize(l.d) % 256) - (objsize(r.d) % 256))

\* BSONElement::woCompare
woCompareElt(l, r, considerFieldName) ==
    LET x == canonicalType(l.type) - canonicalType(r.type)
        c == IF considerFieldName THEN strcmp(l.name, r.name) ELSE 0
    IN  CASE x # 0 /\ ~(isNumber(l) /\ isNumber(r)) -> Sign(x)
          [] c # 0                                  -> c
          [] OTHER                                  -> compareElementValues(l, r)

(***************************************************************************)
(* Documents.  idxKey is the sequence of the key pattern's directions, TRUE*)
(* where descending.  Its iterator k gives the EOO behind them as well,    *)
(* which ascends, and asserts when it is called again.                     *)
(***************************************************************************)
Asserted == 9       \* no comparison: an assertion of the library threw

\* A slip: a prefix is not told from the longer document.
woCompareFromNoEnd(a, b, ordered, k, considerFieldName) ==
    IF ordered /\ k = <<>> THEN Asserted
    ELSE IF a = <<>> THEN -1
    ELSE IF b = <<>> THEN 1
    ELSE LET x == woCompareElt(Head(a), Head(b), considerFieldName)
         IN  IF x # 0 THEN (IF ordered /\ Head(k) THEN -x ELSE x)
             ELSE woCompareFrom(Tail(a), Tail(b), ordered, IF ordered THEN Tail(k) ELSE k, considerFieldName)

\* The loop: k is asked for its next element before the ends are looked at
woCompareFrom(a, b, ordered, k, considerFieldName) ==
    IF ordered /\ k = <<>> THEN Asserted
    ELSE IF a = <<>> \/ b = <<>> THEN Sign(Len(a) - Len(b))
    ELSE LET x == woCompareElt(Head(a), Head(b), considerFieldName)
         IN  IF x # 0 THEN (IF ordered /\ Head(k) THEN -x ELSE x)
             ELSE woCompareFrom(Tail(a), Tail(b), ordered, IF ordered THEN Tail(k) ELSE k, considerFieldName)

woCompareKey(a, b, idxKey, considerFieldName) ==
    IF a = <<>> \/ b = <<>> THEN Sign(Len(a) - Len(b))
    ELSE woCompareFrom(a, b, idxKey # <<>>, Append(idxKey, FALSE), considerFieldName)

\* Ordering::make and descending: one bit per key; "too many compound keys"
\* above 32 of them
Make(keyPattern) == [i \in DOMAIN keyPattern |-> number(keyPattern[i]) < 0]

\* BSONObj::woCompare with an Ordering: masks instead of a key iterator
woCompareOrdering(a, b, bits, considerFieldName) ==
    LET both == {i \in DOMAIN a : i \in DOMAIN b}
        diff == {i \in both : woCompareElt(a[i], b[i], considerFieldName) # 0}
        k    == CHOOSE i \in diff : \A j \in diff : i <= j
        x    == woCompareElt(a[k], b[k], considerFieldName)
    IN  IF diff = {} THEN Sign(Len(a) - Len(b))
        ELSE IF k \in DOMAIN bits /\ bits[k] THEN -x ELSE x

\* BSONObj::woSortOrder: the sort key's fields in turn, null where missing
staticNull == Elt(jstNULL, <<>>)

RECURSIVE sortFields(_, _, _, _)

\* A slip: a missing field is not read as null.
sortFieldsNoNull(a, b, sortKey, useDotted) ==
    LET f        == Head(sortKey)
        find(d)  == IF useDotted THEN getFieldDotted(d, f.name) ELSE getField(d, f.name)
        x        == woCompareElt(find(a), find(b), FALSE)
    IN  IF sortKey = <<>> THEN 0
        ELSE IF x # 0 THEN (IF number(f) < 0 THEN -x ELSE x)
        ELSE sortFields(a, b, Tail(sortKey), useDotted)

sortFields(a, b, sortKey, useDotted) ==
    LET f        == Head(sortKey)
        find(d)  == IF useDotted THEN getFieldDotted(d, f.name) ELSE getField(d, f.name)
        value(d) == IF eoo(find(d)) THEN staticNull ELSE find(d)
        x        == woCompareElt(value(a), value(b), FALSE)
    IN  CASE sortKey = <<>> -> 0
          [] sortKey # <<>> /\ x # 0 -> IF number(f) < 0 THEN -x ELSE x
          [] OTHER -> sortFields(a, b, Tail(sortKey), useDotted)

woSortOrder(a, b, sortKey, useDotted) ==
    IF a = <<>> \/ b = <<>> THEN Sign(Len(a) - Len(b))
    ELSE IF sortKey = <<>> THEN Asserted
    ELSE sortFields(a, b, sortKey, useDotted)

-----------------------------------------------------------------------------
(***************************************************************************)
(* Field names: runs of digits compare as numbers, digits are above other  *)
(* characters, 255 above everything; characters are signed.                *)
(***************************************************************************)
IsDigit(c) == c \in 48..57
SChar(c)   == IF c > 127 THEN c - 256 ELSE c

RECURSIVE DropZeros(_), DigitRun(_)
DropZeros(str) == IF str # <<>> /\ Head(str) = 48 THEN DropZeros(Tail(str)) ELSE str
DigitRun(str)  == IF str # <<>> /\ IsDigit(Head(str)) THEN 1 + DigitRun(Tail(str)) ELSE 0

\* A slip: the second of two tests is missing, the characters decide.
digitAboveLeft(c, d) == IF IsDigit(c) THEN 1 ELSE Sign(SChar(c) - SChar(d))

\* a digit against another character
digitAbove(c, d) == IF IsDigit(c) THEN 1 ELSE -1

RECURSIVE lexNumCmp(_, _)
lexNumCmp(a, b) ==
    IF a = <<>> \/ b = <<>> THEN Sign(Len(a) - Len(b))
    ELSE LET c == Head(a)  d == Head(b)
             x == DropZeros(a)  y == DropZeros(b)
             m == DigitRun(x)   n == DigitRun(y)
             q == memcmp(SubSeq(x, 1, m), SubSeq(y, 1, n))
         IN  CASE (c = 255) # (d = 255)            -> IF c = 255 THEN 1 ELSE -1
               [] IsDigit(c) /\ IsDigit(d) /\ m # n -> Sign(m - n)
               [] IsDigit(c) /\ IsDigit(d) /\ q # 0 -> q
               [] IsDigit(c) /\ IsDigit(d)         ->
                      lexNumCmp(SubSeq(x, m + 1, Len(x)), SubSeq(y, n + 1, Len(y)))
               [] IsDigit(c) # IsDigit(d)          -> digitAbove(c, d)
               [] c # d                            -> Sign(SChar(c) - SChar(d))
               [] OTHER                            -> lexNumCmp(Tail(a), Tail(b))

LEFT_SUBFIELD  == -2
LEFT_BEFORE    == -1
SAME           == 0
RIGHT_BEFORE   == 1
RIGHT_SUBFIELD == 2

FirstPart(nm) == IF HasDot(nm) THEN Before(nm) ELSE nm
LaterPart(nm) == IF HasDot(nm) THEN After(nm) ELSE <<>>

RECURSIVE compareDottedFieldNames(_, _)

\* A slip: the first component only.
compareDottedFieldNamesOnce(l, r) ==
    IF l = <<>> \/ r = <<>> THEN 2 * Sign(Len(r) - Len(l))
    ELSE Sign(lexNumCmp(FirstPart(l), FirstPart(r)))

compareDottedFieldNames(l, r) ==
    IF l = <<>> \/ r = <<>> THEN 2 * Sign(Len(r) - Len(l))
    ELSE LET x == lexNumCmp(FirstPart(l), FirstPart(r))
         IN  IF x # 0 THEN Sign(x)
             ELSE compareDottedFieldNames(LaterPart(l), LaterPart(r))

(***************************************************************************)
(* appendMinForType and appendMaxForType: the elements they append.  The   *)
(* cases Undefined and jstNULL of the latter have no break and go on to    *)
(* append the Bool as well.                                                *)
(***************************************************************************)
OID(byte) == [i \in 1..12 |-> byte]

appendMinForType(nm, t) ==
    CASE t \in {MinKey, MaxKey}   -> <<Elt(MinKey, nm)>>
      [] t \in Numeric            -> <<NumElt(NumberDouble, nm, -MaxDouble)>>
      [] t = jstOID               -> <<StrElt(jstOID, nm, OID(0))>>
      [] t \in {Bool, Date, Timestamp} -> <<NumElt(t, nm, 0)>>
      [] t = Symbol               -> <<StrElt(String, nm, <<>>)>>
      [] t = BinData              -> <<NumElt(BinData, nm, 1)>>
      [] t = DBRef                -> <<[Elt(DBRef, nm) EXCEPT !.o = OID(0)]>>
      [] OTHER                    -> <<Elt(t, nm)>>

\* A slip: the bound of a String is a String.
appendMaxForTypeString(nm, t) ==
    IF t \in {Symbol, String} THEN <<StrElt(String, nm, <<90, 90, 90>>)>> ELSE <<Elt(MaxKey, nm)>>

appendMaxForType(nm, t) ==
    CASE t \in {MinKey, MaxKey}   -> <<Elt(MaxKey, nm)>>
      [] t \in Numeric            -> <<NumElt(NumberDouble, nm, MaxDouble)>>
      [] t = BinData              -> appendMinForType(nm, jstOID)
      [] t = jstOID               -> <<StrElt(jstOID, nm, OID(255))>>
      [] t \in {Undefined, jstNULL} -> appendMinForType(nm, NumberInt) \o <<NumElt(Bool, nm, 1)>>
      [] t = Bool                 -> <<NumElt(Bool, nm, 1)>>
      [] t \in {Date, Timestamp}  -> <<NumElt(t, nm, MaxULong)>>
      [] t \in {Symbol, String}   -> <<Elt(Object, nm)>>
      [] t \in {Code, CodeWScope} -> <<StrElt(CodeWScope, nm, <<90, 90, 90>>)>>
      [] OTHER                    -> appendMinForType(nm, t + 1)

(***************************************************************************)
(* The type a number is given when it is appended.  Turning the sign of    *)
(* the least long long gives it back.                                      *)
(***************************************************************************)
Magnitude(v) == IF v < 0 /\ v # MinLong THEN -v ELSE v

\* (int): the low bits
ToInt(v) == ((v + MaxInt + 1) % (2 * (MaxInt + 1))) - (MaxInt + 1)

appendIntOrLL(nm, v) ==
    IF Magnitude(v) < MaxInt \div 2 THEN NumElt(NumberInt, nm, ToInt(v)) ELSE NumElt(NumberLong, nm, v)

\* A slip: the second limit is not below what a double holds exactly.
appendNumberWide(nm, v) ==
    IF Magnitude(v) < IntLimit THEN NumElt(NumberInt, nm, ToInt(v)) ELSE NumElt(NumberDouble, nm, ToDouble(v))

appendNumber(nm, v) ==
    CASE Magnitude(v) < IntLimit    -> NumElt(NumberInt, nm, ToInt(v))
      [] Magnitude(v) \in IntLimit..(DoubleLimit - 1) -> NumElt(NumberDouble, nm, ToDouble(v))
      [] OTHER                      -> NumElt(NumberLong, nm, v)

-----------------------------------------------------------------------------
(***************************************************************************)
(* The BSONElementSet and the sorted iterator.  std::set and qsort look for*)
(* the place of an element by comparing it with elements in the middle:    *)
(* a binary search here.                                                   *)
(***************************************************************************)
less(l, r) == woCompareElt(l, r, FALSE) < 0            \* BSONElementCmpWithoutField
nameLess(l, r) == lexNumCmp(l, r) < 0                  \* BSONElementFieldSorter

RECURSIVE lowerBound(_, _, _, _, _)
lowerBound(lt(_, _), s, x, lo, hi) ==       \* the first of lo..hi-1 that is not below x, or hi
    LET mid == (lo + hi) \div 2
    IN  IF lo = hi THEN lo
        ELSE IF lt(s[mid], x) THEN lowerBound(lt, s, x, mid + 1, hi)
        ELSE lowerBound(lt, s, x, lo, mid)

Place(lt(_, _), s, x) == lowerBound(lt, s, x, 1, Len(s) + 1)

Init == set = <<>> /\ fields = <<>>

\* BSONElementSet::insert: an element equal to one of the set is dropped
Insert(e) ==
    LET k == Place(less, set, e)
    IN  /\ Len(set) < MaxSet /\ fields = <<>>
        /\ set' = IF k <= Len(set) /\ ~less(e, set[k]) THEN set ELSE InsertAt(set, k, e)
        /\ UNCHANGED fields

\* BSONObjIteratorSorted: one more field of the document it sorts
SortField(nm) ==
    /\ Len(fields) < MaxSet /\ set = <<>>
    /\ fields' = InsertAt(fields, Place(nameLess, fields, nm), nm)
    /\ UNCHANGED set

Next ==
    \/ \E e \in Elements : Insert(e)
    \/ \E nm \in Names : SortField(nm)

Spec == Init /\ [][Next]_vars

-----------------------------------------------------------------------------
(***************************************************************************)
(* Whatever the order of the insertions, elements of every type stay       *)
(* sorted in the set for every pair of them, not only for neighbours, and  *)
(* each is found again.  woCompare is a strict weak order of them but for  *)
(* one case: a double may equal two longs that are not equal, because      *)
(* longs compare exactly with each other and rounded with a double.        *)
(***************************************************************************)
Equal(l, r) == woCompareElt(l, r, FALSE) = 0

Blurs(e, l, m) ==
    /\ e.type = NumberDouble /\ l.type = NumberLong /\ m.type = NumberLong
    /\ l.n # ToDouble(l.n) \/ m.n # ToDouble(m.n)

SetIsSorted ==
    /\ \A i, j \in DOMAIN set : less(set[i], set[j]) <=> i < j
    /\ \A i \in DOMAIN set : Place(less, set, set[i]) = i
    /\ \A e \in Elements, i, j \in DOMAIN set :
           Equal(e, set[i]) /\ Equal(e, set[j]) => i = j \/ Blurs(e, set[i], set[j])

\* Without the exception: what a std::set asks of its comparison.
EqualToOne ==
    \A e \in Elements, i, j \in DOMAIN set : Equal(e, set[i]) /\ Equal(e, set[j]) => i = j

(***************************************************************************)
(* lexNumCmp orders field names with numbers in them: the fields of the    *)
(* sorted iterator are in order for every pair of them.                    *)
(***************************************************************************)
FieldsAreSorted ==
    \A i, j \in DOMAIN fields :
        /\ i <= j => lexNumCmp(fields[i], fields[j]) <= 0
        /\ lexNumCmp(fields[i], fields[j]) = -lexNumCmp(fields[j], fields[i])

(***************************************************************************)
(* compareDottedFieldNames is the order of paths: SUBFIELD exactly when    *)
(* one path leads into the other, otherwise the first components that      *)
(* differ decide.  A trailing dot adds no component.                       *)
(***************************************************************************)
RECURSIVE Path(_)
Path(nm) == IF nm = <<>> THEN <<>> ELSE <<FirstPart(nm)>> \o Path(LaterPart(nm))

DottedNamesArePaths ==
    \A i, j \in DOMAIN fields :
        LET p == Path(fields[i])  q == Path(fields[j])
            diff == {k \in DOMAIN p \cap DOMAIN q : lexNumCmp(p[k], q[k]) # 0}
            x == compareDottedFieldNames(fields[i], fields[j])
        IN  IF diff = {}
            THEN x = IF Len(p) < Len(q) THEN RIGHT_SUBFIELD ELSE IF Len(p) > Len(q) THEN LEFT_SUBFIELD ELSE SAME
            ELSE LET k == CHOOSE k \in diff : \A m \in diff : k <= m
                 IN  x = IF lexNumCmp(p[k], q[k]) < 0 THEN LEFT_BEFORE ELSE RIGHT_BEFORE

(***************************************************************************)
(* Comparing documents through a key pattern and through the Ordering made *)
(* from it give the same answer, for every mix of directions; exchanging   *)
(* the documents turns the sign.  Only when the documents are equal in one *)
(* element more than the key has, the key's iterator asserts, while the    *)
(* Ordering goes on.                                                       *)
(***************************************************************************)
EqualBeyond(a, b, bits) ==
    /\ Len(a) > Len(bits) /\ Len(b) > Len(bits)
    /\ \A i \in 1..Len(bits) + 1 : woCompareElt(a[i], b[i], TRUE) = 0

OrderingsAgree ==
    \A n \in 1..2 : \A bits \in [1..n -> BOOLEAN],
      b \in {Reverse(set), set} \cup {SubSeq(set, 1, k) : k \in 0..Len(set)} :
        LET x == woCompareKey(set, b, bits, TRUE)
            y == woCompareKey(b, set, bits, TRUE)
        IN  IF EqualBeyond(set, b, bits) THEN x = Asserted /\ y = Asserted
            ELSE y = -x /\ woCompareOrdering(set, b, bits, TRUE) = x

(***************************************************************************)
(* woSortOrder sorts documents as their sort fields are sorted, direct and *)
(* dotted, reversed by a negative key, a missing field as null.            *)
(***************************************************************************)
A == <<97>>
B == <<98>>

SortKeyFollowsElements ==
    \A i, j \in DOMAIN set :
        LET flat(e)  == <<appendAs(e, A), Elt(jstNULL, B)>>
            deep(e)  == <<Elt(jstNULL, B), SubElt(Object, A, <<appendAs(e, B)>>)>>
            key(nm, dir) == <<NumElt(NumberInt, nm, dir)>>
            x        == woCompareElt(set[i], set[j], FALSE)
        IN  /\ woSortOrder(flat(set[i]), flat(set[j]), key(A, 1), FALSE) = x
            /\ woSortOrder(flat(set[i]), flat(set[j]), key(A, -1), TRUE) = -x
            /\ woSortOrder(deep(set[i]), deep(set[j]), key(A \o <<Dot>> \o B, -1), TRUE) = -x
            /\ woSortOrder(<<Elt(jstNULL, B)>>, flat(set[j]), key(A, 1), FALSE)
                 = woCompareElt(staticNull, set[j], FALSE)

(***************************************************************************)
(* appendMinForType and appendMaxForType bracket the values of a type with *)
(* every element they append, as the elements compare.  Each appends one,  *)
(* but for the upper bound of undefined and null, which gets two of the    *)
(* same name.  Three kinds of values are outside their bounds: numbers     *)
(* that are not finite, BinData of length 0 and subtype 0 (the bound has   *)
(* subtype 1), and scoped code above "ZZZ".                                *)
(***************************************************************************)
OutsideBounds(e) ==
    \/ e.type = NumberDouble /\ lNan(e.n)
    \/ e.type = BinData /\ e.s = <<>>
    \/ e.type = CodeWScope /\ strcmp(e.s, <<90, 90, 90>>) > 0

BoundsBracket ==
    \A i \in DOMAIN set :
        LET e == set[i]  lo == appendMinForType(A, e.type)  hi == appendMaxForType(A, e.type)
        IN  /\ Len(lo) = 1 /\ Len(hi) = (IF e.type \in {Undefined, jstNULL} THEN 2 ELSE 1)
            /\ ~OutsideBounds(e) => /\ woCompareElt(lo[1], e, FALSE) <= 0
                                    /\ \A k \in DOMAIN hi : woCompareElt(hi[k], e, FALSE) >= 0

(***************************************************************************)
(* Whatever type appendNumber and appendIntOrLL choose for a long, the     *)
(* element keeps its value and compares equal to it, with one exception:   *)
(* the least long, whose sign cannot be turned, is appended as the int 0.  *)
(***************************************************************************)
NumberKeepsValue ==
    \A i \in DOMAIN set : set[i].type = NumberLong =>
        \A e \in {appendNumber(A, set[i].n), appendIntOrLL(A, set[i].n)} :
            IF set[i].n = MinLong THEN e = NumElt(NumberInt, A, 0)
            ELSE e.n = set[i].n /\ compareElementValues(set[i], e) = 0

(***************************************************************************)
(* The two comparisons of field names are orders whatever digits, zeros    *)
(* and dots the names have: lexNumCmp of the names, and                    *)
(* compareDottedFieldNames of the paths they are (two different orders: a  *)
(* dot is a character to the first).                                       *)
(***************************************************************************)
NamesAreOrdered == FieldsAreSorted /\ DottedNamesArePaths

(***************************************************************************)
(* The ways to compare two documents by some of their fields (a key that   *)
(* does not run out, its Ordering, a sort pattern with dotted names) agree *)
(* with each other and with the comparison of the elements.                *)
(***************************************************************************)
KeysAreOrdered == OrderingsAgree /\ SortKeyFollowsElements

(***************************************************************************)
(* Elements that a builder makes from a type or a number compare as that   *)
(* type's bounds and that number should, with the exceptions named above.  *)
(***************************************************************************)
BuiltElementsCompare == BoundsBracket /\ NumberKeepsValue
=============================================================================
