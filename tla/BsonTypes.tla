----------------------------- MODULE BsonTypes -----------------------------
(***************************************************************************)
(* The values of the BSON library (src/bson/src): the type codes, elements *)
(* and documents, and the reads every other part of the library uses.      *)
(*                                                                         *)
(* A document is the sequence of its elements; the EOO element that ends   *)
(* its bytes is left to module BsonBuilder.  An element is a record that    *)
(* always has the same fields, whichever its type:                         *)
(*   type, name     its type code and the characters of its name           *)
(*   n              a number: of NumberInt, NumberLong, NumberDouble, Bool, *)
(*                  Date, Timestamp; the subtype of BinData                *)
(*   s              the characters or bytes of String, Symbol, Code, RegEx,*)
(*                  CodeWScope, DBRef (its ns), BinData, jstOID            *)
(*   o              the options of RegEx, the OID of DBRef                 *)
(*   d              the sub-document of Object, Array, CodeWScope          *)
(* Characters are their codes 0..255.                                      *)
(***************************************************************************)
EXTENDS Integers, Sequences

MinKey       == -1
EOO          == 0
NumberDouble == 1
String       == 2
Object       == 3
Array        == 4
BinData      == 5
Undefined    == 6
jstOID       == 7
Bool         == 8
Date         == 9
jstNULL      == 10
RegEx        == 11
DBRef        == 12
Code         == 13
Symbol       == 14
CodeWScope   == 15
NumberInt    == 16
Timestamp    == 17
NumberLong   == 18
MaxKey       == 127

Numeric == {NumberDouble, NumberInt, NumberLong}
Textual == {String, Symbol, Code}
Keys    == {EOO, Undefined, jstNULL, MaxKey, MinKey}   \* no value bytes

(***************************************************************************)
(* Elements.                                                               *)
(***************************************************************************)
Elt(t, nm)         == [type |-> t, name |-> nm, n |-> 0, s |-> <<>>, o |-> <<>>, d |-> <<>>]
NumElt(t, nm, v)   == [Elt(t, nm) EXCEPT !.n = v]
StrElt(t, nm, str) == [Elt(t, nm) EXCEPT !.s = str]
SubElt(t, nm, doc) == [Elt(t, nm) EXCEPT !.d = doc]

\* BSONElement(): what a lookup returns when it finds nothing
NoElement == Elt(EOO, <<>>)

eoo(e)        == e.type = EOO
isNumber(e)   == e.type \in Numeric
isABSONObj(e) == e.type \in {Object, Array}

\* BSONObjBuilder::appendAs: the same value under another name
appendAs(e, nm) == [e EXCEPT !.name = nm]

(***************************************************************************)
(* strcmp and memcmp: -1, 0 or 1, bytes compared as unsigned, a C string   *)
(* ending at its first zero.                                               *)
(***************************************************************************)
Sign(x) == IF x < 0 THEN -1 ELSE IF x = 0 THEN 0 ELSE 1

CString(str) ==
    LET zeros == {i \in DOMAIN str : str[i] = 0}
    IN  IF zeros = {} THEN str
        ELSE SubSeq(str, 1, (CHOOSE i \in zeros : \A j \in zeros : i <= j) - 1)

memcmp(a, b) ==
    LET common  == 1..(IF Len(a) <= Len(b) THEN Len(a) ELSE Len(b))
        differ  == {i \in common : a[i] # b[i]}
        first   == CHOOSE i \in differ : \A j \in differ : i <= j
    IN  IF differ = {} THEN Sign(Len(a) - Len(b)) ELSE Sign(a[first] - b[first])

strcmp(a, b) == memcmp(CString(a), CString(b))

(***************************************************************************)
(* Lookups: the first element of that name.                                *)
(***************************************************************************)
getField(doc, nm) ==
    LET named == {i \in DOMAIN doc : doc[i].name = nm}
    IN  IF named = {} THEN NoElement ELSE doc[CHOOSE i \in named : \A j \in named : i <= j]

getObjectField(doc, nm) ==
    LET e == getField(doc, nm) IN IF isABSONObj(e) THEN e.d ELSE <<>>
=============================================================================
