---------------------------- MODULE MCBsonOrder ----------------------------
(***************************************************************************)
(* Values for BsonOrder: one or more elements of every type.  A double has *)
(* 4 significant bits: the longs 19 and 21 are beyond them, and become the *)
(* double 20, which is there too.                                          *)
(***************************************************************************)
EXTENDS BsonOrder

MCMinLong == -128

NA == <<97>>
NB == <<98>>

MCNumbers ==
    {NumElt(NumberInt, NA, v) : v \in {-3, 0, 5}} \cup
    {NumElt(NumberLong, NA, v) : v \in {-3, 5, 7, 12, 19, 21, MinLong}} \cup
    {NumElt(NumberDouble, NA, v) : v \in {5, 6, 20, -MaxDouble, PlusInfinity, MinusInfinity, NaN}}

MCTexts ==
    {StrElt(t, NA, s) : t \in {String, Code}, s \in {<<>>, <<97>>, <<97, 98>>}} \cup
    {StrElt(Symbol, NA, <<97, 0, 98>>), [StrElt(RegEx, NB, <<97>>) EXCEPT !.o = <<105>>],
     StrElt(RegEx, NA, <<97>>)}

MCDocs ==
    {SubElt(t, NA, d) : t \in {Object, Array},
                        d \in {<<>>, <<NumElt(NumberInt, NA, 1)>>, <<StrElt(String, NB, <<>>), Elt(jstNULL, NA)>>}} \cup
    {[SubElt(CodeWScope, NA, <<>>) EXCEPT !.s = <<90>>],
     [SubElt(CodeWScope, NA, <<Elt(jstNULL, NA)>>) EXCEPT !.s = <<90>>],
     [SubElt(CodeWScope, NA, <<>>) EXCEPT !.s = <<97>>]}

MCOthers ==
    {Elt(t, NA) : t \in {MinKey, MaxKey, Undefined, jstNULL}} \cup
    {NumElt(Bool, NA, 0), NumElt(Bool, NA, 1), NumElt(Date, NB, 3), NumElt(Timestamp, NA, 9),
     StrElt(jstOID, NA, OID(7)), NumElt(BinData, NA, 0), [NumElt(BinData, NA, 2) EXCEPT !.s = <<9>>],
     [StrElt(DBRef, NA, <<97>>) EXCEPT !.o = OID(1)], [StrElt(DBRef, NA, <<98>>) EXCEPT !.o = OID(0)]}

MCElements == MCNumbers \cup MCTexts \cup MCDocs \cup MCOthers

\* 'a', 'b', '.', '0', '1', '2' and 255 in names of up to three characters
MCNames ==
    {<<97>>, <<97, 46>>, <<97, 46, 98>>, <<97, 46, 49>>, <<97, 46, 48>>, <<97, 48, 49>>, <<97, 49>>,
     <<97, 49, 48>>, <<97, 50>>, <<98>>, <<48>>, <<48, 48>>, <<49, 97>>, <<48, 49, 97>>, <<49, 48>>,
     <<255>>, <<97, 255>>, <<200>>, <<49, 46, 49>>, <<48, 49, 46, 50>>}
=============================================================================
