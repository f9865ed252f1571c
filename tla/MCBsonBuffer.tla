---------------------------- MODULE MCBsonBuffer ----------------------------
(***************************************************************************)
(* Elements for BsonBuffer: every type occurs, the short ones nested.      *)
(***************************************************************************)
EXTENDS BsonBuffer

NA == <<97>>

MCElements ==
    {NumElt(NumberInt, NA, -8), NumElt(NumberLong, <<>>, 300),
     StrElt(String, NA, <<97, 0, 98>>),
     [StrElt(DBRef, <<>>, <<97>>) EXCEPT !.o = [i \in 1..12 |-> 7]],
     [NumElt(BinData, NA, 2) EXCEPT !.s = <<0, 5>>],
     [SubElt(CodeWScope, NA, Encode(<<Elt(jstNULL, NA), StrElt(Code, <<>>, <<>>),
                                      [StrElt(RegEx, NA, <<97>>) EXCEPT !.o = <<105>>]>>))
         EXCEPT !.s = <<97>>],
     SubElt(Object, NA, Encode(<<NumElt(Date, NA, 1), StrElt(jstOID, <<>>, [i \in 1..12 |-> 7]),
                                 SubElt(Array, NA, Encode(<<NumElt(Bool, <<48>>, 1)>>))>>))}
\* Sizes, types and ends that are wrong, among them what makes a BinData, and
\* a length negative
MCDamage == {-1, 0, 1, 2, 5, 8, 127}
MCNames  == {<<98>>}
MCLabels == {<<36>>}
=============================================================================
