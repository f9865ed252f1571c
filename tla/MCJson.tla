------------------------------- MODULE MCJson -------------------------------
(***************************************************************************)
(* Documents and typed text for Json.                                      *)
(***************************************************************************)
EXTENDS Json

NA  == <<97>>
OID == [i \in 1..12 |-> 16 * i + 10]
Frac(n, o) == [NumElt(NumberDouble, NA, n) EXCEPT !.o = o]

\* Every type that has a JSON form, at its edges: quotes, backslashes,
\* slashes and control characters, both sides of the int range, one, two and
\* three bytes of binary data, doubles on both sides of 16 digits, a
\* fraction of every kind, an option that only the Strict format keeps; and
\* elements that are written but not read: a subtype above 127, Undefined
MCElements ==
    {NumElt(NumberInt, NA, -4), NumElt(NumberLong, <<34>>, 4),
     NumElt(NumberDouble, NA, 2), NumElt(NumberDouble, NA, 9),
     NumElt(NumberDouble, NA, 20), NumElt(NumberDouble, NA, -17),
     Frac(1, Short), Frac(1, Long), Frac(1, Tiny), Frac(0, Infinite),
     StrElt(String, <<92, 31>>, <<34, 92, 47, 10, 31, 0, 200>>), StrElt(Symbol, <<>>, <<>>),
     NumElt(Bool, NA, 1), NumElt(Bool, NA, 0), Elt(jstNULL, NA), Elt(MinKey, NA), NumElt(Timestamp, NA, 2),
     [StrElt(DBRef, NA, <<97>>) EXCEPT !.o = OID], StrElt(jstOID, NA, OID),
     [NumElt(BinData, NA, 5) EXCEPT !.s = <<255>>], [NumElt(BinData, NA, 0) EXCEPT !.s = <<0, 127>>],
     [NumElt(BinData, NA, 17) EXCEPT !.s = <<1, 254, 63, 7>>], Elt(BinData, NA),
     NumElt(BinData, NA, -1), Elt(Undefined, NA),
     NumElt(Date, NA, 5),
     [StrElt(RegEx, NA, <<47, 92, 34>>) EXCEPT !.o = <<105, 109, 120>>], SubElt(Array, NA, <<>>)}

Hex24 == toHexLower(OID)
D(nm) == <<T("{"), dq(nm), T(":")>>
F(nm) == <<T(","), dq(nm), T(":")>>

MCPhrases ==
    {D(NA), F(NA), D(NA) \o <<T("[")>>, <<T("{")>>, <<T("}")>>, <<T("]")>>, <<T(",")>>,
     <<sq(<<92, 117, 92, 39>>)>>, <<int(4)>>, <<real(4, <<>>)>>, <<real(1, Long)>>, <<real(13, <<>>)>>,
     <<word(WNew), word(WDate), T("("), int(1)>>, <<T(")")>>,
     D(dRef) \o <<dq(NA)>>, F(dId) \o <<dq(Hex24)>>, D(dDate) \o <<int(1)>>,
     D(dRegex) \o <<dq(<<92, 117, 48, 56, 48, 48>>)>>, F(dOptions) \o <<dq(<<105, 120>>)>>,
     D(dBinary) \o <<dq(<<81, 85, 69, 61>>)>>, F(dType) \o <<dq(<<48, 48>>)>>}

\* The same names without quotes
MCUnquoted ==
    {<<T("{")>>, <<T("}")>>, <<T(":")>>, <<dq(dOid)>>, <<sq(dOid)>>, <<word(dOid)>>, <<dq(Hex24)>>}
=============================================================================
