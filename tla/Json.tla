-------------------------------- MODULE Json --------------------------------
(***************************************************************************)
(* Documents as JSON text, the form in which the shell reads them:         *)
(* fromjson, the Spirit grammar with the actions that feed ObjectBuilder,  *)
(* and jsonString, which writes a document again.                          *)
(*                                                                         *)
(* A text is a sequence of tokens [k, v, o]: punctuation; a quoted string  *)
(* ("dq", "sq") or a regular expression ("re", flags in o) with the        *)
(* characters between its delimiters as written, escapes included; a       *)
(* number; a word.  White space is left out.                               *)
(*                                                                         *)
(* Actions run while the grammar is still trying an alternative, and what  *)
(* they did to the ObjectBuilder stays when the alternative fails.         *)
(***************************************************************************)
EXTENDS BsonTypes, SequencesExt

CONSTANTS
    IntMax,        \* numeric_limits<int>::max()
    Digits16,      \* the first whole number with more digits than are written
    Elements,      \* the elements documents are made of
    MaxFields,     \* bound on the fields of a document
    MaxNesting,    \* bound on how often a document is wrapped in another
    Phrases,       \* the pieces of typed text, sequences of tokens
    MaxPhrases     \* bound on the pieces of one typed text

ASSUME JsonAssumption == IntMax \in Nat /\ Digits16 \in Nat /\ IntMax < Digits16

VARIABLES
    doc,     \* the document that is written
    text,    \* the text, written or typed
    res,     \* what fromjson made of it: ok, doc, left (builders not closed)
    phase,   \* "doc", "text", "reread" for written text; "typed", "read" for typed
    how,     \* the JsonStringFormat that text was written in, or "typed"
    k        \* fields, or phrases, so far

vars == <<doc, text, res, phase, how, k>>

Formats == {"Strict", "TenGen", "JS"}

-----------------------------------------------------------------------------
(***************************************************************************)
(* Tokens.                                                                 *)
(***************************************************************************)
T(kind) == [k |-> kind, v |-> <<>>, o |-> <<>>]
dq(chars) == [T("dq") EXCEPT !.v = chars]
sq(chars) == [T("sq") EXCEPT !.v = chars]
word(chars) == [T("word") EXCEPT !.v = chars]
int(i) == [T("int") EXCEPT !.v = <<i>>]
real(i, f) == [T("real") EXCEPT !.v = <<i>>, !.o = f]
re(chars, fl) == [T("re") EXCEPT !.v = chars, !.o = fl]

\* Words
True      == <<116>>
False     == <<102>>
Null      == <<110>>
WDate     == <<68>>
WObjectId == <<79>>
WDbref    == <<66>>
WNew      == <<119>>

\* Names that announce an extended value, their last letters left out;
\* $minKey and $maxKey are alike here
dOid     == <<36, 111>>
dBinary  == <<36, 98>>
dType    == <<36, 116>>
dDate    == <<36, 100>>
dRegex   == <<36, 114>>
dOptions == <<36, 112>>
dRef     == <<36, 102>>
dId      == <<36, 105>>
dMinKey  == <<36, 109>>
Reserved == {dOid, dBinary, dType, dDate, dRegex, dOptions}

(***************************************************************************)
(* Characters: hexadecimal digits, escapes.                                *)
(***************************************************************************)
IsHex(c) == c \in 48..57 \cup 97..102 \cup 65..70
Letter(c) == c \in 65..90 \cup 97..122
HexDigit(x) == IF x < 10 THEN 48 + x ELSE 87 + x
toHexLower(bytes) ==
    FlattenSeq([i \in DOMAIN bytes |-> <<HexDigit(bytes[i] \div 16), HexDigit(bytes[i] % 16)>>])

HexValue(c) == CASE c <= 57 -> c - 48 [] c \in 65..70 -> c - 55 [] OTHER -> c - 87
fromHex(s, i) == 16 * HexValue(s[i]) + HexValue(s[i + 1])

\* \b \f \n \r \t \v
Letters  == <<98, 102, 110, 114, 116, 118>>
Controls == <<8, 12, 10, 13, 9, 11>>
IndexIn(c, s) == CHOOSE i \in DOMAIN s : s[i] = c

\* chE for one of the letters; the other characters stand for themselves
chE(c) == IF c \in Range(Letters) THEN Controls[IndexIn(c, Letters)] ELSE c

\* chU: the UTF-8 bytes of four hexadecimal digits
chU(h) ==
    LET first == fromHex(h, 1)  second == fromHex(h, 3)
    IN  CASE first = 0 /\ second < 128 -> <<second>>
          [] first < 8 /\ ~(first = 0 /\ second < 128) ->
                 <<192 + first * 4 + second \div 64, 128 + (second % 64)>>
          [] OTHER ->
                 <<224 + first \div 16, 128 + ((first * 4 + second \div 64) % 64), 128 + (second % 64)>>

isControl(c) == c <= 31

escape(s, escape_slash) ==
    FlattenSeq([i \in DOMAIN s |->
        LET named == s[i] \in {8, 12, 10, 13, 9}
        IN  CASE s[i] \in {34, 92}           -> <<92, s[i]>>
              [] s[i] = 47                   -> IF escape_slash THEN <<92, 47>> ELSE <<47>>
              [] named                       -> <<92, Letters[IndexIn(s[i], Controls)]>>
              [] isControl(s[i]) /\ ~named   -> <<92, 117, 48, 48>> \o toHexLower(<<s[i]>>)
              [] OTHER                       -> <<s[i]>>])

(***************************************************************************)
(* str, singleQuoteStr and regexT read their characters one by one; out is *)
(* what they put into ss, also when they stop before the end.              *)
(***************************************************************************)
Escapable(c, q) ==        \* after a backslash, if four digits do not follow its u
    IF q = 47 THEN c \in {34, 92, 47} \cup (Range(Letters) \ {118})
    ELSE c # 120 /\ c \notin 48..57

RECURSIVE Chars(_, _, _)
Chars(raw, q, out) ==
    LET isU == /\ Len(raw) >= 6 /\ raw[1] = 92 /\ raw[2] = 117
               /\ \A i \in 3..6 : IsHex(raw[i])
    IN  CASE raw = <<>> -> [ok |-> TRUE, out |-> out]
          [] isU -> Chars(SubSeq(raw, 7, Len(raw)), q, out \o chU(SubSeq(raw, 3, 6)))
          [] ~isU /\ Len(raw) >= 2 /\ raw[1] = 92 /\ Escapable(raw[2], q) ->
                 Chars(SubSeq(raw, 3, Len(raw)), q, Append(out, chE(raw[2])))
          [] raw # <<>> /\ raw[1] \notin 0..31 \cup {q, 92} ->
                 Chars(Tail(raw), q, Append(out, raw[1]))
          [] OTHER -> [ok |-> FALSE, out |-> out]

(***************************************************************************)
(* base64.                                                                 *)
(***************************************************************************)
e64(x) == LET y == x % 64
          IN  CASE y < 26            -> 65 + y
                [] y \in 26..51      -> 71 + y
                [] y \in 52..61      -> y - 4
                [] y = 62            -> 43
                [] y = 63            -> 47

In64(c) == \E y \in 0..63 : e64(y) = c
d64(c)  == IF In64(c) THEN CHOOSE y \in 0..63 : e64(y) = c ELSE 0

\* A slip: a last group of two bytes is padded like one of one.
paddingTwo(size) == IF size % 3 = 0 THEN 0 ELSE 2

padding(size) == (3 - (size % 3)) % 3

\* base64::encode: groups of three bytes, the last one padded with =
encode(data) ==
    LET at(i) == IF i <= Len(data) THEN data[i] ELSE 0
        group(i) == <<e64(at(i) \div 4), e64(at(i) * 16 + at(i+1) \div 16),
                      e64((at(i+1) % 16) * 4 + at(i+2) \div 64), e64(at(i+2))>>
        all == FlattenSeq([j \in 1..((Len(data) + 2) \div 3) |-> group(3*j - 2)])
        pad == padding(Len(data))
    IN  SubSeq(all, 1, Len(all) - pad) \o [i \in 1..pad |-> 61]

\* base64::decode, of a multiple of four characters
decode(s) ==
    LET group(i) ==
            LET b == <<(d64(s[i]) * 4 + d64(s[i+1]) \div 16) % 256,
                       (d64(s[i+1]) * 16 + d64(s[i+2]) \div 4) % 256,
                       (d64(s[i+2]) * 64 + d64(s[i+3])) % 256>>
            IN  SubSeq(b, 1, IF s[i+3] # 61 THEN 3 ELSE IF s[i+2] # 61 THEN 2 ELSE 1)
    IN  FlattenSeq([j \in 1..(Len(s) \div 4) |-> group(4*j - 3)])

-----------------------------------------------------------------------------
(***************************************************************************)
(* jsonString.  A double is n, its value or the part before the point, and *)
(* what its fraction is:                                                   *)
(*   <<>>   there is none;                                                 *)
(*   Short  one that 16 digits hold;                                       *)
(*   Long   one with more digits: another one, Cut, is written;            *)
(*   Tiny   one whose first 16 digits are those of n itself;               *)
(* Infinite stands for infinite or not a number.  The subtype n of BinData *)
(* is a signed char: a negative one is written with eight digits.  What    *)
(* massert refuses is the token "thrown".  pretty only moves lines, except *)
(* for dates.                                                              *)
(***************************************************************************)
Short    == <<1>>
Infinite == <<2>>
Long     == <<3>>
Cut      == <<4>>
Tiny     == <<5>>

\* precision(16): the fraction and the whole number that are written
FractionWritten(o) == CASE o = Long -> Cut [] o = Tiny -> <<>> [] OTHER -> o
WholeWritten(n) == IF n \in (1 - Digits16)..(Digits16 - 1) THEN n ELSE 10 * ((n + 5) \div 10)
RECURSIVE jsonString(_, _, _), jsonElements(_, _, _, _)

\* NumberLong, NumberInt, NumberDouble: without a fraction to write, a double
\* below Digits16 looks like an integer; from there on it has an exponent
jsonNumber(e) ==
    LET f == FractionWritten(e.o)
    IN  CASE e.type # NumberDouble -> int(e.n)
          [] e.type = NumberDouble /\ e.o = Infinite -> T("thrown")
          [] e.type = NumberDouble /\ f = <<>> /\ e.n \in (1 - Digits16)..(Digits16 - 1) -> int(e.n)
          [] OTHER -> real(WholeWritten(e.n), f)

Call(fn, args) == <<word(fn), T("(")>> \o args \o <<T(")")>>
Pair(nm, tok) == <<dq(nm), T(":")>> \o tok
Braces(pairs) == <<T("{")>> \o pairs \o <<T("}")>>
Comma(a, b) == a \o <<T(",")>> \o b

jsonDBRef(e, format) ==       \* the name is not escaped
    IF format = "TenGen" THEN Call(WDbref, Comma(<<dq(CString(e.s))>>, <<dq(toHexLower(e.o))>>))
    ELSE Braces(Comma(Pair(dRef, <<dq(CString(e.s))>>), Pair(dId, <<dq(toHexLower(e.o))>>)))

jsonOID(e, format) ==
    IF format = "TenGen" THEN Call(WObjectId, <<dq(toHexLower(e.s))>>)
    ELSE Braces(Pair(dOid, <<dq(toHexLower(e.s))>>))

jsonBinData(e) ==
    LET type == IF e.n < 0 THEN toHexLower(<<255, 255, 255, e.n + 256>>) ELSE toHexLower(<<e.n>>)
    IN  Braces(Comma(Pair(dBinary, <<dq(encode(e.s))>>), Pair(dType, <<dq(type)>>)))

jsonDate(e, format, pretty) ==
    LET d == <<IF pretty /\ e.n # 0 THEN dq(<<97>>) ELSE int(e.n)>>
    IN  IF format = "Strict" THEN Braces(Pair(dDate, d)) ELSE Call(WDate, d)

jsonRegEx(e, format) ==
    IF format = "Strict"
    THEN Braces(Comma(Pair(dRegex, <<dq(escape(e.s, FALSE))>>), Pair(dOptions, <<dq(e.o)>>)))
    ELSE <<re(escape(e.s, TRUE), SelectSeq(e.o, LAMBDA c : c \in {103, 105, 109}))>>

jsonValue(e, format, pretty) ==
    CASE e.type \in {String, Symbol}  -> <<dq(escape(e.s, FALSE))>>
      [] isNumber(e)                  -> <<jsonNumber(e)>>
      [] e.type = Bool                -> <<word(IF e.n # 0 THEN True ELSE False)>>
      [] e.type = jstNULL             -> <<word(Null)>>
      [] e.type = Object              -> jsonString(e.d, format, pretty)
      [] e.type = Array               -> <<T("[")>> \o jsonElements(e.d, FALSE, format, pretty) \o <<T("]")>>
      [] e.type = DBRef               -> jsonDBRef(e, format)
      [] e.type = jstOID              -> jsonOID(e, format)
      [] e.type = BinData             -> jsonBinData(e)
      [] e.type = Date                -> jsonDate(e, format, pretty)
      [] e.type = RegEx               -> jsonRegEx(e, format)
      [] e.type = Timestamp           -> Braces(Comma(Pair(<<116>>, <<int(0)>>), Pair(<<105>>, <<int(e.n)>>)))
      [] e.type \in {MinKey, MaxKey}  -> Braces(Pair(dMinKey, <<int(1)>>))
      [] OTHER                        -> <<T("code")>>        \* Code, CodeWScope: as they are

\* Undefined is the empty string, without its name
jsonElement(e, names, format, pretty) ==
    CASE e.type = Undefined -> <<>>
      [] e.type # Undefined /\ names -> Pair(escape(e.name, FALSE), jsonValue(e, format, pretty))
      [] OTHER -> jsonValue(e, format, pretty)

jsonElements(d, names, format, pretty) ==
    CASE d = <<>>   -> <<>>
      [] Len(d) = 1 -> jsonElement(d[1], names, format, pretty)
      [] OTHER      -> Comma(jsonElement(d[1], names, format, pretty),
                             jsonElements(Tail(d), names, format, pretty))

jsonString(d, format, pretty) == Braces(jsonElements(d, TRUE, format, pretty))

-----------------------------------------------------------------------------
(***************************************************************************)
(* The parser's state: the text t, the position p, ok while the current    *)
(* alternative matches, thrown after a failed massert, the furthest token  *)
(* looked at (far), and the ObjectBuilder b.  With pure set, a failed      *)
(* alternative leaves the ObjectBuilder as it was: the parser of the       *)
(* reference, not of the code.                                             *)
(***************************************************************************)
\* one entry per builder: builders, fieldNames and indexes together
Entry(type, under) == [type |-> type, under |-> under, fieldName |-> <<>>, index |-> 0, doc |-> <<>>]

EmptyBuilder == [stack |-> <<>>, ss |-> <<>>, ns |-> <<>>, oid |-> <<>>, binData |-> <<>>,
                 binDataType |-> 0, regex |-> <<>>, regexOptions |-> <<>>, date |-> 0]

Start(t, pure) == [t |-> t, p |-> 1, ok |-> TRUE, thrown |-> FALSE, far |-> 0,
                   b |-> EmptyBuilder, pure |-> pure]

Going(st) == st.ok /\ ~st.thrown
Fail(st) == [st EXCEPT !.ok = FALSE]
Throw(st) == [st EXCEPT !.thrown = TRUE]
Tok(st) == IF st.p <= Len(st.t) THEN st.t[st.p] ELSE T("end")

\* A terminal: the next token, if it is one that Accept takes
Take(st, Accept(_)) ==
    LET seen == [st EXCEPT !.far = IF st.p > @ THEN st.p ELSE @]
    IN  IF ~Going(st) THEN st
        ELSE IF Accept(Tok(st)) THEN [seen EXCEPT !.p = @ + 1] ELSE Fail(seen)

Lit(st, kind) == Take(st, LAMBDA x : x.k = kind)                \* ch_p
Quoted(st, nm) == Take(st, LAMBDA x : x.k = "dq" /\ x.v = nm)    \* "\"$oid\""
Word(st, w) == Take(st, LAMBDA x : x.k = "word" /\ x.v = w)   \* str_p

\* p[action]: what it does to the builder, if the parser before it matched
Do(st, b) == IF Going(st) THEN [st EXCEPT !.b = b] ELSE st
Act(st, action(_)) == Do(st, action(st.b))

\* Back to where an alternative, an option or a repetition started
Back(st, r) == [r EXCEPT !.p = st.p, !.ok = TRUE, !.b = IF st.pure THEN st.b ELSE @]

Optional(st, r) == IF r.ok \/ ~Going(st) THEN r ELSE Back(st, r)

\* a | b, in this order
OrElse(st, r, Q(_)) == IF ~Going(st) \/ r.ok THEN r ELSE Q(Back(st, r))
Either(st, P(_), Q(_)) == OrElse(st, P(st), Q)

(***************************************************************************)
(* ObjectBuilder and the actions.                                          *)
(***************************************************************************)
top(b) == Last(b.stack)
setTop(b, x) == [b EXCEPT !.stack[Len(b.stack)] = x]
fieldName(b) == CString(top(b).fieldName)

put(b, e) == setTop(b, [top(b) EXCEPT !.doc = Append(@, e)])   \* back()->append
named(b, s) == setTop(b, [top(b) EXCEPT !.fieldName = s])
push(b, t) == [b EXCEPT !.stack = Append(@, Entry(t, fieldName(b)))]
numStr(i) == <<48 + i>>

nameFromIndex(b) == named(b, numStr(top(b).index))

pop(b) ==
    LET rest == [b EXCEPT !.stack = Front(@)]
    IN  IF rest.stack = <<>> THEN rest ELSE put(rest, SubElt(top(b).type, top(b).under, top(b).doc))

objectStart(b) == IF b.stack = <<>> THEN [b EXCEPT !.stack = <<Entry(Object, <<>>)>>] ELSE push(b, Object)
arrayStart(b) == nameFromIndex(push(b, Array))

\* A slip: the index is not advanced.
arrayNextSame(b) == nameFromIndex(b)

arrayNext(b) == nameFromIndex(setTop(b, [top(b) EXCEPT !.index = @ + 1]))

popString(b) == [b EXCEPT !.ss = <<>>]
stringEnd(b) == popString(put(b, StrElt(String, fieldName(b), b.ss)))
numberValue(b, x) == put(b, [NumElt(NumberDouble, fieldName(b), x.v[1]) EXCEPT !.o = x.o])

intValue(b, num) ==
    put(b, NumElt(IF num \in (-IntMax - 1)..IntMax THEN NumberInt ELSE NumberLong, fieldName(b), num))

subobjectEnd(b) == pop(b)

\* A slip: the array's builder is left open.
arrayEndOpen(b) == b

arrayEnd(b) == pop(b)
trueValue(b) == put(b, NumElt(Bool, fieldName(b), 1))
falseValue(b) == put(b, NumElt(Bool, fieldName(b), 0))
nullValue(b) == put(b, Elt(jstNULL, fieldName(b)))

\* A slip: the namespace is appended before the whole reference is seen.
dbrefNSAppends(b) == popString(put([b EXCEPT !.ns = b.ss], StrElt(String, fieldName(b), b.ss)))

dbrefNS(b) == popString([b EXCEPT !.ns = b.ss])
dbrefEnd(b) == put(b, [StrElt(DBRef, fieldName(b), CString(b.ns)) EXCEPT !.o = b.oid])
oidEnd(b) == put(b, StrElt(jstOID, fieldName(b), b.oid))
binDataEnd(b) == put(b, [NumElt(BinData, fieldName(b), b.binDataType) EXCEPT !.s = b.binData])

dateValue(b, v) == [b EXCEPT !.date = v]
dateEnd(b) == put(b, NumElt(Date, fieldName(b), b.date))
regexValue(b) == popString([b EXCEPT !.regex = b.ss])
regexEnd(b) == put(b, [StrElt(RegEx, fieldName(b), CString(b.regex)) EXCEPT !.o = b.regexOptions])

stringToOid(s) == [i \in 1..12 |-> fromHex(s, 2*i - 1)]
SignedChar(x) == IF x > 127 THEN x - 256 ELSE x

fieldNameEnd(st) ==
    LET name == st.b.ss
    IN  IF ~Going(st) THEN st
        ELSE IF name \in Reserved THEN Throw(st) ELSE Do(st, named(popString(st.b), name))

(***************************************************************************)
(* The grammar, lexemes first.                                             *)
(***************************************************************************)
Provided(st, good) == IF ~Going(st) \/ good THEN st ELSE Fail(st)

LexedAs(st, kind, q) ==
    LET r == Chars(Tok(st).v, q, <<>>)
    IN  Provided(Do(Lit(st, kind), [st.b EXCEPT !.ss = r.out]), r.ok)

str(st) == LexedAs(st, "dq", 34)
singleQuoteStr(st) == LexedAs(st, "sq", 39)

\* the longest prefix of such characters
Prefix(s, In(_)) ==
    SubSeq(s, 1, CHOOSE i \in 0..Len(s) : (\A j \in 1..i : In(s[j])) /\ (i = Len(s) \/ ~In(s[i + 1])))

\* '"' >> ( ... )[action] >> '"': the action runs on what matched so far
Between(st, matched, b) == Provided(Do(Lit(st, "dq"), b), matched = Len(Tok(st).v))

quotedOid(st) ==
    LET v == Tok(st).v
    IN  IF Len(Prefix(v, IsHex)) >= 24 THEN Between(st, 24, [st.b EXCEPT !.oid = stringToOid(v)])
        ELSE Fail(Lit(st, "dq"))

\* the characters and their =, a multiple of four of them or an exception
binDataBinary(st) ==
    LET v == Tok(st).v
        a == Prefix(v, In64)
        e == Prefix(SubSeq(v, Len(a) + 1, Len(v)), LAMBDA c : c = 61)
        x == a \o e
    IN  IF Going(st) /\ Tok(st).k = "dq" /\ Len(x) % 4 # 0 THEN Throw(st)
        ELSE Between(st, Len(x), [st.b EXCEPT !.binData = decode(x)])

binDataType(st) ==
    LET v == Tok(st).v
    IN  IF Len(Prefix(v, IsHex)) >= 2
        THEN Between(st, 2, [st.b EXCEPT !.binDataType = SignedChar(fromHex(v, 1))])
        ELSE Fail(Lit(st, "dq"))

regexOptions(st) ==
    LET alpha == Prefix(Tok(st).v, Letter)
    IN  Between(st, Len(alpha), [st.b EXCEPT !.regexOptions = alpha])

unsigned(st) ==
    LET s2 == Take(st, LAMBDA x : x.k = "int" /\ x.v[1] >= 0)
    IN  Do(s2, dateValue(st.b, Tok(st).v[1]))

Key(st, nm) == Lit(Quoted(st, nm), ":")

dbrefS(st) ==
    Lit(quotedOid(Key(Lit(Act(str(Key(Lit(st, "{"), dRef)), dbrefNS), ","), dId)), "}")
dbrefT(st) ==
    Lit(quotedOid(Lit(Act(str(Lit(Word(st, WDbref), "(")), dbrefNS), ",")), ")")
oidS(st) == Lit(quotedOid(Key(Lit(st, "{"), dOid)), "}")
oidT(st) == Lit(quotedOid(Lit(Word(st, WObjectId), "(")), ")")
bindata(st) == Lit(binDataType(Key(Lit(binDataBinary(Key(Lit(st, "{"), dBinary)), ","), dType)), "}")
dateS(st) == Lit(unsigned(Key(Lit(st, "{"), dDate)), "}")
dateT(st) == Lit(unsigned(Lit(Word(Optional(st, Word(st, WNew)), WDate), "(")), ")")
regexS(st) ==
    Lit(regexOptions(Key(Lit(Act(str(Key(Lit(st, "{"), dRegex)), regexValue), ","), dOptions)), "}")
regexT(st) ==
    Act(LexedAs(st, "re", 47), LAMBDA b : [regexValue(b) EXCEPT !.regexOptions = Tok(st).o])

\* The rules that refer to each other go through Rule
RECURSIVE Rule(_, _)

quotedName(st) == fieldNameEnd(str(st))
singleName(st) == fieldNameEnd(singleQuoteStr(st))
unquotedName(st) == Do(Take(st, LAMBDA x : x.k = "word"), named(st.b, Tok(st).v))
anyName(st) == Either(st, quotedName, LAMBDA x : Either(x, singleName, unquotedName))

pair(st) == Rule("value", Lit(anyName(st), ":"))

\* list_p: an item, then as many more as have a delimiter before them
More(st, r, rule) ==
    IF ~Going(st) THEN st ELSE IF r.ok THEN Rule(rule, r) ELSE Back(st, r)

Members(st) == More(st, pair(Lit(st, ",")), "members")
Values(st) == More(st, Rule("value", Act(Lit(st, ","), arrayNext)), "values")

object(st) ==
    LET open == Act(Lit(st, "{"), objectStart)
    IN  Lit(Optional(open, IF Going(open) THEN Rule("members", pair(open)) ELSE open), "}")

array(st) ==
    LET open == Act(Lit(st, "["), arrayStart)
    IN  Lit(Optional(open, IF Going(open) THEN Rule("values", Rule("value", open)) ELSE open), "]")

\* One alternative of value, with its action
Alternative(st, name) ==
    CASE name = "str"     -> Act(str(st), stringEnd)
      [] name = "number"  -> Do(Take(st, LAMBDA x : x.k = "real"), numberValue(st.b, Tok(st)))
      [] name = "integer" -> Do(Take(st, LAMBDA x : x.k = "int"), intValue(st.b, Tok(st).v[1]))
      [] name = "array"   -> Act(array(st), arrayEnd)
      [] name = "true"    -> Act(Word(st, True), trueValue)
      [] name = "false"   -> Act(Word(st, False), falseValue)
      [] name = "null"    -> Act(Word(st, Null), nullValue)
      [] name = "single"  -> Act(singleQuoteStr(st), stringEnd)
      [] name = "date"    -> Act(Either(st, dateS, dateT), dateEnd)
      [] name = "oid"     -> Act(Either(st, oidS, oidT), oidEnd)
      [] name = "bindata" -> Act(bindata(st), binDataEnd)
      [] name = "dbref"   -> Act(Either(st, dbrefS, dbrefT), dbrefEnd)
      [] name = "regex"   -> Act(Either(st, regexS, regexT), regexEnd)
      [] name = "object"  -> Act(object(st), subobjectEnd)

RECURSIVE FirstOf(_, _)
Tried(st, r, rest) == IF r.ok \/ rest = <<>> THEN r ELSE FirstOf(Back(st, r), rest)
FirstOf(st, names) == Tried(st, Alternative(st, Head(names)), Tail(names))

value(st) ==
    IF ~Going(st) THEN st
    ELSE FirstOf(st, <<"str", "number", "integer", "array", "true", "false", "null", "single",
                       "date", "oid", "bindata", "dbref", "regex", "object">>)

Rule(name, st) ==
    CASE name = "value"   -> value(st)
      [] name = "members" -> Members(st)
      [] name = "values"  -> Values(st)

Whole(st) == Provided(st, st.p = Len(st.t) + 1)

\* fromjson without len: everything must match; the last builder is popped,
\* and left says how many then remain although assert( b.empty() )
Result(st) ==
    IF Going(st) THEN [ok |-> TRUE, doc |-> top(st.b).doc, left |-> Len(st.b.stack) - 1]
    ELSE [ok |-> FALSE, doc |-> <<>>, left |-> 0]

fromjson(t, pure) ==
    IF t = <<>> THEN [ok |-> TRUE, doc |-> <<>>, left |-> 0]
    ELSE Result(Whole(object(Start(t, pure))))

-----------------------------------------------------------------------------
NotRead == [ok |-> FALSE, doc |-> <<>>, left |-> 0]

Init ==
    /\ doc = <<>> /\ text = <<>> /\ res = NotRead /\ k = 0
    /\ phase \in {"doc", "typed"} /\ how = "typed"

\* A document to be written: one more element, or the whole one level down
AddField(e) ==
    /\ phase = "doc" /\ k < MaxFields
    /\ doc' = Append(doc, e) /\ k' = k + 1
    /\ UNCHANGED <<text, res, phase, how>>

RECURSIVE Depth(_)
Depth(d) == IF d = <<>> THEN 0
            ELSE LET a == 1 + Depth(Head(d).d)  b == Depth(Tail(d)) IN IF a > b THEN a ELSE b

Wrap(t, nm) ==
    /\ phase = "doc" /\ doc # <<>> /\ Depth(doc) <= MaxNesting
    /\ LET inner == IF t = Array THEN [i \in DOMAIN doc |-> appendAs(doc[i], numStr(i - 1))] ELSE doc
       IN  doc' = <<SubElt(t, nm, inner)>>
    /\ UNCHANGED <<text, res, phase, how, k>>

\* jsonString; it may throw
WriteText(format, pretty) ==
    /\ phase = "doc"
    /\ LET t == jsonString(doc, format, pretty)
       IN  /\ \A i \in DOMAIN t : t[i] # T("thrown")
           /\ text' = t
    /\ phase' = "text" /\ how' = format
    /\ UNCHANGED <<doc, res, k>>

\* More text is typed, as long as the parser looks for it: one that stopped
\* before the end of what there is would refuse any continuation.
Type(phrase) ==
    /\ phase = "typed" /\ k < MaxPhrases
    /\ text # <<>> => object(Start(text, FALSE)).far > Len(text)
    /\ text' = text \o phrase /\ k' = k + 1
    /\ UNCHANGED <<doc, res, phase, how>>

Read ==
    /\ phase \in {"text", "typed"}
    /\ res' = fromjson(text, FALSE)
    /\ phase' = IF phase = "text" THEN "reread" ELSE "read"
    /\ UNCHANGED <<doc, text, how, k>>

Next ==
    \/ \E e \in Elements : AddField(e)
    \/ \E t \in {Object, Array} : Wrap(t, <<97>>)
    \/ \E format \in Formats, pretty \in BOOLEAN : WriteText(format, pretty)
    \/ \E phrase \in Phrases : Type(phrase)
    \/ Read

Spec == Init /\ [][Next]_vars

-----------------------------------------------------------------------------
(***************************************************************************)
(* What the text of a document stands for.  A number loses the type it     *)
(* had: a double that 16 digits show as a whole number becomes an integer, *)
(* another one its nearest double of 16 digits.  A Symbol becomes a        *)
(* String; a Timestamp and the keys are read as the documents they are     *)
(* written as; a regular expression keeps the options g, i, m and, in the  *)
(* Strict format, all.                                                     *)
(***************************************************************************)
RECURSIVE AsRead(_, _)
AsRead(d, format) ==
    LET whole(e) == e.type # NumberDouble \/ (e.o \in {<<>>, Tiny} /\ e.n < Digits16 /\ e.n > -Digits16)
        near(n) == CHOOSE m \in n-5..n+5 : m % 10 = 0 /\ n-m \in -5..4
        num(e) ==
            CASE whole(e) ->
                     NumElt(IF e.n \in (-IntMax - 1)..IntMax THEN NumberInt ELSE NumberLong, e.name, e.n)
              [] ~whole(e) /\ e.o = <<>> -> [e EXCEPT !.n = near(e.n)]
              [] OTHER -> [e EXCEPT !.o = IF e.o = Long THEN Cut ELSE @]
        options(o) == IF format = "Strict" THEN o ELSE SelectSeq(o, LAMBDA c : c \in {103, 105, 109})
        one(e) ==
            CASE isNumber(e)         -> num(e)
              [] e.type = Symbol     -> [e EXCEPT !.type = String]
              [] e.type = RegEx      -> [e EXCEPT !.o = options(@)]
              [] e.type = Timestamp  -> SubElt(Object, e.name, <<NumElt(NumberInt, <<116>>, 0), NumElt(NumberInt, <<105>>, e.n)>>)
              [] e.type \in {MinKey, MaxKey} -> SubElt(Object, e.name, <<NumElt(NumberInt, dMinKey, 1)>>)
              [] isABSONObj(e)       -> [e EXCEPT !.d = AsRead(e.d, format)]
              [] OTHER               -> e
    IN  [i \in DOMAIN d |-> one(d[i])]

(***************************************************************************)
(* The documents whose text is one the grammar takes.  Left out: Undefined *)
(* and code, which are written as nothing or bare; a reserved field name;  *)
(* a BinData subtype above 127, written with eight digits; a DBRef whose   *)
(* name would need escapes; options that are not letters.                  *)
(***************************************************************************)
RECURSIVE HasText(_)
HasText(d) == \A i \in DOMAIN d :
    /\ d[i].type \notin {Undefined, Code, CodeWScope} /\ d[i].name \notin Reserved
    /\ d[i].type = BinData => d[i].n >= 0
    /\ d[i].type = DBRef => escape(d[i].s, FALSE) = d[i].s
    /\ d[i].type = RegEx => \A j \in DOMAIN d[i].o : Letter(d[i].o[j])
    /\ HasText(d[i].d)

\* pretty writes a date as a string, which is not meant to be read
PrettyDate == \E i \in DOMAIN text : text[i] \in {word(WDate), dq(dDate)} /\ text[i+2].k # "int"

(***************************************************************************)
(* A document that has a text, written by jsonString in any format and at  *)
(* any nesting, is read back as the document AsRead describes: apart from  *)
(* the types, digits and options named there nothing is lost, renamed or   *)
(* reordered, and every escape, hexadecimal digit and padding is undone.   *)
(***************************************************************************)
RoundTrip ==
    phase = "reread" /\ HasText(doc) /\ ~PrettyDate => res.ok /\ res.doc = AsRead(doc, how)

(***************************************************************************)
(* A text that is accepted has closed every builder it opened, so          *)
(* assert( b.empty() ) holds.                                              *)
(***************************************************************************)
BuildersClosed == res.ok => res.left = 0

(***************************************************************************)
(* The actions of an alternative that was given up leave no trace in the   *)
(* document: the result is that of a parser that undoes them.              *)
(***************************************************************************)
BacktrackingHarmless == phase \in {"read", "reread"} => res = fromjson(text, TRUE)

(***************************************************************************)
(* The document of an accepted text can be written and read again, in      *)
(* every format, with no more change than AsRead describes; and one more   *)
(* copy, in the same format, changes nothing.                              *)
(***************************************************************************)
Copied(d, format) == fromjson(jsonString(d, format, FALSE), FALSE)

TypedSurvives ==
    phase = "read" /\ res.ok /\ HasText(res.doc) => \A format \in Formats :
        LET copy == Copied(res.doc, format)
        IN  copy.ok /\ copy.doc = AsRead(res.doc, format) /\ Copied(copy.doc, format) = copy

(***************************************************************************)
(* massert 10338, "Invalid use of reserved field name": no document read   *)
(* from text has a field of that name.                                     *)
(***************************************************************************)
RECURSIVE NoReserved(_)
NoReserved(d) == \A i \in DOMAIN d : d[i].name \notin Reserved /\ NoReserved(d[i].d)

NoReservedNames == res.ok => NoReserved(res.doc)

(***************************************************************************)
(* Text and document agree: what is written is read back with the losses   *)
(* of AsRead and no other, and what was read can be copied through text.   *)
(***************************************************************************)
TextIsFaithful == RoundTrip /\ TypedSurvives

(***************************************************************************)
(* The parser's semantic actions leave nothing behind: not from            *)
(* alternatives given up, and no builder open at the end of an accepted    *)
(* text.                                                                   *)
(***************************************************************************)
ActionsLeaveNoTrace == BacktrackingHarmless /\ BuildersClosed
=============================================================================
