----------------------------- MODULE BsonFields -----------------------------
(***************************************************************************)
(* Fields and paths of BSON documents: the lookups, projections and        *)
(* renamings of BSONObj, and the two conversions between a nested document *)
(* and one with dotted names, nested2dotted and dotted2nested.  The latter *)
(* is a state machine: an EmbeddedBuilder keeps a stack of open            *)
(* sub-documents and takes the fields in the order of their names.         *)
(***************************************************************************)
EXTENDS BsonNested, SequencesExt, FiniteSets

CONSTANTS
    Names,       \* the dotted names of the input's fields
    MaxFields    \* bound on their number

Dollar == 36
Id     == <<95, 105, 100>>                   \* "_id"
IdRef  == {<<36, 114, 101, 102>>, <<36, 105, 100>>}   \* "$ref", "$id"

VARIABLES
    flat,      \* the document given to dotted2nested, with dotted names
    todo,      \* the names of the map it is sorted into, still to come
    builders,  \* EmbeddedBuilder::_builders: the open documents, outermost first
    phase      \* "input", "append", "done", or "thrown" by std::string::substr

vars == <<flat, todo, builders, phase>>

-----------------------------------------------------------------------------
(***************************************************************************)
(* Projections and renamings.                                              *)
(***************************************************************************)
Each(doc, f(_)) == FlattenSeq([i \in DOMAIN doc |-> f(doc[i])])   \* one builder pass over doc

extractFieldsUnDotted(doc, pattern) ==
    LET f(p) == LET x == getField(doc, p.name) IN IF eoo(x) THEN <<>> ELSE <<appendAs(x, <<>>)>>
    IN  Each(pattern, f)

extractFields(doc, pattern, fillWithNull) ==
    LET f(p) == LET x == getFieldDotted(doc, p.name) IN
                IF ~eoo(x) THEN <<appendAs(x, p.name)>>
                ELSE IF fillWithNull THEN <<Elt(jstNULL, p.name)>> ELSE <<>>
    IN  Each(pattern, f)

filterFieldsUndotted(doc, filter, inFilter) ==
    SelectSeq(doc, LAMBDA e : eoo(getField(filter, e.name)) # inFilter)

\* A slip: the position counts from one further on.
getFieldUsingIndexNamesOff(doc, fieldName, indexKey) ==
    LET at == {j \in DOMAIN indexKey : indexKey[j].name = fieldName}
        j  == CHOOSE j \in at : \A k \in at : j <= k
    IN  IF at = {} \/ j + 1 \notin DOMAIN doc THEN NoElement ELSE doc[j + 1]

getFieldUsingIndexNames(doc, fieldName, indexKey) ==
    LET at == {j \in DOMAIN indexKey : indexKey[j].name = fieldName}
        j  == CHOOSE j \in at : \A k \in at : j <= k
    IN  IF at = {} \/ j \notin DOMAIN doc THEN NoElement ELSE doc[j]

\* The first fields take the names in turn, those beyond keep their own.
replaceFieldNames(doc, names) ==
    [i \in DOMAIN doc |-> IF i \in DOMAIN names THEN appendAs(doc[i], names[i].name) ELSE doc[i]]

\* BSONObjBuilder::appendKeys asserts that both run out together
appendKeys(keyPattern, values) ==
    [i \in DOMAIN keyPattern |-> appendAs(values[i], keyPattern[i].name)]

\* BSONObjBuilder::appendElementsUnique: the names of x itself are not added
\* to the ones already there
appendElementsUnique(doc, x) ==
    doc \o SelectSeq(x, LAMBDA e : eoo(getField(doc, e.name)))

\* addFields: stops once every wanted field and an _id were seen, and builds
\* nothing when none of the wanted fields was
RECURSIVE wantedFields(_, _, _, _)

\* A slip: the _id is not waited for.
wantedFieldsEarly(from, fields, n, gotId) ==
    IF from = <<>> \/ n = Cardinality(fields) THEN <<>>
    ELSE LET e    == Head(from)
             want == e.name \in fields
             rest == wantedFields(Tail(from), fields, IF want THEN n + 1 ELSE n, TRUE)
         IN  IF want \/ e.name = Id THEN <<e>> \o rest ELSE rest

wantedFields(from, fields, n, gotId) ==
    IF from = <<>> THEN <<>>
    ELSE LET e    == Head(from)
             want == e.name \in fields
             id   == gotId \/ e.name = Id
             m    == IF want THEN n + 1 ELSE n
             rest == IF m = Cardinality(fields) /\ id /\ (want \/ e.name = Id) THEN <<>>
                     ELSE wantedFields(Tail(from), fields, m, id)
         IN  IF want \/ e.name = Id THEN <<e>> \o rest ELSE rest

addFields(from, fields) ==
    LET got == wantedFields(from, fields, 0, FALSE)
    IN  IF \E i \in DOMAIN got : got[i].name \in fields THEN got ELSE <<>>

\* A "$ref" or "$id" ends the walk of its document with true, whatever follows
RECURSIVE okForStorage(_)
okForStorage(doc) ==
    IF doc = <<>> THEN TRUE
    ELSE LET e == Head(doc) IN
         IF Contains(e.name, Dot) \/ Contains(e.name, Dollar) THEN e.name \in IdRef
         ELSE /\ e.type \in {Object, Array, CodeWScope} => okForStorage(e.d)
              /\ okForStorage(Tail(doc))

(***************************************************************************)
(* Paths through arrays.                                                   *)
(***************************************************************************)
IsDigit(c) == c \in 48..57

\* A slip: the test for a position in an array.
AllDigitsNever(nm) == FALSE

AllDigits(nm) == LET p == IF HasDot(nm) THEN Before(nm) ELSE nm
                 IN  p # <<>> /\ \A i \in DOMAIN p : IsDigit(p[i])

\* The elements getFieldsDotted inserts, in turn; an array without a position
\* in the path stands for all its members
RECURSIVE Inserted(_, _)
Inserted(doc, nm) ==
    LET e    == getField(doc, nm)
        f    == getField(doc, Before(nm))
        next == After(nm)
        inner(m) == IF isABSONObj(m) THEN Inserted(m.d, next) ELSE <<>>
    IN  CASE ~eoo(e)   -> IF e.type = Array THEN e.d ELSE <<e>>
          [] eoo(e) /\ ~HasDot(nm) -> <<>>
          [] OTHER ->
               CASE f.type = Object                      -> Inserted(f.d, next)
                 [] f.type = Array /\ AllDigits(next)    -> Inserted(f.d, next)
                 [] f.type = Array /\ ~AllDigits(next)   -> Each(f.d, inner)
                 [] OTHER                                -> <<>>

\* BSONElementCmpWithoutField finds no difference: all but the name, as the
\* documents here hold numbers of one type, objects and arrays only
SameValue(l, r) == appendAs(l, <<>>) = appendAs(r, <<>>)

\* A BSONElementSet keeps the first of the elements equal in value
getFieldsDotted(doc, nm) ==
    LET s == Inserted(doc, nm)
    IN  {s[i] : i \in {k \in DOMAIN s : \A j \in 1..(k-1) : ~SameValue(s[j], s[k])}}

\* getFieldDottedOrArray: the element and what is left of the name
RECURSIVE getFieldDottedOrArray(_, _)
getFieldDottedOrArray(doc, nm) ==
    LET sub  == getField(doc, IF HasDot(nm) THEN Before(nm) ELSE nm)
        left == IF HasDot(nm) THEN After(nm) ELSE <<>>
    IN  CASE eoo(sub)                          -> [e |-> NoElement, left |-> left]
          [] sub.type = Array \/ left = <<>>   -> [e |-> sub, left |-> left]
          [] sub.type = Object                 -> getFieldDottedOrArray(sub.d, left)
          [] OTHER                             -> [e |-> NoElement, left |-> left]

-----------------------------------------------------------------------------
(***************************************************************************)
(* nested2dotted and dotted2nested.                                        *)
(***************************************************************************)
RECURSIVE nested2dotted(_, _)

\* A slip: the name of an inner object replaces the path that led to it.
nested2dottedNoBase(doc, base) ==
    LET f(e) == IF e.type = Object THEN nested2dotted(e.d, e.name \o <<Dot>>)
                ELSE <<appendAs(e, base \o e.name)>>
    IN  Each(doc, f)

nested2dotted(doc, base) ==
    LET f(e) == IF e.type = Object THEN nested2dotted(e.d, base \o e.name \o <<Dot>>)
                ELSE <<appendAs(e, base \o e.name)>>
    IN  Each(doc, f)

\* bson2map: sorted by name, of equal names the last element
FieldNames(doc) == {doc[i].name : i \in DOMAIN doc}
MapValue(doc, nm) == doc[SelectLastInSeq(doc, LAMBDA e : e.name = nm)]

\* A slip: the map's order the other way round.
bson2mapDescending(doc) == SetToSortSeq(FieldNames(doc), LAMBDA l, r : strcmp(l, r) > 0)

bson2map(doc) == SetToSortSeq(FieldNames(doc), LAMBDA l, r : strcmp(l, r) < 0)

\* EmbeddedBuilder::popBuilder, until n builders are left
RECURSIVE PopTo(_, _)
PopTo(bs, n) ==
    IF Len(bs) <= n THEN bs
    ELSE LET top == Last(bs)  m == Len(bs) - 1
         IN  PopTo([SubSeq(bs, 1, m) EXCEPT ![m].doc = Append(@, SubElt(Object, top.name, top.doc))], n)

\* addBuilder for each component splitDot finds; an empty one is dropped and
\* ends the loop
RECURSIVE AddBuilders(_, _)

\* A slip: one component only.
AddBuildersOnce(bs, nm) ==
    IF ~HasDot(nm) THEN [bs |-> bs, nm |-> nm, ok |-> TRUE]
    ELSE [bs |-> Append(bs, [name |-> Before(nm), doc |-> <<>>]), nm |-> After(nm), ok |-> TRUE]

AddBuilders(bs, nm) ==
    CASE ~HasDot(nm)           -> [bs |-> bs, nm |-> nm, ok |-> TRUE]
      [] HasDot(nm) /\ Before(nm) = <<>> -> [bs |-> bs, nm |-> After(nm), ok |-> TRUE]
      [] OTHER -> AddBuilders(Append(bs, [name |-> Before(nm), doc |-> <<>>]), After(nm))

\* A slip: the character after the matching prefix is not looked at.
LeadsIntoPrefix(bs, i, nm) == i <= Len(bs) /\ IsPrefix(bs[i].name, nm)

\* the loop condition of prepareContext: nm goes through the i-th builder
LeadsInto(bs, i, nm) ==
    /\ i <= Len(bs)
    /\ IsPrefix(bs[i].name, nm)
    /\ Len(nm) = Len(bs[i].name) \/ nm[Len(bs[i].name) + 1] = Dot

\* EmbeddedBuilder::prepareContext from the i-th builder on: keep the open
\* documents nm goes through, close the others, open the rest of its path.
\* substr throws when nothing is left of the name
RECURSIVE prepareContext(_, _, _)
prepareContext(bs, i, nm) ==
    LET n == Len(bs[i].name)
    IN  IF ~LeadsInto(bs, i, nm) THEN AddBuilders(PopTo(bs, i - 1), nm)
        ELSE IF Len(nm) <= n THEN [bs |-> bs, nm |-> nm, ok |-> FALSE]
        ELSE prepareContext(bs, i + 1, SubSeq(nm, n + 2, Len(nm)))

-----------------------------------------------------------------------------
Init ==
    /\ flat = <<>> /\ todo = <<>> /\ phase = "input"
    /\ builders = <<[name |-> <<>>, doc |-> <<>>]>>

\* The caller's document: numbers that tell the fields apart, an array with
\* equal members and the empty object.
Values(nm) ==
    {NumElt(NumberInt, nm, Len(flat) + 1), SubElt(Object, nm, <<>>),
     SubElt(Array, nm, <<NumElt(NumberInt, <<48>>, 9), SubElt(Object, <<49>>, <<NumElt(NumberInt, <<98>>, 8)>>),
                         NumElt(NumberInt, <<50>>, 9)>>)}

AddField(nm) ==
    /\ phase = "input" /\ Len(flat) < MaxFields
    /\ \E e \in Values(nm) : flat' = Append(flat, e)
    /\ UNCHANGED <<todo, builders, phase>>

\* dotted2nested: sort the fields
Sort ==
    /\ phase = "input" /\ flat # <<>>
    /\ todo' = bson2map(flat) /\ phase' = "append"
    /\ UNCHANGED <<flat, builders>>

\* EmbeddedBuilder::appendAs of the next field; the empty object only opens
\* its document, for fields that may follow
AppendAs ==
    /\ phase = "append" /\ todo # <<>>
    /\ LET nm    == Head(todo)
           e     == MapValue(flat, nm)
           empty == e.type = Object /\ e.d = <<>>
           ctx   == prepareContext(builders, 2, IF empty THEN nm \o <<Dot, 102>> ELSE nm)
           top   == Len(ctx.bs)
       IN  /\ builders' = IF empty \/ ~ctx.ok THEN ctx.bs
                          ELSE [ctx.bs EXCEPT ![top].doc = Append(@, appendAs(e, ctx.nm))]
           /\ phase' = IF ctx.ok THEN "append" ELSE "thrown"
    /\ todo' = Tail(todo)
    /\ UNCHANGED flat

\* EmbeddedBuilder::done
Done ==
    /\ phase = "append" /\ todo = <<>>
    /\ builders' = PopTo(builders, 1) /\ phase' = "done"
    /\ UNCHANGED <<flat, todo>>

Next == (\E nm \in Names : AddField(nm)) \/ Sort \/ AppendAs \/ Done

Spec == Init /\ [][Next]_vars

-----------------------------------------------------------------------------
out    == builders[1].doc                                   \* dotted2nested's result
sorted == [i \in DOMAIN bson2map(flat) |-> MapValue(flat, bson2map(flat)[i])]

EmptyObject(e)   == e.type = Object /\ e.d = <<>>
PathPrefix(p, q) == IsPrefix(p \o <<Dot>>, q)
EmptyPart(nm)    == \E p \in Prefixes(nm) : p # nm /\ nm[Len(p) + 1] = Dot /\ (p = <<>> \/ Last(p) = Dot)
Splits(p, r)     == strcmp(p, r) < 0 /\ strcmp(r, p \o <<Dot>>) < 0

\* The inputs dotted2nested cannot nest: a path with an empty component, one
\* that leads through another field (unless that is an empty object and no
\* name sorts between the two)
Nestable ==
    /\ \A nm \in FieldNames(flat) : ~EmptyPart(nm) /\ Last(nm) # Dot
    /\ \A p, q \in FieldNames(flat) : PathPrefix(p, q) =>
           EmptyObject(MapValue(flat, p)) /\ ~\E r \in FieldNames(flat) : Splits(p, r)

(***************************************************************************)
(* The names come in ascending order, as prepareContext assumes, so no     *)
(* field is ever the open document itself and substr never throws.         *)
(***************************************************************************)
NeverThrows == phase # "thrown"

(***************************************************************************)
(* dotted2nested loses and confuses nothing: extracting the dotted names   *)
(* from the nested document gives back every field with its value, an      *)
(* absent one as null.                                                     *)
(***************************************************************************)
Absent == <<122, 46, 122>>                                  \* "z.z"

EveryPathLeadsBack ==
    phase = "done" /\ Nestable =>
        LET pattern == Append(sorted, Elt(jstNULL, Absent))
        IN  \A i \in DOMAIN pattern :
                \/ extractFields(out, pattern, TRUE)[i] = pattern[i]
                \/ EmptyObject(pattern[i]) /\ extractFields(out, pattern, TRUE)[i].type = Object

(***************************************************************************)
(* nested2dotted is the inverse of dotted2nested, up to the order of the   *)
(* fields and to empty objects, which leave no field.                      *)
(***************************************************************************)
DottedAgain ==
    phase = "done" /\ Nestable =>
        nested2dotted(out, <<>>) = SelectSeq(sorted, LAMBDA e : ~EmptyObject(e))

(***************************************************************************)
(* No dot is left in the names of the result, which may be stored, even if *)
(* the names cannot be nested.  The exception is a name with an empty      *)
(* component and a dot behind it: splitDot ends there, and the rest of the *)
(* name is stored with its dots.                                           *)
(***************************************************************************)
LeavesDot(nm) ==
    \E i, j \in DOMAIN nm : i < j /\ nm[i] = Dot /\ nm[j] = Dot /\ (i = 1 \/ nm[i-1] = Dot)

NestedIsStorable ==
    phase = "done" /\ (\A nm \in FieldNames(flat) : ~Contains(nm, Dollar) /\ ~LeavesDot(nm)) => okForStorage(out)

(***************************************************************************)
(* The three ways to follow a path that does not end in a dot agree on a   *)
(* document without dots in its names:                                     *)
(* getFieldDottedOrArray stops at an array on the way of getFieldDotted,   *)
(* and what getFieldDotted finds is the element of getFieldsDotted, or     *)
(* these are its members, one of those that are equal in value.            *)
(***************************************************************************)
LookupsAgree ==
    phase = "done" /\ (\A n \in FieldNames(flat) : ~LeavesDot(n)) => \A nm \in {n \in Names : Last(n) # Dot} :
        LET e == getFieldDotted(out, nm)
            x == getFieldDottedOrArray(out, nm)
            E == getFieldsDotted(out, nm)
        IN  /\ ~eoo(x.e) => e = IF x.left = <<>> THEN x.e ELSE getFieldDotted(x.e.d, x.left)
            /\ eoo(x.e) => eoo(e)
            /\ ~eoo(e) /\ e.type # Array => E = {e}
            /\ e.type = Array => /\ E \subseteq ToSet(e.d)
                                 /\ \A m \in ToSet(e.d) : Cardinality({y \in E : SameValue(y, m)}) = 1

(***************************************************************************)
(* An index key made with extractFieldsUnDotted has no names.  The names   *)
(* of the key pattern lead to the values again up to the first field that  *)
(* the document has not: that one is left out of the key, and the values   *)
(* behind it shift to other names.  Only a complete key can be put         *)
(* together with its names by appendKeys, as replaceFieldNames does it.    *)
(***************************************************************************)
Missing(pattern) == {i \in DOMAIN pattern : eoo(getField(flat, pattern[i].name))}

IndexKeyRoundTrip ==
    phase = "input" =>
        \A k \in 0..Len(flat) :
          LET present == Reverse(SubSeq(flat, k + 1, Len(flat)))
              withGap(j) == InsertAt(present, j, Elt(jstNULL, Absent))
          IN  \A pattern \in {present} \cup {withGap(j) : j \in 1..(Len(present) + 1)} :
                LET key   == extractFieldsUnDotted(flat, pattern)
                    named == replaceFieldNames(key, pattern)
                IN  /\ Len(key) = Len(pattern) <=> Missing(pattern) = {}
                    /\ Missing(pattern) = {} => appendKeys(pattern, key) = named
                    /\ \A i \in DOMAIN pattern :
                          LET nm == pattern[i].name IN
                          (\A m \in Missing(pattern) : i < m) =>
                              /\ appendAs(getFieldUsingIndexNames(key, nm, pattern), nm) = getField(flat, nm)
                              /\ getField(named, nm) = getField(flat, nm)

(***************************************************************************)
(* Projections keep what they should and its order: the two halves of      *)
(* filterFieldsUndotted are disjoint and complete, appending only the      *)
(* elements whose names are new changes no lookup, and addFields brings    *)
(* the wanted fields and the _id, provided that one of the wanted is there *)
(* (otherwise the code drops the _id too, whatever its comment says).      *)
(***************************************************************************)
DistinctNames == Cardinality(FieldNames(flat)) = Len(flat)

ProjectionsPartition ==
    phase = "input" =>
        \A k \in 0..Len(flat) :
            LET a == SubSeq(flat, 1, k)  b == SubSeq(flat, k + 1, Len(flat))
            IN  /\ \A i \in DOMAIN flat : Contains(filterFieldsUndotted(flat, a, TRUE), flat[i])
                                        # Contains(filterFieldsUndotted(flat, a, FALSE), flat[i])
                /\ Len(filterFieldsUndotted(flat, a, TRUE)) + Len(filterFieldsUndotted(flat, a, FALSE)) = Len(flat)
                /\ \A nm \in Names : getField(appendElementsUnique(a, b), nm) = getField(flat, nm)
                /\ \A wanted \in {FieldNames(a), FieldNames(a) \cup {Absent}} :
                      DistinctNames /\ wanted \cap FieldNames(flat) # {} =>
                          addFields(flat, wanted) = SelectSeq(flat, LAMBDA e : e.name \in wanted \cup {Id})

(***************************************************************************)
(* Nesting dotted names: EmbeddedBuilder never throws on the order that    *)
(* bson2map gives; of names that can be nested each leads to its value and *)
(* can be made again; and the result may be stored, with the exception of  *)
(* LeavesDot.                                                              *)
(***************************************************************************)
NestingIsFaithful == NeverThrows /\ EveryPathLeadsBack /\ DottedAgain /\ NestedIsStorable

(***************************************************************************)
(* What is taken out of a document by name, as a projection or as an index *)
(* key up to its first missing field, is found again under its own name.   *)
(***************************************************************************)
PartsKeepNames == IndexKeyRoundTrip /\ ProjectionsPartition
=============================================================================
