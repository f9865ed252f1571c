---------------------------- MODULE BsonNested ----------------------------
(***************************************************************************)
(* What follows sub-documents to any depth: sizes, and lookups by a name   *)
(* with dots.  The sub-document d of an element is a sequence of elements. *)
(***************************************************************************)
EXTENDS BsonTypes

(***************************************************************************)
(* Sizes in bytes, as BSONElement::size and BSONObj::objsize give them for *)
(* well-formed data.                                                       *)
(***************************************************************************)
RECURSIVE objsize(_), valuesize(_)

valuesize(e) ==
    CASE e.type \in Keys                                     -> 0
      [] e.type = Bool                                       -> 1
      [] e.type = NumberInt                                  -> 4
      [] e.type \in {Timestamp, Date, NumberDouble, NumberLong} -> 8
      [] e.type = jstOID                                     -> 12
      [] e.type \in Textual                                  -> Len(e.s) + 1 + 4
      [] e.type = DBRef                                      -> Len(e.s) + 1 + 4 + 12
      [] e.type = CodeWScope                                 -> 4 + 4 + Len(e.s) + 1 + objsize(e.d)
      [] e.type \in {Object, Array}                          -> objsize(e.d)
      [] e.type = BinData                                    -> Len(e.s) + 4 + 1
      [] e.type = RegEx                                      -> Len(e.s) + 1 + Len(e.o) + 1

objsize(doc) ==
    IF doc = <<>> THEN 5
    ELSE objsize(Tail(doc)) + 1 + Len(Head(doc).name) + 1 + valuesize(Head(doc))

(***************************************************************************)
(* A name with dots that is no field itself leads into the sub-document of *)
(* its first component.                                                    *)
(***************************************************************************)
Dot == 46

HasDot(nm)  == \E i \in DOMAIN nm : nm[i] = Dot
DotAt(nm)   == CHOOSE i \in DOMAIN nm : nm[i] = Dot /\ \A j \in 1..(i-1) : nm[j] # Dot
Before(nm)  == SubSeq(nm, 1, DotAt(nm) - 1)
After(nm)   == SubSeq(nm, DotAt(nm) + 1, Len(nm))

RECURSIVE getFieldDotted(_, _)
getFieldDotted(doc, nm) ==
    LET e   == getField(doc, nm)
        sub == getObjectField(doc, Before(nm))
    IN  IF ~eoo(e) \/ ~HasDot(nm) THEN e
        ELSE IF sub = <<>> THEN NoElement ELSE getFieldDotted(sub, After(nm))
=============================================================================
