---------------------------- MODULE MCBsonFields ----------------------------
(***************************************************************************)
(* Names for BsonFields over 'a', 'b', '-' (which sorts before the dot),   *)
(* the digit 1 and the dot, with empty components in front, in the middle  *)
(* and at the end, a '$' and the _id.                                      *)
(***************************************************************************)
EXTENDS BsonFields

MCNames ==
    {<<97>>, <<97, 46, 97>>, <<97, 46, 98>>, <<97, 46, 98, 46, 97>>, <<97, 45>>, <<97, 97, 46, 98>>,
     <<97, 46, 49, 46, 98>>, <<97, 46, 46, 98>>, <<97, 46, 46, 98, 46, 97>>, <<46, 97, 46, 98>>, <<97, 46>>,
     <<36>>, Id}
=============================================================================
