------------------------------- MODULE MCRtn -------------------------------
(* Two agents; each inserts its own _id, or both insert the same one.      *)
EXTENDS Rtn, TLC

CONSTANTS i1, i2, v1, v2, t1, t2

MCThreads == {t1, t2}
MCIds == {i1, i2}
MCValues == {v1, v2}
OwnIds == (t1 :> {i1}) @@ (t2 :> {i2})
SharedIds == (t1 :> {i1}) @@ (t2 :> {i1})
OneWriter == (t1 :> {i1, i2}) @@ (t2 :> {})
ValueSymmetry == Permutations(MCValues)
=============================================================================
