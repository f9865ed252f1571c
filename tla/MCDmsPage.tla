----------------------------- MODULE MCDmsPage -----------------------------
(* A page for two document sizes, small enough that three records fill it. *)
EXTENDS DmsPage, TLC

CONSTANTS small, large

MCRecords == {small, large}
MCSize == (small :> 3) @@ (large :> 5)
=============================================================================
