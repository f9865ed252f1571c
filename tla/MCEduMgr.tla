------------------------------ MODULE MCEduMgr ------------------------------
(* Three connections; with MaxPool = 3 a lone agent is destroyed when it     *)
(* returns and one of two is pooled.                                       *)
EXTENDS EduMgr

CONSTANTS c1, c2, c3

MCConnections == {c1, c2, c3}
=============================================================================
