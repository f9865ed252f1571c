------------------------------- MODULE MCWire -------------------------------
(* One shell and one _id.  The document in the file, if there is one, is   *)
(* too long for the reply buffer of the shell; the one the shell inserts   *)
(* makes a request of exactly one buffer page.                             *)
EXTENDS Wire

CONSTANT i1

MCStored == {[id |-> i1, words |-> 6]}
=============================================================================
