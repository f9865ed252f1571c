------------------------------ MODULE Session ------------------------------
(***************************************************************************)
(* A server and a shell started beside it: the shell can reach the server  *)
(* only while the listener has its socket open on the port it dials.       *)
(***************************************************************************)
EXTENDS Startup, Shell

vars == <<serverVars, shellVars>>

\* The port of an open socket: the default, or the other one that was given
ListeningOn ==
    IF proc = "running" /\ lst = "listening"
    THEN {IF krcb["svcname"] = "default" THEN SVCNAME ELSE "other"} ELSE {}

ServerStep == NextServer /\ UNCHANGED shellVars
ShellStep  == NextShell(ListeningOn) /\ UNCHANGED serverVars

Init == InitServer /\ InitShell
Next == ServerStep \/ ShellStep

\* Only the server's threads need run.
Spec == Init /\ [][Next]_vars /\ FairServer

(***************************************************************************)
(* A listening server is on the port a shell dials unless the command line *)
(* gives it a service name, and then it is not: the second import resets   *)
(* what only the configuration file gives, so a service name of the file   *)
(* never moves the server away from edb's port.                            *)
(***************************************************************************)
DefaultsMeet ==
    proc = "running" /\ lst = "listening" =>
        (port \in ListeningOn <=> "svcname" \notin cmd)
=============================================================================
