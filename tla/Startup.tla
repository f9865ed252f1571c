------------------------------ MODULE Startup ------------------------------
(***************************************************************************)
(* The server process from main to its end: the options, the control       *)
(* block EDB_KRCB, the listener thread, and the signal handler that ends   *)
(* it.  The units the listener starts are in EduMgr, the data file in Rtn  *)
(* and below.                                                              *)
(*                                                                         *)
(* The value of an option is where it came from: the command line, the     *)
(* configuration file, the built-in default, or nowhere ("").              *)
(***************************************************************************)
EXTENDS Integers

CONSTANTS
    CmdLines,     \* the sets of options a command line may give
    Files,        \* the sets of options a configuration file may give
    Retry,        \* PMD_TCPLISTENER_RETRY
    MaxFrames     \* nested handlers until the stack is exhausted

Options == {"confpath", "logpath", "dbpath", "svcname", "maxpool"}
Kept    == Options \ {"confpath"}                     \* those EDB_KRCB has
SVCNAME == "48127"                                    \* the default of svcname
Threads == {"main", "listener"}

ASSUME StartupAssumption ==
    /\ CmdLines \subseteq SUBSET Options /\ Files \subseteq SUBSET Options
    /\ Retry \in Nat /\ MaxFrames \in Nat \ {0}

VARIABLES
    proc,      \* "running", "exited", "killed"
    rc,        \* what main returns
    main,      \* where main is
    cmd, file, \* vm and vm2: the options given
    opt,       \* the fields of pmdOptions
    krcb,      \* the fields of EDB_KRCB that come from them
    status,    \* its _dbStatus
    lst,       \* the listener: "none", "init", "listening", "ended"
    retry,     \* how often it has opened its socket
    frames     \* thread -> how many signal handlers are on its stack

serverVars == <<proc, rc, main, cmd, file, opt, krcb, status, lst, retry, frames>>

Down    == status \in {"SHUTDOWN", "PANIC"}           \* EDB_IS_DB_DOWN
Runs(t) == proc = "running" /\ frames[t] = 0          \* t executes its own code

-----------------------------------------------------------------------------
\* A slip: an option that has a value keeps it.
importVMKeeps(o, vm, origin, isDefault) ==
    [x \in Options |->
        IF o[x] # "" /\ o[x] # "default" THEN o[x]
        ELSE IF x \in vm THEN origin ELSE IF isDefault THEN "default" ELSE o[x]]

\* A slip: an option that was not given stays as it is.
importVMNoDefault(o, vm, origin, isDefault) ==
    [x \in Options |-> IF x \in vm THEN origin ELSE o[x]]

importVM(o, vm, origin, isDefault) ==
    [x \in Options |-> IF x \in vm THEN origin ELSE IF isDefault THEN "default" ELSE o[x]]

InitServer ==
    /\ proc = "running" /\ rc = "EDB_OK" /\ main = "cmd"     \* the handlers are set up
    /\ cmd = {} /\ file = {}
    /\ opt = [x \in Options |-> IF x = "maxpool" THEN "default" ELSE ""]
    /\ krcb = [x \in Kept |-> ""] /\ status = "NORMAL"
    /\ lst = "none" /\ retry = 0 /\ frames = [t \in Threads |-> 0]

\* main returns: the process exits with all its threads
Return(code) == proc' = "exited" /\ rc' = code

\* readCmd: values of the wrong type are refused, unknown options are not
readCmd ==
    /\ Runs("main") /\ main = "cmd"
    /\ cmd' \in CmdLines
    /\ \/ main' = "conf" /\ UNCHANGED <<proc, rc>>
       \/ Return("EDB_INVALIDARG") /\ UNCHANGED main
       \/ Return("EDB_PMD_HELP_ONLY") /\ UNCHANGED main
    /\ UNCHANGED <<file, opt, krcb, status, lst, retry, frames>>

\* readConfigureFile, if the command line names a file
readConfigureFile ==
    /\ Runs("main") /\ main = "conf"
    /\ \/ /\ "confpath" \in cmd
          /\ file' \in Files
          /\ main' = "importFile" /\ UNCHANGED <<proc, rc>>
       \/ /\ "confpath" \in cmd
          /\ \E code \in {"EDB_IO", "EDB_INVALIDARG"} : Return(code)
          /\ UNCHANGED <<main, file>>
       \/ /\ "confpath" \notin cmd
          /\ main' = "importFile" /\ UNCHANGED <<proc, rc, file>>
    /\ UNCHANGED <<cmd, opt, krcb, status, lst, retry, frames>>

\* init imports the file's options, then the command line's, both with the
\* default argument isDefault = true
ImportOptions ==
    /\ Runs("main")
    /\ \/ main = "importFile" /\ main' = "importCmd" /\ opt' = importVM(opt, file, "file", TRUE)
       \/ main = "importCmd" /\ main' = "krcb" /\ opt' = importVM(opt, cmd, "cmd", TRUE)
    /\ UNCHANGED <<proc, rc, cmd, file, krcb, status, lst, retry, frames>>

\* EDB_KRCB::init; the run-time layer may fail to open the data file
KrcbInit ==
    /\ Runs("main") /\ main = "krcb"
    /\ status' = "NORMAL" /\ krcb' = [x \in Kept |-> opt[x]]
    /\ \/ main' = "start" /\ UNCHANGED <<proc, rc>>
       \/ Return("EDB_IO") /\ UNCHANGED main
    /\ UNCHANGED <<cmd, file, opt, lst, retry, frames>>

\* startEDU for the listener
StartListener ==
    /\ Runs("main") /\ main = "start"
    /\ \/ main' = "loop" /\ lst' = "init" /\ UNCHANGED <<proc, rc>>
       \/ Return("EDB_SYS") /\ UNCHANGED <<main, lst>>
    /\ UNCHANGED <<cmd, file, opt, krcb, status, retry, frames>>

\* while (EDB_IS_DB_UP) sleep(1)
MainLoopEnds ==
    /\ Runs("main") /\ main = "loop" /\ Down
    /\ Return("EDB_OK")
    /\ UNCHANGED <<main, cmd, file, opt, krcb, status, lst, retry, frames>>

-----------------------------------------------------------------------------
(***************************************************************************)
(* pmdTcpListenerEntryPoint: one round of the outer loop opens the socket; *)
(* a failed accept starts another, a failed socket ends the listener.      *)
(***************************************************************************)
ListenerRound ==
    /\ Runs("listener") /\ lst = "init"
    /\ IF retry <= Retry /\ ~Down
       THEN retry' = retry + 1 /\ lst' \in {"listening", "ended"}
       ELSE lst' = "ended" /\ UNCHANGED retry
    /\ UNCHANGED <<proc, rc, main, cmd, file, opt, krcb, status, frames>>

ListenerLoopEnds ==
    /\ Runs("listener") /\ lst = "listening"
    /\ lst' = IF Down THEN "ended" ELSE "init"
    /\ UNCHANGED <<proc, rc, main, cmd, file, opt, krcb, status, retry, frames>>

(***************************************************************************)
(* A signal of signalHandleMap with handle 1 reaches some thread:          *)
(* EDB_SHUTDOWN_DB marks the database and calls abort(), which raises      *)
(* SIGABRT, itself handled in the same way.  The handler never returns:    *)
(* the thread goes down its stack until the kernel ends the process, while *)
(* the others go on.                                                       *)
(***************************************************************************)
Exists(t) == t = "main" \/ lst \in {"init", "listening"}

\* A slip: the handler only marks the database and returns.
pmdSignalHandlerMarks(t) ==
    /\ Runs(t) /\ Exists(t)
    /\ status' = "SHUTDOWN"
    /\ UNCHANGED <<proc, rc, main, cmd, file, opt, krcb, lst, retry, frames>>

pmdSignalHandler(t) ==
    /\ Runs(t) /\ Exists(t)
    /\ status' = "SHUTDOWN" /\ frames' = [frames EXCEPT ![t] = 1]
    /\ UNCHANGED <<proc, rc, main, cmd, file, opt, krcb, lst, retry>>

Abort(t) ==
    /\ proc = "running" /\ frames[t] > 0
    /\ IF frames[t] < MaxFrames
       THEN status' = "SHUTDOWN" /\ frames' = [frames EXCEPT ![t] = @ + 1] /\ UNCHANGED proc
       ELSE proc' = "killed" /\ UNCHANGED <<status, frames>>
    /\ UNCHANGED <<rc, main, cmd, file, opt, krcb, lst, retry>>

MainStep     == readCmd \/ readConfigureFile \/ ImportOptions \/ KrcbInit \/ StartListener \/ MainLoopEnds
ListenerStep == ListenerRound \/ ListenerLoopEnds

NextServer ==
    \/ MainStep \/ ListenerStep
    \/ \E t \in Threads : pmdSignalHandler(t) \/ Abort(t)

\* The threads are scheduled; accept need not fail.
FairServer ==
    /\ WF_serverVars(MainStep) /\ WF_serverVars(ListenerRound)
    /\ \A t \in Threads : WF_serverVars(Abort(t))

-----------------------------------------------------------------------------
(***************************************************************************)
(* What the command line gives is in effect once the server is up,         *)
(* whatever the configuration file says.                                   *)
(***************************************************************************)
CommandLineWins ==
    main = "loop" => \A x \in cmd \cap Kept : krcb[x] = "cmd"

\* The inductive invariant behind it: what the fields of pmdOptions and of
\* EDB_KRCB hold at each place of main, and when there is a listener.
OptionsTracked ==
    LET Imported(x) == IF x \in cmd THEN "cmd" ELSE "default"
    IN  /\ main \in {"cmd", "conf", "importFile", "importCmd", "krcb", "start", "loop"}
        /\ main = "krcb" => \A x \in Options : opt[x] = Imported(x)
        /\ main \in {"start", "loop"} => \A x \in Kept : krcb[x] = Imported(x)
        /\ lst # "none" => main = "loop"

(***************************************************************************)
(* After a handled signal the process ends, whichever thread it reached    *)
(* and however far main has come: the shutdown is not forgotten, not even  *)
(* when the signal comes before EDB_KRCB::init sets the status to normal.  *)
(***************************************************************************)
HandledSignalEnds == (status = "SHUTDOWN") ~> (proc # "running")
=============================================================================
