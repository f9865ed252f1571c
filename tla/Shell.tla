------------------------------- MODULE Shell -------------------------------
(***************************************************************************)
(* The shell edb: it connects, then reads a line, splits it, looks up the  *)
(* command and executes it, for ever.  How a document becomes a message    *)
(* and what comes back is in Json and Wire.                                *)
(*                                                                         *)
(* The names of the commands are one letter long: i(nsert), d(elete),      *)
(* q(uery), c(onnect), upper case too.                                     *)
(***************************************************************************)
EXTENDS Integers, SequencesExt

CONSTANTS
    CMD_BUFFER_SIZE,
    Chars,         \* the values of a char
    Inputs,        \* what may be on standard input
    Tails          \* what may follow an unterminated _cmdBuffer in memory

VARIABLES
    shell,     \* "start", "prompt", "read", "dispatch", "exited"
    stdin,     \* the characters not read yet
    line,      \* standard input when the last line was begun
    buf,       \* the characters of _cmdBuffer, and whether it is terminated
    code,      \* the return code of _readInput
    sock,      \* the port _socket is connected to, or "none"
    last       \* what the last line led to: command, arguments, outcome

shellVars == <<shell, stdin, line, buf, code, sock, last>>

SPACE      == " "
TAB        == "\t"
BACK_SLANT == "\\"
NEW_LINE   == "\n"
EOF        == "EOF"        \* (char)-1, again and again

ASSUME ShellAssumption ==
    CMD_BUFFER_SIZE \in Nat /\ {SPACE, EOF} \subseteq Chars /\ Inputs \subseteq Seq(Chars)

port       == "48127"      \* what connect of edb.cpp dials

-----------------------------------------------------------------------------
getchar(in) == IF in = <<>> THEN EOF ELSE Head(in)
advance(in) == IF in = <<>> THEN in ELSE Tail(in)

\* A slip: the delimiter stays at the front of the option.
CutKeeps(text, x, i) ==
    [command |-> IF x.first THEN SubSeq(text, 1, i - 1) ELSE x.command,
     args    |-> IF x.first THEN x.args ELSE Append(x.args, SubSeq(text, x.start + 1, i - 1)),
     first   |-> FALSE, start |-> i - 1]

\* The loop of _split at a delimiter: the command ends at the first one
Cut(text, x, i) ==
    [command |-> IF x.first THEN SubSeq(text, 1, i - 1) ELSE x.command,
     args    |-> IF x.first THEN x.args ELSE Append(x.args, SubSeq(text, x.start + 1, i - 1)),
     first   |-> FALSE, start |-> i]

\* _split: without a delimiter there is no command, and the whole text is an
\* option
_split(text) ==
    LET none == [command |-> <<>>, args |-> <<>>, first |-> TRUE, start |-> 0]
        loop[i \in 0..Len(text)] ==
            IF i = 0 THEN none
            ELSE IF text[i] = SPACE THEN Cut(text, loop[i-1], i) ELSE loop[i-1]
        end  == loop[Len(text)]
    IN  [command |-> end.command,
         args    |-> Append(end.args, SubSeq(text, end.start + 1, Len(text)))]

\* CommandFactory: the map addCommand fills, and _lowercase
_lowercase(c) == CASE c = "I" -> "i" [] c = "D" -> "d" [] c = "Q" -> "q" [] c = "C" -> "c" [] OTHER -> c
_cmdMap       == {<<"i">>, <<"c">>, <<"d">>, <<"q">>}

getCommandProcessor(command) ==
    LET low == [i \in DOMAIN command |-> _lowercase(command[i])]
    IN  IF low \in _cmdMap THEN low[1] ELSE "NULL"

-----------------------------------------------------------------------------
Nothing == [command |-> "NULL", args |-> <<>>, rc |-> ""]

InitShell ==
    /\ shell = "start" /\ stdin \in Inputs /\ line = <<>>
    /\ buf = [text |-> <<>>, open |-> FALSE] /\ code = "EDB_OK"
    /\ sock = "none" /\ last = Nothing

\* ConnectCommand behind its check of the arguments; up is the set of ports
\* somebody listens on.  The socket, the connection and, with the connection
\* already made, the two addresses may each fail for reasons of their own.
Connects(p, up) ==
    {[rc |-> "EDB_SOCKET_INIT_FAILED", sock |-> "none"], [rc |-> "EDB_SOCKET_CONNECT_FAILED", sock |-> "none"]}
    \cup [rc : {"EDB_OK", "EDB_SOCKET_CONNECT_FAILED"}, sock : {p} \cap up]

\* main with autoConnect: the shell ends when it is not connected
AutoConnect(up) ==
    /\ shell = "start"
    /\ \E c \in Connects(port, up) :
         shell' = (IF c.rc = "EDB_OK" THEN "prompt" ELSE "exited") /\ sock' = c.sock
    /\ UNCHANGED <<stdin, line, buf, code, last>>

\* prompt, and _readInput up to its loop: the buffer is cleared
ReadLine ==
    /\ shell = "prompt" /\ shell' = "read"
    /\ buf' = [text |-> <<>>, open |-> FALSE] /\ line' = stdin
    /\ UNCHANGED <<stdin, code, sock, last>>

Full == Len(buf.text) >= CMD_BUFFER_SIZE

\* The loop of _readInput ends; prompt does not look at what it returns
Stop(rc, in) == shell' = "dispatch" /\ code' = rc /\ stdin' = in

\* A newline ends the line; so does any character that finds the buffer
\* full, and then there is no terminating zero
EndOfLine ==
    /\ shell = "read" /\ (getchar(stdin) = NEW_LINE \/ Full)
    /\ Stop(IF Full THEN "EDB_ARGUMENT_TOO_LONG" ELSE "EDB_OK", advance(stdin))
    /\ buf' = [buf EXCEPT !.open = Full]
    /\ UNCHANGED <<line, sock, last>>

\* A slip: the character after a backslash is looked at, not read.
BackSlantPeek ==
    /\ shell = "read" /\ ~Full /\ getchar(stdin) = BACK_SLANT
    /\ IF getchar(advance(stdin)) = NEW_LINE
       THEN stdin' = advance(advance(stdin)) /\ UNCHANGED <<shell, code>>
       ELSE Stop("EDB_INVALID_COMMAND", advance(stdin))
    /\ UNCHANGED <<line, buf, sock, last>>

\* A backslash: the line goes on behind a newline, or is refused
BackSlant ==
    /\ shell = "read" /\ ~Full /\ getchar(stdin) = BACK_SLANT
    /\ IF getchar(advance(stdin)) = NEW_LINE
       THEN stdin' = advance(advance(stdin)) /\ UNCHANGED <<shell, code>>
       ELSE Stop("EDB_INVALID_COMMAND", advance(advance(stdin)))
    /\ UNCHANGED <<line, buf, sock, last>>

\* Any other character is stored, EOF too
StoreChar ==
    /\ shell = "read" /\ ~Full /\ getchar(stdin) \notin {NEW_LINE, BACK_SLANT}
    /\ LET c == getchar(stdin)
       IN  buf' = [buf EXCEPT !.text = Append(@, IF c = TAB THEN SPACE ELSE c)]
    /\ stdin' = advance(stdin)
    /\ UNCHANGED <<shell, line, code, sock, last>>

\* One character of _readInput
_readInput == EndOfLine \/ BackSlant \/ StoreChar

\* prompt, second half: the string ends where memory has a zero
Dispatch(up) ==
    /\ shell = "dispatch" /\ shell' = "prompt"
    /\ \E tail \in (IF buf.open THEN Tails ELSE {<<>>}) :
         LET s   == _split(buf.text \o tail)
             p   == getCommandProcessor(s.command)
             n   == Len(s.args)
             done(rc) == last' = [command |-> p, args |-> s.args, rc |-> rc]
         IN  \/ /\ p = "NULL"
                /\ done("EDB_INVALID_COMMAND")
                /\ UNCHANGED sock
             \/ /\ p \in {"i", "d", "q"} /\ n # 1
                /\ done(IF p = "i" THEN "EDB_INSERT_INVALID_ARGUMENT" ELSE "EDB_DELETE_INVALID_ARGUMENT")
                /\ UNCHANGED sock
             \/ /\ p \in {"i", "d", "q"} /\ n = 1
                /\ done(IF sock = "none" THEN "EDB_SOCKET_NOT_CONNECT" ELSE "sent")
                /\ UNCHANGED sock
             \/ /\ p = "c" /\ n # 2
                /\ done("EDB_CONNECT_INVALID_ARGUMENT")
                /\ UNCHANGED sock
             \/ /\ p = "c" /\ n = 2
                /\ \E c \in Connects(IF s.args[2] = <<"p">> THEN port ELSE "other", up) :
                     sock' = c.sock /\ done(c.rc)
    /\ UNCHANGED <<stdin, line, buf, code>>

NextShell(up) == AutoConnect(up) \/ ReadLine \/ _readInput \/ Dispatch(up)

-----------------------------------------------------------------------------
\* Where a line ends: at a newline without a backslash before it, or at a
\* backslash without a newline after it
Stops(in) ==
    {i \in DOMAIN in : \/ in[i] = NEW_LINE /\ (i = 1 \/ in[i-1] # BACK_SLANT)
                       \/ in[i] = BACK_SLANT /\ (i = Len(in) \/ in[i+1] # NEW_LINE)}
StopOf(in) == CHOOSE i \in Stops(in) : \A j \in Stops(in) : i <= j

\* The characters of the line, and the one that a backslash takes with it
Used(in) == StopOf(in) + (IF in[StopOf(in)] = BACK_SLANT THEN 1 ELSE 0)

\* The line as typed: the continuations joined, tabs as spaces
Meaning(c)   == IF c \in {BACK_SLANT, NEW_LINE} THEN <<>> ELSE IF c = TAB THEN <<SPACE>> ELSE <<c>>
Typed(in, k) == FlattenSeq([i \in 1..k |-> Meaning(in[i])])
LineOf(in)   == Typed(in, StopOf(in) - 1)

\* The arguments of a line, each behind its space
Spaced(args) == FlattenSeq([i \in DOMAIN args |-> <<SPACE>> \o args[i]])

(***************************************************************************)
(* As long as the buffer holds it, a line reaches its command as it was    *)
(* typed up to its end: the name and the arguments put together again are  *)
(* the line, pieces of two lines are never joined, and what is left on     *)
(* standard input begins right behind it.  This includes the line that     *)
(* _readInput refuses at a stray backslash: it is executed up to there.    *)
(***************************************************************************)
LineReachesCommand ==
    shell = "prompt" /\ ~buf.open /\ last.command # "NULL" =>
        LET typed == LineOf(line)
        IN  /\ Tail(typed) = Spaced(last.args)
            /\ _lowercase(typed[1]) = last.command
            /\ stdin = SubSeq(line, Used(line) + 1, Len(line))
=============================================================================
