-------------------------------- MODULE Wire --------------------------------
(***************************************************************************)
(* The messages between the shell (src/client/command.cpp) and an agent    *)
(* (src/pmd/pmdAgent.cpp, pmdCommand.cpp) over a stream socket             *)
(* (src/oss/ossSocket.cpp): how they are built, cut and read               *)
(* (src/msg/msg.cpp), and what the shell reports to its user.              *)
(*                                                                         *)
(* A stream is a sequence of 4-byte words; lengths are in bytes, as in the *)
(* messages.  Documents are rounded to words.  The run-time layer is one   *)
(* step on a map (KVStore).                                                *)
(***************************************************************************)
EXTENDS Integers, Sequences

CONSTANTS
    Ids,         \* _id values
    NoId,        \* the first element of the document is not _id
    ShellWords,  \* sizes, in words, of the documents the shell can send
    KeyWords,    \* size of a key document
    Stored,      \* documents in the data file at the start
    RecvBuf,     \* RECV_BUF_SIZE of the client, in bytes
    AgentPage,   \* EDB_PAGE_SIZE = PMD_AGENT_RECV_BUFFER_SZ, in bytes
    Cuts,        \* bound: how many words ::send may leave to its next call
    MaxCommands, \* bound: commands of the user
    MaxConns     \* bound: connections the shell opens

ASSUME BoundsAssumption == MaxCommands \in Nat /\ MaxConns \in Nat \ {0}
ASSUME CutsAssumption == Cuts \subseteq Nat /\ 0 \in Cuts
ASSUME NoIdAssumption == NoId \notin Ids
ASSUME StoredAssumption ==
    /\ Stored \subseteq [id : Ids, words : Nat \ {0}]
    /\ \A d, e \in Stored : d.id = e.id => d = e
ASSUME WordsAssumption == ShellWords \subseteq Nat \ {0} /\ KeyWords \in Nat \ {0}
ASSUME BuffersAssumption == RecvBuf \in Nat /\ RecvBuf >= 4 /\ AgentPage \in Nat \ {0}

Word == 4                    \* sizeof(int)
EmptyWords == 2              \* BSONObj(), 5 bytes
NoDoc == [id |-> NoId, words |-> 0]
EmptyDoc == [id |-> NoId, words |-> EmptyWords]
KeyOf(i) == [id |-> i, words |-> KeyWords]
ShellDocs == [id : Ids \cup {NoId}, words : ShellWords]

EDB_OK == 0
EDB_INVALIDARG == -2
EDB_SYS == -5
EDB_IXM_ID_EXIST == -14
EDB_NO_ID == -17
EDB_INVALID_RECORD == -201
EDB_RECV_DATA_LENGTH_ERROR == -202
EDB_SOCKET_NOT_CONNECT == -301
EDB_SOCKET_CONNECT_FAILED == -303
EDB_SOCKET_SEND_FAILED == -305
EDB_INTERNAL_ERROR == -401

OP_NONE == 0                 \* no message
OP_REPLY == 1
OP_INSERT == 2
OP_DELETE == 3
OP_QUERY == 4

ReplyBytes == 4 * Word       \* sizeof(MsgReply)

(***************************************************************************)
(* A word: its value as an int, the document it is the k-th word of, and,  *)
(* seen by no program, the command its message belongs to.  Inside a       *)
(* document the first word is its size; the others hold types, names and   *)
(* values, and as an int exceed every buffer ("\x10_id" is 0x64695f10).    *)
(***************************************************************************)
Content == 1684627216
HeaderWord(v, n) == [int |-> v, doc |-> NoDoc, k |-> 0, of |-> n]
DocWords(d, n) ==
    [k \in 1 .. d.words |->
       [int |-> IF k = 1 THEN Word * d.words ELSE Content, doc |-> d, k |-> k, of |-> n]]

\* The document that starts at word p of a buffer.
DocAt(buf, p) ==
    IF /\ p <= Len(buf)
       /\ buf[p].k = 1
       /\ p + buf[p].doc.words - 1 <= Len(buf)
       /\ \A k \in 1 .. buf[p].doc.words :
             buf[p + k - 1].doc = buf[p].doc /\ buf[p + k - 1].k = k
    THEN buf[p].doc ELSE NoDoc

\* msgBuildInsert, msgBuildDelete, msgBuildQuery.
Request(n, op, d) ==
    LET head == IF op = OP_INSERT THEN 3 ELSE 2
    IN [i \in 1 .. head |->
          HeaderWord(IF i = 1 THEN Word * (head + d.words) ELSE IF i = 2 THEN op ELSE 1, n)]
       \o DocWords(d, n)

\* msgBuildReply; a query is answered with a document, if only an empty one.
Reply(n, op, code, d) ==
    LET body == IF op = OP_QUERY THEN DocWords(d, n) ELSE <<>>
    IN <<HeaderWord(ReplyBytes + Word * Len(body), n), HeaderWord(OP_REPLY, n),
         HeaderWord(code, n), HeaderWord(IF op = OP_QUERY THEN 1 ELSE 0, n)>> \o body

Conns == 1 .. MaxConns
Commands == 1 .. MaxCommands
NoConn == 0

VARIABLES
    store,       \* the document stored under each _id
    up, down,    \* words in flight to the agent, to the client
    alive,       \* per connection: which ends are open
    conn,        \* the connection of the shell
    cpc, csend, cbuf,     \* the shell: place, words left to send, _recvBuf
    result,      \* what the shell reported last
    apc, areq, asend,     \* each agent: place, words received, left to send
    recvSize, resultSize, \* recvBufferSize, resultBufferSize
    opened,      \* history: connections opened so far
    issued,      \* history: the commands of the user
    handled,     \* history: what the agents did, in order
    skewed,      \* history: a reply was left in the stream
    cut,         \* history: the words a failing send kept from each connection
    gaveUp       \* history: the commands that ended without the server's answer

client == <<conn, cpc, csend, cbuf, result, opened, issued, cut, gaveUp>>
agent == <<apc, areq, asend, recvSize, resultSize>>
vars == <<store, up, down, alive, client, agent, handled, skewed>>

Closed == {}
Ends == {"client", "agent"}

NoResult == [n |-> 0, code |-> EDB_OK, doc |-> NoDoc, server |-> FALSE]

Init ==
    /\ store = [i \in Ids |-> IF \E d \in Stored : d.id = i
                              THEN CHOOSE d \in Stored : d.id = i ELSE NoDoc]
    /\ up = [c \in Conns |-> <<>>]
    /\ down = [c \in Conns |-> <<>>]
    /\ alive = [c \in Conns |-> IF c = 1 THEN Ends ELSE Closed]
    /\ conn = 1
    /\ cpc = "prompt" /\ csend = <<>> /\ cbuf = <<>>
    /\ result = NoResult
    /\ apc = [c \in Conns |-> IF c = 1 THEN "length" ELSE "none"]
    /\ areq = [c \in Conns |-> <<>>]
    /\ asend = [c \in Conns |-> <<>>]
    /\ recvSize = [c \in Conns |-> AgentPage]
    /\ resultSize = [c \in Conns |-> ReplyBytes]
    /\ opened = 1
    /\ issued = <<>>
    /\ handled = <<>>
    /\ skewed = FALSE
    /\ cut = [c \in Conns |-> <<>>]
    /\ gaveUp = {}

Drop(s, k) == SubSeq(s, k + 1, Len(s))
Take(s, k) == SubSeq(s, 1, k)

\* How many words of s one ::send may take.
Chunks(s) == {k \in 1 .. Len(s) : Len(s) - k \in Cuts}
-----------------------------------------------------------------------------
(* The shell: one command at a time, ICommand::sendMsg and recvReply.      *)

Current == Len(issued)

\* The command ends and its code is shown; "server" when it came in a reply.
Report(n, code, d, server) ==
    /\ result' = [n |-> n, code |-> code, doc |-> d, server |-> server]
    /\ cpc' = "prompt"
    /\ csend' = <<>>
    /\ cbuf' = <<>>
    /\ gaveUp' = IF server THEN gaveUp ELSE gaveUp \cup {n}

\* isConnected sends nothing: it succeeds on an open connection, and also
\* when the agent's end is closed, until the client's system learns of it.
\* A fault of the network may break the connection at any time: the client's
\* end is closed, while the agent, which need not learn of it, goes on with
\* the words that reached it.  (That words in flight are lost too changes
\* nothing else: the agent may end before it reads them.)
Connected == conn # NoConn /\ "client" \in alive[conn]
MaybeLost == Connected => "agent" \notin alive[conn]

\* The connection the shell leaves, or that is broken.
Leave(c) == IF c = NoConn THEN alive ELSE [alive EXCEPT ![c] = @ \ {"client"}]

\* insert, delete or query: the request is built in _sendBuf.
Issue(op, d) ==
    /\ cpc = "prompt"
    /\ Current < MaxCommands
    /\ Connected
    /\ issued' = Append(issued, [op |-> op, doc |-> d])
    /\ csend' = Request(Current + 1, op, d)
    /\ cpc' = "send"
    /\ result' = NoResult
    /\ UNCHANGED <<store, up, down, alive, conn, cbuf, opened, agent, handled, skewed,
                   cut, gaveUp>>

\* The document is not JSON, or there is no connection (any more): nothing is
\* sent.
IssueFails ==
    /\ cpc = "prompt"
    /\ Current < MaxCommands
    /\ issued' = Append(issued, [op |-> OP_NONE, doc |-> NoDoc])
    /\ \/ /\ Connected
          /\ Report(Current + 1, EDB_INVALID_RECORD, NoDoc, FALSE)
          /\ UNCHANGED alive
       \/ /\ Report(Current + 1, EDB_SOCKET_NOT_CONNECT, NoDoc, FALSE)
          /\ alive' = Leave(conn)
    /\ UNCHANGED <<store, up, down, conn, opened, agent, handled, skewed, cut>>

\* A slip: the timeout applies to every chunk.
UnsentOrNot == csend # <<>>

\* send asks for readiness only before the first word.
Unsent == csend = Request(Current, issued[Current].op, issued[Current].doc)

\* It was not ready within OSS_SOCKET_DFT_TIMEOUT: nothing was sent.
SendTimesOut ==
    /\ cpc = "send"
    /\ Unsent
    /\ Report(Current, EDB_SOCKET_SEND_FAILED, NoDoc, FALSE)
    /\ UNCHANGED <<store, up, down, alive, conn, opened, issued, agent, handled, skewed, cut>>

\* ::send takes some words, which are lost if the agent's end is closed; after
\* the last one the reply is awaited.
SendSome ==
    /\ cpc = "send"
    /\ \E k \in Chunks(csend) :
          /\ up' = IF "agent" \in alive[conn]
                   THEN [up EXCEPT ![conn] = @ \o Take(csend, k)] ELSE up
          /\ csend' = Drop(csend, k)
          /\ cpc' = IF k = Len(csend) THEN "length" ELSE "send"
    /\ UNCHANGED <<store, down, alive, conn, cbuf, result, opened, issued, agent, handled,
                   skewed, cut, gaveUp>>

\* ::send fails, at the first word or between two chunks: the agent's end is
\* closed, or the connection is broken.
SendFails ==
    /\ cpc = "send"
    /\ Report(Current, EDB_SOCKET_SEND_FAILED, NoDoc, FALSE)
    /\ alive' = Leave(conn)
    /\ cut' = [cut EXCEPT ![conn] = csend]
    /\ UNCHANGED <<store, up, down, conn, opened, issued, agent, handled, skewed>>

\* A slip: the shell gives up when no reply comes in time.
AwaitTimesOut ==
    /\ cpc \in {"length", "body"}
    /\ down[conn] = <<>>
    /\ Report(Current, EDB_INTERNAL_ERROR, NoDoc, FALSE)
    /\ UNCHANGED <<store, up, down, alive, conn, opened, issued, agent, handled, skewed, cut>>

\* recv times out before the first word of what it waits for: it is asked
\* again for the same.
Await ==
    /\ cpc \in {"length", "body"}
    /\ down[conn] = <<>>
    /\ UNCHANGED vars

\* The first word is the length; a reply that does not fit is left where it is.
ReadLength ==
    /\ cpc = "length"
    /\ down[conn] # <<>>
    /\ down' = [down EXCEPT ![conn] = Tail(@)]
    /\ IF Head(down[conn]).int > RecvBuf
       THEN /\ Report(Current, EDB_RECV_DATA_LENGTH_ERROR, NoDoc, FALSE)
            /\ skewed' = TRUE
       ELSE /\ cbuf' = <<Head(down[conn])>>
            /\ cpc' = "body"
            /\ UNCHANGED <<csend, result, skewed, gaveUp>>
    /\ UNCHANGED <<store, up, alive, conn, opened, issued, agent, handled, cut>>

\* A slip: the length is taken to be that of the body.
BodyBytesAll(length) == length
BodyBytes(length) == length - Word

\* How many words recv takes for the body; asked for less than nothing it
\* takes none, but waits until there is something to take.
BodyWords(length) == IF BodyBytes(length) > 0 THEN BodyBytes(length) \div Word ELSE 0
Readable(s, length) ==
    /\ BodyWords(length) <= Len(s)
    /\ BodyBytes(length) # 0 => s # <<>>

\* handleReply: the code is the third word of _recvBuf, which was zeroed; a
\* query shows the document after the fourth.
ReadBody ==
    /\ cpc = "body"
    /\ Readable(down[conn], cbuf[1].int)
    /\ LET k == BodyWords(cbuf[1].int)
           buf == cbuf \o Take(down[conn], k)
           code == IF Len(buf) >= 3 THEN buf[3].int ELSE EDB_OK
           shown == IF issued[Current].op = OP_QUERY /\ code = EDB_OK
                    THEN DocAt(buf, 5) ELSE NoDoc
       IN /\ down' = [down EXCEPT ![conn] = Drop(@, k)]
          /\ Report(Current, code, shown, TRUE)
    /\ UNCHANGED <<store, up, alive, conn, opened, issued, agent, handled, skewed, cut>>

\* recvReply starts with isConnected, which fails once the system has learnt
\* that the agent closed its end or that the connection is broken.
ReplyUnreachable ==
    /\ cpc = "length"
    /\ Report(Current, EDB_SOCKET_NOT_CONNECT, NoDoc, FALSE)
    /\ alive' = Leave(conn)
    /\ UNCHANGED <<store, up, down, conn, opened, issued, agent, handled, skewed, cut>>

\* recv has taken what there was and meets the end of the stream, or ::recv
\* fails because the connection is broken.
ReceiveFails ==
    /\ cpc \in {"length", "body"}
    /\ \/ /\ "agent" \notin alive[conn]
          /\ IF cpc = "length" THEN down[conn] = <<>> ELSE ~Readable(down[conn], cbuf[1].int)
          /\ UNCHANGED alive
       \/ alive' = Leave(conn)
    /\ down' = [down EXCEPT ![conn] = <<>>]
    /\ Report(Current, EDB_INTERNAL_ERROR, NoDoc, FALSE)
    /\ UNCHANGED <<store, up, conn, opened, issued, agent, handled, skewed, cut>>

\* connect closes the socket and opens another; the listener gives it an agent.
Connect ==
    /\ cpc = "prompt"
    /\ opened < MaxConns
    /\ opened' = opened + 1
    /\ conn' = opened + 1
    /\ alive' = [Leave(conn) EXCEPT ![opened + 1] = Ends]
    /\ apc' = [apc EXCEPT ![opened + 1] = "length"]
    /\ result' = NoResult
    /\ UNCHANGED <<store, up, down, cpc, csend, cbuf, issued, areq, asend, recvSize,
                   resultSize, handled, skewed, cut, gaveUp>>

ConnectFails ==
    /\ cpc = "prompt"
    /\ conn # NoConn
    /\ conn' = NoConn
    /\ alive' = Leave(conn)
    /\ result' = [n |-> 0, code |-> EDB_SOCKET_CONNECT_FAILED, doc |-> NoDoc, server |-> FALSE]
    /\ UNCHANGED <<store, up, down, cpc, csend, cbuf, opened, issued, agent, handled, skewed,
                   cut, gaveUp>>
-----------------------------------------------------------------------------
(* The agent of a connection: pmdAgentEntryPoint.                          *)

\* A slip: the byte for the final '\0' is forgotten.
TooSmallExact(size, length) == size < length
TooSmall(size, length) == size < length + 1

RoundUp(x) == ((x + AgentPage - 1) \div AgentPage) * AgentPage

\* The length is received; the buffer grows in whole pages.
AgentLength(c) ==
    /\ apc[c] = "length"
    /\ up[c] # <<>>
    /\ Head(up[c]).int >= Word
    /\ areq' = [areq EXCEPT ![c] = <<Head(up[c])>>]
    /\ up' = [up EXCEPT ![c] = Tail(@)]
    /\ recvSize' = [recvSize EXCEPT ![c] =
                      IF TooSmall(@, Head(up[c]).int) THEN RoundUp(Head(up[c]).int + 1) ELSE @]
    /\ apc' = [apc EXCEPT ![c] = "body"]
    /\ UNCHANGED <<store, down, alive, client, asend, resultSize, handled, skewed>>

AgentBody(c) ==
    LET k == BodyWords(areq[c][1].int)
    IN /\ apc[c] = "body"
       /\ Readable(up[c], areq[c][1].int)
       /\ areq' = [areq EXCEPT ![c] = @ \o Take(up[c], k)]
       /\ up' = [up EXCEPT ![c] = Drop(@, k)]
       /\ apc' = [apc EXCEPT ![c] = "handle"]
       /\ UNCHANGED <<store, down, alive, client, asend, recvSize, resultSize, handled, skewed>>

\* pmdInsertCommand, pmdDeleteCommand, pmdQueryCommand: the code, the document
\* found, and the store after it.
Outcome(op, d) ==
    CASE op = OP_INSERT /\ d.id = NoId -> [code |-> EDB_NO_ID, doc |-> EmptyDoc, store |-> store]
      [] op = OP_INSERT /\ d.id # NoId ->
           IF store[d.id] # NoDoc
           THEN [code |-> EDB_IXM_ID_EXIST, doc |-> EmptyDoc, store |-> store]
           ELSE [code |-> EDB_OK, doc |-> EmptyDoc, store |-> [store EXCEPT ![d.id] = d]]
      [] op # OP_INSERT ->
           IF store[d.id] = NoDoc
           THEN [code |-> EDB_INVALIDARG, doc |-> EmptyDoc, store |-> store]
           ELSE IF op = OP_QUERY
                THEN [code |-> EDB_OK, doc |-> store[d.id], store |-> store]
                ELSE [code |-> EDB_OK, doc |-> EmptyDoc, store |-> [store EXCEPT ![d.id] = NoDoc]]

\* The file refuses an insert.
Refusal == [code |-> EDB_SYS, doc |-> EmptyDoc, store |-> store]

\* msgCheckBuffer.
ResultFor(length) == IF length > ReplyBytes THEN length ELSE ReplyBytes

\* pmdProcessAgentRequest: the handler of the opcode, then the reply.  The
\* result buffer starts small for every request and grows with the reply.
Handle(c) ==
    LET n == areq[c][1].of
        op == areq[c][2].int
        d == DocAt(areq[c], IF op = OP_INSERT THEN 4 ELSE 3)
    IN /\ apc[c] = "handle"
       /\ \E o \in {Outcome(op, d)} \cup (IF op = OP_INSERT THEN {Refusal} ELSE {}) :
             LET reply == Reply(n, op, o.code, o.doc)
             IN /\ store' = o.store
                /\ asend' = [asend EXCEPT ![c] = reply]
                /\ resultSize' = [resultSize EXCEPT ![c] = ResultFor(reply[1].int)]
                /\ handled' = Append(handled,
                                [n |-> n, conn |-> c, op |-> op, doc |-> d, code |-> o.code,
                                 found |-> IF op = OP_QUERY /\ o.code = EDB_OK THEN o.doc ELSE NoDoc])
       /\ apc' = [apc EXCEPT ![c] = "send"]
       /\ UNCHANGED <<up, down, alive, client, areq, recvSize, skewed>>

\* The reply goes out; to a client that left it is lost.
AgentSend(c) ==
    /\ apc[c] = "send"
    /\ \E k \in Chunks(asend[c]) :
          /\ down' = IF "client" \in alive[c]
                     THEN [down EXCEPT ![c] = @ \o Take(asend[c], k)] ELSE down
          /\ asend' = [asend EXCEPT ![c] = Drop(@, k)]
          /\ apc' = [apc EXCEPT ![c] = IF k = Len(asend[c]) THEN "length" ELSE "send"]
          /\ areq' = [areq EXCEPT ![c] = IF k = Len(asend[c]) THEN <<>> ELSE @]
    /\ UNCHANGED <<store, up, alive, client, recvSize, resultSize, handled, skewed>>

\* The client is gone, the length is impossible, memory ran out, or the unit is
\* in no queue: the agent frees its buffers and closes its end; what it has
\* not read is lost.
AgentEnds(c) ==
    /\ apc[c] \notin {"none", "end"}
    /\ apc' = [apc EXCEPT ![c] = "end"]
    /\ alive' = [alive EXCEPT ![c] = @ \ {"agent"}]
    /\ up' = [up EXCEPT ![c] = <<>>]
    /\ areq' = [areq EXCEPT ![c] = <<>>]
    /\ asend' = [asend EXCEPT ![c] = <<>>]
    /\ recvSize' = [recvSize EXCEPT ![c] = 0]
    /\ resultSize' = [resultSize EXCEPT ![c] = 0]
    /\ UNCHANGED <<store, down, client, handled, skewed>>

ClientFails == SendFails \/ ReplyUnreachable \/ ReceiveFails
ClientStep == SendSome \/ ReadLength \/ ReadBody \/ ClientFails
AgentStep(c) == AgentLength(c) \/ AgentBody(c) \/ Handle(c) \/ AgentSend(c)

Next ==
    \/ \E d \in ShellDocs : Issue(OP_INSERT, d)
    \/ \E i \in Ids, op \in {OP_DELETE, OP_QUERY} : Issue(op, KeyOf(i))
    \/ IssueFails
    \/ ClientStep \/ SendTimesOut \/ Await \/ Connect \/ ConnectFails
    \/ \E c \in Conns : AgentStep(c) \/ AgentEnds(c)

Spec == Init /\ [][Next]_vars

\* The system runs the shell and the agents, and tells the shell in the end
\* that its agent has closed; nothing makes a sound connection break.
ClientProgress == SendSome \/ ReadLength \/ ReadBody \/ (MaybeLost /\ ClientFails)
FairSpec == Spec /\ WF_vars(ClientProgress) /\ \A c \in Conns : WF_vars(AgentStep(c))
-----------------------------------------------------------------------------
Codes == {EDB_OK, EDB_INVALIDARG, EDB_SYS, EDB_IXM_ID_EXIST, EDB_NO_ID, EDB_INVALID_RECORD,
          EDB_RECV_DATA_LENGTH_ERROR, EDB_SOCKET_NOT_CONNECT, EDB_SOCKET_CONNECT_FAILED,
          EDB_SOCKET_SEND_FAILED, EDB_INTERNAL_ERROR}

TypeOK ==
    /\ store \in [Ids -> Stored \cup ShellDocs \cup {NoDoc}]
    /\ alive \in [Conns -> SUBSET Ends]
    /\ conn \in Conns \cup {NoConn}
    /\ cpc \in {"prompt", "send", "length", "body"}
    /\ cpc # "prompt" => conn # NoConn /\ Current > 0
    /\ result.code \in Codes
    /\ apc \in [Conns -> {"none", "length", "body", "handle", "send", "end"}]
    /\ opened \in Conns
    /\ Len(issued) <= MaxCommands
    /\ skewed \in BOOLEAN

\* What the shell reports as the server's answer to a command is what the
\* server answered to that command, code and document, unless a reply was
\* too long for the shell before: through chunks, timeouts, failed sends,
\* agents that end and new connections.
AnswersOwnRequest ==
    result.server /\ ~skewed =>
        \E i \in 1 .. Len(handled) :
            /\ handled[i].n = result.n
            /\ handled[i].code = result.code
            /\ handled[i].found = result.doc

\* Every request an agent handles is one command of the user, whole and as it
\* was issued, at most once, and in the order of issue on its connection, even
\* when the shell has lost track of the replies.
HandledAsIssued ==
    /\ \A i \in 1 .. Len(handled) :
          /\ handled[i].n \in 1 .. Current
          /\ handled[i].op = issued[handled[i].n].op
          /\ handled[i].doc = issued[handled[i].n].doc
    /\ \A i, j \in 1 .. Len(handled) :
          i < j => /\ handled[i].n # handled[j].n
                   /\ handled[i].conn = handled[j].conn => handled[i].n < handled[j].n

\* The commands of a user take effect in the order he gave them, over all his
\* connections, as long as no reply was too long.  Only a command the shell
\* has reported as failed may be acted on late, after later commands, by the
\* agent of an abandoned connection; one whose answer was shown never is.
ExecutedInOrder ==
    ~skewed => \A i, j \in 1 .. Len(handled) :
        i < j => handled[i].n < handled[j].n \/ handled[j].n \in gaveUp

\* No message exceeds the buffer it is put into: the agent's request with its
\* final '\0', its reply, and the reply in the shell.
BuffersHold ==
    /\ \A c \in Conns :
          /\ apc[c] \in {"body", "handle"} => areq[c][1].int + 1 <= recvSize[c]
          /\ Word * Len(asend[c]) <= resultSize[c]
    /\ cpc = "body" => Word * (1 + BodyWords(cbuf[1].int)) <= RecvBuf

\* A command always ends, if the shell has not lost track of the replies.
CommandsReturn == cpc # "prompt" ~> cpc = "prompt" \/ skewed
-----------------------------------------------------------------------------
(* The inductive invariant behind these properties.  The words on their    *)
(* way to an agent that lives are whole requests; while no reply was left  *)
(* in the stream, at most one request and its reply are on their way.      *)

Documents == [id : Ids \cup {NoId}, words : Nat \ {0}]
Words == [int : Int, doc : Documents \cup {NoDoc}, k : Nat, of : Nat]
Messages == {OP_INSERT, OP_DELETE, OP_QUERY}

\* The request of command n of a list of commands.
RequestOf(list, n) == Request(n, list[n].op, list[n].doc)

\* A word that begins a message: every other word of a header is an opcode, a
\* code or a number of documents.
Begins(w) == w.k = 0 /\ w.int > OP_QUERY

\* The words for the agent of c, from its buffer to _sendBuf, or to those that
\* a broken connection kept from it; what goes to an agent that ended is lost.
Live(c) == "agent" \in alive[c]
Unsents(c) == IF c = conn /\ "client" \in alive[c] THEN csend ELSE cut[c]
Stream(c) == IF Live(c) THEN (areq[c] \o up[c]) \o Unsents(c) ELSE <<>>

\* The words of replies on their way to the shell.
Kept(c) == IF c = conn THEN cbuf ELSE <<>>
Back(c) == (Kept(c) \o down[c]) \o asend[c]

PlaceTypes ==
    /\ alive \in [Conns -> SUBSET Ends]
    /\ opened \in Conns /\ conn \in {NoConn, opened}
    /\ cpc \in {"prompt", "send", "length", "body"}
    /\ apc \in [Conns -> {"none", "length", "body", "handle", "send", "end"}]

BufferTypes ==
    /\ csend \in Seq(Words) /\ cbuf \in Seq(Words) /\ cut \in [Conns -> Seq(Words)]
    /\ up \in [Conns -> Seq(Words)] /\ down \in [Conns -> Seq(Words)]
    /\ areq \in [Conns -> Seq(Words)] /\ asend \in [Conns -> Seq(Words)]
    /\ recvSize \in [Conns -> Nat] /\ resultSize \in [Conns -> Nat]

IssuedTypes ==
    /\ issued \in Seq([op : Messages \cup {OP_NONE}, doc : Documents \cup {NoDoc}])
    /\ \A n \in 1 .. Current : issued[n].op \in Messages =>
          issued[n].doc \in Documents /\ (issued[n].op # OP_INSERT => issued[n].doc.id \in Ids)

HandledTypes ==
    /\ store \in [Ids -> Documents \cup {NoDoc}]
    /\ handled \in Seq([n : Nat, conn : Conns, op : Messages, doc : Documents, code : Int,
                         found : Documents \cup {NoDoc}])
    /\ skewed \in BOOLEAN

WireTypes == PlaceTypes /\ BufferTypes /\ IssuedTypes /\ HandledTypes

\* What the place of the shell says about its buffers.
ShellPlaces ==
    /\ cpc # "prompt" => Connected /\ Current > 0 /\ issued[Current].op \in Messages
    /\ cpc = "send" => csend # <<>>
    /\ cpc # "send" => csend = <<>>
    /\ cpc = "body" => Len(cbuf) = 1 /\ cbuf[1].int <= RecvBuf
    /\ cpc # "body" => cbuf = <<>>
    /\ \A c \in Conns : "client" \in alive[c] \/ c > opened => cut[c] = <<>>

\* What the place of an agent says about its buffers.
AgentPlaces ==
    \A c \in Conns :
        /\ Live(c) <=> apc[c] \notin {"none", "end"}
        /\ c > opened => apc[c] = "none" /\ down[c] = <<>>
        /\ ~Live(c) => up[c] = <<>>
        /\ apc[c] \in {"none", "length", "end"} => areq[c] = <<>>
        /\ apc[c] = "body" => Len(areq[c]) = 1
        /\ apc[c] \in {"handle", "send"} =>
              areq[c] # <<>> /\ Len(areq[c]) = Len(RequestOf(issued, areq[c][1].of))
        /\ apc[c] # "send" => asend[c] = <<>>
        /\ apc[c] = "send" => asend[c] # <<>>
        /\ apc[c] \in {"body", "handle"} => areq[c][1].int + 1 <= recvSize[c]
        /\ Word * Len(asend[c]) <= resultSize[c]

\* The request of command n is at position p of s, and what follows it is
\* another one.
RequestAt(list, s, p, n) ==
    /\ n \in 1 .. Len(list) /\ list[n].op \in Messages
    /\ p + Len(RequestOf(list, n)) - 1 <= Len(s)
    /\ \A j \in 1 .. Len(RequestOf(list, n)) : s[p + j - 1] = RequestOf(list, n)[j]
    /\ p + Len(RequestOf(list, n)) <= Len(s) => Begins(s[p + Len(RequestOf(list, n))])

\* s is a sequence of whole requests, in the order of issue.
WholeRequests(list, s) ==
    /\ s # <<>> => Begins(s[1])
    /\ \A p \in 1 .. Len(s) : Begins(s[p]) => RequestAt(list, s, p, s[p].of)
    /\ \A p, q \in 1 .. Len(s) : p < q /\ Begins(s[p]) /\ Begins(s[q]) => s[p].of < s[q].of

StreamsWhole == \A c \in Conns : WholeRequests(issued, Stream(c))

\* The commands whose requests wait in the stream of c: the first is being
\* answered while the agent sends.
BegunFrom(s, first) == {s[p].of : p \in {p \in first .. Len(s) : Begins(s[p])}}
Waiting(c) == BegunFrom(Stream(c), IF apc[c] = "send" THEN 2 ELSE 1)

\* Commands are numbered in the order of their connections, and each
\* connection handles its own in order.
Order ==
    /\ \A c, d \in Conns : c < d => \A m \in Waiting(c), n \in Waiting(d) : m < n
    /\ \A i \in 1 .. Len(handled), c \in Conns : \A n \in Waiting(c) :
          IF handled[i].conn <= c THEN handled[i].n < n ELSE n < handled[i].n
    /\ \A i, j \in 1 .. Len(handled) :
          /\ handled[i].conn < handled[j].conn => handled[i].n < handled[j].n
          /\ i < j /\ handled[i].conn = handled[j].conn => handled[i].n < handled[j].n

HandledMatch ==
    \A i \in 1 .. Len(handled) :
        /\ handled[i].n \in 1 .. Current
        /\ handled[i].conn <= opened
        /\ handled[i].op = issued[handled[i].n].op
        /\ handled[i].doc = issued[handled[i].n].doc
        /\ handled[i].found = NoDoc <=> ~(handled[i].op = OP_QUERY /\ handled[i].code = EDB_OK)

\* The reply to a request that was handled.
ReplyOf(h) == Reply(h.n, h.op, h.code, IF h.found = NoDoc THEN EmptyDoc ELSE h.found)

Prefix(s, r) == Len(s) <= Len(r) /\ \A j \in 1 .. Len(s) : s[j] = r[j]

\* The current request is on its way, and no reply is.
Asked(c) ==
    /\ Back(c) = <<>>
    /\ Live(c) => apc[c] # "send" /\ Stream(c) = RequestOf(issued, Current)

\* The current request was the i-th to be handled, and its reply is on its way;
\* an agent that ended may have left it unfinished.
Answered(c, i) ==
    /\ handled[i].n = Current
    /\ Prefix(Back(c), ReplyOf(handled[i]))
    /\ Live(c) => /\ Len(Back(c)) = Len(ReplyOf(handled[i]))
                  /\ Stream(c) = areq[c] /\ apc[c] \in {"length", "send"}

\* A request that waits on c: the current one, or one the shell gave up.
Pending(c, n) == n \in gaveUp \/ (c = conn /\ n = Current /\ cpc # "prompt")

\* Shell and agents take turns.
TurnOf(c) ==
    /\ \A n \in Waiting(c) : Pending(c, n)
    /\ c = conn /\ cpc = "prompt" /\ "client" \in alive[c] => Stream(c) = <<>> /\ Back(c) = <<>>
    /\ c = conn /\ cpc = "send" => Asked(c)
    /\ c = conn /\ cpc \in {"length", "body"} =>
          Asked(c) \/ \E i \in 1 .. Len(handled) : Answered(c, i)

\* They do while no reply was left in the stream.
InTurn == ~skewed => (\A c \in Conns : TurnOf(c)) /\ ExecutedInOrder /\ AnswersOwnRequest

WireInvariant ==
    /\ WireTypes /\ ShellPlaces /\ AgentPlaces
    /\ StreamsWhole /\ HandledMatch /\ Order /\ InTurn
-----------------------------------------------------------------------------
(* What the documentation and the comments say, and the code does not do.  *)

\* "first read the length of the data" (client/command.cpp), "Every message
\* begins with a msg header. It begins with a msglen" (README): the shell
\* reads a reply from its beginning, so that an insert it reports as done was
\* done.
InsertReportedIsDone ==
    result.server /\ result.code = EDB_OK /\ issued[result.n].op = OP_INSERT =>
        \E i \in 1 .. Len(handled) : handled[i].n = result.n /\ handled[i].code = EDB_OK
=============================================================================
