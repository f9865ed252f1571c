------------------------------- MODULE EduMgr -------------------------------
(***************************************************************************)
(* The engine dispatchable units: pmdEDUMgr (src/pmd/pmdEDUMgr.cpp), the    *)
(* thread of a unit (src/pmd/pmdEDU.cpp), the listener                     *)
(* (src/pmd/pmdTcpListener.cpp) and the agent's request loop               *)
(* (src/pmd/pmdAgent.cpp).                                                 *)
(*                                                                         *)
(* Every critical section of _mutex is one step.  The listener is unit 1,  *)
(* started by main; Init is the state in which it waits for connections.   *)
(* Nothing quiesces or forces units while the server runs: the process     *)
(* ends by abort().                                                        *)
(***************************************************************************)
EXTENDS Naturals, Sequences, FiniteSets

CONSTANTS
    Connections, \* connections that clients open
    MaxUnits,    \* bound: units ever created, the listener included
    MaxPool,     \* EDB_KRCB::_maxPool
    Retries,     \* PMD_TCPLISTENER_RETRY
    None

ASSUME UnitsAssumption == MaxUnits \in Nat \ {0}
ASSUME PoolAssumption == MaxPool \in Nat
ASSUME RetriesAssumption == Retries \in Nat
ASSUME NoneAssumption == None \notin Connections

Units == 1 .. MaxUnits
Listener == 1
NoUnit == 0     \* an iterator at end(), or no unit

VARIABLES
    runQueue, idleQueue,  \* pmdEDUMgr::_runQueue, _idleQueue
    nextId,     \* pmdEDUMgr::_EDUID
    latch,      \* pmdEDUMgr::_mutex: free, or kept by the listener
    cb,         \* is the control block of a unit allocated or freed?
    status,     \* pmdEDUCB::_status
    events,     \* pmdEDUCB::_queue: the sockets of the RESUME events
    tpc, sock,  \* thread of each unit: where it is, and its socket
    lpc, lconn, lit, ltarget, retry,  \* the listener in startEDU
    conn,       \* where each connection is
    late,       \* history: units whose thread gave up waiting for an event
    pooled      \* history: units that _deactiveEDU put into the pool

queues == <<runQueue, idleQueue, nextId>>
listener == <<lpc, lconn, lit, ltarget, retry>>
history == <<late, pooled>>
vars == <<queues, latch, cb, status, events, tpc, sock, listener, conn, history>>

\* A live thread is at one of these places.
Inside == {"resumed", "recv", "process"}     \* it has a socket
Live == Inside \cup {"begin", "wait", "leave", "return", "destroy", "deactivate", "listen"}

\* The thread of u is at one of these places; once the process has run into
\* undefined behaviour it is not followed further.
At(u, places) == lpc # "wild" /\ tpc[u] \in places

Init ==
    /\ runQueue = {Listener}
    /\ idleQueue = {}
    /\ nextId = Listener + 1
    /\ latch = "free"
    /\ cb = [u \in Units |-> IF u = Listener THEN "alive" ELSE "none"]
    /\ status = [u \in Units |-> IF u = Listener THEN "running" ELSE "creating"]
    /\ events = [u \in Units |-> <<>>]
    /\ tpc = [u \in Units |-> IF u = Listener THEN "listen" ELSE "none"]
    /\ sock = [u \in Units |-> None]
    /\ lpc = "accept" /\ lconn = None /\ lit = NoUnit /\ ltarget = NoUnit
    /\ retry = 1
    /\ conn = [c \in Connections |-> "connecting"]
    /\ late = {} /\ pooled = {}

\* A critical section of thread u.  glibc answers EDEADLK to the thread that
\* already holds the lock; the code does not look at the answer, goes on, and
\* its release gives the lock back.
Critical(u) == (latch = "free" \/ u = Listener) /\ latch' = "free"

\* waitEDU: only a running unit in the run queue changes.
WaitEDU(u) ==
    status' = IF u \in runQueue /\ status[u] = "running"
              THEN [status EXCEPT ![u] = "waiting"] ELSE status

\* activateEDU of a unit that is in one of the queues.
ActivateEDU(u) ==
    /\ u \in runQueue \cup idleQueue
    /\ runQueue' = runQueue \cup {u}
    /\ idleQueue' = idleQueue \ {u}
    /\ status' = [status EXCEPT ![u] = "running"]
-----------------------------------------------------------------------------
(* The listener: accept and startEDU.                                      *)

\* accept returns a socket; startEDU reads _idleQueue.begin() before it takes
\* the latch.
Accept(c) ==
    /\ lpc = "accept"
    /\ conn[c] = "connecting"
    /\ conn' = [conn EXCEPT ![c] = "accepted"]
    /\ lconn' = c
    /\ \/ idleQueue = {} /\ lit' = NoUnit
       \/ \E u \in idleQueue : (\A v \in idleQueue : u <= v) /\ lit' = u
    /\ lpc' = "start"
    /\ UNCHANGED <<queues, latch, cb, status, events, tpc, sock, ltarget, retry, history>>

\* The iterator read before the latch is used under it.  If it is end() and a
\* unit became idle meanwhile, end() is dereferenced.
Pick ==
    /\ lpc = "start"
    /\ Critical(Listener)
    /\ \/ /\ idleQueue = {}
          /\ lpc' = "create"
          /\ UNCHANGED <<queues, status, ltarget>>
       \/ /\ idleQueue # {} /\ lit = NoUnit
          /\ lpc' = "wild"
          /\ UNCHANGED <<queues, status, ltarget>>
       \/ /\ idleQueue # {} /\ lit # NoUnit
          /\ idleQueue' = idleQueue \ {lit}
          /\ runQueue' = runQueue \cup {lit}
          /\ status' = [status EXCEPT ![lit] = "waiting"]
          /\ ltarget' = lit
          /\ lpc' = "post"
          /\ UNCHANGED nextId
    /\ UNCHANGED <<cb, events, tpc, sock, lconn, lit, retry, conn, history>>

\* _createNewEDU: a control block, a place in the run queue and a thread.
Create ==
    /\ lpc = "create"
    /\ nextId <= MaxUnits
    /\ Critical(Listener)
    /\ runQueue' = runQueue \cup {nextId}
    /\ cb' = [cb EXCEPT ![nextId] = "alive"]
    /\ status' = [status EXCEPT ![nextId] = "creating"]
    /\ tpc' = [tpc EXCEPT ![nextId] = "begin"]
    /\ ltarget' = nextId
    /\ nextId' = nextId + 1
    /\ lpc' = "post"
    /\ UNCHANGED <<idleQueue, events, sock, lconn, lit, retry, conn, history>>

\* The listener closes the connection it cannot start a unit for.
Refuse ==
    /\ conn' = [conn EXCEPT ![lconn] = "closed"]
    /\ lconn' = None
    /\ lpc' = "accept"
    /\ UNCHANGED <<runQueue, idleQueue, cb, status, events, tpc, sock, lit, ltarget, retry,
                   history>>

\* No memory for a control block: nothing else happened yet.
CreateFails == lpc = "create" /\ Refuse /\ UNCHANGED <<nextId, latch>>

\* No thread: the unit leaves the run queue again, the latch is kept.
ThreadFails ==
    /\ lpc = "create"
    /\ nextId <= MaxUnits
    /\ Refuse
    /\ nextId' = nextId + 1
    /\ latch' = "leaked"

\* A slip: the event is not posted.
PostNothing ==
    /\ lpc = "post"
    /\ lpc' = "accept"
    /\ lconn' = None
    /\ UNCHANGED <<queues, latch, cb, status, events, tpc, sock, lit, ltarget, retry, conn,
                   history>>

\* postEvent, after the latch was given back; into freed memory if the thread
\* of the unit destroyed it in between.
Post ==
    /\ lpc = "post"
    /\ IF cb[ltarget] = "alive"
       THEN /\ events' = [events EXCEPT ![ltarget] = Append(@, lconn)]
            /\ lconn' = None
            /\ lpc' = "accept"
       ELSE /\ lpc' = "wild"
            /\ UNCHANGED <<events, lconn>>
    /\ UNCHANGED <<queues, latch, cb, status, tpc, sock, lit, ltarget, retry, conn, history>>

\* accept fails: waitEDU, and the listening socket is opened again a bounded
\* number of times.
AcceptFails ==
    /\ lpc = "accept"
    /\ Critical(Listener)
    /\ WaitEDU(Listener)
    /\ lpc' = IF retry <= Retries THEN "restart" ELSE "gone"
    /\ tpc' = IF retry <= Retries THEN tpc ELSE [tpc EXCEPT ![Listener] = "leave"]
    /\ UNCHANGED <<queues, cb, events, sock, lconn, lit, ltarget, retry, conn, history>>

Restart ==
    /\ lpc = "restart"
    /\ Critical(Listener)
    /\ ActivateEDU(Listener)
    /\ retry' = retry + 1
    /\ lpc' = "accept"
    /\ UNCHANGED <<nextId, cb, events, tpc, sock, lconn, lit, ltarget, conn, history>>

RestartFails ==
    /\ lpc = "restart"
    /\ retry' = retry + 1
    /\ lpc' = "gone"
    /\ tpc' = [tpc EXCEPT ![Listener] = "leave"]
    /\ UNCHANGED <<queues, latch, cb, status, events, sock, lconn, lit, ltarget, conn, history>>
-----------------------------------------------------------------------------
(* The thread of a unit: pmdEDUEntryPoint and, inside it, the agent.       *)

\* A slip: an empty queue is not waited for.
SleepNot(u) ==
    /\ At(u, {"begin"})
    /\ events[u] = <<>>
    /\ status' = [status EXCEPT ![u] = "waiting"]
    /\ tpc' = [tpc EXCEPT ![u] = "return"]
    /\ UNCHANGED <<queues, latch, cb, events, sock, listener, conn, history>>

\* waitEvent on an empty queue.
Sleep(u) ==
    /\ At(u, {"begin"})
    /\ events[u] = <<>>
    /\ status' = [status EXCEPT ![u] = "waiting"]
    /\ tpc' = [tpc EXCEPT ![u] = "wait"]
    /\ UNCHANGED <<queues, latch, cb, events, sock, listener, conn, history>>

\* A slip: the event is read but not popped.
WakeKeepsEvent(u) ==
    /\ At(u, {"begin", "wait"})
    /\ events[u] # <<>>
    /\ sock' = [sock EXCEPT ![u] = Head(events[u])]
    /\ status' = [status EXCEPT ![u] = "running"]
    /\ tpc' = [tpc EXCEPT ![u] = "resumed"]
    /\ UNCHANGED <<queues, latch, cb, events, listener, conn, history>>

\* waitEvent returns a RESUME event.
Wake(u) ==
    /\ At(u, {"begin", "wait"})
    /\ events[u] # <<>>
    /\ sock' = [sock EXCEPT ![u] = Head(events[u])]
    /\ events' = [events EXCEPT ![u] = Tail(@)]
    /\ status' = [status EXCEPT ![u] = "running"]
    /\ tpc' = [tpc EXCEPT ![u] = "resumed"]
    /\ UNCHANGED <<queues, latch, cb, listener, conn, history>>

\* EDU_MAX_IDLE_TIME passes; timed_wait may report it although an event came
\* before the thread got the queue's mutex back.
IdleTooLong(u) ==
    /\ At(u, {"wait"})
    /\ tpc' = [tpc EXCEPT ![u] = "return"]
    /\ late' = late \cup {u}
    /\ UNCHANGED <<queues, latch, cb, status, events, sock, listener, conn, pooled>>

EnterService(u) ==
    /\ At(u, {"resumed"})
    /\ Critical(u)
    /\ WaitEDU(u)
    /\ conn' = [conn EXCEPT ![sock[u]] = "served"]
    /\ tpc' = [tpc EXCEPT ![u] = "recv"]
    /\ UNCHANGED <<queues, cb, events, sock, listener, history>>

\* A slip: the unit is not activated.
ReceiveInactive(u) ==
    /\ At(u, {"recv"})
    /\ tpc' = [tpc EXCEPT ![u] = "process"]
    /\ UNCHANGED <<queues, latch, cb, status, events, sock, listener, conn, history>>

\* A request arrived whole: activateEDU, then the handler runs.
Receive(u) ==
    /\ At(u, {"recv"})
    /\ Critical(u)
    /\ ActivateEDU(u)
    /\ tpc' = [tpc EXCEPT ![u] = "process"]
    /\ UNCHANGED <<nextId, cb, events, sock, listener, conn, history>>

\* The reply is sent, then waitEDU.
Reply(u) ==
    /\ At(u, {"process"})
    /\ Critical(u)
    /\ WaitEDU(u)
    /\ tpc' = [tpc EXCEPT ![u] = "recv"]
    /\ UNCHANGED <<queues, cb, events, sock, listener, conn, history>>

\* The peer is gone, a message is malformed, memory ran out, or the unit is in
\* no queue: the agent closes its socket and returns.
HangUp(u) ==
    /\ At(u, {"recv", "process"})
    /\ conn' = [conn EXCEPT ![sock[u]] = "closed"]
    /\ sock' = [sock EXCEPT ![u] = None]
    /\ tpc' = [tpc EXCEPT ![u] = "leave"]
    /\ UNCHANGED <<queues, latch, cb, status, events, listener, history>>

\* The entry function returned: waitEDU.
LeaveService(u) ==
    /\ At(u, {"leave"})
    /\ Critical(u)
    /\ WaitEDU(u)
    /\ tpc' = [tpc EXCEPT ![u] = "return"]
    /\ UNCHANGED <<queues, cb, events, sock, listener, conn, history>>

\* returnEDU decides by the number of units; only agents are poolable.
ReturnUnit(u) ==
    /\ At(u, {"return"})
    /\ Critical(u)
    /\ tpc' = [tpc EXCEPT ![u] =
                 IF u = Listener \/ MaxPool > Cardinality(runQueue) + Cardinality(idleQueue)
                 THEN "destroy" ELSE "deactivate"]
    /\ UNCHANGED <<queues, cb, status, events, sock, listener, conn, history>>

\* _destoryEDU; what waits in the queue of the unit goes with it.
DestroyUnit(u) ==
    /\ At(u, {"destroy"})
    /\ Critical(u)
    /\ runQueue' = runQueue \ {u}
    /\ idleQueue' = idleQueue \ {u}
    /\ cb' = [cb EXCEPT ![u] = "freed"]
    /\ status' = [status EXCEPT ![u] = "destroyed"]
    /\ events' = [events EXCEPT ![u] = <<>>]
    /\ conn' = [c \in Connections |->
                  IF \E i \in 1 .. Len(events[u]) : events[u][i] = c THEN "dropped" ELSE conn[c]]
    /\ tpc' = [tpc EXCEPT ![u] = "gone"]
    /\ UNCHANGED <<nextId, sock, listener, history>>

\* _deactiveEDU; returnEDU reports the unit destroyed all the same, and its
\* thread ends.
DeactivateUnit(u) ==
    /\ At(u, {"deactivate"})
    /\ Critical(u)
    /\ runQueue' = runQueue \ {u}
    /\ idleQueue' = idleQueue \cup {u}
    /\ status' = [status EXCEPT ![u] = "waiting"]
    /\ tpc' = [tpc EXCEPT ![u] = "gone"]
    /\ pooled' = pooled \cup {u}
    /\ UNCHANGED <<nextId, cb, events, sock, listener, conn, late>>

\* What the listener does without waiting for clients, and what a thread does
\* without waiting for its client.
ListenerStep == Pick \/ Create \/ CreateFails \/ ThreadFails \/ Post \/ Restart \/ RestartFails
UnitStep(u) ==
    \/ Sleep(u) \/ Wake(u) \/ EnterService(u) \/ LeaveService(u)
    \/ ReturnUnit(u) \/ DestroyUnit(u) \/ DeactivateUnit(u)

Next ==
    \/ \E c \in Connections : Accept(c)
    \/ AcceptFails
    \/ ListenerStep
    \/ \E u \in Units :
          UnitStep(u) \/ IdleTooLong(u) \/ Receive(u) \/ Reply(u) \/ HangUp(u)

Spec == Init /\ [][Next]_vars

\* The system schedules every thread that can run.
FairSpec ==
    /\ Spec
    /\ WF_vars(ListenerStep)
    /\ \A u \in Units : WF_vars(UnitStep(u))
-----------------------------------------------------------------------------
TypeOK ==
    /\ runQueue \subseteq Units
    /\ idleQueue \subseteq Units
    /\ nextId \in 2 .. MaxUnits + 1
    /\ latch \in {"free", "leaked"}
    /\ cb \in [Units -> {"none", "alive", "freed"}]
    /\ status \in [Units -> {"creating", "running", "waiting", "destroyed"}]
    /\ events \in [Units -> Seq(Connections)]
    /\ tpc \in [Units -> Live \cup {"none", "gone"}]
    /\ sock \in [Units -> Connections \cup {None}]
    /\ lpc \in {"accept", "start", "create", "post", "restart", "gone", "wild"}
    /\ lconn \in Connections \cup {None}
    /\ lit \in Units \cup {NoUnit}
    /\ ltarget \in Units \cup {NoUnit}
    /\ retry \in Nat
    /\ conn \in [Connections -> {"connecting", "accepted", "served", "closed", "dropped"}]
    /\ late \subseteq Units
    /\ pooled \subseteq Units

\* The queues hold exactly the allocated control blocks, each once.
QueuesHoldUnits ==
    /\ runQueue \cap idleQueue = {}
    /\ \A u \in Units : cb[u] = "alive" <=> u \in runQueue \cup idleQueue
    /\ \A u \in Units : u >= nextId => cb[u] = "none" /\ events[u] = <<>>
    /\ \A u \in Units : cb[u] = "none" <=> tpc[u] = "none"

\* A thread never runs on a unit that is freed or offered to the listener, and
\* it handles requests only while its unit is marked running.
ThreadsHaveUnits ==
    /\ \A u \in Units : tpc[u] \in Live => u \in runQueue
    /\ \A u \in Units : tpc[u] = "process" => status[u] = "running"
    /\ \A u \in Units : tpc[u] \in Inside => sock[u] # None
    /\ \A u \in Units : tpc[u] = "listen" <=> u = Listener /\ lpc # "gone"

\* The listener's iterator, when it is not end(), is still in the idle queue
\* when it is used.  The unit it is about to post to was created, and keeps
\* waiting for its event unless it ran out of time.
ListenerIsSound ==
    /\ lpc = "start" /\ lit # NoUnit => lit \in idleQueue
    /\ lpc \in {"start", "create", "post"} => lconn # None
    /\ lpc = "post" => ltarget # NoUnit /\ ltarget # Listener /\ cb[ltarget] # "none"
    /\ lpc = "post" /\ ltarget \notin late =>
          /\ ltarget \in runQueue
          /\ tpc[ltarget] \in {"begin", "wait", "gone"}
          /\ tpc[ltarget] # "gone" => events[ltarget] = <<>>

\* The bookkeeping of the manager is consistent in every interleaving of the
\* listener with the unit threads, failures to create a thread included.
UnitInvariant == TypeOK /\ QueuesHoldUnits /\ ThreadsHaveUnits /\ ListenerIsSound

\* The RESUME event goes to a unit that still exists, unless the thread of the
\* unit gave up waiting for it first.
PostsToLiveUnit == lpc = "post" /\ ltarget \notin late => cb[ltarget] = "alive"

Holders(c) ==
    {<<"listener", Listener>> : x \in {y \in {lconn} : y = c}}
        \cup {<<"event", u>> : u \in {v \in Units : \E i \in 1 .. Len(events[v]) : events[v][i] = c}}
        \cup {<<"socket", u>> : u \in {v \in Units : sock[v] = c}}

\* An open connection has one owner at every moment: the listener, an event on
\* its way to a unit, or the thread that serves it.
ConnectionHasOneOwner ==
    lpc # "wild" =>
        \A c \in Connections :
            Cardinality(Holders(c)) = IF conn[c] \in {"accepted", "served"} THEN 1 ELSE 0

\* The three places a connection can be in: with the listener between accept and
\* postEvent, in the queue of a unit, with the thread that serves it.
OwnerIsKnown ==
    /\ lconn # None <=> lpc \in {"start", "create", "post"}
    /\ \A u \in Units : sock[u] # None => tpc[u] \in Inside
    /\ \A c \in Connections : conn[c] \in {"accepted", "served"} =>
          \/ lconn = c
          \/ \E u \in Units : \E i \in 1 .. Len(events[u]) : events[u][i] = c
          \/ \E u \in Units : sock[u] = c

\* What is in one of them is open, and in no other.
OwnersApart ==
    /\ lconn # None => conn[lconn] = "accepted"
    /\ \A u \in Units : \A i \in 1 .. Len(events[u]) :
          /\ conn[events[u][i]] = "accepted"
          /\ events[u][i] # lconn
          /\ \A v \in Units :
                /\ sock[v] # events[u][i]
                /\ \A j \in 1 .. Len(events[v]) :
                      events[v][j] = events[u][i] => u = v /\ i = j
    /\ \A u \in Units : sock[u] # None =>
          /\ conn[sock[u]] \in {"accepted", "served"}
          /\ sock[u] # lconn
          /\ \A v \in Units : sock[v] = sock[u] => u = v

\* Connections change hands without being lost or shared, as long as the process
\* has not run into undefined behaviour.
OwnerInvariant == lpc # "wild" => OwnerIsKnown /\ OwnersApart

\* The connection is with a unit whose thread has ended or given up waiting.
Stranded(c) ==
    \E u \in late \cup pooled : \E i \in 1 .. Len(events[u]) : events[u][i] = c

\* Every accepted connection is served or closed, unless it was given to a unit
\* without a thread, or the latch was kept.
AcceptedIsServed ==
    \A c \in Connections :
        conn[c] = "accepted" ~>
            conn[c] # "accepted" \/ Stranded(c) \/ latch = "leaked" \/ lpc = "wild"
-----------------------------------------------------------------------------
(* What the comments say, and the code does not do.                        *)

\* "start an edu from the idle queue or create a new one" (pmdEDUMgr.hpp): a
\* unit that was started and not returned has a thread that will serve it.
StartedUnitHasThread == \A u \in runQueue : tpc[u] \in Live
=============================================================================
