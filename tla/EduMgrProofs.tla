---------------------------- MODULE EduMgrProofs ----------------------------
(* UnitInvariant of EduMgr is inductive, for every number of connections,   *)
(* units, pool size and retries; and on top of it OwnerInvariant, by which  *)
(* a connection has one owner.                                             *)
EXTENDS EduMgr, FiniteSetTheorems, TLAPS

\* What the modules assume of the constants.
LEMMA Bounds ==
    MaxUnits \in Nat \ {0} /\ MaxPool \in Nat /\ Retries \in Nat /\ None \notin Connections
BY UnitsAssumption, PoolAssumption, RetriesAssumption, NoneAssumption

\* The iterator read by accept points into the idle queue.
LEMMA AcceptKeeps ==
    ASSUME UnitInvariant, NEW c \in Connections, Accept(c)
    PROVE  UnitInvariant'
<1>1. TypeOK'
  BY DEF UnitInvariant, TypeOK, Accept, queues, history
<1>2. QueuesHoldUnits'
  BY DEF UnitInvariant, QueuesHoldUnits, Accept, queues
<1>3. ThreadsHaveUnits'
  BY DEF UnitInvariant, ThreadsHaveUnits, Accept, queues
<1>4. ListenerIsSound'
  BY Bounds DEF UnitInvariant, TypeOK, ListenerIsSound, Accept, Units, NoUnit, queues, history
<1>5. QED  BY <1>1, <1>2, <1>3, <1>4 DEF UnitInvariant

\* startEDU moves a unit without a thread from the idle to the run queue.
LEMMA PickKeeps ==
    ASSUME UnitInvariant, Pick
    PROVE  UnitInvariant'
<1>1. TypeOK'
  <2>1. CASE idleQueue = {}
    BY <2>1 DEF UnitInvariant, TypeOK, Pick, Critical, queues, history
  <2>2. CASE idleQueue # {} /\ lit = NoUnit
    BY <2>2 DEF UnitInvariant, TypeOK, Pick, Critical, queues, history
  <2>3. CASE idleQueue # {} /\ lit # NoUnit
    BY <2>3 DEF UnitInvariant, TypeOK, Pick, Critical, history
  <2>4. QED  BY <2>1, <2>2, <2>3
<1>2. QueuesHoldUnits'
  <2>1. CASE idleQueue = {} \/ lit = NoUnit
    BY <2>1 DEF UnitInvariant, QueuesHoldUnits, Pick, queues
  <2>2. CASE idleQueue # {} /\ lit # NoUnit
    <3>1. lit \in idleQueue
      BY <2>2 DEF UnitInvariant, ListenerIsSound, Pick
    <3>2. /\ idleQueue' = idleQueue \ {lit} /\ runQueue' = runQueue \cup {lit}
          /\ nextId' = nextId /\ cb' = cb /\ events' = events /\ tpc' = tpc
      BY <2>2 DEF Pick
    <3>3. QED  BY <3>1, <3>2 DEF UnitInvariant, QueuesHoldUnits
  <2>3. QED  BY <2>1, <2>2
<1>3. ThreadsHaveUnits'
  BY DEF UnitInvariant, TypeOK, QueuesHoldUnits, ThreadsHaveUnits, ListenerIsSound,
     Pick, Critical, Live, Inside, Listener, queues
<1>4. ListenerIsSound'
  BY DEF UnitInvariant, TypeOK, QueuesHoldUnits, ThreadsHaveUnits, ListenerIsSound,
     Pick, Critical, NoUnit, queues, history
<1>5. QED  BY <1>1, <1>2, <1>3, <1>4 DEF UnitInvariant

\* _createNewEDU uses an id that no unit had before.
LEMMA CreateKeeps ==
    ASSUME UnitInvariant, Create
    PROVE  UnitInvariant'
<1>1. TypeOK'
  <2>1. nextId \in Units /\ nextId + 1 \in 2 .. MaxUnits + 1
    BY Bounds DEF UnitInvariant, TypeOK, Create, Critical, Units, Listener
  <2>2. /\ cb' \in [Units -> {"none", "alive", "freed"}]
        /\ status' \in [Units -> {"creating", "running", "waiting", "destroyed"}]
        /\ tpc' \in [Units -> Live \cup {"none", "gone"}]
    BY <2>1 DEF UnitInvariant, TypeOK, Create, Live
  <2>3. QED  BY <2>1, <2>2 DEF UnitInvariant, TypeOK, Create, Critical, history
<1>2. QueuesHoldUnits'
  <2>1. nextId \in Units /\ cb[nextId] = "none" /\ nextId \notin runQueue \cup idleQueue
    <3>1. nextId \in Units /\ nextId >= nextId
      BY Bounds DEF UnitInvariant, TypeOK, Create, Units
    <3>2. cb[nextId] = "none"
      BY <3>1 DEF UnitInvariant, QueuesHoldUnits
    <3>3. QED  BY <3>1, <3>2 DEF UnitInvariant, QueuesHoldUnits
  <2>2. (runQueue \cap idleQueue = {})'
    BY <2>1 DEF UnitInvariant, QueuesHoldUnits, Create
  <2>3. ASSUME NEW u \in Units
        PROVE  /\ cb'[u] = "alive" <=> u \in runQueue' \cup idleQueue'
               /\ cb'[u] = "none" <=> tpc'[u] = "none"
    BY <2>1, <2>3 DEF UnitInvariant, TypeOK, QueuesHoldUnits, Create
  <2>4. ASSUME NEW u \in Units, u >= nextId'
        PROVE  cb'[u] = "none" /\ events'[u] = <<>>
    <3>1. u >= nextId /\ u # nextId
      BY <2>4, <2>1 DEF UnitInvariant, TypeOK, Create, Units
    <3>2. QED  BY <3>1, <2>1 DEF UnitInvariant, TypeOK, QueuesHoldUnits, Create
  <2>5. QED  BY <2>2, <2>3, <2>4 DEF QueuesHoldUnits
<1>3. ThreadsHaveUnits'
  <2>1. nextId \in Units /\ nextId # Listener
    BY Bounds DEF UnitInvariant, TypeOK, Create, Units, Listener
  <2>2. ASSUME NEW u \in Units
        PROVE  /\ tpc'[u] \in Live => u \in runQueue'
               /\ tpc'[u] = "process" => status'[u] = "running"
               /\ tpc'[u] \in Inside => sock'[u] # None
               /\ tpc'[u] = "listen" <=> u = Listener /\ lpc' # "gone"
    <3>1. CASE u = nextId
      BY <3>1, <2>1 DEF UnitInvariant, TypeOK, ThreadsHaveUnits, Create, Inside
    <3>2. CASE u # nextId
      BY <3>2, <2>1 DEF UnitInvariant, TypeOK, ThreadsHaveUnits, Create
    <3>3. QED  BY <3>1, <3>2
  <2>3. QED  BY <2>2 DEF ThreadsHaveUnits
<1>4. ListenerIsSound'
  BY Bounds DEF UnitInvariant, TypeOK, QueuesHoldUnits, ListenerIsSound, Create, Units,
     Listener, NoUnit, history
<1>5. QED  BY <1>1, <1>2, <1>3, <1>4 DEF UnitInvariant

\* _createNewEDU without memory changes nothing.
LEMMA CreateFailsKeeps ==
    ASSUME UnitInvariant, CreateFails
    PROVE  UnitInvariant'
<1>1. TypeOK'
  BY DEF UnitInvariant, TypeOK, CreateFails, Refuse, history
<1>2. QueuesHoldUnits'
  BY DEF UnitInvariant, QueuesHoldUnits, CreateFails, Refuse
<1>3. ThreadsHaveUnits'
  BY DEF UnitInvariant, ThreadsHaveUnits, CreateFails, Refuse
<1>4. ListenerIsSound'
  BY DEF UnitInvariant, ListenerIsSound, CreateFails, Refuse, history
<1>5. QED  BY <1>1, <1>2, <1>3, <1>4 DEF UnitInvariant

\* _createNewEDU without a thread consumes an id and no more.
LEMMA ThreadFailsKeeps ==
    ASSUME UnitInvariant, ThreadFails
    PROVE  UnitInvariant'
<1>1. TypeOK'
  <2>1. nextId' \in 2 .. MaxUnits + 1
    BY Bounds DEF UnitInvariant, TypeOK, ThreadFails
  <2>2. QED  BY <2>1 DEF UnitInvariant, TypeOK, ThreadFails, Refuse, history
<1>2. QueuesHoldUnits'
  <2>1. \A u \in Units : u >= nextId' => u >= nextId
    BY Bounds DEF UnitInvariant, TypeOK, ThreadFails, Units
  <2>2. QED  BY <2>1 DEF UnitInvariant, QueuesHoldUnits, ThreadFails, Refuse
<1>3. ThreadsHaveUnits'
  BY DEF UnitInvariant, ThreadsHaveUnits, ThreadFails, Refuse
<1>4. ListenerIsSound'
  BY DEF UnitInvariant, ListenerIsSound, ThreadFails, Refuse, history
<1>5. QED  BY <1>1, <1>2, <1>3, <1>4 DEF UnitInvariant

\* postEvent reaches the unit startEDU chose, or ends in undefined behaviour.
LEMMA PostKeeps ==
    ASSUME UnitInvariant, Post
    PROVE  UnitInvariant'
<1>1. TypeOK'
  <2>1. ltarget \in Units /\ lconn \in Connections
    BY DEF UnitInvariant, TypeOK, ListenerIsSound, Post
  <2>2. CASE cb[ltarget] = "alive"
    <3>1. Append(events[ltarget], lconn) \in Seq(Connections)
      BY <2>1 DEF UnitInvariant, TypeOK
    <3>2. events' \in [Units -> Seq(Connections)]
      BY <3>1, <2>1, <2>2 DEF UnitInvariant, TypeOK, Post
    <3>3. QED  BY <3>2, <2>2 DEF UnitInvariant, TypeOK, Post, queues, history
  <2>3. CASE cb[ltarget] # "alive"
    BY <2>3 DEF UnitInvariant, TypeOK, Post, queues, history
  <2>4. QED  BY <2>2, <2>3
<1>2. QueuesHoldUnits'
  <2>1. CASE cb[ltarget] = "alive"
    <3>1. \A u \in Units : u >= nextId => events'[u] = <<>>
      BY <2>1 DEF UnitInvariant, TypeOK, QueuesHoldUnits, Post
    <3>2. QED  BY <3>1 DEF UnitInvariant, QueuesHoldUnits, Post, queues
  <2>2. CASE cb[ltarget] # "alive"
    BY <2>2 DEF UnitInvariant, QueuesHoldUnits, Post, queues
  <2>3. QED  BY <2>1, <2>2
<1>3. ThreadsHaveUnits'
  BY DEF UnitInvariant, ThreadsHaveUnits, Post, queues
<1>4. ListenerIsSound'
  BY DEF UnitInvariant, ListenerIsSound, Post, queues, history
<1>5. QED  BY <1>1, <1>2, <1>3, <1>4 DEF UnitInvariant

\* A failing accept leaves the listener in the run queue.
LEMMA AcceptFailsKeeps ==
    ASSUME UnitInvariant, AcceptFails
    PROVE  UnitInvariant'
<1>1. TypeOK'
  BY DEF UnitInvariant, TypeOK, AcceptFails, Critical, WaitEDU, Units, Live, Inside,
     queues, history
<1>2. QueuesHoldUnits'
  BY DEF UnitInvariant, TypeOK, QueuesHoldUnits, ThreadsHaveUnits, ListenerIsSound,
     AcceptFails, Critical, WaitEDU, Units, queues
<1>3. ThreadsHaveUnits'
  BY DEF UnitInvariant, TypeOK, ThreadsHaveUnits, AcceptFails, Critical, WaitEDU, Live,
     Inside, Listener, queues
<1>4. ListenerIsSound'
  BY DEF UnitInvariant, ListenerIsSound, AcceptFails, queues, history
<1>5. QED  BY <1>1, <1>2, <1>3, <1>4 DEF UnitInvariant

\* The listener opens its socket again.
LEMMA RestartKeeps ==
    ASSUME UnitInvariant, Restart
    PROVE  UnitInvariant'
<1>1. TypeOK'
  BY DEF UnitInvariant, TypeOK, Restart, Critical, ActivateEDU, listener, history
<1>2. QueuesHoldUnits'
  BY DEF UnitInvariant, QueuesHoldUnits, Restart, ActivateEDU
<1>3. ThreadsHaveUnits'
  BY DEF UnitInvariant, ThreadsHaveUnits, Restart, ActivateEDU, listener
<1>4. ListenerIsSound'
  BY DEF UnitInvariant, ListenerIsSound, Restart, ActivateEDU, listener, history
<1>5. QED  BY <1>1, <1>2, <1>3, <1>4 DEF UnitInvariant

\* The listener gives up its loop.
LEMMA RestartFailsKeeps ==
    ASSUME UnitInvariant, RestartFails
    PROVE  UnitInvariant'
<1>1. TypeOK'
  BY Bounds DEF UnitInvariant, TypeOK, RestartFails, Units, Listener, Live, queues, history
<1>2. QueuesHoldUnits'
  BY DEF UnitInvariant, TypeOK, QueuesHoldUnits, ThreadsHaveUnits, ListenerIsSound,
     RestartFails, Units, queues
<1>3. ThreadsHaveUnits'
  BY DEF UnitInvariant, TypeOK, ThreadsHaveUnits, RestartFails, Live, Inside, Listener,
     queues
<1>4. ListenerIsSound'
  BY DEF UnitInvariant, ListenerIsSound, RestartFails, queues, history
<1>5. QED  BY <1>1, <1>2, <1>3, <1>4 DEF UnitInvariant

\* A thread starts to wait for its event.
LEMMA SleepKeeps ==
    ASSUME UnitInvariant, NEW u \in Units, Sleep(u)
    PROVE  UnitInvariant'
<1>1. TypeOK'
  BY DEF UnitInvariant, TypeOK, Sleep, At, Units, Live, Inside, queues, listener,
     history
<1>2. QueuesHoldUnits'
  BY DEF UnitInvariant, TypeOK, QueuesHoldUnits, Sleep, At, Units, queues
<1>3. ThreadsHaveUnits'
  <2>1. ASSUME NEW v \in Units
        PROVE  /\ tpc'[v] \in Live => v \in runQueue'
               /\ tpc'[v] = "process" => status'[v] = "running"
               /\ tpc'[v] \in Inside => sock'[v] # None
               /\ tpc'[v] = "listen" <=> v = Listener /\ lpc' # "gone"
    <3>1. CASE v = u
      BY <3>1 DEF UnitInvariant, TypeOK, ThreadsHaveUnits, Sleep, At, Live, Inside, queues, listener
    <3>2. CASE v # u
      BY <3>2 DEF UnitInvariant, TypeOK, ThreadsHaveUnits, Sleep, queues, listener
    <3>3. QED  BY <3>1, <3>2
  <2>2. QED  BY <2>1 DEF ThreadsHaveUnits
<1>4. ListenerIsSound'
  BY DEF UnitInvariant, ListenerIsSound, Sleep, At, queues, listener, history
<1>5. QED  BY <1>1, <1>2, <1>3, <1>4 DEF UnitInvariant

\* A thread takes its event and the socket in it.
LEMMA WakeKeeps ==
    ASSUME UnitInvariant, NEW u \in Units, Wake(u)
    PROVE  UnitInvariant'
<1>1. TypeOK'
  BY DEF UnitInvariant, TypeOK, Wake, At, Units, Live, Inside, queues, listener, history
<1>2. QueuesHoldUnits'
  BY DEF UnitInvariant, TypeOK, QueuesHoldUnits, Wake, At, Units, queues
<1>3. ThreadsHaveUnits'
  <2>1. Head(events[u]) \in Connections
    BY DEF UnitInvariant, TypeOK, Wake
  <2>2. ASSUME NEW v \in Units
        PROVE  /\ tpc'[v] \in Live => v \in runQueue'
               /\ tpc'[v] = "process" => status'[v] = "running"
               /\ tpc'[v] \in Inside => sock'[v] # None
               /\ tpc'[v] = "listen" <=> v = Listener /\ lpc' # "gone"
    <3>1. CASE v = u
      BY <3>1, <2>1, NoneAssumption
         DEF UnitInvariant, TypeOK, ThreadsHaveUnits, Wake, At, Live, Inside, queues, listener
    <3>2. CASE v # u
      BY <3>2 DEF UnitInvariant, TypeOK, ThreadsHaveUnits, Wake, queues, listener
    <3>3. QED  BY <3>1, <3>2
  <2>3. QED  BY <2>2 DEF ThreadsHaveUnits
<1>4. ListenerIsSound'
  BY DEF UnitInvariant, ListenerIsSound, Wake, At, queues, listener, history
<1>5. QED  BY <1>1, <1>2, <1>3, <1>4 DEF UnitInvariant

\* A thread gives up waiting; its unit counts as late.
LEMMA IdleTooLongKeeps ==
    ASSUME UnitInvariant, NEW u \in Units, IdleTooLong(u)
    PROVE  UnitInvariant'
<1>1. TypeOK'
  BY DEF UnitInvariant, TypeOK, IdleTooLong, At, Units, Live, Inside, queues, listener
<1>2. QueuesHoldUnits'
  BY DEF UnitInvariant, TypeOK, QueuesHoldUnits, IdleTooLong, At, Units, queues
<1>3. ThreadsHaveUnits'
  BY DEF UnitInvariant, TypeOK, ThreadsHaveUnits, IdleTooLong, At, Live, Inside,
     Listener, queues, listener
<1>4. ListenerIsSound'
  BY DEF UnitInvariant, ListenerIsSound, IdleTooLong, At, queues, listener
<1>5. QED  BY <1>1, <1>2, <1>3, <1>4 DEF UnitInvariant

\* The agent starts on its socket.
LEMMA EnterServiceKeeps ==
    ASSUME UnitInvariant, NEW u \in Units, EnterService(u)
    PROVE  UnitInvariant'
<1>1. TypeOK'
  BY DEF UnitInvariant, TypeOK, EnterService, Critical, WaitEDU, At, Units, Live,
     Inside, queues, listener, history
<1>2. QueuesHoldUnits'
  BY DEF UnitInvariant, TypeOK, QueuesHoldUnits, EnterService, Critical, WaitEDU, At,
     Units, queues
<1>3. ThreadsHaveUnits'
  BY DEF UnitInvariant, TypeOK, ThreadsHaveUnits, EnterService, Critical, WaitEDU, At,
     Live, Inside, Listener, queues, listener
<1>4. ListenerIsSound'
  BY DEF UnitInvariant, ListenerIsSound, EnterService, At, queues, listener, history
<1>5. QED  BY <1>1, <1>2, <1>3, <1>4 DEF UnitInvariant

\* activateEDU marks the unit of a request running.
LEMMA ReceiveKeeps ==
    ASSUME UnitInvariant, NEW u \in Units, Receive(u)
    PROVE  UnitInvariant'
<1>1. TypeOK'
  BY DEF UnitInvariant, TypeOK, Receive, Critical, ActivateEDU, At, Units, Live, Inside,
     listener, history
<1>2. QueuesHoldUnits'
  BY DEF UnitInvariant, QueuesHoldUnits, Receive, ActivateEDU
<1>3. ThreadsHaveUnits'
  BY DEF UnitInvariant, TypeOK, ThreadsHaveUnits, Receive, Critical, ActivateEDU, At,
     Live, Inside, Listener, listener
<1>4. ListenerIsSound'
  BY DEF UnitInvariant, TypeOK, QueuesHoldUnits, ThreadsHaveUnits, ListenerIsSound,
     Receive, Critical, ActivateEDU, At, NoUnit, listener, history
<1>5. QED  BY <1>1, <1>2, <1>3, <1>4 DEF UnitInvariant

\* waitEDU marks it waiting again.
LEMMA ReplyKeeps ==
    ASSUME UnitInvariant, NEW u \in Units, Reply(u)
    PROVE  UnitInvariant'
<1>1. TypeOK'
  BY DEF UnitInvariant, TypeOK, Reply, Critical, WaitEDU, At, Units, Live, Inside,
     queues, listener, history
<1>2. QueuesHoldUnits'
  BY DEF UnitInvariant, TypeOK, QueuesHoldUnits, Reply, Critical, WaitEDU, At, Units,
     queues
<1>3. ThreadsHaveUnits'
  BY DEF UnitInvariant, TypeOK, ThreadsHaveUnits, Reply, Critical, WaitEDU, At, Live,
     Inside, Listener, queues, listener
<1>4. ListenerIsSound'
  BY DEF UnitInvariant, ListenerIsSound, Reply, At, queues, listener, history
<1>5. QED  BY <1>1, <1>2, <1>3, <1>4 DEF UnitInvariant

\* The agent closes its socket.
LEMMA HangUpKeeps ==
    ASSUME UnitInvariant, NEW u \in Units, HangUp(u)
    PROVE  UnitInvariant'
<1>1. TypeOK'
  BY DEF UnitInvariant, TypeOK, HangUp, At, Units, Live, Inside, queues, listener,
     history
<1>2. QueuesHoldUnits'
  BY DEF UnitInvariant, TypeOK, QueuesHoldUnits, HangUp, At, Units, queues
<1>3. ThreadsHaveUnits'
  BY DEF UnitInvariant, TypeOK, ThreadsHaveUnits, HangUp, At, Live, Inside, Listener,
     queues, listener
<1>4. ListenerIsSound'
  BY DEF UnitInvariant, ListenerIsSound, HangUp, At, queues, listener, history
<1>5. QED  BY <1>1, <1>2, <1>3, <1>4 DEF UnitInvariant

\* The entry function returned.
LEMMA LeaveServiceKeeps ==
    ASSUME UnitInvariant, NEW u \in Units, LeaveService(u)
    PROVE  UnitInvariant'
<1>1. TypeOK'
  BY DEF UnitInvariant, TypeOK, LeaveService, Critical, WaitEDU, At, Units, Live,
     Inside, queues, listener, history
<1>2. QueuesHoldUnits'
  BY DEF UnitInvariant, TypeOK, QueuesHoldUnits, LeaveService, Critical, WaitEDU, At,
     Units, queues
<1>3. ThreadsHaveUnits'
  BY DEF UnitInvariant, TypeOK, ThreadsHaveUnits, LeaveService, Critical, WaitEDU, At,
     Live, Inside, Listener, queues, listener
<1>4. ListenerIsSound'
  BY DEF UnitInvariant, ListenerIsSound, LeaveService, At, queues, listener, history
<1>5. QED  BY <1>1, <1>2, <1>3, <1>4 DEF UnitInvariant

\* returnEDU decides between the pool and destruction.
LEMMA ReturnUnitKeeps ==
    ASSUME UnitInvariant, NEW u \in Units, ReturnUnit(u)
    PROVE  UnitInvariant'
<1>1. TypeOK'
  BY DEF UnitInvariant, TypeOK, ReturnUnit, Critical, At, Units, Live, Inside, queues,
     listener, history
<1>2. QueuesHoldUnits'
  BY DEF UnitInvariant, TypeOK, QueuesHoldUnits, ReturnUnit, Critical, At, Units, queues
<1>3. ThreadsHaveUnits'
  BY DEF UnitInvariant, TypeOK, ThreadsHaveUnits, ReturnUnit, Critical, At, Live,
     Inside, Listener, queues, listener
<1>4. ListenerIsSound'
  BY DEF UnitInvariant, ListenerIsSound, ReturnUnit, At, queues, listener, history
<1>5. QED  BY <1>1, <1>2, <1>3, <1>4 DEF UnitInvariant

\* _destoryEDU frees only the unit of its own thread.
LEMMA DestroyUnitKeeps ==
    ASSUME UnitInvariant, NEW u \in Units, DestroyUnit(u)
    PROVE  UnitInvariant'
<1>1. TypeOK'
  BY DEF UnitInvariant, TypeOK, DestroyUnit, Critical, listener, history
<1>2. QueuesHoldUnits'
  <2>1. (runQueue \cap idleQueue = {})'
    BY DEF UnitInvariant, QueuesHoldUnits, DestroyUnit
  <2>2. ASSUME NEW v \in Units
        PROVE  /\ cb'[v] = "alive" <=> v \in runQueue' \cup idleQueue'
               /\ v >= nextId' => cb'[v] = "none" /\ events'[v] = <<>>
               /\ cb'[v] = "none" <=> tpc'[v] = "none"
    <3>1. CASE v = u
      BY <3>1 DEF UnitInvariant, TypeOK, QueuesHoldUnits, DestroyUnit, At
    <3>2. CASE v # u
      BY <3>2 DEF UnitInvariant, TypeOK, QueuesHoldUnits, DestroyUnit
    <3>3. QED  BY <3>1, <3>2
  <2>3. QED  BY <2>1, <2>2 DEF QueuesHoldUnits
<1>3. ThreadsHaveUnits'
  BY DEF UnitInvariant, TypeOK, ThreadsHaveUnits, DestroyUnit, Critical, At, Live,
     Inside, Listener, listener
<1>4. ListenerIsSound'
  <2>1. u \in runQueue /\ u \notin idleQueue
    BY DEF UnitInvariant, ThreadsHaveUnits, QueuesHoldUnits, DestroyUnit, At, Live
  <2>2. lpc = "post" /\ ltarget \notin late => ltarget # u
    BY DEF UnitInvariant, ListenerIsSound, DestroyUnit, At
  <2>3. lpc = "post" => ltarget \in Units
    BY DEF UnitInvariant, TypeOK, ListenerIsSound
  <2>4. QED
    BY <2>1, <2>2, <2>3
    DEF UnitInvariant, TypeOK, ListenerIsSound, DestroyUnit, listener, history
<1>5. QED  BY <1>1, <1>2, <1>3, <1>4 DEF UnitInvariant

\* _deactiveEDU moves the unit of a thread that ends here.
LEMMA DeactivateUnitKeeps ==
    ASSUME UnitInvariant, NEW u \in Units, DeactivateUnit(u)
    PROVE  UnitInvariant'
<1>1. TypeOK'
  BY DEF UnitInvariant, TypeOK, DeactivateUnit, Critical, listener
<1>2. QueuesHoldUnits'
  BY DEF UnitInvariant, TypeOK, QueuesHoldUnits, ThreadsHaveUnits, ListenerIsSound,
     DeactivateUnit, Critical, At, Units
<1>3. ThreadsHaveUnits'
  BY DEF UnitInvariant, TypeOK, ThreadsHaveUnits, DeactivateUnit, Critical, At, Live,
     Inside, Listener, listener
<1>4. ListenerIsSound'
  BY DEF UnitInvariant, ListenerIsSound, DeactivateUnit, At, listener
<1>5. QED  BY <1>1, <1>2, <1>3, <1>4 DEF UnitInvariant

\* Init establishes the invariant.
LEMMA InitKeeps == Init => UnitInvariant
<1>1. Init => TypeOK
  BY Bounds DEF Init, TypeOK, Units, Listener, NoUnit, Live, Inside
<1>2. Init => QueuesHoldUnits
  BY Bounds DEF Init, QueuesHoldUnits, Units, Listener
<1>3. Init => ThreadsHaveUnits
  BY Bounds DEF Init, ThreadsHaveUnits, Units, Listener, Live, Inside
<1>4. Init => ListenerIsSound
  BY DEF Init, ListenerIsSound
<1>5. QED  BY <1>1, <1>2, <1>3, <1>4 DEF UnitInvariant

\* A stuttering step keeps it.
LEMMA StutterKeeps == UnitInvariant /\ UNCHANGED vars => UnitInvariant'
BY DEF UnitInvariant, TypeOK, QueuesHoldUnits, ThreadsHaveUnits, ListenerIsSound, vars, queues,
       listener, history

\* The manager's queues, the control blocks, the threads and the listener fit
\* together in every reachable state, for any number of connections, units and
\* retries and any pool size: no thread runs on a freed or an idle unit.
THEOREM UnitsAreConsistent == Spec => []UnitInvariant
<1>1. Init => UnitInvariant
  BY InitKeeps
<1>2. UnitInvariant /\ [Next]_vars => UnitInvariant'
  <2> SUFFICES ASSUME UnitInvariant, [Next]_vars PROVE UnitInvariant'
    OBVIOUS
  <2>1. ASSUME NEW c \in Connections, Accept(c) PROVE UnitInvariant'
    BY <2>1, AcceptKeeps
  <2>2. CASE AcceptFails
    BY <2>2, AcceptFailsKeeps
  <2>3. CASE ListenerStep
    BY <2>3, PickKeeps, CreateKeeps, CreateFailsKeeps, ThreadFailsKeeps, PostKeeps,
       RestartKeeps, RestartFailsKeeps DEF ListenerStep
  <2>4. ASSUME NEW u \in Units, UnitStep(u) PROVE UnitInvariant'
    BY <2>4, SleepKeeps, WakeKeeps, EnterServiceKeeps, LeaveServiceKeeps, ReturnUnitKeeps,
       DestroyUnitKeeps, DeactivateUnitKeeps DEF UnitStep
  <2>5. ASSUME NEW u \in Units, IdleTooLong(u) \/ Receive(u) \/ Reply(u) \/ HangUp(u)
        PROVE  UnitInvariant'
    BY <2>5, IdleTooLongKeeps, ReceiveKeeps, ReplyKeeps, HangUpKeeps
  <2>6. CASE UNCHANGED vars
    BY <2>6, StutterKeeps
  <2>7. QED  BY <2>1, <2>2, <2>3, <2>4, <2>5, <2>6 DEF Next
<1>3. QED  BY <1>1, <1>2, PTL DEF Spec

\* startEDU never posts the RESUME event to freed memory, except to a unit whose
\* thread gave up waiting for it (EDU_MAX_IDLE_TIME) before it was posted.
THEOREM EventsReachLiveUnits == Spec => []PostsToLiveUnit
<1>1. UnitInvariant => PostsToLiveUnit
  BY DEF UnitInvariant, TypeOK, QueuesHoldUnits, ListenerIsSound, PostsToLiveUnit
<1>2. QED  BY <1>1, UnitsAreConsistent, PTL
-----------------------------------------------------------------------------
(* The owners of connections.                                              *)

\* Most steps leave the connections where they are.
LEMMA OwnersUntouched ==
    ASSUME OwnerInvariant, lpc # "wild",
           lconn' = lconn, sock' = sock, events' = events, conn' = conn,
           lpc' = "wild" \/ (lpc \in {"start", "create", "post"}
                                <=> lpc' \in {"start", "create", "post"}),
           \A u \in Units : tpc[u] \in Inside => tpc'[u] \in Inside
    PROVE  OwnerInvariant'
<1> SUFFICES ASSUME lpc' # "wild" PROVE OwnerIsKnown' /\ OwnersApart'
  BY DEF OwnerInvariant
<1>1. OwnerIsKnown /\ OwnersApart
  BY DEF OwnerInvariant
<1>2. OwnerIsKnown'
  BY <1>1 DEF OwnerIsKnown
<1>3. OwnersApart'
  BY <1>1 DEF OwnersApart
<1>4. QED  BY <1>2, <1>3

\* The steps of the listener that have no connection in hand, or keep it.
LEMMA ListenerKeepsOwners ==
    ASSUME UnitInvariant, OwnerInvariant,
           Pick \/ Create \/ AcceptFails \/ Restart \/ RestartFails
    PROVE  OwnerInvariant'
<1>1. /\ lpc # "wild"
      /\ lconn' = lconn /\ sock' = sock /\ events' = events /\ conn' = conn
      /\ lpc' = "wild" \/ (lpc \in {"start", "create", "post"}
                             <=> lpc' \in {"start", "create", "post"})
  BY DEF Pick, Create, AcceptFails, Restart, RestartFails
<1>2. ASSUME NEW u \in Units, tpc[u] \in Inside PROVE tpc'[u] \in Inside
  <2>1. CASE Pick \/ Restart
    BY <2>1, <1>2 DEF Pick, Restart
  <2>2. CASE Create
    <3>1. nextId \in Units /\ tpc[nextId] = "none"
      BY <2>2, Bounds DEF UnitInvariant, TypeOK, QueuesHoldUnits, Create, Units
    <3>2. QED  BY <3>1, <2>2, <1>2 DEF UnitInvariant, TypeOK, Create, Inside
  <2>3. CASE AcceptFails \/ RestartFails
    <3>1. lpc # "gone"
      BY <2>3 DEF AcceptFails, RestartFails
    <3>2. u # Listener
      BY <3>1, <1>2 DEF UnitInvariant, ThreadsHaveUnits, Inside
    <3>3. QED  BY <3>2, <2>3, <1>2 DEF UnitInvariant, TypeOK, AcceptFails, RestartFails
  <2>4. QED  BY <2>1, <2>2, <2>3
<1>3. QED  BY <1>1, <1>2, OwnersUntouched

\* The steps of a thread outside service, or inside it without changing its
\* socket.
LEMMA ThreadKeepsOwners ==
    ASSUME UnitInvariant, OwnerInvariant, NEW u \in Units,
           \/ Sleep(u) \/ IdleTooLong(u) \/ Receive(u) \/ Reply(u)
           \/ LeaveService(u) \/ ReturnUnit(u) \/ DeactivateUnit(u)
    PROVE  OwnerInvariant'
<1>1. /\ lpc # "wild" /\ lpc' = lpc
      /\ lconn' = lconn /\ sock' = sock /\ events' = events /\ conn' = conn
  BY DEF Sleep, IdleTooLong, Receive, Reply, LeaveService, ReturnUnit, DeactivateUnit, At,
     listener
<1>2. ASSUME NEW v \in Units, tpc[v] \in Inside PROVE tpc'[v] \in Inside
  BY <1>2 DEF UnitInvariant, TypeOK, Sleep, IdleTooLong, Receive, Reply, LeaveService,
     ReturnUnit, DeactivateUnit, At, Inside
<1>3. QED  BY <1>1, <1>2, OwnersUntouched

\* accept gives an unowned connection to the listener.
LEMMA AcceptKeepsOwners ==
    ASSUME UnitInvariant, OwnerInvariant, NEW c \in Connections, Accept(c)
    PROVE  OwnerInvariant'
<1>1. /\ lpc = "accept" /\ lpc' = "start" /\ lconn = None /\ lconn' = c
      /\ conn[c] = "connecting" /\ conn' = [conn EXCEPT ![c] = "accepted"]
      /\ sock' = sock /\ events' = events /\ tpc' = tpc
  BY DEF Accept, OwnerInvariant, OwnerIsKnown
<1>2. OwnerIsKnown /\ OwnersApart
  BY <1>1 DEF OwnerInvariant
<1>3. conn \in [Connections -> {"connecting", "accepted", "served", "closed", "dropped"}]
      /\ c # None
  BY NoneAssumption DEF UnitInvariant, TypeOK
<1>4. OwnerIsKnown'
  <2>1. \A d \in Connections : d # c => conn'[d] = conn[d] /\ lconn # d
    BY <1>1, <1>3, NoneAssumption
  <2>2. QED  BY <2>1, <1>1, <1>2, <1>3 DEF OwnerIsKnown
<1>5. OwnersApart'
  <2>1. \A u \in Units : events[u] \in Seq(Connections) /\ sock[u] \in Connections \cup {None}
    BY DEF UnitInvariant, TypeOK
  <2>2. \A u \in Units : \A i \in 1 .. Len(events[u]) :
           events[u][i] \in Connections /\ events[u][i] # c
    BY <2>1, <1>1, <1>2 DEF OwnersApart
  <2>3. \A u \in Units : sock[u] # c
    BY <1>1, <1>2, <1>3 DEF OwnersApart
  <2>4. QED  BY <2>1, <2>2, <2>3, <1>1, <1>2, <1>3 DEF OwnersApart
<1>6. QED  BY <1>4, <1>5 DEF OwnerInvariant

\* The listener closes the connection in its hand.
LEMMA RefuseKeepsOwners ==
    ASSUME UnitInvariant, OwnerInvariant, CreateFails \/ ThreadFails
    PROVE  OwnerInvariant'
<1>1. /\ lpc = "create" /\ lpc' = "accept" /\ lconn # None /\ lconn' = None
      /\ conn' = [conn EXCEPT ![lconn] = "closed"]
      /\ sock' = sock /\ events' = events /\ tpc' = tpc
  BY DEF CreateFails, ThreadFails, Refuse, OwnerInvariant, OwnerIsKnown
<1>2. OwnerIsKnown /\ OwnersApart
  BY <1>1 DEF OwnerInvariant
<1>3. /\ conn \in [Connections -> {"connecting", "accepted", "served", "closed", "dropped"}]
      /\ lconn \in Connections /\ None \notin Connections
      /\ \A u \in Units : events[u] \in Seq(Connections) /\ sock[u] \in Connections \cup {None}
  BY <1>1, NoneAssumption DEF UnitInvariant, TypeOK
<1>4. OwnerIsKnown'
  BY <1>1, <1>2, <1>3 DEF OwnerIsKnown
<1>5. OwnersApart'
  <2>1. \A u \in Units : \A i \in 1 .. Len(events[u]) :
           events[u][i] \in Connections /\ events[u][i] # lconn
    BY <1>2, <1>3 DEF OwnersApart
  <2>2. QED  BY <2>1, <1>1, <1>2, <1>3 DEF OwnersApart
<1>6. QED  BY <1>4, <1>5 DEF OwnerInvariant

\* postEvent passes the connection from the listener to the queue of a unit.
LEMMA PostKeepsOwners ==
    ASSUME UnitInvariant, OwnerInvariant, Post
    PROVE  OwnerInvariant'
<1> SUFFICES ASSUME lpc' # "wild" PROVE OwnerIsKnown' /\ OwnersApart'
  BY DEF OwnerInvariant
<1> DEFINE w == ltarget
           n == Len(events[w])
<1>1. /\ lpc = "post" /\ lpc' = "accept" /\ lconn # None /\ lconn' = None
      /\ events' = [events EXCEPT ![w] = Append(@, lconn)]
      /\ sock' = sock /\ conn' = conn /\ tpc' = tpc
  BY DEF Post, OwnerInvariant, OwnerIsKnown
<1>2. OwnerIsKnown /\ OwnersApart
  BY <1>1 DEF OwnerInvariant
<1>3. /\ w \in Units /\ lconn \in Connections /\ None \notin Connections
      /\ events \in [Units -> Seq(Connections)]
  BY <1>1, NoneAssumption DEF UnitInvariant, TypeOK, ListenerIsSound
<1>4. /\ n \in Nat /\ Len(events'[w]) = n + 1 /\ events'[w][n + 1] = lconn
      /\ \A i \in 1 .. n : events'[w][i] = events[w][i]
      /\ \A u \in Units : u # w => events'[u] = events[u]
  BY <1>1, <1>3
<1>5. \A u \in Units : \A i \in 1 .. Len(events[u]) :
         i \in 1 .. Len(events'[u]) /\ events'[u][i] = events[u][i]
  BY <1>3, <1>4
<1>6. \A u \in Units : \A i \in 1 .. Len(events'[u]) :
         \/ i \in 1 .. Len(events[u]) /\ events'[u][i] = events[u][i]
         \/ u = w /\ i = n + 1 /\ events'[u][i] = lconn
  BY <1>3, <1>4
<1> HIDE DEF w, n
<1>7. OwnerIsKnown'
  <2>1. ASSUME NEW c \in Connections, conn'[c] \in {"accepted", "served"}
        PROVE  \/ \E u \in Units : \E i \in 1 .. Len(events'[u]) : events'[u][i] = c
               \/ \E u \in Units : sock'[u] = c
    <3>1. CASE lconn = c
      BY <3>1, <1>3, <1>4
    <3>2. CASE \E u \in Units : \E i \in 1 .. Len(events[u]) : events[u][i] = c
      BY <3>2, <1>5
    <3>3. CASE \E u \in Units : sock[u] = c
      BY <3>3, <1>1
    <3>4. QED  BY <3>1, <3>2, <3>3, <2>1, <1>1, <1>2 DEF OwnerIsKnown
  <2>2. QED  BY <2>1, <1>1, <1>2 DEF OwnerIsKnown
<1>8. OwnersApart'
  <2>1. ASSUME NEW u \in Units, NEW i \in 1 .. Len(events'[u])
        PROVE  /\ conn'[events'[u][i]] = "accepted"
               /\ events'[u][i] # lconn'
               /\ \A v \in Units : sock'[v] # events'[u][i]
    <3>1. CASE i \in 1 .. Len(events[u]) /\ events'[u][i] = events[u][i]
      <4>1. events[u][i] \in Connections
        BY <3>1, <1>3
      <4>2. QED  BY <3>1, <4>1, <1>1, <1>2, <1>3 DEF OwnersApart
    <3>2. CASE events'[u][i] = lconn
      BY <3>2, <1>1, <1>2, <1>3 DEF OwnersApart
    <3>3. QED  BY <3>1, <3>2, <1>6
  <2>2. ASSUME NEW u \in Units, NEW v \in Units, NEW i \in 1 .. Len(events'[u]),
               NEW j \in 1 .. Len(events'[v]), events'[v][j] = events'[u][i]
        PROVE  u = v /\ i = j
    BY <2>2, <1>6, <1>2 DEF OwnersApart
  <2>3. ASSUME NEW u \in Units, sock'[u] # None
        PROVE  /\ conn'[sock'[u]] \in {"accepted", "served"}
               /\ sock'[u] # lconn'
               /\ \A v \in Units : sock'[v] = sock'[u] => u = v
    BY <2>3, <1>1, <1>2 DEF OwnersApart
  <2>4. QED  BY <1>1, <2>1, <2>2, <2>3 DEF OwnersApart
<1>9. QED  BY <1>7, <1>8

\* waitEvent passes the connection from the queue to the thread of the unit.
LEMMA WakeKeepsOwners ==
    ASSUME UnitInvariant, OwnerInvariant, NEW w \in Units, Wake(w)
    PROVE  OwnerInvariant'
<1> DEFINE h == events[w][1]
<1>1. /\ lpc # "wild" /\ lpc' = lpc /\ lconn' = lconn /\ conn' = conn
      /\ tpc[w] \notin Inside /\ tpc' = [tpc EXCEPT ![w] = "resumed"]
      /\ events[w] # <<>> /\ events' = [events EXCEPT ![w] = Tail(@)]
      /\ sock' = [sock EXCEPT ![w] = Head(events[w])]
  BY DEF Wake, At, Inside, listener
<1>2. OwnerIsKnown /\ OwnersApart
  BY <1>1 DEF OwnerInvariant
<1>3. /\ None \notin Connections
      /\ events \in [Units -> Seq(Connections)]
      /\ sock \in [Units -> Connections \cup {None}]
      /\ tpc \in [Units -> Live \cup {"none", "gone"}]
  BY NoneAssumption DEF UnitInvariant, TypeOK
<1>4. /\ Len(events[w]) \in Nat \ {0} /\ h \in Connections /\ sock'[w] = h
      /\ Len(events'[w]) = Len(events[w]) - 1
      /\ \A i \in 1 .. Len(events[w]) - 1 : events'[w][i] = events[w][i + 1]
      /\ \A u \in Units : u # w => events'[u] = events[u] /\ sock'[u] = sock[u]
  BY <1>1, <1>3
<1>5. sock[w] = None
  BY <1>1, <1>2 DEF OwnerIsKnown
<1>6. \A u \in Units : \A i \in 1 .. Len(events'[u]) :
         \E k \in 1 .. Len(events[u]) :
            /\ events'[u][i] = events[u][k]
            /\ k = IF u = w THEN i + 1 ELSE i
  <2>1. ASSUME NEW i \in 1 .. Len(events'[w])
        PROVE  i + 1 \in 1 .. Len(events[w]) /\ events'[w][i] = events[w][i + 1]
    BY <1>4
  <2>2. QED  BY <2>1, <1>4
<1>7. \A u \in Units : \A k \in 1 .. Len(events[u]) :
         (u = w /\ k = 1) \/ \E i \in 1 .. Len(events'[u]) : events'[u][i] = events[u][k]
  <2>1. ASSUME NEW k \in 1 .. Len(events[w]), k # 1
        PROVE  \E i \in 1 .. Len(events'[w]) : events'[w][i] = events[w][k]
    <3>1. PICK i \in 1 .. Len(events[w]) - 1 : i + 1 = k
      <4>1. k - 1 \in 1 .. Len(events[w]) - 1 /\ (k - 1) + 1 = k
        BY <2>1, <1>4
      <4>2. QED  BY <4>1
    <3>2. events'[w][i] = events[w][k]
      BY <3>1, <1>4
    <3>3. QED  BY <3>2, <1>4
  <2>2. ASSUME NEW u \in Units, u # w, NEW k \in 1 .. Len(events[u])
        PROVE  \E i \in 1 .. Len(events'[u]) : events'[u][i] = events[u][k]
    <3>1. events'[u] = events[u]
      BY <2>2, <1>4
    <3>2. QED  BY <3>1
  <2>3. QED  BY <2>1, <2>2
<1>8. OwnerIsKnown'
  <2>1. ASSUME NEW c \in Connections, conn'[c] \in {"accepted", "served"}, lconn' # c
        PROVE  \/ \E u \in Units : \E i \in 1 .. Len(events'[u]) : events'[u][i] = c
               \/ \E u \in Units : sock'[u] = c
    <3>1. CASE \E u \in Units : \E i \in 1 .. Len(events[u]) : events[u][i] = c
      BY <3>1, <1>7, <1>4, SMTT(30)
    <3>2. CASE \E u \in Units : sock[u] = c
      BY <3>2, <1>3, <1>4, <1>5
    <3>3. QED  BY <3>1, <3>2, <2>1, <1>1, <1>2 DEF OwnerIsKnown
  <2>2. ASSUME NEW u \in Units, sock'[u] # None PROVE tpc'[u] \in Inside
    BY <2>2, <1>1, <1>2, <1>3, <1>4 DEF OwnerIsKnown, Inside
  <2>3. QED  BY <2>1, <2>2, <1>1, <1>2 DEF OwnerIsKnown
<1>9. OwnersApart'
  <2>1. ASSUME NEW u \in Units, NEW i \in 1 .. Len(events'[u])
        PROVE  /\ conn'[events'[u][i]] = "accepted"
               /\ events'[u][i] # lconn'
               /\ events'[u][i] # h
               /\ \A v \in Units : sock'[v] # events'[u][i]
    <3>1. PICK k \in 1 .. Len(events[u]) :
             events'[u][i] = events[u][k] /\ k = IF u = w THEN i + 1 ELSE i
      BY <1>6
    <3>2. 1 \in 1 .. Len(events[w]) /\ ~(u = w /\ k = 1)
      BY <3>1, <1>4
    <3>3. events[u][k] # h
      BY <3>1, <3>2, <1>2 DEF OwnersApart
    <3>4. QED  BY <3>1, <3>3, <1>1, <1>2, <1>4 DEF OwnersApart
  <2>2. ASSUME NEW u \in Units, NEW v \in Units, NEW i \in 1 .. Len(events'[u]),
               NEW j \in 1 .. Len(events'[v]), events'[v][j] = events'[u][i]
        PROVE  u = v /\ i = j
    <3>1. PICK k \in 1 .. Len(events[u]) :
             events'[u][i] = events[u][k] /\ k = IF u = w THEN i + 1 ELSE i
      BY <1>6
    <3>2. PICK l \in 1 .. Len(events[v]) :
             events'[v][j] = events[v][l] /\ l = IF v = w THEN j + 1 ELSE j
      BY <1>6
    <3>3. u = v /\ k = l
      BY <2>2, <3>1, <3>2, <1>2 DEF OwnersApart
    <3>4. i \in Int /\ j \in Int
      OBVIOUS
    <3>5. QED  BY <3>1, <3>2, <3>3, <3>4
  <2>3. ASSUME NEW u \in Units, sock'[u] # None
        PROVE  /\ conn'[sock'[u]] \in {"accepted", "served"}
               /\ sock'[u] # lconn'
               /\ \A v \in Units : sock'[v] = sock'[u] => u = v
    <3>1. 1 \in 1 .. Len(events[w])
      BY <1>4
    <3>2. /\ conn[h] = "accepted" /\ h # lconn /\ \A v \in Units : sock[v] # h
      BY <3>1, <1>2 DEF OwnersApart
    <3>3. QED  BY <2>3, <3>2, <1>1, <1>2, <1>4 DEF OwnersApart
  <2>4. QED  BY <1>1, <1>2, <2>1, <2>2, <2>3 DEF OwnersApart
<1>10. QED  BY <1>8, <1>9 DEF OwnerInvariant

\* The thread serves the connection, or closes it and lets it go.
LEMMA ServiceKeepsOwners ==
    ASSUME UnitInvariant, OwnerInvariant, NEW w \in Units, EnterService(w) \/ HangUp(w)
    PROVE  OwnerInvariant'
<1>1. /\ lpc # "wild" /\ lpc' = lpc /\ lconn' = lconn /\ events' = events
      /\ tpc[w] \in Inside
  BY DEF EnterService, HangUp, At, Inside, listener
<1>2. OwnerIsKnown /\ OwnersApart
  BY <1>1 DEF OwnerInvariant
<1>3. /\ None \notin Connections /\ sock[w] \in Connections
      /\ events \in [Units -> Seq(Connections)]
      /\ sock \in [Units -> Connections \cup {None}]
      /\ conn \in [Connections -> {"connecting", "accepted", "served", "closed", "dropped"}]
      /\ tpc \in [Units -> Live \cup {"none", "gone"}]
  BY <1>1, NoneAssumption DEF UnitInvariant, TypeOK, ThreadsHaveUnits
<1>4. /\ \A u \in Units : u # w => sock[u] # sock[w]
      /\ \A u \in Units : \A i \in 1 .. Len(events[u]) :
            events[u][i] \in Connections /\ events[u][i] # sock[w]
      /\ lconn # sock[w]
  BY <1>2, <1>3 DEF OwnersApart
<1>5. \A u \in Units : u # w => tpc'[u] = tpc[u]
  BY <1>3 DEF EnterService, HangUp
<1>6. CASE EnterService(w)
  <2>1. sock' = sock /\ conn' = [conn EXCEPT ![sock[w]] = "served"] /\ tpc'[w] \in Inside
    BY <1>6, <1>3 DEF EnterService, Inside
  <2>2. OwnerIsKnown'
    BY <2>1, <1>1, <1>2, <1>3, <1>5 DEF OwnerIsKnown
  <2>3. OwnersApart'
    BY <2>1, <1>1, <1>2, <1>3, <1>4 DEF OwnersApart
  <2>4. QED  BY <2>2, <2>3 DEF OwnerInvariant
<1>7. CASE HangUp(w)
  <2>1. /\ sock' = [sock EXCEPT ![w] = None]
        /\ conn' = [conn EXCEPT ![sock[w]] = "closed"]
    BY <1>7 DEF HangUp
  <2>2. OwnerIsKnown'
    BY <2>1, <1>1, <1>2, <1>3, <1>5 DEF OwnerIsKnown
  <2>3. OwnersApart'
    BY <2>1, <1>1, <1>2, <1>3, <1>4 DEF OwnersApart
  <2>4. QED  BY <2>2, <2>3 DEF OwnerInvariant
<1>8. QED  BY <1>6, <1>7

\* The connections in the queue of a destroyed unit are dropped, no others.
LEMMA DestroyKeepsOwners ==
    ASSUME UnitInvariant, OwnerInvariant, NEW w \in Units, DestroyUnit(w)
    PROVE  OwnerInvariant'
<1>1. /\ lpc # "wild" /\ lpc' = lpc /\ lconn' = lconn /\ sock' = sock
      /\ tpc[w] \notin Inside /\ tpc' = [tpc EXCEPT ![w] = "gone"]
      /\ events' = [events EXCEPT ![w] = <<>>]
      /\ conn' = [c \in Connections |->
                    IF \E i \in 1 .. Len(events[w]) : events[w][i] = c
                    THEN "dropped" ELSE conn[c]]
  BY DEF DestroyUnit, At, Inside, listener
<1>2. OwnerIsKnown /\ OwnersApart
  BY <1>1 DEF OwnerInvariant
<1>3. /\ None \notin Connections /\ lconn \in Connections \cup {None}
      /\ events \in [Units -> Seq(Connections)]
      /\ sock \in [Units -> Connections \cup {None}]
      /\ tpc \in [Units -> Live \cup {"none", "gone"}]
  BY NoneAssumption DEF UnitInvariant, TypeOK
<1>4. events'[w] = <<>> /\ Len(events'[w]) = 0 /\ \A u \in Units : u # w => events'[u] = events[u]
  BY <1>1, <1>3
<1>5. OwnerIsKnown'
  <2>1. ASSUME NEW c \in Connections, conn'[c] \in {"accepted", "served"}
        PROVE  \/ lconn' = c
               \/ \E u \in Units : \E i \in 1 .. Len(events'[u]) : events'[u][i] = c
               \/ \E u \in Units : sock'[u] = c
    <3>1. conn[c] \in {"accepted", "served"} /\ ~\E i \in 1 .. Len(events[w]) : events[w][i] = c
      BY <2>1, <1>1
    <3>2. QED  BY <3>1, <1>1, <1>2, <1>4 DEF OwnerIsKnown
  <2>2. \A u \in Units : sock'[u] # None => tpc'[u] \in Inside
    BY <1>1, <1>2, <1>3 DEF OwnerIsKnown
  <2>3. QED  BY <2>1, <2>2, <1>1, <1>2 DEF OwnerIsKnown
<1>6. OwnersApart'
  <2>1. ASSUME NEW u \in Units, NEW i \in 1 .. Len(events'[u])
        PROVE  u # w /\ events'[u] = events[u] /\ conn'[events[u][i]] = conn[events[u][i]]
    <3>1. u # w /\ events'[u] = events[u] /\ events[u][i] \in Connections
      BY <1>3, <1>4
    <3>2. QED  BY <3>1, <1>1, <1>2 DEF OwnersApart
  <2>2. \A u \in Units : sock[u] # None => conn'[sock[u]] = conn[sock[u]]
    BY <1>1, <1>2, <1>3 DEF OwnersApart
  <2>3. lconn # None => conn'[lconn] = conn[lconn]
    BY <1>1, <1>2, <1>3 DEF OwnersApart
  <2>4. QED  BY <2>1, <2>2, <2>3, <1>1, <1>2 DEF OwnersApart
<1>7. QED  BY <1>5, <1>6 DEF OwnerInvariant

\* The process starts without connections in anybody's hand.
LEMMA InitOwners == Init => OwnerInvariant
BY NoneAssumption DEF Init, OwnerInvariant, OwnerIsKnown, OwnersApart

\* A connection is handed from accept through startEDU and the event queue to an
\* agent thread and closed once, in every interleaving, for any number of
\* connections and units: no hand keeps a connection it passed on.
THEOREM OwnersAreTracked == Spec => []OwnerInvariant
<1>1. Init => OwnerInvariant
  BY InitOwners
<1>2. UnitInvariant /\ OwnerInvariant /\ [Next]_vars => OwnerInvariant'
  <2> SUFFICES ASSUME UnitInvariant, OwnerInvariant, [Next]_vars PROVE OwnerInvariant'
    OBVIOUS
  <2>1. ASSUME NEW c \in Connections, Accept(c) PROVE OwnerInvariant'
    BY <2>1, AcceptKeepsOwners
  <2>2. CASE AcceptFails
    BY <2>2, ListenerKeepsOwners
  <2>3. CASE ListenerStep
    BY <2>3, ListenerKeepsOwners, RefuseKeepsOwners, PostKeepsOwners DEF ListenerStep
  <2>4. ASSUME NEW u \in Units, UnitStep(u) PROVE OwnerInvariant'
    BY <2>4, ThreadKeepsOwners, WakeKeepsOwners, ServiceKeepsOwners, DestroyKeepsOwners
       DEF UnitStep
  <2>5. ASSUME NEW u \in Units, IdleTooLong(u) \/ Receive(u) \/ Reply(u) \/ HangUp(u)
        PROVE  OwnerInvariant'
    BY <2>5, ThreadKeepsOwners, ServiceKeepsOwners
  <2>6. CASE UNCHANGED vars
    BY <2>6 DEF vars, queues, listener, history, OwnerInvariant, OwnerIsKnown, OwnersApart
  <2>7. QED  BY <2>1, <2>2, <2>3, <2>4, <2>5, <2>6 DEF Next
<1>3. QED  BY <1>1, <1>2, UnitsAreConsistent, PTL DEF Spec

\* Every open connection has exactly one owner, every other none: no connection
\* is served twice, leaked by the listener, or closed while a unit has it.
THEOREM ConnectionsHaveOneOwner == Spec => []ConnectionHasOneOwner
<1>1. UnitInvariant /\ OwnerInvariant => ConnectionHasOneOwner
  <2> SUFFICES ASSUME UnitInvariant, OwnerInvariant, lpc # "wild", NEW c \in Connections
               PROVE  Cardinality(Holders(c)) =
                         IF conn[c] \in {"accepted", "served"} THEN 1 ELSE 0
    BY DEF ConnectionHasOneOwner
  <2>1. OwnerIsKnown /\ OwnersApart /\ c # None
    BY NoneAssumption DEF OwnerInvariant
  <2>2. CASE lconn = c
    <3>1. conn[c] = "accepted"
      BY <2>1, <2>2 DEF OwnersApart
    <3>2. Holders(c) = {<<"listener", Listener>>}
      BY <2>1, <2>2 DEF OwnersApart, Holders
    <3>3. QED  BY <3>1, <3>2, FS_Singleton
  <2>3. ASSUME NEW u \in Units, NEW i \in 1 .. Len(events[u]), events[u][i] = c
        PROVE  Cardinality(Holders(c)) =
                  IF conn[c] \in {"accepted", "served"} THEN 1 ELSE 0
    <3>1. conn[c] = "accepted"
      BY <2>1, <2>3 DEF OwnersApart
    <3>2. Holders(c) = {<<"event", u>>}
      BY <2>1, <2>3 DEF OwnersApart, Holders
    <3>3. QED  BY <3>1, <3>2, FS_Singleton
  <2>4. ASSUME NEW u \in Units, sock[u] = c
        PROVE  Cardinality(Holders(c)) =
                  IF conn[c] \in {"accepted", "served"} THEN 1 ELSE 0
    <3>1. conn[c] \in {"accepted", "served"}
      BY <2>1, <2>4 DEF OwnersApart
    <3>2. Holders(c) = {<<"socket", u>>}
      BY <2>1, <2>4 DEF OwnersApart, Holders
    <3>3. QED  BY <3>1, <3>2, FS_Singleton
  <2>5. CASE /\ lconn # c
             /\ ~\E u \in Units : \E i \in 1 .. Len(events[u]) : events[u][i] = c
             /\ ~\E u \in Units : sock[u] = c
    <3>1. conn[c] \notin {"accepted", "served"}
      BY <2>1, <2>5 DEF OwnerIsKnown
    <3>2. Holders(c) = {}
      BY <2>5 DEF Holders
    <3>3. QED  BY <3>1, <3>2, FS_EmptySet
  <2>6. QED  BY <2>2, <2>3, <2>4, <2>5
<1>2. QED  BY <1>1, UnitsAreConsistent, OwnersAreTracked, PTL
=============================================================================
