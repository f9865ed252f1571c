------------------------------ MODULE KVStore ------------------------------
(***************************************************************************)
(* What the run-time layer (class rtn) promises its agents: a map from     *)
(* unique _ids to documents.  An update takes effect in one step between   *)
(* the call and the answer; an answer that refuses an operation, and the   *)
(* document a query returns, were true at some moment of the call.  A      *)
(* crash ends all calls and keeps every binding; an update it interrupts   *)
(* may have been made or not.                                              *)
(***************************************************************************)
CONSTANTS
    Threads,  \* agents
    Ids,      \* _id values
    Values,   \* the rest of a document
    Missing   \* "no document with this _id"

VARIABLES
    store,    \* the document stored under each _id
    call,     \* the operation each agent waits for
    seen,     \* what the _id of each pending call was bound to so far
    answer,   \* what the last operation of each agent returned
    up        \* the server is running

vars == <<store, call, seen, answer, up>>

Operations == {"insert", "find", "remove"}
NoCall == [op |-> "none", id |-> Missing, val |-> Missing]
Failure == [code |-> "failed", val |-> Missing]
Refused == [code |-> "refused", val |-> Missing]
Success(v) == [code |-> "ok", val |-> v]

Init ==
    /\ store = [i \in Ids |-> Missing]
    /\ call = [t \in Threads |-> NoCall]
    /\ seen = [t \in Threads |-> {}]
    /\ answer = [t \in Threads |-> Failure]
    /\ up = TRUE

Call(t, op, i, v) ==
    /\ up
    /\ call[t] = NoCall
    /\ op \in Operations
    /\ call' = [call EXCEPT ![t] = [op |-> op, id |-> i, val |-> v]]
    /\ seen' = [seen EXCEPT ![t] = {store[i]}]
    /\ UNCHANGED <<store, answer, up>>

\* Bind _id i to v; every pending call on i sees it.
Bind(i, v) ==
    /\ store' = [store EXCEPT ![i] = v]
    /\ seen' = [t \in Threads |-> IF call[t].id = i THEN seen[t] \cup {v} ELSE seen[t]]

\* An insert binds a free _id, a remove frees a bound one.
TakeEffect(t) ==
    /\ \/ /\ call[t].op = "insert"
          /\ store[call[t].id] = Missing
          /\ Bind(call[t].id, call[t].val)
       \/ /\ call[t].op = "remove"
          /\ store[call[t].id] # Missing
          /\ Bind(call[t].id, Missing)
    /\ call' = [call EXCEPT ![t].op = "done"]
    /\ UNCHANGED <<answer, up>>

Return(t, a) ==
    /\ call' = [call EXCEPT ![t] = NoCall]
    /\ seen' = [seen EXCEPT ![t] = {}]
    /\ answer' = [answer EXCEPT ![t] = a]
    /\ UNCHANGED <<store, up>>

\* A request without a proper _id is answered at once.
Reject(t) ==
    /\ up
    /\ call[t] = NoCall
    /\ answer' = [answer EXCEPT ![t] = Failure]
    /\ UNCHANGED <<store, call, seen, up>>

Answer(t) ==
    \/ call[t].op = "done" /\ Return(t, Success(Missing))
    \/ /\ call[t].op = "find"
       /\ \E v \in seen[t] \ {Missing} : Return(t, Success(v))
    \/ /\ call[t].op \in {"find", "remove"}
       /\ Missing \in seen[t]
       /\ Return(t, Refused)
    \/ /\ call[t].op = "insert"
       /\ seen[t] # {Missing}
       /\ Return(t, Refused)
    \/ call[t].op = "insert" /\ Return(t, Failure)

\* An update of i that a crash interrupts may leave this document behind.
Interrupted(i) ==
    UNION {(seen[t] \cup {call[t].val}) \ {Missing} :
             t \in {u \in Threads : call[u].id = i /\ call[u].op \in {"insert", "done"}}}

\* A bound _id keeps its document; a free one stays free unless an interrupted
\* update says otherwise.  The server comes up again unless an update that had
\* taken effect was interrupted.
Crash ==
    /\ up
    /\ \/ /\ up' = TRUE
          /\ \A i \in Ids :
                store'[i] \in {store[i]} \cup (IF store[i] = Missing THEN Interrupted(i) ELSE {})
       \/ /\ up' = FALSE
          /\ \E t \in Threads : call[t].op = "done"
          /\ store' = [i \in Ids |-> Missing]
    /\ call' = [t \in Threads |-> NoCall]
    /\ seen' = [t \in Threads |-> {}]
    /\ answer' = [t \in Threads |-> Failure]

Next ==
    \/ \E t \in Threads :
          \/ \E op \in Operations, i \in Ids, v \in Values \cup {Missing} :
                Call(t, op, i, v)
          \/ TakeEffect(t)
          \/ Answer(t)
          \/ Reject(t)
    \/ Crash

Spec == Init /\ [][Next]_vars
=============================================================================
