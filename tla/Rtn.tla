-------------------------------- MODULE Rtn --------------------------------
(***************************************************************************)
(* The run-time layer: rtnInsert, rtnFind and rtnRemove (src/rtn/rtn.cpp)  *)
(* over the _id index (src/ixm/ixmBucket.cpp) and the data file            *)
(* (src/dms/dms.cpp), called by the agent threads.                         *)
(*                                                                         *)
(* Every call into the index runs under the latch of the bucket, every     *)
(* call into the file under dmsFile::_mutex, so each is one step; nothing  *)
(* joins the two or three calls of an operation.  hashFunc is constant, so *)
(* all entries share one bucket.  A rid is a number here: slots are never  *)
(* reused (DmsPage), so every insert has a new one.                        *)
(***************************************************************************)
EXTENDS Naturals, FiniteSets

CONSTANTS
    Threads,    \* agent threads
    Ids,        \* _id values
    Values,     \* the rest of a document
    MayInsert,  \* MayInsert[t]: the _ids that the client of t inserts
    MaxRids,    \* bound: records ever written to the file
    MaxCrashes, \* bound: crashes of the server
    Missing

ASSUME MayInsertAssumption == MayInsert \in [Threads -> SUBSET Ids]
ASSUME BoundsAssumption == MaxRids \in Nat /\ MaxCrashes \in Nat
ASSUME MissingAssumption == Missing \notin Ids /\ Missing \notin Values

Rids == 1 .. MaxRids
Docs == [id : Ids, val : Values]
NoDoc == [id |-> Missing, val |-> Missing]    \* DMS_SLOT_EMPTY

VARIABLES
    slots,    \* the data file: the document of every rid
    written,  \* number of rids handed out
    index,    \* _bucketMap: entries [id, rid]
    pc, arg, rid,   \* next call, argument and rid of each thread's operation
    answer,   \* what the last operation of each thread returned
    serving,  \* the server started
    crashes,  \* history: crashes so far
    acked,    \* history: rids whose insert returned, before their removal
    seen      \* history: what the _id of each pending call was bound to

vars == <<slots, written, index, pc, arg, rid, answer, serving, crashes, acked, seen>>

PCs == {"idle", "isIDExist", "dmsInsert", "createIndex", "inserted", "findIndex",
        "dmsFind", "removeIndex", "dmsRemove"}
Codes == {"ok", "refused", "failed"}
NoRid == 0

TypeOK ==
    /\ slots \in [Rids -> Docs \cup {NoDoc}]
    /\ written \in 0 .. MaxRids
    /\ index \subseteq [id : Ids, rid : Rids]
    /\ pc \in [Threads -> PCs]
    /\ arg \in [Threads -> [id : Ids \cup {Missing}, val : Values \cup {Missing}]]
    /\ rid \in [Threads -> Rids \cup {NoRid}]
    /\ answer \in [Threads -> [code : Codes, val : Values \cup {Missing}]]
    /\ serving \in BOOLEAN
    /\ crashes \in 0 .. MaxCrashes
    /\ acked \subseteq Rids
    /\ seen \in [Threads -> SUBSET (Values \cup {Missing})]

Entry(i, r) == [id |-> i, rid |-> r]
EntriesOf(i) == {e \in index : e.id = i}

\* A slip: the test never finds the _id.
ExistsNever(i) == FALSE

\* isIDExist, and the bucket after removeIndex erased an entry.
Exists(i) == EntriesOf(i) # {}

\* A slip: the entry is found but not erased.
ErasedNever(e) == index
Erased(e) == index \ {e}

\* The rid of the next record written: slots are not reused.
NextRid == written + 1

\* What a file and an index say about an _id.
Bound(file, ix, i) ==
    IF \E e \in ix : e.id = i
    THEN file[(CHOOSE e \in ix : e.id = i).rid].val ELSE Missing

Init ==
    /\ slots = [r \in Rids |-> NoDoc]
    /\ written = 0
    /\ index = {}
    /\ pc = [t \in Threads |-> "idle"]
    /\ arg = [t \in Threads |-> NoDoc]
    /\ rid = [t \in Threads |-> NoRid]
    /\ answer = [t \in Threads |-> [code |-> "failed", val |-> Missing]]
    /\ serving = TRUE
    /\ crashes = 0
    /\ acked = {}
    /\ seen = [t \in Threads |-> {}]

Begin(t, l, d) ==
    /\ serving
    /\ pc[t] = "idle"
    /\ pc' = [pc EXCEPT ![t] = l]
    /\ arg' = [arg EXCEPT ![t] = d]
    /\ seen' = [seen EXCEPT ![t] = {Bound(slots, index, d.id)}]
    /\ UNCHANGED <<slots, written, index, rid, answer, serving, crashes, acked>>

Return(t, code, v) ==
    /\ pc' = [pc EXCEPT ![t] = "idle"]
    /\ arg' = [arg EXCEPT ![t] = NoDoc]
    /\ rid' = [rid EXCEPT ![t] = NoRid]
    /\ answer' = [answer EXCEPT ![t] = [code |-> code, val |-> v]]
    /\ seen' = [seen EXCEPT ![t] = {}]

\* A request whose document has no _id, or one that is neither a number nor a
\* string, ends in the handler or in the first call of the index.
Reject(t) ==
    /\ serving
    /\ pc[t] = "idle"
    /\ answer' = [answer EXCEPT ![t] = [code |-> "failed", val |-> Missing]]
    /\ UNCHANGED <<slots, written, index, pc, arg, rid, serving, crashes, acked, seen>>

Goto(t, l) == pc' = [pc EXCEPT ![t] = l] /\ UNCHANGED <<arg, answer>>

\* The index changes: pending calls on _id i see the new binding.
Reindex(i, ix) ==
    /\ index' = ix
    /\ seen' = [t \in Threads |->
                  IF arg[t].id = i THEN seen[t] \cup {Bound(slots, ix, i)} ELSE seen[t]]
-----------------------------------------------------------------------------
(* rtnInsert: isIDExist, dmsFile::insert, createIndex.                     *)

BeginInsert(t, d) == d.id \in MayInsert[t] /\ Begin(t, "isIDExist", d)

IsIDExist(t) ==
    /\ pc[t] = "isIDExist"
    /\ IF Exists(arg[t].id)
       THEN Return(t, "refused", Missing)          \* EDB_IXM_ID_EXIST
       ELSE Goto(t, "dmsInsert") /\ UNCHANGED <<rid, seen>>
    /\ UNCHANGED <<slots, written, index, serving, crashes, acked>>

DmsInsert(t) ==
    /\ pc[t] = "dmsInsert"
    /\ written < MaxRids
    /\ written' = written + 1
    /\ slots' = [slots EXCEPT ![NextRid] = arg[t]]
    /\ rid' = [rid EXCEPT ![t] = NextRid]
    /\ Goto(t, "createIndex")
    /\ UNCHANGED <<index, serving, crashes, acked, seen>>

\* The file refuses the record (DmsFile says when).
DmsInsertFails(t) ==
    /\ pc[t] = "dmsInsert"
    /\ Return(t, "failed", Missing)
    /\ UNCHANGED <<slots, written, index, serving, crashes, acked>>

\* No second look for the _id: the entry is added.
CreateIndex(t) ==
    /\ pc[t] = "createIndex"
    /\ Reindex(arg[t].id, index \cup {Entry(arg[t].id, rid[t])})
    /\ Goto(t, "inserted")
    /\ UNCHANGED <<slots, written, rid, serving, crashes, acked>>

InsertReturns(t) ==
    /\ pc[t] = "inserted"
    /\ acked' = acked \cup {r \in {rid[t]} : Entry(arg[t].id, r) \in index}
    /\ Return(t, "ok", Missing)
    /\ UNCHANGED <<slots, written, index, serving, crashes>>
-----------------------------------------------------------------------------
(* rtnFind: findIndex, dmsFile::find.  Where an _id has several entries,   *)
(* any of them may be the first in the bucket.                             *)

BeginFind(t, i) == Begin(t, "findIndex", [id |-> i, val |-> Missing])

FindIndex(t) ==
    /\ pc[t] = "findIndex"
    /\ \/ /\ ~Exists(arg[t].id)
          /\ Return(t, "refused", Missing)         \* EDB_INVALIDARG
       \/ \E e \in EntriesOf(arg[t].id) :
             /\ rid' = [rid EXCEPT ![t] = e.rid]
             /\ Goto(t, "dmsFind")
             /\ UNCHANGED seen
    /\ UNCHANGED <<slots, written, index, serving, crashes, acked>>

\* The slot may have been emptied since findIndex: EDB_SYS.
DmsFind(t) ==
    /\ pc[t] = "dmsFind"
    /\ IF slots[rid[t]] = NoDoc
       THEN Return(t, "refused", Missing)
       ELSE Return(t, "ok", slots[rid[t]].val)
    /\ UNCHANGED <<slots, written, index, serving, crashes, acked>>
-----------------------------------------------------------------------------
(* rtnRemove: removeIndex, dmsFile::remove.                                *)

BeginRemove(t, i) == Begin(t, "removeIndex", [id |-> i, val |-> Missing])

RemoveIndex(t) ==
    /\ pc[t] = "removeIndex"
    /\ \/ /\ ~Exists(arg[t].id)
          /\ Return(t, "refused", Missing)         \* EDB_INVALIDARG
          /\ UNCHANGED <<index, acked>>
       \/ \E e \in EntriesOf(arg[t].id) :
             /\ Reindex(arg[t].id, Erased(e))
             /\ rid' = [rid EXCEPT ![t] = e.rid]
             /\ acked' = acked \ {e.rid}
             /\ Goto(t, "dmsRemove")
    /\ UNCHANGED <<slots, written, serving, crashes>>

DmsRemove(t) ==
    /\ pc[t] = "dmsRemove"
    /\ IF slots[rid[t]] = NoDoc
       THEN Return(t, "failed", Missing) /\ UNCHANGED slots
       ELSE /\ slots' = [slots EXCEPT ![rid[t]] = NoDoc]
            /\ Return(t, "ok", Missing)
    /\ UNCHANGED <<written, index, serving, crashes, acked>>
-----------------------------------------------------------------------------
\* A slip: the loop over the slots starts at one.
LoadedFromOne == {Entry(slots[r].id, r) : r \in {r \in Rids : r > 1 /\ slots[r] # NoDoc}}

\* What _loadData enters into the index.
Loaded == {Entry(slots[r].id, r) : r \in {r \in Rids : slots[r] # NoDoc}}
Unique(ix) == \A e, f \in ix : e.id = f.id => e = f

\* The server dies and starts again: _loadData indexes every stored record
\* and gives up, and with it the server, when an _id comes twice.
Crash ==
    /\ serving
    /\ crashes < MaxCrashes
    /\ crashes' = crashes + 1
    /\ serving' = Unique(Loaded)
    /\ index' = IF Unique(Loaded) THEN Loaded ELSE {}
    /\ pc' = [t \in Threads |-> "idle"]
    /\ arg' = [t \in Threads |-> NoDoc]
    /\ rid' = [t \in Threads |-> NoRid]
    /\ answer' = [t \in Threads |-> [code |-> "failed", val |-> Missing]]
    /\ seen' = [t \in Threads |-> {}]
    /\ UNCHANGED <<slots, written, acked>>

Next ==
    \/ \E t \in Threads :
          \/ \E d \in Docs : BeginInsert(t, d)
          \/ \E i \in Ids : BeginFind(t, i) \/ BeginRemove(t, i)
          \/ Reject(t)
          \/ IsIDExist(t) \/ DmsInsert(t) \/ DmsInsertFails(t) \/ CreateIndex(t)
          \/ InsertReturns(t)
          \/ FindIndex(t) \/ DmsFind(t)
          \/ RemoveIndex(t) \/ DmsRemove(t)
    \/ Crash

Spec == Init /\ [][Next]_vars
-----------------------------------------------------------------------------
\* The index and the file agree at every step of every interleaving: an entry
\* leads to a stored document with its _id, a stored document has its entry
\* unless a thread is between the two calls that write or delete both, and
\* only one thread is.
IndexMatchesFile ==
    serving =>
        /\ \A e \in index : slots[e.rid] # NoDoc /\ slots[e.rid].id = e.id
        /\ \A r \in Rids : slots[r] # NoDoc =>
              \/ Entry(slots[r].id, r) \in index
              \/ \E t \in Threads : pc[t] \in {"createIndex", "dmsRemove"} /\ rid[t] = r

\* An acknowledged record that nobody started to remove is in the index, also
\* after every restart that succeeds.
AckedIsIndexed ==
    serving => \A r \in acked : slots[r] # NoDoc /\ Entry(slots[r].id, r) \in index

\* No _id is inserted by two clients.
Disjoint == \A t, u \in Threads : t # u => MayInsert[t] \cap MayInsert[u] = {}

\* Where no _id is inserted by two clients, the index binds it at most once,
\* although isIDExist and createIndex are two calls.
UniqueIds == Disjoint => Unique(index)

\* remove never finds the slot of the rid it took out of the index empty: no
\* other thread deletes the record between its two calls.
RemoveFindsItsRecord ==
    \A t \in Threads : pc[t] = "dmsRemove" => slots[rid[t]] # NoDoc
-----------------------------------------------------------------------------
(* The inductive invariant behind these properties.                        *)

Checked == {"dmsInsert", "createIndex"}        \* isIDExist has passed
Holding == {"createIndex", "dmsRemove"}        \* a record without its entry

\* What a thread knows of its operation.
Locals ==
    \A t \in Threads :
        /\ pc[t] # "idle" => arg[t].id \in Ids /\ serving
        /\ pc[t] \in {"isIDExist", "dmsInsert", "createIndex"} =>
              arg[t] \in Docs /\ arg[t].id \in MayInsert[t]
        /\ pc[t] \in Holding \cup {"inserted", "dmsFind"} => rid[t] \in Rids

\* Rids are handed out in order, entries lead to records of their _id.
EntriesSound ==
    /\ \A r \in Rids : r > written => slots[r] = NoDoc
    /\ \A e \in index : slots[e.rid] # NoDoc /\ slots[e.rid].id = e.id

\* A record without an entry is in the hands of exactly one thread.
OneHolder ==
    /\ \A t \in Threads : pc[t] \in Holding =>
          slots[rid[t]] # NoDoc /\ \A e \in index : e.rid # rid[t]
    /\ \A t \in Threads : pc[t] = "createIndex" => slots[rid[t]] = arg[t]
    /\ \A t, u \in Threads : t # u /\ pc[t] \in Holding /\ pc[u] \in Holding => rid[t] # rid[u]
    /\ serving => \A r \in Rids : slots[r] # NoDoc =>
          \/ Entry(slots[r].id, r) \in index
          \/ \E t \in Threads : pc[t] \in Holding /\ rid[t] = r

\* An acknowledged record is stored, and indexed while the server is up.
AckedStored ==
    \A r \in acked : slots[r] # NoDoc /\ (serving => Entry(slots[r].id, r) \in index)

\* The _id an insert found absent stays absent until its entry is made.
IdReserved ==
    Disjoint => /\ Unique(index)
                /\ \A t \in Threads : pc[t] \in Checked => EntriesOf(arg[t].id) = {}

\* Index, file and threads fit together at every step.
RtnInvariant ==
    TypeOK /\ Locals /\ EntriesSound /\ OneHolder /\ AckedStored /\ IdReserved
-----------------------------------------------------------------------------
(* The layer implements the abstract store.                                *)

\* The abstract operation of a thread whose next call is l.
AbstractOp(l) ==
    CASE l \in {"isIDExist", "dmsInsert", "createIndex"} -> "insert"
      [] l \in {"findIndex", "dmsFind"} -> "find"
      [] l = "removeIndex" -> "remove"
      [] l \in {"inserted", "dmsRemove"} -> "done"
      [] l = "idle" -> "none"

Bindings == [i \in Ids |-> Bound(slots, index, i)]
Calls == [t \in Threads |-> [op |-> AbstractOp(pc[t]), id |-> arg[t].id, val |-> arg[t].val]]

Store == INSTANCE KVStore WITH store <- Bindings, up <- serving, call <- Calls

\* Where no _id is inserted by two clients, the layer is the abstract store:
\* updates are atomic, every answer was true at some moment of its call, and a
\* restart from the file loses no binding and invents none.
ImplementsStore == Store!Spec

\* A pending call has seen the present binding of its _id; what dmsFind will
\* return was the binding at some moment of the call, and so was the record
\* that dmsRemove will empty.
SeenSound ==
    Disjoint => \A t \in Threads :
        /\ pc[t] = "idle" => arg[t] = NoDoc
        /\ pc[t] # "idle" => Bound(slots, index, arg[t].id) \in seen[t]
        /\ pc[t] = "dmsFind" =>
              /\ rid[t] <= written
              /\ slots[rid[t]] # NoDoc => slots[rid[t]].val \in seen[t]
              /\ Entry(arg[t].id, rid[t]) \in index \/ Missing \in seen[t]
        /\ pc[t] = "dmsRemove" =>
              slots[rid[t]].id = arg[t].id /\ slots[rid[t]].val \in seen[t]

\* The layer at every step, with what its answers may rest on.
StoreInvariant == RtnInvariant /\ SeenSound
-----------------------------------------------------------------------------
(* What the documentation and the comments say, and the code does not do.  *)

\* "check if _id exists" (rtn.cpp), "the column value should be unique"
\* (README): whoever inserts, an _id is bound at most once.
IdsStayUnique == Unique(index)

\* "for each record in the page, let's insert into index" (dms.cpp): the
\* records that were stored are all loaded and the server starts.
ServerStartsAgain == serving
=============================================================================
