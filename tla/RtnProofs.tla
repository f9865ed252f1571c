----------------------------- MODULE RtnProofs -----------------------------
(***************************************************************************)
(* Proofs about Rtn, for any number of agents, _ids, documents and         *)
(* crashes: RtnInvariant is inductive, and the properties of the index and *)
(* the file follow from it.  With what each call may answer (StoreInvar-   *)
(* iant) the layer implements KVStore, step by step, for disjoint clients. *)
(***************************************************************************)
EXTENDS Rtn, TLAPS

\* DMS_SLOT_EMPTY is no document.
LEMMA NoDocIsNoDocument == NoDoc \notin Docs
  BY MissingAssumption DEF NoDoc, Docs

\* What the index says about an _id is a value or Missing.
LEMMA BoundType ==
  ASSUME TypeOK, NEW ix \in SUBSET [id : Ids, rid : Rids], NEW i
  PROVE  Bound(slots, ix, i) \in Values \cup {Missing}
  <1>1. CASE \E e \in ix : e.id = i
    <2> DEFINE e == CHOOSE e \in ix : e.id = i
    <2>1. e \in ix
      BY <1>1
    <2>2. slots[e.rid] \in Docs \cup {NoDoc}
      BY <2>1 DEF TypeOK
    <2>3. slots[e.rid].val \in Values \cup {Missing}
      BY <2>2 DEF Docs, NoDoc
    <2> QED
      BY <1>1, <2>3 DEF Bound
  <1>2. CASE ~ \E e \in ix : e.id = i
    BY <1>2 DEF Bound
  <1> QED
    BY <1>1, <1>2

\* A Return leaves its thread idle and well typed.
LEMMA ReturnType ==
  ASSUME TypeOK, NEW t \in Threads, NEW code \in Codes, NEW v \in Values \cup {Missing},
         Return(t, code, v)
  PROVE  /\ pc' \in [Threads -> PCs]
         /\ arg' \in [Threads -> [id : Ids \cup {Missing}, val : Values \cup {Missing}]]
         /\ rid' \in [Threads -> Rids \cup {NoRid}]
         /\ answer' \in [Threads -> [code : Codes, val : Values \cup {Missing}]]
         /\ seen' \in [Threads -> SUBSET (Values \cup {Missing})]
         /\ pc'[t] = "idle"
         /\ \A u \in Threads : u # t => pc'[u] = pc[u] /\ arg'[u] = arg[u] /\ rid'[u] = rid[u]
  BY DEF TypeOK, Return, PCs, NoDoc

\* Pending calls see a well-typed binding.
LEMMA ReindexType ==
  ASSUME TypeOK, NEW i, NEW ix \in SUBSET [id : Ids, rid : Rids], Reindex(i, ix)
  PROVE  index' = ix /\ seen' \in [Threads -> SUBSET (Values \cup {Missing})]
  BY BoundType DEF TypeOK, Reindex

LEMMA InitInvariant == Init => RtnInvariant
  <1> SUFFICES ASSUME Init PROVE RtnInvariant
    OBVIOUS
  <1> USE DEF Init
  <1>1. TypeOK
    BY BoundsAssumption DEF TypeOK, PCs, NoDoc, Codes
  <1>2. Locals /\ EntriesSound /\ OneHolder /\ AckedStored
    BY DEF Locals, EntriesSound, OneHolder, AckedStored, Holding
  <1>3. IdReserved
    BY DEF IdReserved, Unique, Checked
  <1> QED
    BY <1>1, <1>2, <1>3 DEF RtnInvariant
-----------------------------------------------------------------------------
(* An operation that begins, or ends without a record in its hands.        *)

LEMMA BeginInv ==
  ASSUME RtnInvariant, NEW t \in Threads, NEW l, NEW d, Begin(t, l, d),
         d \in [id : Ids, val : Values \cup {Missing}],
         \/ l = "isIDExist" /\ d \in Docs /\ d.id \in MayInsert[t]
         \/ l \in {"findIndex", "removeIndex"}
  PROVE  RtnInvariant'
  <1> USE DEF RtnInvariant, Begin
  <1>1. TypeOK'
    <2>1. Bound(slots, index, d.id) \in Values \cup {Missing}
      BY BoundType DEF TypeOK
    <2>2. pc' \in [Threads -> PCs]
      BY DEF TypeOK, PCs
    <2>3. arg' \in [Threads -> [id : Ids \cup {Missing}, val : Values \cup {Missing}]]
      BY DEF TypeOK
    <2>4. seen' \in [Threads -> SUBSET (Values \cup {Missing})]
      BY <2>1 DEF TypeOK
    <2> QED
      BY <2>2, <2>3, <2>4 DEF TypeOK
  <1>2. Locals'
    BY DEF TypeOK, Locals, Holding
  <1>3. EntriesSound' /\ AckedStored'
    BY DEF EntriesSound, AckedStored
  <1>4. OneHolder'
    BY DEF TypeOK, OneHolder, Holding
  <1>5. IdReserved'
    BY DEF TypeOK, IdReserved, Checked, EntriesOf
  <1> QED
    BY <1>1, <1>2, <1>3, <1>4, <1>5

LEMMA RejectInv ==
  ASSUME RtnInvariant, NEW t \in Threads, Reject(t) PROVE RtnInvariant'
  <1> USE DEF RtnInvariant, Reject
  <1>1. TypeOK'
    BY DEF TypeOK, Codes
  <1>2. Locals' /\ EntriesSound' /\ OneHolder' /\ AckedStored' /\ IdReserved'
    BY DEF Locals, EntriesSound, OneHolder, AckedStored, IdReserved, EntriesOf
  <1> QED
    BY <1>1, <1>2

LEMMA PlainReturnInv ==
  ASSUME RtnInvariant, NEW t \in Threads, NEW code \in Codes, NEW v \in Values \cup {Missing},
         Return(t, code, v), pc[t] \notin Holding,
         UNCHANGED <<slots, written, index, serving, crashes, acked>>
  PROVE  RtnInvariant'
  <1> USE DEF RtnInvariant
  <1>0. /\ pc'[t] = "idle"
        /\ \A u \in Threads : u # t => pc'[u] = pc[u] /\ arg'[u] = arg[u] /\ rid'[u] = rid[u]
    BY ReturnType
  <1>1. TypeOK'
    BY ReturnType DEF TypeOK
  <1>2. Locals'
    BY <1>0 DEF Locals, Holding
  <1>3. EntriesSound' /\ AckedStored'
    BY DEF EntriesSound, AckedStored
  <1>4. OneHolder'
    <2>1. \A u \in Threads : pc'[u] \in Holding =>
             u # t /\ pc[u] = pc'[u] /\ rid[u] = rid'[u] /\ arg[u] = arg'[u]
      BY <1>0 DEF Holding
    <2>2. \A u \in Threads : pc[u] \in Holding => pc'[u] = pc[u] /\ rid'[u] = rid[u]
      BY <1>0
    <2> QED
      BY <2>1, <2>2 DEF OneHolder, Holding
  <1>5. IdReserved'
    BY <1>0 DEF IdReserved, Checked, EntriesOf
  <1> QED
    BY <1>1, <1>2, <1>3, <1>4, <1>5
-----------------------------------------------------------------------------
(* rtnInsert                                                               *)

LEMMA IsIDExistInv ==
  ASSUME RtnInvariant, NEW t \in Threads, IsIDExist(t) PROVE RtnInvariant'
  <1>1. CASE Exists(arg[t].id)
    BY <1>1, PlainReturnInv DEF IsIDExist, Codes, Holding
  <1>2. CASE ~Exists(arg[t].id)
    <2> USE <1>2 DEF RtnInvariant, IsIDExist, Goto
    <2>1. TypeOK'
      BY DEF TypeOK, PCs
    <2>2. Locals'
      BY DEF TypeOK, Locals, Holding
    <2>3. EntriesSound' /\ AckedStored'
      BY DEF EntriesSound, AckedStored
    <2>4. OneHolder'
      BY SMTT(30) DEF TypeOK, OneHolder, Holding
    <2>5. IdReserved'
      BY DEF TypeOK, IdReserved, Checked, EntriesOf, Exists
    <2> QED
      BY <2>1, <2>2, <2>3, <2>4, <2>5
  <1> QED
    BY <1>1, <1>2

LEMMA DmsInsertInv ==
  ASSUME RtnInvariant, NEW t \in Threads, DmsInsert(t) PROVE RtnInvariant'
  <1> USE DEF RtnInvariant, DmsInsert, Goto
  <1>1. /\ NextRid \in Rids /\ slots[NextRid] = NoDoc
        /\ arg[t] \in Docs /\ arg[t] # NoDoc
        /\ arg[t].id \in Ids /\ serving
    BY BoundsAssumption, NoDocIsNoDocument
       DEF TypeOK, Locals, EntriesSound, NextRid, Rids
  <1>2. /\ slots'[NextRid] = arg[t] /\ rid'[t] = NextRid /\ pc'[t] = "createIndex"
        /\ \A r \in Rids : r # NextRid => slots'[r] = slots[r]
        /\ \A u \in Threads : u # t => rid'[u] = rid[u] /\ pc'[u] = pc[u]
    BY <1>1 DEF TypeOK
  <1>3. /\ \A e \in index : e.rid \in Rids /\ e.rid # NextRid
        /\ \A u \in Threads : pc[u] \in Holding => rid[u] \in Rids /\ rid[u] # NextRid
        /\ \A r \in acked : r \in Rids /\ r # NextRid
    BY <1>1 DEF TypeOK, Locals, EntriesSound, OneHolder, AckedStored
  <1>4. TypeOK'
    <2>1. written' \in 0 .. MaxRids
      BY BoundsAssumption DEF TypeOK
    <2>2. slots' \in [Rids -> Docs \cup {NoDoc}] /\ rid' \in [Threads -> Rids \cup {NoRid}]
      BY <1>1 DEF TypeOK
    <2>3. pc' \in [Threads -> PCs]
      BY DEF TypeOK, PCs
    <2> QED
      BY <2>1, <2>2, <2>3 DEF TypeOK
  <1>5. Locals'
    BY <1>1, <1>2 DEF Locals, Holding
  <1>6. EntriesSound'
    <2>1. \A r \in Rids : r > written' => slots'[r] = NoDoc
      BY <1>2 DEF TypeOK, EntriesSound, NextRid, Rids
    <2> QED
      BY <2>1, <1>2, <1>3 DEF EntriesSound
  <1>7. OneHolder'
    <2>1. \A u \in Threads : pc'[u] \in Holding =>
             slots'[rid'[u]] # NoDoc /\ \A e \in index : e.rid # rid'[u]
      BY <1>1, <1>2, <1>3 DEF OneHolder
    <2>2. \A u \in Threads : pc'[u] = "createIndex" => slots'[rid'[u]] = arg[u]
      BY <1>2, <1>3 DEF OneHolder, Holding
    <2>3. \A u, w \in Threads :
             u # w /\ pc'[u] \in Holding /\ pc'[w] \in Holding => rid'[u] # rid'[w]
      BY <1>2, <1>3 DEF OneHolder
    <2>4. ASSUME NEW r \in Rids, slots'[r] # NoDoc
          PROVE  \/ Entry(slots'[r].id, r) \in index
                 \/ \E u \in Threads : pc'[u] \in Holding /\ rid'[u] = r
      <3>1. CASE r = NextRid
        BY <1>2, <3>1 DEF Holding
      <3>2. CASE r # NextRid
        <4>1. \A u \in Threads : pc[u] \in Holding => pc'[u] = pc[u] /\ rid'[u] = rid[u]
          BY <1>2 DEF Holding
        <4> QED
          BY <1>1, <1>2, <2>4, <3>2, <4>1 DEF OneHolder
      <3> QED
        BY <3>1, <3>2
    <2> QED
      BY <2>1, <2>2, <2>3, <2>4 DEF OneHolder
  <1>8. AckedStored'
    BY <1>2, <1>3 DEF AckedStored
  <1>9. IdReserved'
    BY <1>2 DEF IdReserved, Checked, EntriesOf
  <1> QED
    BY <1>4, <1>5, <1>6, <1>7, <1>8, <1>9

LEMMA CreateIndexInv ==
  ASSUME RtnInvariant, NEW t \in Threads, CreateIndex(t) PROVE RtnInvariant'
  <1> DEFINE new == Entry(arg[t].id, rid[t])
  <1> USE DEF RtnInvariant, CreateIndex, Goto
  <1>1. /\ arg[t].id \in Ids /\ arg[t].id \in MayInsert[t] /\ rid[t] \in Rids
        /\ slots[rid[t]] = arg[t] /\ slots[rid[t]] # NoDoc
    BY DEF Locals, OneHolder, Holding
  <1>2. index \cup {new} \in SUBSET [id : Ids, rid : Rids]
    BY <1>1 DEF TypeOK, Entry
  <1>3. index' = index \cup {new} /\ seen' \in [Threads -> SUBSET (Values \cup {Missing})]
    BY <1>2, ReindexType
  <1>4. /\ pc'[t] = "inserted" /\ pc[t] \in Holding /\ pc[t] \in Checked
        /\ \A u \in Threads : u # t => pc'[u] = pc[u]
    BY DEF TypeOK, Holding, Checked
  <1>5. TypeOK'
    BY <1>2, <1>3 DEF TypeOK, PCs
  <1>6. Locals'
    BY <1>1, <1>4 DEF Locals, Holding
  <1>7. EntriesSound'
    BY <1>1, <1>3 DEF EntriesSound, Entry
  <1>8. OneHolder'
    <2>1. \A u \in Threads : pc'[u] \in Holding => u # t
      BY <1>4 DEF Holding
    <2>2. \A u \in Threads : pc'[u] \in Holding =>
             slots[rid[u]] # NoDoc /\ \A e \in index' : e.rid # rid[u]
      BY <1>3, <1>4, <2>1 DEF OneHolder, Entry
    <2>3. ASSUME NEW r \in Rids, slots[r] # NoDoc, serving
          PROVE  \/ Entry(slots[r].id, r) \in index'
                 \/ \E u \in Threads : pc'[u] \in Holding /\ rid[u] = r
      BY <1>1, <1>3, <1>4, <2>3 DEF OneHolder
    <2> QED
      BY <1>4, <2>1, <2>2, <2>3 DEF OneHolder, Holding
  <1>9. AckedStored'
    BY <1>3 DEF AckedStored
  <1>10. IdReserved'
    <2> SUFFICES ASSUME Disjoint PROVE IdReserved'
      BY DEF IdReserved, Disjoint
    <2>1. Unique(index)
      BY DEF IdReserved
    <2>2. \A e \in index : e.id # arg[t].id
      BY <1>4 DEF IdReserved, EntriesOf
    <2>3. Unique(index')
      BY <1>3, <2>1, <2>2 DEF Unique, Entry
    <2>4. ASSUME NEW u \in Threads, pc'[u] \in Checked PROVE \A e \in index' : e.id # arg[u].id
      <3>1. u # t /\ pc[u] \in Checked
        BY <1>4, <2>4 DEF Checked
      <3>2. arg[u].id \in MayInsert[u] /\ arg[u].id # arg[t].id
        BY <1>1, <3>1 DEF Locals, Checked, Disjoint
      <3>3. \A e \in index : e.id # arg[u].id
        BY <3>1 DEF IdReserved, EntriesOf
      <3> QED
        BY <1>3, <3>2, <3>3 DEF Entry
    <2> QED
      BY <2>3, <2>4 DEF IdReserved, EntriesOf
  <1> QED
    BY <1>5, <1>6, <1>7, <1>8, <1>9, <1>10

LEMMA InsertReturnsInv ==
  ASSUME RtnInvariant, NEW t \in Threads, InsertReturns(t) PROVE RtnInvariant'
  <1> DEFINE new == {r \in {rid[t]} : Entry(arg[t].id, r) \in index}
  <1> USE DEF RtnInvariant, InsertReturns
  <1>1. /\ pc'[t] = "idle" /\ pc[t] \notin Holding
        /\ \A u \in Threads : u # t => pc'[u] = pc[u] /\ arg'[u] = arg[u] /\ rid'[u] = rid[u]
    BY ReturnType DEF Codes, Holding
  <1>2. rid[t] \in Rids
    BY DEF Locals
  <1>3. TypeOK'
    BY <1>2, ReturnType DEF TypeOK, Codes
  <1>4. Locals'
    BY <1>1 DEF Locals, Holding
  <1>5. EntriesSound'
    BY DEF EntriesSound
  <1>6. OneHolder'
    <2>1. \A u \in Threads : pc'[u] \in Holding =>
             u # t /\ pc[u] = pc'[u] /\ rid[u] = rid'[u] /\ arg[u] = arg'[u]
      BY <1>1 DEF Holding
    <2>2. \A u \in Threads : pc[u] \in Holding => pc'[u] = pc[u] /\ rid'[u] = rid[u]
      BY <1>1
    <2> QED
      BY <2>1, <2>2 DEF OneHolder, Holding
  <1>7. AckedStored'
    <2>1. \A r \in new : slots[r] # NoDoc /\ Entry(slots[r].id, r) \in index
      BY DEF EntriesSound, Entry
    <2> QED
      BY <2>1 DEF AckedStored
  <1>8. IdReserved'
    BY <1>1 DEF IdReserved, Checked, EntriesOf
  <1> QED
    BY <1>3, <1>4, <1>5, <1>6, <1>7, <1>8

-----------------------------------------------------------------------------
(* rtnFind                                                                 *)

LEMMA FindIndexInv ==
  ASSUME RtnInvariant, NEW t \in Threads, FindIndex(t) PROVE RtnInvariant'
  <1>1. CASE Return(t, "refused", Missing)
    BY <1>1, PlainReturnInv DEF FindIndex, Codes, Holding
  <1>2. ASSUME NEW e \in EntriesOf(arg[t].id),
               rid' = [rid EXCEPT ![t] = e.rid], Goto(t, "dmsFind"), UNCHANGED seen
        PROVE  RtnInvariant'
    <2> USE <1>2 DEF RtnInvariant, FindIndex, Goto
    <2>1. e.rid \in Rids
      BY DEF TypeOK, EntriesOf
    <2>2. /\ pc'[t] = "dmsFind" /\ rid'[t] = e.rid /\ pc[t] = "findIndex"
          /\ \A u \in Threads : u # t => pc'[u] = pc[u] /\ rid'[u] = rid[u]
      BY DEF TypeOK
    <2>3. TypeOK'
      BY <2>1 DEF TypeOK, PCs
    <2>4. Locals'
      BY <2>1, <2>2 DEF Locals, Holding
    <2>5. EntriesSound' /\ AckedStored'
      BY DEF EntriesSound, AckedStored
    <2>6. OneHolder'
      BY <2>2 DEF OneHolder, Holding
    <2>7. IdReserved'
      BY <2>2 DEF IdReserved, Checked, EntriesOf
    <2> QED
      BY <2>3, <2>4, <2>5, <2>6, <2>7
  <1> QED
    BY <1>1, <1>2 DEF FindIndex

LEMMA DmsFindInv ==
  ASSUME RtnInvariant, NEW t \in Threads, DmsFind(t) PROVE RtnInvariant'
  <1>1. rid[t] \in Rids /\ pc[t] \notin Holding
    BY DEF RtnInvariant, Locals, DmsFind, Holding
  <1>2. slots[rid[t]] \in Docs \cup {NoDoc}
    BY <1>1 DEF RtnInvariant, TypeOK
  <1>3. slots[rid[t]].val \in Values \cup {Missing}
    BY <1>2 DEF Docs, NoDoc
  <1> QED
    BY <1>1, <1>3, PlainReturnInv DEF DmsFind, Codes
-----------------------------------------------------------------------------
(* rtnRemove                                                               *)

LEMMA RemoveIndexInv ==
  ASSUME RtnInvariant, NEW t \in Threads, RemoveIndex(t) PROVE RtnInvariant'
  <1>1. CASE Return(t, "refused", Missing) /\ UNCHANGED <<index, acked>>
    BY <1>1, PlainReturnInv DEF RemoveIndex, Codes, Holding
  <1>2. ASSUME NEW e \in EntriesOf(arg[t].id),
               Reindex(arg[t].id, Erased(e)), rid' = [rid EXCEPT ![t] = e.rid],
               acked' = acked \ {e.rid}, Goto(t, "dmsRemove")
        PROVE  RtnInvariant'
    <2> USE <1>2 DEF RtnInvariant, RemoveIndex, Goto
    <2>1. e \in index /\ e.rid \in Rids /\ slots[e.rid] # NoDoc /\ slots[e.rid].id = e.id
      BY DEF TypeOK, EntriesOf, EntriesSound
    <2>2. /\ pc'[t] = "dmsRemove" /\ rid'[t] = e.rid /\ pc[t] = "removeIndex"
          /\ \A u \in Threads : u # t => pc'[u] = pc[u] /\ rid'[u] = rid[u]
      BY DEF TypeOK
    <2>3. index' = index \ {e} /\ seen' \in [Threads -> SUBSET (Values \cup {Missing})]
      BY ReindexType DEF Erased, TypeOK
    \* No other entry has the rid: both would have the _id of the one record.
    <2>4. \A f \in index' : f.rid # e.rid
      <3> SUFFICES ASSUME NEW f \in index, f.rid = e.rid PROVE f = e
        BY <2>3
      <3>1. f.id = e.id
        BY <2>1 DEF EntriesSound
      <3> QED
        BY <2>1, <3>1 DEF TypeOK
    <2>5. TypeOK'
      BY <2>1, <2>3 DEF TypeOK, PCs
    <2>6. Locals'
      BY <2>1, <2>2 DEF Locals, Holding
    <2>7. EntriesSound'
      BY <2>3 DEF EntriesSound
    <2>8. OneHolder'
      <3>1. \A u \in Threads : pc'[u] \in Holding =>
               slots[rid'[u]] # NoDoc /\ \A f \in index' : f.rid # rid'[u]
        BY <2>1, <2>2, <2>3, <2>4 DEF OneHolder
      <3>2. \A u \in Threads : pc'[u] = "createIndex" => slots[rid'[u]] = arg[u]
        BY <2>2 DEF OneHolder
      <3>3. \A u, w \in Threads :
               u # w /\ pc'[u] \in Holding /\ pc'[w] \in Holding => rid'[u] # rid'[w]
        BY <2>1, <2>2 DEF OneHolder
      <3>4. ASSUME NEW r \in Rids, slots[r] # NoDoc, serving
            PROVE  \/ Entry(slots[r].id, r) \in index'
                   \/ \E u \in Threads : pc'[u] \in Holding /\ rid'[u] = r
        <4>1. CASE r = e.rid
          BY <2>2, <4>1 DEF Holding
        <4>2. CASE r # e.rid
          <5>1. Entry(slots[r].id, r) # e
            BY <4>2 DEF Entry
          <5>2. \A u \in Threads : pc[u] \in Holding => pc'[u] = pc[u] /\ rid'[u] = rid[u]
            BY <2>2 DEF Holding
          <5> QED
            BY <2>3, <3>4, <5>1, <5>2 DEF OneHolder
        <4> QED
          BY <4>1, <4>2
      <3> QED
        BY <3>1, <3>2, <3>3, <3>4 DEF OneHolder
    <2>9. AckedStored'
      <3> SUFFICES ASSUME NEW r \in acked, r # e.rid
                   PROVE  slots[r] # NoDoc /\ (serving => Entry(slots[r].id, r) \in index')
        BY DEF AckedStored
      <3>1. Entry(slots[r].id, r) # e
        BY DEF Entry
      <3> QED
        BY <2>3, <3>1 DEF AckedStored
    <2>10. IdReserved'
      BY <2>2, <2>3 DEF IdReserved, Unique, Checked, EntriesOf
    <2> QED
      BY <2>5, <2>6, <2>7, <2>8, <2>9, <2>10
  <1> QED
    BY <1>1, <1>2 DEF RemoveIndex

LEMMA DmsRemoveInv ==
  ASSUME RtnInvariant, NEW t \in Threads, DmsRemove(t) PROVE RtnInvariant'
  <1> USE DEF RtnInvariant, DmsRemove
  <1>1. /\ rid[t] \in Rids /\ slots[rid[t]] # NoDoc /\ pc[t] \in Holding /\ serving
        /\ \A e \in index : e.rid # rid[t]
    BY DEF Locals, OneHolder, Holding
  <1>2. slots' = [slots EXCEPT ![rid[t]] = NoDoc] /\ Return(t, "ok", Missing)
    BY <1>1
  <1>3. /\ pc'[t] = "idle"
        /\ \A u \in Threads : u # t => pc'[u] = pc[u] /\ arg'[u] = arg[u] /\ rid'[u] = rid[u]
        /\ \A r \in Rids : slots'[r] = IF r = rid[t] THEN NoDoc ELSE slots[r]
    BY <1>1, <1>2, ReturnType DEF TypeOK, Codes
  <1>4. /\ \A e \in index : e.rid \in Rids
        /\ \A u \in Threads : u # t /\ pc[u] \in Holding => rid[u] \in Rids /\ rid[u] # rid[t]
        /\ \A r \in acked : r \in Rids /\ r # rid[t]
    <2>1. \A r \in acked : r \in Rids /\ r # rid[t]
      BY <1>1 DEF TypeOK, AckedStored, Entry
    <2> QED
      BY <1>1, <2>1 DEF TypeOK, Locals, OneHolder
  <1>5. TypeOK'
    BY <1>1, <1>2, ReturnType DEF TypeOK, Codes
  <1>6. Locals'
    BY <1>3 DEF Locals, Holding
  <1>7. EntriesSound'
    <2>1. \A r \in Rids : r > written => slots'[r] = NoDoc
      BY <1>3 DEF EntriesSound
    <2>2. \A e \in index : slots'[e.rid] # NoDoc /\ slots'[e.rid].id = e.id
      BY <1>1, <1>3, <1>4 DEF EntriesSound
    <2> QED
      BY <2>1, <2>2 DEF EntriesSound
  <1>8. OneHolder'
    <2>1. \A u \in Threads : pc'[u] \in Holding =>
             u # t /\ pc[u] \in Holding /\ pc[u] = pc'[u] /\ rid[u] = rid'[u] /\ arg[u] = arg'[u]
      BY <1>3 DEF Holding
    <2>2. \A u \in Threads : pc'[u] \in Holding =>
             /\ slots'[rid'[u]] = slots[rid[u]]
             /\ slots'[rid'[u]] # NoDoc /\ \A e \in index : e.rid # rid'[u]
      BY <1>3, <1>4, <2>1 DEF OneHolder
    <2>3. \A u \in Threads : pc'[u] = "createIndex" => slots'[rid'[u]] = arg'[u]
      BY <2>1, <2>2 DEF OneHolder, Holding
    <2>4. \A u, w \in Threads :
             u # w /\ pc'[u] \in Holding /\ pc'[w] \in Holding => rid'[u] # rid'[w]
      BY <2>1 DEF OneHolder
    <2>5. ASSUME NEW r \in Rids, slots'[r] # NoDoc
          PROVE  \/ Entry(slots'[r].id, r) \in index
                 \/ \E u \in Threads : pc'[u] \in Holding /\ rid'[u] = r
      <3>1. r # rid[t] /\ slots'[r] = slots[r]
        BY <1>3, <2>5
      <3>2. \/ Entry(slots[r].id, r) \in index
            \/ \E u \in Threads : pc[u] \in Holding /\ rid[u] = r
        BY <1>1, <2>5, <3>1 DEF OneHolder
      <3> QED
        BY <1>3, <3>1, <3>2
    <2> QED
      BY <2>2, <2>3, <2>4, <2>5 DEF OneHolder
  <1>9. AckedStored'
    BY <1>3, <1>4 DEF AckedStored
  <1>10. IdReserved'
    BY <1>3 DEF IdReserved, Checked, EntriesOf
  <1> QED
    BY <1>5, <1>6, <1>7, <1>8, <1>9, <1>10

-----------------------------------------------------------------------------
(* Restart                                                                 *)

\* An entry that _loadData makes leads to the record it was made from.
LEMMA LoadedSound ==
  ASSUME TypeOK, NEW e \in Loaded
  PROVE  e \in [id : Ids, rid : Rids] /\ slots[e.rid] # NoDoc /\ slots[e.rid].id = e.id
  <1>1. PICK r \in Rids : slots[r] # NoDoc /\ e = Entry(slots[r].id, r)
    BY DEF Loaded
  <1>2. slots[r] \in Docs
    BY <1>1 DEF TypeOK
  <1> QED
    BY <1>1, <1>2 DEF Entry, Docs

LEMMA CrashInv == ASSUME RtnInvariant, Crash PROVE RtnInvariant'
  <1> USE DEF RtnInvariant, Crash
  <1>1. index' \subseteq Loaded /\ (serving' => index' = Loaded)
    OBVIOUS
  <1>2. TypeOK'
    <2>1. index' \subseteq [id : Ids, rid : Rids]
      BY <1>1, LoadedSound
    <2>2. serving' \in BOOLEAN
      BY DEF Unique
    <2>3. crashes' \in 0 .. MaxCrashes
      BY BoundsAssumption DEF TypeOK
    <2> QED
      BY <2>1, <2>2, <2>3 DEF TypeOK, PCs, NoDoc, Codes
  <1>3. \A t \in Threads : pc'[t] = "idle"
    OBVIOUS
  <1>4. Locals'
    BY <1>3 DEF Locals, Holding
  <1>5. EntriesSound'
    BY <1>1, LoadedSound DEF EntriesSound
  <1>6. OneHolder'
    <2>1. serving' => \A r \in Rids : slots[r] # NoDoc => Entry(slots[r].id, r) \in index'
      BY <1>1 DEF Loaded
    <2> QED
      BY <1>3, <2>1 DEF OneHolder, Holding
  <1>7. AckedStored'
    BY <1>1 DEF AckedStored, TypeOK, Loaded
  <1>8. IdReserved'
    <2>1. Unique(index')
      BY DEF Unique
    <2> QED
      BY <1>3, <2>1 DEF IdReserved, Checked
  <1> QED
    BY <1>2, <1>4, <1>5, <1>6, <1>7, <1>8
-----------------------------------------------------------------------------
LEMMA NextInvariant == RtnInvariant /\ [Next]_vars => RtnInvariant'
  <1> SUFFICES ASSUME RtnInvariant, [Next]_vars PROVE RtnInvariant'
    OBVIOUS
  <1>1. ASSUME NEW t \in Threads, NEW d \in Docs, BeginInsert(t, d) PROVE RtnInvariant'
    BY <1>1, BeginInv DEF BeginInsert, Docs
  <1>2. ASSUME NEW t \in Threads, NEW i \in Ids, BeginFind(t, i) \/ BeginRemove(t, i)
        PROVE  RtnInvariant'
    <2> DEFINE d == [id |-> i, val |-> Missing]
    <2>1. d \in [id : Ids, val : Values \cup {Missing}]
      OBVIOUS
    <2> QED
      BY <1>2, <2>1, BeginInv DEF BeginFind, BeginRemove
  <1>3. ASSUME NEW t \in Threads, Reject(t) \/ IsIDExist(t) PROVE RtnInvariant'
    BY <1>3, RejectInv, IsIDExistInv
  <1>4. ASSUME NEW t \in Threads, DmsInsert(t) PROVE RtnInvariant'
    BY <1>4, DmsInsertInv
  <1>5. ASSUME NEW t \in Threads, DmsInsertFails(t) PROVE RtnInvariant'
    BY <1>5, PlainReturnInv DEF DmsInsertFails, Codes, Holding
  <1>6. ASSUME NEW t \in Threads, CreateIndex(t) PROVE RtnInvariant'
    BY <1>6, CreateIndexInv
  <1>7. ASSUME NEW t \in Threads, InsertReturns(t) PROVE RtnInvariant'
    BY <1>7, InsertReturnsInv
  <1>8. ASSUME NEW t \in Threads, FindIndex(t) \/ DmsFind(t) PROVE RtnInvariant'
    BY <1>8, FindIndexInv, DmsFindInv
  <1>9. ASSUME NEW t \in Threads, RemoveIndex(t) \/ DmsRemove(t) PROVE RtnInvariant'
    BY <1>9, RemoveIndexInv, DmsRemoveInv
  <1>10. CASE Crash
    BY <1>10, CrashInv
  <1>11. CASE UNCHANGED vars
    BY <1>11 DEF vars, RtnInvariant, TypeOK, Locals, EntriesSound, OneHolder, AckedStored,
           IdReserved, Holding, Checked, EntriesOf, Entry, Unique, Disjoint
  <1> QED
    BY <1>1, <1>2, <1>3, <1>4, <1>5, <1>6, <1>7, <1>8, <1>9, <1>10, <1>11 DEF Next

\* Index, data file and the calls in progress fit together at every step of
\* every interleaving of rtnInsert, rtnFind, rtnRemove and restarts.
THEOREM LayerIsConsistent == Spec => []RtnInvariant
  BY InitInvariant, NextInvariant, PTL DEF Spec

\* Every index entry leads to a stored record with its _id, and every stored
\* record has its entry or is held by a thread between its two calls.
THEOREM IndexAndFileAgree == Spec => []IndexMatchesFile
  <1>1. RtnInvariant => IndexMatchesFile
    BY DEF RtnInvariant, EntriesSound, OneHolder, Holding, IndexMatchesFile
  <1> QED
    BY <1>1, LayerIsConsistent, PTL

\* A record whose insert returned stays stored and indexed until a remove
\* takes it, across restarts.
THEOREM AcknowledgedRecordsStay == Spec => []AckedIsIndexed
  <1>1. RtnInvariant => AckedIsIndexed
    BY DEF RtnInvariant, AckedStored, AckedIsIndexed
  <1> QED
    BY <1>1, LayerIsConsistent, PTL

\* isIDExist followed by createIndex keeps _ids unique when no two agents
\* insert the same _id.
THEOREM IdsAreUnique == Spec => []UniqueIds
  <1>1. RtnInvariant => UniqueIds
    BY DEF RtnInvariant, IdReserved, UniqueIds
  <1> QED
    BY <1>1, LayerIsConsistent, PTL

\* The record remove took out of the index is still in the file when
\* dmsFile::remove comes for it.
THEOREM RemoveMeetsItsRecord == Spec => []RemoveFindsItsRecord
  <1>1. RtnInvariant => RemoveFindsItsRecord
    BY DEF RtnInvariant, OneHolder, Holding, RemoveFindsItsRecord
  <1> QED
    BY <1>1, LayerIsConsistent, PTL
-----------------------------------------------------------------------------
(* What the index binds an _id to.                                         *)

\* An _id without an entry is bound to nothing.
LEMMA BoundFree ==
  ASSUME NEW file, NEW ix, NEW i, \A e \in ix : e.id # i
  PROVE  Bound(file, ix, i) = Missing
  BY DEF Bound

\* An _id with one entry is bound to the record it leads to.
LEMMA BoundOne ==
  ASSUME NEW file, NEW ix, Unique(ix), NEW e \in ix
  PROVE  Bound(file, ix, e.id) = file[e.rid].val
  <1> DEFINE f == CHOOSE x \in ix : x.id = e.id
  <1>1. f \in ix /\ f.id = e.id
    OBVIOUS
  <1>2. f = e
    BY <1>1 DEF Unique
  <1> QED
    BY <1>1, <1>2 DEF Bound

\* Records without an entry do not matter.
LEMMA BoundSame ==
  ASSUME NEW file, NEW other, NEW ix, NEW i, \A e \in ix : other[e.rid] = file[e.rid]
  PROVE  Bound(other, ix, i) = Bound(file, ix, i)
  <1>1. CASE \E e \in ix : e.id = i
    <2> DEFINE f == CHOOSE x \in ix : x.id = i
    <2>1. f \in ix
      BY <1>1
    <2>2. other[f.rid] = file[f.rid]
      BY <2>1
    <2> QED
      BY <1>1, <2>2 DEF Bound
  <1>2. CASE \A e \in ix : e.id # i
    BY <1>2, BoundFree
  <1> QED
    BY <1>1, <1>2

\* Entries of other _ids do not matter.
LEMMA BoundOther ==
  ASSUME NEW file, NEW ix, NEW jx, Unique(ix), Unique(jx), NEW i,
         \A e \in ix : e.id = i => e \in jx, \A e \in jx : e.id = i => e \in ix
  PROVE  Bound(file, jx, i) = Bound(file, ix, i)
  <1>1. CASE \E e \in ix : e.id = i
    <2>1. PICK e \in ix : e.id = i
      BY <1>1
    <2>2. e \in jx
      BY <2>1
    <2>3. Bound(file, ix, e.id) = file[e.rid].val /\ Bound(file, jx, e.id) = file[e.rid].val
      BY <2>1, <2>2, BoundOne
    <2> QED
      BY <2>1, <2>3
  <1>2. CASE \A e \in ix : e.id # i
    <2>1. \A e \in jx : e.id # i
      BY <1>2
    <2> QED
      BY <1>2, <2>1, BoundFree
  <1> QED
    BY <1>1, <1>2

\* A bound _id is bound to a value.
LEMMA EntryIsBound ==
  ASSUME RtnInvariant, Unique(index), NEW e \in index
  PROVE  /\ Bound(slots, index, e.id) = slots[e.rid].val
         /\ slots[e.rid].val \in Values /\ slots[e.rid].val # Missing
  <1>1. slots[e.rid] \in Docs
    BY DEF RtnInvariant, TypeOK, EntriesSound
  <1>2. slots[e.rid].val \in Values
    BY <1>1 DEF Docs
  <1> QED
    BY <1>2, BoundOne, MissingAssumption
-----------------------------------------------------------------------------
(* What a pending call has seen.                                           *)

\* SeenSound for one thread.
SeenOf(t) ==
  /\ pc[t] = "idle" => arg[t] = NoDoc
  /\ pc[t] # "idle" => Bound(slots, index, arg[t].id) \in seen[t]
  /\ pc[t] = "dmsFind" =>
        /\ rid[t] <= written
        /\ slots[rid[t]] # NoDoc => slots[rid[t]].val \in seen[t]
        /\ Entry(arg[t].id, rid[t]) \in index \/ Missing \in seen[t]
  /\ pc[t] = "dmsRemove" =>
        slots[rid[t]].id = arg[t].id /\ slots[rid[t]].val \in seen[t]

LEMMA SeenOfAll == SeenSound <=> (Disjoint => \A t \in Threads : SeenOf(t))
  BY DEF SeenSound, SeenOf

\* A step that leaves file and index alone keeps what the threads that do not
\* move have seen.
LEMMA SeenOfOther ==
  ASSUME NEW u, SeenOf(u), UNCHANGED <<slots, written, index>>,
         pc'[u] = pc[u], arg'[u] = arg[u], rid'[u] = rid[u], seen'[u] = seen[u]
  PROVE  SeenOf(u)'
  BY DEF SeenOf

LEMMA SeenReturn ==
  ASSUME StoreInvariant, Disjoint, NEW t \in Threads, NEW code, NEW v, Return(t, code, v),
         UNCHANGED <<slots, written, index>>
  PROVE  \A u \in Threads : SeenOf(u)'
  <1> SUFFICES ASSUME NEW u \in Threads PROVE SeenOf(u)'
    OBVIOUS
  <1>1. SeenOf(u)
    BY SeenOfAll DEF StoreInvariant
  <1>2. CASE u = t
    <2>1. pc'[u] = "idle" /\ arg'[u] = NoDoc
      BY <1>2 DEF Return, StoreInvariant, RtnInvariant, TypeOK
    <2> QED
      BY <2>1 DEF SeenOf
  <1>3. CASE u # t
    <2>1. pc'[u] = pc[u] /\ arg'[u] = arg[u] /\ rid'[u] = rid[u] /\ seen'[u] = seen[u]
      BY <1>3 DEF Return, StoreInvariant, RtnInvariant, TypeOK
    <2> QED
      BY <1>1, <2>1, SeenOfOther
  <1> QED
    BY <1>2, <1>3

LEMMA SeenBegin ==
  ASSUME StoreInvariant, Disjoint, NEW t \in Threads, NEW l, NEW d, Begin(t, l, d),
         l \in {"isIDExist", "findIndex", "removeIndex"}
  PROVE  \A u \in Threads : SeenOf(u)'
  <1> SUFFICES ASSUME NEW u \in Threads PROVE SeenOf(u)'
    OBVIOUS
  <1>1. SeenOf(u)
    BY SeenOfAll DEF StoreInvariant
  <1>2. CASE u = t
    <2>1. /\ pc'[u] = l /\ arg'[u] = d /\ seen'[u] = {Bound(slots, index, d.id)}
          /\ slots' = slots /\ index' = index
      BY <1>2 DEF Begin, StoreInvariant, RtnInvariant, TypeOK
    <2> QED
      BY <2>1 DEF SeenOf
  <1>3. CASE u # t
    <2>1. pc'[u] = pc[u] /\ arg'[u] = arg[u] /\ rid'[u] = rid[u] /\ seen'[u] = seen[u]
      BY <1>3 DEF Begin, StoreInvariant, RtnInvariant, TypeOK
    <2> QED
      BY <1>1, <2>1, SeenOfOther DEF Begin
  <1> QED
    BY <1>2, <1>3

LEMMA SeenIsIDExist ==
  ASSUME StoreInvariant, Disjoint, NEW t \in Threads, IsIDExist(t)
  PROVE  \A u \in Threads : SeenOf(u)'
  <1>1. CASE Exists(arg[t].id)
    BY <1>1, SeenReturn DEF IsIDExist
  <1>2. CASE ~Exists(arg[t].id)
    <2> SUFFICES ASSUME NEW u \in Threads PROVE SeenOf(u)'
      OBVIOUS
    <2>1. SeenOf(u)
      BY SeenOfAll DEF StoreInvariant
    <2>2. /\ pc[t] = "isIDExist" /\ pc'[t] = "dmsInsert"
          /\ u # t => pc'[u] = pc[u]
          /\ UNCHANGED <<slots, written, index, arg, rid, seen>>
      BY <1>2 DEF IsIDExist, Goto, StoreInvariant, RtnInvariant, TypeOK
    <2> QED
      BY <2>1, <2>2 DEF SeenOf
  <1> QED
    BY <1>1, <1>2

\* A record is written where no entry and no find leads.
LEMMA SeenDmsInsert ==
  ASSUME StoreInvariant, Disjoint, NEW t \in Threads, DmsInsert(t)
  PROVE  \A u \in Threads : SeenOf(u)'
  <1> SUFFICES ASSUME NEW u \in Threads PROVE SeenOf(u)'
    OBVIOUS
  <1>1. SeenOf(u)
    BY SeenOfAll DEF StoreInvariant
  <1> USE DEF StoreInvariant, RtnInvariant
  <1>2. /\ NextRid \in Rids /\ slots[NextRid] = NoDoc /\ written \in Nat
        /\ \A r \in Rids : r # NextRid => slots'[r] = slots[r]
        /\ NextRid = written + 1 /\ written' = written + 1
    BY BoundsAssumption DEF DmsInsert, TypeOK, EntriesSound, NextRid, Rids
  <1>3. \A e \in index : slots'[e.rid] = slots[e.rid]
    BY <1>2 DEF TypeOK, EntriesSound
  <1>4. /\ pc[t] = "dmsInsert" /\ pc'[t] = "createIndex"
        /\ u # t => pc'[u] = pc[u] /\ rid'[u] = rid[u]
        /\ UNCHANGED <<index, arg, seen>>
    BY <1>2 DEF DmsInsert, Goto, TypeOK
  <1>5. \A i : Bound(slots', index, i) = Bound(slots, index, i)
    BY <1>3, BoundSame
  <1>6. CASE u = t
    BY <1>1, <1>4, <1>5, <1>6 DEF SeenOf
  <1>7. CASE u # t
    <2>1. pc[u] = "dmsFind" => rid[u] \in Rids /\ rid[u] # NextRid
      BY <1>1, <1>2 DEF SeenOf, Locals, Rids
    <2>2. pc[u] = "dmsRemove" => rid[u] \in Rids /\ rid[u] # NextRid
      BY <1>2 DEF OneHolder, Locals, Holding
    <2>3. pc[u] \in {"dmsFind", "dmsRemove"} => slots'[rid'[u]] = slots[rid[u]]
      BY <1>2, <1>4, <1>7, <2>1, <2>2
    <2>4. pc[u] = "dmsFind" => rid'[u] <= written'
      BY <1>1, <1>2, <1>4, <1>7, <2>1 DEF SeenOf, Rids
    <2> QED
      BY <1>1, <1>4, <1>5, <1>7, <2>3, <2>4 DEF SeenOf
  <1> QED
    BY <1>6, <1>7

\* A change of the entries of one _id shows to all calls that wait on it.
LEMMA SeenReindex ==
  ASSUME StoreInvariant, Disjoint, NEW i, NEW ix, Reindex(i, ix), Unique(ix),
         \A e \in index \ ix : e.id = i, \A e \in ix \ index : e.id = i,
         NEW u \in Threads, SeenOf(u), arg'[u] = arg[u], UNCHANGED slots
  PROVE  /\ Bound(slots', index', arg'[u].id) \in seen'[u] \/ pc[u] = "idle"
         /\ seen[u] \subseteq seen'[u]
         /\ arg[u].id = i => Bound(slots, ix, i) \in seen'[u]
  <1>1. Unique(index)
    BY DEF StoreInvariant, RtnInvariant, IdReserved
  <1>2. seen'[u] = IF arg[u].id = i THEN seen[u] \cup {Bound(slots, ix, i)} ELSE seen[u]
    BY DEF Reindex
  <1>3. arg[u].id # i => Bound(slots, ix, arg[u].id) = Bound(slots, index, arg[u].id)
    BY <1>1, BoundOther
  <1> QED
    BY <1>2, <1>3 DEF Reindex, SeenOf

LEMMA SeenCreateIndex ==
  ASSUME StoreInvariant, Disjoint, NEW t \in Threads, CreateIndex(t)
  PROVE  \A u \in Threads : SeenOf(u)'
  <1> DEFINE new == Entry(arg[t].id, rid[t])
  <1> SUFFICES ASSUME NEW u \in Threads PROVE SeenOf(u)'
    OBVIOUS
  <1>1. SeenOf(u)
    BY SeenOfAll DEF StoreInvariant
  <1>2. Reindex(arg[t].id, index \cup {new}) /\ index' = index \cup {new}
    BY DEF CreateIndex, Reindex
  <1>3. Unique(index')
    BY CreateIndexInv DEF StoreInvariant, RtnInvariant, IdReserved, Disjoint
  <1>4. /\ pc[t] = "createIndex" /\ pc'[t] = "inserted"
        /\ u # t => pc'[u] = pc[u]
        /\ UNCHANGED <<slots, written, arg, rid>>
    BY DEF CreateIndex, Goto, StoreInvariant, RtnInvariant, TypeOK
  <1>5. /\ Bound(slots', index', arg'[u].id) \in seen'[u] \/ pc[u] = "idle"
        /\ seen[u] \subseteq seen'[u]
    <2> DEFINE ix == index \cup {new}
               i == arg[t].id
    <2>1. (\A e \in index \ ix : e.id = i) /\ (\A e \in ix \ index : e.id = i)
      BY DEF Entry
    <2>2. Unique(ix) /\ Reindex(i, ix) /\ arg'[u] = arg[u]
      BY <1>2, <1>3, <1>4
    <2> HIDE DEF ix, i
    <2> QED
      BY <1>1, <1>4, <2>1, <2>2, SeenReindex
  <1> QED
    BY <1>1, <1>2, <1>4, <1>5 DEF SeenOf

LEMMA SeenFindIndex ==
  ASSUME StoreInvariant, Disjoint, NEW t \in Threads, FindIndex(t)
  PROVE  \A u \in Threads : SeenOf(u)'
  <1>1. CASE Return(t, "refused", Missing)
    BY <1>1, SeenReturn DEF FindIndex
  <1>2. ASSUME NEW e \in EntriesOf(arg[t].id),
               rid' = [rid EXCEPT ![t] = e.rid], Goto(t, "dmsFind"), UNCHANGED seen
        PROVE  \A u \in Threads : SeenOf(u)'
    <2> SUFFICES ASSUME NEW u \in Threads PROVE SeenOf(u)'
      OBVIOUS
    <2> USE DEF StoreInvariant, RtnInvariant
    <2>1. SeenOf(u)
      BY SeenOfAll
    <2>2. /\ pc[t] = "findIndex" /\ pc'[t] = "dmsFind" /\ rid'[t] = e.rid
          /\ u # t => pc'[u] = pc[u] /\ rid'[u] = rid[u]
          /\ UNCHANGED <<slots, written, index, arg, seen>>
      BY <1>2 DEF FindIndex, Goto, TypeOK
    <2>3. e \in index /\ e.id = arg[t].id /\ e = Entry(arg[t].id, e.rid)
      BY DEF EntriesOf, Entry, TypeOK
    <2>4. e.rid <= written
      BY <2>3 DEF TypeOK, EntriesSound, Rids
    <2>5. Bound(slots, index, e.id) = slots[e.rid].val
      BY <2>3, EntryIsBound DEF IdReserved
    <2> QED
      BY <2>1, <2>2, <2>3, <2>4, <2>5 DEF SeenOf
  <1> QED
    BY <1>1, <1>2 DEF FindIndex

LEMMA SeenRemoveIndex ==
  ASSUME StoreInvariant, Disjoint, NEW t \in Threads, RemoveIndex(t)
  PROVE  \A u \in Threads : SeenOf(u)'
  <1>1. CASE Return(t, "refused", Missing) /\ UNCHANGED <<index, acked>>
    BY <1>1, SeenReturn DEF RemoveIndex
  <1>2. ASSUME NEW e \in EntriesOf(arg[t].id),
               Reindex(arg[t].id, Erased(e)), rid' = [rid EXCEPT ![t] = e.rid],
               Goto(t, "dmsRemove")
        PROVE  \A u \in Threads : SeenOf(u)'
    <2> SUFFICES ASSUME NEW u \in Threads PROVE SeenOf(u)'
      OBVIOUS
    <2> USE DEF StoreInvariant, RtnInvariant
    <2>1. SeenOf(u)
      BY SeenOfAll
    <2>2. /\ pc[t] = "removeIndex" /\ pc'[t] = "dmsRemove" /\ rid'[t] = e.rid
          /\ u # t => pc'[u] = pc[u] /\ rid'[u] = rid[u]
          /\ UNCHANGED <<slots, written, arg>>
      BY <1>2 DEF RemoveIndex, Goto, TypeOK
    <2>3. e \in index /\ e.id = arg[t].id /\ index' = index \ {e}
      BY <1>2 DEF EntriesOf, Reindex, Erased
    <2>4. Unique(index) /\ Unique(index \ {e})
      BY DEF IdReserved, Unique
    <2>5. /\ Bound(slots', index', arg'[u].id) \in seen'[u] \/ pc[u] = "idle"
          /\ seen[u] \subseteq seen'[u]
          /\ arg[u].id = e.id => Bound(slots, index \ {e}, e.id) \in seen'[u]
      BY <1>2, <2>1, <2>2, <2>3, <2>4, SeenReindex DEF Erased
    <2>6. Bound(slots, index \ {e}, e.id) = Missing
      BY <2>3, <2>4, BoundFree DEF Unique
    <2>7. CASE u = t
      <3>1. Bound(slots, index, e.id) = slots[e.rid].val
        BY <2>3, <2>4, EntryIsBound
      <3>2. slots[e.rid].id = e.id
        BY <2>3 DEF EntriesSound
      <3> QED
        BY <2>1, <2>2, <2>3, <2>5, <2>7, <3>1, <3>2 DEF SeenOf
    <2>8. CASE u # t
      <3>1. Entry(arg[u].id, rid[u]) = e => arg[u].id = e.id
        BY DEF Entry
      <3> QED
        BY <2>1, <2>2, <2>3, <2>5, <2>6, <2>8, <3>1 DEF SeenOf
    <2> QED
      BY <2>7, <2>8
  <1> QED
    BY <1>1, <1>2 DEF RemoveIndex

\* The record that remove empties has lost its entry before.
LEMMA SeenDmsRemove ==
  ASSUME StoreInvariant, Disjoint, NEW t \in Threads, DmsRemove(t)
  PROVE  \A u \in Threads : SeenOf(u)'
  <1> SUFFICES ASSUME NEW u \in Threads PROVE SeenOf(u)'
    OBVIOUS
  <1> USE DEF StoreInvariant, RtnInvariant
  <1>1. SeenOf(u)
    BY SeenOfAll
  <1>2. /\ rid[t] \in Rids /\ slots[rid[t]] # NoDoc /\ pc[t] \in Holding
        /\ \A e \in index : e.rid # rid[t]
    BY DEF DmsRemove, Locals, OneHolder, Holding
  <1>3. slots' = [slots EXCEPT ![rid[t]] = NoDoc] /\ Return(t, "ok", Missing)
    BY <1>2 DEF DmsRemove
  <1>4. /\ \A r \in Rids : slots'[r] = IF r = rid[t] THEN NoDoc ELSE slots[r]
        /\ pc'[t] = "idle" /\ arg'[t] = NoDoc
        /\ u # t => pc'[u] = pc[u] /\ arg'[u] = arg[u] /\ rid'[u] = rid[u] /\ seen'[u] = seen[u]
        /\ UNCHANGED <<written, index>>
    BY <1>2, <1>3 DEF DmsRemove, Return, TypeOK
  <1>5. \A e \in index : slots'[e.rid] = slots[e.rid]
    BY <1>2, <1>4 DEF TypeOK
  <1>6. \A i : Bound(slots', index, i) = Bound(slots, index, i)
    BY <1>5, BoundSame
  <1>7. CASE u = t
    BY <1>4, <1>7 DEF SeenOf
  <1>8. CASE u # t
    <2>1. pc[u] = "dmsRemove" => slots'[rid[u]] = slots[rid[u]]
      BY <1>2, <1>4, <1>8 DEF OneHolder, Locals, Holding
    <2>2. pc[u] = "dmsFind" => slots'[rid[u]] = NoDoc \/ slots'[rid[u]] = slots[rid[u]]
      BY <1>4 DEF Locals
    <2> QED
      BY <1>1, <1>4, <1>6, <1>8, <2>1, <2>2 DEF SeenOf
  <1> QED
    BY <1>7, <1>8

LEMMA NextSeen == StoreInvariant /\ [Next]_vars => SeenSound'
  <1> SUFFICES ASSUME StoreInvariant, [Next]_vars, Disjoint
               PROVE  \A u \in Threads : SeenOf(u)'
    BY DEF SeenSound, SeenOf, Disjoint
  <1>1. ASSUME NEW t \in Threads, NEW d \in Docs, BeginInsert(t, d)
        PROVE  \A u \in Threads : SeenOf(u)'
    BY <1>1, SeenBegin DEF BeginInsert
  <1>2. ASSUME NEW t \in Threads, NEW i \in Ids, BeginFind(t, i) \/ BeginRemove(t, i)
        PROVE  \A u \in Threads : SeenOf(u)'
    BY <1>2, SeenBegin DEF BeginFind, BeginRemove
  <1>3. ASSUME NEW t \in Threads, Reject(t) PROVE \A u \in Threads : SeenOf(u)'
    BY <1>3, SeenOfAll, SeenOfOther DEF Reject, StoreInvariant
  <1>4. ASSUME NEW t \in Threads,
               IsIDExist(t) \/ DmsInsert(t) \/ DmsInsertFails(t) \/ CreateIndex(t) \/ InsertReturns(t)
        PROVE  \A u \in Threads : SeenOf(u)'
    <2>1. CASE IsIDExist(t) \/ DmsInsert(t) \/ CreateIndex(t)
      BY <2>1, SeenIsIDExist, SeenDmsInsert, SeenCreateIndex
    <2>2. CASE DmsInsertFails(t) \/ InsertReturns(t)
      BY <2>2, SeenReturn DEF DmsInsertFails, InsertReturns
    <2> QED
      BY <1>4, <2>1, <2>2
  <1>5. ASSUME NEW t \in Threads, FindIndex(t) \/ DmsFind(t)
        PROVE  \A u \in Threads : SeenOf(u)'
    BY <1>5, SeenFindIndex, SeenReturn DEF DmsFind
  <1>6. ASSUME NEW t \in Threads, RemoveIndex(t) \/ DmsRemove(t)
        PROVE  \A u \in Threads : SeenOf(u)'
    BY <1>6, SeenRemoveIndex, SeenDmsRemove
  <1>7. CASE Crash
    BY <1>7 DEF Crash, SeenOf
  <1>8. CASE UNCHANGED vars
    BY <1>8, SeenOfAll, SeenOfOther DEF vars, StoreInvariant
  <1> QED
    BY <1>1, <1>2, <1>3, <1>4, <1>5, <1>6, <1>7, <1>8 DEF Next

\* Every step leaves pending calls with what was true while they waited.
THEOREM LayerSeesTruth == Spec => []StoreInvariant
  <1>1. Init => StoreInvariant
    BY InitInvariant DEF StoreInvariant, Init, SeenSound
  <1>2. StoreInvariant /\ [Next]_vars => StoreInvariant'
    BY NextInvariant, NextSeen DEF StoreInvariant
  <1> QED
    BY <1>1, <1>2, PTL DEF Spec
-----------------------------------------------------------------------------
(* The layer implements KVStore: every step is a step of the abstract      *)
(* store or changes nothing of it.                                         *)

LEMMA Ops ==
  /\ AbstractOp("idle") = "none"
  /\ AbstractOp("isIDExist") = "insert"
  /\ AbstractOp("dmsInsert") = "insert"
  /\ AbstractOp("createIndex") = "insert"
  /\ AbstractOp("inserted") = "done"
  /\ AbstractOp("findIndex") = "find"
  /\ AbstractOp("dmsFind") = "find"
  /\ AbstractOp("removeIndex") = "remove"
  /\ AbstractOp("dmsRemove") = "done"
  BY DEF AbstractOp

\* An idle thread has no call.
LEMMA IdleHasNoCall ==
  ASSUME StoreInvariant, Disjoint, NEW t \in Threads, pc[t] = "idle"
  PROVE  Calls[t] = Store!NoCall
  <1>1. arg[t] = NoDoc
    BY DEF StoreInvariant, SeenSound
  <1> QED
    BY <1>1, Ops DEF Calls, Store!NoCall, NoDoc

LEMMA CallsIsFunction ==
  /\ Calls = [t \in Threads |-> Calls[t]]
  /\ Calls' = [t \in Threads |-> Calls'[t]]
  BY DEF Calls

LEMMA CallsKeep ==
  ASSUME TypeOK, NEW t \in Threads, NEW l, Goto(t, l), AbstractOp(l) = AbstractOp(pc[t])
  PROVE  Calls' = Calls
  <1>1. \A u \in Threads : AbstractOp(pc'[u]) = AbstractOp(pc[u]) /\ arg'[u] = arg[u]
    BY DEF TypeOK, Goto
  <1> QED
    BY <1>1 DEF Calls

LEMMA CallsDone ==
  ASSUME TypeOK, NEW t \in Threads, NEW l, Goto(t, l), AbstractOp(l) = "done"
  PROVE  Calls' = [Calls EXCEPT ![t].op = "done"]
  <1>1. \A u \in Threads : arg'[u] = arg[u] /\ (u # t => AbstractOp(pc'[u]) = AbstractOp(pc[u]))
    BY DEF TypeOK, Goto
  <1>2. AbstractOp(pc'[t]) = "done"
    BY DEF TypeOK, Goto
  <1>3. Calls'[t] = [Calls[t] EXCEPT !.op = "done"]
    BY <1>1, <1>2 DEF Calls
  <1>4. \A u \in Threads : u # t => Calls'[u] = Calls[u]
    BY <1>1 DEF Calls
  <1> QED
    BY <1>3, <1>4, CallsIsFunction

LEMMA CallsReturn ==
  ASSUME TypeOK, NEW t \in Threads, NEW code, NEW v, Return(t, code, v)
  PROVE  Calls' = [Calls EXCEPT ![t] = Store!NoCall]
  <1>1. \A u \in Threads : u # t => arg'[u] = arg[u] /\ pc'[u] = pc[u]
    BY DEF TypeOK, Return
  <1>2. AbstractOp(pc'[t]) = "none" /\ arg'[t] = NoDoc
    BY Ops DEF TypeOK, Return
  <1>3. Calls'[t] = Store!NoCall
    BY <1>2 DEF Calls, Store!NoCall, NoDoc
  <1>4. \A u \in Threads : u # t => Calls'[u] = Calls[u]
    BY <1>1 DEF Calls
  <1> QED
    BY <1>3, <1>4, CallsIsFunction

LEMMA BindingsKeep ==
  ASSUME UNCHANGED index, \A e \in index : slots'[e.rid] = slots[e.rid]
  PROVE  Bindings' = Bindings
  <1>1. \A i : Bound(slots', index', i) = Bound(slots, index, i)
    BY BoundSame
  <1> QED
    BY <1>1 DEF Bindings

LEMMA ReturnRefines ==
  ASSUME TypeOK, NEW t \in Threads, NEW code, NEW v, Return(t, code, v), UNCHANGED serving,
         UNCHANGED index, \A e \in index : slots'[e.rid] = slots[e.rid]
  PROVE  Store!Return(t, [code |-> code, val |-> v])
  BY CallsReturn, BindingsKeep DEF Store!Return, Return

LEMMA BeginRefines ==
  ASSUME StoreInvariant, Disjoint, NEW t \in Threads, NEW l, NEW d, Begin(t, l, d),
         l \in {"isIDExist", "findIndex", "removeIndex"},
         d \in [id : Ids, val : Values \cup {Missing}]
  PROVE  Store!Next
  <1>1. Calls[t] = Store!NoCall
    BY IdleHasNoCall DEF Begin
  <1>2. AbstractOp(l) \in Store!Operations
    BY Ops DEF Store!Operations
  <1>3. Calls' = [Calls EXCEPT ![t] = [op |-> AbstractOp(l), id |-> d.id, val |-> d.val]]
    <2>1. /\ \A u \in Threads : u # t => arg'[u] = arg[u] /\ pc'[u] = pc[u]
          /\ pc'[t] = l /\ arg'[t] = d
      BY DEF Begin, StoreInvariant, RtnInvariant, TypeOK
    <2> QED
      BY <2>1 DEF Calls
  <1>4. Bindings' = Bindings
    BY BindingsKeep DEF Begin
  <1>5. Bindings[d.id] = Bound(slots, index, d.id)
    BY DEF Bindings
  <1>6. Store!Call(t, AbstractOp(l), d.id, d.val)
    BY <1>1, <1>2, <1>3, <1>4, <1>5 DEF Store!Call, Begin
  <1> QED
    BY <1>2, <1>6 DEF Store!Next

LEMMA IsIDExistRefines ==
  ASSUME StoreInvariant, Disjoint, NEW t \in Threads, IsIDExist(t)
  PROVE  Store!Next \/ UNCHANGED Store!vars
  <1> USE DEF StoreInvariant, RtnInvariant
  <1>1. CASE Exists(arg[t].id)
    <2>1. PICK e \in index : e.id = arg[t].id
      BY <1>1 DEF Exists, EntriesOf
    <2>2. Bound(slots, index, e.id) # Missing
      BY <2>1, EntryIsBound DEF IdReserved
    <2>3. seen[t] # {Missing}
      BY <2>1, <2>2 DEF SeenSound, IsIDExist
    <2>4. Store!Return(t, Store!Refused)
      BY <1>1, ReturnRefines DEF IsIDExist, Store!Refused
    <2>5. Calls[t].op = "insert"
      BY Ops DEF Calls, IsIDExist
    <2> QED
      BY <2>3, <2>4, <2>5 DEF Store!Next, Store!Answer
  <1>2. CASE ~Exists(arg[t].id)
    <2>1. Calls' = Calls
      BY <1>2, CallsKeep, Ops DEF IsIDExist
    <2>2. Bindings' = Bindings
      BY <1>2, BindingsKeep DEF IsIDExist
    <2> QED
      BY <1>2, <2>1, <2>2 DEF Store!vars, IsIDExist, Goto
  <1> QED
    BY <1>1, <1>2

LEMMA DmsInsertRefines ==
  ASSUME StoreInvariant, NEW t \in Threads, DmsInsert(t)
  PROVE  UNCHANGED Store!vars
  <1> USE DEF StoreInvariant, RtnInvariant
  <1>1. /\ NextRid \in Rids /\ slots[NextRid] = NoDoc
        /\ \A r \in Rids : r # NextRid => slots'[r] = slots[r]
    BY BoundsAssumption DEF DmsInsert, TypeOK, EntriesSound, NextRid, Rids
  <1>2. \A e \in index : slots'[e.rid] = slots[e.rid]
    BY <1>1 DEF TypeOK, EntriesSound
  <1>3. Bindings' = Bindings
    BY <1>2, BindingsKeep DEF DmsInsert
  <1>4. Calls' = Calls
    BY CallsKeep, Ops DEF DmsInsert
  <1> QED
    BY <1>3, <1>4 DEF Store!vars, DmsInsert, Goto

LEMMA DmsInsertFailsRefines ==
  ASSUME StoreInvariant, NEW t \in Threads, DmsInsertFails(t)
  PROVE  Store!Next
  <1>1. Store!Return(t, Store!Failure)
    BY ReturnRefines DEF DmsInsertFails, Store!Failure, StoreInvariant, RtnInvariant
  <1>2. Calls[t].op = "insert"
    BY Ops DEF Calls, DmsInsertFails
  <1> QED
    BY <1>1, <1>2 DEF Store!Next, Store!Answer

\* createIndex is the moment an insert takes effect.
LEMMA CreateIndexRefines ==
  ASSUME StoreInvariant, Disjoint, NEW t \in Threads, CreateIndex(t)
  PROVE  Store!Next
  <1> DEFINE i == arg[t].id
             ix == index \cup {Entry(arg[t].id, rid[t])}
  <1> USE DEF StoreInvariant, RtnInvariant
  <1>1. /\ pc[t] = "createIndex" /\ i \in Ids /\ slots[rid[t]] = arg[t]
        /\ \A e \in index : e.id # i
        /\ Unique(index)
    BY DEF CreateIndex, Locals, OneHolder, IdReserved, EntriesOf, Checked
  <1>2. index' = ix /\ Unique(ix) /\ slots' = slots
    BY CreateIndexInv DEF CreateIndex, Reindex, IdReserved, Disjoint
  <1>3. Bound(slots, ix, i) = arg[t].val
    <2> DEFINE e == Entry(arg[t].id, rid[t])
    <2>1. e \in ix /\ e.id = i /\ e.rid = rid[t]
      BY DEF Entry
    <2> HIDE DEF e, ix
    <2>2. Bound(slots, ix, e.id) = slots[e.rid].val
      BY <1>2, <2>1, BoundOne
    <2> QED
      BY <1>1, <2>1, <2>2
  <1>4. \A j : j # i => Bound(slots, ix, j) = Bound(slots, index, j)
    <2> SUFFICES ASSUME NEW j, j # i PROVE Bound(slots, ix, j) = Bound(slots, index, j)
      OBVIOUS
    <2>1. (\A e \in index : e.id = j => e \in ix) /\ (\A e \in ix : e.id = j => e \in index)
      BY DEF Entry
    <2> HIDE DEF ix
    <2> QED
      BY <1>1, <1>2, <2>1, BoundOther
  <1>5. Bindings[i] = Missing
    BY <1>1, BoundFree DEF Bindings
  <1>6. Bindings' = [Bindings EXCEPT ![i] = arg[t].val]
    <2> HIDE DEF i, ix
    <2> QED
      BY <1>1, <1>2, <1>3, <1>4 DEF Bindings
  <1>7. /\ Calls[t].op = "insert" /\ Calls[t].id = i /\ Calls[t].val = arg[t].val
        /\ \A u \in Threads : Calls[u].id = arg[u].id
    BY <1>1, Ops DEF Calls
  <1>8. Calls' = [Calls EXCEPT ![t].op = "done"]
    BY CallsDone, Ops DEF CreateIndex
  <1>9. seen' = [u \in Threads |-> IF arg[u].id = i THEN seen[u] \cup {arg[t].val} ELSE seen[u]]
    BY <1>3 DEF CreateIndex, Reindex
  <1>10. Store!Bind(Calls[t].id, Calls[t].val)
    BY <1>6, <1>7, <1>9 DEF Store!Bind
  <1>11. Store!TakeEffect(t)
    BY <1>5, <1>7, <1>8, <1>10 DEF Store!TakeEffect, CreateIndex, Goto
  <1> QED
    BY <1>11 DEF Store!Next

LEMMA InsertReturnsRefines ==
  ASSUME StoreInvariant, NEW t \in Threads, InsertReturns(t)
  PROVE  Store!Next
  <1>1. Store!Return(t, Store!Success(Missing))
    BY ReturnRefines DEF InsertReturns, Store!Success, StoreInvariant, RtnInvariant
  <1>2. Calls[t].op = "done"
    BY Ops DEF Calls, InsertReturns
  <1> QED
    BY <1>1, <1>2 DEF Store!Next, Store!Answer

LEMMA FindIndexRefines ==
  ASSUME StoreInvariant, Disjoint, NEW t \in Threads, FindIndex(t)
  PROVE  Store!Next \/ UNCHANGED Store!vars
  <1> USE DEF StoreInvariant, RtnInvariant
  <1>0. Calls[t].op = "find"
    BY Ops DEF Calls, FindIndex
  <1>1. CASE ~Exists(arg[t].id) /\ Return(t, "refused", Missing)
    <2>1. \A e \in index : e.id # arg[t].id
      BY <1>1 DEF Exists, EntriesOf
    <2>2. Bound(slots, index, arg[t].id) = Missing
      BY <2>1, BoundFree
    <2>3. Missing \in seen[t]
      BY <2>2 DEF SeenSound, FindIndex
    <2>4. Store!Return(t, Store!Refused)
      BY <1>1, ReturnRefines DEF FindIndex, Store!Refused
    <2> QED
      BY <1>0, <2>3, <2>4 DEF Store!Next, Store!Answer
  <1>2. CASE Goto(t, "dmsFind") /\ UNCHANGED seen
    <2>1. Calls' = Calls
      BY <1>2, CallsKeep, Ops DEF FindIndex
    <2>2. Bindings' = Bindings
      BY BindingsKeep DEF FindIndex
    <2> QED
      BY <1>2, <2>1, <2>2 DEF Store!vars, FindIndex, Goto
  <1> QED
    BY <1>1, <1>2 DEF FindIndex

\* What find returns was true at some moment of the call: the document if the
\* slot is still full, the absence if remove came first.
LEMMA DmsFindRefines ==
  ASSUME StoreInvariant, Disjoint, NEW t \in Threads, DmsFind(t)
  PROVE  Store!Next
  <1> USE DEF StoreInvariant, RtnInvariant
  <1>1. pc[t] = "dmsFind" /\ rid[t] \in Rids /\ Calls[t].op = "find"
    BY Ops DEF Calls, DmsFind, Locals
  <1>2. CASE slots[rid[t]] = NoDoc
    <2>1. Entry(arg[t].id, rid[t]) \notin index
      BY <1>2 DEF EntriesSound, Entry
    <2>2. Missing \in seen[t]
      BY <1>1, <2>1 DEF SeenSound
    <2>3. Store!Return(t, Store!Refused)
      BY <1>2, ReturnRefines DEF DmsFind, Store!Refused
    <2> QED
      BY <1>1, <2>2, <2>3 DEF Store!Next, Store!Answer
  <1>3. CASE slots[rid[t]] # NoDoc
    <2> DEFINE v == slots[rid[t]].val
    <2>1. slots[rid[t]] \in Docs
      BY <1>1, <1>3 DEF TypeOK
    <2>2. v \in seen[t] \ {Missing}
      BY <1>1, <1>3, <2>1, MissingAssumption DEF SeenSound, Docs
    <2>3. Return(t, "ok", v)
      BY <1>3 DEF DmsFind
    <2>4. UNCHANGED <<slots, index, serving>>
      BY DEF DmsFind
    <2> HIDE DEF v
    <2>5. Store!Return(t, Store!Success(v))
      BY <2>3, <2>4, ReturnRefines DEF Store!Success
    <2> QED
      BY <1>1, <2>2, <2>5 DEF Store!Next, Store!Answer
  <1> QED
    BY <1>2, <1>3

\* removeIndex is the moment a remove takes effect.
LEMMA RemoveIndexRefines ==
  ASSUME StoreInvariant, Disjoint, NEW t \in Threads, RemoveIndex(t)
  PROVE  Store!Next
  <1> USE DEF StoreInvariant, RtnInvariant
  <1>0. /\ pc[t] = "removeIndex" /\ arg[t].id \in Ids
        /\ Calls[t].op = "remove" /\ Calls[t].id = arg[t].id
        /\ \A u \in Threads : Calls[u].id = arg[u].id
    BY Ops DEF Calls, RemoveIndex, Locals
  <1>1. CASE ~Exists(arg[t].id) /\ Return(t, "refused", Missing) /\ UNCHANGED <<index, acked>>
    <2>1. \A e \in index : e.id # arg[t].id
      BY <1>1 DEF Exists, EntriesOf
    <2>2. Bound(slots, index, arg[t].id) = Missing
      BY <2>1, BoundFree
    <2>3. Missing \in seen[t]
      BY <1>0, <2>2 DEF SeenSound
    <2>4. Store!Return(t, Store!Refused)
      BY <1>1, ReturnRefines DEF RemoveIndex, Store!Refused
    <2> QED
      BY <1>0, <2>3, <2>4 DEF Store!Next, Store!Answer
  <1>2. ASSUME NEW e \in EntriesOf(arg[t].id),
               Reindex(arg[t].id, Erased(e)), Goto(t, "dmsRemove")
        PROVE  Store!Next
    <2> DEFINE i == arg[t].id
               ix == index \ {e}
    <2>1. e \in index /\ e.id = i /\ index' = ix /\ UNCHANGED <<slots, serving>>
      BY <1>2 DEF EntriesOf, Reindex, Erased, RemoveIndex
    <2>2. Unique(index) /\ Unique(ix)
      BY DEF IdReserved, Unique
    <2>3. Bound(slots, ix, i) = Missing
      BY <2>1, <2>2, BoundFree DEF Unique
    <2>4. \A j : j # i => Bound(slots, ix, j) = Bound(slots, index, j)
      <3> SUFFICES ASSUME NEW j, j # i PROVE Bound(slots, ix, j) = Bound(slots, index, j)
        OBVIOUS
      <3>1. /\ \A f \in index : f.id = j => f \in ix
            /\ \A f \in ix : f.id = j => f \in index
        BY <2>1
      <3> HIDE DEF ix
      <3> QED
        BY <2>2, <3>1, BoundOther
    <2>5. Bindings[i] # Missing
      BY <1>0, <2>1, <2>2, EntryIsBound DEF Bindings
    <2>6. seen' = [u \in Threads |-> IF arg[u].id = i THEN seen[u] \cup {Missing} ELSE seen[u]]
      BY <1>2, <2>3 DEF Reindex, Erased
    <2> HIDE DEF i, ix
    <2>7. i \in Ids /\ i = arg[t].id
      BY <1>0 DEF i
    <2>8. Bindings' = [Bindings EXCEPT ![i] = Missing]
      BY <2>1, <2>3, <2>4, <2>7 DEF Bindings
    <2>9. Calls' = [Calls EXCEPT ![t].op = "done"]
      BY <1>2, CallsDone, Ops
    <2>10. Store!Bind(Calls[t].id, Missing)
      BY <1>0, <2>6, <2>7, <2>8 DEF Store!Bind
    <2>11. Store!TakeEffect(t)
      BY <1>0, <1>2, <2>1, <2>5, <2>7, <2>9, <2>10 DEF Store!TakeEffect, Goto
    <2> QED
      BY <2>11 DEF Store!Next
  <1> QED
    BY <1>1, <1>2 DEF RemoveIndex

LEMMA DmsRemoveRefines ==
  ASSUME StoreInvariant, NEW t \in Threads, DmsRemove(t)
  PROVE  Store!Next
  <1> USE DEF StoreInvariant, RtnInvariant
  <1>1. rid[t] \in Rids /\ slots[rid[t]] # NoDoc /\ \A e \in index : e.rid # rid[t]
    BY DEF DmsRemove, Locals, OneHolder, Holding
  <1>2. /\ slots' = [slots EXCEPT ![rid[t]] = NoDoc] /\ Return(t, "ok", Missing)
        /\ UNCHANGED <<index, serving>>
    BY <1>1 DEF DmsRemove
  <1>3. \A e \in index : slots'[e.rid] = slots[e.rid]
    BY <1>1, <1>2 DEF TypeOK
  <1>4. Store!Return(t, Store!Success(Missing))
    BY <1>2, <1>3, ReturnRefines DEF Store!Success
  <1>5. Calls[t].op = "done"
    BY Ops DEF Calls, DmsRemove
  <1> QED
    BY <1>4, <1>5 DEF Store!Next, Store!Answer

LEMMA RejectRefines ==
  ASSUME StoreInvariant, Disjoint, NEW t \in Threads, Reject(t)
  PROVE  Store!Next
  <1>1. Calls[t] = Store!NoCall
    BY IdleHasNoCall DEF Reject
  <1>2. Bindings' = Bindings
    BY BindingsKeep DEF Reject
  <1>3. Calls' = Calls
    BY DEF Calls, Reject
  <1>4. Store!Reject(t)
    BY <1>1, <1>2, <1>3 DEF Store!Reject, Store!Failure, Reject
  <1> QED
    BY <1>4 DEF Store!Next

\* A stored record without an entry belongs to an update a crash interrupts.
LEMMA UnindexedIsInterrupted ==
  ASSUME StoreInvariant, Disjoint, serving, NEW r \in Rids, slots[r] # NoDoc,
         Entry(slots[r].id, r) \notin index
  PROVE  \E t \in Threads :
            /\ pc[t] \in Holding /\ rid[t] = r
            /\ Calls[t].id = slots[r].id
            /\ \/ pc[t] = "createIndex" /\ Calls[t].op = "insert" /\ Calls[t].val = slots[r].val
               \/ pc[t] = "dmsRemove" /\ Calls[t].op = "done" /\ slots[r].val \in seen[t]
  <1> USE DEF StoreInvariant, RtnInvariant
  <1>1. PICK t \in Threads : pc[t] \in Holding /\ rid[t] = r
    BY DEF OneHolder
  <1>2. CASE pc[t] = "createIndex"
    <2>1. slots[r] = arg[t]
      BY <1>1, <1>2 DEF OneHolder
    <2>2. Calls[t].op = "insert" /\ Calls[t].id = arg[t].id /\ Calls[t].val = arg[t].val
      BY <1>2, Ops DEF Calls
    <2> QED
      BY <1>1, <1>2, <2>1, <2>2
  <1>3. CASE pc[t] = "dmsRemove"
    <2>1. slots[r].id = arg[t].id /\ slots[r].val \in seen[t]
      BY <1>1, <1>3 DEF SeenSound
    <2>2. Calls[t].op = "done" /\ Calls[t].id = arg[t].id
      BY <1>3, Ops DEF Calls
    <2> QED
      BY <1>1, <1>3, <2>1, <2>2
  <1> QED
    BY <1>1, <1>2, <1>3 DEF Holding

\* A bound _id keeps its document over a restart.
LEMMA RestartKeeps ==
  ASSUME StoreInvariant, Disjoint, serving, Unique(Loaded), NEW e \in index
  PROVE  Bound(slots, Loaded, e.id) = Bound(slots, index, e.id)
  <1>1. e.rid \in Rids /\ slots[e.rid] # NoDoc /\ e = Entry(slots[e.rid].id, e.rid)
    BY DEF StoreInvariant, RtnInvariant, TypeOK, EntriesSound, Entry
  <1>2. e \in Loaded
    BY <1>1 DEF Loaded
  <1>3. Unique(index)
    BY DEF StoreInvariant, RtnInvariant, IdReserved
  <1> QED
    BY <1>2, <1>3, BoundOne

\* What a restart finds under a free _id was left by an interrupted update.
LEMMA RestartFinds ==
  ASSUME StoreInvariant, Disjoint, serving, Unique(Loaded), NEW i, \A e \in index : e.id # i
  PROVE  Bound(slots, Loaded, i) \in {Missing} \cup Store!Interrupted(i)
  <1>1. CASE \A e \in Loaded : e.id # i
    BY <1>1, BoundFree
  <1>2. ASSUME NEW e \in Loaded, e.id = i
        PROVE  Bound(slots, Loaded, i) \in Store!Interrupted(i)
    <2>1. PICK r \in Rids : slots[r] # NoDoc /\ e = Entry(slots[r].id, r)
      BY DEF Loaded
    <2>2. e.rid = r /\ slots[r].id = i /\ e.id = slots[r].id
      BY <1>2, <2>1 DEF Entry
    <2>3. Bound(slots, Loaded, i) = slots[r].val
      BY <1>2, <2>2, BoundOne
    <2>4. slots[r].val # Missing
      BY <2>1, MissingAssumption DEF StoreInvariant, RtnInvariant, TypeOK, Docs
    <2>5. Entry(slots[r].id, r) \notin index
      BY <1>2, <2>1
    <2>6. PICK t \in Threads :
             /\ Calls[t].id = slots[r].id
             /\ \/ Calls[t].op = "insert" /\ Calls[t].val = slots[r].val
                \/ Calls[t].op = "done" /\ slots[r].val \in seen[t]
      BY <2>1, <2>5, UnindexedIsInterrupted
    <2>7. slots[r].val \in (seen[t] \cup {Calls[t].val}) \ {Missing}
      BY <2>4, <2>6
    <2>8. t \in {u \in Threads : Calls[u].id = i /\ Calls[u].op \in {"insert", "done"}}
      BY <2>2, <2>6
    <2> QED
      BY <2>3, <2>7, <2>8 DEF Store!Interrupted
  <1> QED
    BY <1>1, <1>2

\* An _id is stored twice only while a remove that took effect has its record
\* still in the file.
LEMMA DoubleIsInterrupted ==
  ASSUME StoreInvariant, Disjoint, serving, ~Unique(Loaded)
  PROVE  \E t \in Threads : Calls[t].op = "done"
  <1> USE DEF StoreInvariant, RtnInvariant
  <1> SUFFICES ASSUME \A t \in Threads : Calls[t].op # "done" PROVE FALSE
    OBVIOUS
  <1>1. PICK e \in Loaded, f \in Loaded : e.id = f.id /\ e # f
    BY DEF Unique
  <1>2. PICK q \in Rids : slots[q] # NoDoc /\ e = Entry(slots[q].id, q)
    BY DEF Loaded
  <1>3. PICK r \in Rids : slots[r] # NoDoc /\ f = Entry(slots[r].id, r)
    BY DEF Loaded
  <1>4. slots[q].id = slots[r].id /\ q # r
    BY <1>1, <1>2, <1>3 DEF Entry
  <1>5. ASSUME NEW x \in Rids, slots[x] # NoDoc, Entry(slots[x].id, x) \notin index
        PROVE  \E t \in Threads : /\ pc[t] = "createIndex" /\ rid[t] = x
                                  /\ arg[t].id = slots[x].id /\ arg[t].id \in MayInsert[t]
                                  /\ \A g \in index : g.id # slots[x].id
    <2>1. PICK t \in Threads : pc[t] = "createIndex" /\ rid[t] = x
      BY <1>5, UnindexedIsInterrupted
    <2>2. slots[x] = arg[t] /\ arg[t].id \in MayInsert[t]
      BY <2>1 DEF OneHolder, Locals
    <2>3. EntriesOf(arg[t].id) = {}
      BY <2>1 DEF IdReserved, Checked
    <2> QED
      BY <2>1, <2>2, <2>3 DEF EntriesOf
  <1>6. ~(e \in index /\ f \in index)
    BY <1>1 DEF IdReserved, Unique
  <1>7. e \notin index /\ f \notin index
    <2>1. e.id = slots[q].id /\ f.id = slots[r].id
      BY <1>2, <1>3 DEF Entry
    <2> QED
      BY <1>2, <1>3, <1>4, <1>5, <1>6, <2>1
  <1>8. PICK t \in Threads : pc[t] = "createIndex" /\ rid[t] = q
                             /\ arg[t].id = slots[q].id /\ arg[t].id \in MayInsert[t]
    BY <1>2, <1>5, <1>7
  <1>9. PICK u \in Threads : pc[u] = "createIndex" /\ rid[u] = r
                             /\ arg[u].id = slots[r].id /\ arg[u].id \in MayInsert[u]
    BY <1>3, <1>5, <1>7
  <1>10. t # u
    BY <1>4, <1>8, <1>9
  <1> QED
    BY <1>4, <1>8, <1>9, <1>10 DEF Disjoint

\* Restart loses no binding and invents none, and fails only when it
\* interrupted an update that had taken effect.
LEMMA CrashRefines ==
  ASSUME StoreInvariant, Disjoint, Crash PROVE Store!Next
  <1>1. /\ Calls' = [t \in Threads |-> Store!NoCall]
        /\ seen' = [t \in Threads |-> {}]
        /\ answer' = [t \in Threads |-> Store!Failure]
        /\ serving /\ slots' = slots
    <2>1. \A t \in Threads : pc'[t] = "idle" /\ arg'[t] = NoDoc
      BY DEF Crash
    <2>2. \A t \in Threads : Calls'[t] = Store!NoCall
      BY <2>1, Ops DEF Calls, NoDoc, Store!NoCall
    <2>3. Calls' = [t \in Threads |-> Store!NoCall]
      BY <2>2, CallsIsFunction
    <2> QED
      BY <2>3 DEF Crash, Store!Failure
  <1>2. CASE Unique(Loaded)
    <2>1. serving' = TRUE /\ index' = Loaded
      BY <1>2 DEF Crash
    <2>2. ASSUME NEW i \in Ids
          PROVE  Bindings'[i] \in {Bindings[i]} \cup
                    (IF Bindings[i] = Missing THEN Store!Interrupted(i) ELSE {})
      <3>1. Bindings'[i] = Bound(slots, Loaded, i) /\ Bindings[i] = Bound(slots, index, i)
        BY <1>1, <2>1 DEF Bindings
      <3>2. CASE \E e \in index : e.id = i
        BY <1>1, <1>2, <3>1, <3>2, RestartKeeps
      <3>3. CASE \A e \in index : e.id # i
        <4>1. Bindings[i] = Missing
          BY <3>1, <3>3, BoundFree
        <4>2. Bindings'[i] \in {Missing} \cup Store!Interrupted(i)
          BY <1>1, <1>2, <3>1, <3>3, RestartFinds
        <4> QED
          BY <4>1, <4>2
      <3> QED
        BY <3>2, <3>3
    <2>3. Store!Crash
      BY <1>1, <2>1, <2>2 DEF Store!Crash
    <2> QED
      BY <2>3 DEF Store!Next
  <1>3. CASE ~Unique(Loaded)
    <2>1. serving' = FALSE /\ index' = {}
      BY <1>3 DEF Crash, Unique
    <2>2. Bindings' = [i \in Ids |-> Missing]
      BY <2>1 DEF Bindings, Bound
    <2>3. \E t \in Threads : Calls[t].op = "done"
      BY <1>1, <1>3, DoubleIsInterrupted
    <2>4. Store!Crash
      BY <1>1, <2>1, <2>2, <2>3 DEF Store!Crash
    <2> QED
      BY <2>4 DEF Store!Next
  <1> QED
    BY <1>2, <1>3

LEMMA InitRefines == Init => Store!Init
  <1> SUFFICES ASSUME Init PROVE Store!Init
    OBVIOUS
  <1>1. Bindings = [i \in Ids |-> Missing]
    BY DEF Init, Bindings, Bound
  <1>2. \A t \in Threads : Calls[t] = Store!NoCall
    BY Ops DEF Init, Calls, NoDoc, Store!NoCall
  <1>3. Calls = [t \in Threads |-> Store!NoCall]
    BY <1>2, CallsIsFunction
  <1> QED
    BY <1>1, <1>3 DEF Init, Store!Init, Store!Failure

LEMMA NextRefines ==
  ASSUME Disjoint PROVE StoreInvariant /\ [Next]_vars => [Store!Next]_(Store!vars)
  <1> SUFFICES ASSUME StoreInvariant, [Next]_vars PROVE Store!Next \/ UNCHANGED Store!vars
    OBVIOUS
  <1>1. ASSUME NEW t \in Threads, NEW d \in Docs, BeginInsert(t, d) PROVE Store!Next
    <2>1. d \in [id : Ids, val : Values \cup {Missing}]
      BY DEF Docs
    <2> QED
      BY <1>1, <2>1, BeginRefines DEF BeginInsert
  <1>2. ASSUME NEW t \in Threads, NEW i \in Ids, BeginFind(t, i) \/ BeginRemove(t, i)
        PROVE  Store!Next
    <2> DEFINE d == [id |-> i, val |-> Missing]
    <2>1. d \in [id : Ids, val : Values \cup {Missing}]
      OBVIOUS
    <2>2. Begin(t, "findIndex", d) \/ Begin(t, "removeIndex", d)
      BY <1>2 DEF BeginFind, BeginRemove
    <2> HIDE DEF d
    <2> QED
      BY <2>1, <2>2, BeginRefines
  <1>3. ASSUME NEW t \in Threads, Reject(t) PROVE Store!Next
    BY <1>3, RejectRefines
  <1>4. ASSUME NEW t \in Threads,
               IsIDExist(t) \/ DmsInsert(t) \/ DmsInsertFails(t) \/ CreateIndex(t) \/ InsertReturns(t)
        PROVE  Store!Next \/ UNCHANGED Store!vars
    BY <1>4, IsIDExistRefines, DmsInsertRefines, DmsInsertFailsRefines, CreateIndexRefines,
       InsertReturnsRefines
  <1>5. ASSUME NEW t \in Threads, FindIndex(t) \/ DmsFind(t)
        PROVE  Store!Next \/ UNCHANGED Store!vars
    BY <1>5, FindIndexRefines, DmsFindRefines
  <1>6. ASSUME NEW t \in Threads, RemoveIndex(t) \/ DmsRemove(t) PROVE Store!Next
    BY <1>6, RemoveIndexRefines, DmsRemoveRefines
  <1>7. CASE Crash
    BY <1>7, CrashRefines
  <1>8. CASE UNCHANGED vars
    BY <1>8 DEF vars, Store!vars, Bindings, Calls
  <1> QED
    BY <1>1, <1>2, <1>3, <1>4, <1>5, <1>6, <1>7, <1>8 DEF Next

\* Where no _id is inserted by two agents, rtnInsert, rtnFind and rtnRemove are
\* the operations of a map: an insert takes effect when createIndex adds its
\* entry, a remove when removeIndex erases it, every answer was true at some
\* moment of its call, and a restart loses no binding and invents none.
THEOREM LayerIsAStore == Disjoint => (Spec => ImplementsStore)
  <1> SUFFICES ASSUME Disjoint PROVE Spec => ImplementsStore
    OBVIOUS
  <1>1. StoreInvariant /\ [Next]_vars => [Store!Next]_(Store!vars)
    BY NextRefines
  <1> QED
    BY <1>1, InitRefines, LayerSeesTruth, PTL DEF Spec, Store!Spec, ImplementsStore
=============================================================================
