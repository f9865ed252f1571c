------------------------------ MODULE DmsPage ------------------------------
(***************************************************************************)
(* One data page of a dmsFile (src/dms/dms.cpp, include/dms.hpp), store by *)
(* store.  A page is a header, a list of slots that grows upwards, free    *)
(* space, and record images that grow downwards from the end of the page.  *)
(* A record id (rid) names a record by page and slot.                      *)
(*                                                                         *)
(* The unit of size is the 4-byte word: a slot is one word, the header of  *)
(* a record two (_size, _flag), the page header seven.  Record sizes are   *)
(* rounded to words.                                                       *)
(*                                                                         *)
(* Every operation on the page runs inside dmsFile::_mutex, so operations  *)
(* do not interleave; they are split into one action per store only        *)
(* because the page is memory-mapped and the server stops by abort()       *)
(* (include/pmd.hpp, EDB_SHUTDOWN_DB): a crash keeps exactly the stores    *)
(* made so far.                                                            *)
(***************************************************************************)
EXTENDS Integers

CONSTANTS
    Records,    \* BSON documents that may be stored
    Size,       \* Size[r]: record.objsize() of document r, in words
    PageWords,  \* DMS_PAGE_SIZE, in words
    MaxSlots,   \* bound: slots ever appended to the page
    MaxCrashes, \* bound: crashes of the server
    NoRecord    \* "no document"

HeaderWords == 7   \* sizeof(dmsPageHeader)
RecordWords == 2   \* sizeof(dmsRecord)
SlotWords == 1     \* sizeof(SLOTOFF) = sizeof(SLOTID)

ASSUME SizeAssumption == Size \in [Records -> Nat \ {0}]
ASSUME PageAssumption == PageWords \in Nat /\ PageWords > HeaderWords
ASSUME BoundsAssumption == MaxSlots \in Nat /\ MaxCrashes \in Nat
ASSUME NoRecordAssumption == NoRecord \notin Records

Empty == -1                        \* DMS_SLOT_EMPTY
Offsets == 0 .. PageWords
Addresses == 0 .. PageWords - 1
SlotIds == 0 .. MaxSlots

(***************************************************************************)
(* A word of the data area is <<s, k>>: the k-th word of the image (record *)
(* header, then document) that was written for slot s.  Word 0 is _size,   *)
(* word 1 _flag, word 2 on the document, whose first word is its length.   *)
(***************************************************************************)
SizeWord(s) == <<s, 0>>
FlagWord(s) == <<s, 1>>            \* _flag = DMS_RECORD_FLAG_NORMAL
LengthWord(s) == <<s, RecordWords>>
DroppedWord(s) == <<s, -1>>        \* _flag = DMS_RECORD_FLAG_DROPPED
Blank == <<-1, 0>>
Words == ({-1} \cup SlotIds) \X ({-1} \cup Nat)

VARIABLES
    mem,         \* the words of the page
    slot,        \* the slot list, zero-filled beyond the last slot written
    numSlots, slotOffset, freeSpace, freeOffset,    \* dmsPageHeader
    pc,          \* the next store of the operation that holds _mutex
    cur,         \* the document an insert is storing
    rid,         \* the slot of the rid in use: out of insert, into remove
    pos, right, recovering,   \* _recoverSpace: i, pRight - page, isRecover
    known,       \* the rids of this page that the id index holds
    rc, got,     \* outcome and document returned by the last operation
    image,       \* history: the document written for each slot
    live,        \* history: acknowledged records that nobody removed
    removed,     \* history: records whose removal reached the page
    crashes,     \* history: crashes so far
    damage       \* history: what went wrong on this page so far

header == <<numSlots, slotOffset, freeSpace, freeOffset>>
page == <<mem, slot, header>>
loop == <<pos, right, recovering>>
answer == <<rc, got>>
ghosts == <<image, live, removed, damage, crashes>>
vars == <<page, pc, cur, rid, loop, known, answer, ghosts>>

\* "wild": the code went on with bytes that are not what it takes them for.
Outcomes == {"ok", "EDB_SYS", "crash", "wild"}
PCs == {"idle", "recover", "check", "slot", "record", "count", "slotOffset",
        "freeOffset", "charge", "flag", "credit", "wild"}

\* "compacted": _recoverSpace met a live record.  "torn": a crash fell
\* between the header stores of an insert.
Damages == {"compacted", "torn"}

TypeOK ==
    /\ mem \in [Addresses -> Words]
    /\ slot \in [SlotIds -> {Empty} \cup Offsets]
    /\ numSlots \in SlotIds
    /\ slotOffset \in HeaderWords .. PageWords
    /\ freeSpace \in Nat
    /\ freeOffset \in slotOffset .. PageWords
    /\ pc \in PCs
    /\ cur \in Records \cup {NoRecord}
    /\ rid \in SlotIds
    /\ pos \in SlotIds
    /\ right \in Offsets
    /\ recovering \in BOOLEAN
    /\ known \subseteq SlotIds
    /\ rc \in Outcomes
    /\ got \in Records \cup {NoRecord}
    /\ image \in [SlotIds -> Records \cup {NoRecord}]
    /\ live \subseteq SlotIds
    /\ removed \subseteq SlotIds
    /\ damage \subseteq Damages
    /\ crashes \in 0 .. MaxCrashes

\* A slip: the slot is not counted.
NeedWithoutSlot(r) == Size[r] + RecordWords
Need(r) == Size[r] + RecordWords + SlotWords

\* The page as _extendSegment formats it.
Init ==
    /\ mem = [a \in Addresses |-> Blank]
    /\ slot = [s \in SlotIds |-> 0]
    /\ numSlots = 0
    /\ slotOffset = HeaderWords
    /\ freeSpace = PageWords - HeaderWords
    /\ freeOffset = PageWords
    /\ pc = "idle"
    /\ cur = NoRecord
    /\ rid = 0
    /\ pos = 0
    /\ right = PageWords
    /\ recovering = FALSE
    /\ known = {}
    /\ rc = "ok"
    /\ got = NoRecord
    /\ image = [s \in SlotIds |-> NoRecord]
    /\ live = {}
    /\ removed = {}
    /\ damage = {}
    /\ crashes = 0

\* The operation ends: _mutex is released, its locals are gone, rc is returned.
Done(code) ==
    /\ pc' = "idle"
    /\ rc' = code
    /\ cur' = NoRecord
    /\ rid' = 0
    /\ pos' = 0
    /\ right' = PageWords
    /\ recovering' = FALSE

\* The operation went on with bytes that are not a record header; what the
\* process does to the page from here on is not followed.
Wild == pc' = "wild" /\ rc' = "wild"

-----------------------------------------------------------------------------
(* dmsFile::insert, from the page that _findPage chose.                    *)

\* Reorganise when the free space counts holes and the gap is too small.
InsertBegin(r) ==
    /\ pc = "idle"
    /\ numSlots < MaxSlots
    /\ freeSpace > Size[r]                      \* _findPage
    /\ cur' = r
    /\ IF /\ freeSpace > freeOffset - slotOffset
          /\ slotOffset + Need(r) > freeOffset
       THEN /\ pc' = "recover"
            /\ pos' = 0
            /\ right' = PageWords
            /\ recovering' = FALSE
       ELSE pc' = "check" /\ UNCHANGED loop
    /\ got' = NoRecord
    /\ UNCHANGED <<page, rid, known, rc, ghosts>>

\* _recoverSpace passes an empty slot: from here on records are moved.
RecoverHole ==
    /\ pc = "recover"
    /\ pos < numSlots
    /\ slot[pos] = Empty
    /\ recovering' = TRUE
    /\ pos' = pos + 1
    /\ UNCHANGED <<page, pc, cur, rid, right, known, answer, ghosts>>

\* What memmove(page + to, page + from, len) leaves behind.
Moved(m, to, from, len) ==
    [a \in Addresses |-> IF to <= a /\ a < to + len THEN m[a - to + from] ELSE m[a]]

\* _recoverSpace passes a record: it steps over, and moves, _size words,
\* which is the document without its record header.
RecoverRecord ==
    /\ pc = "recover"
    /\ pos < numSlots
    /\ slot[pos] # Empty
    /\ damage' = damage \cup {"compacted"}
    /\ LET from == slot[pos]
           size == Size[image[mem[from][1]]]
           to == right - size
       IN IF /\ from < PageWords
             /\ \E s \in SlotIds : mem[from] = SizeWord(s)
             /\ image[mem[from][1]] \in Records
             /\ slotOffset <= to
             /\ from + size <= PageWords
          THEN /\ right' = to
               /\ IF recovering
                  THEN /\ mem' = Moved(mem, to, from, size)
                       /\ slot' = [slot EXCEPT ![pos] = to]
                  ELSE UNCHANGED <<mem, slot>>
               /\ pos' = pos + 1
               /\ UNCHANGED <<pc, rc>>
          ELSE Wild /\ UNCHANGED <<mem, slot, right, pos>>
    /\ UNCHANGED <<header, cur, rid, recovering, known, got, image, live, removed, crashes>>

RecoverEnd ==
    /\ pc = "recover"
    /\ pos = numSlots
    /\ freeOffset' = right
    /\ pc' = "check"
    /\ UNCHANGED <<mem, slot, numSlots, slotOffset, freeSpace, cur, rid, loop,
                   known, answer, ghosts>>

\* The sanity check for free space.
CheckSpace ==
    /\ pc = "check"
    /\ IF freeSpace < Need(cur) \/ freeOffset - slotOffset < Need(cur)
       THEN Done("EDB_SYS")
       ELSE pc' = "slot" /\ UNCHANGED <<rc, cur, rid, loop>>
    /\ UNCHANGED <<page, known, got, ghosts>>

\* A slip: the record header is forgotten.
OffsetDataNoHeader == freeOffset - Size[cur]
OffsetData == freeOffset - RecordWords - Size[cur]

\* Append a slot, at the place _slotOffset says.
AppendSlot ==
    /\ pc = "slot"
    /\ slot' = [slot EXCEPT ![(slotOffset - HeaderWords) \div SlotWords] = OffsetData]
    /\ pc' = "record"
    /\ UNCHANGED <<mem, header, cur, rid, loop, known, answer, ghosts>>

\* Copy the record header and the document; the rid is the slot counted next.
CopyRecord ==
    /\ pc = "record"
    /\ mem' = [a \in Addresses |->
                 IF OffsetData <= a /\ a < freeOffset
                 THEN <<numSlots, a - OffsetData>> ELSE mem[a]]
    /\ image' = [image EXCEPT ![numSlots] = cur]
    /\ rid' = numSlots
    /\ pc' = "count"
    /\ UNCHANGED <<slot, header, cur, loop, known, answer, live, removed, damage, crashes>>

CountSlot ==
    /\ pc = "count"
    /\ numSlots' = numSlots + 1
    /\ pc' = "slotOffset"
    /\ UNCHANGED <<mem, slot, slotOffset, freeSpace, freeOffset, cur, rid, loop,
                   known, answer, ghosts>>

AdvanceSlotOffset ==
    /\ pc = "slotOffset"
    /\ slotOffset' = slotOffset + SlotWords
    /\ pc' = "freeOffset"
    /\ UNCHANGED <<mem, slot, numSlots, freeSpace, freeOffset, cur, rid, loop,
                   known, answer, ghosts>>

LowerFreeOffset ==
    /\ pc = "freeOffset"
    /\ freeOffset' = OffsetData
    /\ pc' = "charge"
    /\ UNCHANGED <<mem, slot, numSlots, slotOffset, freeSpace, cur, rid, loop,
                   known, answer, ghosts>>

\* _updateFreeSpace, release; the caller enters the rid into the id index.
ChargeFreeSpace ==
    /\ pc = "charge"
    /\ freeSpace' = freeSpace - Need(cur)
    /\ known' = known \cup {rid}
    /\ live' = live \cup {rid}
    /\ Done("ok")
    /\ UNCHANGED <<mem, slot, numSlots, slotOffset, freeOffset, got, image, removed,
                   damage, crashes>>
-----------------------------------------------------------------------------
(* dmsFile::remove, of a rid that rtnRemove took out of the id index.      *)

RemoveSlot(s) ==
    /\ pc = "idle"
    /\ s \in known
    /\ known' = known \ {s}
    /\ live' = live \ {s}
    /\ got' = NoRecord
    /\ IF s > numSlots \/ slot[s] = Empty         \* _searchSlot
       THEN Done("EDB_SYS") /\ UNCHANGED <<slot, removed>>
       ELSE /\ slot' = [slot EXCEPT ![s] = Empty]
            /\ right' = slot[s]                 \* the local "slot"
            /\ rid' = s
            /\ removed' = removed \cup {s}
            /\ pc' = "flag"
            /\ UNCHANGED <<rc, cur, pos, recovering>>
    /\ UNCHANGED <<mem, header, image, damage, crashes>>

DropRecord ==
    /\ pc = "flag"
    /\ IF right + 1 < PageWords
       THEN /\ mem' = [mem EXCEPT ![right + 1] = DroppedWord(mem[right + 1][1])]
            /\ pc' = "credit"
            /\ rc' = rc
       ELSE Wild /\ mem' = mem
    /\ UNCHANGED <<slot, header, cur, rid, loop, known, got, ghosts>>

\* A slip: remove gives back all that insert charged, the slot included.
CreditAll(r) == Need(r)
Credit(r) == Size[r]

\* _updateFreeSpace gives back _size, without the record header and the slot.
CreditFreeSpace ==
    /\ pc = "credit"
    /\ IF /\ \E s \in SlotIds : mem[right] = SizeWord(s)
          /\ image[mem[right][1]] \in Records
       THEN freeSpace' = freeSpace + Credit(image[mem[right][1]]) /\ Done("ok")
       ELSE Wild /\ UNCHANGED <<freeSpace, cur, rid, loop>>
    /\ UNCHANGED <<mem, slot, numSlots, slotOffset, freeOffset, known, got, ghosts>>
-----------------------------------------------------------------------------
(* dmsFile::find, of a rid the id index held when it was asked: a remove   *)
(* may have come in between.                                               *)

\* A slip: only the first word of the record header is skipped.
DocumentAfterSize(off) ==
    LET s == mem[off + 1][1]
    IN IF image[s] \in Records /\ mem[off + 1] = LengthWord(s) THEN image[s] ELSE NoRecord

\* The document BSONObj(page + off + sizeof(dmsRecord)) denotes.
DocumentAt(off) ==
    LET start == off + RecordWords
        s == mem[start][1]
    IN IF /\ start < PageWords
          /\ \E t \in SlotIds : mem[start] = LengthWord(t)
          /\ image[s] \in Records
          /\ start + Size[image[s]] <= PageWords
          /\ \A k \in 0 .. Size[image[s]] - 1 : mem[start + k] = <<s, RecordWords + k>>
       THEN image[s] ELSE NoRecord

Find(s) ==
    /\ pc = "idle"
    /\ s \in known \cup removed
    /\ IF \/ s > numSlots \/ slot[s] = Empty      \* _searchSlot
          \/ slot[s] + 1 < PageWords /\ mem[slot[s] + 1] = DroppedWord(mem[slot[s] + 1][1])
       THEN rc' = "EDB_SYS" /\ got' = NoRecord
       ELSE /\ got' = DocumentAt(slot[s])
            /\ rc' = IF got' \in Records THEN "ok" ELSE "wild"
    /\ UNCHANGED <<page, pc, cur, rid, loop, known, ghosts>>
-----------------------------------------------------------------------------
\* A slip: the reload does not test for DMS_SLOT_EMPTY.
LoadableAll == {s \in SlotIds : s < numSlots}

\* The slots _loadData enters into the id index.
Loadable == {s \in SlotIds : s < numSlots /\ slot[s] # Empty}

\* The server dies and starts again: the page is what the stores made it,
\* and the id index is what _loadData makes of it.
Crash ==
    /\ crashes < MaxCrashes
    /\ crashes' = crashes + 1
    /\ Done("crash")
    /\ got' = NoRecord
    /\ known' = Loadable
    /\ damage' = IF pc \in {"slotOffset", "freeOffset", "charge"}
                 THEN damage \cup {"torn"} ELSE damage
    /\ UNCHANGED <<page, image, live, removed>>

Next ==
    \/ \E r \in Records : InsertBegin(r)
    \/ RecoverHole \/ RecoverRecord \/ RecoverEnd
    \/ CheckSpace \/ AppendSlot \/ CopyRecord
    \/ CountSlot \/ AdvanceSlotOffset \/ LowerFreeOffset \/ ChargeFreeSpace
    \/ \E s \in SlotIds : RemoveSlot(s)
    \/ DropRecord \/ CreditFreeSpace
    \/ \E s \in SlotIds : Find(s)
    \/ Crash

Spec == Init /\ [][Next]_vars
-----------------------------------------------------------------------------
\* The slot points at the whole image that was written for it.
Intact(s) ==
    /\ s < numSlots
    /\ slot[s] # Empty
    /\ image[s] \in Records
    /\ slot[s] + RecordWords + Size[image[s]] <= PageWords
    /\ \A k \in 0 .. RecordWords + Size[image[s]] - 1 : mem[slot[s] + k] = <<s, k>>

\* On a page that was never compacted around a live record nor torn by a
\* crash, every record insert acknowledged stays readable under its rid, word
\* for word, through later inserts, removes, harmless compactions and
\* crashes at any other store, until it is removed.
RecordsIntact == damage = {} => live \subseteq known /\ \A s \in live : Intact(s)

\* On such a page a record whose slot remove emptied never comes back: no
\* later store and no reload after a crash makes its rid valid again.
RemovedStaysRemoved ==
    damage = {} => \A s \in removed : s \notin known /\ slot[s] = Empty

\* The words that the image of each live record takes, and their sum over the
\* slots of the page.
Footprint == [s \in SlotIds |-> IF s \in live THEN RecordWords + Size[image[s]] ELSE 0]
Total(w) ==
    LET sum[n \in 0 .. MaxSlots + 1] == IF n = 0 THEN 0 ELSE sum[n - 1] + w[n - 1]
    IN  sum[MaxSlots + 1]

\* _freeSpace never promises more than a perfect compaction could recover:
\* beside the slots and the images of the live records, freeSpace words exist.
FreeSpaceSound ==
    damage = {} /\ pc = "idle" => slotOffset + Total(Footprint) + freeSpace <= PageWords

\* find returns the document stored under the rid, or EDB_SYS when a remove
\* came first; it never returns another document or stray bytes.
FindIsExact ==
    [][\A s \in SlotIds :
         damage = {} /\ Find(s) =>
             IF s \in live THEN rc' = "ok" /\ got' = image[s] ELSE rc' = "EDB_SYS"]_vars

-----------------------------------------------------------------------------
(* The inductive invariant behind RecordsIntact and RemovedStaysRemoved.   *)

Inserting == {"recover", "check", "slot", "record", "count", "slotOffset",
              "freeOffset", "charge"}
Counted == {"slotOffset", "freeOffset", "charge"}   \* _numSlots runs ahead

\* What the operation in progress has established, damaged page or not.
Progress ==
    /\ pc \in Inserting => cur \in Records
    /\ pc \in Inserting \ Counted => numSlots < MaxSlots
    /\ pc = "recover" => pos <= numSlots /\ slotOffset <= right
    /\ pc \in {"slot", "record", "count", "slotOffset"} =>
          slotOffset + Need(cur) <= freeOffset
    /\ pc = "freeOffset" => slotOffset + RecordWords + Size[cur] <= freeOffset
    /\ pc \in {"slot", "record", "count", "slotOffset", "freeOffset", "charge"} =>
          Need(cur) <= freeSpace
    /\ pc = "credit" => right < PageWords

\* The slot list and the rid of an insert are in step with _numSlots.
SlotsInStep ==
    /\ slotOffset = HeaderWords + numSlots - (IF pc = "slotOffset" THEN 1 ELSE 0)
    /\ pc = "count" => rid = numSlots
    /\ pc \in Counted => rid = numSlots - 1
    /\ pc = "recover" => right = PageWords /\ \A s \in SlotIds : s < pos => slot[s] = Empty

\* The index knows the live records; no other slot in use is occupied but
\* the one an insert has just counted.
SlotsAccounted ==
    /\ known = live
    /\ \A s \in SlotIds :
          s < numSlots /\ slot[s] # Empty => s \in live \/ (pc \in Counted /\ s = rid)
    /\ \A s \in removed : s < numSlots /\ slot[s] = Empty /\ s \notin live
    /\ pc \in Counted => rid \notin live

\* Live images lie above _freeOffset, where no later insert writes.
ImagesAbove == \A s \in live : Intact(s) /\ freeOffset <= slot[s]

\* The image an insert has written but not acknowledged yet.
ImagePending ==
    /\ pc = "record" => slot[numSlots] = OffsetData
    /\ pc \in {"count"} \cup Counted =>
          /\ image[rid] = cur
          /\ slot[rid] = IF pc = "charge" THEN freeOffset ELSE OffsetData
          /\ slot[rid] + RecordWords + Size[cur] <= PageWords
          /\ \A k \in 0 .. RecordWords + Size[cur] - 1 : mem[slot[rid] + k] = <<rid, k>>

\* A remove drops words that belong to no live record.
DropIsLocal ==
    pc = "flag" => /\ rid \in removed
                   /\ right + 1 < PageWords
                   /\ mem[right + 1] = FlagWord(rid)

Undamaged == SlotsInStep /\ SlotsAccounted /\ ImagesAbove /\ ImagePending /\ DropIsLocal

\* The stores of every operation keep an undamaged page well formed at every
\* point where a crash may fall.
PageInvariant == TypeOK /\ Progress /\ (damage = {} => Undamaged)

\* The inductive invariant behind FreeSpaceSound.  insert advances _slotOffset
\* before it charges for the slot; remove empties the slot before it gives the
\* space of the image back, and the record header never.
SpaceAccounted ==
    /\ slotOffset + Total(Footprint) + freeSpace
          <= PageWords + (IF pc \in {"freeOffset", "charge"} THEN SlotWords ELSE 0)
    /\ pc \in {"flag", "credit"} =>
          /\ right < PageWords
          /\ mem[right] = SizeWord(rid)
          /\ image[rid] \in Records
          /\ slotOffset + Total(Footprint) + freeSpace + Size[image[rid]] <= PageWords

SpaceInvariant == damage = {} => SpaceAccounted
-----------------------------------------------------------------------------
\* "Using both PAGEID and SLOTID to locate the exact record" (README), also
\* on a page that _recoverSpace reorganised.
ExactAfterCompaction == "torn" \notin damage /\ pc = "idle" => \A s \in live : Intact(s)
=============================================================================
