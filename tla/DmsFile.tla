------------------------------ MODULE DmsFile ------------------------------
(***************************************************************************)
(* The data file of EmeraldDB (class dmsFile, src/dms/dms.cpp): a header   *)
(* and segments of pages, shared by the agent threads.  The module is      *)
(* about the threads: who holds _mutex and _extendMutex, the free-space    *)
(* map that insert searches, the segment list _body, and the growth of the *)
(* file, which runs under _extendMutex only.  What happens inside a page   *)
(* is the subject of DmsPage; here a page is its free space, the end of    *)
(* its slots, the start of its images, and the documents its slots lead    *)
(* to.  A page whose images may have been written over - a recovery of     *)
(* space around live records, a crash between the stores of an insert - is *)
(* no longer whole: what its slots lead to and what its offsets say is     *)
(* then unknown, and what a thread makes of it is left open.               *)
(*                                                                         *)
(* Sizes are in 4-byte words, as in DmsPage.                               *)
(***************************************************************************)
EXTENDS Integers, Sequences, FiniteSets

CONSTANTS
    Threads,          \* agent threads
    Docs,             \* documents; each is inserted at most once
    Size,             \* Size[d]: record.objsize() of document d
    PageFree,         \* DMS_PAGE_SIZE - sizeof(dmsPageHeader)
    PagesPerSegment,  \* DMS_PAGES_PER_SEGMENT
    SegmentUnits,     \* DMS_FILE_SEGMENT_SIZE, in file headers of 64 KB (2048)
    IntUnits,         \* 2^32 bytes, in the same unit (65536)
    MaxSegments,      \* bound: segments the disk has room for
    MaxCrashes,       \* bound: crashes of the server
    Stray,            \* in a slot: it leads to its document or to any other bytes
    None

RecordWords == 2      \* sizeof(dmsRecord)
SlotWords == 1        \* sizeof(SLOTID)
Overhead == RecordWords + SlotWords

ASSUME SizeAssumption == Size \in [Docs -> Nat \ {0}]
ASSUME PageAssumption == PageFree \in Nat /\ PagesPerSegment \in Nat \ {0}
ASSUME UnitsAssumption == SegmentUnits \in Nat /\ IntUnits \in Nat \ {0}
ASSUME BoundsAssumption == MaxSegments \in Nat /\ MaxCrashes \in Nat
ASSUME NoneAssumption == None \notin Docs \cup Threads \cup {Stray} /\ Stray \notin Docs

VARIABLES
    fileSegments,  \* segments the file holds: (getSize - header) / segment size
    headerSize,    \* dmsHeader._size: pages counted in the file header
    disk,          \* the pages of every segment of the file
    body,          \* _body: the file segment mapped for each segment number
    freeMap,       \* _freeSpaceMap, in the multimap's order
    mutex, extendMutex,   \* holders of _mutex and _extendMutex, or None
    pc, loc,       \* program counter and locals of each thread
    rc,            \* what the last operation of each thread returned
    used,          \* history: documents handed to insert
    acked,         \* history: rid and document of each record acknowledged or loaded
    lost,          \* history: a segment of the file never entered the header
    misnumbered,   \* history: an extension read the size of the map mid-update
    crashes,       \* history: crashes so far
    status         \* of the server: "up", "closed" (a start failed) or "wild"

persistent == <<fileSegments, headerSize, disk>>
volatile == <<body, freeMap, mutex, extendMutex, status>>
history == <<used, acked, lost, misnumbered, crashes>>
vars == <<persistent, volatile, pc, loc, rc, history>>

Segments == 0 .. MaxSegments - 1
InSegment == 0 .. PagesPerSegment - 1
PageIds == 0 .. MaxSegments * PagesPerSegment - 1

\* A zero-filled page, and a page as _extendSegment formats it.  Offsets count
\* from the end of the page header; whole is a history: every slot of the page
\* still leads to its own document.
BlankPage == [magic |-> FALSE, free |-> 0, slotOffset |-> 0, freeOffset |-> 0,
              slots |-> <<>>, whole |-> TRUE]
FreshPage == [magic |-> TRUE, free |-> PageFree, slotOffset |-> 0, freeOffset |-> PageFree,
              slots |-> <<>>, whole |-> TRUE]
Pages ==
    {page \in [magic : BOOLEAN, free : Nat, slotOffset : Nat, freeOffset : Nat,
               slots : Seq(Docs \cup {None, Stray}), whole : BOOLEAN] :
        /\ page.slotOffset <= page.freeOffset
        /\ page.freeOffset <= PageFree
        /\ page.slots \in Seq({None} \cup IF page.whole THEN Docs ELSE {Stray})}

\* The room between the slots and the images.
Gap(page) == page.freeOffset - page.slotOffset

\* What is known of the slots: on a page that is not whole, which are empty.
Known(whole, slots) ==
    IF whole THEN slots
    ELSE [i \in 1 .. Len(slots) |-> IF slots[i] = None THEN None ELSE Stray]

Entry(free, page) == [free |-> free, page |-> page]
NoLocals == [doc |-> None, page |-> None, slot |-> 0, change |-> 0, base |-> 0, listed |-> 0]

\* multimap::insert: behind the entries with the same key, that is before the
\* first entry with a greater one.
MapInsert(m, e) ==
    LET i == CHOOSE j \in 0 .. Len(m) :
               /\ \A k \in 1 .. j : m[k].free <= e.free
               /\ j = Len(m) \/ m[j + 1].free > e.free
    IN SubSeq(m, 1, i) \o <<e>> \o SubSeq(m, i + 1, Len(m))

\* A slip: the page id is not compared, the first entry with the key goes.
MapEraseByKey(m, e) ==
    IF \E i \in 1 .. Len(m) : m[i].free = e.free
    THEN LET i == CHOOSE j \in 1 .. Len(m) :
                    m[j].free = e.free /\ \A k \in 1 .. j - 1 : m[k].free # e.free
         IN SubSeq(m, 1, i - 1) \o SubSeq(m, i + 1, Len(m))
    ELSE m

\* multimap::erase of the first entry equal to e, if there is one.
MapErase(m, e) ==
    IF \E i \in 1 .. Len(m) : m[i] = e
    THEN LET i == CHOOSE j \in 1 .. Len(m) : m[j] = e /\ \A k \in 1 .. j - 1 : m[k] # e
         IN SubSeq(m, 1, i - 1) \o SubSeq(m, i + 1, Len(m))
    ELSE m

\* pageToOffset: the page of the file a page id denotes, if it is mapped.
PageIn(d, b, p) == d[b[p \div PagesPerSegment + 1]][p % PagesPerSegment]
PutPage(d, b, p, page) ==
    [d EXCEPT ![b[p \div PagesPerSegment + 1]][p % PagesPerSegment] = page]
Mapped(p) == p < Len(body) * PagesPerSegment
PageAt(p) == PageIn(disk, body, p)
SetPage(p, page) == PutPage(disk, body, p, page)

Init ==
    /\ fileSegments = 0
    /\ headerSize = 0
    /\ disk = [s \in Segments |-> [i \in InSegment |-> BlankPage]]
    /\ body = <<>>
    /\ freeMap = <<>>
    /\ mutex = None
    /\ extendMutex = None
    /\ pc = [t \in Threads |-> "idle"]
    /\ loc = [t \in Threads |-> NoLocals]
    /\ rc = [t \in Threads |-> "none"]
    /\ used = {}
    /\ acked = {}
    /\ lost = FALSE
    /\ misnumbered = FALSE
    /\ crashes = 0
    /\ status = "up"

Goto(t, l) == pc' = [pc EXCEPT ![t] = l]
Return(t, code) ==
    /\ Goto(t, "idle")
    /\ loc' = [loc EXCEPT ![t] = NoLocals]
    /\ rc' = [rc EXCEPT ![t] = code]
-----------------------------------------------------------------------------
(* dmsFile::insert                                                         *)

\* A record that is too big is reported to the log and inserted all the same.
InsertStart(t, d) ==
    /\ status = "up"
    /\ pc[t] = "idle"
    /\ d \notin used
    /\ used' = used \cup {d}
    /\ loc' = [loc EXCEPT ![t].doc = d]
    /\ rc' = [rc EXCEPT ![t] = "none"]
    /\ Goto(t, "lock")
    /\ UNCHANGED <<persistent, volatile, acked, lost, misnumbered, crashes>>

InsertLock(t) ==
    /\ pc[t] = "lock"
    /\ mutex = None
    /\ mutex' = t
    /\ Goto(t, "find")
    /\ UNCHANGED <<persistent, body, freeMap, extendMutex, status, loc, rc, history>>

\* _findPage: the first page with more free space than the bare document.
Fitting(d) == {i \in 1 .. Len(freeMap) : freeMap[i].free > Size[d]}

FindPage(t) ==
    /\ pc[t] = "find"
    /\ \/ /\ Fitting(loc[t].doc) = {}
          /\ mutex' = None
          /\ Goto(t, "tryExtend")
          /\ UNCHANGED loc
       \/ \E i \in Fitting(loc[t].doc) :
             /\ \A j \in Fitting(loc[t].doc) : i <= j
             /\ loc' = [loc EXCEPT ![t].page = freeMap[i].page]
             /\ Goto(t, "place")
             /\ UNCHANGED mutex
    /\ UNCHANGED <<persistent, body, freeMap, extendMutex, status, rc, history>>

Need(t) == Size[loc[t].doc] + Overhead

\* The page is looked up and its magic is checked.
ReadPage(t) ==
    /\ pc[t] = "place"
    /\ IF Mapped(loc[t].page) /\ PageAt(loc[t].page).magic
       THEN Goto(t, "sweep") /\ UNCHANGED <<mutex, loc, rc>>
       ELSE /\ mutex' = None       \* "Failed to find page", "Invalid page pageHeader"
            /\ Return(t, "badpage")
    /\ UNCHANGED <<persistent, body, freeMap, extendMutex, status, history>>

\* There are holes, and the record does not fit between slots and images.
HasHoles(page, need) == page.free > Gap(page) /\ need > Gap(page)

\* _recoverSpace, the loop: images behind the first hole move to the end of the
\* page, each without the words of its record header, over the live images
\* that lie there.  A page without a live record has nothing to move.
MoveImages(t) ==
    LET p == loc[t].page
        old == PageAt(p)
        whole == old.whole /\ \A i \in 1 .. Len(old.slots) : old.slots[i] = None
    IN /\ pc[t] = "sweep"
       /\ \E holes \in IF old.whole THEN {HasHoles(old, Need(t))} ELSE BOOLEAN :
             IF holes
             THEN /\ disk' = SetPage(p, [old EXCEPT !.whole = whole,
                                                    !.slots = Known(whole, @)])
                  /\ Goto(t, "recover")
             ELSE Goto(t, "check") /\ UNCHANGED disk
       /\ UNCHANGED <<fileSegments, headerSize, volatile, loc, rc, history>>

\* _recoverSpace, the last store: freeOffset is the end of the page less the
\* sizes of the live documents, as read from headers the moves may have hit.
RecoverSpace(t) ==
    LET p == loc[t].page
        old == PageAt(p)
    IN /\ pc[t] = "recover"
       /\ disk' = IF old.whole THEN SetPage(p, [old EXCEPT !.freeOffset = PageFree]) ELSE disk
       /\ Goto(t, "check")
       /\ UNCHANGED <<fileSegments, headerSize, volatile, loc, rc, history>>

\* A slip: the sanity check looks at the gap only.
LacksGap(page, need) == Gap(page) < need

\* The sanity check for free space.
Lacks(page, need) == page.free < need \/ Gap(page) < need

\* The space is checked; slot and image are written and the slot is counted.
AppendRecord(t) ==
    LET p == loc[t].page
        old == PageAt(p)
    IN /\ pc[t] = "check"
       /\ \E lacks \in IF old.whole THEN {Lacks(old, Need(t))} ELSE {TRUE, old.free < Need(t)} :
             IF lacks
             THEN /\ mutex' = None               \* "There is no free space for insert"
                  /\ Return(t, "nospace")
                  /\ UNCHANGED disk
             ELSE /\ disk' = SetPage(p, [old EXCEPT
                                   !.slots = Known(old.whole, Append(@, loc[t].doc))])
                  /\ loc' = [loc EXCEPT ![t] = [@ EXCEPT !.slot = Len(old.slots),
                                                         !.change = -Need(t)]]
                  /\ Goto(t, "header")
                  /\ UNCHANGED <<mutex, rc>>
       /\ UNCHANGED <<fileSegments, headerSize, body, freeMap, extendMutex, status, history>>

\* slotOffset and freeOffset take in the new slot and the new image.
SetOffsets(t) ==
    LET p == loc[t].page
        old == PageAt(p)
    IN /\ pc[t] = "header"
       /\ disk' = IF old.whole
                  THEN SetPage(p, [old EXCEPT !.slotOffset = @ + SlotWords,
                                              !.freeOffset = @ - RecordWords - Size[loc[t].doc]])
                  ELSE disk
       /\ Goto(t, "erase")
       /\ UNCHANGED <<fileSegments, headerSize, volatile, loc, rc, history>>

\* _updateFreeSpace, first half: the entry of the page leaves the map.
EraseEntry(t) ==
    /\ pc[t] = "erase"
    /\ freeMap' = MapErase(freeMap, Entry(PageAt(loc[t].page).free, loc[t].page))
    /\ Goto(t, "reenter")
    /\ UNCHANGED <<persistent, body, mutex, extendMutex, status, loc, rc, history>>

\* A slip: the slot is counted before the rid is taken.
RidAfterCount(t) == <<loc[t].page, loc[t].slot + 1>>
Rid(t) == <<loc[t].page, loc[t].slot>>

\* _updateFreeSpace, second half: the header changes and the page re-enters
\* the map; _mutex is released and the operation returns.
ReenterEntry(t) ==
    LET old == PageAt(loc[t].page)
        free == old.free + loc[t].change
    IN /\ pc[t] = "reenter"
       /\ disk' = SetPage(loc[t].page, [old EXCEPT !.free = free])
       /\ freeMap' = MapInsert(freeMap, Entry(free, loc[t].page))
       /\ mutex' = None
       /\ acked' = IF loc[t].doc = None THEN acked
                   ELSE acked \cup {[rid |-> Rid(t), doc |-> loc[t].doc]}
       /\ Return(t, "ok")
       /\ UNCHANGED <<fileSegments, headerSize, body, extendMutex, status, used, lost,
                      misnumbered, crashes>>
-----------------------------------------------------------------------------
(* The file grows: insert's retry loop and _extendSegment, under           *)
(* _extendMutex and without _mutex.                                        *)

TryExtend(t) ==
    /\ pc[t] = "tryExtend"
    /\ IF extendMutex = None
       THEN extendMutex' = t /\ Goto(t, "grow")
       ELSE Goto(t, "waitExtend") /\ UNCHANGED extendMutex
    /\ UNCHANGED <<persistent, body, freeMap, mutex, status, loc, rc, history>>

\* A slip: the latch is not released before the retry.
WaitExtendKeeps(t) ==
    /\ pc[t] = "waitExtend"
    /\ extendMutex = None
    /\ extendMutex' = t
    /\ Goto(t, "lock")
    /\ UNCHANGED <<persistent, body, freeMap, mutex, status, loc, rc, history>>

\* Somebody else extends: get and release _extendMutex, then retry.
WaitExtend(t) ==
    /\ pc[t] = "waitExtend"
    /\ extendMutex = None
    /\ Goto(t, "lock")
    /\ UNCHANGED <<persistent, volatile, loc, rc, history>>

\* _extendFile appends a segment of zeros.
GrowFile(t) ==
    /\ pc[t] = "grow"
    /\ fileSegments < MaxSegments
    /\ fileSegments' = fileSegments + 1
    /\ loc' = [loc EXCEPT ![t].base = fileSegments]
    /\ Goto(t, "map")
    /\ UNCHANGED <<headerSize, disk, body, freeMap, mutex, extendMutex, status, rc, history>>

\* getSize or a write fails and insert returns.  The pieces written so far stay
\* in the file: part of a segment, which is counted as one.
GrowFails(t) ==
    /\ pc[t] = "grow"
    /\ \E part \in {0, 1} :
          /\ fileSegments + part <= MaxSegments
          /\ fileSegments' = fileSegments + part
          /\ lost' = (lost \/ part = 1)
    /\ extendMutex' = None
    /\ Return(t, "noextend")
    /\ UNCHANGED <<headerSize, disk, body, freeMap, mutex, status, used, acked, misnumbered,
                   crashes>>

\* map fails: insert returns, and the new segment stays in the file.
MapFails(t) ==
    /\ pc[t] = "map"
    /\ extendMutex' = None
    /\ lost' = TRUE
    /\ Return(t, "noextend")
    /\ UNCHANGED <<persistent, body, freeMap, mutex, status, used, acked, misnumbered, crashes>>

\* The segment is mapped and its page headers are written.
FormatPages(t) ==
    /\ pc[t] = "map"
    /\ disk' = [disk EXCEPT ![loc[t].base] = [i \in InSegment |-> FreshPage]]
    /\ Goto(t, "measure")
    /\ UNCHANGED <<fileSegments, headerSize, volatile, loc, rc, history>>

\* The size of the map, read without _mutex, numbers the new pages.
MeasureMap(t) ==
    /\ pc[t] = "measure"
    /\ loc' = [loc EXCEPT ![t] = [@ EXCEPT !.page = Len(freeMap), !.listed = 0]]
    /\ misnumbered' = (misnumbered \/ Len(freeMap) # Len(body) * PagesPerSegment)
    /\ Goto(t, "list")
    /\ UNCHANGED <<persistent, volatile, rc, used, acked, lost, crashes>>

ListPage(t) ==
    /\ pc[t] = "list"
    /\ loc[t].listed < PagesPerSegment
    /\ freeMap' = MapInsert(freeMap, Entry(PageFree, loc[t].page + loc[t].listed))
    /\ loc' = [loc EXCEPT ![t].listed = loc[t].listed + 1]
    /\ UNCHANGED <<persistent, body, mutex, extendMutex, status, pc, rc, history>>

PushSegment(t) ==
    /\ pc[t] = "list"
    /\ loc[t].listed = PagesPerSegment
    /\ body' = Append(body, loc[t].base)
    /\ Goto(t, "count")
    /\ UNCHANGED <<persistent, freeMap, mutex, extendMutex, status, loc, rc, history>>

\* The header counts the pages; _extendMutex is released and insert retries.
CountPages(t) ==
    /\ pc[t] = "count"
    /\ headerSize' = headerSize + PagesPerSegment
    /\ extendMutex' = None
    /\ loc' = [loc EXCEPT ![t] = [NoLocals EXCEPT !.doc = loc[t].doc]]
    /\ Goto(t, "lock")
    /\ UNCHANGED <<fileSegments, disk, body, freeMap, mutex, status, rc, history>>
-----------------------------------------------------------------------------
(* dmsFile::remove, of a rid that an insert acknowledged.                  *)

RemoveStart(t, a) ==
    /\ status = "up"
    /\ pc[t] = "idle"
    /\ Mapped(a.rid[1])               \* the id index found the rid
    /\ a.rid[2] < Len(PageAt(a.rid[1]).slots)
    /\ PageAt(a.rid[1]).slots[a.rid[2] + 1] \in {a.doc, Stray}
    /\ acked' = acked \ {a}
    /\ loc' = [loc EXCEPT ![t] = [NoLocals EXCEPT !.page = a.rid[1], !.slot = a.rid[2]]]
    /\ rc' = [rc EXCEPT ![t] = "none"]
    /\ Goto(t, "lockRemove")
    /\ UNCHANGED <<persistent, volatile, used, lost, misnumbered, crashes>>

\* The size in the header of the record, or in the bytes at its place.
Sizes(page, s) == IF page.whole THEN {Size[page.slots[s]]} ELSE {Size[d] : d \in Docs}

\* The slot is emptied; only the document's own size is given back.
EmptySlot(t) ==
    LET p == loc[t].page
        s == loc[t].slot + 1
        old == PageAt(p)
    IN /\ pc[t] = "lockRemove"
       /\ mutex = None
       /\ IF s > Len(old.slots) \/ old.slots[s] = None
          THEN Return(t, "gone") /\ UNCHANGED <<disk, mutex>>
          ELSE /\ disk' = SetPage(p, [old EXCEPT !.slots[s] = None])
               /\ \E size \in Sizes(old, s) : loc' = [loc EXCEPT ![t].change = size]
               /\ mutex' = t
               /\ Goto(t, "erase")
               /\ UNCHANGED rc
       /\ UNCHANGED <<fileSegments, headerSize, body, freeMap, extendMutex, status, history>>
-----------------------------------------------------------------------------
\* The page at its place from the start of the file.
DiskPage(d, p) == d[p \div PagesPerSegment][p % PagesPerSegment]

\* The free-space map _loadData builds from the page headers.
LoadedMap(d, segments) ==
    LET m[n \in 0 .. segments * PagesPerSegment] ==
          IF n = 0 THEN <<>>
          ELSE MapInsert(m[n - 1], Entry(DiskPage(d, n - 1).free, n - 1))
    IN m[segments * PagesPerSegment]

\* The records _loadData finds there and enters into the id index.
LoadedRecords(d, segments) ==
    UNION {{[rid |-> <<p, s - 1>>, doc |-> DiskPage(d, p).slots[s]] :
               s \in {k \in 1 .. Len(DiskPage(d, p).slots) : DiskPage(d, p).slots[k] \in Docs}} :
           p \in 0 .. segments * PagesPerSegment - 1}

\* DMS_FILE_HEADER_SIZE + DMS_FILE_SEGMENT_SIZE * i, in 32-bit arithmetic.
MapOffset(i) == ((1 + SegmentUnits * i + IntUnits \div 2) % IntUnits) - IntUnits \div 2

\* The pages a crash leaves.  Between the count of a slot and the offsets that
\* take it in, the next insert would write over the last image.
Torn ==
    IF \E t \in Threads : pc[t] = "header"
    THEN LET t == CHOOSE u \in Threads : pc[u] = "header"
             old == PageAt(loc[t].page)
         IN SetPage(loc[t].page, [old EXCEPT !.whole = FALSE, !.slots = Known(FALSE, @)])
    ELSE disk

\* The server dies and starts again: init and _loadData map the segments the
\* header counts, the i-th at its place from the start of the file.  A place
\* that cannot be mapped ends the start of the server, and so may bytes that
\* are no document, or a document met twice.
Crash ==
    LET segments == headerSize \div PagesPerSegment
        places == \A i \in 0 .. segments - 1 : MapOffset(i) > 0
        sound == \A p \in 0 .. segments * PagesPerSegment - 1 : DiskPage(Torn, p).whole
    IN \E opens \in IF places /\ sound THEN {TRUE} ELSE {places, FALSE} :
       /\ status = "up"
       /\ crashes < MaxCrashes
       /\ crashes' = crashes + 1
       /\ disk' = Torn
       /\ status' = IF opens THEN "up" ELSE "closed"
       /\ body' = IF opens THEN [i \in 1 .. segments |-> i - 1] ELSE <<>>
       /\ freeMap' = IF opens THEN LoadedMap(Torn, segments) ELSE <<>>
       /\ mutex' = None
       /\ extendMutex' = None
       /\ pc' = [t \in Threads |-> "idle"]
       /\ loc' = [t \in Threads |-> NoLocals]
       /\ rc' = [t \in Threads |-> "none"]
       /\ lost' = (lost \/ segments # fileSegments)
       /\ misnumbered' = FALSE
       /\ acked' = IF opens THEN acked \cup LoadedRecords(Torn, segments) ELSE acked
       /\ UNCHANGED <<fileSegments, headerSize, used>>

\* What the process does from here on is undefined and is not followed.
RunWild ==
    /\ status' = "wild"
    /\ mutex' = None
    /\ extendMutex' = None
    /\ pc' = [v \in Threads |-> "idle"]
    /\ loc' = [v \in Threads |-> NoLocals]
    /\ rc' = [v \in Threads |-> "none"]
    /\ UNCHANGED <<persistent, body, freeMap, history>>

\* _extendSegment changes the map and then _body without _mutex, while another
\* thread is inside the same container.
Collide(t, u) ==
    /\ pc[t] = "list"
    /\ pc[u] \in IF loc[t].listed < PagesPerSegment
                 THEN {"find", "erase", "reenter"} ELSE {"place", "lockRemove"}
    /\ RunWild

\* remove or _recoverSpace takes bytes that are no record header for one, and
\* stores at the place or of the length it finds there.
Wander(t) ==
    /\ pc[t] = "sweep" \/ (pc[t] = "lockRemove" /\ mutex = None)
    /\ ~PageAt(loc[t].page).whole
    /\ RunWild

Step(t) ==
    \/ InsertLock(t) \/ FindPage(t) \/ ReadPage(t) \/ MoveImages(t) \/ RecoverSpace(t)
    \/ AppendRecord(t) \/ SetOffsets(t) \/ EraseEntry(t) \/ ReenterEntry(t)
    \/ TryExtend(t) \/ WaitExtend(t) \/ GrowFile(t) \/ GrowFails(t) \/ MapFails(t)
    \/ FormatPages(t)
    \/ MeasureMap(t) \/ ListPage(t) \/ PushSegment(t) \/ CountPages(t)
    \/ EmptySlot(t)

Next ==
    \/ \E t \in Threads, d \in Docs : InsertStart(t, d)
    \/ \E t \in Threads : \E a \in acked : RemoveStart(t, a)
    \/ \E t \in Threads : Step(t)
    \/ \E t, u \in Threads : Collide(t, u)
    \/ \E t \in Threads : Wander(t)
    \/ Crash

Spec == Init /\ [][Next]_vars

\* A thread that can take its next step takes it.
FairSpec == Spec /\ \A t \in Threads : WF_vars(Step(t))
-----------------------------------------------------------------------------
Updating == \E t \in Threads : pc[t] \in {"erase", "reenter"}
Extending == \E t \in Threads : pc[t] \in {"measure", "list", "count"}

\* Types and ranges; in particular _freeSpace, an unsigned int in the code, is
\* never charged below zero, the offsets of a page never cross, and a slot of a
\* page that nothing has damaged never leads to other bytes.
TypeOK ==
    /\ fileSegments \in 0 .. MaxSegments
    /\ headerSize \in Nat
    /\ disk \in [Segments -> [InSegment -> Pages]]
    /\ body \in Seq(Segments)
    /\ mutex \in Threads \cup {None}
    /\ extendMutex \in Threads \cup {None}
    /\ used \subseteq Docs
    /\ lost \in BOOLEAN
    /\ misnumbered \in BOOLEAN
    /\ status \in {"up", "closed", "wild"}
    /\ crashes \in 0 .. MaxCrashes

\* On a page that is whole the rid of a record leads to that very record, on
\* any page to a slot that exists.
Located(a) ==
    /\ Mapped(a.rid[1])
    /\ a.rid[2] < Len(PageAt(a.rid[1]).slots)
    /\ PageAt(a.rid[1]).whole => PageAt(a.rid[1]).slots[a.rid[2] + 1] = a.doc

\* As long as the file never kept a segment the header does not count, the
\* rid of an acknowledged record is that of a slot, and locates that very
\* record unless space was recovered around live records of its page or a crash
\* fell between the stores of an insert into it: whatever threads insert,
\* remove and extend meanwhile, on pages shared by several records, and after
\* every restart.
RidLocatesRecord ==
    status = "up" /\ ~lost => \A a \in acked : Located(a)

\* When nobody is changing it, the free-space map holds every mapped page
\* once, with the free space of its header, unless an extension numbered its
\* pages while another thread had an entry out of the map.
MapMatchesPages ==
    status = "up" /\ ~misnumbered /\ ~Updating /\ ~Extending =>
        /\ Len(freeMap) = Len(body) * PagesPerSegment
        /\ \A p \in 0 .. Len(freeMap) - 1 :
              \E i \in 1 .. Len(freeMap) : freeMap[i] = Entry(PageAt(p).free, p)

\* Every operation returns: the retry loop of insert ends, no latch stays
\* taken, however many threads extend at once, unless two threads collide in
\* the map or in _body.
OperationsReturn == \A t \in Threads : pc[t] # "idle" ~> pc[t] = "idle"
-----------------------------------------------------------------------------
(* The inductive invariants behind these properties.                       *)

Placing == {"sweep", "recover", "check", "header"}     \* works on a mapped page
Updates == {"header", "erase", "reenter"}              \* a record is half written or removed
Holding == {"find", "place", "erase", "reenter"} \cup Placing       \* has _mutex
Pending == {"map", "measure", "list"}                  \* a segment not yet in _body
Growing == Pending \cup {"grow", "count"}              \* has _extendMutex
Inserting == Growing \cup Placing \cup {"lock", "find", "place", "tryExtend", "waitExtend"}
PCs == Inserting \cup {"idle", "erase", "reenter", "lockRemove"}

Entries == [free : Nat, page : Nat]
Records == [rid : Nat \X Nat, doc : Docs]
Locals == [doc : Docs \cup {None}, page : Nat \cup {None}, slot : Nat, change : Int,
           base : Nat, listed : Nat]

\* The types of the rest of the state, and the latches: a thread inside a
\* critical section is the holder, and only a running server has threads.
StateTyped ==
    /\ TypeOK
    /\ freeMap \in Seq(Entries)
    /\ pc \in [Threads -> PCs]
    /\ loc \in [Threads -> Locals]
    /\ acked \subseteq Records

LatchesHeld ==
    /\ \A t \in Threads : pc[t] \in Holding => mutex = t
    /\ \A t \in Threads : pc[t] \in Growing => extendMutex = t
    /\ status # "up" => \A t \in Threads : pc[t] = "idle"

\* _body maps different segments of the file, the header counts them but for
\* the one a thread is about to count, and a segment under construction is the
\* last of the file.
SegmentsCounted ==
    /\ Len(body) <= fileSegments
    /\ \A i \in 1 .. Len(body) : body[i] < fileSegments
    /\ \A i, j \in 1 .. Len(body) : body[i] = body[j] => i = j
    /\ (\A t \in Threads : pc[t] # "count") => headerSize = Len(body) * PagesPerSegment
    /\ \A t \in Threads : pc[t] = "count" =>
          headerSize + PagesPerSegment = Len(body) * PagesPerSegment
    /\ \A t \in Threads : pc[t] \in Pending =>
          /\ Len(body) < fileSegments
          /\ loc[t].base + 1 = fileSegments
          /\ \A i \in 1 .. Len(body) : body[i] < loc[t].base
    /\ \A t \in Threads : pc[t] \in {"measure", "list"} =>
          disk[loc[t].base] = [i \in InSegment |-> FreshPage]

\* Unless the file kept a segment that the header does not count, segment i of
\* _body is segment i of the file.
SegmentsInPlace ==
    ~lost =>
        /\ \A i \in 1 .. Len(body) : body[i] = i - 1
        /\ (\A t \in Threads : pc[t] \notin Pending) => fileSegments = Len(body)
        /\ \A t \in Threads : pc[t] \in Pending => fileSegments = Len(body) + 1

\* What a thread knows of its page between two steps; an update it has begun
\* leaves the free space of the page natural.
LocalsSound ==
    \A t \in Threads :
        /\ pc[t] \in Inserting => loc[t].doc \in Docs
        /\ pc[t] = "lockRemove" => loc[t].doc = None
        /\ pc[t] \in {"place", "list"} => loc[t].page \in Nat
        /\ pc[t] = "list" => loc[t].listed <= PagesPerSegment
        /\ pc[t] \in {"lockRemove", "erase", "reenter"} \cup Placing =>
              loc[t].page \in Nat /\ Mapped(loc[t].page)
        /\ pc[t] = "header" /\ PageAt(loc[t].page).whole => Gap(PageAt(loc[t].page)) >= Need(t)
        /\ pc[t] \in Updates => PageAt(loc[t].page).free + loc[t].change \in Nat

\* No two records have one rid, and the rid of a record that is being written
\* or removed is not acknowledged.
RidsSound ==
    ~lost =>
        /\ \A a \in acked : Located(a)
        /\ \A a, b \in acked : a.rid = b.rid => a = b
        /\ \A t \in Threads : pc[t] = "lockRemove" =>
              /\ loc[t].slot < Len(PageAt(loc[t].page).slots)
              /\ \A a \in acked : a.rid # Rid(t)
        /\ \A t \in Threads : pc[t] \in Updates /\ loc[t].doc # None =>
              /\ Located([rid |-> Rid(t), doc |-> loc[t].doc])
              /\ \A a \in acked : a.rid # Rid(t)
              /\ \A u \in Threads : pc[u] = "lockRemove" => Rid(u) # Rid(t)

FileInvariant ==
    /\ StateTyped
    /\ LatchesHeld
    /\ status = "up" => SegmentsCounted /\ SegmentsInPlace /\ LocalsSound /\ RidsSound

\* The map holds every mapped page but the one whose entry a thread has taken
\* out, and the pages that an extension has listed so far.
Listed(p, free) == \E i \in 1 .. Len(freeMap) : freeMap[i] = Entry(free, p)

MapComplete ==
    LET pages == Len(body) * PagesPerSegment
        reentering == \E t \in Threads : pc[t] = "reenter"
    IN /\ \A p \in 0 .. pages - 1 :
             \/ Listed(p, PageAt(p).free)
             \/ \E t \in Threads : pc[t] = "reenter" /\ loc[t].page = p
       /\ (\A t \in Threads : pc[t] # "list") =>
             Len(freeMap) = IF reentering THEN pages - 1 ELSE pages
       /\ \A t \in Threads : pc[t] = "list" =>
             /\ loc[t].page = pages
             /\ \A k \in 0 .. loc[t].listed - 1 : Listed(pages + k, PageFree)
             /\ Len(freeMap) = loc[t].listed + (IF reentering THEN pages - 1 ELSE pages)

MapInvariant == status = "up" /\ ~misnumbered => MapComplete
-----------------------------------------------------------------------------
(* What the documentation and the comments say, and the code does not do.  *)

\* "When the space is full, we will extend the database" (README): no insert
\* is refused for lack of space while the file can still grow.
FullFileIsExtended ==
    \A t \in Threads : rc[t] = "nospace" => fileSegments = MaxSegments

\* "Using both PAGEID and SLOTID to locate the exact record" (README), also
\* after a crash or a failure between growing the file and counting its pages.
RidLocatesAfterRestart == status = "up" => \A a \in acked : Located(a)
=============================================================================
