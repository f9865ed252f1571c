--------------------------- MODULE DmsPageProofs ---------------------------
(***************************************************************************)
(* PageInvariant is inductive for every page size, every set of documents  *)
(* and every bound, and it implies what the page promises of its records;  *)
(* SpaceInvariant does the same for its free space.                        *)
(***************************************************************************)
EXTENDS DmsPage, NaturalFacts, TLAPS

\* Sizes are positive naturals, so every Need is a natural.
LEMMA NeedType == \A r \in Records : Size[r] \in Nat /\ Size[r] > 0 /\ Need(r) \in Nat
  BY SizeAssumption DEF Need, RecordWords, SlotWords

\* A freshly formatted page satisfies the invariant.
LEMMA InitInvariant == Init => PageInvariant
  <1> USE PageAssumption, BoundsAssumption, NoRecordAssumption
  <1> SUFFICES ASSUME Init PROVE PageInvariant
    OBVIOUS
  <1>1. TypeOK
    <2>1. mem \in [Addresses -> Words]
      BY DEF Init, Words, Blank
    <2>2. /\ slot \in [SlotIds -> {Empty} \cup Offsets]
          /\ image \in [SlotIds -> Records \cup {NoRecord}]
      BY DEF Init, Offsets, SlotIds
    <2>3. /\ slotOffset \in HeaderWords .. PageWords
          /\ freeSpace \in Nat
          /\ freeOffset \in slotOffset .. PageWords
          /\ right \in Offsets
          /\ numSlots \in SlotIds /\ rid \in SlotIds /\ pos \in SlotIds
          /\ crashes \in 0 .. MaxCrashes
      BY DEF Init, Offsets, SlotIds, HeaderWords
    <2> QED
      BY <2>1, <2>2, <2>3 DEF Init, TypeOK, PCs, Outcomes
  <1>2. Progress
    BY DEF Init, Progress, Inserting, Counted
  <1>3. Undamaged
    BY DEF Init, Undamaged, SlotsInStep, SlotsAccounted, ImagesAbove, ImagePending,
           DropIsLocal, Counted, SlotIds, HeaderWords
  <1> QED
    BY <1>1, <1>2, <1>3 DEF PageInvariant

\* The locals of the operation in progress.
LocalsOK ==
    /\ cur \in Records \cup {NoRecord}
    /\ rid \in SlotIds
    /\ pos \in SlotIds
    /\ right \in Offsets
    /\ recovering \in BOOLEAN

\* Ending an operation leaves its locals well typed.
LEMMA DoneType ==
    ASSUME NEW code \in Outcomes, Done(code)
    PROVE  pc' \in PCs /\ rc' \in Outcomes /\ LocalsOK'
  <1>1. recovering' \in BOOLEAN
    BY Zenon DEF Done
  <1>2. /\ pc' \in PCs /\ rc' \in Outcomes /\ cur' \in Records \cup {NoRecord}
        /\ rid' \in SlotIds /\ pos' \in SlotIds /\ right' \in Offsets
    BY PageAssumption, BoundsAssumption DEF Done, PCs, SlotIds, Offsets
  <1> QED
    BY <1>1, <1>2 DEF LocalsOK

\* Choosing the page and deciding to reorganise it.
LEMMA InsertBeginInv == ASSUME PageInvariant, NEW r \in Records, InsertBegin(r) PROVE PageInvariant'
  <1> USE PageAssumption, BoundsAssumption, NeedType DEF PageInvariant
  <1>1. TypeOK'
    <2>1. /\ pc' \in PCs /\ cur' \in Records \cup {NoRecord}
          /\ pos' \in SlotIds /\ right' \in Offsets
      BY DEF InsertBegin, TypeOK, PCs, SlotIds, Offsets, loop
    <2>2. recovering' \in BOOLEAN
      BY Zenon DEF InsertBegin, TypeOK, loop
    <2> QED
      BY <2>1, <2>2 DEF TypeOK, InsertBegin, page, header, ghosts
  <1>2. Progress'
    <2>1. /\ pc' \in {"recover", "check"} /\ cur' \in Records
          /\ numSlots' = numSlots /\ numSlots < MaxSlots /\ slotOffset' = slotOffset
      BY DEF InsertBegin, page, header
    <2>2. pc' = "recover" => pos' = 0 /\ right' = PageWords
      BY DEF InsertBegin
    <2>3. numSlots \in Nat /\ slotOffset <= PageWords
      BY DEF TypeOK, SlotIds, HeaderWords
    <2> QED
      BY <2>1, <2>2, <2>3 DEF Progress, Inserting, Counted
  <1>3. ASSUME damage' = {} PROVE Undamaged'
    <2>1. damage = {} /\ Undamaged
      BY <1>3 DEF InsertBegin, ghosts
    <2>2. SlotsInStep'
      BY <2>1 DEF Undamaged, SlotsInStep, Counted, SlotIds, InsertBegin, page, header
    <2>3. SlotsAccounted'
      BY <2>1 DEF Undamaged, SlotsAccounted, Counted, InsertBegin, page, header, ghosts
    <2>4. ImagesAbove'
      BY <2>1 DEF Undamaged, ImagesAbove, Intact, InsertBegin, page, header, ghosts
    <2>5. ImagePending'
      BY <2>1 DEF ImagePending, Counted, InsertBegin
    <2>6. DropIsLocal'
      BY <2>1 DEF DropIsLocal, InsertBegin
    <2> QED
      BY <2>2, <2>3, <2>4, <2>5, <2>6 DEF Undamaged
  <1> QED
    BY <1>1, <1>2, <1>3

\* Passing an empty slot.
LEMMA RecoverHoleInv == ASSUME PageInvariant, RecoverHole PROVE PageInvariant'
  <1> USE PageAssumption, BoundsAssumption, NeedType DEF PageInvariant
  <1>1. TypeOK'
    BY DEF TypeOK, RecoverHole, SlotIds, page, header, answer, ghosts
  <1>2. Progress'
    BY DEF TypeOK, Progress, RecoverHole, SlotIds, page, header
  <1>3. ASSUME damage' = {} PROVE Undamaged'
    <2>1. damage = {} /\ Undamaged
      BY <1>3 DEF RecoverHole, ghosts
    <2>2. SlotsInStep'
      BY <2>1 DEF TypeOK, Undamaged, SlotsInStep, SlotIds, RecoverHole, page, header
    <2>3. SlotsAccounted'
      BY <2>1 DEF Undamaged, SlotsAccounted, RecoverHole, page, header, ghosts
    <2>4. ImagesAbove'
      BY <2>1 DEF Undamaged, ImagesAbove, Intact, RecoverHole, page, header, ghosts
    <2>5. ImagePending'
      BY <2>1 DEF ImagePending, Counted, RecoverHole
    <2>6. DropIsLocal'
      BY <2>1 DEF DropIsLocal, RecoverHole
    <2> QED
      BY <2>2, <2>3, <2>4, <2>5, <2>6 DEF Undamaged
  <1> QED
    BY <1>1, <1>2, <1>3

\* Ending a reorganisation: an undamaged page has no live record then.
LEMMA RecoverEndInv == ASSUME PageInvariant, RecoverEnd PROVE PageInvariant'
  <1> USE PageAssumption, BoundsAssumption, NeedType DEF PageInvariant
  <1>1. TypeOK'
    BY DEF TypeOK, RecoverEnd, PCs, Progress, Offsets, loop, answer, ghosts
  <1>2. Progress'
    BY DEF Progress, Inserting, Counted, RecoverEnd
  <1>3. ASSUME damage' = {} PROVE Undamaged'
    <2>1. damage = {} /\ Undamaged
      BY <1>3 DEF RecoverEnd, loop, answer, ghosts
    <2>2. SlotsInStep'
      BY <2>1 DEF Undamaged, SlotsInStep, Counted, RecoverEnd
    <2>3. SlotsAccounted'
      BY <2>1 DEF Undamaged, SlotsAccounted, Counted, RecoverEnd, ghosts
    <2>4. ImagesAbove'
      <3>1. live = {}
        BY <2>1 DEF TypeOK, RecoverEnd, Undamaged, SlotsInStep, ImagesAbove, Intact
      <3> QED
        BY <3>1 DEF ImagesAbove, RecoverEnd, ghosts
    <2>5. ImagePending'
      BY <2>1 DEF ImagePending, Counted, RecoverEnd
    <2>6. DropIsLocal'
      BY <2>1 DEF DropIsLocal, RecoverEnd
    <2> QED
      BY <2>2, <2>3, <2>4, <2>5, <2>6 DEF Undamaged
  <1> QED
    BY <1>1, <1>2, <1>3

\* The sanity check either fails or reserves the space.
LEMMA CheckSpaceInv == ASSUME PageInvariant, CheckSpace PROVE PageInvariant'
  <1> USE PageAssumption, BoundsAssumption, NeedType DEF PageInvariant
  <1>1. TypeOK'
    <2>1. /\ pc' \in PCs /\ rc' \in Outcomes /\ LocalsOK'
      BY DoneType DEF CheckSpace, TypeOK, LocalsOK, PCs, Outcomes, loop
    <2> QED
      BY <2>1 DEF TypeOK, LocalsOK, CheckSpace, page, header, ghosts
  <1>2. Progress'
    <2>1. CASE pc' = "idle"
      BY <2>1 DEF Progress, Inserting, Counted
    <2>2. CASE pc' # "idle"
      <3>1. /\ pc' = "slot" /\ cur' = cur /\ cur \in Records /\ numSlots < MaxSlots
            /\ numSlots' = numSlots /\ slotOffset' = slotOffset
            /\ freeOffset' = freeOffset /\ freeSpace' = freeSpace
        BY <2>2 DEF CheckSpace, Done, page, header, Progress, Inserting, Counted
      <3>2. ~(freeSpace < Need(cur)) /\ ~(freeOffset - slotOffset < Need(cur))
        BY <2>2 DEF CheckSpace, Done
      <3>3. /\ Need(cur) \in Nat /\ freeSpace \in Nat
            /\ slotOffset \in Nat /\ freeOffset \in Nat
        BY <3>1 DEF TypeOK, HeaderWords
      <3>4. Need(cur) <= freeSpace /\ slotOffset + Need(cur) <= freeOffset
        BY <3>2, <3>3
      <3>5. Need(cur)' = Need(cur)
        BY <3>1 DEF Need
      <3> QED
        BY <3>1, <3>4, <3>5 DEF Progress, Inserting, Counted
    <2> QED
      BY <2>1, <2>2
  <1>3. ASSUME damage' = {} PROVE Undamaged'
    <2>1. damage = {} /\ Undamaged
      BY <1>3 DEF CheckSpace, ghosts
    <2>2. SlotsInStep'
      BY <2>1 DEF Undamaged, SlotsInStep, Counted, CheckSpace, Done, page, header
    <2>3. SlotsAccounted'
      BY <2>1 DEF Undamaged, SlotsAccounted, Counted, CheckSpace, Done, page, header,
             ghosts
    <2>4. ImagesAbove'
      BY <2>1 DEF Undamaged, ImagesAbove, Intact, CheckSpace, page, header, ghosts
    <2>5. ImagePending'
      BY <2>1 DEF ImagePending, Counted, CheckSpace, Done
    <2>6. DropIsLocal'
      BY <2>1 DEF DropIsLocal, CheckSpace, Done
    <2> QED
      BY <2>2, <2>3, <2>4, <2>5, <2>6 DEF Undamaged
  <1> QED
    BY <1>1, <1>2, <1>3

\* Appending a slot.
LEMMA AppendSlotInv == ASSUME PageInvariant, AppendSlot PROVE PageInvariant'
  <1> USE PageAssumption, BoundsAssumption, NeedType DEF PageInvariant
  <1>1. TypeOK'
    <2>1. OffsetData \in Offsets
      BY DEF AppendSlot, TypeOK, Progress, Inserting, OffsetData, Offsets, Need,
             RecordWords, SlotWords, HeaderWords
    <2>2. slot' \in [SlotIds -> {Empty} \cup Offsets] /\ pc' \in PCs
      BY <2>1 DEF AppendSlot, TypeOK, PCs
    <2> QED
      BY <2>2 DEF TypeOK, AppendSlot, header, loop, answer, ghosts
  <1>2. Progress'
    BY DEF Progress, Inserting, Counted, AppendSlot, header
  <1>3. ASSUME damage' = {} PROVE Undamaged'
    <2>1. damage = {} /\ Undamaged
      BY <1>3 DEF AppendSlot, ghosts
    <2>2. SlotsInStep'
      BY <2>1 DEF Undamaged, SlotsInStep, Counted, AppendSlot, header
    <2>3. SlotsAccounted'
      BY <2>1 DEF TypeOK, Undamaged, SlotsInStep, SlotsAccounted, Counted, SlotIds,
             AppendSlot, HeaderWords, SlotWords, header, ghosts
    <2>4. ImagesAbove'
      <3>1. slotOffset - HeaderWords = numSlots /\ numSlots \in SlotIds
        BY <2>1 DEF TypeOK, AppendSlot, Undamaged, SlotsInStep, SlotIds, HeaderWords
      <3>2. slot' = [slot EXCEPT ![numSlots] = OffsetData]
        <4>1. (slotOffset - HeaderWords) \div SlotWords = numSlots
          BY <3>1 DEF SlotWords, SlotIds
        <4> QED
          BY <4>1 DEF AppendSlot
      <3>3. \A s \in live : s < numSlots /\ slot'[s] = slot[s]
        BY <2>1, <3>1, <3>2 DEF Undamaged, ImagesAbove, Intact, SlotIds
      <3> QED
        <4> SUFFICES ASSUME NEW s \in live PROVE Intact(s)' /\ freeOffset' <= slot'[s]
          BY DEF ImagesAbove, AppendSlot, ghosts
        <4>1. Intact(s) /\ freeOffset <= slot[s] /\ slot'[s] = slot[s]
          BY <2>1, <3>3 DEF Undamaged, ImagesAbove
        <4> QED
          BY <4>1 DEF Intact, AppendSlot, header, ghosts
    <2>5. ImagePending'
      <3>1. slotOffset - HeaderWords = numSlots /\ numSlots \in SlotIds
        BY <2>1 DEF TypeOK, AppendSlot, Undamaged, SlotsInStep, SlotIds, HeaderWords
      <3>2. slot'[numSlots] = OffsetData
        BY <3>1 DEF AppendSlot, SlotWords, SlotIds, TypeOK
      <3> QED
        BY <3>2 DEF ImagePending, Counted, AppendSlot, OffsetData, header
    <2>6. DropIsLocal'
      BY <2>1 DEF DropIsLocal, AppendSlot
    <2> QED
      BY <2>2, <2>3, <2>4, <2>5, <2>6 DEF Undamaged
  <1> QED
    BY <1>1, <1>2, <1>3

\* Copying the image into the gap.
LEMMA CopyRecordInv == ASSUME PageInvariant, CopyRecord PROVE PageInvariant'
  <1> USE PageAssumption, BoundsAssumption, NeedType DEF PageInvariant
  <1>1. TypeOK'
    <2>1. cur \in Records /\ numSlots \in SlotIds /\ OffsetData \in Int
      BY DEF CopyRecord, TypeOK, Progress, Inserting, OffsetData, RecordWords
    <2>2. mem' \in [Addresses -> Words]
      BY <2>1 DEF CopyRecord, TypeOK, Words, Addresses
    <2>3. image' \in [SlotIds -> Records \cup {NoRecord}] /\ rid' \in SlotIds /\ pc' \in PCs
      BY <2>1 DEF CopyRecord, TypeOK, PCs
    <2> QED
      BY <2>2, <2>3 DEF TypeOK, CopyRecord, header, loop, answer
  <1>2. Progress'
    BY DEF Progress, Inserting, Counted, CopyRecord, header
  <1>3. ASSUME damage' = {} PROVE Undamaged'
    <2>1. damage = {} /\ Undamaged
      BY <1>3 DEF CopyRecord
    <2>2. SlotsInStep'
      BY <2>1 DEF Undamaged, SlotsInStep, Counted, CopyRecord, header
    <2>3. SlotsAccounted'
      BY <2>1 DEF Undamaged, SlotsAccounted, Counted, CopyRecord, header
    <2>4. ImagesAbove'
      <3> SUFFICES ASSUME NEW s \in live PROVE Intact(s)' /\ freeOffset' <= slot'[s]
        BY DEF ImagesAbove, CopyRecord
      <3>1. Intact(s) /\ freeOffset <= slot[s] /\ s \in SlotIds /\ numSlots \in SlotIds
        BY <2>1 DEF TypeOK, Undamaged, ImagesAbove
      <3>2. /\ image'[s] = image[s] /\ slot'[s] = slot[s]
            /\ numSlots' = numSlots /\ freeOffset' = freeOffset
        BY <3>1 DEF CopyRecord, Intact, SlotIds, header
      <3>3. ASSUME NEW k \in 0 .. RecordWords + Size[image[s]] - 1
            PROVE  mem'[slot[s] + k] = mem[slot[s] + k]
        <4>1. slot[s] \in Offsets /\ image[s] \in Records /\ freeOffset \in Nat
          BY <3>1 DEF Intact, TypeOK, HeaderWords
        <4>2. slot[s] \in Nat /\ slot[s] + RecordWords + Size[image[s]] <= PageWords
          BY <3>1, <4>1 DEF Intact, Offsets
        <4>3. slot[s] + k \in Addresses /\ freeOffset <= slot[s] + k
          BY <3>1, <4>1, <4>2, SizeAssumption DEF Addresses, RecordWords
        <4> QED
          BY <4>1, <4>3 DEF CopyRecord, TypeOK, Addresses
      <3> QED
        BY <3>1, <3>2, <3>3 DEF Intact
    <2>5. ImagePending'
      <3>1. cur \in Records /\ numSlots \in SlotIds /\ slot[numSlots] = OffsetData
        BY <2>1 DEF CopyRecord, TypeOK, Progress, Inserting, Undamaged, ImagePending
      <3>2. HeaderWords <= OffsetData /\ OffsetData + RecordWords + Size[cur] = freeOffset
        BY <3>1 DEF CopyRecord, TypeOK, Progress, OffsetData, Need, RecordWords,
               SlotWords, HeaderWords
      <3>3. image'[numSlots] = cur
        BY <3>1 DEF CopyRecord, TypeOK
      <3>4. ASSUME NEW k \in 0 .. RecordWords + Size[cur] - 1
            PROVE  mem'[OffsetData + k] = <<numSlots, k>>
        <4>1. freeOffset \in Nat /\ freeOffset <= PageWords /\ Size[cur] \in Nat
          BY <3>1 DEF TypeOK, HeaderWords
        <4>2. OffsetData \in Nat
          BY <4>1, <3>2 DEF OffsetData, HeaderWords, RecordWords
        <4>3. k \in Nat /\ OffsetData + k < freeOffset
          BY <4>1, <4>2, <3>2 DEF RecordWords
        <4>4. OffsetData + k \in Addresses
          BY <4>1, <4>2, <4>3 DEF Addresses
        <4>5. OffsetData <= OffsetData + k /\ (OffsetData + k) - OffsetData = k
          BY <4>2, <4>3
        <4>6. mem'[OffsetData + k] = <<numSlots, (OffsetData + k) - OffsetData>>
          BY <4>3, <4>4, <4>5, SMTT(30) DEF CopyRecord
        <4> QED
          BY <4>5, <4>6
      <3> QED
        <4>1. /\ pc' = "count" /\ rid' = numSlots /\ cur' = cur /\ slot' = slot
              /\ OffsetData' = OffsetData
          BY DEF CopyRecord, OffsetData, header
        <4>2. OffsetData + RecordWords + Size[cur] <= PageWords
          BY <3>2 DEF TypeOK
        <4> QED
          BY <3>1, <3>3, <3>4, <4>1, <4>2 DEF ImagePending
    <2>6. DropIsLocal'
      BY <2>1 DEF DropIsLocal, CopyRecord
    <2> QED
      BY <2>2, <2>3, <2>4, <2>5, <2>6 DEF Undamaged
  <1> QED
    BY <1>1, <1>2, <1>3

\* Counting the slot.
LEMMA CountSlotInv == ASSUME PageInvariant, CountSlot PROVE PageInvariant'
  <1> USE PageAssumption, BoundsAssumption, NeedType DEF PageInvariant
  <1>1. TypeOK'
    BY DEF TypeOK, CountSlot, Progress, Inserting, Counted, PCs, SlotIds, loop, answer,
           ghosts
  <1>2. Progress'
    BY DEF Progress, Inserting, Counted, CountSlot
  <1>3. ASSUME damage' = {} PROVE Undamaged'
    <2>1. damage = {} /\ Undamaged
      BY <1>3 DEF CountSlot, loop, answer, ghosts
    <2>2. SlotsInStep'
      BY <2>1 DEF TypeOK, Undamaged, SlotsInStep, SlotIds, CountSlot
    <2>3. SlotsAccounted'
      <3>1. \A s \in live \cup removed : s < numSlots
        BY <2>1 DEF Undamaged, SlotsAccounted, ImagesAbove, Intact
      <3>2. rid = numSlots /\ rid \notin live
        BY <2>1, <3>1 DEF CountSlot, Undamaged, SlotsInStep, TypeOK, SlotIds
      <3>3. ASSUME NEW s \in SlotIds, s < numSlots', slot[s] # Empty PROVE s \in live \/ s = rid
        BY <2>1, <3>2, <3>3 DEF CountSlot, TypeOK, Undamaged, SlotsAccounted, SlotIds
      <3> QED
        BY <2>1, <3>1, <3>2, <3>3 DEF CountSlot, TypeOK, Undamaged, SlotsAccounted,
               Counted, SlotIds, ghosts
    <2>4. ImagesAbove'
      BY <2>1 DEF TypeOK, Progress, Undamaged, SlotsAccounted, ImagesAbove, Intact,
             SlotIds, CountSlot, ghosts
    <2>5. ImagePending'
      BY <2>1 DEF Undamaged, ImagePending, OffsetData, CountSlot, ghosts
    <2>6. DropIsLocal'
      BY <2>1 DEF DropIsLocal, CountSlot
    <2> QED
      BY <2>2, <2>3, <2>4, <2>5, <2>6 DEF Undamaged
  <1> QED
    BY <1>1, <1>2, <1>3

\* Advancing _slotOffset.
LEMMA AdvanceSlotOffsetInv == ASSUME PageInvariant, AdvanceSlotOffset PROVE PageInvariant'
  <1> USE PageAssumption, BoundsAssumption, NeedType DEF PageInvariant
  <1>1. TypeOK'
    BY DEF TypeOK, AdvanceSlotOffset, Progress, Inserting, Need, PCs, SlotWords,
           RecordWords, HeaderWords, loop, answer, ghosts
  <1>2. Progress'
    BY DEF TypeOK, Progress, Inserting, Counted, AdvanceSlotOffset, Need, SlotWords,
           RecordWords, HeaderWords, loop, answer, ghosts
  <1>3. ASSUME damage' = {} PROVE Undamaged'
    <2>1. damage = {} /\ Undamaged
      BY <1>3 DEF AdvanceSlotOffset, SlotWords, loop, answer, ghosts
    <2>2. SlotsInStep'
      BY <2>1 DEF TypeOK, Undamaged, SlotsInStep, Counted, SlotIds, AdvanceSlotOffset,
             SlotWords, HeaderWords, loop
    <2>3. SlotsAccounted'
      BY <2>1 DEF TypeOK, Progress, Undamaged, SlotsInStep, SlotsAccounted, Counted,
             Inserting, SlotIds, AdvanceSlotOffset, SlotWords, header, loop, answer,
             ghosts
    <2>4. ImagesAbove'
      BY <2>1 DEF TypeOK, Progress, Undamaged, SlotsAccounted, ImagesAbove, Intact,
             SlotIds, Addresses, AdvanceSlotOffset, SlotWords, header, loop, answer,
             ghosts
    <2>5. ImagePending'
      BY <2>1 DEF TypeOK, Progress, Undamaged, SlotsInStep, ImagePending, Counted,
             Inserting, SlotIds, Addresses, OffsetData, AdvanceSlotOffset, SlotWords,
             header, loop, answer, ghosts
    <2>6. DropIsLocal'
      BY <2>1 DEF TypeOK, Undamaged, DropIsLocal, Addresses, AdvanceSlotOffset,
             SlotWords, loop, answer, ghosts
    <2> QED
      BY <2>2, <2>3, <2>4, <2>5, <2>6 DEF Undamaged
  <1> QED
    BY <1>1, <1>2, <1>3

\* Lowering _freeOffset below the new image.
LEMMA LowerFreeOffsetInv == ASSUME PageInvariant, LowerFreeOffset PROVE PageInvariant'
  <1> USE PageAssumption, BoundsAssumption, NeedType DEF PageInvariant
  <1>1. TypeOK'
    BY DEF TypeOK, LowerFreeOffset, OffsetData, Progress, Inserting, PCs, HeaderWords,
           RecordWords, loop, answer, ghosts
  <1>2. Progress'
    BY DEF TypeOK, Progress, Inserting, Counted, LowerFreeOffset, loop, answer, ghosts
  <1>3. ASSUME damage' = {} PROVE Undamaged'
    <2>1. damage = {} /\ Undamaged
      BY <1>3 DEF LowerFreeOffset, OffsetData, RecordWords, HeaderWords, loop, answer,
             ghosts
    <2>2. SlotsInStep'
      BY <2>1 DEF TypeOK, Progress, Undamaged, SlotsInStep, Counted, Inserting, SlotIds,
             LowerFreeOffset, OffsetData, RecordWords, HeaderWords, header, loop,
             answer, ghosts
    <2>3. SlotsAccounted'
      BY <2>1 DEF TypeOK, Progress, Undamaged, SlotsInStep, SlotsAccounted, Counted,
             Inserting, SlotIds, LowerFreeOffset, OffsetData, RecordWords, HeaderWords,
             header, loop, answer, ghosts
    <2>4. ImagesAbove'
      <3> SUFFICES ASSUME NEW s \in live PROVE Intact(s)' /\ freeOffset' <= slot'[s]
        BY DEF ImagesAbove, LowerFreeOffset, ghosts
      <3>1. Intact(s) /\ freeOffset <= slot[s] /\ slot[s] \in Int
        BY <2>1 DEF TypeOK, Undamaged, ImagesAbove, Offsets, Empty
      <3>2. Intact(s)'
        BY <3>1 DEF Intact, LowerFreeOffset, ghosts
      <3>3. freeOffset' <= freeOffset /\ freeOffset' \in Int /\ freeOffset \in Int
        BY DEF LowerFreeOffset, OffsetData, Progress, Inserting, TypeOK, RecordWords,
               HeaderWords
      <3> QED
        BY <3>1, <3>2, <3>3 DEF LowerFreeOffset
    <2>5. ImagePending'
      BY <2>1 DEF TypeOK, Progress, Undamaged, SlotsInStep, ImagePending, Counted,
             Inserting, SlotIds, Addresses, OffsetData, LowerFreeOffset, RecordWords,
             HeaderWords, header, loop, answer, ghosts
    <2>6. DropIsLocal'
      BY <2>1 DEF TypeOK, Undamaged, DropIsLocal, Addresses, LowerFreeOffset,
             OffsetData, RecordWords, HeaderWords, loop, answer, ghosts
    <2> QED
      BY <2>2, <2>3, <2>4, <2>5, <2>6 DEF Undamaged
  <1> QED
    BY <1>1, <1>2, <1>3

\* Charging _freeSpace and acknowledging the record.
LEMMA ChargeFreeSpaceInv == ASSUME PageInvariant, ChargeFreeSpace PROVE PageInvariant'
  <1> USE PageAssumption, BoundsAssumption, NeedType DEF PageInvariant
  <1>1. TypeOK'
    <2>1. pc' \in PCs /\ rc' \in Outcomes /\ LocalsOK'
      BY DoneType DEF ChargeFreeSpace, Outcomes
    <2>2. freeSpace' \in Nat
      BY DEF ChargeFreeSpace, TypeOK, Progress, Inserting
    <2>3. known' \subseteq SlotIds /\ live' \subseteq SlotIds
      BY DEF ChargeFreeSpace, TypeOK
    <2> QED
      BY <2>1, <2>2, <2>3 DEF TypeOK, LocalsOK, ChargeFreeSpace
  <1>2. Progress'
    BY DEF TypeOK, Progress, Inserting, Counted, ChargeFreeSpace, Done
  <1>3. ASSUME damage' = {} PROVE Undamaged'
    <2>1. damage = {} /\ Undamaged
      BY <1>3 DEF ChargeFreeSpace, Done
    <2>2. SlotsInStep'
      BY <2>1 DEF TypeOK, Progress, Undamaged, SlotsInStep, Counted, Inserting, SlotIds,
             ChargeFreeSpace, Done, ImagePending, header
    <2>3. SlotsAccounted'
      <3>1. rid = numSlots - 1 /\ rid < numSlots /\ slot[rid] # Empty
        BY <2>1 DEF ChargeFreeSpace, TypeOK, Undamaged, SlotsInStep, ImagePending,
               Counted, SlotIds, HeaderWords, Empty
      <3>2. rid \notin removed
        BY <2>1, <3>1 DEF Undamaged, SlotsAccounted
      <3> QED
        BY <2>1, <3>2 DEF ChargeFreeSpace, Done, Undamaged, SlotsAccounted, Counted
    <2>4. ImagesAbove'
      <3>1. Intact(rid) /\ freeOffset <= slot[rid]
        BY <2>1 DEF ChargeFreeSpace, TypeOK, Undamaged, SlotsInStep, ImagePending,
               Intact, Counted, Inserting, Progress, SlotIds, HeaderWords, Empty
      <3>2. \A s \in live' : Intact(s) /\ freeOffset <= slot[s]
        BY <2>1, <3>1 DEF Undamaged, ImagesAbove, ChargeFreeSpace
      <3> QED
        BY <3>2 DEF ImagesAbove, Intact, ChargeFreeSpace
    <2>5. ImagePending'
      BY <2>1 DEF TypeOK, Progress, Undamaged, SlotsInStep, ImagePending, Counted,
             Inserting, SlotIds, Addresses, OffsetData, ChargeFreeSpace, Done, header
    <2>6. DropIsLocal'
      BY <2>1 DEF TypeOK, Undamaged, DropIsLocal, Addresses, ChargeFreeSpace, Done,
             ImagePending, SlotsInStep
    <2> QED
      BY <2>2, <2>3, <2>4, <2>5, <2>6 DEF Undamaged
  <1> QED
    BY <1>1, <1>2, <1>3

\* Emptying the slot of a record.
LEMMA RemoveSlotInv == ASSUME PageInvariant, NEW s \in SlotIds, RemoveSlot(s) PROVE PageInvariant'
  <1> USE PageAssumption, BoundsAssumption, NeedType DEF PageInvariant
  <1>1. TypeOK'
    <2>1. known' \subseteq SlotIds /\ live' \subseteq SlotIds /\ got' \in Records \cup {NoRecord}
      BY DEF RemoveSlot, TypeOK
    <2>2. CASE s > numSlots \/ slot[s] = Empty
      <3>1. pc' \in PCs /\ rc' \in Outcomes /\ LocalsOK'
        BY <2>2, DoneType DEF RemoveSlot, Outcomes
      <3> QED
        BY <2>1, <2>2, <3>1 DEF TypeOK, LocalsOK, RemoveSlot, header
    <2>3. CASE ~(s > numSlots \/ slot[s] = Empty)
      <3>1. slot' \in [SlotIds -> {Empty} \cup Offsets] /\ right' \in Offsets
        BY <2>3 DEF RemoveSlot, TypeOK
      <3>2. removed' \subseteq SlotIds /\ pc' \in PCs /\ rid' \in SlotIds
        BY <2>3 DEF RemoveSlot, TypeOK, PCs
      <3> QED
        BY <2>1, <2>3, <3>1, <3>2 DEF TypeOK, RemoveSlot, header
    <2> QED
      BY <2>2, <2>3
  <1>2. Progress'
    BY DEF TypeOK, Progress, Inserting, Counted, RemoveSlot, Done, header
  <1>3. ASSUME damage' = {} PROVE Undamaged'
    <2>1. damage = {} /\ Undamaged
      BY <1>3 DEF RemoveSlot, Done, Empty, Offsets, header
    <2>2. SlotsInStep'
      BY <2>1 DEF TypeOK, Progress, Undamaged, SlotsInStep, Counted, Inserting, SlotIds,
             RemoveSlot, Done, ImagesAbove, Intact, RecordWords, Empty, Offsets, header
    <2>3. SlotsAccounted'
      <3>1. s \in live /\ s < numSlots /\ slot[s] # Empty
        BY <2>1 DEF RemoveSlot, Undamaged, SlotsAccounted, ImagesAbove, Intact
      <3>2. slot' = [slot EXCEPT ![s] = Empty] /\ removed' = removed \cup {s} /\ pc' = "flag"
        BY <3>1 DEF RemoveSlot, TypeOK, SlotIds
      <3> QED
        BY <2>1, <3>1, <3>2 DEF RemoveSlot, TypeOK, Undamaged, SlotsAccounted, Counted,
               header
    <2>4. ImagesAbove'
      BY <2>1 DEF TypeOK, Progress, Undamaged, SlotsAccounted, ImagesAbove, Intact,
             SlotIds, Addresses, RemoveSlot, Done, RecordWords, Empty, Offsets, header
    <2>5. ImagePending'
      BY <2>1 DEF TypeOK, Progress, Undamaged, SlotsInStep, ImagePending, Counted,
             Inserting, SlotIds, Addresses, OffsetData, RemoveSlot, Done, ImagesAbove,
             Intact, RecordWords, Empty, Offsets, header
    <2>6. DropIsLocal'
      <3>1. s \in live /\ s < numSlots /\ slot[s] # Empty /\ Intact(s)
        BY <2>1 DEF RemoveSlot, Undamaged, SlotsAccounted, ImagesAbove, Intact
      <3>2. rid' = s /\ s \in removed' /\ right' = slot[s] /\ mem' = mem
        BY <3>1 DEF RemoveSlot, TypeOK, SlotIds
      <3>3. slot[s] + 1 < PageWords /\ mem[slot[s] + 1] = <<s, 1>>
        BY <3>1 DEF Intact, TypeOK, Offsets, RecordWords, Empty
      <3> QED
        BY <3>2, <3>3 DEF DropIsLocal, FlagWord
    <2> QED
      BY <2>2, <2>3, <2>4, <2>5, <2>6 DEF Undamaged
  <1> QED
    BY <1>1, <1>2, <1>3

\* Flagging the dropped image.
LEMMA DropRecordInv == ASSUME PageInvariant, DropRecord PROVE PageInvariant'
  <1> USE PageAssumption, BoundsAssumption, NeedType DEF PageInvariant
  <1>1. TypeOK'
    <2>1. ASSUME right + 1 < PageWords PROVE mem' \in [Addresses -> Words]
      <3>1. right + 1 \in Addresses
        BY <2>1 DEF TypeOK, Offsets, Addresses
      <3>2. DroppedWord(mem[right + 1][1]) \in Words
        BY <3>1 DEF TypeOK, Words, DroppedWord
      <3> QED
        BY <2>1, <3>1, <3>2 DEF DropRecord, TypeOK
    <2>2. mem' \in [Addresses -> Words]
      BY <2>1 DEF DropRecord, TypeOK
    <2>3. pc' \in PCs /\ rc' \in Outcomes
      BY DEF DropRecord, Wild, TypeOK, PCs, Outcomes
    <2> QED
      BY <2>2, <2>3 DEF TypeOK, DropRecord, header, loop, ghosts
  <1>2. Progress'
    BY DEF TypeOK, Progress, Inserting, Counted, DropRecord, Wild, Offsets, header,
           loop, ghosts
  <1>3. ASSUME damage' = {} PROVE Undamaged'
    <2>1. damage = {} /\ Undamaged
      BY <1>3 DEF DropRecord, Wild, DroppedWord, header, loop, ghosts
    <2>2. SlotsInStep'
      BY <2>1 DEF TypeOK, Progress, Undamaged, SlotsInStep, Counted, Inserting, SlotIds,
             DropRecord, Wild, DropIsLocal, FlagWord, DroppedWord, Offsets, header,
             loop, ghosts
    <2>3. SlotsAccounted'
      BY <2>1 DEF TypeOK, Progress, Undamaged, SlotsInStep, SlotsAccounted, Counted,
             Inserting, SlotIds, DropRecord, Wild, DropIsLocal, FlagWord, DroppedWord,
             Offsets, header, loop, ghosts
    <2>4. ImagesAbove'
      <3> SUFFICES ASSUME NEW s \in live PROVE Intact(s)' /\ freeOffset' <= slot'[s]
        BY DEF ImagesAbove, DropRecord, ghosts
      <3>1. Intact(s) /\ freeOffset <= slot[s] /\ rid # s /\ mem[right + 1] = <<rid, 1>>
        BY <2>1 DEF TypeOK, Undamaged, ImagesAbove, SlotsAccounted, DropIsLocal,
               DropRecord, FlagWord
      <3>2. ASSUME NEW k \in 0 .. RecordWords + Size[image[s]] - 1
            PROVE  mem'[slot[s] + k] = mem[slot[s] + k]
        <4>1. mem[slot[s] + k] = <<s, k>>
          BY <3>1 DEF Intact
        <4>2. slot[s] + k # right + 1
          BY <3>1, <4>1
        <4>3. slot[s] + k \in Addresses
          <5>1. slot[s] \in Offsets /\ image[s] \in Records
            BY <3>1 DEF Intact, TypeOK
          <5> QED
            BY <3>1, <5>1 DEF Intact, Addresses, Offsets, RecordWords
        <4> QED
          BY <4>2, <4>3 DEF DropRecord, TypeOK
      <3> QED
        BY <3>1, <3>2 DEF Intact, DropRecord, header, ghosts
    <2>5. ImagePending'
      BY <2>1 DEF TypeOK, Progress, Undamaged, SlotsInStep, ImagePending, Counted,
             Inserting, SlotIds, Addresses, OffsetData, DropRecord, Wild, DropIsLocal,
             FlagWord, DroppedWord, Offsets, header, loop, ghosts
    <2>6. DropIsLocal'
      BY <2>1 DEF TypeOK, Undamaged, DropIsLocal, Addresses, DropRecord, Wild, FlagWord,
             DroppedWord, Offsets, header, loop, ghosts
    <2> QED
      BY <2>2, <2>3, <2>4, <2>5, <2>6 DEF Undamaged
  <1> QED
    BY <1>1, <1>2, <1>3

\* Crediting _freeSpace with the size of the dropped document.
LEMMA CreditFreeSpaceInv == ASSUME PageInvariant, CreditFreeSpace PROVE PageInvariant'
  <1> USE PageAssumption, BoundsAssumption, NeedType DEF PageInvariant
  <1>1. TypeOK'
    <2>1. freeSpace' \in Nat
      BY DEF CreditFreeSpace, Credit, TypeOK
    <2>2. pc' \in PCs /\ rc' \in Outcomes /\ LocalsOK'
      BY DoneType DEF CreditFreeSpace, Wild, TypeOK, LocalsOK, PCs, Outcomes, loop
    <2> QED
      BY <2>1, <2>2 DEF TypeOK, LocalsOK, CreditFreeSpace, loop, ghosts
  <1>2. Progress'
    BY DEF TypeOK, Progress, Inserting, Counted, CreditFreeSpace, Done, Wild, loop,
           ghosts
  <1>3. ASSUME damage' = {} PROVE Undamaged'
    <2>1. damage = {} /\ Undamaged
      BY <1>3 DEF CreditFreeSpace, Done, Wild, loop, ghosts
    <2>2. SlotsInStep'
      BY <2>1 DEF TypeOK, Progress, Undamaged, SlotsInStep, Counted, Inserting, SlotIds,
             CreditFreeSpace, Done, Wild, header, loop, ghosts
    <2>3. SlotsAccounted'
      BY <2>1 DEF TypeOK, Progress, Undamaged, SlotsInStep, SlotsAccounted, Counted,
             Inserting, SlotIds, CreditFreeSpace, Done, Wild, header, loop, ghosts
    <2>4. ImagesAbove'
      BY <2>1 DEF TypeOK, Progress, Undamaged, SlotsAccounted, ImagesAbove, Intact,
             SlotIds, Addresses, CreditFreeSpace, Done, Wild, header, loop, ghosts
    <2>5. ImagePending'
      BY <2>1 DEF TypeOK, Progress, Undamaged, SlotsInStep, ImagePending, Counted,
             Inserting, SlotIds, Addresses, OffsetData, CreditFreeSpace, Done, Wild,
             header, loop, ghosts
    <2>6. DropIsLocal'
      BY <2>1 DEF TypeOK, Undamaged, DropIsLocal, Addresses, CreditFreeSpace, Done,
             Wild, loop, ghosts
    <2> QED
      BY <2>2, <2>3, <2>4, <2>5, <2>6 DEF Undamaged
  <1> QED
    BY <1>1, <1>2, <1>3

\* Reading a record.
LEMMA FindInv == ASSUME PageInvariant, NEW s \in SlotIds, Find(s) PROVE PageInvariant'
  <1> USE PageAssumption, BoundsAssumption, NeedType DEF PageInvariant
  <1>1. TypeOK'
    BY DEF TypeOK, Find, DocumentAt, Outcomes, page, header, loop, ghosts
  <1>2. Progress'
    BY DEF TypeOK, Progress, Inserting, Counted, Find, page, header, loop, ghosts
  <1>3. ASSUME damage' = {} PROVE Undamaged'
    <2>1. damage = {} /\ Undamaged
      BY <1>3 DEF Find, page, header, loop, ghosts
    <2>2. SlotsInStep'
      BY <2>1 DEF TypeOK, Progress, Undamaged, SlotsInStep, Counted, Inserting, SlotIds,
             Find, page, header, loop, ghosts
    <2>3. SlotsAccounted'
      BY <2>1 DEF TypeOK, Progress, Undamaged, SlotsInStep, SlotsAccounted, Counted,
             Inserting, SlotIds, Find, page, header, loop, ghosts
    <2>4. ImagesAbove'
      BY <2>1 DEF TypeOK, Progress, Undamaged, SlotsAccounted, ImagesAbove, Intact,
             SlotIds, Addresses, Find, page, header, loop, ghosts
    <2>5. ImagePending'
      BY <2>1 DEF TypeOK, Progress, Undamaged, SlotsInStep, ImagePending, Counted,
             Inserting, SlotIds, Addresses, OffsetData, Find, page, header, loop, ghosts
    <2>6. DropIsLocal'
      BY <2>1 DEF TypeOK, Undamaged, DropIsLocal, Addresses, Find, page, header, loop,
             ghosts
    <2> QED
      BY <2>2, <2>3, <2>4, <2>5, <2>6 DEF Undamaged
  <1> QED
    BY <1>1, <1>2, <1>3

\* A crash and the reload, at any store.
LEMMA CrashInv == ASSUME PageInvariant, Crash PROVE PageInvariant'
  <1> USE PageAssumption, BoundsAssumption, NeedType DEF PageInvariant
  <1>1. TypeOK'
    <2>1. pc' \in PCs /\ rc' \in Outcomes /\ LocalsOK'
      BY DoneType DEF Crash, Outcomes
    <2>2. known' \subseteq SlotIds /\ damage' \subseteq Damages /\ crashes' \in 0 .. MaxCrashes
      BY DEF Crash, Loadable, TypeOK, Damages
    <2> QED
      BY <2>1, <2>2 DEF TypeOK, LocalsOK, Crash, page, header
  <1>2. Progress'
    BY DEF TypeOK, Progress, Inserting, Counted, Crash, Done, page, header
  <1>3. ASSUME damage' = {} PROVE Undamaged'
    <2>1. damage = {} /\ Undamaged
      BY <1>3 DEF Crash, Done, page, header
    <2>2. SlotsInStep'
      <3>1. pc \notin Counted
        BY <1>3 DEF Crash, Counted
      <3> QED
        BY <2>1, <3>1 DEF Crash, Done, Undamaged, SlotsInStep, Counted, page, header
    <2>3. SlotsAccounted'
      <3>1. pc \notin Counted
        BY <1>3 DEF Crash, Counted
      <3>2. known' = live
        <4>1. \A s \in known' : s \in live
          BY <2>1, <3>1 DEF Crash, Loadable, Undamaged, SlotsAccounted
        <4>2. \A s \in live : s \in known'
          BY <2>1 DEF Crash, Loadable, TypeOK, Undamaged, ImagesAbove, Intact
        <4> QED
          BY <4>1, <4>2
      <3> QED
        BY <2>1, <3>1, <3>2 DEF Crash, Done, Undamaged, SlotsAccounted, Counted, page,
               header
    <2>4. ImagesAbove'
      BY <2>1 DEF TypeOK, Progress, Undamaged, SlotsAccounted, ImagesAbove, Intact,
             SlotIds, Addresses, Crash, Done, page, header
    <2>5. ImagePending'
      BY <2>1 DEF TypeOK, Progress, Undamaged, SlotsInStep, ImagePending, Counted,
             Inserting, SlotIds, Addresses, OffsetData, Crash, Done, page, header
    <2>6. DropIsLocal'
      BY <2>1 DEF TypeOK, Undamaged, DropIsLocal, Addresses, Crash, Done, page, header
    <2> QED
      BY <2>2, <2>3, <2>4, <2>5, <2>6 DEF Undamaged
  <1> QED
    BY <1>1, <1>2, <1>3

\* Passing a record marks the page as damaged, so only the types remain.
LEMMA RecoverRecordInv == ASSUME PageInvariant, RecoverRecord PROVE PageInvariant'
  <1> USE PageAssumption, BoundsAssumption, NeedType DEF PageInvariant
  <1> DEFINE from == slot[pos]
             size == Size[image[mem[from][1]]]
             to == right - size
             sound == /\ from < PageWords
                      /\ \E s \in SlotIds : mem[from] = SizeWord(s)
                      /\ image[mem[from][1]] \in Records
                      /\ slotOffset <= to
                      /\ from + size <= PageWords
  <1>1. pos \in SlotIds /\ pos + 1 \in SlotIds /\ pos < numSlots /\ from \in Offsets
    BY DEF RecoverRecord, TypeOK, SlotIds
  <1>2. CASE sound
    <2>1. size \in Nat /\ to \in Offsets /\ slotOffset <= to
      BY <1>2 DEF TypeOK, Offsets, HeaderWords
    <2>2. mem' \in [Addresses -> Words]
      <3>1. Moved(mem, to, from, size) \in [Addresses -> Words]
        <4> SUFFICES ASSUME NEW a \in Addresses, to <= a, a < to + size
                     PROVE  a - to + from \in Addresses
          BY DEF TypeOK, Moved
        <4> QED
          BY <1>1, <1>2, <2>1 DEF Addresses, Offsets
      <3> QED
        BY <1>2, <3>1 DEF RecoverRecord, TypeOK
    <2>3. slot' \in [SlotIds -> {Empty} \cup Offsets]
      BY <1>2, <2>1 DEF RecoverRecord, TypeOK
    <2>4. /\ right' = to /\ pos' = pos + 1 /\ pc' = pc /\ rc' = rc
          /\ damage' \subseteq Damages /\ damage' # {}
      BY <1>2 DEF RecoverRecord, TypeOK, Damages
    <2>5. TypeOK'
      BY <1>1, <2>1, <2>2, <2>3, <2>4 DEF TypeOK, RecoverRecord, header
    <2>6. Progress'
      BY <1>1, <2>1, <2>4 DEF Progress, TypeOK, SlotIds, RecoverRecord, header
    <2> QED
      BY <2>4, <2>5, <2>6
  <1>3. CASE ~sound
    <2>1. /\ pc' = "wild" /\ rc' = "wild"
          /\ UNCHANGED <<mem, slot, right, pos>>
          /\ damage' \subseteq Damages /\ damage' # {}
      BY <1>3 DEF RecoverRecord, Wild, TypeOK, Damages
    <2>2. TypeOK'
      BY <2>1 DEF TypeOK, RecoverRecord, header, PCs, Outcomes
    <2>3. Progress'
      BY <2>1 DEF Progress, Inserting, Counted
    <2> QED
      BY <2>1, <2>2, <2>3
  <1> QED
    BY <1>2, <1>3

\* Every step preserves the invariant.
LEMMA NextInvariant == PageInvariant /\ [Next]_vars => PageInvariant'
  <1> SUFFICES ASSUME PageInvariant, [Next]_vars PROVE PageInvariant'
    OBVIOUS
  <1>1. CASE UNCHANGED vars
    <2> USE <1>1 DEF vars, page, header, loop, answer, ghosts, PageInvariant
    <2>1. TypeOK' /\ Progress'
      BY DEF TypeOK, Progress
    <2>2. ASSUME damage = {}
          PROVE  SlotsInStep' /\ SlotsAccounted' /\ ImagePending' /\ DropIsLocal'
      BY <2>2 DEF Undamaged, SlotsInStep, SlotsAccounted, ImagePending, DropIsLocal,
             OffsetData
    <2>3. ASSUME damage = {} PROVE ImagesAbove'
      BY <2>3 DEF Undamaged, ImagesAbove, Intact
    <2> QED
      BY <2>1, <2>2, <2>3 DEF Undamaged
  <1>2. CASE \E r \in Records : InsertBegin(r)
    BY <1>2, InsertBeginInv
  <1>3. CASE RecoverHole \/ RecoverRecord \/ RecoverEnd
    BY <1>3, RecoverHoleInv, RecoverRecordInv, RecoverEndInv
  <1>4. CASE CheckSpace \/ AppendSlot \/ CopyRecord
    BY <1>4, CheckSpaceInv, AppendSlotInv, CopyRecordInv
  <1>5. CASE CountSlot \/ AdvanceSlotOffset \/ LowerFreeOffset \/ ChargeFreeSpace
    BY <1>5, CountSlotInv, AdvanceSlotOffsetInv, LowerFreeOffsetInv, ChargeFreeSpaceInv
  <1>6. CASE \E s \in SlotIds : RemoveSlot(s)
    BY <1>6, RemoveSlotInv
  <1>7. CASE DropRecord \/ CreditFreeSpace
    BY <1>7, DropRecordInv, CreditFreeSpaceInv
  <1>8. CASE \E s \in SlotIds : Find(s)
    BY <1>8, FindInv
  <1>9. CASE Crash
    BY <1>9, CrashInv
  <1> QED
    BY <1>1, <1>2, <1>3, <1>4, <1>5, <1>6, <1>7, <1>8, <1>9 DEF Next

\* The stores of insert, remove, find and reload keep every undamaged page
\* well formed at every point where the server may die.
THEOREM PageIsWellFormed == Spec => []PageInvariant
  BY InitInvariant, NextInvariant, PTL DEF Spec

\* Every acknowledged record stays readable under its rid, word for word,
\* until it is removed, on every page that was neither compacted around a
\* live record nor torn by a crash inside an insert.
THEOREM RecordsStayIntact == Spec => []RecordsIntact
  <1>1. PageInvariant => RecordsIntact
    BY DEF PageInvariant, Undamaged, SlotsAccounted, ImagesAbove, RecordsIntact
  <1> QED
    BY <1>1, PageIsWellFormed, PTL

\* A removed record never comes back on such a page, not even by a reload.
THEOREM RemovedRecordsStayRemoved == Spec => []RemovedStaysRemoved
  <1>1. PageInvariant => RemovedStaysRemoved
    BY DEF PageInvariant, Undamaged, SlotsAccounted, RemovedStaysRemoved
  <1> QED
    BY <1>1, PageIsWellFormed, PTL

\* Reading the image of a live record yields the document stored under it.
LEMMA LiveDocument ==
    ASSUME PageInvariant, damage = {}, NEW s \in live
    PROVE  /\ slot[s] # Empty /\ s <= numSlots
           /\ mem[slot[s] + 1] = FlagWord(s)
           /\ DocumentAt(slot[s]) = image[s]
  <1>1. Intact(s) /\ s \in SlotIds /\ slot[s] \in Offsets
    BY DEF PageInvariant, Undamaged, ImagesAbove, TypeOK, Intact
  <1>2. Size[image[s]] \in Nat \ {0}
    BY <1>1, SizeAssumption DEF Intact
  <1>3. mem[slot[s] + 1] = <<s, 1>> /\ mem[slot[s] + 2] = <<s, 2>>
    BY <1>1, <1>2 DEF Intact, RecordWords
  <1>4. \A k \in 0 .. Size[image[s]] - 1 : mem[slot[s] + 2 + k] = <<s, 2 + k>>
    <2> SUFFICES ASSUME NEW k \in 0 .. Size[image[s]] - 1
                 PROVE  mem[slot[s] + 2 + k] = <<s, 2 + k>>
      OBVIOUS
    <2>1. 2 + k \in 0 .. 2 + Size[image[s]] - 1
      BY <1>2
    <2>2. mem[slot[s] + (2 + k)] = <<s, 2 + k>>
      BY <1>1, <2>1 DEF Intact, RecordWords
    <2>3. slot[s] + (2 + k) = slot[s] + 2 + k
      BY <1>1 DEF Offsets
    <2> QED
      BY <2>2, <2>3
  <1>5. DocumentAt(slot[s]) = image[s]
    <2>1. slot[s] + 2 < PageWords /\ slot[s] + 2 + Size[image[s]] <= PageWords
      BY <1>1, <1>2, PageAssumption DEF Intact, Offsets, RecordWords
    <2>2. mem[slot[s] + 2][1] = s
      BY <1>3
    <2> QED
      BY <1>1, <1>3, <1>4, <2>1, <2>2 DEF DocumentAt, LengthWord, RecordWords, Intact
  <1> QED
    BY <1>1, <1>3, <1>5 DEF FlagWord, Intact, TypeOK, PageInvariant, SlotIds

\* find answers with exactly the document stored under the rid, or EDB_SYS
\* when the record was removed first.
THEOREM FindAnswersExactly == Spec => FindIsExact
  <1> DEFINE Exact == \A s \in SlotIds :
                 damage = {} /\ Find(s) =>
                     IF s \in live THEN rc' = "ok" /\ got' = image[s] ELSE rc' = "EDB_SYS"
  <1>1. ASSUME PageInvariant, NEW s \in SlotIds, damage = {}, Find(s)
        PROVE  IF s \in live THEN rc' = "ok" /\ got' = image[s] ELSE rc' = "EDB_SYS"
    <2>1. CASE s \in live
      <3>1. /\ ~(s > numSlots \/ slot[s] = Empty)
            /\ DocumentAt(slot[s]) = image[s]
            /\ image[s] \in Records
            /\ mem[slot[s] + 1] # DroppedWord(mem[slot[s] + 1][1])
        BY <1>1, <2>1, LiveDocument DEF FlagWord, DroppedWord, PageInvariant, TypeOK, SlotIds,
               Undamaged, ImagesAbove, Intact
      <3> QED
        BY <1>1, <2>1, <3>1 DEF Find
    <2>2. CASE s \notin live
      <3>1. s \in removed /\ slot[s] = Empty
        BY <1>1, <2>2 DEF Find, PageInvariant, Undamaged, SlotsAccounted
      <3> QED
        BY <1>1, <2>2, <3>1 DEF Find
    <2> QED
      BY <2>1, <2>2
  <1>2. PageInvariant /\ [Next]_vars => [Exact]_vars
    BY <1>1
  <1> QED
    BY <1>2, PageIsWellFormed, PTL DEF Spec, FindIsExact

-----------------------------------------------------------------------------
(* The free space.  Total adds the weights of the slots one by one.        *)

\* w is added up by f.
Adds(f, w) ==
    /\ f \in [0 .. MaxSlots + 1 -> Nat]
    /\ f[0] = 0
    /\ \A n \in SlotIds : f[n + 1] = f[n] + w[n]
    /\ Total(w) = f[MaxSlots + 1]

\* The recursion of Total has a solution, and Total takes its last value.
LEMMA TotalAdds ==
    ASSUME NEW w \in [SlotIds -> Nat]
    PROVE  \E f : Adds(f, w)
<1> DEFINE N == MaxSlots + 1
           G == [x \in Nat \X Nat |-> IF x[2] \in SlotIds THEN x[1] + w[x[2]] ELSE x[1]]
           Rec(f) == [n \in 0 .. N |-> IF n = 0 THEN 0 ELSE f[n - 1] + w[n - 1]]
           m == CHOOSE f : f = Rec(f)
<1>1. N \in Nat /\ SlotIds = 0 .. N - 1
  BY BoundsAssumption DEF SlotIds
<1>2. G \in [Nat \X Nat -> Nat]
  OBVIOUS
<1>3. \A a \in Nat, n \in SlotIds : G[<<a, n>>] = a + w[n]
  BY <1>1
<1> HIDE DEF G
<1>4. PICK f \in [0 .. N -> Nat] : f[0] = 0 /\ \A k \in 0 .. N - 1 : f[k + 1] = G[<<f[k], k>>]
  <2>1. PICK f \in [0 .. N -> Nat] : Computes(f, 0, G, N)
    BY <1>1, <1>2, Recursion
  <2>2. QED  BY <2>1, Zenon DEF Computes
<1> HIDE DEF N
<1>5. \A k \in SlotIds : f[k + 1] = f[k] + w[k]
  <2>1. \A k \in SlotIds : k \in 0 .. N /\ f[k] \in Nat
    BY <1>1, <1>4
  <2>2. QED  BY <1>1, <1>3, <1>4, <2>1
<1>6. f = Rec(f)
  <2>1. ASSUME NEW n \in 0 .. N, n # 0 PROVE f[n] = f[n - 1] + w[n - 1]
    <3>1. n - 1 \in SlotIds /\ (n - 1) + 1 = n
      BY <1>1, <2>1
    <3>2. QED  BY <1>5, <3>1
  <2>2. QED  BY <1>4, <2>1
<1>7. m = Rec(m)
  BY <1>6, Zenon
<1>8. Total(w) = m[N]
  BY Zenon DEF Total, N
<1> HIDE DEF m
<1> DEFINE S == {n \in Nat : n <= N => m[n] = f[n]}
<1>9. 0 \in S
  BY <1>1, <1>4, <1>7
<1>10. ASSUME NEW n \in Nat, n \in S PROVE n + 1 \in S
  <2>1. SUFFICES ASSUME n + 1 <= N PROVE m[n + 1] = f[n + 1]
    OBVIOUS
  <2>2. n \in SlotIds /\ n + 1 \in 0 .. N /\ n + 1 # 0 /\ (n + 1) - 1 = n /\ m[n] = f[n]
    BY <1>1, <1>10, <2>1
  <2>3. m[n + 1] = m[(n + 1) - 1] + w[(n + 1) - 1]
    BY <1>7, <2>2
  <2>4. QED  BY <1>5, <2>2, <2>3
<1> HIDE DEF S
<1>11. N \in S
  BY <1>1, <1>9, <1>10, SetInduction
<1>12. Total(w) = f[N]
  BY <1>1, <1>8, <1>11 DEF S
<1>13. QED  BY <1>4, <1>5, <1>12 DEF Adds, N

\* Changing the weight of one slot changes the sum by as much.
LEMMA TotalChanges ==
    ASSUME NEW w \in [SlotIds -> Nat], NEW s \in SlotIds, NEW n \in Nat
    PROVE  /\ Total(w) \in Nat
           /\ Total([w EXCEPT ![s] = n]) = Total(w) - w[s] + n
<1> DEFINE v == [w EXCEPT ![s] = n]
<1>1. v \in [SlotIds -> Nat] /\ v[s] = n /\ \A k \in SlotIds : k # s => v[k] = w[k]
  OBVIOUS
<1> HIDE DEF v
<1>2. PICK f : Adds(f, w)
  BY TotalAdds
<1>3. PICK g : Adds(g, v)
  BY <1>1, TotalAdds
<1>4. MaxSlots \in Nat /\ SlotIds = 0 .. MaxSlots /\ s \in Nat /\ s <= MaxSlots
  BY BoundsAssumption DEF SlotIds
<1>5. \A k \in SlotIds : v[k] \in Nat /\ w[k] \in Nat /\ f[k] \in Nat /\ g[k] \in Nat
  <2>1. f \in [0 .. MaxSlots + 1 -> Nat] /\ g \in [0 .. MaxSlots + 1 -> Nat]
    BY <1>2, <1>3 DEF Adds
  <2>2. \A k \in SlotIds : k \in 0 .. MaxSlots + 1
    BY <1>4
  <2>3. QED  BY <1>1, <2>1, <2>2
<1> DEFINE S == {k \in Nat : k <= MaxSlots + 1 =>
                    g[k] = f[k] + (IF k <= s THEN 0 ELSE n - w[s])}
<1>6. 0 \in S
  BY <1>2, <1>3, <1>4 DEF Adds
<1>7. ASSUME NEW k \in Nat, k \in S PROVE k + 1 \in S
  <2>1. SUFFICES ASSUME k + 1 <= MaxSlots + 1
                 PROVE  g[k + 1] = f[k + 1] + (IF k + 1 <= s THEN 0 ELSE n - w[s])
    OBVIOUS
  <2>2. k \in SlotIds /\ g[k] = f[k] + (IF k <= s THEN 0 ELSE n - w[s])
    BY <1>4, <1>7, <2>1
  <2>3. g[k + 1] = g[k] + v[k] /\ f[k + 1] = f[k] + w[k]
    BY <1>2, <1>3, <2>2 DEF Adds
  <2> HIDE DEF S
  <2>4. v[k] \in Nat /\ w[k] \in Nat /\ f[k] \in Nat /\ g[k] \in Nat /\ w[s] \in Nat
    BY <1>5, <2>2
  <2>5. CASE k = s
    BY <1>1, <1>4, <2>2, <2>3, <2>4, <2>5
  <2>6. CASE k # s
    <3>1. v[k] = w[k] /\ (k + 1 <= s <=> k <= s)
      BY <1>1, <1>4, <2>2, <2>6
    <3>2. QED  BY <2>2, <2>3, <2>4, <3>1
  <2>7. QED  BY <2>5, <2>6
<1> HIDE DEF S
<1>8. MaxSlots + 1 \in S
  BY <1>4, <1>6, <1>7, SetInduction
<1>9. g[MaxSlots + 1] = f[MaxSlots + 1] + (n - w[s]) /\ f[MaxSlots + 1] \in Nat
  BY <1>2, <1>4, <1>8 DEF S, Adds
<1>10. QED  BY <1>2, <1>3, <1>5, <1>9 DEF Adds, v

\* An empty page has no footprint.
LEMMA TotalOfNothing ==
    ASSUME NEW w, w = [s \in SlotIds |-> 0]
    PROVE  Total(w) = 0
<1>1. w \in [SlotIds -> Nat] /\ \A k \in SlotIds : w[k] = 0
  OBVIOUS
<1>2. PICK f : Adds(f, w)
  BY <1>1, TotalAdds
<1>3. MaxSlots \in Nat /\ SlotIds = 0 .. MaxSlots
  BY BoundsAssumption DEF SlotIds
<1> DEFINE S == {k \in Nat : k <= MaxSlots + 1 => f[k] = 0}
<1>4. 0 \in S
  BY <1>2 DEF Adds
<1>5. ASSUME NEW k \in Nat, k \in S PROVE k + 1 \in S
  <2>1. SUFFICES ASSUME k + 1 <= MaxSlots + 1 PROVE f[k + 1] = 0
    OBVIOUS
  <2>2. k \in SlotIds /\ f[k] = 0
    BY <1>3, <1>5, <2>1
  <2>3. QED  BY <1>1, <1>2, <2>2 DEF Adds
<1> HIDE DEF S
<1>6. MaxSlots + 1 \in S
  BY <1>3, <1>4, <1>5, SetInduction
<1>7. QED  BY <1>2, <1>3, <1>6 DEF S, Adds

\* Footprints are natural numbers on a page that is well formed.
LEMMA FootprintTyped ==
    ASSUME PageInvariant, damage = {}
    PROVE  /\ Footprint \in [SlotIds -> Nat]
           /\ Total(Footprint) \in Nat
           /\ slotOffset \in Nat /\ freeSpace \in Nat /\ PageWords \in Nat
<1>1. \A s \in live : image[s] \in Records
  BY DEF PageInvariant, Undamaged, ImagesAbove, Intact
<1>2. ASSUME NEW s \in SlotIds
      PROVE  (IF s \in live THEN RecordWords + Size[image[s]] ELSE 0) \in Nat
  BY <1>1, SizeAssumption DEF RecordWords
<1>3. Footprint \in [SlotIds -> Nat]
  BY <1>2 DEF Footprint
<1>4. 0 \in SlotIds
  BY BoundsAssumption DEF SlotIds
<1>5. Total(Footprint) \in Nat
  BY <1>3, <1>4, TotalChanges
<1>6. QED  BY <1>3, <1>5, PageAssumption DEF PageInvariant, TypeOK, HeaderWords

\* A freshly formatted page offers all its words behind the header.
LEMMA InitSpace == Init => SpaceInvariant
<1> SUFFICES ASSUME Init PROVE SpaceAccounted
  BY DEF SpaceInvariant
<1>1. Footprint = [s \in SlotIds |-> 0]
  BY DEF Init, Footprint
<1>2. Total(Footprint) = 0
  BY <1>1, TotalOfNothing
<1>3. QED  BY <1>2, PageAssumption DEF Init, SpaceAccounted, HeaderWords

\* What neither touches the live images nor the header's space keeps the account.
LEMMA SpaceKept ==
    ASSUME PageInvariant, SpaceInvariant, damage' = {} => damage = {},
           UNCHANGED <<slotOffset, freeSpace, image, live>>,
           pc \notin {"freeOffset", "charge"}, pc' \notin {"flag", "credit"}
    PROVE  SpaceInvariant'
<1> SUFFICES ASSUME damage' = {} PROVE SpaceAccounted'
  BY DEF SpaceInvariant
<1>1. damage = {} /\ SpaceAccounted
  BY DEF SpaceInvariant
<1>2. Footprint' = Footprint
  BY DEF Footprint
<1>3. Total(Footprint)' = Total(Footprint)
  BY <1>2 DEF Total
<1>4. Total(Footprint) \in Nat /\ slotOffset \in Nat /\ freeSpace \in Nat /\ PageWords \in Nat
  BY <1>1, FootprintTyped
<1>5. QED  BY <1>1, <1>3, <1>4 DEF SpaceAccounted, SlotWords

\* CopyRecord writes the image of a slot that is not live yet.
LEMMA CopyRecordSpace ==
    ASSUME PageInvariant, SpaceInvariant, CopyRecord PROVE SpaceInvariant'
<1> SUFFICES ASSUME damage' = {} PROVE SpaceAccounted'
  BY DEF SpaceInvariant
<1>1. damage = {} /\ SpaceAccounted
  BY DEF SpaceInvariant, CopyRecord
<1>2. numSlots \notin live /\ image' = [image EXCEPT ![numSlots] = cur] /\ live' = live
  BY <1>1 DEF CopyRecord, PageInvariant, Undamaged, ImagesAbove, Intact, TypeOK, SlotIds
<1>3. Footprint' = Footprint
  BY <1>2 DEF Footprint, PageInvariant, TypeOK
<1>4. Total(Footprint)' = Total(Footprint)
  BY <1>3 DEF Total
<1>5. QED  BY <1>1, <1>4 DEF SpaceAccounted, SlotWords, CopyRecord, header

\* The slot list grows before insert is charged for it.
LEMMA AdvanceSlotOffsetSpace ==
    ASSUME PageInvariant, SpaceInvariant, AdvanceSlotOffset PROVE SpaceInvariant'
<1> SUFFICES ASSUME damage' = {} PROVE SpaceAccounted'
  BY DEF SpaceInvariant
<1>1. damage = {} /\ SpaceAccounted
  BY DEF SpaceInvariant, AdvanceSlotOffset, ghosts
<1>2. Total(Footprint)' = Total(Footprint)
  <2>1. Footprint' = Footprint
    BY DEF Footprint, AdvanceSlotOffset, ghosts
  <2>2. QED  BY <2>1 DEF Total
<1>3. Total(Footprint) \in Nat /\ slotOffset \in Nat /\ freeSpace \in Nat /\ PageWords \in Nat
  BY <1>1, FootprintTyped
<1>4. QED  BY <1>1, <1>2, <1>3 DEF SpaceAccounted, SlotWords, AdvanceSlotOffset

LEMMA LowerFreeOffsetSpace ==
    ASSUME PageInvariant, SpaceInvariant, LowerFreeOffset PROVE SpaceInvariant'
<1> SUFFICES ASSUME damage' = {} PROVE SpaceAccounted'
  BY DEF SpaceInvariant
<1>1. damage = {} /\ SpaceAccounted
  BY DEF SpaceInvariant, LowerFreeOffset, ghosts
<1>2. Total(Footprint)' = Total(Footprint)
  <2>1. Footprint' = Footprint
    BY DEF Footprint, LowerFreeOffset, ghosts
  <2>2. QED  BY <2>1 DEF Total
<1>3. QED  BY <1>1, <1>2 DEF SpaceAccounted, LowerFreeOffset

\* The charge is the image, which becomes live, and the slot.
LEMMA ChargeFreeSpaceSpace ==
    ASSUME PageInvariant, SpaceInvariant, ChargeFreeSpace PROVE SpaceInvariant'
<1> SUFFICES ASSUME damage' = {} PROVE SpaceAccounted'
  BY DEF SpaceInvariant
<1>1. damage = {} /\ SpaceAccounted /\ pc = "charge"
  BY DEF SpaceInvariant, ChargeFreeSpace
<1>2. /\ rid \in SlotIds /\ rid \notin live
      /\ image[rid] = cur /\ cur \in Records
      /\ Size[cur] \in Nat /\ Need(cur) = Size[cur] + 3
  BY <1>1, NeedType DEF PageInvariant, Undamaged, SlotsAccounted, ImagePending, Counted, TypeOK,
     Progress, Inserting, Need, RecordWords, SlotWords
<1>3. /\ Footprint \in [SlotIds -> Nat] /\ Total(Footprint) \in Nat
      /\ slotOffset \in Nat /\ freeSpace \in Nat /\ PageWords \in Nat
  BY <1>1, FootprintTyped
<1>4. Footprint' = [Footprint EXCEPT ![rid] = RecordWords + Size[cur]]
  BY <1>2 DEF Footprint, ChargeFreeSpace
<1>5. Footprint[rid] = 0
  BY <1>2 DEF Footprint
<1>6. Total(Footprint') = Total(Footprint) - 0 + (RecordWords + Size[cur])
  <2>1. RecordWords + Size[cur] \in Nat
    BY <1>2 DEF RecordWords
  <2>2. QED  BY <1>2, <1>3, <1>4, <1>5, <2>1, TotalChanges
<1>7. Total(Footprint)' = Total(Footprint')
  BY DEF Total
<1>8. freeSpace' = freeSpace - (Size[cur] + 3) /\ slotOffset' = slotOffset /\ pc' = "idle"
  BY <1>2 DEF ChargeFreeSpace, Done
<1>9. QED  BY <1>1, <1>2, <1>3, <1>6, <1>7, <1>8 DEF SpaceAccounted, SlotWords, RecordWords

\* A record that loses its slot leaves its image to be given back.
LEMMA RemoveSlotSpace ==
    ASSUME PageInvariant, SpaceInvariant, NEW s \in SlotIds, RemoveSlot(s) PROVE SpaceInvariant'
<1> SUFFICES ASSUME damage' = {} PROVE SpaceAccounted'
  BY DEF SpaceInvariant
<1>1. damage = {} /\ SpaceAccounted /\ pc = "idle"
  BY DEF SpaceInvariant, RemoveSlot
<1>2. s \in live /\ Intact(s)
  BY <1>1 DEF RemoveSlot, PageInvariant, Undamaged, SlotsAccounted, ImagesAbove
<1>3. Size[image[s]] \in Nat /\ image[s] \in Records
  BY <1>2, SizeAssumption DEF Intact
<1>4. mem[slot[s]] = <<s, 0>> /\ slot[s] < PageWords
  <2>1. slot[s] \in Int /\ slot[s] + 0 = slot[s]
    BY <1>2, PageAssumption DEF Intact, PageInvariant, TypeOK, Offsets, Empty
  <2>2. 0 \in 0 .. RecordWords + Size[image[s]] - 1
    BY <1>3 DEF RecordWords
  <2>3. mem[slot[s] + 0] = <<s, 0>>
    BY <1>2, <2>2 DEF Intact
  <2>4. QED  BY <1>2, <1>3, <2>1, <2>3, PageAssumption DEF Intact, RecordWords
<1>5. /\ slot[s] # Empty /\ ~(s > numSlots)
      /\ live' = live \ {s} /\ right' = slot[s] /\ rid' = s /\ pc' = "flag" /\ image' = image
      /\ UNCHANGED <<mem, slotOffset, freeSpace>>
  BY <1>2, BoundsAssumption DEF RemoveSlot, Intact, header, PageInvariant, TypeOK, SlotIds
<1>6. /\ Footprint \in [SlotIds -> Nat] /\ Total(Footprint) \in Nat
      /\ slotOffset \in Nat /\ freeSpace \in Nat /\ PageWords \in Nat
  BY <1>1, FootprintTyped
<1>7. Footprint' = [Footprint EXCEPT ![s] = 0]
  BY <1>5 DEF Footprint
<1>8. Footprint[s] = RecordWords + Size[image[s]]
  BY <1>2 DEF Footprint
<1>9. Total(Footprint)' = Total(Footprint) - (RecordWords + Size[image[s]]) + 0
  <2>1. Total(Footprint') = Total(Footprint) - (RecordWords + Size[image[s]]) + 0
    <3>1. Total([Footprint EXCEPT ![s] = 0]) = Total(Footprint) - Footprint[s] + 0
      BY <1>6, TotalChanges
    <3>2. QED  BY <1>7, <1>8, <3>1
  <2>2. QED  BY <2>1 DEF Total
<1>10. slotOffset + Total(Footprint) + freeSpace <= PageWords
  BY <1>1, <1>6 DEF SpaceAccounted
<1>11. QED
  BY <1>3, <1>4, <1>5, <1>6, <1>9, <1>10 DEF SpaceAccounted, SizeWord, RecordWords, SlotWords

\* The flag is not the word that holds the size.
LEMMA DropRecordSpace ==
    ASSUME PageInvariant, SpaceInvariant, DropRecord PROVE SpaceInvariant'
<1> SUFFICES ASSUME damage' = {} PROVE SpaceAccounted'
  BY DEF SpaceInvariant
<1>1. damage = {} /\ SpaceAccounted /\ pc = "flag"
  BY DEF SpaceInvariant, DropRecord, ghosts
<1>2. Total(Footprint)' = Total(Footprint)
  <2>1. Footprint' = Footprint
    BY DEF Footprint, DropRecord, ghosts
  <2>2. QED  BY <2>1 DEF Total
<1>3. mem'[right] = mem[right]
  <2>1. mem \in [Addresses -> Words] /\ right \in Addresses /\ right # right + 1
    BY <1>1, PageAssumption DEF PageInvariant, TypeOK, Offsets, Addresses, SpaceAccounted
  <2>2. mem' = mem \/ mem' = [mem EXCEPT ![right + 1] = DroppedWord(mem[right + 1][1])]
    BY DEF DropRecord
  <2>3. QED  BY <2>1, <2>2
<1>4. UNCHANGED <<slotOffset, freeSpace, right, rid, image>> /\ pc' \in {"credit", "wild"}
  BY DEF DropRecord, Wild, ghosts, header, loop
<1>5. /\ slotOffset + Total(Footprint) + freeSpace <= PageWords + 0
      /\ right < PageWords /\ mem[right] = SizeWord(rid) /\ image[rid] \in Records
      /\ slotOffset + Total(Footprint) + freeSpace + Size[image[rid]] <= PageWords
  BY <1>1 DEF SpaceAccounted
<1>6. mem'[right'] = mem[right] /\ SizeWord(rid)' = SizeWord(rid) /\ Size[image[rid]]' = Size[image[rid]]
  BY <1>3, <1>4 DEF SizeWord
<1>7. QED  BY <1>2, <1>4, <1>5, <1>6 DEF SpaceAccounted

\* What remove gives back is part of what its record occupied.
LEMMA CreditFreeSpaceSpace ==
    ASSUME PageInvariant, SpaceInvariant, CreditFreeSpace PROVE SpaceInvariant'
<1> SUFFICES ASSUME damage' = {} PROVE SpaceAccounted'
  BY DEF SpaceInvariant
<1>1. damage = {} /\ SpaceAccounted /\ pc = "credit"
  BY DEF SpaceInvariant, CreditFreeSpace, ghosts
<1>2. mem[right] = <<rid, 0>> /\ rid \in SlotIds /\ image[rid] \in Records
  BY <1>1 DEF SpaceAccounted, SizeWord, PageInvariant, TypeOK
<1>3. mem[right][1] = rid /\ \E s \in SlotIds : mem[right] = SizeWord(s)
  BY <1>2 DEF SizeWord
<1>4. freeSpace' = freeSpace + Size[image[rid]] /\ pc' = "idle" /\ slotOffset' = slotOffset
  BY <1>2, <1>3 DEF CreditFreeSpace, Done, Credit
<1>5. Total(Footprint)' = Total(Footprint)
  <2>1. Footprint' = Footprint
    BY DEF Footprint, CreditFreeSpace, ghosts
  <2>2. QED  BY <2>1 DEF Total
<1>6. Size[image[rid]] \in Nat
  BY <1>2, SizeAssumption
<1>7. /\ Total(Footprint) \in Nat
      /\ slotOffset \in Nat /\ freeSpace \in Nat /\ PageWords \in Nat
  BY <1>1, FootprintTyped
<1>8. slotOffset + Total(Footprint) + freeSpace + Size[image[rid]] <= PageWords
  BY <1>1 DEF SpaceAccounted
<1>9. QED  BY <1>4, <1>5, <1>6, <1>7, <1>8 DEF SpaceAccounted, SlotWords

\* A crash leaves what was to be given back unused; between the advance of
\* _slotOffset and the charge it tears the page.
LEMMA CrashSpace ==
    ASSUME PageInvariant, SpaceInvariant, Crash PROVE SpaceInvariant'
<1>1. ASSUME damage' = {} PROVE pc \notin {"freeOffset", "charge"} /\ damage = {}
  BY <1>1 DEF Crash
<1>2. CASE pc \in {"freeOffset", "charge"}
  BY <1>1, <1>2 DEF SpaceInvariant
<1>3. CASE pc \notin {"freeOffset", "charge"}
  <2>1. UNCHANGED <<slotOffset, freeSpace, image, live>> /\ pc' = "idle"
    BY DEF Crash, Done, page, header
  <2>2. QED  BY <1>1, <1>3, <2>1, SpaceKept
<1>4. QED  BY <1>2, <1>3

\* Every step keeps the account of the space.
LEMMA NextSpace == PageInvariant /\ SpaceInvariant /\ [Next]_vars => SpaceInvariant'
<1> SUFFICES ASSUME PageInvariant, SpaceInvariant, [Next]_vars PROVE SpaceInvariant'
  OBVIOUS
<1>1. CASE UNCHANGED vars
  <2>1. Total(Footprint)' = Total(Footprint)
    <3>1. Footprint' = Footprint
      BY <1>1 DEF Footprint, vars, ghosts
    <3>2. QED  BY <3>1 DEF Total
  <2>2. QED
    BY <1>1, <2>1 DEF vars, page, header, loop, ghosts, SpaceInvariant, SpaceAccounted
<1>2. CASE \E r \in Records : InsertBegin(r)
  <2>1. PICK r \in Records : InsertBegin(r)
    BY <1>2
  <2>2. QED  BY <2>1, SpaceKept DEF InsertBegin, page, header, ghosts
<1>3. CASE RecoverHole
  BY <1>3, SpaceKept DEF RecoverHole, page, header, ghosts
<1>4. CASE RecoverRecord
  BY <1>4 DEF RecoverRecord, SpaceInvariant
<1>5. CASE RecoverEnd
  BY <1>5, SpaceKept DEF RecoverEnd, ghosts
<1>6. CASE CheckSpace
  BY <1>6, SpaceKept DEF CheckSpace, Done, page, header, ghosts
<1>7. CASE AppendSlot
  BY <1>7, SpaceKept DEF AppendSlot, header, ghosts
<1>8. CASE CountSlot
  BY <1>8, SpaceKept DEF CountSlot, ghosts
<1>9. CASE \E s \in SlotIds : Find(s)
  <2>1. PICK s \in SlotIds : Find(s)
    BY <1>9
  <2>2. QED  BY <2>1, SpaceKept DEF Find, page, header, ghosts
<1>10. CASE \E s \in SlotIds : RemoveSlot(s)
  BY <1>10, RemoveSlotSpace
<1>11. QED
  BY <1>1, <1>2, <1>3, <1>4, <1>5, <1>6, <1>7, <1>8, <1>9, <1>10, CopyRecordSpace,
     AdvanceSlotOffsetSpace, LowerFreeOffsetSpace, ChargeFreeSpaceSpace, DropRecordSpace,
     CreditFreeSpaceSpace, CrashSpace DEF Next

\* Between operations, the free space of an undamaged page exists: the slots,
\* the images of the live records and _freeSpace fit on the page together,
\* whatever was inserted, removed and interrupted before.
THEOREM FreeSpaceExists == Spec => []FreeSpaceSound
<1>1. Spec => []SpaceInvariant
  BY InitSpace, NextSpace, PageIsWellFormed, PTL DEF Spec
<1>2. SpaceInvariant /\ PageInvariant => FreeSpaceSound
  <2> SUFFICES ASSUME SpaceInvariant, PageInvariant, damage = {}, pc = "idle"
               PROVE  slotOffset + Total(Footprint) + freeSpace <= PageWords
    BY DEF FreeSpaceSound
  <2>1. PageWords \in Nat
    BY PageAssumption
  <2>2. QED  BY <2>1 DEF SpaceInvariant, SpaceAccounted
<1>3. QED  BY <1>1, <1>2, PageIsWellFormed, PTL
=============================================================================
