------------------------- MODULE FrameTransferProofs -------------------------
(***************************************************************************)
(* Theorems about FrameTransfer, for every BufferSize and MaxFrames: type  *)
(* correctness, exact delivery and slot ownership up to the first reported *)
(* overflow, and that the two loops implement FrameChannel.                *)
(***************************************************************************)
EXTENDS FrameTransfer, TLAPS

\* The index arithmetic of the ring, without the modulo.
LEMMA NextIndex ==
  ASSUME NEW i \in SlotIndex
  PROVE  /\ (i + 1) % BufferSize \in SlotIndex
         /\ i + 1 < BufferSize => (i + 1) % BufferSize = i + 1
         /\ i + 1 = BufferSize => (i + 1) % BufferSize = 0
  BY BufferSizeAssumption DEF SlotIndex

-----------------------------------------------------------------------------

\* Every variable keeps its type (the state of FrameBuffer and of the two
\* loops in Assembly).
THEOREM TypeCorrect == Spec => []TypeOK
<1>1. Init => TypeOK
  BY BufferSizeAssumption DEF Init, BufferInit, TypeOK, SlotIndex, Blank
<1>2. TypeOK /\ [Next]_vars => TypeOK'
  <2> SUFFICES ASSUME TypeOK, [Next]_vars PROVE TypeOK'
    OBVIOUS
  <2> USE DEF TypeOK
  <2>1. CASE BeginReceive
    BY <2>1 DEF BeginReceive, Store, readerVars, Torn
  <2>2. CASE EndReceive
    BY <2>2 DEF EndReceive, Store, readerVars
  <2>3. CASE Publish
    BY <2>3, NextIndex DEF Publish, FinishWrite, readerVars
  <2>4. CASE Acquire
    BY <2>4 DEF Acquire, bufferVars, readerVars
  <2>5. CASE AcquireFails
    BY <2>5 DEF AcquireFails, bufferVars, readerVars
  <2>6. CASE TakeFrame
    BY <2>6 DEF TakeFrame, bufferVars, writerVars
  <2>7. CASE SkipFrame
    BY <2>7 DEF SkipFrame, bufferVars, writerVars
  <2>8. CASE Process
    BY <2>8 DEF Process, bufferVars, writerVars, Torn
  <2>9. CASE GiveBack
    BY <2>9, NextIndex DEF GiveBack, FinishRead, writerVars
  <2>10. CASE UNCHANGED vars
    BY <2>10 DEF vars, bufferVars, writerVars, readerVars
  <2>11. QED
    BY <2>1, <2>2, <2>3, <2>4, <2>5, <2>6, <2>7, <2>8, <2>9, <2>10
       DEF Next, Writer, Reader
<1>3. QED
  BY <1>1, <1>2, PTL DEF Spec

-----------------------------------------------------------------------------
(* Distances on the ring, before and after an index moves by one.  From here *)
(* on the proofs use these facts and not the definitions of Ahead.           *)

LEMMA Distances ==
  ASSUME TypeOK
  PROVE  /\ \A s \in SlotIndex : Ahead(s) \in 0 .. BufferSize - 1
         /\ \A s \in SlotIndex : Ahead(s) = 0 <=> s = readIndex
         /\ \A s, t \in SlotIndex : Ahead(s) = Ahead(t) => s = t
         /\ Published \in 0 .. BufferSize
         /\ HasFrame <=> Published > 0
  BY BufferSizeAssumption DEF TypeOK, SlotIndex, Ahead, Published, HasFrame

\* The same after a step; Offset is Ahead on plain numbers.
Offset(N, r, s) == IF s >= r THEN s - r ELSE s - r + N

LEMMA OffsetRange ==
  ASSUME NEW N \in Nat \ {0}, NEW r \in 0 .. N - 1, NEW s \in 0 .. N - 1
  PROVE  Offset(N, r, s) \in 0 .. N - 1 /\ (Offset(N, r, s) = 0 <=> s = r)
  BY DEF Offset

LEMMA DistancesAfter ==
  ASSUME TypeOK'
  PROVE  /\ \A s \in SlotIndex : Ahead(s)' \in 0 .. BufferSize - 1
         /\ Published' > 0 => HasFrame'
<1>1. /\ BufferSize \in Nat \ {0}
      /\ writeIndex' \in SlotIndex
      /\ readIndex' \in SlotIndex
      /\ full' \in BOOLEAN
  BY BufferSizeAssumption DEF TypeOK
<1>2. \A s : Ahead(s)' = Offset(BufferSize, readIndex', s)
  BY DEF Ahead, Offset
<1>3. \A s \in SlotIndex : Ahead(s)' \in 0 .. BufferSize - 1 /\ (Ahead(s)' = 0 <=> s = readIndex')
  BY <1>1, <1>2, OffsetRange, Zenon DEF SlotIndex
<1>4. Published' = IF full' THEN BufferSize ELSE Ahead(writeIndex)'
  BY DEF Published
<1>5. ~full' /\ writeIndex' = readIndex' => Ahead(writeIndex)' = 0
  <2>1. Ahead(writeIndex)' = Offset(BufferSize, readIndex', writeIndex')
    BY DEF Ahead, Offset
  <2>2. QED
    BY <1>1, <2>1, OffsetRange, Zenon DEF SlotIndex
<1>6. Published' > 0 => HasFrame'
  <2>1. CASE ~full' /\ writeIndex' = readIndex'
    BY <1>4, <1>5, <2>1
  <2>2. QED
    BY <2>1, <1>1, Zenon DEF HasFrame
<1>7. QED
  BY <1>3, <1>6

\* The two frame counts are integers.
LEMMA Counts ==
  ASSUME TypeOK
  PROVE  /\ Completed \in Int
         /\ Consumed \in Int
         /\ Len(delivered) \in Nat
         /\ rpc # "finish" => Consumed = Len(delivered)
         /\ Consumed <= Len(delivered) /\ Len(delivered) <= Consumed + 1
         /\ wpc # "publish" => Completed = received
         /\ Completed <= received
<1>1. Len(delivered) \in Nat /\ received \in Nat
  BY DEF TypeOK
<1>2. QED
  BY <1>1 DEF Completed, Consumed

\* finishWrite on a ring that is not full publishes one slot, the one at
\* writeIndex, and moves no other.
LEMMA PublishOne ==
  ASSUME TypeOK, FinishWrite, ~full
  PROVE  /\ \A s \in SlotIndex : Ahead(s)' = Ahead(s)
         /\ Published' = Published + 1
         /\ Published = Ahead(writeIndex)
         /\ full' => writeIndex' = readIndex'
<1>1. /\ BufferSize \in Nat \ {0}
      /\ writeIndex \in 0 .. BufferSize - 1
      /\ readIndex \in 0 .. BufferSize - 1
      /\ full \in BOOLEAN
  BY BufferSizeAssumption DEF TypeOK, SlotIndex
<1>2. /\ writeIndex' = IF writeIndex + 1 = BufferSize THEN 0 ELSE writeIndex + 1
      /\ readIndex' = readIndex
      /\ full' = (writeIndex' = readIndex)
  <2>1. writeIndex + 1 = BufferSize \/ writeIndex + 1 < BufferSize
    BY <1>1
  <2>2. QED
    BY <1>1, <2>1, NextIndex DEF FinishWrite, SlotIndex
<1>3. \A s \in SlotIndex : Ahead(s)' = Ahead(s)
  BY <1>2 DEF Ahead
<1>4. Published = Ahead(writeIndex)
  BY <1>1 DEF Published
<1>5. Published' = Published + 1
  <2>1. CASE writeIndex' = readIndex
    <3>1. Published' = BufferSize
      BY <1>2, <2>1 DEF Published
    <3>2. Ahead(writeIndex) = BufferSize - 1
      BY <1>1, <1>2, <2>1 DEF Ahead
    <3>3. QED
      BY <1>1, <1>4, <3>1, <3>2
  <2>2. CASE writeIndex' # readIndex
    <3>1. Published' = Ahead(writeIndex)'
      BY <1>2, <2>2 DEF Published
    <3>2. QED
      BY <1>1, <1>2, <1>4, <2>2, <3>1 DEF Ahead
  <2>3. QED
    BY <2>1, <2>2
<1>6. QED
  BY <1>2, <1>3, <1>4, <1>5

\* finishRead on a ring with a frame gives back one slot, the one at
\* readIndex, and brings every other published one nearer by one.
LEMMA GiveBackOne ==
  ASSUME TypeOK, FinishRead, HasFrame, full => writeIndex = readIndex
  PROVE  /\ Published' = Published - 1
         /\ \A s \in SlotIndex : Ahead(s)' < Published' => Ahead(s) = Ahead(s)' + 1
<1>1. /\ BufferSize \in Nat \ {0}
      /\ writeIndex \in 0 .. BufferSize - 1
      /\ readIndex \in 0 .. BufferSize - 1
      /\ full \in BOOLEAN
  BY BufferSizeAssumption DEF TypeOK, SlotIndex
<1>2. /\ readIndex' = IF readIndex + 1 = BufferSize THEN 0 ELSE readIndex + 1
      /\ writeIndex' = writeIndex
      /\ full' = FALSE
  <2>1. readIndex + 1 = BufferSize \/ readIndex + 1 < BufferSize
    BY <1>1
  <2>2. QED
    BY <1>1, <2>1, NextIndex DEF FinishRead, SlotIndex
<1>3. Published' = Ahead(writeIndex)'
  BY <1>2 DEF Published
<1>4. Published' = Published - 1
  <2>1. CASE full
    BY <1>1, <1>2, <1>3, <2>1 DEF Published, Ahead
  <2>2. CASE ~full
    BY <1>1, <1>2, <1>3, <2>2 DEF Published, Ahead, HasFrame
  <2>3. QED
    BY <2>1, <2>2
<1>5. ASSUME NEW s \in SlotIndex, Ahead(s)' < Published'
      PROVE  Ahead(s) = Ahead(s)' + 1
  <2>1. s \in 0 .. BufferSize - 1
    BY <1>5 DEF SlotIndex
  <2>2. CASE s = readIndex
    <3>1. Ahead(s)' = BufferSize - 1
      BY <1>1, <1>2, <2>2 DEF Ahead
    <3>2. Published' <= BufferSize - 1
      BY <1>1, <1>2, <1>3 DEF Ahead
    <3>3. QED
      BY <1>1, <1>2, <1>3, <1>5, <3>1, <3>2 DEF Ahead
  <2>3. CASE s # readIndex
    BY <1>1, <1>2, <2>1, <2>3 DEF Ahead
  <2>4. QED
    BY <2>2, <2>3
<1>6. QED
  BY <1>4, <1>5

-----------------------------------------------------------------------------
(* The ring invariant is inductive. *)

LEMMA RingInvStep == TypeOK /\ TypeOK' /\ RingInv /\ [Next]_vars => RingInv'
<1> SUFFICES ASSUME TypeOK, TypeOK', RingInv, [Next]_vars, overflows' = 0
             PROVE  (RingAgrees /\ WriterAgrees /\ ReaderAgrees /\ ExactDelivery)'
  BY DEF RingInv
<1>1. CASE BeginReceive
  <2>1. overflows = 0 /\ RingAgrees /\ WriterAgrees /\ ReaderAgrees /\ ExactDelivery
    BY <1>1 DEF BeginReceive, RingInv
  <2>2. UNCHANGED <<writeIndex, readIndex, full, fr, received, overflows, readerVars>>
    BY <1>1 DEF BeginReceive
  <2>3. /\ Published' = Published /\ Completed' = Completed /\ Consumed' = Consumed
        /\ \A s \in SlotIndex : Ahead(s)' = Ahead(s)
    BY <1>1, <2>2 DEF BeginReceive, Published, Ahead, Completed, Consumed, readerVars
  <2>4. Ahead(fr) = Published /\ fr \in SlotIndex
    BY <1>1, <2>1 DEF BeginReceive, WriterAgrees, Published, TypeOK
  <2>5. \A s \in SlotIndex : s # fr => slots'[s] = slots[s]
    BY <1>1 DEF BeginReceive, Store, TypeOK
  <2>6. RingAgrees'
    BY <2>1, <2>2, <2>3, <2>4, <2>5, Distances DEF RingAgrees
  <2>7. WriterAgrees'
    BY <1>1, <2>1, <2>2 DEF BeginReceive, WriterAgrees
  <2>8. ReaderAgrees'
    <3>1. HasFrame' = HasFrame
      BY <2>2 DEF HasFrame
    <3>2. rpc = "copying" => readIndex # fr
      BY <2>1, <2>4, Distances DEF ReaderAgrees, TypeOK
    <3>3. QED
      BY <2>1, <2>2, <2>5, <3>1, <3>2 DEF ReaderAgrees, readerVars, TypeOK
  <2>9. ExactDelivery'
    BY <2>1, <2>2 DEF ExactDelivery, readerVars
  <2>10. QED
    BY <2>6, <2>7, <2>8, <2>9
<1>2. CASE EndReceive
  <2>1. overflows = 0 /\ RingAgrees /\ WriterAgrees /\ ReaderAgrees /\ ExactDelivery
    BY <1>2 DEF EndReceive, RingInv
  <2>2. UNCHANGED <<writeIndex, readIndex, full, fr, overflows, readerVars>>
    BY <1>2 DEF EndReceive
  <2>3. /\ Published' = Published /\ Completed' = Completed /\ Consumed' = Consumed
        /\ \A s \in SlotIndex : Ahead(s)' = Ahead(s)
    BY <1>2, <2>2 DEF EndReceive, Published, Ahead, Completed, Consumed, readerVars, TypeOK
  <2>4. Ahead(fr) = Published /\ fr \in SlotIndex
    BY <1>2, <2>1 DEF EndReceive, WriterAgrees, Published, TypeOK
  <2>5. /\ \A s \in SlotIndex : s # fr => slots'[s] = slots[s]
        /\ slots'[fr] = received'
    BY <1>2, <2>4 DEF EndReceive, Store, TypeOK
  <2>6. RingAgrees'
    BY <2>1, <2>2, <2>3, <2>4, <2>5, Distances DEF RingAgrees
  <2>7. WriterAgrees'
    BY <1>2, <2>1, <2>2, <2>5 DEF EndReceive, WriterAgrees
  <2>8. ReaderAgrees'
    <3>1. HasFrame' = HasFrame
      BY <2>2 DEF HasFrame
    <3>2. rpc = "copying" => readIndex # fr
      BY <2>1, <2>4, Distances DEF ReaderAgrees, TypeOK
    <3>3. QED
      BY <2>1, <2>2, <2>5, <3>1, <3>2 DEF ReaderAgrees, readerVars, TypeOK
  <2>9. ExactDelivery'
    BY <2>1, <2>2 DEF ExactDelivery, readerVars
  <2>10. QED
    BY <2>6, <2>7, <2>8, <2>9
<1>3. CASE Publish
  <2>1. overflows = 0 /\ RingAgrees /\ WriterAgrees /\ ReaderAgrees /\ ExactDelivery
    BY <1>3 DEF Publish, RingInv
  <2>2. UNCHANGED <<slots, fr, received, overflows, readerVars>> /\ FinishWrite
    BY <1>3 DEF Publish
  <2>3. ~full /\ fr = writeIndex /\ slots[fr] = received
    BY <1>3, <2>1 DEF Publish, WriterAgrees
  <2>4. /\ \A s \in SlotIndex : Ahead(s)' = Ahead(s)
        /\ Published' = Published + 1
        /\ Published = Ahead(fr)
        /\ full' => writeIndex' = readIndex'
    BY <2>2, <2>3, PublishOne
  <2>5. Completed' = Completed + 1 /\ Completed' = received /\ Consumed' = Consumed
    BY <1>3, <2>2 DEF Publish, Completed, Consumed, readerVars, TypeOK
  <2>6. RingAgrees'
    <3>1. Completed' - Consumed' = Published'
      BY <2>1, <2>4, <2>5, Distances, Counts DEF RingAgrees
    <3>2. ASSUME NEW s \in SlotIndex, Ahead(s)' < Published'
          PROVE  slots'[s] = Consumed' + 1 + Ahead(s)'
      <4>1. CASE Ahead(s) < Published
        BY <2>1, <2>2, <2>4, <2>5, <4>1 DEF RingAgrees
      <4>2. CASE s = fr
        <5>1. slots'[s] = Completed'
          BY <2>2, <2>3, <2>5, <4>2
        <5>2. Completed' = Consumed' + 1 + Ahead(s)'
          BY <2>1, <2>4, <2>5, <4>2, Distances, Counts DEF RingAgrees
        <5>3. QED
          BY <5>1, <5>2
      <4>3. Ahead(s) < Published \/ s = fr
        <5>1. fr \in SlotIndex /\ Ahead(s) \in Int /\ Published \in Int
          <6>1. fr \in SlotIndex
            BY DEF TypeOK
          <6>2. Ahead(s) \in 0 .. BufferSize - 1 /\ Published \in 0 .. BufferSize
            BY Distances
          <6> QED
            BY <6>1, <6>2
        <5>2. Ahead(s) < Published + 1
          BY <2>4, <3>2
        <5>3. Ahead(s) < Published \/ Ahead(s) = Ahead(fr)
          BY <2>4, <5>1, <5>2
        <5>4. QED
          BY <5>1, <5>3, Distances
      <4>4. QED
        BY <4>1, <4>2, <4>3
    <3>3. QED
      BY <2>4, <3>1, <3>2 DEF RingAgrees
  <2>7. WriterAgrees'
    BY <1>3 DEF Publish, WriterAgrees
  <2>8. ReaderAgrees'
    <3>1. HasFrame'
      BY <2>4, Distances, DistancesAfter
    <3>2. QED
      BY <2>1, <2>2, <3>1 DEF ReaderAgrees, readerVars, FinishWrite
  <2>9. ExactDelivery'
    BY <2>1, <2>2 DEF ExactDelivery, readerVars
  <2>10. QED
    BY <2>6, <2>7, <2>8, <2>9
<1>4. CASE Acquire
  <2>1. overflows = 0 /\ RingAgrees /\ WriterAgrees /\ ReaderAgrees /\ ExactDelivery
    BY <1>4 DEF Acquire, RingInv
  <2>2. UNCHANGED <<slots, writeIndex, readIndex, full, received, overflows, rpc, held,
                    delivered>>
    BY <1>4 DEF Acquire, bufferVars, readerVars
  <2>3. Completed' = Completed
    BY <1>4, <2>2 DEF Acquire, Completed
  <2>4. RingAgrees'
    BY <2>1, <2>2, <2>3 DEF RingAgrees, Consumed, Published, Ahead
  <2>5. WriterAgrees'
    BY <1>4, <2>2 DEF Acquire, WriterAgrees, WriteOverflow
  <2>6. ReaderAgrees'
    BY <2>1, <2>2 DEF ReaderAgrees, HasFrame
  <2>7. ExactDelivery'
    BY <2>1, <2>2 DEF ExactDelivery
  <2>8. QED
    BY <2>4, <2>5, <2>6, <2>7
<1>5. CASE AcquireFails
  BY <1>5 DEF AcquireFails, TypeOK
<1>6. CASE TakeFrame
  <2>1. overflows = 0 /\ RingAgrees /\ WriterAgrees /\ ReaderAgrees /\ ExactDelivery
    BY <1>6 DEF TakeFrame, writerVars, RingInv
  <2>2. UNCHANGED <<slots, writeIndex, readIndex, full, wpc, fr, received, overflows, delivered>>
    BY <1>6 DEF TakeFrame, bufferVars, writerVars
  <2>3. Consumed' = Consumed
    BY <1>6, <2>2 DEF TakeFrame, Consumed
  <2>4. RingAgrees'
    BY <2>1, <2>2, <2>3 DEF RingAgrees, Completed, Published, Ahead
  <2>5. WriterAgrees'
    BY <2>1, <2>2 DEF WriterAgrees
  <2>6. ReaderAgrees'
    BY <1>6, <2>2 DEF TakeFrame, ReaderAgrees, HasFrame
  <2>7. ExactDelivery'
    BY <2>1, <2>2 DEF ExactDelivery
  <2>8. QED
    BY <2>4, <2>5, <2>6, <2>7
<1>7. CASE SkipFrame
  <2>1. overflows = 0 /\ RingAgrees /\ WriterAgrees /\ ReaderAgrees /\ ExactDelivery
    BY <1>7 DEF SkipFrame, writerVars, RingInv
  <2>2. UNCHANGED <<slots, writeIndex, readIndex, full, wpc, fr, received, overflows, delivered>>
    BY <1>7 DEF SkipFrame, bufferVars, writerVars
  <2>3. Consumed' = Consumed
    BY <1>7, <2>2 DEF SkipFrame, Consumed
  <2>4. RingAgrees'
    BY <2>1, <2>2, <2>3 DEF RingAgrees, Completed, Published, Ahead
  <2>5. WriterAgrees'
    BY <2>1, <2>2 DEF WriterAgrees
  <2>6. ReaderAgrees'
    BY <1>7 DEF SkipFrame, ReaderAgrees
  <2>7. ExactDelivery'
    BY <2>1, <2>2 DEF ExactDelivery
  <2>8. QED
    BY <2>4, <2>5, <2>6, <2>7
<1>8. CASE Process
  <2>1. overflows = 0 /\ RingAgrees /\ WriterAgrees /\ ReaderAgrees /\ ExactDelivery
    BY <1>8 DEF Process, writerVars, RingInv
  <2>2. UNCHANGED <<slots, writeIndex, readIndex, full, wpc, fr, received, overflows>>
    BY <1>8 DEF Process, bufferVars, writerVars
  <2>3. slots[readIndex] = Len(delivered) + 1
    <3>1. readIndex \in SlotIndex /\ Ahead(readIndex) = 0 /\ Published > 0
      BY <1>8, <2>1, Distances DEF Process, ReaderAgrees, TypeOK
    <3>2. Consumed = Len(delivered) /\ Consumed \in Int
      BY <1>8, Counts DEF Process
    <3>3. QED
      BY <2>1, <3>1, <3>2 DEF RingAgrees
  <2>4. delivered' = Append(delivered, Len(delivered) + 1)
    BY <1>8, <2>1, <2>3 DEF Process, ReaderAgrees
  <2>5. Consumed' = Consumed
    BY <1>8, <2>4 DEF Process, Consumed, TypeOK
  <2>6. RingAgrees'
    BY <2>1, <2>2, <2>5 DEF RingAgrees, Completed, Published, Ahead
  <2>7. WriterAgrees'
    BY <2>1, <2>2 DEF WriterAgrees
  <2>8. ReaderAgrees'
    BY <1>8, <2>1, <2>2 DEF Process, ReaderAgrees, HasFrame
  <2>9. ExactDelivery'
    <3>1. delivered \in Seq(Int) /\ Len(delivered) \in Nat
      BY DEF TypeOK
    <3>2. /\ Len(delivered') = Len(delivered) + 1
          /\ delivered'[Len(delivered) + 1] = Len(delivered) + 1
          /\ \A k \in 1 .. Len(delivered) : delivered'[k] = delivered[k]
      BY <2>4, <3>1
    <3>3. \A k \in 1 .. Len(delivered) : delivered[k] = k
      BY <2>1 DEF ExactDelivery
    <3>4. \A k \in 1 .. Len(delivered) + 1 : k \in 1 .. Len(delivered) \/ k = Len(delivered) + 1
      BY <3>1
    <3> QED
      BY <3>2, <3>3, <3>4 DEF ExactDelivery
  <2>10. QED
    BY <2>6, <2>7, <2>8, <2>9
<1>9. CASE GiveBack
  <2>1. overflows = 0 /\ RingAgrees /\ WriterAgrees /\ ReaderAgrees /\ ExactDelivery
    BY <1>9 DEF GiveBack, writerVars, RingInv
  <2>2. UNCHANGED <<slots, wpc, fr, received, overflows, held, delivered>> /\ FinishRead
    BY <1>9 DEF GiveBack, writerVars
  <2>3. HasFrame /\ (full => writeIndex = readIndex)
    BY <1>9, <2>1 DEF GiveBack, ReaderAgrees, RingAgrees
  <2>4. /\ Published' = Published - 1
        /\ \A s \in SlotIndex : Ahead(s)' < Published' => Ahead(s) = Ahead(s)' + 1
    BY <2>2, <2>3, GiveBackOne
  <2>5. Consumed' = Consumed + 1 /\ Completed' = Completed
    BY <1>9, <2>2 DEF GiveBack, Consumed, Completed, TypeOK
  <2>6. \A s \in SlotIndex : Ahead(s)' \in 0 .. BufferSize - 1
    BY DistancesAfter
  <2>7. RingAgrees'
    <3>1. ~full'
      BY <2>2 DEF FinishRead
    <3>2. Completed' - Consumed' = Published'
      BY <2>1, <2>4, <2>5, Distances, Counts DEF RingAgrees
    <3>3. ASSUME NEW s \in SlotIndex, Ahead(s)' < Published'
          PROVE  slots'[s] = Consumed' + 1 + Ahead(s)'
      <4>1. Ahead(s) = Ahead(s)' + 1 /\ Ahead(s) < Published
        BY <2>4, <2>6, <3>3, Distances
      <4>2. slots[s] = Consumed + 1 + Ahead(s)
        BY <2>1, <4>1 DEF RingAgrees
      <4>3. QED
        BY <2>2, <2>5, <2>6, <4>1, <4>2, Counts
    <3>4. QED
      BY <3>1, <3>2, <3>3 DEF RingAgrees
  <2>8. WriterAgrees'
    BY <2>1, <2>2 DEF WriterAgrees, FinishRead
  <2>9. ReaderAgrees'
    BY <1>9 DEF GiveBack, ReaderAgrees
  <2>10. ExactDelivery'
    BY <2>1, <2>2 DEF ExactDelivery
  <2>11. QED
    BY <2>7, <2>8, <2>9, <2>10
<1>10. CASE UNCHANGED vars
  BY <1>10 DEF vars, bufferVars, writerVars, readerVars, RingInv, RingAgrees,
     WriterAgrees, ReaderAgrees, ExactDelivery, Completed, Consumed, Published,
     Ahead, HasFrame
<1>11. QED
  BY <1>1, <1>2, <1>3, <1>4, <1>5, <1>6, <1>7, <1>8, <1>9, <1>10
     DEF Next, Writer, Reader

\* Up to the first overflow the ring and the two threads agree.
THEOREM RingCorrect == Spec => []RingInv
<1>1. Init => RingInv
  <2> SUFFICES ASSUME Init PROVE RingInv
    OBVIOUS
  <2>1. RingAgrees
    <3>1. Published = 0 /\ Completed = 0 /\ Consumed = 0
      BY BufferSizeAssumption
         DEF Init, BufferInit, Published, Ahead, Completed, Consumed
    <3>2. \A s \in SlotIndex : ~(Ahead(s) < 0)
      BY BufferSizeAssumption DEF Init, BufferInit, Ahead, SlotIndex
    <3>3. QED
      BY <3>1, <3>2 DEF Init, BufferInit, RingAgrees
  <2>2. WriterAgrees /\ ReaderAgrees /\ ExactDelivery
    BY DEF Init, BufferInit, WriterAgrees, ReaderAgrees, ExactDelivery
  <2>3. QED
    BY <2>1, <2>2 DEF RingInv
<1>2. QED
  BY <1>1, RingInvStep, TypeCorrect, PTL DEF Spec

\* Up to the first overflow the filters get every frame once, in order and
\* whole, whatever the size of the ring and however the threads interleave.
THEOREM DeliveryExact == Spec => []ExactDelivery
<1>1. RingInv => ExactDelivery
  BY DEF RingInv, ExactDelivery
<1>2. QED
  BY <1>1, RingCorrect, PTL

\* Up to the first overflow the receiving thread never writes into a frame
\* that the processing thread still has to read.
THEOREM WriterSlotFree == Spec => []WriterOwnsItsSlot
<1>1. TypeOK /\ RingInv => WriterOwnsItsSlot
  <2> SUFFICES ASSUME TypeOK, RingInv, overflows = 0, wpc \in {"receive", "filling"}
               PROVE  Ahead(fr) >= Published
    BY DEF WriterOwnsItsSlot
  <2>1. fr = writeIndex /\ ~full
    BY DEF RingInv, WriterAgrees
  <2>2. Ahead(fr) = Published /\ Published \in Int
    BY <2>1, Distances DEF Published
  <2>3. QED
    BY <2>2
<1>2. QED
  BY <1>1, TypeCorrect, RingCorrect, PTL

\* The two loops and the ring between them are a bounded channel that is
\* exact until it reports an overflow: every step is a step of FrameChannel.
THEOREM ImplementsChannel == Spec => ChannelSpec
<1>1. Init => Channel!Init
  BY DEF Init, Channel!Init
<1>2. TypeOK /\ RingInv /\ [Next]_vars => [Channel!Next]_(Channel!chanVars)
  <2> SUFFICES ASSUME TypeOK, RingInv, [Next]_vars
               PROVE  Channel!Next \/ UNCHANGED Channel!chanVars
    OBVIOUS
  <2>1. /\ Len(delivered) \in Nat /\ received \in Nat /\ overflows \in Nat
        /\ BufferSize \in Nat \ {0}
    BY BufferSizeAssumption DEF TypeOK
  <2>2. CASE EndReceive
    <3>1. received' = received + 1 /\ UNCHANGED <<delivered, overflows>>
      BY <2>2 DEF EndReceive, readerVars
    <3>2. ASSUME overflows = 0 PROVE received - Len(delivered) < BufferSize
      <4>1. Published = Ahead(writeIndex) /\ received - Consumed = Published
        BY <2>2, <3>2, Counts DEF EndReceive, RingInv, RingAgrees, WriterAgrees, Published
      <4>2. Published < BufferSize
        BY <4>1, <2>1, Distances DEF TypeOK
      <4>3. QED
        BY <2>1, <4>1, <4>2, Counts
    <3>3. QED
      BY <2>1, <3>1, <3>2 DEF Channel!Next, Channel!Send
  <2>3. CASE AcquireFails
    <3>1. overflows' = overflows + 1 /\ UNCHANGED <<received, delivered>> /\ full
      BY <2>3 DEF AcquireFails, readerVars, WriteOverflow
    <3>2. CASE overflows = 0
      <4>1. received - Consumed = BufferSize
        BY <2>3, <3>1, <3>2, Counts DEF AcquireFails, RingInv, RingAgrees, Published
      <4>2. received - Len(delivered) >= BufferSize - 1
        BY <2>1, <4>1, Counts
      <4>3. (overflows' > 0) = TRUE
        BY <2>1, <3>1
      <4>4. QED
        BY <3>1, <4>2, <4>3 DEF Channel!Next, Channel!Overflow
    <3>3. CASE overflows # 0
      <4>1. (overflows' > 0) = (overflows > 0)
        BY <2>1, <3>1, <3>3
      <4>2. QED
        BY <3>1, <4>1 DEF Channel!chanVars
    <3>4. QED
      BY <3>2, <3>3
  <2>4. CASE Process
    <3>1. UNCHANGED <<received, overflows>>
      BY <2>4 DEF Process, writerVars
    <3>2. CASE overflows = 0
      <4>1. HasFrame /\ held = slots[readIndex] /\ RingAgrees
        BY <2>4, <3>2 DEF Process, RingInv, ReaderAgrees
      <4>2. readIndex \in SlotIndex /\ Ahead(readIndex) = 0 /\ Published > 0
        BY <4>1, Distances DEF TypeOK
      <4>3. Consumed = Len(delivered) /\ Consumed \in Int
        BY <2>4, Counts DEF Process
      <4>4. held = Len(delivered) + 1
        BY <4>1, <4>2, <4>3 DEF RingAgrees
      <4>5. delivered' = Append(delivered, Len(delivered) + 1)
        BY <2>4, <4>1, <4>4 DEF Process
      <4>6. Len(delivered) < received
        <5>1. Completed - Len(delivered) > 0
          BY <4>1, <4>2, <4>3 DEF RingAgrees
        <5>2. QED
          BY <2>1, <5>1, Counts
      <4>7. QED
        BY <3>1, <3>2, <4>5, <4>6 DEF Channel!Next, Channel!Deliver
    <3>3. CASE overflows # 0
      <4>1. PICK f \in Int : delivered' = Append(delivered, f)
        BY <2>4 DEF Process, TypeOK, Torn
      <4>2. delivered'[Len(delivered')] = f
        BY <4>1 DEF TypeOK
      <4>3. delivered' = Append(delivered, delivered'[Len(delivered')])
        BY <4>1, <4>2
      <4>4. overflows > 0
        BY <2>1, <3>3
      <4>5. QED
        BY <3>1, <4>3, <4>4 DEF Channel!Next, Channel!DeliverAny
    <3>4. QED
      BY <3>2, <3>3
  <2>5. CASE BeginReceive \/ Publish \/ Acquire
    BY <2>5 DEF BeginReceive, Publish, Acquire, readerVars, Channel!chanVars
  <2>6. CASE TakeFrame \/ SkipFrame \/ GiveBack
    BY <2>6 DEF TakeFrame, SkipFrame, GiveBack, writerVars, Channel!chanVars
  <2>7. CASE UNCHANGED vars
    BY <2>7 DEF vars, writerVars, readerVars, Channel!chanVars
  <2>8. QED
    BY <2>2, <2>3, <2>4, <2>5, <2>6, <2>7 DEF Next, Writer, Reader
<1>3. QED
  BY <1>1, <1>2, TypeCorrect, RingCorrect, PTL DEF Spec, ChannelSpec, Channel!Spec

==============================================================================
