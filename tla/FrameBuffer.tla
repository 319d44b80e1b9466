----------------------------- MODULE FrameBuffer -----------------------------
(***************************************************************************)
(* The class FrameBuffer (lib/include/utils/FrameBuffer.h): a ring of      *)
(* frames shared by one thread that receives frames from the assembly and  *)
(* one thread that processes them.  This module has the state of the class *)
(* and one definition per method; every method runs under the mutex of the *)
(* class, so each is one step.  The threads that call them are in the      *)
(* modules that extend this one.                                           *)
(*                                                                         *)
(* The content of a slot is an identity of the frame stored there.         *)
(***************************************************************************)
EXTENDS Integers

CONSTANT BufferSize   \* DriverConfig::readBufferSize (READ_BUFFER in driver.xml)

\* With READ_BUFFER = 0 the code takes an index modulo zero.
ASSUME BufferSizeAssumption == BufferSize \in Nat \ {0}

VARIABLES
  slots,        \* buffer: the frames, indexed as in the code
  writeIndex,   \* the next slot to be published
  readIndex,    \* the next slot to be consumed
  full          \* tells a full ring from an empty one when the indexes meet

bufferVars == <<slots, writeIndex, readIndex, full>>

SlotIndex == 0 .. BufferSize - 1

\* The constructor; blank stands for a frame of zeros.
BufferInit(blank) ==
  /\ slots = [i \in SlotIndex |-> blank]
  /\ writeIndex = 0
  /\ readIndex = 0
  /\ full = FALSE

\* getWritePtr throws BUFFER_OVERFLOW when the ring is full; otherwise the
\* caller gets the slot writeIndex, without reserving it.
WriteOverflow == full

\* The predicate that getReadPtr waits for; the slot it returns is readIndex.
HasFrame == writeIndex # readIndex \/ full

\* Writing through a pointer that getWritePtr returned, now or earlier.
Store(slot, content) == slots' = [slots EXCEPT ![slot] = content]

(* Each operator named Slip... is a plausible slip in the operator after it, *)
(* kept to see that the properties notice it; no specification uses it.      *)

\* The index is not taken modulo the size.
SlipNoWrap ==
  /\ writeIndex' = writeIndex + 1
  /\ full' = (full \/ writeIndex' = readIndex)
  /\ UNCHANGED readIndex

\* A ring filled to the last slot is not marked full.
SlipNeverFull ==
  /\ writeIndex' = (writeIndex + 1) % BufferSize
  /\ UNCHANGED <<readIndex, full>>

FinishWrite ==
  /\ writeIndex' = (writeIndex + 1) % BufferSize
  /\ full' = (full \/ writeIndex' = readIndex)
  /\ UNCHANGED readIndex

\* A full ring is still marked full after a slot was given back.
SlipStaysFull ==
  /\ readIndex' = (readIndex + 1) % BufferSize
  /\ UNCHANGED <<writeIndex, full>>

\* The slot is not given back.
SlipKeepsSlot ==
  /\ full' = FALSE
  /\ UNCHANGED <<readIndex, writeIndex>>

FinishRead ==
  /\ readIndex' = (readIndex + 1) % BufferSize
  /\ full' = FALSE
  /\ UNCHANGED writeIndex

==============================================================================
