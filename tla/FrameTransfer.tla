---------------------------- MODULE FrameTransfer ----------------------------
(***************************************************************************)
(* One assembly's frame path: the loop of Assembly::readFramesThread, which *)
(* receives frames into the frame buffer, and the loop of                  *)
(* Assembly::readFrames, which takes them out (lib/include/assembly/       *)
(* Assembly.h), over the ring of module FrameBuffer.                       *)
(*                                                                         *)
(* A slot is filled by asio::read and then by the sign fix-up of readFrame,*)
(* and it is copied out by std::transform: neither holds the mutex, so     *)
(* each has a begin and an end here, and a slot being filled is Torn.      *)
(* Frames are numbered in the order they arrive.  A receive time-out and a *)
(* read time-out leave everything below unchanged and are stuttering.      *)
(***************************************************************************)
EXTENDS FrameBuffer, Sequences

CONSTANT MaxFrames    \* bound: the number of frames the assembly sends

ASSUME MaxFramesAssumption == MaxFrames \in Nat

Blank == 0
Torn  == -1

VARIABLES
  wpc,         \* where the receiving thread is
  fr,          \* the slot its local variable fr points to
  received,    \* frames received completely
  overflows,   \* BUFFER_OVERFLOW errors passed to the error callback
  rpc,         \* where the processing thread is
  held,        \* what it saw in the slot when it began to copy it
  delivered    \* history: the frames passed to the filters, in order

writerVars == <<wpc, fr, received, overflows>>
readerVars == <<rpc, held, delivered>>
vars == <<bufferVars, writerVars, readerVars>>

-----------------------------------------------------------------------------
(* The receiving thread. *)

\* masi.readFrame begins to store the next frame through fr.
BeginReceive ==
  /\ wpc = "receive"
  /\ received < MaxFrames
  /\ Store(fr, Torn)
  /\ wpc' = "filling"
  /\ UNCHANGED <<writeIndex, readIndex, full, fr, received, overflows, readerVars>>

EndReceive ==
  /\ wpc = "filling"
  /\ received' = received + 1
  /\ Store(fr, received')
  /\ wpc' = "publish"
  /\ UNCHANGED <<writeIndex, readIndex, full, fr, overflows, readerVars>>

\* frameBuffer->finishWrite()
Publish ==
  /\ wpc = "publish"
  /\ FinishWrite
  /\ wpc' = "acquire"
  /\ UNCHANGED <<slots, fr, received, overflows, readerVars>>

\* A slip: the ring is not checked for being full.
SlipUnchecked ==
  /\ wpc = "acquire"
  /\ fr' = writeIndex
  /\ wpc' = "receive"
  /\ UNCHANGED <<bufferVars, received, overflows, readerVars>>

\* fr = frameBuffer->getWritePtr()
Acquire ==
  /\ wpc = "acquire"
  /\ ~WriteOverflow
  /\ fr' = writeIndex
  /\ wpc' = "receive"
  /\ UNCHANGED <<bufferVars, received, overflows, readerVars>>

\* getWritePtr throws: the handler reports it and the loop goes on with the
\* pointer it had, the slot of the frame it has just published.
AcquireFails ==
  /\ wpc = "acquire"
  /\ WriteOverflow
  /\ overflows' = overflows + 1
  /\ wpc' = "receive"
  /\ UNCHANGED <<bufferVars, fr, received, readerVars>>

(* The processing thread. *)

\* A slip: no waiting for a frame.
SlipNoWait ==
  /\ rpc = "idle"
  /\ held' = slots[readIndex]
  /\ rpc' = "copying"
  /\ UNCHANGED <<bufferVars, writerVars, delivered>>

\* context->rawFrame = frameBuffer->getReadPtr(), and the copy begins.
TakeFrame ==
  /\ rpc = "idle"
  /\ HasFrame
  /\ held' = slots[readIndex]
  /\ rpc' = "copying"
  /\ UNCHANGED <<bufferVars, writerVars, delivered>>

\* i < skipFramesNum: the loop continues, and does not call finishRead.
SkipFrame ==
  /\ rpc = "copying"
  /\ rpc' = "idle"
  /\ UNCHANGED <<bufferVars, writerVars, held, delivered>>

\* The copy ends and the filters process it; it is one frame only if the
\* slot held that frame from begin to end.
Process ==
  /\ rpc = "copying"
  /\ delivered' = Append(delivered, IF slots[readIndex] = held THEN held ELSE Torn)
  /\ rpc' = "finish"
  /\ UNCHANGED <<bufferVars, writerVars, held>>

\* frameBuffer->finishRead()
GiveBack ==
  /\ rpc = "finish"
  /\ FinishRead
  /\ rpc' = "idle"
  /\ UNCHANGED <<slots, writerVars, held, delivered>>

-----------------------------------------------------------------------------

Init ==
  /\ BufferInit(Blank)
  /\ wpc = "receive"
  /\ fr = 0
  /\ received = 0
  /\ overflows = 0
  /\ rpc = "idle"
  /\ held = Blank
  /\ delivered = << >>

Writer == BeginReceive \/ EndReceive \/ Publish \/ Acquire \/ AcquireFails

Reader == TakeFrame \/ SkipFrame \/ Process \/ GiveBack

Next == Writer \/ Reader

Spec == Init /\ [][Next]_vars

-----------------------------------------------------------------------------

TypeOK ==
  /\ slots \in [SlotIndex -> Int]
  /\ writeIndex \in SlotIndex
  /\ readIndex \in SlotIndex
  /\ full \in BOOLEAN
  /\ wpc \in {"receive", "filling", "publish", "acquire"}
  /\ fr \in SlotIndex
  /\ received \in Nat
  /\ overflows \in Nat
  /\ rpc \in {"idle", "copying", "finish"}
  /\ held \in Int
  /\ delivered \in Seq(Int)

\* As long as no overflow was reported, the filters see every frame the
\* assembly sent, in order, each once and none mixed from two frames
\* (Assembly::readFrames and readFramesThread over FrameBuffer).
ExactDelivery ==
  overflows = 0 => \A k \in 1 .. Len(delivered) : delivered[k] = k

\* The slots between readIndex and writeIndex hold the published frames.
Ahead(slot) ==
  IF slot >= readIndex THEN slot - readIndex ELSE slot - readIndex + BufferSize

Published == IF full THEN BufferSize ELSE Ahead(writeIndex)

\* As long as no overflow was reported, the receiving thread never writes a
\* slot that holds a frame not yet given back (FrameBuffer::getWritePtr
\* guards the ring, but the pointer it returns outlives the check).
WriterOwnsItsSlot ==
  overflows = 0 /\ wpc \in {"receive", "filling"} => Ahead(fr) >= Published

(* Why: the ring and the two threads agree, up to the first overflow. *)

Consumed == Len(delivered) - (IF rpc = "finish" THEN 1 ELSE 0)

Completed == received - (IF wpc = "publish" THEN 1 ELSE 0)

RingAgrees ==
  /\ full => writeIndex = readIndex
  /\ Completed - Consumed = Published
  /\ \A s \in SlotIndex : Ahead(s) < Published => slots[s] = Consumed + 1 + Ahead(s)

WriterAgrees ==
  /\ wpc # "acquire" => fr = writeIndex /\ ~full
  /\ wpc = "publish" => slots[fr] = received

ReaderAgrees ==
  /\ rpc # "idle" => HasFrame
  /\ rpc = "copying" => held = slots[readIndex]

\* The invariant behind the others: until the first overflow the ring holds
\* exactly the frames received and not given back, oldest first, and each
\* thread's pointer still means what it meant when the thread obtained it
\* (FrameBuffer, Assembly::readFrames and Assembly::readFramesThread).
RingInv ==
  overflows = 0 => RingAgrees /\ WriterAgrees /\ ReaderAgrees /\ ExactDelivery

\* The abstract channel that the two loops implement.
Channel ==
  INSTANCE FrameChannel
    WITH Capacity <- BufferSize, sent <- received, got <- delivered,
         overflowed <- overflows > 0

ChannelSpec == Channel!Spec

==============================================================================
