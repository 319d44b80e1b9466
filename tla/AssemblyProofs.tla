--------------------------- MODULE AssemblyProofs ----------------------------
(***************************************************************************)
(* Theorems about Assembly, for every size of the ring, every measurement  *)
(* and every bound.                                                        *)
(***************************************************************************)
EXTENDS Assembly, TLAPS

TransferProofs == INSTANCE FrameTransferProofs

\* The constants are those of FrameTransfer.
LEMMA TransferAssumptions ==
  Transfer!BufferSizeAssumption /\ Transfer!MaxFramesAssumption
  BY ConfigAssumption, BoundsAssumption
     DEF Transfer!BufferSizeAssumption, Transfer!MaxFramesAssumption

\* Every step of the assembly is a step of the frame path or leaves it alone,
\* so the frame path of an assembly behaves as FrameTransfer allows.
THEOREM UsesTransfer == Spec => Transfer!Spec
<1>1. Init => Transfer!Init
  BY DEF Init
<1>2. [Next]_vars => [Transfer!Next]_(Transfer!vars)
  <2> SUFFICES ASSUME [Next]_vars
               PROVE  Transfer!Next \/ UNCHANGED transferVars
    BY DEF transferVars, Transfer!vars, Transfer!bufferVars, Transfer!writerVars,
           Transfer!readerVars
  <2>1. CASE DeviceSend
    BY <2>1 DEF DeviceSend
  <2>2. CASE FilterThread
    BY <2>2 DEF FilterThread, FilterCheck, FilterPop, FilterLock, FilterStart,
       FilterStartBusy, FilterBegin, FilterNext, FilterStop, FilterDone, FilterTake,
       FilterTimeout, FilterSkip, FilterProcess, FilterGiveBack, Transfer!Next,
       Transfer!Reader
  <2>3. CASE ReaderThread
    BY <2>3 DEF ReaderThread, ReaderConnect, ReaderExit, ReaderGoOn, ReaderPopStop,
       ReaderStop, ReaderReconnect, ReaderNothing, ReaderBeginReceive,
       ReaderEndReceive, ReaderAcquire, Transfer!Next, Transfer!Writer
  <2>4. CASE Call
    BY <2>4 DEF Call, Read, CancelReading, Disconnect, WriteCr, SetMeasurement
  <2>5. CASE GoOn
    BY <2>5 DEF GoOn, CancelReader, Halt, Wake, Join, Close, WriteCrReturns
  <2>6. CASE UNCHANGED vars
    BY <2>6 DEF vars
  <2>7. QED
    BY <2>1, <2>2, <2>3, <2>4, <2>5, <2>6 DEF Next
<1>3. QED
  BY <1>1, <1>2, PTL DEF Spec, Transfer!Spec

\* The theorems of FrameTransferProofs are about the same specification.
LEMMA SameTransfer ==
  /\ TransferProofs!Init <=> Transfer!Init
  /\ [TransferProofs!Next]_(TransferProofs!vars) <=> [Transfer!Next]_(Transfer!vars)
<1>1. TransferProofs!Init <=> Transfer!Init
  BY DEF Transfer!Init, TransferProofs!Init, Transfer!BufferInit,
     TransferProofs!BufferInit, Transfer!SlotIndex, TransferProofs!SlotIndex,
     Transfer!Blank, TransferProofs!Blank
<1>2. TransferProofs!Writer <=> Transfer!Writer
  BY DEF Transfer!Writer, TransferProofs!Writer, Transfer!BeginReceive,
     TransferProofs!BeginReceive, Transfer!EndReceive,
     TransferProofs!EndReceive, Transfer!Publish, TransferProofs!Publish,
     Transfer!Acquire, TransferProofs!Acquire, Transfer!AcquireFails,
     TransferProofs!AcquireFails, Transfer!Store, TransferProofs!Store,
     Transfer!FinishWrite, TransferProofs!FinishWrite, Transfer!WriteOverflow,
     TransferProofs!WriteOverflow, Transfer!Torn, TransferProofs!Torn,
     Transfer!bufferVars, TransferProofs!bufferVars, Transfer!readerVars,
     TransferProofs!readerVars
<1>3. TransferProofs!Reader <=> Transfer!Reader
  BY DEF Transfer!Reader, TransferProofs!Reader, Transfer!TakeFrame,
     TransferProofs!TakeFrame, Transfer!SkipFrame, TransferProofs!SkipFrame,
     Transfer!Process, TransferProofs!Process, Transfer!GiveBack,
     TransferProofs!GiveBack, Transfer!FinishRead, TransferProofs!FinishRead,
     Transfer!HasFrame, TransferProofs!HasFrame, Transfer!Torn,
     TransferProofs!Torn, Transfer!bufferVars, TransferProofs!bufferVars,
     Transfer!writerVars, TransferProofs!writerVars
<1>4. (UNCHANGED TransferProofs!vars) <=> (UNCHANGED Transfer!vars)
  BY DEF Transfer!vars, TransferProofs!vars, Transfer!bufferVars,
     TransferProofs!bufferVars, Transfer!writerVars,
     TransferProofs!writerVars, Transfer!readerVars, TransferProofs!readerVars
<1>5. QED
  BY <1>1, <1>2, <1>3, <1>4 DEF Transfer!Next, TransferProofs!Next

\* Through cancels, time-outs, skips and disconnects, the filters get the
\* frames in the order of the device and none twice, up to the first overflow.
THEOREM DeliveryOrdered == Spec => []DeliveryInOrder
<1>1. Transfer!Spec => TransferProofs!Spec
  BY SameTransfer, PTL DEF Transfer!Spec, TransferProofs!Spec
<1>2. Spec => []TransferProofs!ExactDelivery
  BY <1>1, UsesTransfer, TransferProofs!DeliveryExact, TransferAssumptions, PTL
<1>3. Spec => []TransferProofs!TypeOK
  BY <1>1, UsesTransfer, TransferProofs!TypeCorrect, TransferAssumptions, PTL
<1>4. TransferProofs!TypeOK /\ TransferProofs!ExactDelivery => DeliveryInOrder
  BY DEF TransferProofs!TypeOK, TransferProofs!ExactDelivery, DeliveryInOrder
<1>5. QED
  BY <1>2, <1>3, <1>4, PTL
-----------------------------------------------------------------------------
(* Types. *)

Messages == [cmd : {"READ", "STOP"}, payload : Nat, reading : Nat]
Outcomes == {"pending", "done", "cancelled", "failed"}
Readings == [asked : Nat, outcome : Outcomes]

\* Sequences without their head or with another element, and a reading that ends.
LEMMA SequenceTypes ==
  /\ \A q \in Seq(Messages) :
       /\ q # << >> => Head(q) \in Messages /\ Tail(q) \in Seq(Messages)
       /\ \A m \in Messages : Append(q, m) \in Seq(Messages)
  /\ \A s \in Seq(Nat \X Nat) :
       /\ s # << >> => Head(s) \in Nat \X Nat /\ Tail(s) \in Seq(Nat \X Nat)
       /\ \A m, n \in Nat : Append(s, <<m, n>>) \in Seq(Nat \X Nat)
  /\ \A s \in Seq(Readings) :
       /\ Len(s) \in Nat
       /\ \A r \in Readings : Append(s, r) \in Seq(Readings)
       /\ \A r \in Nat, o \in Outcomes : [s EXCEPT ![r].outcome = o] \in Seq(Readings)
<1>1. \A q \in Seq(Messages) :
        /\ q # << >> => Head(q) \in Messages /\ Tail(q) \in Seq(Messages)
        /\ \A m \in Messages : Append(q, m) \in Seq(Messages)
  OBVIOUS
<1>2. \A s \in Seq(Nat \X Nat) :
        /\ s # << >> => Head(s) \in Nat \X Nat /\ Tail(s) \in Seq(Nat \X Nat)
        /\ \A p \in Nat \X Nat : Append(s, p) \in Seq(Nat \X Nat)
  OBVIOUS
<1>3. \A s \in Seq(Readings) :
        Len(s) \in Nat /\ \A r \in Readings : Append(s, r) \in Seq(Readings)
  OBVIOUS
<1>4. ASSUME NEW s \in Seq(Readings), NEW r \in Nat, NEW o \in Outcomes
      PROVE  [s EXCEPT ![r].outcome = o] \in Seq(Readings)
  <2>1. CASE r \in DOMAIN s
    <3>1. s[r] \in Readings
      BY <2>1
    <3>2. [s[r] EXCEPT !.outcome = o] \in Readings
      BY <3>1 DEF Readings
    <3>3. \A x \in Readings : [s EXCEPT ![r] = x] \in Seq(Readings)
      BY <2>1
    <3> QED
      BY <3>2, <3>3
  <2>2. CASE r \notin DOMAIN s
    <3>1. [s EXCEPT ![r].outcome = o] = s
      BY <2>2
    <3> QED
      BY <3>1
  <2> QED
    BY <2>1, <2>2
<1> QED
  BY <1>1, <1>2, <1>3, <1>4

\* The variables of the frame path have the same types in both instances.
LEMMA SameTypes == TransferProofs!TypeOK <=> Transfer!TypeOK
BY DEF TransferProofs!TypeOK, Transfer!TypeOK, TransferProofs!SlotIndex, Transfer!SlotIndex

\* The types of Assembly's own variables.
OwnTypes ==
  /\ isRunning \in BOOLEAN
  /\ mutex \in {"none", "filter", "client"}
  /\ filterQueue \in Seq(Messages)
  /\ readerQueue \in Nat
  /\ measurement \in Measurements
  /\ fpc \in {"check", "pop", "lock", "start", "begin", "top", "frame", "exited"}
  /\ msg \in Messages
  /\ skip \in Nat
  /\ i \in Nat
  /\ rdpc \in {"connect", "check", "receive", "stop", "reconnect", "exited"}
  /\ cpc \in {"idle", "cancel", "command", "disconnect", "halt", "wake", "join",
              "close", "disconnected"}
  /\ device \in [reading : Nat, sent : Nat, total : Nat]
  /\ link \in BOOLEAN
  /\ stream \in Seq(Nat \X Nat)
  /\ arrived \in Seq(Nat \X Nat)
  /\ labels \in Seq(Nat \X Nat)
  /\ readings \in Seq(Readings)
  /\ calls \in [cancel : Nat, command : Nat]

LEMMA InitOwnTypes == Init => OwnTypes
<1> SUFFICES ASSUME Init PROVE OwnTypes
  OBVIOUS
<1>1. STOP \in Messages /\ Idle \in [reading : Nat, sent : Nat, total : Nat]
  BY DEF STOP, Messages, Idle
<1>2. /\ << >> \in Seq(Messages) /\ << >> \in Seq(Nat \X Nat) /\ << >> \in Seq(Readings)
      /\ [cancel |-> 0, command |-> 0] \in [cancel : Nat, command : Nat]
  OBVIOUS
<1> QED
  BY <1>1, <1>2 DEF Init, OwnTypes

\* The slots a reading asks for.
LEMMA FrameCounts == \A m \in Measurements : m.skipFramesNum \in Nat /\ Frames(m) \in Nat
BY MeasurementsAssumption DEF Frames

LEMMA StepOwnTypes == OwnTypes /\ [Next]_vars => OwnTypes'
<1> SUFFICES ASSUME OwnTypes, [Next]_vars PROVE OwnTypes'
  OBVIOUS
<1> USE DEF filterVars, deviceVars, clientVars, readerVars
<1>1. msg.payload \in Nat /\ msg.reading \in Nat /\ STOP \in Messages
  BY DEF OwnTypes, Messages, STOP
<1>2. ASSUME NEW o \in Outcomes, EndReading(o)
      PROVE  /\ mutex' \in {"none", "filter", "client"} /\ readings' \in Seq(Readings)
             /\ fpc' = "check"
  BY <1>1, <1>2, SequenceTypes DEF EndReading, OwnTypes
<1>3. CASE DeviceSend
  <2>1. /\ device.reading \in Nat /\ device.sent + 1 \in Nat
        /\ device' \in [reading : Nat, sent : Nat, total : Nat]
    <3>1. device \in [reading : Nat, sent : Nat, total : Nat]
      BY DEF OwnTypes
    <3>2. device' = [device EXCEPT !.sent = device.sent + 1]
      BY <1>3 DEF DeviceSend
    <3> QED
      BY <3>1, <3>2
  <2>2. stream' \in Seq(Nat \X Nat)
    BY <1>3, <2>1, SequenceTypes DEF DeviceSend, OwnTypes
  <2> QED
    BY <1>3, <2>1, <2>2 DEF DeviceSend, OwnTypes
<1>4. CASE FilterThread
  <2>1. CASE FilterCheck
    BY <2>1 DEF FilterCheck, OwnTypes
  <2>2. CASE FilterPop
    <3>1. filterQueue' \in Seq(Messages) /\ msg' \in Messages
      BY <2>2, SequenceTypes DEF FilterPop, OwnTypes
    <3> QED
      BY <2>2, <3>1 DEF FilterPop, OwnTypes
  <2>3. CASE FilterLock
    BY <2>3 DEF FilterLock, OwnTypes
  <2>4. CASE FilterStart
    BY <1>1, <2>4 DEF FilterStart, OwnTypes
  <2>5. CASE FilterStartBusy
    BY <1>2, <2>5 DEF FilterStartBusy, OwnTypes, Outcomes
  <2>6. CASE FilterBegin
    BY <2>6, FrameCounts DEF FilterBegin, OwnTypes
  <2>7. CASE FilterNext
    BY <2>7 DEF FilterNext, OwnTypes
  <2>8. CASE FilterStop
    <3>1. filterQueue' \in Seq(Messages)
      BY <2>8, SequenceTypes DEF FilterStop, StopIsNext, OwnTypes
    <3> QED
      BY <1>2, <2>8, <3>1 DEF FilterStop, OwnTypes, Outcomes
  <2>9. CASE FilterDone
    BY <1>2, <2>9 DEF FilterDone, OwnTypes, Outcomes
  <2>10. CASE FilterTake
    BY <2>10 DEF FilterTake, OwnTypes
  <2>11. CASE FilterTimeout
    BY <1>2, <2>11 DEF FilterTimeout, OwnTypes, Outcomes
  <2>12. CASE FilterSkip
    BY <2>12 DEF FilterSkip, OwnTypes
  <2>13. CASE FilterProcess
    <3>1. labels' \in Seq(Nat \X Nat)
      <4>1. labels' = Append(labels, <<msg.reading, i + 1>>)
        BY <2>13 DEF FilterProcess
      <4>2. labels \in Seq(Nat \X Nat) /\ i + 1 \in Nat /\ msg.reading \in Nat
        BY <1>1 DEF OwnTypes, Messages
      <4>3. \A s \in Seq(Nat \X Nat) : \A m, n \in Nat : Append(s, <<m, n>>) \in Seq(Nat \X Nat)
        BY SequenceTypes
      <4> QED
        BY <4>1, <4>2, <4>3
    <3> QED
      BY <2>13, <3>1 DEF FilterProcess, OwnTypes
  <2>14. CASE FilterGiveBack
    BY <2>14 DEF FilterGiveBack, OwnTypes
  <2> QED
    BY <1>4, <2>1, <2>2, <2>3, <2>4, <2>5, <2>6, <2>7, <2>8, <2>9, <2>10, <2>11, <2>12,
       <2>13, <2>14 DEF FilterThread
<1>5. CASE ReaderThread
  <2>1. CASE ReaderBeginReceive
    <3>1. stream # << >> /\ stream' = Tail(stream) /\ arrived' = Append(arrived, Head(stream))
      BY <2>1 DEF ReaderBeginReceive
    <3>2. stream' \in Seq(Nat \X Nat)
      BY <3>1, SequenceTypes DEF OwnTypes
    <3>3. arrived' \in Seq(Nat \X Nat)
      <4>1. \A s \in Seq(Nat \X Nat), p \in Nat \X Nat : Append(s, p) \in Seq(Nat \X Nat)
        OBVIOUS
      <4> QED
        BY <3>1, <4>1, SequenceTypes DEF OwnTypes
    <3> QED
      BY <2>1, <3>2, <3>3 DEF ReaderBeginReceive, OwnTypes
  <2>2. CASE ReaderStop
    BY <2>2 DEF ReaderStop, OwnTypes, Idle
  <2>3. CASE ReaderReconnect
    BY <2>3 DEF ReaderReconnect, OwnTypes
  <2>4. CASE ReaderPopStop
    BY <2>4 DEF ReaderPopStop, OwnTypes
  <2>5. CASE ReaderConnect
    BY <2>5 DEF ReaderConnect, OwnTypes
  <2>6. CASE ReaderExit \/ ReaderGoOn \/ ReaderNothing
    BY <2>6 DEF ReaderExit, ReaderGoOn, ReaderNothing, OwnTypes
  <2>7. CASE ReaderEndReceive
    BY <2>7 DEF ReaderEndReceive, OwnTypes
  <2>8. CASE ReaderAcquire
    BY <2>8 DEF ReaderAcquire, OwnTypes
  <2> QED
    BY <1>5, <2>1, <2>2, <2>3, <2>4, <2>5, <2>6, <2>7, <2>8 DEF ReaderThread
<1>6. CASE Call
  <2>1. CASE Read
    <3>1. Frames(measurement) \in Nat
      BY FrameCounts DEF OwnTypes
    <3>2. readings' \in Seq(Readings)
      BY <2>1, <3>1, SequenceTypes DEF Read, OwnTypes, Readings, Outcomes
    <3>3. READ(Frames(measurement), Len(readings')) \in Messages
      BY <3>1, <3>2, SequenceTypes DEF READ, Messages
    <3>4. filterQueue' \in Seq(Messages)
      BY <2>1, <3>3, SequenceTypes DEF Read, OwnTypes
    <3> QED
      BY <2>1, <3>2, <3>4 DEF Read, OwnTypes
  <2>2. CASE CancelReading
    <3>1. filterQueue' \in Seq(Messages)
      BY <1>1, <2>2, SequenceTypes DEF CancelReading, OwnTypes
    <3>2. calls' \in [cancel : Nat, command : Nat]
      <4>1. calls \in [cancel : Nat, command : Nat]
        BY DEF OwnTypes
      <4>2. calls' = [calls EXCEPT !.cancel = calls.cancel + 1]
        BY <2>2 DEF CancelReading
      <4> QED
        BY <4>1, <4>2
    <3> QED
      BY <2>2, <3>1, <3>2 DEF CancelReading, OwnTypes
  <2>3. CASE Disconnect
    <3>1. filterQueue' \in Seq(Messages)
      BY <1>1, <2>3, SequenceTypes DEF Disconnect, OwnTypes
    <3> QED
      BY <2>3, <3>1 DEF Disconnect, OwnTypes
  <2>4. CASE WriteCr
    <3>1. calls' \in [cancel : Nat, command : Nat]
      <4>1. calls \in [cancel : Nat, command : Nat]
        BY DEF OwnTypes
      <4>2. calls' = [calls EXCEPT !.command = calls.command + 1]
        BY <2>4 DEF WriteCr
      <4> QED
        BY <4>1, <4>2
    <3> QED
      BY <2>4, <3>1 DEF WriteCr, OwnTypes
  <2>5. ASSUME NEW m \in Measurements, SetMeasurement(m) PROVE OwnTypes'
    BY <2>5 DEF SetMeasurement, OwnTypes
  <2> QED
    BY <1>6, <2>1, <2>2, <2>3, <2>4, <2>5 DEF Call
<1>7. CASE GoOn
  <2>1. CASE Wake
    <3>1. filterQueue' \in Seq(Messages)
      BY <1>1, <2>1, SequenceTypes DEF Wake, OwnTypes
    <3> QED
      BY <2>1, <3>1 DEF Wake, OwnTypes
  <2>2. CASE CancelReader
    BY <2>2 DEF CancelReader, OwnTypes
  <2>3. CASE Halt \/ Join
    BY <2>3 DEF Halt, Join, OwnTypes
  <2>4. CASE Close
    <3>1. << >> \in Seq(Nat \X Nat)
      OBVIOUS
    <3> QED
      BY <2>4, <3>1 DEF Close, OwnTypes
  <2>5. CASE WriteCrReturns
    BY <2>5 DEF WriteCrReturns, OwnTypes
  <2> QED
    BY <1>7, <2>1, <2>2, <2>3, <2>4, <2>5 DEF GoOn
<1>8. CASE UNCHANGED vars
  BY <1>8 DEF vars, OwnTypes
<1> QED
  BY <1>3, <1>4, <1>5, <1>6, <1>7, <1>8 DEF Next

\* What FrameTransferProofs shows, at every state of an assembly.
LEMMA TransferAlways ==
  Spec => [](TransferProofs!TypeOK /\ TransferProofs!RingInv)
<1>1. Transfer!Spec => TransferProofs!Spec
  BY SameTransfer, PTL DEF Transfer!Spec, TransferProofs!Spec
<1>2. Spec => []TransferProofs!RingInv
  BY <1>1, UsesTransfer, TransferProofs!RingCorrect, TransferAssumptions, PTL
<1>3. Spec => []TransferProofs!TypeOK
  BY <1>1, UsesTransfer, TransferProofs!TypeCorrect, TransferAssumptions, PTL
<1> QED
  BY <1>2, <1>3, PTL

LEMMA OwnTypesAlways == Spec => []OwnTypes
<1>1. Init => OwnTypes
  BY InitOwnTypes
<1>2. OwnTypes /\ [Next]_vars => OwnTypes'
  BY StepOwnTypes
<1> QED
  BY <1>1, <1>2, PTL DEF Spec

\* Every variable of the assembly and of its frame path has its type.
THEOREM AssemblyTypeCorrect == Spec => []TypeOK
<1>1. TransferProofs!TypeOK /\ OwnTypes => TypeOK
  BY SameTypes DEF OwnTypes, TypeOK, Messages, Readings, Outcomes
<1> QED
  BY <1>1, TransferAlways, OwnTypesAlways, PTL
-----------------------------------------------------------------------------
(* Readings that end by themselves, with any number of cancels and commands and a   *)
(* device of any speed: what the filter thread counts, without the ring.            *)

NoSkips == \A m \in Measurements : m.skipFramesNum = 0

\* The filter thread works on a READ message.
HasRead == fpc \in {"lock", "start", "begin", "top", "frame"}

\* The frames it has given back to the ring in all readings.
GivenBack == Len(labels) - (IF rpc = "finish" THEN 1 ELSE 0)

IsRead(m) == m.cmd = "READ"

Places ==
  /\ mutex = "filter" <=> fpc \in {"start", "begin", "top", "frame"}
  /\ mutex = "client" <=> cpc = "command"
  /\ rpc # "idle" => fpc = "frame"
  /\ skip = 0

\* A READ message is one of the calls of read(), which has not ended, and asks for what
\* was asked in the call.
Asked(m, rs) ==
  /\ m.reading \in DOMAIN rs
  /\ rs[m.reading] = [asked |-> m.payload, outcome |-> "pending"]

\* The messages come in the order of the calls, each after those worked on and done.
InOrder ==
  /\ \A j, k \in DOMAIN filterQueue :
       j < k /\ IsRead(filterQueue[j]) /\ IsRead(filterQueue[k])
         => filterQueue[j].reading < filterQueue[k].reading
  /\ \A j \in DOMAIN filterQueue : IsRead(filterQueue[j]) =>
       /\ Asked(filterQueue[j], readings)
       /\ HasRead => msg.reading < filterQueue[j].reading
       /\ \A l \in DOMAIN labels : labels[l][1] < filterQueue[j].reading
  /\ HasRead => IsRead(msg) /\ Asked(msg, readings)

\* The last labels are those of the reading under way, and number as many as its frames.
Counted ==
  /\ \A l \in DOMAIN labels : labels[l][1] <= Len(readings)
  /\ fpc \in {"lock", "start", "begin"} => \A l \in DOMAIN labels : labels[l][1] < msg.reading
  /\ fpc \in {"top", "frame"} =>
       /\ i <= msg.payload /\ i <= GivenBack
       /\ fpc = "frame" => i < msg.payload
       /\ \A l \in DOMAIN labels :
            /\ l > GivenBack - i => labels[l] = <<msg.reading, l - (GivenBack - i)>>
            /\ l <= GivenBack - i => labels[l][1] < msg.reading

CountInv == Places /\ InOrder /\ Counted /\ DoneIsComplete

\* A queue without its head, and with another message.
LEMMA QueueFacts ==
  /\ \A q \in Seq(Messages) : q # << >> =>
       /\ 1 \in DOMAIN q /\ Head(q) = q[1]
       /\ \A j \in DOMAIN Tail(q) :
            j \in Nat /\ j >= 1 /\ j + 1 \in DOMAIN q /\ Tail(q)[j] = q[j + 1]
  /\ \A q \in Seq(Messages), m \in Messages :
       \A j \in DOMAIN Append(q, m) :
         \/ j \in DOMAIN q /\ Append(q, m)[j] = q[j] /\ j \in Nat /\ j < Len(q) + 1
         \/ j = Len(q) + 1 /\ j \in Nat /\ Append(q, m)[j] = m
  /\ \A q \in Seq(Messages) : \A j \in DOMAIN q : j \in Nat /\ q[j] \in Messages
<1>1. \A q \in Seq(Messages) : q # << >> =>
        /\ 1 \in DOMAIN q /\ Head(q) = q[1]
        /\ \A j \in DOMAIN Tail(q) :
             j \in Nat /\ j >= 1 /\ j + 1 \in DOMAIN q /\ Tail(q)[j] = q[j + 1]
  OBVIOUS
<1>2. \A q \in Seq(Messages), m \in Messages :
        \A j \in DOMAIN Append(q, m) :
          \/ j \in DOMAIN q /\ Append(q, m)[j] = q[j] /\ j \in Nat /\ j < Len(q) + 1
          \/ j = Len(q) + 1 /\ j \in Nat /\ Append(q, m)[j] = m
  OBVIOUS
<1>3. \A q \in Seq(Messages) : \A j \in DOMAIN q : j \in Nat /\ q[j] \in Messages
  OBVIOUS
<1> QED
  BY <1>1, <1>2, <1>3

\* The calls of read(), one more or with an outcome.
LEMMA ReadingFacts ==
  /\ \A s \in Seq(Readings) : Len(s) \in Nat /\ DOMAIN s = 1 .. Len(s)
  /\ \A s \in Seq(Readings) : \A r \in DOMAIN s : s[r] \in Readings
  /\ \A s \in Seq(Readings), r \in Readings :
       /\ Len(Append(s, r)) = Len(s) + 1
       /\ DOMAIN Append(s, r) = 1 .. Len(s) + 1
       /\ \A j \in DOMAIN s : Append(s, r)[j] = s[j]
       /\ Append(s, r)[Len(s) + 1] = r
  /\ \A s \in Seq(Readings) : \A r \in DOMAIN s, o \in Outcomes :
       /\ Len([s EXCEPT ![r].outcome = o]) = Len(s)
       /\ DOMAIN [s EXCEPT ![r].outcome = o] = DOMAIN s
       /\ \A j \in DOMAIN s : j # r => [s EXCEPT ![r].outcome = o][j] = s[j]
       /\ [s EXCEPT ![r].outcome = o][r] = [asked |-> s[r].asked, outcome |-> o]
<1>1. \A s \in Seq(Readings) : Len(s) \in Nat /\ DOMAIN s = 1 .. Len(s)
  OBVIOUS
<1>4. \A s \in Seq(Readings) : \A r \in DOMAIN s : s[r] \in Readings
  OBVIOUS
<1>2. \A s \in Seq(Readings), r \in Readings :
        /\ Len(Append(s, r)) = Len(s) + 1
        /\ DOMAIN Append(s, r) = 1 .. Len(s) + 1
        /\ \A j \in DOMAIN s : Append(s, r)[j] = s[j]
        /\ Append(s, r)[Len(s) + 1] = r
  OBVIOUS
<1>3. ASSUME NEW s \in Seq(Readings), NEW r \in DOMAIN s, NEW o \in Outcomes
      PROVE  /\ Len([s EXCEPT ![r].outcome = o]) = Len(s)
             /\ DOMAIN [s EXCEPT ![r].outcome = o] = DOMAIN s
             /\ \A j \in DOMAIN s : j # r => [s EXCEPT ![r].outcome = o][j] = s[j]
             /\ [s EXCEPT ![r].outcome = o][r] = [asked |-> s[r].asked, outcome |-> o]
  <2>1. s[r] \in Readings
    OBVIOUS
  <2>2. [s[r] EXCEPT !.outcome = o] = [asked |-> s[r].asked, outcome |-> o]
    BY <2>1 DEF Readings
  <2>3. [s EXCEPT ![r].outcome = o] = [s EXCEPT ![r] = [s[r] EXCEPT !.outcome = o]]
    OBVIOUS
  <2>4. ASSUME NEW x \in Readings
        PROVE  /\ Len([s EXCEPT ![r] = x]) = Len(s) /\ DOMAIN [s EXCEPT ![r] = x] = DOMAIN s
               /\ \A j \in DOMAIN s : j # r => [s EXCEPT ![r] = x][j] = s[j]
               /\ [s EXCEPT ![r] = x][r] = x
    OBVIOUS
  <2>5. [asked |-> s[r].asked, outcome |-> o] \in Readings
    BY <2>1 DEF Readings
  <2> QED
    BY <2>2, <2>3, <2>4, <2>5
<1> QED
  BY <1>1, <1>2, <1>3, <1>4

\* The delivered frames with one more.
LEMMA LabelFacts ==
  /\ \A s \in Seq(Nat \X Nat) :
       /\ Len(s) \in Nat /\ DOMAIN s = 1 .. Len(s)
       /\ \A j \in DOMAIN s : s[j] \in Nat \X Nat
  /\ \A s \in Seq(Nat \X Nat), p \in Nat \X Nat :
       /\ Len(Append(s, p)) = Len(s) + 1
       /\ DOMAIN Append(s, p) = 1 .. Len(s) + 1
       /\ \A j \in DOMAIN s : Append(s, p)[j] = s[j]
       /\ Append(s, p)[Len(s) + 1] = p
  /\ \A s \in Seq(Nat \X Nat) : s # << >> =>
       /\ Head(s) = s[1] /\ 1 \in DOMAIN s /\ Tail(s) \in Seq(Nat \X Nat)
       /\ Len(Tail(s)) = Len(s) - 1
       /\ \A j \in DOMAIN Tail(s) : Tail(s)[j] = s[j + 1]
<1>1. \A s \in Seq(Nat \X Nat) :
        /\ Len(s) \in Nat /\ DOMAIN s = 1 .. Len(s)
        /\ \A j \in DOMAIN s : s[j] \in Nat \X Nat
  OBVIOUS
<1>2. \A s \in Seq(Nat \X Nat), p \in Nat \X Nat :
        /\ Len(Append(s, p)) = Len(s) + 1
        /\ DOMAIN Append(s, p) = 1 .. Len(s) + 1
        /\ \A j \in DOMAIN s : Append(s, p)[j] = s[j]
        /\ Append(s, p)[Len(s) + 1] = p
  OBVIOUS
<1>3. \A s \in Seq(Nat \X Nat) : s # << >> =>
        /\ Head(s) = s[1] /\ 1 \in DOMAIN s /\ Tail(s) \in Seq(Nat \X Nat)
        /\ Len(Tail(s)) = Len(s) - 1
        /\ \A j \in DOMAIN Tail(s) : Tail(s)[j] = s[j + 1]
  OBVIOUS
<1> QED
  BY <1>1, <1>2, <1>3

LEMMA InitCount == Init => CountInv
<1> SUFFICES ASSUME Init PROVE CountInv
  OBVIOUS
<1>1. /\ filterQueue = << >> /\ labels = << >> /\ readings = << >>
      /\ mutex = "none" /\ cpc = "idle" /\ fpc = "check" /\ rpc = "idle" /\ skip = 0
  BY DEF Init, Transfer!Init
<1> QED
  BY <1>1 DEF CountInv, Places, InOrder, Counted, DoneIsComplete, HasRead

LEMMA StepPlaces ==
  ASSUME NoSkips, OwnTypes, Places, [Next]_vars
  PROVE  Places'
<1> USE DEF Places, filterVars, deviceVars, clientVars, readerVars
<1>1. CASE DeviceSend
  BY <1>1 DEF DeviceSend, transferVars
<1>2. CASE FilterThread
  <2>1. ASSUME NEW o, EndReading(o) PROVE mutex' = "none" /\ fpc' = "check"
    BY <2>1 DEF EndReading
  <2>2. CASE FilterCheck \/ FilterPop \/ FilterLock \/ FilterStart \/ FilterNext
    BY <2>2 DEF FilterCheck, FilterPop, FilterLock, FilterStart, FilterNext, transferVars
  <2>3. CASE FilterStartBusy \/ FilterStop \/ FilterDone \/ FilterTimeout
    BY <2>1, <2>3 DEF FilterStartBusy, FilterStop, FilterDone, FilterTimeout, transferVars
  <2>4. CASE FilterBegin
    BY <2>4 DEF FilterBegin, transferVars, NoSkips, OwnTypes
  <2>5. CASE FilterTake \/ FilterSkip \/ FilterProcess \/ FilterGiveBack
    BY <2>5 DEF FilterTake, FilterSkip, FilterProcess, FilterGiveBack, Transfer!TakeFrame,
       Transfer!SkipFrame, Transfer!Process, Transfer!GiveBack
  <2> QED
    BY <1>2, <2>2, <2>3, <2>4, <2>5 DEF FilterThread
<1>3. CASE ReaderThread
  BY <1>3 DEF ReaderThread, ReaderConnect, ReaderExit, ReaderGoOn, ReaderPopStop, ReaderStop,
     ReaderReconnect, ReaderNothing, ReaderBeginReceive, ReaderEndReceive, ReaderAcquire,
     transferVars, Transfer!BeginReceive, Transfer!EndReceive, Transfer!Publish,
     Transfer!Acquire, Transfer!AcquireFails, Transfer!readerVars
<1>4. CASE Call
  BY <1>4 DEF Call, Read, CancelReading, Disconnect, WriteCr, SetMeasurement, transferVars
<1>5. CASE GoOn
  BY <1>5 DEF GoOn, CancelReader, Halt, Wake, Join, Close, WriteCrReturns, transferVars
<1>6. CASE UNCHANGED vars
  BY <1>6 DEF vars, transferVars
<1> QED
  BY <1>1, <1>2, <1>3, <1>4, <1>5, <1>6 DEF Next

\* What the order of the messages depends on.
LEMMA InOrderKept ==
  ASSUME InOrder, UNCHANGED <<filterQueue, readings, labels, msg>>, HasRead' => HasRead
  PROVE  InOrder'
BY DEF InOrder, Asked, HasRead

\* A STOP is put into the queue.
LEMMA StopKeepsOrder ==
  ASSUME OwnTypes, InOrder, filterQueue' = Append(filterQueue, STOP),
         UNCHANGED <<readings, labels, msg, fpc>>
  PROVE  InOrder'
<1>1. filterQueue \in Seq(Messages) /\ STOP \in Messages /\ ~IsRead(STOP)
  BY DEF OwnTypes, STOP, Messages, IsRead
<1>2. \A j \in DOMAIN filterQueue' : IsRead(filterQueue'[j]) =>
        j \in DOMAIN filterQueue /\ filterQueue'[j] = filterQueue[j]
  BY <1>1, QueueFacts
<1> QED
  BY <1>2 DEF InOrder, Asked, HasRead

\* The outcome of the reading under way touches no other.
LEMMA EndKeepsOrder ==
  ASSUME OwnTypes, InOrder, HasRead, NEW o \in Outcomes, EndReading(o),
         UNCHANGED <<labels, msg>>,
         \/ filterQueue' = filterQueue
         \/ filterQueue # << >> /\ filterQueue' = Tail(filterQueue)
  PROVE  InOrder'
<1>1. fpc' = "check" /\ readings' = [readings EXCEPT ![msg.reading].outcome = o]
  BY DEF EndReading
<1>2. readings \in Seq(Readings) /\ filterQueue \in Seq(Messages) /\ msg.reading \in Nat
  BY DEF OwnTypes, Messages
<1>3. msg.reading \in DOMAIN readings
  BY DEF InOrder, Asked
<1>4. /\ DOMAIN readings' = DOMAIN readings
      /\ \A r \in DOMAIN readings : r # msg.reading => readings'[r] = readings[r]
  BY <1>1, <1>2, <1>3, ReadingFacts
<1>5. \A j \in DOMAIN filterQueue : IsRead(filterQueue[j]) =>
        /\ Asked(filterQueue[j], readings') /\ filterQueue[j].reading # msg.reading
  <2> SUFFICES ASSUME NEW j \in DOMAIN filterQueue, IsRead(filterQueue[j])
               PROVE  /\ filterQueue[j].reading \in DOMAIN readings'
                      /\ readings'[filterQueue[j].reading]
                           = [asked |-> filterQueue[j].payload, outcome |-> "pending"]
                      /\ filterQueue[j].reading # msg.reading
    BY <1>4 DEF Asked, InOrder
  <2>1. filterQueue[j].reading \in Nat
    BY <1>2, QueueFacts DEF Messages
  <2>2. Asked(filterQueue[j], readings) /\ msg.reading < filterQueue[j].reading
    BY DEF InOrder
  <2>3. filterQueue[j].reading # msg.reading
    BY <1>2, <2>1, <2>2
  <2> QED
    BY <1>4, <2>2, <2>3 DEF Asked
<1>6. CASE filterQueue' = filterQueue
  BY <1>1, <1>5, <1>6 DEF InOrder, HasRead, Asked
<1>7. CASE filterQueue # << >> /\ filterQueue' = Tail(filterQueue)
  <2>1. \A j \in DOMAIN filterQueue' :
          /\ j \in Nat /\ j >= 1 /\ j + 1 \in DOMAIN filterQueue
          /\ filterQueue'[j] = filterQueue[j + 1]
    BY <1>2, <1>7, QueueFacts
  <2>2. \A j, k \in DOMAIN filterQueue' :
          j < k /\ IsRead(filterQueue'[j]) /\ IsRead(filterQueue'[k])
            => filterQueue'[j].reading < filterQueue'[k].reading
    <3> SUFFICES ASSUME NEW j \in DOMAIN filterQueue', NEW k \in DOMAIN filterQueue', j < k,
                        IsRead(filterQueue'[j]), IsRead(filterQueue'[k])
                 PROVE  filterQueue'[j].reading < filterQueue'[k].reading
      OBVIOUS
    <3>1. /\ j + 1 \in DOMAIN filterQueue /\ k + 1 \in DOMAIN filterQueue /\ j + 1 < k + 1
          /\ filterQueue'[j] = filterQueue[j + 1] /\ filterQueue'[k] = filterQueue[k + 1]
      BY <2>1
    <3> QED
      BY <3>1 DEF InOrder
  <2>3. \A j \in DOMAIN filterQueue' : IsRead(filterQueue'[j]) =>
          /\ Asked(filterQueue'[j], readings')
          /\ \A l \in DOMAIN labels : labels[l][1] < filterQueue'[j].reading
    BY <1>5, <2>1 DEF InOrder, Asked
  <2> QED
    BY <1>1, <2>2, <2>3 DEF InOrder, HasRead, Asked
<1> QED
  BY <1>6, <1>7

LEMMA StepInOrder ==
  ASSUME NoSkips, OwnTypes, OwnTypes', Places, InOrder, Counted, [Next]_vars
  PROVE  InOrder'
<1> USE DEF filterVars, deviceVars, clientVars, readerVars
<1>1. /\ filterQueue \in Seq(Messages) /\ readings \in Seq(Readings)
      /\ labels \in Seq(Nat \X Nat)
  BY DEF OwnTypes
<1>2. CASE DeviceSend
  BY <1>2, InOrderKept DEF DeviceSend, HasRead
<1>3. CASE FilterThread
  <2>1. CASE FilterCheck \/ FilterLock \/ FilterStart \/ FilterBegin \/ FilterNext
    BY <2>1, InOrderKept DEF FilterCheck, FilterLock, FilterStart, FilterBegin, FilterNext,
       HasRead
  <2>2. CASE FilterPop
    <3>1. /\ fpc = "pop" /\ filterQueue # << >> /\ filterQueue' = Tail(filterQueue)
          /\ msg' = Head(filterQueue)
          /\ fpc' = IF IsRead(msg') THEN "lock" ELSE "check"
          /\ UNCHANGED <<readings, labels>>
      BY <2>2 DEF FilterPop, IsRead
    <3>2. /\ 1 \in DOMAIN filterQueue /\ msg' = filterQueue[1]
          /\ \A j \in DOMAIN filterQueue' :
               j \in Nat /\ j >= 1 /\ j + 1 \in DOMAIN filterQueue
                 /\ filterQueue'[j] = filterQueue[j + 1]
      BY <1>1, <3>1, QueueFacts
    <3>3. \A j, k \in DOMAIN filterQueue' :
            j < k /\ IsRead(filterQueue'[j]) /\ IsRead(filterQueue'[k])
              => filterQueue'[j].reading < filterQueue'[k].reading
      BY <3>2 DEF InOrder
    <3>4. HasRead' => IsRead(msg') /\ Asked(msg', readings')
      BY <3>1, <3>2 DEF InOrder, HasRead, Asked
    <3>5. ASSUME NEW j \in DOMAIN filterQueue', IsRead(filterQueue'[j])
          PROVE  /\ Asked(filterQueue'[j], readings')
                 /\ HasRead' => msg'.reading < filterQueue'[j].reading
                 /\ \A l \in DOMAIN labels' : labels'[l][1] < filterQueue'[j].reading
      <4>1. /\ Asked(filterQueue'[j], readings')
            /\ \A l \in DOMAIN labels' : labels'[l][1] < filterQueue'[j].reading
        BY <3>1, <3>2, <3>5 DEF InOrder, Asked
      <4>2. HasRead' => msg'.reading < filterQueue'[j].reading
        <5>1. j + 1 \in DOMAIN filterQueue /\ 1 < j + 1 /\ IsRead(filterQueue[j + 1])
          BY <3>2, <3>5
        <5> QED
          BY <3>2, <3>4, <5>1 DEF InOrder
      <4> QED
        BY <4>1, <4>2
    <3> QED
      BY <3>3, <3>4, <3>5 DEF InOrder
  <2>3. CASE FilterStartBusy \/ FilterDone \/ FilterTimeout
    BY <2>3, EndKeepsOrder
       DEF FilterStartBusy, FilterDone, FilterTimeout, HasRead, Outcomes
  <2>4. CASE FilterStop
    BY <2>4, EndKeepsOrder DEF FilterStop, StopIsNext, HasRead, Outcomes
  <2>5. CASE FilterTake \/ FilterSkip \/ FilterGiveBack
    BY <2>5, InOrderKept DEF FilterTake, FilterSkip, FilterGiveBack, HasRead
  <2>6. CASE FilterProcess
    <3>1. /\ fpc = "frame" /\ labels' = Append(labels, <<msg.reading, i + 1>>)
          /\ UNCHANGED <<filterQueue, readings, msg, fpc>>
      BY <2>6 DEF FilterProcess
    <3>2. <<msg.reading, i + 1>> \in Nat \X Nat
      <4>1. msg.reading \in Nat /\ i + 1 \in Nat
        BY DEF OwnTypes, Messages
      <4> QED
        BY <4>1
    <3>3. \A l \in DOMAIN labels' :
            (l \in DOMAIN labels /\ labels'[l] = labels[l]) \/ labels'[l][1] = msg.reading
      BY <1>1, <3>1, <3>2, LabelFacts
    <3>4. \A j \in DOMAIN filterQueue : IsRead(filterQueue[j]) =>
            \A l \in DOMAIN labels' : labels'[l][1] < filterQueue[j].reading
      BY <3>1, <3>3 DEF InOrder, HasRead
    <3> QED
      BY <3>1, <3>4 DEF InOrder, Asked, HasRead
  <2> QED
    BY <1>3, <2>1, <2>2, <2>3, <2>4, <2>5, <2>6 DEF FilterThread
<1>4. CASE ReaderThread
  BY <1>4, InOrderKept DEF ReaderThread, ReaderConnect, ReaderExit, ReaderGoOn,
     ReaderPopStop, ReaderStop, ReaderReconnect, ReaderNothing, ReaderBeginReceive,
     ReaderEndReceive, ReaderAcquire, HasRead
<1>5. CASE Call
  <2>1. CASE Read
    <3> DEFINE n == Frames(measurement)
               new == [asked |-> n, outcome |-> "pending"]
               last == READ(n, Len(readings) + 1)
    <3>1. n \in Nat /\ new \in Readings
      BY FrameCounts DEF OwnTypes, Readings, Outcomes
    <3>2. /\ Len(readings) \in Nat /\ DOMAIN readings = 1 .. Len(readings)
          /\ readings' = Append(readings, new) /\ Len(readings') = Len(readings) + 1
          /\ DOMAIN readings' = 1 .. Len(readings) + 1
          /\ \A r \in DOMAIN readings : readings'[r] = readings[r]
          /\ readings'[Len(readings) + 1] = new
      BY <1>1, <2>1, <3>1, ReadingFacts DEF Read
    <3>3. /\ filterQueue' = Append(filterQueue, last) /\ last \in Messages
          /\ last.reading = Len(readings) + 1 /\ last.payload = n
          /\ UNCHANGED <<labels, msg, fpc>>
      BY <2>1, <3>1, <3>2 DEF Read, READ, Messages
    <3> HIDE DEF new, last, n
    <3>4. \A j \in DOMAIN filterQueue' :
            \/ j \in DOMAIN filterQueue /\ filterQueue'[j] = filterQueue[j] /\ j \in Nat
               /\ j < Len(filterQueue) + 1
            \/ j = Len(filterQueue) + 1 /\ j \in Nat /\ filterQueue'[j] = last
      BY <1>1, <3>3, QueueFacts
    <3>5. \A m : Asked(m, readings) => Asked(m, readings') /\ m.reading < last.reading
      BY <3>2, <3>3 DEF Asked
    <3>6. Asked(last, readings')
      BY <3>2, <3>3 DEF Asked, new
    <3>7. \A j, k \in DOMAIN filterQueue' :
            j < k /\ IsRead(filterQueue'[j]) /\ IsRead(filterQueue'[k])
              => filterQueue'[j].reading < filterQueue'[k].reading
      <4> SUFFICES ASSUME NEW j \in DOMAIN filterQueue', NEW k \in DOMAIN filterQueue', j < k,
                          IsRead(filterQueue'[j]), IsRead(filterQueue'[k])
                   PROVE  filterQueue'[j].reading < filterQueue'[k].reading
        OBVIOUS
      <4>1. j \in DOMAIN filterQueue /\ filterQueue'[j] = filterQueue[j]
        <5>1. Len(filterQueue) \in Nat
          BY <1>1
        <5>2. k \in Nat /\ k <= Len(filterQueue) + 1
          BY <3>4, <5>1
        <5>3. j # Len(filterQueue) + 1
          BY <5>1, <5>2
        <5> QED
          BY <3>4, <5>3
      <4> QED
        BY <3>4, <3>5, <4>1 DEF InOrder
    <3>8. ASSUME NEW j \in DOMAIN filterQueue', IsRead(filterQueue'[j])
          PROVE  /\ Asked(filterQueue'[j], readings')
                 /\ HasRead' => msg'.reading < filterQueue'[j].reading
                 /\ \A l \in DOMAIN labels' : labels'[l][1] < filterQueue'[j].reading
      <4>1. CASE j \in DOMAIN filterQueue /\ filterQueue'[j] = filterQueue[j]
        BY <3>3, <3>5, <3>8, <4>1 DEF InOrder, HasRead
      <4>2. CASE filterQueue'[j] = last
        <5>1. HasRead' => msg'.reading < last.reading
          BY <3>3, <3>5 DEF InOrder, HasRead
        <5>2. \A l \in DOMAIN labels : labels[l][1] \in Nat /\ labels[l][1] <= Len(readings)
          BY <1>1, LabelFacts DEF Counted
        <5>3. \A l \in DOMAIN labels' : labels'[l][1] < last.reading
          BY <3>2, <3>3, <5>2
        <5> QED
          BY <3>6, <4>2, <5>1, <5>3
      <4> QED
        BY <3>4, <4>1, <4>2
    <3>9. HasRead' => IsRead(msg') /\ Asked(msg', readings')
      BY <3>3, <3>5 DEF InOrder, HasRead, Asked
    <3> QED
      BY <3>7, <3>8, <3>9 DEF InOrder
  <2>2. CASE CancelReading \/ Disconnect
    BY <2>2, StopKeepsOrder DEF CancelReading, Disconnect
  <2>3. CASE WriteCr
    BY <2>3, InOrderKept DEF WriteCr, HasRead
  <2>4. ASSUME NEW m \in Measurements, SetMeasurement(m) PROVE InOrder'
    BY <2>4, InOrderKept DEF SetMeasurement, HasRead
  <2> QED
    BY <1>5, <2>1, <2>2, <2>3, <2>4 DEF Call
<1>6. CASE GoOn
  <2>1. CASE Wake
    BY <2>1, StopKeepsOrder DEF Wake
  <2>2. CASE CancelReader \/ Halt \/ Join \/ Close \/ WriteCrReturns
    BY <2>2, InOrderKept DEF CancelReader, Halt, Join, Close, WriteCrReturns, HasRead
  <2> QED
    BY <1>6, <2>1, <2>2 DEF GoOn
<1>7. CASE UNCHANGED vars
  BY <1>7, InOrderKept DEF vars, HasRead
<1> QED
  BY <1>2, <1>3, <1>4, <1>5, <1>6, <1>7 DEF Next

\* The outcome of the reading under way, whatever it is.
LEMMA EndFacts ==
  ASSUME OwnTypes, InOrder, HasRead, NEW o \in Outcomes, EndReading(o)
  PROVE  /\ msg.reading \in DOMAIN readings /\ fpc' = "check"
         /\ Len(readings') = Len(readings) /\ DOMAIN readings' = DOMAIN readings
         /\ \A r \in DOMAIN readings : r # msg.reading => readings'[r] = readings[r]
         /\ readings'[msg.reading] = [asked |-> msg.payload, outcome |-> o]
<1>1. msg.reading \in DOMAIN readings /\ readings[msg.reading].asked = msg.payload
  BY DEF InOrder, Asked
<1>2. readings \in Seq(Readings)
  BY DEF OwnTypes
<1> QED
  BY <1>1, <1>2, ReadingFacts DEF EndReading

LEMMA CountedKept ==
  ASSUME OwnTypes, OwnTypes', Counted, UNCHANGED <<labels, msg, i, rpc>>,
         Len(readings) <= Len(readings'), fpc' = fpc \/ ~(HasRead' \/ HasRead)
  PROVE  Counted'
<1>1. \A l \in DOMAIN labels' : labels'[l][1] <= Len(readings')
  <2>1. \A l \in DOMAIN labels : labels[l][1] \in Nat /\ labels[l][1] <= Len(readings)
    BY LabelFacts DEF Counted, OwnTypes
  <2>2. Len(readings) \in Nat /\ Len(readings') \in Nat
    BY ReadingFacts DEF OwnTypes
  <2> QED
    BY <2>1, <2>2
<1> QED
  BY <1>1 DEF Counted, HasRead, GivenBack

LEMMA StepCounted ==
  ASSUME NoSkips, OwnTypes, OwnTypes', Places, Places', InOrder, Counted, [Next]_vars
  PROVE  Counted'
<1> USE DEF filterVars, deviceVars, clientVars, readerVars
<1>1. /\ labels \in Seq(Nat \X Nat) /\ Len(labels) \in Nat /\ DOMAIN labels = 1 .. Len(labels)
      /\ i \in Nat /\ msg.payload \in Nat /\ msg.reading \in Nat /\ Len(readings) \in Nat
      /\ GivenBack \in Int
  BY LabelFacts, ReadingFacts DEF OwnTypes, Messages, GivenBack
\* A reading that ends.
<1>2. ASSUME HasRead, NEW o \in Outcomes, EndReading(o), UNCHANGED labels
      PROVE  Counted'
  BY <1>2, EndFacts DEF Counted
<1>3. CASE DeviceSend
  BY <1>1, <1>3, CountedKept DEF DeviceSend, transferVars
<1>4. CASE FilterThread
  <2>1. CASE FilterCheck
    BY <1>1, <2>1, CountedKept DEF FilterCheck, transferVars, HasRead
  <2>2. CASE FilterPop
    <3>1. /\ fpc = "pop" /\ filterQueue # << >> /\ msg' = Head(filterQueue)
          /\ fpc' = IF IsRead(msg') THEN "lock" ELSE "check"
          /\ UNCHANGED <<readings, labels>>
      BY <2>2 DEF FilterPop, IsRead
    <3>2. 1 \in DOMAIN filterQueue /\ msg' = filterQueue[1]
      BY <3>1, QueueFacts DEF OwnTypes
    <3>3. IsRead(msg') => \A l \in DOMAIN labels : labels[l][1] < msg'.reading
      BY <3>2 DEF InOrder
    <3> QED
      BY <3>1, <3>3 DEF Counted
  <2>3. CASE FilterLock \/ FilterStart
    BY <2>3 DEF FilterLock, FilterStart, Counted
  <2>4. CASE FilterStartBusy \/ FilterStop \/ FilterDone \/ FilterTimeout
    BY <1>2, <2>4 DEF FilterStartBusy, FilterStop, FilterDone, FilterTimeout, HasRead, Outcomes
  <2>5. CASE FilterBegin
    <3>1. /\ fpc = "begin" /\ i' = 0 /\ fpc' = "top" /\ rpc' = rpc
          /\ UNCHANGED <<labels, readings, msg>>
      BY <2>5 DEF FilterBegin, transferVars
    <3>2. rpc = "idle"
      BY <3>1 DEF Places
    <3>3. GivenBack' = Len(labels)
      BY <1>1, <3>1, <3>2 DEF GivenBack
    <3>4. \A l \in DOMAIN labels : /\ labels[l][1] <= Len(readings)
                                   /\ labels[l][1] < msg.reading
      BY <3>1 DEF Counted
    <3>5. \A l \in DOMAIN labels : l <= Len(labels) /\ ~(l > Len(labels) - 0)
      BY <1>1
    <3>6. i' <= msg.payload /\ i' <= Len(labels) /\ Len(labels) - i' = Len(labels)
      BY <1>1, <3>1
    <3> QED
      BY <1>1, <3>1, <3>3, <3>4, <3>5, <3>6 DEF Counted
  <2>6. CASE FilterNext
    BY <2>6 DEF FilterNext, transferVars, Counted, GivenBack
  <2>7. CASE FilterTake
    <3>1. /\ fpc = "frame" /\ fpc' = fpc /\ rpc = "idle" /\ rpc' = "copying"
          /\ UNCHANGED <<labels, readings, msg, i>>
      BY <2>7 DEF FilterTake, Transfer!TakeFrame
    <3>2. GivenBack' = GivenBack
      BY <3>1 DEF GivenBack
    <3> QED
      BY <3>1, <3>2 DEF Counted
  <2>8. CASE FilterSkip
    BY <1>1, <2>8 DEF FilterSkip, Places
  <2>9. CASE FilterProcess
    <3>1. /\ fpc = "frame" /\ fpc' = fpc /\ rpc = "copying" /\ rpc' = "finish"
          /\ labels' = Append(labels, <<msg.reading, i + 1>>)
          /\ UNCHANGED <<readings, msg, i>>
      BY <2>9 DEF FilterProcess, Transfer!Process
    <3>2. <<msg.reading, i + 1>> \in Nat \X Nat
      BY <1>1
    <3>3. /\ Len(labels') = Len(labels) + 1 /\ DOMAIN labels' = 1 .. Len(labels) + 1
          /\ \A l \in DOMAIN labels : labels'[l] = labels[l]
          /\ labels'[Len(labels) + 1] = <<msg.reading, i + 1>>
      BY <1>1, <3>1, <3>2, LabelFacts
    <3>4. GivenBack = Len(labels) /\ GivenBack' = GivenBack
      BY <1>1, <3>1, <3>3 DEF GivenBack
    <3>5. msg.reading <= Len(readings)
      <4>1. msg.reading \in DOMAIN readings
        BY <3>1 DEF InOrder, HasRead, Asked
      <4>2. DOMAIN readings = 1 .. Len(readings)
        BY ReadingFacts DEF OwnTypes
      <4> QED
        BY <1>1, <4>1, <4>2
    <3>6. \A l \in DOMAIN labels' : l \in DOMAIN labels \/ l = Len(labels) + 1
      BY <1>1, <3>3
    <3>7. Len(labels) + 1 > GivenBack - i
      BY <1>1, <3>4
    <3>8. (Len(labels) + 1) - (GivenBack - i) = i + 1
      BY <1>1, <3>4
    <3>9. \A l \in DOMAIN labels' : labels'[l][1] <= Len(readings)
      BY <3>3, <3>5, <3>6 DEF Counted
    <3>10. ASSUME NEW l \in DOMAIN labels'
           PROVE  /\ l > GivenBack - i => labels'[l] = <<msg.reading, l - (GivenBack - i)>>
                  /\ l <= GivenBack - i => labels'[l][1] < msg.reading
      <4>1. CASE l \in DOMAIN labels
        BY <3>1, <3>3, <4>1 DEF Counted
      <4>2. CASE l = Len(labels) + 1
        BY <1>1, <3>3, <3>4, <3>7, <3>8, <4>2
      <4> QED
        BY <3>6, <4>1, <4>2
    <3> QED
      BY <3>1, <3>4, <3>9, <3>10 DEF Counted
  <2>10. CASE FilterGiveBack
    <3>1. /\ fpc = "frame" /\ fpc' = "top" /\ rpc = "finish" /\ rpc' = "idle" /\ i' = i + 1
          /\ UNCHANGED <<labels, readings, msg>>
      BY <2>10 DEF FilterGiveBack, Transfer!GiveBack
    <3>2. GivenBack' = GivenBack + 1
      BY <1>1, <3>1 DEF GivenBack
    <3>3. GivenBack' - i' = GivenBack - i /\ i' <= msg.payload /\ i' <= GivenBack'
      BY <1>1, <3>1, <3>2 DEF Counted
    <3> QED
      BY <3>1, <3>3 DEF Counted
  <2> QED
    BY <1>4, <2>1, <2>2, <2>3, <2>4, <2>5, <2>6, <2>7, <2>8, <2>9, <2>10 DEF FilterThread
<1>5. CASE ReaderThread
  <2>1. UNCHANGED <<labels, msg, i, rpc, readings, fpc>>
    BY <1>5 DEF ReaderThread, ReaderConnect, ReaderExit, ReaderGoOn, ReaderPopStop,
       ReaderStop, ReaderReconnect, ReaderNothing, ReaderBeginReceive, ReaderEndReceive,
       ReaderAcquire, transferVars, Transfer!BeginReceive, Transfer!EndReceive,
       Transfer!Publish, Transfer!Acquire, Transfer!AcquireFails, Transfer!readerVars
  <2> QED
    BY <1>1, <2>1, CountedKept
<1>6. CASE Call
  <2>1. UNCHANGED <<labels, msg, i, rpc, fpc>>
    BY <1>6 DEF Call, Read, CancelReading, Disconnect, WriteCr, SetMeasurement, transferVars
  <2>2. Len(readings) <= Len(readings')
    <3>1. CASE Read
      <4>1. \A s \in Seq(Readings) : \A r : Len(Append(s, r)) = Len(s) + 1
        OBVIOUS
      <4> QED
        BY <1>1, <3>1, <4>1 DEF Read, OwnTypes
    <3>2. CASE ~Read
      BY <1>1, <1>6, <3>2 DEF Call, CancelReading, Disconnect, WriteCr, SetMeasurement
    <3> QED
      BY <3>1, <3>2
  <2> QED
    BY <2>1, <2>2, CountedKept
<1>7. CASE GoOn
  <2>1. UNCHANGED <<labels, msg, i, rpc, readings, fpc>>
    BY <1>7 DEF GoOn, CancelReader, Halt, Wake, Join, Close, WriteCrReturns, transferVars
  <2> QED
    BY <1>1, <2>1, CountedKept
<1>8. CASE UNCHANGED vars
  BY <1>1, <1>8, CountedKept DEF vars, transferVars
<1> QED
  BY <1>3, <1>4, <1>5, <1>6, <1>7, <1>8 DEF Next

\* What is done stays complete when others are labelled, asked for or end otherwise.
LEMMA DoneKept ==
  ASSUME OwnTypes, OwnTypes', DoneIsComplete,
         Len(labels) <= Len(labels'),
         \A l \in DOMAIN labels : labels'[l] = labels[l],
         \A l \in DOMAIN labels' : l \notin DOMAIN labels =>
           /\ labels'[l][1] \in DOMAIN readings
           /\ readings[labels'[l][1]].outcome # "done",
         NEW r \in DOMAIN readings, readings[r].outcome = "done"
  PROVE  \E before \in 0 .. Len(labels') - readings[r].asked :
           /\ \A k \in 1 .. readings[r].asked : labels'[before + k] = <<r, k>>
           /\ \A j \in DOMAIN labels' :
                labels'[j][1] = r => j \in before + 1 .. before + readings[r].asked
<1>1. /\ Len(labels) \in Nat /\ DOMAIN labels = 1 .. Len(labels)
      /\ Len(labels') \in Nat /\ DOMAIN labels' = 1 .. Len(labels')
      /\ readings[r].asked \in Nat
  <2>1. readings[r] \in Readings
    BY ReadingFacts DEF OwnTypes
  <2> QED
    BY <2>1, LabelFacts DEF OwnTypes, Readings
<1>2. PICK before \in 0 .. Len(labels) - readings[r].asked :
        /\ \A k \in 1 .. readings[r].asked : labels[before + k] = <<r, k>>
        /\ \A j \in DOMAIN labels :
             labels[j][1] = r => j \in before + 1 .. before + readings[r].asked
  BY DEF DoneIsComplete
<1>3. before \in 0 .. Len(labels') - readings[r].asked
  BY <1>1
<1>4. \A k \in 1 .. readings[r].asked : labels'[before + k] = <<r, k>>
  <2>1. \A k \in 1 .. readings[r].asked : before + k \in DOMAIN labels
    BY <1>1
  <2> QED
    BY <1>2, <2>1
<1>5. \A j \in DOMAIN labels' :
        labels'[j][1] = r => j \in before + 1 .. before + readings[r].asked
  BY <1>2
<1> QED
  BY <1>3, <1>4, <1>5

LEMMA StepDone ==
  ASSUME NoSkips, OwnTypes, OwnTypes', Places, InOrder, Counted, DoneIsComplete, [Next]_vars
  PROVE  DoneIsComplete'
<1> USE DEF filterVars, deviceVars, clientVars, readerVars
<1>1. /\ labels \in Seq(Nat \X Nat) /\ Len(labels) \in Nat /\ DOMAIN labels = 1 .. Len(labels)
      /\ i \in Nat /\ msg.payload \in Nat /\ msg.reading \in Nat
      /\ readings \in Seq(Readings)
  BY LabelFacts DEF OwnTypes, Messages
\* What neither labels nor asks nor ends.
<1>2. ASSUME UNCHANGED <<labels, readings>> PROVE DoneIsComplete'
  <2>1. labels' = labels /\ readings' = readings
    BY <1>2
  <2>2. ASSUME NEW r \in DOMAIN readings', readings'[r].outcome = "done"
        PROVE  \E before \in 0 .. Len(labels') - readings'[r].asked :
                 /\ \A k \in 1 .. readings'[r].asked : labels'[before + k] = <<r, k>>
                 /\ \A j \in DOMAIN labels' :
                      labels'[j][1] = r => j \in before + 1 .. before + readings'[r].asked
    BY <2>1, <2>2 DEF DoneIsComplete
  <2> QED
    BY <2>2 DEF DoneIsComplete
\* The reading under way ends without being done.
<1>3. ASSUME HasRead, NEW o \in Outcomes, o # "done", EndReading(o), UNCHANGED labels
      PROVE  DoneIsComplete'
  <2>1. /\ DOMAIN readings' = DOMAIN readings
        /\ \A r \in DOMAIN readings : r # msg.reading => readings'[r] = readings[r]
        /\ readings'[msg.reading] = [asked |-> msg.payload, outcome |-> o]
    BY <1>3, EndFacts
  <2>2. readings'[msg.reading].outcome = o
    BY <2>1
  <2>3. \A r \in DOMAIN readings' :
          readings'[r].outcome = "done" => r \in DOMAIN readings /\ readings'[r] = readings[r]
    BY <1>3, <2>1, <2>2
  <2>4. labels' = labels
    BY <1>3
  <2> QED
    BY <2>3, <2>4 DEF DoneIsComplete
<1>4. CASE FilterThread
  <2>1. CASE FilterCheck \/ FilterPop \/ FilterLock \/ FilterStart \/ FilterBegin \/ FilterNext
    BY <1>2, <2>1 DEF FilterCheck, FilterPop, FilterLock, FilterStart, FilterBegin, FilterNext
  <2>2. CASE FilterStartBusy \/ FilterStop \/ FilterTimeout
    BY <1>3, <2>2 DEF FilterStartBusy, FilterStop, FilterTimeout, HasRead, Outcomes
  <2>3. CASE FilterDone
    <3>1. /\ fpc = "top" /\ i >= msg.payload /\ EndReading("done") /\ UNCHANGED labels
      BY <2>3 DEF FilterDone
    <3>2. HasRead /\ "done" \in Outcomes
      BY <3>1 DEF HasRead, Outcomes
    <3>10. rpc = "idle"
      BY <3>1 DEF Places
    <3>11. GivenBack = Len(labels)
      BY <1>1, <3>10 DEF GivenBack
    <3>12. i <= msg.payload /\ i <= GivenBack
      BY <3>1 DEF Counted
    <3>3. GivenBack = Len(labels) /\ i = msg.payload /\ i <= Len(labels)
      BY <1>1, <3>1, <3>11, <3>12
    <3>13. /\ msg.reading \in DOMAIN readings /\ DOMAIN readings' = DOMAIN readings
           /\ \A r \in DOMAIN readings : r # msg.reading => readings'[r] = readings[r]
           /\ readings'[msg.reading] = [asked |-> msg.payload, outcome |-> "done"]
      BY <3>1, <3>2, EndFacts
    <3>4. /\ msg.reading \in DOMAIN readings /\ DOMAIN readings' = DOMAIN readings
          /\ \A r \in DOMAIN readings : r # msg.reading => readings'[r] = readings[r]
          /\ readings'[msg.reading].asked = i
      BY <3>3, <3>13
    <3> DEFINE before == Len(labels) - i
    <3>5. before \in 0 .. Len(labels) - i /\ before \in Nat
      BY <1>1, <3>3
    <3>6. \A l \in DOMAIN labels : /\ l > before => labels[l] = <<msg.reading, l - before>>
                                   /\ l <= before => labels[l][1] < msg.reading
      BY <3>1, <3>3 DEF Counted
    <3> HIDE DEF before
    <3>7. \A k \in 1 .. i : labels[before + k] = <<msg.reading, k>>
      <4>1. \A k \in 1 .. i : before + k \in DOMAIN labels /\ before + k > before
                               /\ (before + k) - before = k
        BY <1>1, <3>5 DEF before
      <4> QED
        BY <3>6, <4>1
    <3>8. \A j \in DOMAIN labels : labels[j][1] = msg.reading => j \in before + 1 .. before + i
      <4>1. before + i = Len(labels)
        BY <1>1, <3>3 DEF before
      <4>2. SUFFICES ASSUME NEW j \in DOMAIN labels, labels[j][1] = msg.reading
                     PROVE  j \in before + 1 .. before + i
        OBVIOUS
      <4>3. labels[j][1] \in Nat /\ j \in Nat /\ j <= Len(labels)
        BY <1>1, LabelFacts
      <4>4. ~(j <= before)
        BY <1>1, <3>6, <4>2, <4>3
      <4> QED
        BY <1>1, <3>5, <4>1, <4>3, <4>4
    <3>9. ASSUME NEW r \in DOMAIN readings', readings'[r].outcome = "done"
          PROVE  \E b \in 0 .. Len(labels') - readings'[r].asked :
                   /\ \A k \in 1 .. readings'[r].asked : labels'[b + k] = <<r, k>>
                   /\ \A j \in DOMAIN labels' :
                        labels'[j][1] = r => j \in b + 1 .. b + readings'[r].asked
      <4>1. CASE r = msg.reading
        BY <3>1, <3>4, <3>5, <3>7, <3>8, <4>1
      <4>2. CASE r # msg.reading
        <5>1. r \in DOMAIN readings /\ readings'[r] = readings[r] /\ labels' = labels
          BY <3>1, <3>4, <4>2
        <5> QED
          BY <3>9, <5>1 DEF DoneIsComplete
      <4> QED
        BY <4>1, <4>2
    <3> QED
      BY <3>9 DEF DoneIsComplete
  <2>4. CASE FilterTake \/ FilterSkip \/ FilterGiveBack
    BY <1>2, <2>4 DEF FilterTake, FilterSkip, FilterGiveBack
  <2>5. CASE FilterProcess
    <3>1. /\ fpc = "frame" /\ labels' = Append(labels, <<msg.reading, i + 1>>)
          /\ UNCHANGED readings
      BY <2>5 DEF FilterProcess
    <3>2. <<msg.reading, i + 1>> \in Nat \X Nat
      BY <1>1
    <3>3. /\ Len(labels') = Len(labels) + 1 /\ DOMAIN labels' = 1 .. Len(labels) + 1
          /\ \A l \in DOMAIN labels : labels'[l] = labels[l]
          /\ labels'[Len(labels) + 1] = <<msg.reading, i + 1>>
      BY <1>1, <3>1, <3>2, LabelFacts
    <3>4. msg.reading \in DOMAIN readings /\ readings[msg.reading].outcome # "done"
      BY <3>1 DEF InOrder, HasRead, Asked
    <3>7. \A l \in DOMAIN labels' : l \in DOMAIN labels \/ l = Len(labels) + 1
      BY <1>1, <3>3
    <3>8. labels'[Len(labels) + 1][1] = msg.reading
      BY <3>3
    <3>5. \A l \in DOMAIN labels' : l \notin DOMAIN labels =>
            /\ labels'[l][1] \in DOMAIN readings
            /\ readings[labels'[l][1]].outcome # "done"
      BY <3>4, <3>7, <3>8
    <3>6. Len(labels) <= Len(labels')
      BY <1>1, <3>3
    <3> QED
      BY <3>1, <3>3, <3>5, <3>6, DoneKept DEF DoneIsComplete
  <2> QED
    BY <1>4, <2>1, <2>2, <2>3, <2>4, <2>5 DEF FilterThread
<1>5. CASE Call
  <2>1. CASE Read
    <3> DEFINE new == [asked |-> Frames(measurement), outcome |-> "pending"]
    <3>1. new \in Readings
      BY FrameCounts DEF OwnTypes, Readings, Outcomes
    <3>2. readings' = Append(readings, new) /\ UNCHANGED labels
      BY <2>1 DEF Read
    <3>5. new.outcome = "pending"
      OBVIOUS
    <3> HIDE DEF new
    <3>6. /\ Len(readings) \in Nat /\ DOMAIN readings = 1 .. Len(readings)
          /\ DOMAIN readings' = 1 .. Len(readings) + 1
          /\ \A r \in DOMAIN readings : readings'[r] = readings[r]
          /\ readings'[Len(readings) + 1] = new
      BY <1>1, <3>1, <3>2, ReadingFacts
    <3>3. \A r \in DOMAIN readings' :
            (r \in DOMAIN readings /\ readings'[r] = readings[r]) \/ readings'[r] = new
      BY <3>6
    <3>4. \A r \in DOMAIN readings' :
            readings'[r].outcome = "done" => r \in DOMAIN readings /\ readings'[r] = readings[r]
      BY <3>3, <3>5
    <3>7. labels' = labels
      BY <3>2
    <3> QED
      BY <3>4, <3>7 DEF DoneIsComplete
  <2>2. CASE ~Read
    BY <1>2, <1>5, <2>2 DEF Call, CancelReading, Disconnect, WriteCr, SetMeasurement
  <2> QED
    BY <2>1, <2>2
<1>6. CASE DeviceSend \/ ReaderThread \/ GoOn \/ UNCHANGED vars
  <2>1. UNCHANGED <<labels, readings>>
    BY <1>6 DEF DeviceSend, ReaderThread, ReaderConnect, ReaderExit, ReaderGoOn,
       ReaderPopStop, ReaderStop, ReaderReconnect, ReaderNothing, ReaderBeginReceive,
       ReaderEndReceive, ReaderAcquire, GoOn, CancelReader, Halt, Wake, Join, Close,
       WriteCrReturns, vars
  <2> QED
    BY <1>2, <2>1
<1> QED
  BY <1>4, <1>5, <1>6 DEF Next

LEMMA CountAlways == ASSUME NoSkips PROVE Spec => [](OwnTypes /\ CountInv)
<1>1. Init => OwnTypes /\ CountInv
  BY InitOwnTypes, InitCount
<1>2. OwnTypes /\ CountInv /\ [Next]_vars => (OwnTypes /\ CountInv)'
  BY StepOwnTypes, StepPlaces, StepInOrder, StepCounted, StepDone DEF CountInv
<1> QED
  BY <1>1, <1>2, PTL DEF Spec

\* Without skipped frames, a reading that ran to its end passed every frame it was asked
\* for to the filters, once, in order and together: through any number of cancels,
\* time-outs and changes of the measurement, and even after an overflow, because the
\* filter thread counts by the message alone.
THEOREM DoneComplete == ASSUME NoSkips PROVE Spec => []DoneIsComplete
BY CountAlways, PTL DEF CountInv
-----------------------------------------------------------------------------
(* Assemblies whose device is fast enough and whose readings are not cancelled and   *)
(* fit into the ring.  The application may still disconnect at any moment.           *)

Plain ==
  /\ NoSkips
  /\ ~SlowDevice
  /\ MaxCancels = 0
  /\ \A m \in Measurements : Frames(m) < BufferSize

\* Where the threads are.  A device that is being reconnected has sent nothing.
PlainPlaces ==
  /\ cpc # "cancel"
  /\ cpc \in {"close", "disconnected"} => fpc = "exited"
  /\ rdpc = "reconnect" => ~link /\ device.sent = 0

\* A STOP comes from disconnect() only, and after every READ.
StopsLast ==
  /\ \A j \in DOMAIN filterQueue : Connected => IsRead(filterQueue[j])
  /\ \A j, k \in DOMAIN filterQueue : j < k /\ IsRead(filterQueue[k]) => IsRead(filterQueue[j])

AllFit == \A r \in DOMAIN readings : readings[r].asked < BufferSize

\* A reading is under way in the device.
Active == fpc \in {"begin", "top", "frame"}

\* The frames of it that have been given back.
Round == IF fpc = "begin" THEN 0 ELSE i

\* The frames sent and not given back, and those the device has still to send.
InFlight == (Len(arrived) + Len(stream)) - GivenBack

Rest == IF Sending THEN device.total - device.sent ELSE 0

\* What the device sent, in order; what has arrived and what is on its way.
Sent(p) == IF p <= Len(arrived) THEN arrived[p] ELSE stream[p - Len(arrived)]

\* No reading will be started any more.
NoMore ==
  /\ ~Connected
  /\ fpc \in {"check", "pop", "exited"}
  /\ \A j \in DOMAIN filterQueue : ~IsRead(filterQueue[j])

Exact ==
  /\ overflows = 0
  /\ Len(labels) = Len(delivered)
  /\ Len(arrived) = received + (IF wpc = "filling" THEN 1 ELSE 0)
  /\ \A j \in DOMAIN labels : j \in DOMAIN arrived /\ arrived[j] = labels[j]

HasRoom == InFlight + Rest < BufferSize

\* All that was sent and not given back belongs to the reading under way, numbered in
\* order, and with what is still to come it is no more than the reading asked for.
OneReading ==
  Active =>
    /\ \A p \in GivenBack + 1 .. Len(arrived) + Len(stream) :
         Sent(p) = <<msg.reading, Round + (p - GivenBack)>>
    /\ Round + InFlight + Rest <= msg.payload
    /\ Sending => device.reading = msg.reading /\ device.sent = Round + InFlight

\* Between readings nothing is left of the last one, until the assembly disconnects.
NothingLeft == ~Active => (InFlight = 0 /\ ~Sending) \/ NoMore

Flow == Exact /\ HasRoom /\ OneReading /\ NothingLeft

PlainInv == PlainPlaces /\ StopsLast /\ AllFit /\ Flow

RingOK == TransferProofs!TypeOK /\ TransferProofs!RingInv

\* The ring in the words of this module.
LEMMA RingFacts ==
  ASSUME OwnTypes, RingOK, Exact
  PROVE  /\ received \in Nat /\ Len(delivered) \in Nat
         /\ Len(labels) \in Nat /\ Len(arrived) \in Nat /\ Len(stream) \in Nat
         /\ BufferSize \in Nat \ {0} /\ GivenBack \in Int
         /\ (IF wpc = "publish" THEN received - 1 ELSE received) - GivenBack \in 0 .. BufferSize
         /\ full => (IF wpc = "publish" THEN received - 1 ELSE received) - GivenBack = BufferSize
         /\ Transfer!HasFrame <=>
              (IF wpc = "publish" THEN received - 1 ELSE received) - GivenBack > 0
         /\ rpc # "idle" => Transfer!HasFrame
         /\ \A k \in 1 .. Len(delivered) : delivered[k] = k
<1> USE TransferAssumptions DEF Transfer!BufferSizeAssumption
<1>1. /\ TransferProofs!RingAgrees /\ TransferProofs!WriterAgrees
      /\ TransferProofs!ReaderAgrees /\ TransferProofs!ExactDelivery
  BY DEF Exact, RingOK, TransferProofs!RingInv
<1>2. /\ Len(labels) \in Nat /\ Len(arrived) \in Nat /\ Len(stream) \in Nat
      /\ GivenBack \in Int /\ BufferSize \in Nat \ {0}
  BY LabelFacts DEF OwnTypes, GivenBack
<1>3. received \in Nat /\ delivered \in Seq(Int) /\ full \in BOOLEAN
  BY DEF RingOK, TransferProofs!TypeOK
<1>4. TransferProofs!Completed = (IF wpc = "publish" THEN received - 1 ELSE received)
  BY <1>3 DEF TransferProofs!Completed
<1>5. TransferProofs!Consumed = GivenBack
  BY DEF TransferProofs!Consumed, GivenBack, Exact
<1>6. /\ TransferProofs!Published \in 0 .. BufferSize
      /\ TransferProofs!HasFrame <=> TransferProofs!Published > 0
  BY TransferProofs!Distances, TransferAssumptions DEF RingOK
<1>7. TransferProofs!HasFrame <=> Transfer!HasFrame
  BY DEF TransferProofs!HasFrame, Transfer!HasFrame
<1>8. full => TransferProofs!Published = BufferSize
  BY DEF TransferProofs!Published
<1>9. TransferProofs!Completed - TransferProofs!Consumed = TransferProofs!Published
  BY <1>1 DEF TransferProofs!RingAgrees
<1>10. rpc # "idle" => TransferProofs!HasFrame
  BY <1>1 DEF TransferProofs!ReaderAgrees
<1>11. \A k \in 1 .. Len(delivered) : delivered[k] = k
  BY <1>1 DEF TransferProofs!ExactDelivery, Exact
<1>12. Len(delivered) \in Nat
  BY <1>2 DEF Exact
<1> QED
  BY <1>2, <1>3, <1>4, <1>5, <1>6, <1>7, <1>8, <1>9, <1>10, <1>11, <1>12

LEMMA InitPlain == Init => PlainInv
<1> SUFFICES ASSUME Init PROVE PlainInv
  OBVIOUS
<1>1. /\ filterQueue = << >> /\ labels = << >> /\ readings = << >> /\ arrived = << >>
      /\ stream = << >> /\ delivered = << >> /\ received = 0 /\ overflows = 0
      /\ cpc = "idle" /\ fpc = "check" /\ rpc = "idle" /\ rdpc = "connect" /\ device = Idle
      /\ wpc = "receive"
  BY DEF Init, Transfer!Init
<1>2. ~Sending /\ Rest = 0
  BY <1>1 DEF Sending, Rest, Idle
<1>3. GivenBack = 0 /\ InFlight = 0
  BY <1>1 DEF GivenBack, InFlight
<1>4. Exact
  BY <1>1 DEF Exact
<1>5. HasRoom /\ OneReading /\ NothingLeft
  BY <1>1, <1>2, <1>3, ConfigAssumption DEF HasRoom, OneReading, NothingLeft, Active
<1>6. PlainPlaces /\ StopsLast /\ AllFit
  BY <1>1 DEF PlainPlaces, StopsLast, AllFit
<1> QED
  BY <1>4, <1>5, <1>6 DEF PlainInv, Flow

LEMMA NoCancel == ASSUME Plain, OwnTypes PROVE ~CancelReading
<1>1. calls.cancel \in Nat
  BY DEF OwnTypes
<1> QED
  BY <1>1 DEF Plain, CancelReading

LEMMA StepPlainPlaces ==
  ASSUME Plain, OwnTypes, OwnTypes', PlainPlaces, [Next]_vars
  PROVE  PlainPlaces'
<1> USE DEF PlainPlaces, filterVars, deviceVars, clientVars, readerVars
<1>1. CASE DeviceSend
  BY <1>1 DEF DeviceSend
<1>2. CASE FilterThread
  <2>1. UNCHANGED <<cpc, rdpc, link>> /\ (UNCHANGED device \/ device'.sent = 0)
        /\ fpc # "exited"
    BY <1>2 DEF FilterThread, FilterCheck, FilterPop, FilterLock, FilterStart,
       FilterStartBusy, FilterBegin, FilterNext, FilterStop, FilterDone, FilterTake,
       FilterTimeout, FilterSkip, FilterProcess, FilterGiveBack
  <2> QED
    BY <2>1
<1>3. CASE ReaderThread
  <2>1. CASE ReaderStop
    BY <2>1 DEF ReaderStop, Idle
  <2>2. CASE ~ReaderStop
    <3>1. UNCHANGED <<cpc, fpc, device>> /\ rdpc' # "reconnect"
      BY <1>3, <2>2 DEF ReaderThread, ReaderConnect, ReaderExit, ReaderGoOn, ReaderPopStop,
         ReaderReconnect, ReaderNothing, ReaderBeginReceive, ReaderEndReceive, ReaderAcquire
    <3> QED
      BY <3>1
  <2> QED
    BY <2>1, <2>2
<1>4. CASE Call
  <2>1. UNCHANGED <<fpc, rdpc, link, device>> /\ cpc = "idle"
    BY <1>4 DEF Call, Read, CancelReading, Disconnect, WriteCr, SetMeasurement
  <2>2. cpc' \in {"idle", "disconnect", "command"}
    BY <1>4, <2>1, NoCancel DEF Call, Read, Disconnect, WriteCr, SetMeasurement
  <2> QED
    BY <2>1, <2>2
<1>5. CASE GoOn
  BY <1>5 DEF GoOn, CancelReader, Halt, Wake, Join, Close, WriteCrReturns
<1>6. CASE UNCHANGED vars
  BY <1>6 DEF vars
<1> QED
  BY <1>1, <1>2, <1>3, <1>4, <1>5, <1>6 DEF Next

LEMMA StepStopsLast ==
  ASSUME Plain, OwnTypes, PlainPlaces, StopsLast, [Next]_vars
  PROVE  StopsLast'
<1> USE DEF filterVars, deviceVars, clientVars, readerVars
<1>1. filterQueue \in Seq(Messages)
  BY DEF OwnTypes
\* The queue is left alone, and the assembly is not connected again.
<1>2. ASSUME UNCHANGED filterQueue, Connected' => Connected PROVE StopsLast'
  <2>1. filterQueue' = filterQueue
    BY <1>2
  <2> QED
    BY <1>2, <2>1 DEF StopsLast
\* A message is taken off.
<1>3. ASSUME filterQueue # << >>, filterQueue' = Tail(filterQueue), UNCHANGED cpc
      PROVE  StopsLast'
  <2>1. \A j \in DOMAIN filterQueue' :
          j \in Nat /\ j + 1 \in DOMAIN filterQueue /\ filterQueue'[j] = filterQueue[j + 1]
    BY <1>1, <1>3, QueueFacts
  <2>2. Connected' = Connected
    BY <1>3 DEF Connected
  <2>3. \A j, k \in DOMAIN filterQueue' : j < k => j + 1 < k + 1
    BY <2>1
  <2> QED
    BY <2>1, <2>2, <2>3 DEF StopsLast
\* One is put into it.
<1>4. ASSUME NEW m \in Messages, filterQueue' = Append(filterQueue, m),
             Connected' => Connected, Connected' \/ IsRead(m) => Connected /\ IsRead(m)
      PROVE  StopsLast'
  <2>1. \A j \in DOMAIN filterQueue' :
          \/ j \in DOMAIN filterQueue /\ filterQueue'[j] = filterQueue[j] /\ j \in Nat
               /\ j < Len(filterQueue) + 1
          \/ j = Len(filterQueue) + 1 /\ j \in Nat /\ filterQueue'[j] = m
    BY <1>1, <1>4, QueueFacts
  <2>2. \A j \in DOMAIN filterQueue' : Connected' => IsRead(filterQueue'[j])
    BY <1>4, <2>1 DEF StopsLast
  <2>3. ASSUME NEW j \in DOMAIN filterQueue', NEW k \in DOMAIN filterQueue', j < k,
               IsRead(filterQueue'[k])
        PROVE  IsRead(filterQueue'[j])
    <3>1. j \in DOMAIN filterQueue /\ filterQueue'[j] = filterQueue[j]
      <4>1. Len(filterQueue) \in Nat
        BY <1>1
      <4> QED
        BY <2>1, <2>3, <4>1
    <3>2. CASE k \in DOMAIN filterQueue
      BY <2>1, <2>3, <3>1, <3>2 DEF StopsLast
    <3>3. CASE k \notin DOMAIN filterQueue
      BY <1>4, <2>1, <2>3, <3>1, <3>3 DEF StopsLast
    <3> QED
      BY <3>2, <3>3
  <2> QED
    BY <2>2, <2>3 DEF StopsLast
<1>5. CASE FilterThread
  <2>1. CASE FilterPop \/ FilterStop
    <3>1. filterQueue # << >> /\ filterQueue' = Tail(filterQueue) /\ UNCHANGED cpc
      BY <2>1 DEF FilterPop, FilterStop, StopIsNext
    <3> QED
      BY <1>3, <3>1
  <2>2. CASE ~(FilterPop \/ FilterStop)
    <3>1. UNCHANGED filterQueue /\ UNCHANGED cpc
      BY <1>5, <2>2 DEF FilterThread, FilterCheck, FilterLock, FilterStart,
         FilterStartBusy, FilterBegin, FilterNext, FilterDone, FilterTake,
         FilterTimeout, FilterSkip, FilterProcess, FilterGiveBack
    <3> QED
      BY <1>2, <3>1 DEF Connected
  <2> QED
    BY <2>1, <2>2
<1>6. CASE Call
  <2>1. CASE Read
    <3> DEFINE m == READ(Frames(measurement), Len(readings'))
    <3>1. filterQueue' = Append(filterQueue, m) /\ cpc = "idle" /\ cpc' = "idle"
      BY <2>1 DEF Read
    <3>2. m \in Messages /\ IsRead(m)
      <4>1. Len(readings') \in Nat
        <5>1. [asked |-> Frames(measurement), outcome |-> "pending"] \in Readings
          BY FrameCounts DEF OwnTypes, Readings, Outcomes
        <5> QED
          BY <2>1, <5>1, ReadingFacts DEF Read, OwnTypes
      <4> QED
        BY <4>1, FrameCounts DEF READ, Messages, IsRead, OwnTypes
    <3> HIDE DEF m
    <3> QED
      BY <1>4, <3>1, <3>2 DEF Connected
  <2>2. CASE Disconnect
    <3>1. filterQueue' = Append(filterQueue, STOP) /\ cpc' = "disconnect"
      BY <2>2 DEF Disconnect
    <3>2. STOP \in Messages /\ ~IsRead(STOP)
      BY DEF STOP, Messages, IsRead
    <3> QED
      BY <1>4, <3>1, <3>2 DEF Connected
  <2>3. CASE WriteCr \/ \E m \in Measurements : SetMeasurement(m)
    BY <1>2, <2>3 DEF WriteCr, SetMeasurement, Connected
  <2> QED
    BY <1>6, <2>1, <2>2, <2>3, NoCancel DEF Call
<1>7. CASE GoOn
  <2>1. CASE Wake
    <3>1. filterQueue' = Append(filterQueue, STOP) /\ cpc' = "join"
      BY <2>1 DEF Wake
    <3>2. STOP \in Messages /\ ~IsRead(STOP)
      BY DEF STOP, Messages, IsRead
    <3> QED
      BY <1>4, <3>1, <3>2 DEF Connected
  <2>2. CASE CancelReader
    BY <1>2, <2>2 DEF CancelReader, Connected, PlainPlaces
  <2>3. CASE Halt \/ Join \/ Close \/ WriteCrReturns
    BY <1>2, <2>3 DEF Halt, Join, Close, WriteCrReturns, Connected
  <2> QED
    BY <1>7, <2>1, <2>2, <2>3 DEF GoOn
<1>8. CASE DeviceSend \/ ReaderThread \/ UNCHANGED vars
  <2>1. UNCHANGED <<filterQueue, cpc>>
    BY <1>8 DEF DeviceSend, ReaderThread, ReaderConnect, ReaderExit, ReaderGoOn,
       ReaderPopStop, ReaderStop, ReaderReconnect, ReaderNothing, ReaderBeginReceive,
       ReaderEndReceive, ReaderAcquire, vars
  <2> QED
    BY <1>2, <2>1 DEF Connected
<1> QED
  BY <1>5, <1>6, <1>7, <1>8 DEF Next

LEMMA StepAllFit ==
  ASSUME Plain, OwnTypes, InOrder, AllFit, [Next]_vars
  PROVE  AllFit'
<1> USE DEF filterVars, deviceVars, clientVars, readerVars
<1>1. readings \in Seq(Readings)
  BY DEF OwnTypes
<1>2. ASSUME UNCHANGED readings PROVE AllFit'
  <2>1. readings' = readings
    BY <1>2
  <2> QED
    BY <2>1 DEF AllFit
<1>3. ASSUME HasRead, NEW o \in Outcomes, EndReading(o) PROVE AllFit'
  <2>1. /\ DOMAIN readings' = DOMAIN readings
        /\ \A r \in DOMAIN readings : r # msg.reading => readings'[r] = readings[r]
        /\ readings'[msg.reading] = [asked |-> msg.payload, outcome |-> o]
    BY <1>3, EndFacts
  <2>2. Asked(msg, readings)
    BY <1>3 DEF InOrder
  <2>3. readings'[msg.reading].asked = readings[msg.reading].asked
    BY <2>1, <2>2 DEF Asked
  <2> QED
    BY <2>1, <2>3 DEF AllFit
<1>4. CASE FilterThread
  <2>1. CASE FilterStartBusy \/ FilterStop \/ FilterDone \/ FilterTimeout
    <3>1. HasRead /\ \E o \in Outcomes : EndReading(o)
      BY <2>1 DEF FilterStartBusy, FilterStop, FilterDone, FilterTimeout, HasRead, Outcomes
    <3> QED
      BY <1>3, <3>1
  <2>2. CASE ~(FilterStartBusy \/ FilterStop \/ FilterDone \/ FilterTimeout)
    <3>1. UNCHANGED readings
      BY <1>4, <2>2 DEF FilterThread, FilterCheck, FilterPop, FilterLock, FilterStart,
         FilterBegin, FilterNext, FilterTake, FilterSkip, FilterProcess, FilterGiveBack
    <3> QED
      BY <1>2, <3>1
  <2> QED
    BY <2>1, <2>2
<1>5. CASE Read
  <2> DEFINE new == [asked |-> Frames(measurement), outcome |-> "pending"]
  <2>1. new \in Readings /\ new.asked < BufferSize
    BY FrameCounts DEF OwnTypes, Readings, Outcomes, Plain
  <2>2. readings' = Append(readings, new)
    BY <1>5 DEF Read
  <2> HIDE DEF new
  <2>3. /\ Len(readings) \in Nat /\ DOMAIN readings = 1 .. Len(readings)
        /\ DOMAIN readings' = 1 .. Len(readings) + 1
        /\ \A r \in DOMAIN readings : readings'[r] = readings[r]
        /\ readings'[Len(readings) + 1] = new
    BY <1>1, <2>1, <2>2, ReadingFacts
  <2>4. \A r \in DOMAIN readings' :
          (r \in DOMAIN readings /\ readings'[r] = readings[r]) \/ readings'[r] = new
    BY <2>3
  <2> QED
    BY <2>1, <2>4 DEF AllFit
<1>6. CASE DeviceSend \/ ReaderThread \/ (Call /\ ~Read) \/ GoOn \/ UNCHANGED vars
  <2>1. UNCHANGED readings
    BY <1>6 DEF DeviceSend, ReaderThread, ReaderConnect, ReaderExit, ReaderGoOn,
       ReaderPopStop, ReaderStop, ReaderReconnect, ReaderNothing, ReaderBeginReceive,
       ReaderEndReceive, ReaderAcquire, Call, CancelReading, Disconnect, WriteCr,
       SetMeasurement, GoOn, CancelReader, Halt, Wake, Join, Close, WriteCrReturns, vars
  <2> QED
    BY <1>2, <2>1
<1> QED
  BY <1>4, <1>5, <1>6 DEF Next

LEMMA FlowNumbers ==
  ASSUME OwnTypes, Places, Counted, RingOK, Flow
  PROVE  /\ i \in Nat /\ msg.payload \in Nat /\ msg.reading \in Nat
         /\ device.sent \in Nat /\ device.total \in Nat /\ device.reading \in Nat
         /\ Round \in Nat /\ InFlight \in Nat /\ Rest \in Nat /\ GivenBack \in Nat
         /\ Sending => Rest = device.total - device.sent /\ Rest > 0
         /\ ~Sending => Rest = 0
<1>1. /\ i \in Nat /\ msg.payload \in Nat /\ msg.reading \in Nat
      /\ device.sent \in Nat /\ device.total \in Nat /\ device.reading \in Nat
  BY DEF OwnTypes, Messages
<1>2. /\ received \in Nat /\ Len(labels) \in Nat /\ Len(arrived) \in Nat /\ Len(stream) \in Nat
      /\ BufferSize \in Nat \ {0} /\ GivenBack \in Int
      /\ (IF wpc = "publish" THEN received - 1 ELSE received) - GivenBack \in 0 .. BufferSize
  BY RingFacts DEF Flow
<1>3. received - GivenBack >= 0
  BY <1>2
<1>4. Len(arrived) >= received
  BY <1>2 DEF Flow, Exact
<1>5. InFlight \in Nat
  BY <1>2, <1>3, <1>4 DEF InFlight
<1>6. GivenBack \in Nat
  <2>1. rpc = "finish" => i <= GivenBack
    BY DEF Places, Counted
  <2> QED
    BY <1>1, <1>2, <2>1 DEF GivenBack
<1>7. Rest \in Nat /\ (Sending => Rest = device.total - device.sent /\ Rest > 0)
  BY <1>1 DEF Rest, Sending
<1> QED
  BY <1>1, <1>5, <1>6, <1>7 DEF Round, Rest

\* What counts and labels the frames is left alone.
LEMMA FlowSame ==
  ASSUME Exact, HasRoom,
         UNCHANGED <<overflows, labels, delivered, received, arrived, stream, device>>,
         rpc' = "finish" <=> rpc = "finish",
         wpc' = "filling" <=> wpc = "filling"
  PROVE  /\ Exact' /\ HasRoom'
         /\ GivenBack' = GivenBack /\ InFlight' = InFlight /\ Rest' = Rest
         /\ Sending' <=> Sending
         /\ \A p : Sent(p)' = Sent(p)
<1>1. Exact'
  BY DEF Exact
<1>2. GivenBack' = GivenBack
  BY DEF GivenBack
<1>3. InFlight' = InFlight
  BY <1>2 DEF InFlight
<1>4. (Sending' <=> Sending) /\ Rest' = Rest
  BY DEF Sending, Rest
<1>5. \A p : Sent(p)' = Sent(p)
  BY DEF Sent
<1> QED
  BY <1>1, <1>2, <1>3, <1>4, <1>5 DEF HasRoom

\* So is the filter thread.
LEMMA FlowStays ==
  ASSUME Flow,
         UNCHANGED <<overflows, labels, delivered, received, arrived, stream, device>>,
         rpc' = "finish" <=> rpc = "finish",
         wpc' = "filling" <=> wpc = "filling",
         UNCHANGED <<fpc, msg, i>>, NoMore => NoMore'
  PROVE  Flow'
<1>1. /\ Exact' /\ HasRoom'
      /\ GivenBack' = GivenBack /\ InFlight' = InFlight /\ Rest' = Rest
      /\ Sending' <=> Sending
      /\ \A p : Sent(p)' = Sent(p)
  BY FlowSame DEF Flow
<1>2. Round' = Round /\ (Active' <=> Active)
  BY DEF Round, Active
<1>3. OneReading'
  BY <1>1, <1>2 DEF Flow, OneReading
<1>4. NothingLeft'
  BY <1>1, <1>2 DEF Flow, NothingLeft
<1> QED
  BY <1>1, <1>3, <1>4 DEF Flow

\* The steps of the filter thread.
LEMMA FilterFlow ==
  ASSUME Plain, OwnTypes, OwnTypes', Places, InOrder, Counted, RingOK, PlainInv, FilterThread
  PROVE  Flow'
<1> USE DEF filterVars, deviceVars, clientVars, readerVars
<1>1. /\ i \in Nat /\ msg.payload \in Nat /\ msg.reading \in Nat
      /\ device.sent \in Nat /\ device.total \in Nat /\ device.reading \in Nat
      /\ Round \in Nat /\ InFlight \in Nat /\ Rest \in Nat /\ GivenBack \in Nat
      /\ Sending => Rest = device.total - device.sent /\ Rest > 0
      /\ ~Sending => Rest = 0
  BY FlowNumbers DEF PlainInv
<1>2. /\ received \in Nat /\ Len(delivered) \in Nat
      /\ Len(labels) \in Nat /\ Len(arrived) \in Nat /\ Len(stream) \in Nat
      /\ BufferSize \in Nat \ {0}
  BY RingFacts DEF PlainInv, Flow
<1>3. Exact /\ HasRoom /\ OneReading /\ NothingLeft
  BY DEF PlainInv, Flow
<1>4. filterQueue \in Seq(Messages)
  BY DEF OwnTypes
\* The reading ends, or has not begun; nothing is left of it.
<1>5. ASSUME UNCHANGED <<transferVars, arrived, stream, device, labels>>,
             fpc' \notin {"begin", "top", "frame"}, (InFlight = 0 /\ ~Sending) \/ NoMore'
      PROVE  Flow'
  <2>1. /\ Exact' /\ HasRoom' /\ InFlight' = InFlight /\ (Sending' <=> Sending)
    BY <1>3, <1>5, FlowSame DEF transferVars
  <2>2. ~Active'
    BY <1>5 DEF Active
  <2> QED
    BY <1>5, <2>1, <2>2 DEF Flow, OneReading, NothingLeft
\* It goes on, in another place of the loop.
<1>6. ASSUME UNCHANGED <<overflows, labels, delivered, received, arrived, stream, device>>,
             rpc' = "finish" <=> rpc = "finish", wpc' = wpc,
             Active, Active', Round' = Round, msg' = msg
      PROVE  Flow'
  <2>1. /\ Exact' /\ HasRoom'
        /\ GivenBack' = GivenBack /\ InFlight' = InFlight /\ Rest' = Rest
        /\ Sending' <=> Sending
        /\ \A p : Sent(p)' = Sent(p)
    BY <1>3, <1>6, FlowSame
  <2>2. OneReading'
    BY <1>3, <1>6, <2>1 DEF OneReading
  <2> QED
    BY <1>6, <2>1, <2>2 DEF Flow, NothingLeft
<1>7. CASE FilterCheck
  <2>1. /\ fpc = "check" /\ fpc' \in {"pop", "exited"} /\ UNCHANGED <<cpc, filterQueue>>
        /\ UNCHANGED <<transferVars, arrived, stream, device, labels>>
    BY <1>7 DEF FilterCheck
  <2>2. NoMore => NoMore'
    BY <2>1 DEF NoMore, Connected
  <2>3. (InFlight = 0 /\ ~Sending) \/ NoMore
    BY <1>3, <2>1 DEF NothingLeft, Active
  <2> QED
    BY <1>5, <2>1, <2>2, <2>3
<1>8. CASE FilterPop
  <2>1. /\ fpc = "pop" /\ fpc' = IF IsRead(msg') THEN "lock" ELSE "check"
        /\ filterQueue # << >> /\ filterQueue' = Tail(filterQueue)
        /\ msg' = Head(filterQueue) /\ UNCHANGED cpc
        /\ UNCHANGED <<transferVars, arrived, stream, device, labels>>
    BY <1>8 DEF FilterPop, IsRead
  <2>2. /\ 1 \in DOMAIN filterQueue /\ msg' = filterQueue[1]
        /\ \A j \in DOMAIN filterQueue' :
             j + 1 \in DOMAIN filterQueue /\ filterQueue'[j] = filterQueue[j + 1]
    BY <1>4, <2>1, QueueFacts
  <2>3. NoMore => NoMore'
    BY <2>1, <2>2 DEF NoMore, Connected
  <2>4. (InFlight = 0 /\ ~Sending) \/ NoMore
    BY <1>3, <2>1 DEF NothingLeft, Active
  <2> QED
    BY <1>5, <2>1, <2>3, <2>4
<1>9. CASE FilterLock
  <2>1. /\ fpc = "lock" /\ fpc' = "start"
        /\ UNCHANGED <<transferVars, arrived, stream, device, labels>>
    BY <1>9 DEF FilterLock
  <2>2. InFlight = 0 /\ ~Sending
    BY <1>3, <2>1 DEF NothingLeft, Active, NoMore
  <2> QED
    BY <1>5, <2>1, <2>2
<1>10. CASE FilterStart
  <2>1. /\ fpc = "start" /\ fpc' = "begin" /\ ~Sending
        /\ device' = [reading |-> msg.reading, sent |-> 0, total |-> msg.payload]
        /\ UNCHANGED <<transferVars, arrived, stream, labels, msg>>
    BY <1>10 DEF FilterStart
  <2>2. InFlight = 0
    BY <1>3, <2>1 DEF NothingLeft, Active, NoMore
  <2>3. Exact'
    BY <1>3, <2>1 DEF Exact, transferVars
  <2>4. GivenBack' = GivenBack /\ InFlight' = 0 /\ Round' = 0
    BY <2>1, <2>2 DEF GivenBack, InFlight, Round, transferVars
  <2>5. device'.reading = msg.reading /\ device'.sent = 0 /\ device'.total = msg.payload
    BY <2>1
  <2>6. Rest' = msg.payload
    BY <1>1, <2>5 DEF Rest, Sending
  <2>7. msg.payload < BufferSize
    BY <2>1 DEF InOrder, HasRead, Asked, PlainInv, AllFit
  <2>8. HasRoom'
    BY <1>1, <1>2, <2>4, <2>6, <2>7 DEF HasRoom
  <2>9. \A p \in GivenBack' + 1 .. Len(arrived') + Len(stream') : FALSE
    BY <1>1, <1>2, <2>1, <2>2, <2>4 DEF InFlight
  <2>10. OneReading'
    BY <1>1, <2>1, <2>4, <2>5, <2>6, <2>9 DEF OneReading
  <2>11. NothingLeft'
    BY <2>1 DEF NothingLeft, Active
  <2> QED
    BY <2>3, <2>8, <2>10, <2>11 DEF Flow
<1>11. ~FilterStartBusy
  BY <1>3 DEF FilterStartBusy, NothingLeft, Active, NoMore
<1>12. CASE FilterBegin
  <2>1. /\ fpc = "begin" /\ fpc' = "top" /\ i' = 0 /\ msg' = msg
        /\ UNCHANGED <<transferVars, arrived, stream, device, labels>>
    BY <1>12 DEF FilterBegin
  <2>2. Active /\ Active' /\ Round' = Round
    BY <2>1 DEF Active, Round
  <2> QED
    BY <1>6, <2>1, <2>2 DEF transferVars
<1>13. CASE FilterNext
  <2>1. /\ fpc = "top" /\ fpc' = "frame" /\ i' = i /\ msg' = msg
        /\ UNCHANGED <<transferVars, arrived, stream, device, labels>>
    BY <1>13 DEF FilterNext
  <2>2. Active /\ Active' /\ Round' = Round
    BY <2>1 DEF Active, Round
  <2> QED
    BY <1>6, <2>1, <2>2 DEF transferVars
<1>14. CASE FilterStop
  <2>1. /\ fpc = "top" /\ fpc' = "check" /\ StopIsNext /\ filterQueue' = Tail(filterQueue)
        /\ UNCHANGED <<transferVars, arrived, stream, device, labels, cpc>>
    BY <1>14 DEF FilterStop, EndReading
  <2>2. /\ 1 \in DOMAIN filterQueue /\ ~IsRead(filterQueue[1])
        /\ \A j \in DOMAIN filterQueue' :
             /\ j \in Nat /\ j >= 1 /\ j + 1 \in DOMAIN filterQueue
             /\ filterQueue'[j] = filterQueue[j + 1]
    BY <1>4, <2>1, QueueFacts DEF StopIsNext, IsRead
  <2>3. \A j \in DOMAIN filterQueue' : ~IsRead(filterQueue'[j])
    <3>1. \A j \in DOMAIN filterQueue' : 1 < j + 1
      BY <2>2
    <3> QED
      BY <2>2, <3>1 DEF PlainInv, StopsLast
  <2>4. ~Connected'
    BY <2>1, <2>2 DEF PlainInv, StopsLast, Connected
  <2>5. NoMore'
    BY <2>1, <2>3, <2>4 DEF NoMore
  <2> QED
    BY <1>5, <2>1, <2>5
<1>15. CASE FilterDone
  <2>1. /\ fpc = "top" /\ fpc' = "check" /\ i >= msg.payload
        /\ UNCHANGED <<transferVars, arrived, stream, device, labels>>
    BY <1>15 DEF FilterDone, EndReading
  <2>2. Round = i /\ Round + InFlight + Rest <= msg.payload
    BY <1>3, <2>1 DEF OneReading, Active, Round
  <2>3. InFlight = 0 /\ Rest = 0
    BY <1>1, <2>1, <2>2
  <2> QED
    BY <1>1, <1>5, <2>1, <2>3
<1>16. CASE FilterTake
  <2>1. /\ fpc = "frame" /\ fpc' = fpc /\ i' = i /\ msg' = msg
        /\ rpc = "idle" /\ rpc' = "copying" /\ wpc' = wpc
        /\ UNCHANGED <<overflows, labels, delivered, received, arrived, stream, device>>
    BY <1>16 DEF FilterTake, Transfer!TakeFrame, Transfer!writerVars
  <2>2. Active /\ Active' /\ Round' = Round
    BY <2>1 DEF Active, Round
  <2> QED
    BY <1>6, <2>1, <2>2
<1>17. CASE FilterTimeout
  <2>1. /\ fpc = "frame" /\ fpc' = "check" /\ rpc = "idle" /\ ~Transfer!HasFrame
        /\ ~Sending /\ stream = << >> /\ wpc \notin {"filling", "publish"}
        /\ UNCHANGED <<transferVars, arrived, stream, device, labels>>
    BY <1>17 DEF FilterTimeout, EndReading, Plain
  <2>2. received - GivenBack <= 0 /\ Len(arrived) = received /\ Len(stream) = 0
    BY <1>1, <1>2, <1>3, <2>1, RingFacts DEF Exact
  <2>3. InFlight = 0
    BY <1>1, <1>2, <2>2 DEF InFlight
  <2> QED
    BY <1>5, <2>1, <2>3
<1>18. ~FilterSkip
  BY <1>1 DEF FilterSkip, Places
<1>19. CASE FilterProcess
  <2>1. /\ fpc = "frame" /\ fpc' = fpc /\ i' = i /\ msg' = msg
        /\ rpc = "copying" /\ rpc' = "finish"
        /\ labels' = Append(labels, <<msg.reading, i + 1>>)
        /\ UNCHANGED <<overflows, received, wpc, arrived, stream, device>>
    BY <1>19 DEF FilterProcess, Transfer!Process, Transfer!writerVars
  <2>2. Len(delivered') = Len(delivered) + 1
    <3>1. \E x \in Int : delivered' = Append(delivered, x)
      BY <1>19 DEF FilterProcess, Transfer!Process, RingOK, TransferProofs!TypeOK, Transfer!Torn
    <3>2. delivered \in Seq(Int)
      BY DEF RingOK, TransferProofs!TypeOK
    <3> QED
      BY <3>1, <3>2
  <2>3. labels \in Seq(Nat \X Nat) /\ <<msg.reading, i + 1>> \in Nat \X Nat
    <3>1. <<msg.reading, i + 1>> \in Nat \X Nat
      BY <1>1
    <3> QED
      BY <3>1 DEF OwnTypes
  <2>4. /\ Len(labels') = Len(labels) + 1 /\ DOMAIN labels = 1 .. Len(labels)
        /\ DOMAIN labels' = 1 .. Len(labels) + 1
        /\ \A l \in DOMAIN labels : labels'[l] = labels[l]
        /\ labels'[Len(labels) + 1] = <<msg.reading, i + 1>>
    BY <2>1, <2>3, LabelFacts
  <2>5. GivenBack = Len(labels) /\ GivenBack' = GivenBack
    BY <1>2, <2>1, <2>4 DEF GivenBack
  <2>6. received - GivenBack > 0 /\ Len(arrived) >= received
    BY <1>2, <1>3, <2>1, RingFacts DEF Exact
  <2>7. DOMAIN arrived = 1 .. Len(arrived)
    BY LabelFacts DEF OwnTypes
  <2>8. GivenBack + 1 \in DOMAIN arrived
    BY <1>1, <1>2, <2>6, <2>7
  <2>9. arrived[GivenBack + 1] = <<msg.reading, i + 1>>
    <3>1. GivenBack + 1 \in GivenBack + 1 .. Len(arrived) + Len(stream)
      BY <1>1, <1>2, <2>7, <2>8
    <3>2. Sent(GivenBack + 1) = <<msg.reading, Round + ((GivenBack + 1) - GivenBack)>>
      BY <1>3, <2>1, <3>1 DEF OneReading, Active
    <3>3. Sent(GivenBack + 1) = arrived[GivenBack + 1]
      BY <1>2, <2>7, <2>8 DEF Sent
    <3>4. Round + ((GivenBack + 1) - GivenBack) = i + 1
      BY <1>1, <2>1 DEF Round
    <3> QED
      BY <3>2, <3>3, <3>4
  <2>10. \A j \in DOMAIN labels' : j \in DOMAIN labels \/ j = GivenBack + 1
    BY <1>2, <2>4, <2>5
  <2>11. Exact'
    <3>1. \A j \in DOMAIN labels' : j \in DOMAIN arrived' /\ arrived'[j] = labels'[j]
      BY <1>3, <2>1, <2>4, <2>5, <2>8, <2>9, <2>10 DEF Exact
    <3> QED
      BY <1>3, <2>1, <2>2, <2>4, <3>1 DEF Exact
  <2>12. InFlight' = InFlight /\ Round' = Round /\ Rest' = Rest /\ (Sending' <=> Sending)
    BY <2>1, <2>5 DEF InFlight, Round, Rest, Sending
  <2>13. \A p : Sent(p)' = Sent(p)
    BY <2>1 DEF Sent
  <2>14. HasRoom'
    BY <1>3, <2>12 DEF HasRoom
  <2>15. Active /\ Active'
    BY <2>1 DEF Active
  <2>16. OneReading'
    BY <1>3, <2>1, <2>5, <2>12, <2>13, <2>15 DEF OneReading
  <2> QED
    BY <2>11, <2>14, <2>15, <2>16 DEF Flow, NothingLeft
<1>20. CASE FilterGiveBack
  <2>1. /\ fpc = "frame" /\ fpc' = "top" /\ rpc = "finish" /\ rpc' = "idle" /\ i' = i + 1
        /\ msg' = msg /\ wpc' = wpc
        /\ UNCHANGED <<overflows, labels, delivered, received, arrived, stream, device>>
    BY <1>20 DEF FilterGiveBack, Transfer!GiveBack, Transfer!writerVars
  <2>2. GivenBack' = GivenBack + 1
    BY <1>2, <2>1 DEF GivenBack
  <2>3. Round = i /\ Round' = i + 1
    BY <2>1 DEF Round
  <2>4. InFlight' = InFlight - 1
    BY <1>1, <1>2, <2>1, <2>2 DEF InFlight
  <2>5. Rest' = Rest /\ (Sending' <=> Sending) /\ \A p : Sent(p)' = Sent(p)
    BY <2>1 DEF Rest, Sending, Sent
  <2>6. Exact'
    BY <1>3, <2>1 DEF Exact
  <2>7. HasRoom'
    BY <1>1, <1>2, <1>3, <2>4, <2>5 DEF HasRoom
  <2>8. Active /\ Active'
    BY <2>1 DEF Active
  <2>9. ASSUME NEW p \in GivenBack' + 1 .. Len(arrived') + Len(stream')
        PROVE  Sent(p)' = <<msg'.reading, Round' + (p - GivenBack')>>
    <3>1. p \in GivenBack + 1 .. Len(arrived) + Len(stream) /\ p \in Nat
      BY <1>1, <1>2, <2>1, <2>2
    <3>2. Sent(p) = <<msg.reading, Round + (p - GivenBack)>>
      BY <1>3, <2>8, <3>1 DEF OneReading
    <3>3. Round' + (p - GivenBack') = Round + (p - GivenBack)
      BY <1>1, <2>2, <2>3, <3>1
    <3> QED
      BY <2>1, <2>5, <3>2, <3>3
  <2>10. Round' + InFlight' = Round + InFlight
    BY <1>1, <2>3, <2>4
  <2>11. Round' + InFlight' + Rest' <= msg'.payload
    BY <1>3, <2>1, <2>5, <2>8, <2>10 DEF OneReading
  <2>12. Sending' => device'.reading = msg'.reading /\ device'.sent = Round' + InFlight'
    BY <1>3, <2>1, <2>5, <2>8, <2>10 DEF OneReading
  <2>13. OneReading'
    BY <2>9, <2>11, <2>12 DEF OneReading
  <2> QED
    BY <2>6, <2>7, <2>8, <2>13 DEF Flow, NothingLeft
<1> QED
  BY <1>7, <1>8, <1>9, <1>10, <1>11, <1>12, <1>13, <1>14, <1>15, <1>16, <1>17, <1>18, <1>19,
     <1>20 DEF FilterThread

\* The device sends a frame.
LEMMA DeviceFlow ==
  ASSUME OwnTypes, OwnTypes', Places, Counted, RingOK, PlainInv, DeviceSend
  PROVE  Flow'
<1> USE DEF filterVars, deviceVars, clientVars, readerVars
<1>1. /\ i \in Nat /\ msg.payload \in Nat /\ msg.reading \in Nat
      /\ device.sent \in Nat /\ device.total \in Nat /\ device.reading \in Nat
      /\ Round \in Nat /\ InFlight \in Nat /\ Rest \in Nat /\ GivenBack \in Nat
      /\ Sending => Rest = device.total - device.sent /\ Rest > 0
  BY FlowNumbers DEF PlainInv
<1>2. /\ Len(labels) \in Nat /\ Len(arrived) \in Nat /\ Len(stream) \in Nat
      /\ BufferSize \in Nat \ {0}
  BY RingFacts DEF PlainInv, Flow
<1>3. Exact /\ HasRoom /\ OneReading /\ NothingLeft
  BY DEF PlainInv, Flow
<1> DEFINE frame == <<device.reading, device.sent + 1>>
<1>4. /\ Sending /\ stream' = Append(stream, frame)
      /\ device' = [device EXCEPT !.sent = @ + 1]
      /\ UNCHANGED <<overflows, labels, delivered, received, rpc, wpc, arrived, fpc, msg, i>>
      /\ UNCHANGED <<cpc, filterQueue>>
  BY DEF DeviceSend, transferVars
<1>5. frame \in Nat \X Nat
  BY <1>1
<1> HIDE DEF frame
<1>6. /\ Len(stream') = Len(stream) + 1 /\ DOMAIN stream = 1 .. Len(stream)
      /\ \A l \in DOMAIN stream : stream'[l] = stream[l]
      /\ stream'[Len(stream) + 1] = frame
  <2>1. stream \in Seq(Nat \X Nat)
    BY DEF OwnTypes
  <2> QED
    BY <1>4, <1>5, <2>1, LabelFacts
<1>7. /\ device'.reading = device.reading /\ device'.total = device.total
      /\ device'.sent = device.sent + 1
  <2>1. device \in [reading : Nat, sent : Nat, total : Nat]
    BY DEF OwnTypes
  <2> QED
    BY <1>4, <2>1
<1>8. GivenBack' = GivenBack /\ Round' = Round /\ (Active' <=> Active)
  BY <1>4 DEF GivenBack, Round, Active
<1>9. InFlight' = InFlight + 1
  BY <1>1, <1>2, <1>4, <1>6, <1>8 DEF InFlight
<1>10. Rest' = Rest - 1
  <2>1. Rest' = IF device'.sent < device'.total THEN device'.total - device'.sent ELSE 0
    BY DEF Rest, Sending
  <2>2. Rest = device.total - device.sent /\ device.sent < device.total
    BY <1>1, <1>4 DEF Sending
  <2> HIDE DEF Rest
  <2> QED
    BY <1>1, <1>7, <2>1, <2>2
<1>11. InFlight' + Rest' = InFlight + Rest
  BY <1>1, <1>9, <1>10
<1>12. HasRoom'
  BY <1>3, <1>11 DEF HasRoom
<1>13. Exact'
  BY <1>3, <1>4 DEF Exact
<1>14. OneReading'
  <2> SUFFICES ASSUME Active PROVE OneReading'
    BY <1>8 DEF OneReading
  <2>1. /\ \A p \in GivenBack + 1 .. Len(arrived) + Len(stream) :
             Sent(p) = <<msg.reading, Round + (p - GivenBack)>>
        /\ Round + InFlight + Rest <= msg.payload
        /\ device.reading = msg.reading /\ device.sent = Round + InFlight
    BY <1>3, <1>4 DEF OneReading
  <2>2. Round' + InFlight' + Rest' <= msg'.payload
    BY <1>1, <1>4, <1>8, <1>9, <1>10, <2>1
  <2>3. device'.reading = msg'.reading /\ device'.sent = Round' + InFlight'
    BY <1>1, <1>4, <1>7, <1>8, <1>9, <2>1
  <2>4. ASSUME NEW p \in GivenBack' + 1 .. Len(arrived') + Len(stream')
        PROVE  Sent(p)' = <<msg'.reading, Round' + (p - GivenBack')>>
    <3>1. p \in Nat /\ p >= GivenBack + 1 /\ p <= Len(arrived) + Len(stream) + 1
      BY <1>1, <1>2, <1>4, <1>6, <1>8
    <3>2. CASE p = Len(arrived) + Len(stream) + 1
      <4>1. Sent(p)' = stream'[p - Len(arrived')] /\ p - Len(arrived') = Len(stream) + 1
        BY <1>2, <1>4, <3>2 DEF Sent
      <4>2. Sent(p)' = frame
        BY <1>6, <4>1
      <4>3. p - GivenBack = InFlight + 1
        BY <1>1, <1>2, <3>2 DEF InFlight
      <4>4. Round' + (p - GivenBack') = device.sent + 1
        BY <1>1, <1>8, <2>1, <4>3
      <4> QED
        BY <1>4, <2>1, <4>2, <4>4 DEF frame
    <3>3. CASE p # Len(arrived) + Len(stream) + 1
      <4>1. p \in GivenBack + 1 .. Len(arrived) + Len(stream)
        BY <1>1, <1>2, <3>1, <3>3
      <4>2. Sent(p)' = Sent(p)
        <5>1. CASE p <= Len(arrived)
          BY <1>4, <5>1 DEF Sent
        <5>2. CASE ~(p <= Len(arrived))
          <6>1. p - Len(arrived) \in DOMAIN stream
            BY <1>2, <1>6, <4>1, <5>2
          <6> QED
            BY <1>4, <1>6, <5>2, <6>1 DEF Sent
        <5> QED
          BY <5>1, <5>2
      <4> QED
        BY <1>4, <1>8, <2>1, <4>1, <4>2
    <3> QED
      BY <3>2, <3>3
  <2> QED
    BY <2>2, <2>3, <2>4 DEF OneReading
<1>15. NothingLeft'
  BY <1>3, <1>4, <1>8 DEF NothingLeft, NoMore, Connected
<1> QED
  BY <1>12, <1>13, <1>14, <1>15 DEF Flow

LEMMA Smaller == \A a, b, c, d \in Nat : a <= b /\ b + c < d => a + c < d
  OBVIOUS

\* The steps of the reader thread.
LEMMA ReaderFlow ==
  ASSUME OwnTypes, OwnTypes', Places, Counted, RingOK, PlainInv, ReaderThread
  PROVE  Flow'
<1> USE DEF filterVars, deviceVars, clientVars, readerVars
<1>1. /\ i \in Nat /\ msg.payload \in Nat /\ msg.reading \in Nat
      /\ device.sent \in Nat /\ device.total \in Nat /\ device.reading \in Nat
      /\ Round \in Nat /\ InFlight \in Nat /\ Rest \in Nat /\ GivenBack \in Nat
  BY FlowNumbers DEF PlainInv
<1>2. /\ Len(labels) \in Nat /\ Len(arrived) \in Nat /\ Len(stream) \in Nat
      /\ BufferSize \in Nat \ {0} /\ received \in Nat
      /\ (IF wpc = "publish" THEN received - 1 ELSE received) - GivenBack \in 0 .. BufferSize
      /\ full => (IF wpc = "publish" THEN received - 1 ELSE received) - GivenBack = BufferSize
  BY RingFacts DEF PlainInv, Flow
<1>3. Exact /\ HasRoom /\ OneReading /\ NothingLeft /\ PlainPlaces /\ Flow
  BY DEF PlainInv, Flow
<1>4. UNCHANGED <<fpc, msg, i, cpc, filterQueue, labels>>
  BY DEF ReaderThread, ReaderConnect, ReaderExit, ReaderGoOn, ReaderPopStop, ReaderStop,
     ReaderReconnect, ReaderNothing, ReaderBeginReceive, ReaderEndReceive, ReaderAcquire
<1>5. (NoMore' <=> NoMore) /\ (Active' <=> Active) /\ Round' = Round
  BY <1>4 DEF NoMore, Connected, Active, Round
<1>6. CASE ReaderConnect \/ ReaderExit \/ ReaderGoOn \/ ReaderPopStop \/ ReaderNothing
  <2>1. UNCHANGED <<overflows, labels, delivered, received, arrived, stream, device, rpc, wpc>>
    BY <1>6 DEF ReaderConnect, ReaderExit, ReaderGoOn, ReaderPopStop, ReaderNothing,
       transferVars
  <2> QED
    BY <1>3, <1>4, <1>5, <2>1, FlowStays
<1>7. CASE ReaderEndReceive
  <2>1. CASE Transfer!EndReceive
    <3>1. /\ wpc = "filling" /\ wpc' = "publish" /\ received' = received + 1
          /\ UNCHANGED <<overflows, delivered, rpc, arrived, stream, device>>
      BY <1>7, <2>1 DEF ReaderEndReceive, Transfer!EndReceive, Transfer!readerVars
    <3>2. Exact'
      BY <1>2, <1>3, <1>4, <3>1 DEF Exact
    <3>3. /\ GivenBack' = GivenBack /\ InFlight' = InFlight /\ Rest' = Rest
          /\ Sending' <=> Sending
          /\ \A p : Sent(p)' = Sent(p)
      BY <1>4, <3>1 DEF GivenBack, InFlight, Rest, Sending, Sent
    <3>4. HasRoom' /\ NothingLeft'
      BY <1>3, <1>5, <3>3 DEF HasRoom, NothingLeft
    <3>5. OneReading'
      BY <1>3, <1>4, <1>5, <3>1, <3>3 DEF OneReading
    <3> QED
      BY <3>2, <3>4, <3>5 DEF Flow
  <2>2. CASE Transfer!Publish
    <3>1. /\ wpc = "publish" /\ wpc' = "acquire"
          /\ UNCHANGED <<overflows, labels, delivered, received, arrived, stream, device, rpc>>
      BY <1>7, <2>2 DEF ReaderEndReceive, Transfer!Publish, Transfer!readerVars
    <3> QED
      BY <1>3, <1>4, <1>5, <3>1, FlowStays
  <2> QED
    BY <1>7, <2>1, <2>2 DEF ReaderEndReceive
<1>8. CASE ReaderAcquire
  <2>1. ~Transfer!AcquireFails
    <3>1. SUFFICES ASSUME Transfer!AcquireFails PROVE FALSE
      OBVIOUS
    <3>2. wpc = "acquire" /\ full
      BY <3>1 DEF Transfer!AcquireFails, Transfer!WriteOverflow
    <3>3. received - GivenBack = BufferSize /\ Len(arrived) = received
      BY <1>2, <1>3, <3>2 DEF Exact
    <3>4. InFlight >= BufferSize
      BY <1>1, <1>2, <3>3 DEF InFlight
    <3> QED
      BY <1>1, <1>2, <1>3, <3>4 DEF HasRoom
  <2>2. /\ wpc = "acquire" /\ wpc' = "receive"
        /\ UNCHANGED <<overflows, labels, delivered, received, arrived, stream, device, rpc>>
    BY <1>8, <2>1 DEF ReaderAcquire, Transfer!Acquire, Transfer!readerVars
  <2> QED
    BY <1>3, <1>4, <1>5, <2>2, FlowStays
<1>9. CASE ReaderBeginReceive
  <2>1. /\ stream # << >> /\ arrived' = Append(arrived, Head(stream)) /\ stream' = Tail(stream)
        /\ wpc = "receive" /\ wpc' = "filling"
        /\ UNCHANGED <<overflows, delivered, received, rpc, device>>
    BY <1>9 DEF ReaderBeginReceive, Transfer!BeginReceive, Transfer!readerVars
  <2>2. /\ stream \in Seq(Nat \X Nat) /\ arrived \in Seq(Nat \X Nat)
    BY DEF OwnTypes
  <2>3. /\ Head(stream) = stream[1] /\ 1 \in DOMAIN stream
        /\ Len(stream') = Len(stream) - 1 /\ DOMAIN stream' = 1 .. Len(stream')
        /\ \A j \in DOMAIN stream' : stream'[j] = stream[j + 1]
    BY <2>1, <2>2, LabelFacts
  <2>4. Head(stream) \in Nat \X Nat
    BY <2>2, <2>3, LabelFacts
  <2>5. /\ Len(arrived') = Len(arrived) + 1 /\ DOMAIN arrived = 1 .. Len(arrived)
        /\ DOMAIN arrived' = 1 .. Len(arrived) + 1
        /\ \A j \in DOMAIN arrived : arrived'[j] = arrived[j]
        /\ arrived'[Len(arrived) + 1] = stream[1]
    BY <2>1, <2>2, <2>3, <2>4, LabelFacts
  <2>6. GivenBack' = GivenBack /\ Rest' = Rest /\ (Sending' <=> Sending)
    BY <1>4, <2>1 DEF GivenBack, Rest, Sending
  <2>7. Len(arrived') + Len(stream') = Len(arrived) + Len(stream)
    BY <1>2, <2>3, <2>5
  <2>8. InFlight' = InFlight
    <3>1. InFlight' = (Len(arrived') + Len(stream')) - GivenBack'
      BY DEF InFlight
    <3>2. InFlight = (Len(arrived) + Len(stream)) - GivenBack
      BY DEF InFlight
    <3> QED
      BY <2>6, <2>7, <3>1, <3>2
  <2>9. ASSUME NEW p \in 1 .. Len(arrived) + Len(stream)
        PROVE  Sent(p)' = Sent(p)
    <3>1. CASE p <= Len(arrived)
      BY <1>2, <2>5, <3>1 DEF Sent
    <3>2. CASE p = Len(arrived) + 1
      <4>1. p - Len(arrived) = 1 /\ ~(p <= Len(arrived)) /\ p <= Len(arrived')
        BY <1>2, <2>5, <3>2
      <4> QED
        BY <2>5, <3>2, <4>1 DEF Sent
    <3>3. CASE p > Len(arrived) + 1
      <4>1. /\ ~(p <= Len(arrived)) /\ ~(p <= Len(arrived'))
            /\ p - Len(arrived') \in DOMAIN stream'
            /\ (p - Len(arrived')) + 1 = p - Len(arrived)
        BY <1>2, <2>3, <2>5, <3>3
      <4>2. stream'[p - Len(arrived')] = stream[(p - Len(arrived')) + 1]
        BY <2>3, <4>1
      <4> QED
        BY <4>1, <4>2 DEF Sent
    <3> QED
      BY <1>2, <3>1, <3>2, <3>3
  <2>10. Exact'
    <3>1. \A j \in DOMAIN labels' : j \in DOMAIN arrived' /\ arrived'[j] = labels'[j]
      BY <1>2, <1>3, <1>4, <2>5 DEF Exact
    <3> QED
      BY <1>2, <1>3, <1>4, <2>1, <2>5, <3>1 DEF Exact
  <2>11. HasRoom' /\ NothingLeft'
    BY <1>3, <1>5, <2>6, <2>8 DEF HasRoom, NothingLeft
  <2>12. \A p \in GivenBack' + 1 .. Len(arrived') + Len(stream') :
           /\ p \in GivenBack + 1 .. Len(arrived) + Len(stream)
           /\ p \in 1 .. Len(arrived) + Len(stream)
    BY <1>1, <1>2, <2>6, <2>7
  <2>13. Active => \A p \in GivenBack' + 1 .. Len(arrived') + Len(stream') :
                     Sent(p)' = <<msg'.reading, Round' + (p - GivenBack')>>
    BY <1>3, <1>4, <1>5, <2>6, <2>9, <2>12 DEF OneReading
  <2>14. OneReading'
    BY <1>3, <1>4, <1>5, <2>1, <2>6, <2>8, <2>13 DEF OneReading
  <2> QED
    BY <2>10, <2>11, <2>14 DEF Flow
<1>10. CASE ReaderStop
  <2>1. /\ device' = Idle
        /\ UNCHANGED <<overflows, delivered, received, rpc, wpc, arrived, stream>>
    BY <1>10 DEF ReaderStop, transferVars
  <2>2. ~Sending' /\ Rest' = 0
    BY <2>1 DEF Sending, Rest, Idle
  <2>3. GivenBack' = GivenBack /\ InFlight' = InFlight /\ \A p : Sent(p)' = Sent(p)
    BY <1>4, <2>1 DEF GivenBack, InFlight, Sent
  <2>4. Exact'
    BY <1>3, <1>4, <2>1 DEF Exact
  <2>5. HasRoom'
    BY <1>1, <1>2, <1>3, <2>2, <2>3 DEF HasRoom
  <2>6. Active => Round + InFlight + 0 <= msg.payload
    BY <1>1, <1>3 DEF OneReading
  <2>7. OneReading'
    BY <1>3, <1>4, <1>5, <2>1, <2>2, <2>3, <2>6 DEF OneReading
  <2>8. NothingLeft'
    BY <1>3, <1>5, <2>2, <2>3 DEF NothingLeft
  <2> QED
    BY <2>4, <2>5, <2>7, <2>8 DEF Flow
<1>11. CASE ReaderReconnect
  <2>1. /\ stream' = << >> /\ rdpc = "reconnect"
        /\ UNCHANGED <<overflows, delivered, received, rpc, wpc, arrived, device>>
    BY <1>11 DEF ReaderReconnect, transferVars
  <2>2. Len(stream') = 0 /\ device.sent = 0
    BY <1>3, <2>1 DEF PlainPlaces
  <2>3. GivenBack' = GivenBack /\ Rest' = Rest /\ (Sending' <=> Sending)
    BY <1>4, <2>1 DEF GivenBack, Rest, Sending
  <2>4. InFlight' = Len(arrived) - GivenBack
    BY <1>1, <1>2, <2>1, <2>2, <2>3 DEF InFlight
  <2>5. InFlight' <= InFlight /\ InFlight' \in Nat
    <3>1. Len(arrived) >= GivenBack
      BY <1>1, <1>2, <1>3 DEF Exact
    <3> QED
      BY <1>1, <1>2, <2>4, <3>1 DEF InFlight
  <2>6. Exact'
    BY <1>3, <1>4, <2>1 DEF Exact
  <2>7. HasRoom'
    <3>1. InFlight + Rest < BufferSize
      BY <1>3 DEF HasRoom
    <3>2. InFlight' + Rest' < BufferSize
      BY <1>1, <1>2, <2>3, <2>5, <3>1, Smaller
    <3> QED
      BY <3>2 DEF HasRoom
  <2>8. InFlight = 0 => InFlight' = 0
    BY <1>1, <2>5
  <2>9. NothingLeft'
    BY <1>3, <1>5, <2>3, <2>8 DEF NothingLeft
  <2>10. OneReading'
    <3> SUFFICES ASSUME Active PROVE OneReading'
      BY <1>5 DEF OneReading
    <3>1. /\ \A p \in GivenBack + 1 .. Len(arrived) + Len(stream) :
               Sent(p) = <<msg.reading, Round + (p - GivenBack)>>
          /\ Round + InFlight + Rest <= msg.payload
          /\ Sending => device.reading = msg.reading /\ device.sent = Round + InFlight
      BY <1>3 DEF OneReading
    <3>2. Round' + InFlight' + Rest' <= msg'.payload
      BY <1>1, <1>4, <1>5, <2>3, <2>5, <3>1
    <3>3. Sending => InFlight' = InFlight
      BY <1>1, <2>2, <2>8, <3>1
    <3>4. Sending' => device'.reading = msg'.reading /\ device'.sent = Round' + InFlight'
      BY <1>4, <1>5, <2>1, <2>3, <3>1, <3>3
    <3>5. ASSUME NEW p \in GivenBack' + 1 .. Len(arrived') + Len(stream')
          PROVE  Sent(p)' = <<msg'.reading, Round' + (p - GivenBack')>>
      <4>1. p \in GivenBack + 1 .. Len(arrived) + Len(stream) /\ p <= Len(arrived)
        BY <1>1, <1>2, <2>1, <2>2, <2>3
      <4>2. Sent(p)' = Sent(p)
        BY <2>1, <4>1 DEF Sent
      <4> QED
        BY <1>4, <1>5, <2>3, <3>1, <4>1, <4>2
    <3> QED
      BY <3>2, <3>4, <3>5 DEF OneReading
  <2> QED
    BY <2>6, <2>7, <2>9, <2>10 DEF Flow
<1> QED
  BY <1>6, <1>7, <1>8, <1>9, <1>10, <1>11 DEF ReaderThread

\* The calls of the application.
LEMMA CallFlow ==
  ASSUME OwnTypes, OwnTypes', Places, Counted, RingOK, PlainInv, Call \/ GoOn
  PROVE  Flow'
<1> USE DEF filterVars, deviceVars, clientVars, readerVars
<1>1. UNCHANGED <<fpc, msg, i, overflows, labels, delivered, received, arrived, device, rpc, wpc>>
  BY DEF Call, Read, CancelReading, Disconnect, WriteCr, SetMeasurement, GoOn, CancelReader,
     Halt, Wake, Join, Close, WriteCrReturns, transferVars
<1>2. NoMore => NoMore'
  <2> SUFFICES ASSUME NoMore PROVE NoMore'
    OBVIOUS
  <2>1. cpc \notin {"idle", "cancel", "command"}
    BY DEF NoMore, Connected
  <2>2. cpc' \notin {"idle", "cancel", "command"}
    BY <2>1 DEF Call, Read, CancelReading, Disconnect, WriteCr, SetMeasurement, GoOn,
       CancelReader, Halt, Wake, Join, Close, WriteCrReturns
  <2>3. \A j \in DOMAIN filterQueue' : ~IsRead(filterQueue'[j])
    <3>1. CASE Wake
      <4>1. filterQueue' = Append(filterQueue, STOP)
        BY <3>1 DEF Wake
      <4>2. filterQueue \in Seq(Messages) /\ STOP \in Messages /\ ~IsRead(STOP)
        BY DEF OwnTypes, STOP, Messages, IsRead
      <4>3. \A j \in DOMAIN filterQueue' :
              (j \in DOMAIN filterQueue /\ filterQueue'[j] = filterQueue[j])
                \/ filterQueue'[j] = STOP
        BY <4>1, <4>2, QueueFacts
      <4> QED
        BY <4>2, <4>3 DEF NoMore
    <3>2. CASE ~Wake
      <4>1. filterQueue' = filterQueue
        BY <2>1, <3>2 DEF Call, Read, CancelReading, Disconnect, WriteCr, SetMeasurement, GoOn,
           CancelReader, Halt, Join, Close, WriteCrReturns
      <4> QED
        BY <4>1 DEF NoMore
    <3> QED
      BY <3>1, <3>2
  <2> QED
    BY <1>1, <2>2, <2>3 DEF NoMore, Connected
<1>3. CASE UNCHANGED stream
  BY <1>1, <1>2, <1>3, FlowStays DEF PlainInv
<1>4. CASE ~UNCHANGED stream
  <2>1. cpc = "close" /\ stream' = << >>
    BY <1>4 DEF Call, Read, CancelReading, Disconnect, WriteCr, SetMeasurement, GoOn,
       CancelReader, Halt, Wake, Join, Close, WriteCrReturns
  <2>2. fpc = "exited" /\ ~Active
    BY <2>1 DEF PlainInv, PlainPlaces, Active
  <2>3. /\ InFlight \in Nat /\ Rest \in Nat /\ GivenBack \in Nat
    BY FlowNumbers DEF PlainInv
  <2>4. /\ Len(arrived) \in Nat /\ Len(stream) \in Nat /\ received \in Nat
        /\ (IF wpc = "publish" THEN received - 1 ELSE received) - GivenBack \in 0 .. BufferSize
        /\ BufferSize \in Nat
    BY RingFacts DEF PlainInv, Flow
  <2>5. Exact /\ HasRoom /\ NothingLeft
    BY DEF PlainInv, Flow
  <2>6. Exact'
    BY <1>1, <2>5 DEF Exact
  <2>7. GivenBack' = GivenBack /\ Rest' = Rest /\ (Sending' <=> Sending)
    BY <1>1 DEF GivenBack, Rest, Sending
  <2>8. InFlight' = Len(arrived) - GivenBack
    <3>1. Len(stream') = 0
      BY <2>1
    <3> QED
      BY <1>1, <2>3, <2>4, <2>7, <3>1 DEF InFlight
  <2>9. Len(arrived) >= GivenBack
    BY <2>3, <2>4, <2>5 DEF Exact
  <2>10. InFlight' <= InFlight /\ InFlight' \in Nat
    BY <2>3, <2>4, <2>8, <2>9 DEF InFlight
  <2>11. HasRoom'
    <3>1. InFlight + Rest < BufferSize
      BY <2>5 DEF HasRoom
    <3>2. InFlight' + Rest' < BufferSize
      BY <2>3, <2>4, <2>7, <2>10, <3>1, Smaller
    <3> QED
      BY <3>2 DEF HasRoom
  <2>12. ~Active'
    BY <1>1, <2>2 DEF Active
  <2>13. InFlight = 0 => InFlight' = 0
    BY <2>3, <2>10
  <2>14. NothingLeft'
    BY <1>2, <2>2, <2>5, <2>7, <2>13 DEF NothingLeft
  <2> QED
    BY <2>6, <2>11, <2>12, <2>14 DEF Flow, OneReading
<1> QED
  BY <1>3, <1>4

LEMMA StepPlain ==
  ASSUME Plain, OwnTypes, OwnTypes', CountInv, RingOK, PlainInv, [Next]_vars
  PROVE  PlainInv'
<1>1. Places /\ InOrder /\ Counted /\ PlainPlaces /\ StopsLast /\ AllFit
  BY DEF CountInv, PlainInv
<1>2. PlainPlaces' /\ StopsLast' /\ AllFit'
  BY <1>1, StepPlainPlaces, StepStopsLast, StepAllFit
<1>3. CASE DeviceSend
  BY <1>1, <1>2, <1>3, DeviceFlow DEF PlainInv
<1>4. CASE FilterThread
  BY <1>1, <1>2, <1>4, FilterFlow DEF PlainInv
<1>5. CASE ReaderThread
  BY <1>1, <1>2, <1>5, ReaderFlow DEF PlainInv
<1>6. CASE Call \/ GoOn
  BY <1>1, <1>2, <1>6, CallFlow DEF PlainInv
<1>7. CASE UNCHANGED vars
  <2>1. NoMore => NoMore'
    BY <1>7 DEF vars, NoMore, Connected, clientVars, filterVars
  <2>2. Flow'
    BY <1>7, <2>1, FlowStays DEF PlainInv, vars, transferVars, filterVars, deviceVars, readerVars
  <2> QED
    BY <1>2, <2>2 DEF PlainInv
<1> QED
  BY <1>3, <1>4, <1>5, <1>6, <1>7 DEF Next

LEMMA PlainAlways ==
  ASSUME Plain PROVE Spec => [](OwnTypes /\ RingOK /\ CountInv /\ PlainInv)
<1>1. NoSkips
  BY DEF Plain
<1>2. Init => PlainInv
  BY InitPlain
<1>3. /\ OwnTypes /\ CountInv /\ RingOK /\ OwnTypes' /\ PlainInv /\ [Next]_vars
      => PlainInv'
  BY StepPlain
<1>4. Spec => []RingOK
  BY TransferAlways, PTL DEF RingOK
<1>5. Spec => [](OwnTypes /\ CountInv)
  BY <1>1, CountAlways
<1> QED
  BY <1>2, <1>3, <1>4, <1>5, PTL DEF Spec

\* In an assembly whose device keeps up, without cancels and with a ring larger than a
\* reading, the number a filter sees with a frame is the frame's place in its reading, and
\* the frame is that reading's: the loop counter of readFrames and the device agree,
\* although nothing in a frame says which reading it belongs to.
THEOREM NumbersRight == ASSUME Plain PROVE Spec => []FrameNumbers
<1>1. ASSUME OwnTypes, RingOK, PlainInv PROVE FrameNumbers
  <2>1. Exact
    BY <1>1 DEF PlainInv, Flow
  <2>2. /\ DOMAIN labels = 1 .. Len(labels) /\ Len(labels) = Len(delivered)
        /\ \A j \in DOMAIN labels : j \in DOMAIN arrived /\ arrived[j] = labels[j]
    BY <1>1, <2>1, LabelFacts DEF Exact, OwnTypes
  <2>3. \A k \in 1 .. Len(delivered) : delivered[k] = k
    BY <1>1, <2>1, RingFacts
  <2> QED
    BY <2>2, <2>3 DEF FrameNumbers
<1> QED
  BY <1>1, PlainAlways, PTL

\* In such an assembly the next reading finds nothing of the last one: not in the device,
\* not on the connection, not in the ring, as long as the assembly is connected.
THEOREM QuietBetweenReadings == ASSUME Plain PROVE Spec => []QuietWhenIdle
<1>1. ASSUME OwnTypes, RingOK, CountInv, PlainInv PROVE QuietWhenIdle
  <2>1. SUFFICES ASSUME Connected, fpc = "pop"
                 PROVE  /\ ~Sending /\ stream = << >>
                        /\ wpc \in {"receive", "acquire"} /\ ~Transfer!HasFrame
    BY DEF QuietWhenIdle
  <2>2. InFlight = 0 /\ ~Sending
    BY <1>1, <2>1 DEF PlainInv, Flow, NothingLeft, NoMore, Active
  <2>3. Exact
    BY <1>1 DEF PlainInv, Flow
  <2>4. /\ Len(arrived) \in Nat /\ Len(stream) \in Nat /\ received \in Nat /\ GivenBack \in Int
        /\ (IF wpc = "publish" THEN received - 1 ELSE received) - GivenBack \in 0 .. BufferSize
        /\ Transfer!HasFrame <=>
             (IF wpc = "publish" THEN received - 1 ELSE received) - GivenBack > 0
        /\ BufferSize \in Nat
    BY <1>1, <2>3, RingFacts
  <2>5. Len(arrived) + Len(stream) = GivenBack
    BY <2>2, <2>4 DEF InFlight
  <2>6. Len(arrived) = received + (IF wpc = "filling" THEN 1 ELSE 0)
    BY <2>3 DEF Exact
  <2>7. Len(stream) = 0 /\ wpc # "filling" /\ wpc # "publish" /\ ~Transfer!HasFrame
    BY <2>4, <2>5, <2>6
  <2>8. wpc \in {"receive", "filling", "publish", "acquire"}
    BY <1>1 DEF RingOK, TransferProofs!TypeOK
  <2>9. stream = << >>
    <3>1. stream \in Seq(Nat \X Nat)
      BY <1>1 DEF OwnTypes
    <3> QED
      BY <2>7, <3>1
  <2> QED
    BY <2>2, <2>7, <2>8, <2>9
<1> QED
  BY <1>1, PlainAlways, PTL

\* In such an assembly a command that takes the lock finds the device idle: the filter
\* thread gives the lock back only when nothing of the reading is left to be sent.
THEOREM CommandsInSilence == ASSUME Plain PROVE Spec => []CommandsFindDeviceIdle
<1>1. ASSUME CountInv, PlainInv PROVE CommandsFindDeviceIdle
  <2>1. cpc = "command" => mutex = "client" /\ Connected
    BY <1>1 DEF CountInv, Places, Connected
  <2>2. mutex = "client" => ~Active
    BY <1>1 DEF CountInv, Places, Active
  <2> QED
    BY <1>1, <2>1, <2>2 DEF PlainInv, Flow, NothingLeft, NoMore, CommandsFindDeviceIdle
<1> QED
  BY <1>1, PlainAlways, PTL

==============================================================================
