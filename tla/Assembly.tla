------------------------------ MODULE Assembly -------------------------------
(***************************************************************************)
(* One connected assembly (class Assembly, lib/include/assembly/Assembly.h) *)
(* with its three threads and its device:                                  *)
(*   - the application, which calls DeviceManager and through it Assembly; *)
(*   - the filter thread (reader), which takes commands from               *)
(*     filterMessageQueue, starts a reading and processes its frames;      *)
(*   - the reader thread (readFramesThread), which receives frames, and    *)
(*     stops the device when readerMessageQueue says so;                   *)
(*   - the device, which is external: it is described by what the code     *)
(*     sends it and expects of it.                                         *)
(* The path of the frames between the two threads is module FrameTransfer, *)
(* whose variables are shared and whose actions are used here: every step  *)
(* of this module is a step of FrameTransfer or leaves it alone.           *)
(*                                                                         *)
(* The network neither loses nor delays a command here, a pipe filter has  *)
(* been set, and readings are unicast (READ); SO_RCVTIMEO makes a receive  *)
(* without data return, as it does on Windows.                             *)
(***************************************************************************)
EXTENDS Integers, Sequences

CONSTANTS
  BufferSize,    \* DriverConfig::readBufferSize
  Measurements,  \* the measurements the application sets
  SlowDevice,    \* the device may take longer than DriverConfig::timeout for a frame
  MaxReads,      \* bound: calls of read()
  MaxCancels,    \* bound: calls of cancelReading() by the application
  MaxCommands,   \* bound: calls of writeCr()
  MaxFrames      \* bound of FrameTransfer

Frames(m) == m.readFramesNum + m.skipFramesNum

ASSUME MeasurementsAssumption ==
  /\ Measurements \subseteq [readFramesNum : Nat, skipFramesNum : Nat]
  /\ Measurements # {}

ASSUME ConfigAssumption ==
  /\ BufferSize \in Nat \ {0}
  /\ SlowDevice \in BOOLEAN

ASSUME BoundsAssumption ==
  {MaxReads, MaxCancels, MaxCommands, MaxFrames} \subseteq Nat

\* MaxFrames is no restriction here: no more frames can be sent.
ASSUME EnoughFrames == \A m \in Measurements : MaxReads * Frames(m) <= MaxFrames

VARIABLES
  slots, writeIndex, readIndex, full,          \* FrameBuffer
  wpc, fr, received, overflows,                \* FrameTransfer, receiving
  rpc, held, delivered,                        \* FrameTransfer, processing
  isRunning,
  mutex,         \* who holds Assembly::mutex
  filterQueue,   \* filterMessageQueue, oldest message first
  readerQueue,   \* the number of STOP messages in readerMessageQueue
  measurement,   \* context->measurement
  fpc,           \* where the filter thread is
  msg,           \* the message it works on
  skip,          \* readFrames' skipFramesNum
  i,             \* readFrames' loop counter
  rdpc,          \* where the reader thread is
  cpc,           \* where the application is
  device,        \* external: the reading it works on, and the frames sent of it
  link,          \* external: the frame connection is up
  stream,        \* external: frames sent and not received
  arrived,       \* history: the device's frames in order of arrival
  labels,        \* history: the reading and frame number of each delivery
  readings,      \* history: the calls of read() and how each ended
  calls          \* the calls of cancelReading and writeCr so far

transferVars == <<slots, writeIndex, readIndex, full, wpc, fr, received, overflows,
                  rpc, held, delivered>>
filterVars == <<fpc, msg, skip, i, labels>>
deviceVars == <<device, link, stream>>
clientVars == <<cpc, calls, measurement>>
readerVars == <<rdpc, arrived>>
vars == <<transferVars, isRunning, mutex, filterQueue, readerQueue, filterVars,
          readerVars, clientVars, deviceVars, readings>>

Transfer == INSTANCE FrameTransfer

\* A reading is identified by the call of read() that asked for it.
READ(n, r) == [cmd |-> "READ", payload |-> n, reading |-> r]
STOP       == [cmd |-> "STOP", payload |-> 0, reading |-> 0]

Idle == [reading |-> 0, sent |-> 0, total |-> 0]

Sending == device.sent < device.total

-----------------------------------------------------------------------------
(* The device (external). *)

\* It sends the next frame of the reading.
DeviceSend ==
  /\ link
  /\ Sending
  /\ device' = [device EXCEPT !.sent = @ + 1]
  /\ stream' = Append(stream, <<device.reading, device.sent + 1>>)
  /\ UNCHANGED <<transferVars, isRunning, mutex, filterQueue, readerQueue,
                 filterVars, readerVars, clientVars, link, readings>>

-----------------------------------------------------------------------------
(* The filter thread. *)

\* while (isRunning)
FilterCheck ==
  /\ fpc = "check"
  /\ fpc' = IF isRunning THEN "pop" ELSE "exited"
  /\ UNCHANGED <<transferVars, isRunning, mutex, filterQueue, readerQueue, msg, skip,
                 i, labels, readerVars, clientVars, deviceVars, readings>>

\* filterMessageQueue.pop(); a STOP outside a reading is dropped.
FilterPop ==
  /\ fpc = "pop"
  /\ filterQueue # << >>
  /\ filterQueue' = Tail(filterQueue)
  /\ msg' = Head(filterQueue)
  /\ fpc' = IF msg'.cmd = "READ" THEN "lock" ELSE "check"
  /\ UNCHANGED <<transferVars, isRunning, mutex, readerQueue, skip, i, labels,
                 readerVars, clientVars, deviceVars, readings>>

\* A slip: the lock is not taken for the reading.
SlipNoLock ==
  /\ fpc = "lock"
  /\ mutex = "none"
  /\ fpc' = "start"
  /\ UNCHANGED <<transferVars, isRunning, mutex, filterQueue, readerQueue, msg, skip, i,
                 labels, readerVars, clientVars, deviceVars, readings>>

FilterLock ==
  /\ fpc = "lock"
  /\ mutex = "none"
  /\ mutex' = "filter"
  /\ fpc' = "start"
  /\ UNCHANGED <<transferVars, isRunning, filterQueue, readerQueue, msg, skip, i,
                 labels, readerVars, clientVars, deviceVars, readings>>

\* A slip: the count is read from the measurement, not from the message.
SlipLateCount ==
  /\ fpc = "start"
  /\ ~Sending
  /\ device' = [reading |-> msg.reading, sent |-> 0, total |-> Frames(measurement)]
  /\ fpc' = "begin"
  /\ UNCHANGED <<transferVars, isRunning, mutex, filterQueue, readerQueue, msg, skip,
                 i, labels, readerVars, clientVars, link, stream, readings>>

\* A slip: one frame more than the loop of readFrames takes.
SlipOneMore ==
  /\ fpc = "start"
  /\ ~Sending
  /\ device' = [reading |-> msg.reading, sent |-> 0, total |-> msg.payload + 1]
  /\ fpc' = "begin"
  /\ UNCHANGED <<transferVars, isRunning, mutex, filterQueue, readerQueue, msg, skip,
                 i, labels, readerVars, clientVars, link, stream, readings>>

\* masi.startReadingUnicast
FilterStart ==
  /\ fpc = "start"
  /\ ~Sending
  /\ device' = [reading |-> msg.reading, sent |-> 0, total |-> msg.payload]
  /\ fpc' = "begin"
  /\ UNCHANGED <<transferVars, isRunning, mutex, filterQueue, readerQueue, msg, skip,
                 i, labels, readerVars, clientVars, link, stream, readings>>

\* A slip: the lock is kept.
SlipKeepsLock(outcome) ==
  /\ UNCHANGED mutex
  /\ fpc' = "check"
  /\ readings' = [readings EXCEPT ![msg.reading].outcome = outcome]

\* The reading is over: the lock is released and the loop goes on.
EndReading(outcome) ==
  /\ mutex' = "none"
  /\ fpc' = "check"
  /\ readings' = [readings EXCEPT ![msg.reading].outcome = outcome]

\* A device that is still sending answers UDP_BSY; receive throws, and the
\* exception is passed to the error callback.
FilterStartBusy ==
  /\ fpc = "start"
  /\ Sending
  /\ EndReading("failed")
  /\ UNCHANGED <<transferVars, isRunning, filterQueue, readerQueue, msg, skip, i,
                 labels, readerVars, clientVars, deviceVars>>

\* A slip: the counter is not reset.
SlipKeepsCounter ==
  /\ fpc = "begin"
  /\ skip' = measurement.skipFramesNum
  /\ fpc' = "top"
  /\ UNCHANGED <<transferVars, isRunning, mutex, filterQueue, readerQueue, msg, i, labels,
                 readerVars, clientVars, deviceVars, readings>>

\* readFrames up to its loop: the number of frames to skip is read from the
\* measurement that is current now.
FilterBegin ==
  /\ fpc = "begin"
  /\ skip' = measurement.skipFramesNum
  /\ i' = 0
  /\ fpc' = "top"
  /\ UNCHANGED <<transferVars, isRunning, mutex, filterQueue, readerQueue, msg, labels,
                 readerVars, clientVars, deviceVars, readings>>

StopIsNext == filterQueue # << >> /\ Head(filterQueue).cmd = "STOP"

\* The loop of readFrames: i < nTimes, and no STOP at the head of the queue.
FilterNext ==
  /\ fpc = "top"
  /\ i < msg.payload
  /\ ~StopIsNext
  /\ fpc' = "frame"
  /\ UNCHANGED <<transferVars, isRunning, mutex, filterQueue, readerQueue, msg, skip,
                 i, labels, readerVars, clientVars, deviceVars, readings>>

FilterStop ==
  /\ fpc = "top"
  /\ i < msg.payload
  /\ StopIsNext
  /\ filterQueue' = Tail(filterQueue)
  /\ EndReading("cancelled")
  /\ UNCHANGED <<transferVars, isRunning, readerQueue, msg, skip, i, labels,
                 readerVars, clientVars, deviceVars>>

\* A slip: the loop ends one frame early.
SlipOneLess ==
  /\ fpc = "top"
  /\ i + 1 >= msg.payload
  /\ EndReading("done")
  /\ UNCHANGED <<transferVars, isRunning, filterQueue, readerQueue, msg, skip, i,
                 labels, readerVars, clientVars, deviceVars>>

FilterDone ==
  /\ fpc = "top"
  /\ i >= msg.payload
  /\ EndReading("done")
  /\ UNCHANGED <<transferVars, isRunning, filterQueue, readerQueue, msg, skip, i,
                 labels, readerVars, clientVars, deviceVars>>

\* getReadPtr finds a frame.
FilterTake ==
  /\ fpc = "frame"
  /\ Transfer!TakeFrame
  /\ UNCHANGED <<isRunning, mutex, filterQueue, readerQueue, filterVars, readerVars,
                 clientVars, deviceVars, readings>>

\* A slip: getReadPtr waits without a time limit.
SlipNoTimeout == FALSE

\* getReadPtr waits for DriverConfig::timeout and throws.
FilterTimeout ==
  /\ fpc = "frame"
  /\ rpc = "idle"
  /\ ~Transfer!HasFrame
  /\ SlowDevice \/ ~(Sending \/ stream # << >> \/ wpc \in {"filling", "publish"})
  /\ EndReading("failed")
  /\ UNCHANGED <<transferVars, isRunning, filterQueue, readerQueue, msg, skip, i,
                 labels, readerVars, clientVars, deviceVars>>

\* if (i < skipFramesNum) continue
FilterSkip ==
  /\ fpc = "frame"
  /\ i < skip
  /\ Transfer!SkipFrame
  /\ i' = i + 1
  /\ fpc' = "top"
  /\ UNCHANGED <<isRunning, mutex, filterQueue, readerQueue, msg, skip, labels,
                 readerVars, clientVars, deviceVars, readings>>

FilterProcess ==
  /\ fpc = "frame"
  /\ i >= skip
  /\ Transfer!Process
  /\ labels' = Append(labels, <<msg.reading, i + 1>>)
  /\ UNCHANGED <<isRunning, mutex, filterQueue, readerQueue, fpc, msg, skip, i,
                 readerVars, clientVars, deviceVars, readings>>

FilterGiveBack ==
  /\ fpc = "frame"
  /\ Transfer!GiveBack
  /\ i' = i + 1
  /\ fpc' = "top"
  /\ UNCHANGED <<isRunning, mutex, filterQueue, readerQueue, msg, skip, labels,
                 readerVars, clientVars, deviceVars, readings>>

-----------------------------------------------------------------------------
(* The reader thread. *)

\* masi.frameConnect()
ReaderConnect ==
  /\ rdpc = "connect"
  /\ link' = TRUE
  /\ rdpc' = "check"
  /\ UNCHANGED <<transferVars, isRunning, mutex, filterQueue, readerQueue, filterVars,
                 arrived, clientVars, device, stream, readings>>

ReaderExit ==
  /\ rdpc = "check"
  /\ ~isRunning
  /\ rdpc' = "exited"
  /\ UNCHANGED <<transferVars, isRunning, mutex, filterQueue, readerQueue, filterVars,
                 arrived, clientVars, deviceVars, readings>>

\* No STOP is waiting: masi.readFrame is called.
ReaderGoOn ==
  /\ rdpc = "check"
  /\ isRunning
  /\ readerQueue = 0
  /\ rdpc' = "receive"
  /\ UNCHANGED <<transferVars, isRunning, mutex, filterQueue, readerQueue, filterVars,
                 arrived, clientVars, deviceVars, readings>>

\* A slip: pop() on a queue that may be empty.
SlipPopEmpty ==
  /\ rdpc = "check"
  /\ isRunning
  /\ readerQueue' = readerQueue - 1
  /\ rdpc' = "stop"
  /\ UNCHANGED <<transferVars, isRunning, mutex, filterQueue, filterVars, arrived,
                 clientVars, deviceVars, readings>>

ReaderPopStop ==
  /\ rdpc = "check"
  /\ isRunning
  /\ readerQueue > 0
  /\ readerQueue' = readerQueue - 1
  /\ rdpc' = "stop"
  /\ UNCHANGED <<transferVars, isRunning, mutex, filterQueue, filterVars, arrived,
                 clientVars, deviceVars, readings>>

\* stopReading: UDP_STOP ends the reading and the device closes the connection.
ReaderStop ==
  /\ rdpc = "stop"
  /\ device' = Idle
  /\ link' = FALSE
  /\ rdpc' = "reconnect"
  /\ UNCHANGED <<transferVars, isRunning, mutex, filterQueue, readerQueue, filterVars,
                 arrived, clientVars, stream, readings>>

\* stopReading: the socket is closed with what it holds, and reconnected.
ReaderReconnect ==
  /\ rdpc = "reconnect"
  /\ stream' = << >>
  /\ link' = TRUE
  /\ rdpc' = "check"
  /\ UNCHANGED <<transferVars, isRunning, mutex, filterQueue, readerQueue, filterVars,
                 arrived, clientVars, device, readings>>

\* readFrame's asio::read returns after SO_RCVTIMEO.
ReaderNothing ==
  /\ rdpc = "receive"
  /\ wpc = "receive"
  /\ stream = << >>
  /\ rdpc' = "check"
  /\ UNCHANGED <<transferVars, isRunning, mutex, filterQueue, readerQueue, filterVars,
                 arrived, clientVars, deviceVars, readings>>

ReaderBeginReceive ==
  /\ rdpc = "receive"
  /\ stream # << >>
  /\ Transfer!BeginReceive
  /\ arrived' = Append(arrived, Head(stream))
  /\ stream' = Tail(stream)
  /\ UNCHANGED <<isRunning, mutex, filterQueue, readerQueue, filterVars, rdpc,
                 clientVars, device, link, readings>>

ReaderEndReceive ==
  /\ rdpc = "receive"
  /\ Transfer!EndReceive \/ Transfer!Publish
  /\ UNCHANGED <<isRunning, mutex, filterQueue, readerQueue, filterVars, readerVars,
                 clientVars, deviceVars, readings>>

\* getWritePtr, or its exception passed to the error callback.
ReaderAcquire ==
  /\ rdpc = "receive"
  /\ Transfer!Acquire \/ Transfer!AcquireFails
  /\ rdpc' = "check"
  /\ UNCHANGED <<isRunning, mutex, filterQueue, readerQueue, filterVars, arrived,
                 clientVars, deviceVars, readings>>

-----------------------------------------------------------------------------
(* The application. *)

SetMeasurement(m) ==
  /\ cpc = "idle"
  /\ measurement # m
  /\ measurement' = m
  /\ UNCHANGED <<transferVars, isRunning, mutex, filterQueue, readerQueue, filterVars,
                 readerVars, cpc, calls, deviceVars, readings>>

Read ==
  /\ cpc = "idle"
  /\ Len(readings) < MaxReads
  /\ readings' = Append(readings, [asked |-> Frames(measurement), outcome |-> "pending"])
  /\ filterQueue' = Append(filterQueue, READ(Frames(measurement), Len(readings')))
  /\ UNCHANGED <<transferVars, isRunning, mutex, readerQueue, filterVars, readerVars,
                 clientVars, deviceVars>>

\* cancelReading pushes STOP to the one queue and then to the other.
CancelReading ==
  /\ cpc = "idle"
  /\ calls.cancel < MaxCancels
  /\ calls' = [calls EXCEPT !.cancel = @ + 1]
  /\ filterQueue' = Append(filterQueue, STOP)
  /\ cpc' = "cancel"
  /\ UNCHANGED <<transferVars, isRunning, mutex, readerQueue, filterVars, readerVars,
                 measurement, deviceVars, readings>>

\* DeviceManager::disconnect begins with cancelReading.
Disconnect ==
  /\ cpc = "idle"
  /\ filterQueue' = Append(filterQueue, STOP)
  /\ cpc' = "disconnect"
  /\ UNCHANGED <<transferVars, isRunning, mutex, readerQueue, filterVars, readerVars,
                 calls, measurement, deviceVars, readings>>

CancelReader ==
  /\ cpc \in {"cancel", "disconnect"}
  /\ readerQueue' = readerQueue + 1
  /\ cpc' = IF cpc = "cancel" THEN "idle" ELSE "halt"
  /\ UNCHANGED <<transferVars, isRunning, mutex, filterQueue, filterVars, readerVars,
                 calls, measurement, deviceVars, readings>>

\* Assembly::disconnect
Halt ==
  /\ cpc = "halt"
  /\ isRunning' = FALSE
  /\ cpc' = "wake"
  /\ UNCHANGED <<transferVars, mutex, filterQueue, readerQueue, filterVars, readerVars,
                 calls, measurement, deviceVars, readings>>

\* A slip: a filter thread that waits for a command is not woken.
SlipNoWake ==
  /\ cpc = "wake"
  /\ cpc' = "join"
  /\ UNCHANGED <<transferVars, isRunning, mutex, filterQueue, readerQueue, filterVars,
                 readerVars, calls, measurement, deviceVars, readings>>

Wake ==
  /\ cpc = "wake"
  /\ filterQueue' = Append(filterQueue, STOP)
  /\ cpc' = "join"
  /\ UNCHANGED <<transferVars, isRunning, mutex, readerQueue, filterVars, readerVars,
                 calls, measurement, deviceVars, readings>>

\* filterThread.join(), readerThread.join()
Join ==
  /\ cpc = "join"
  /\ fpc = "exited"
  /\ rdpc = "exited"
  /\ cpc' = "close"
  /\ UNCHANGED <<transferVars, isRunning, mutex, filterQueue, readerQueue, filterVars,
                 readerVars, calls, measurement, deviceVars, readings>>

\* masi.disconnect() under the lock
Close ==
  /\ cpc = "close"
  /\ mutex = "none"
  /\ link' = FALSE
  /\ stream' = << >>
  /\ cpc' = "disconnected"
  /\ UNCHANGED <<transferVars, isRunning, mutex, filterQueue, readerQueue, filterVars,
                 readerVars, calls, measurement, device, readings>>

\* writeCr takes the lock for its exchange with the device.
WriteCr ==
  /\ cpc = "idle"
  /\ calls.command < MaxCommands
  /\ mutex = "none"
  /\ mutex' = "client"
  /\ calls' = [calls EXCEPT !.command = @ + 1]
  /\ cpc' = "command"
  /\ UNCHANGED <<transferVars, isRunning, filterQueue, readerQueue, filterVars,
                 readerVars, measurement, deviceVars, readings>>

WriteCrReturns ==
  /\ cpc = "command"
  /\ mutex' = "none"
  /\ cpc' = "idle"
  /\ UNCHANGED <<transferVars, isRunning, filterQueue, readerQueue, filterVars,
                 readerVars, calls, measurement, deviceVars, readings>>

-----------------------------------------------------------------------------

Init ==
  /\ Transfer!Init
  /\ isRunning = TRUE
  /\ mutex = "none"
  /\ filterQueue = << >>
  /\ readerQueue = 0
  /\ measurement \in Measurements
  /\ fpc = "check"
  /\ msg = STOP
  /\ skip = 0
  /\ i = 0
  /\ rdpc = "connect"
  /\ cpc = "idle"
  /\ device = Idle
  /\ link = FALSE
  /\ stream = << >>
  /\ arrived = << >>
  /\ labels = << >>
  /\ readings = << >>
  /\ calls = [cancel |-> 0, command |-> 0]

FilterThread ==
  \/ FilterCheck \/ FilterPop \/ FilterLock \/ FilterStart \/ FilterStartBusy
  \/ FilterBegin \/ FilterNext \/ FilterStop \/ FilterDone \/ FilterTake
  \/ FilterTimeout \/ FilterSkip \/ FilterProcess \/ FilterGiveBack

ReaderThread ==
  \/ ReaderConnect \/ ReaderExit \/ ReaderGoOn \/ ReaderPopStop \/ ReaderStop
  \/ ReaderReconnect \/ ReaderNothing \/ ReaderBeginReceive \/ ReaderEndReceive
  \/ ReaderAcquire

\* The calls the application may leave out, and those under way that go on.
Call == Read \/ CancelReading \/ Disconnect \/ WriteCr
        \/ \E m \in Measurements : SetMeasurement(m)

GoOn == CancelReader \/ Halt \/ Wake \/ Join \/ Close \/ WriteCrReturns

Next == DeviceSend \/ FilterThread \/ ReaderThread \/ Call \/ GoOn

\* The threads are scheduled, a call under way goes on, and the device sends
\* what it was asked for.  The application need not make any further call.
Fairness ==
  /\ WF_vars(FilterThread)
  /\ WF_vars(ReaderThread)
  /\ WF_vars(GoOn)
  /\ WF_vars(DeviceSend)

Spec == Init /\ [][Next]_vars /\ Fairness

-----------------------------------------------------------------------------

TypeOK ==
  /\ Transfer!TypeOK
  /\ isRunning \in BOOLEAN
  /\ mutex \in {"none", "filter", "client"}
  /\ filterQueue \in Seq([cmd : {"READ", "STOP"}, payload : Nat, reading : Nat])
  /\ readerQueue \in Nat
  /\ measurement \in Measurements
  /\ fpc \in {"check", "pop", "lock", "start", "begin", "top", "frame", "exited"}
  /\ msg \in [cmd : {"READ", "STOP"}, payload : Nat, reading : Nat]
  /\ skip \in Nat
  /\ i \in Nat
  /\ rdpc \in {"connect", "check", "receive", "stop", "reconnect", "exited"}
  /\ cpc \in {"idle", "cancel", "command", "disconnect", "halt", "wake", "join",
              "close", "disconnected"}
  /\ device \in [reading : Nat, sent : Nat, total : Nat]
  /\ link \in BOOLEAN
  /\ stream \in Seq(Nat \X Nat)
  /\ arrived \in Seq(Nat \X Nat)
  /\ labels \in Seq(Nat \X Nat)
  /\ readings \in Seq([asked : Nat, outcome : {"pending", "done", "cancelled", "failed"}])
  /\ calls \in [cancel : Nat, command : Nat]

\* disconnect() has not been called.
Connected == cpc \in {"idle", "cancel", "command"}

\* The frame number a callback sees is the frame's place in its reading: the
\* frame labelled with number k of a reading is the k-th one that the device
\* sent for that reading (frameState.frameNumber, set in readFrames).
FrameNumbers ==
  \A j \in DOMAIN labels :
    delivered[j] \in DOMAIN arrived /\ arrived[delivered[j]] = labels[j]

\* A reading that ran to its end passed every frame it was asked for to the
\* filters, each once, in order and with no other reading's between them,
\* whatever was asked of the assembly since (the count travels in the message,
\* Assembly::read).
DoneIsComplete ==
  \A r \in DOMAIN readings :
    readings[r].outcome = "done" =>
      \E before \in 0 .. Len(labels) - readings[r].asked :
        /\ \A k \in 1 .. readings[r].asked : labels[before + k] = <<r, k>>
        /\ \A j \in DOMAIN labels :
             labels[j][1] = r => j \in before + 1 .. before + readings[r].asked

\* When the filter thread waits for a command and no STOP is on its way, no
\* trace of the readings is left for the next one: not in the device, not on
\* the connection, not in the ring (readFrames returns after nTimes frames).
QuietWhenIdle ==
  Connected /\ fpc = "pop" /\ filterQueue = << >> /\ readerQueue = 0
            /\ rdpc \notin {"stop", "reconnect"}
    => ~Sending /\ stream = << >> /\ wpc \in {"receive", "acquire"} /\ ~Transfer!HasFrame

\* A command that takes the lock reaches a device that is not sending frames
\* (the filter thread holds Assembly::mutex for the whole reading).
CommandsFindDeviceIdle == cpc = "command" => ~Sending

\* Whatever happens to a reading - cancelled, timed out, refused - the filter
\* thread gets back to its queue or ends (Assembly::reader).
FilterComesBack == []<>(fpc \in {"pop", "exited"})

\* Without cancels and with a ring larger than a reading, every call of read()
\* ends with all its frames unless the assembly is disconnected first: nothing
\* times out, is refused or overflows (Assembly::reader).
ReadingsEnd ==
  \A r \in 1 .. MaxReads :
    r \in DOMAIN readings ~>
      ~isRunning \/ (r \in DOMAIN readings /\ readings[r].outcome = "done")

\* disconnect() returns, in whatever state the threads are when it is called
\* (Assembly::disconnect joins both).
DisconnectReturns == (cpc = "disconnect") ~> (cpc = "disconnected")

\* Frames are passed to the filters at most once and in the order in which
\* the device sent them, through cancels, time-outs and skips, up to the first
\* overflow (Assembly over FrameBuffer).
DeliveryInOrder ==
  overflows = 0 =>
    \A j, k \in DOMAIN delivered : j < k => delivered[j] < delivered[k]

==============================================================================
