------------------------------ MODULE SyncRead -------------------------------
(***************************************************************************)
(* The filter pipe of every assembly, the contexts that the filters and    *)
(* the application share, and Device::syncRead, which reads frames through *)
(* filters it adds to the pipes and waits by polling the contexts          *)
(* (device/Device.h, filters/).                                            *)
(*                                                                         *)
(* One application thread calls Device; each assembly has its filter       *)
(* thread.  How frames get into the ring is module Assembly: a frame comes *)
(* here or its wait ends by an exception.  A frame is named by its reading *)
(* and its number there.                                                   *)
(*                                                                         *)
(* A step that the C++ standard leaves undefined - a filter that has been  *)
(* destroyed, a reference to a stack frame that is gone, a null pointer -  *)
(* ends the behaviour and records its cause.                               *)
(***************************************************************************)
EXTENDS Integers, Sequences, FiniteSetsExt, SequencesExt

CONSTANTS
  N,             \* assemblies
  Measurements,  \* the measurements the application sets
  Counts,        \* the integrCount of the pipes it sets
  Saves,         \* the saveNumber of its calls of syncRead
  MaxReads,      \* bound: calls of read() and syncRead()
  MaxPipes,      \* bound: calls of setPipeFilter()
  MaxCancels,    \* bound: calls of cancelReading()
  MaxFails       \* bound: exceptions in the filter threads

Assemblies == 1 .. N

ASSUME SyncReadAssumption ==
  /\ N \in Nat \ {0}
  /\ Measurements \subseteq [readFramesNum : Nat, skipFramesNum : Nat]
  /\ Counts \subseteq Nat \ {0}
  /\ Saves \subseteq Nat \ {0}
  /\ {MaxReads, MaxPipes, MaxCancels, MaxFails} \subseteq Nat

VARIABLES
  undefined,    \* the cause of undefined behaviour, or "none"
  measurement,  \* measurement of the contexts, the same in all of them
  pipe,         \* pipeFilter of each context
  handler,      \* errorCallback of each assembly: 0, or the syncRead it belongs to
  frameNumber,  \* frameState.frameNumber of each context
  result,       \* result of each context: the frames that were added up
  queue,        \* filterMessageQueue of each assembly
  fpc,          \* where each filter thread is
  msg,          \* the message it works on
  i,            \* readFrames' counter
  skip,         \* readFrames' skipFramesNum
  apc,          \* where the application is
  next,         \* the assembly its loop has come to
  active,       \* the syncRead under way, and its saveNumber
  waiting,      \* the loop's flag `reading`
  error,        \* syncRead's flag
  exception,    \* the reading its exception is from, 0 before it is assigned
  buffers,      \* the frames syncRead's filters have saved
  moved,        \* buffers that emplace_back has moved after their filter was made
  reads,        \* calls of read() and syncRead() so far
  calls,        \* the other calls and failures so far
  alone,        \* history: nothing else was going on when syncRead was called
  used,         \* history: syncRead has been called
  misplaced     \* history: a reading without a pipe, or a pipe set during one

contextVars == <<measurement, pipe, frameNumber, result>>
filterVars == <<queue, fpc, msg, i, skip>>
syncVars == <<next, active, waiting, error, exception, buffers, moved, alone>>
callVars == <<apc, reads, calls, used, misplaced>>
vars == <<undefined, contextVars, handler, filterVars, syncVars, callVars>>

READ(n, r) == [cmd |-> "READ", payload |-> n, reading |-> r]
STOP       == [cmd |-> "STOP", payload |-> 0, reading |-> 0]

Frames == measurement.readFramesNum + measurement.skipFramesNum

NoPipe == [n |-> 0, initialized |-> FALSE, sync |-> << >>]

NoSync == [id |-> 0, save |-> 1]

\* No reading of assembly a is queued or under way.
Quiet(a) == fpc[a] = "pop" /\ queue[a] = << >>

\* readFrames' look at the head of the queue.
StopWaits(a) == queue[a] # << >> /\ Head(queue[a]) = STOP

Defined == undefined = "none"

-----------------------------------------------------------------------------
(* The filters of one pipe, for the frame with number k. *)

\* A slip: the sum is never set back.
SlipIntegrate(n, k, frame, sum) == IF n = 1 THEN <<frame>> ELSE Append(sum, frame)

\* IntegratorFilter::process.  What division does to a sum is left out: the
\* frames that are in it stay in it.
Integrate(n, k, frame, sum) ==
  IF n = 1 \/ k % n = 1 THEN <<frame>> ELSE Append(sum, frame)

\* NotifyFilter and CopyNotifyFilter call the context callback...
Notifies(n, k) == k % n = 0

\* ...and SyncReadFilter keeps a copy.
Keeps(save, k) == k % save = 0

-----------------------------------------------------------------------------
(* The filter thread of assembly a: reader and readFrames. *)

FilterPop(a) ==
  /\ Defined /\ fpc[a] = "pop"
  /\ queue[a] # << >>
  /\ queue' = [queue EXCEPT ![a] = Tail(@)]
  /\ msg' = [msg EXCEPT ![a] = Head(queue[a])]
  /\ fpc' = [fpc EXCEPT ![a] = IF Head(queue[a]).cmd = "READ" THEN "start" ELSE "pop"]
  /\ UNCHANGED <<undefined, contextVars, handler, i, skip, syncVars, callVars>>

\* A slip: initFilters is left to the first reading of the assembly.
SlipNoInit(a) ==
  /\ Defined /\ fpc[a] = "start"
  /\ pipe[a] # NoPipe
  /\ pipe' = [pipe EXCEPT ![a].initialized = @ \/ frameNumber[a] = 0]
  /\ skip' = [skip EXCEPT ![a] = measurement.skipFramesNum]
  /\ i' = [i EXCEPT ![a] = 0]
  /\ fpc' = [fpc EXCEPT ![a] = "top"]
  /\ UNCHANGED <<undefined, measurement, frameNumber, result, handler, queue, msg,
                 syncVars, callVars>>

\* The reading is started, initFilters, and readFrames up to its loop.
FilterBegin(a) ==
  /\ Defined /\ fpc[a] = "start"
  /\ pipe[a] # NoPipe
  /\ pipe' = [pipe EXCEPT ![a].initialized = TRUE]
  /\ skip' = [skip EXCEPT ![a] = measurement.skipFramesNum]
  /\ i' = [i EXCEPT ![a] = 0]
  /\ fpc' = [fpc EXCEPT ![a] = "top"]
  /\ UNCHANGED <<undefined, measurement, frameNumber, result, handler, queue, msg,
                 syncVars, callVars>>

\* initFilters asks a pipe that was never set.
FilterNoPipe(a) ==
  /\ Defined /\ fpc[a] = "start"
  /\ pipe[a] = NoPipe
  /\ undefined' = "no pipe"
  /\ UNCHANGED <<contextVars, handler, filterVars, syncVars, callVars>>

\* Back to the queue; what was local to the reading is gone.
Leave(a) ==
  /\ fpc' = [fpc EXCEPT ![a] = "pop"]
  /\ msg' = [msg EXCEPT ![a] = STOP]
  /\ i' = [i EXCEPT ![a] = 0]
  /\ skip' = [skip EXCEPT ![a] = 0]

\* The loop ends, or takes a STOP.
FilterEnd(a) ==
  /\ Defined /\ fpc[a] = "top"
  /\ \/ i[a] = msg[a].payload /\ UNCHANGED queue
     \/ /\ i[a] < msg[a].payload
        /\ StopWaits(a)
        /\ queue' = [queue EXCEPT ![a] = Tail(@)]
  /\ Leave(a)
  /\ UNCHANGED <<undefined, contextVars, handler, syncVars, callVars>>

\* A slip: the counter, not the frame's number.
SlipCounter(a) ==
  /\ Defined /\ fpc[a] = "top"
  /\ i[a] < msg[a].payload
  /\ ~StopWaits(a)
  /\ frameNumber' = [frameNumber EXCEPT ![a] = i[a]]
  /\ fpc' = [fpc EXCEPT ![a] = "wait"]
  /\ UNCHANGED <<undefined, measurement, pipe, result, handler, queue, msg, i, skip,
                 syncVars, callVars>>

\* A slip: the number among the frames that are kept.
SlipRelative(a) ==
  /\ Defined /\ fpc[a] = "top"
  /\ i[a] < msg[a].payload
  /\ ~StopWaits(a)
  /\ frameNumber' = [frameNumber EXCEPT ![a] = i[a] + 1 - skip[a]]
  /\ fpc' = [fpc EXCEPT ![a] = "wait"]
  /\ UNCHANGED <<undefined, measurement, pipe, result, handler, queue, msg, i, skip,
                 syncVars, callVars>>

\* The frame's number is set before there is a frame.
FilterNumber(a) ==
  /\ Defined /\ fpc[a] = "top"
  /\ i[a] < msg[a].payload
  /\ ~StopWaits(a)
  /\ frameNumber' = [frameNumber EXCEPT ![a] = i[a] + 1]
  /\ fpc' = [fpc EXCEPT ![a] = "wait"]
  /\ UNCHANGED <<undefined, measurement, pipe, result, handler, queue, msg, i, skip,
                 syncVars, callVars>>

\* getReadPtr returned a frame to be skipped.
FilterSkip(a) ==
  /\ Defined /\ fpc[a] = "wait"
  /\ i[a] < skip[a]
  /\ i' = [i EXCEPT ![a] = @ + 1]
  /\ fpc' = [fpc EXCEPT ![a] = "top"]
  /\ UNCHANGED <<undefined, contextVars, handler, queue, msg, skip, syncVars, callVars>>

\* getReadPtr returned a frame for the pipe.  The filters of a pipe set since
\* initFilters are not initialised: SwapFilter copies to a null pointer.
FilterEnterPipe(a) ==
  /\ Defined /\ fpc[a] = "wait"
  /\ i[a] >= skip[a]
  /\ IF pipe[a].initialized
     THEN fpc' = [fpc EXCEPT ![a] = "pipe"] /\ UNCHANGED undefined
     ELSE undefined' = "not initialised" /\ UNCHANGED fpc
  /\ UNCHANGED <<contextVars, handler, queue, msg, i, skip, syncVars, callVars>>

\* PipeFilter::process runs every filter.  A filter of a syncRead that is over,
\* or whose buffer has been moved, writes to a vector that is gone.
FilterProcess(a) ==
  LET k == frameNumber[a]
      n == pipe[a].n
      frame == <<msg[a].reading, k>>
      sum == Integrate(n, k, frame, result[a])
      keeping == {s \in ToSet(pipe[a].sync) : Keeps(s.save, k)}
  IN
  /\ Defined /\ fpc[a] = "pipe"
  /\ result' = [result EXCEPT ![a] = sum]
  /\ IF keeping \subseteq {active} /\ (keeping # {} => ~moved[a])
     THEN /\ buffers' = IF keeping # {} THEN [buffers EXCEPT ![a] = Append(@, frame)]
                                        ELSE buffers
          /\ UNCHANGED undefined
     ELSE undefined' = "buffer" /\ UNCHANGED buffers
  /\ i' = [i EXCEPT ![a] = @ + 1]
  /\ fpc' = [fpc EXCEPT ![a] = "top"]
  /\ UNCHANGED <<measurement, pipe, frameNumber, handler, queue, msg, skip, next, active,
                 waiting, error, exception, moved, alone, callVars>>

\* The reading does not start, or a frame does not come: the exception is passed
\* to the error callback, which is the application's or a syncRead's lambda...
FilterFails(a) ==
  /\ Defined /\ fpc[a] \in {"start", "wait"}
  /\ calls.fail < MaxFails
  /\ calls' = [calls EXCEPT !.fail = @ + 1]
  /\ IF handler[a] = 0 THEN Leave(a)
     ELSE fpc' = [fpc EXCEPT ![a] = "raise"] /\ UNCHANGED <<msg, i, skip>>
  /\ UNCHANGED <<undefined, contextVars, handler, queue, syncVars, apc, reads, used,
                 misplaced>>

\* ...which sets error...
FilterRaise(a) ==
  /\ Defined /\ fpc[a] = "raise"
  /\ handler[a] = active.id
  /\ error' = TRUE
  /\ fpc' = [fpc EXCEPT ![a] = "assign"]
  /\ UNCHANGED <<undefined, contextVars, handler, queue, msg, i, skip, next, active, waiting,
                 exception, buffers, moved, alone, callVars>>

\* ...and then exception...
FilterAssign(a) ==
  /\ Defined /\ fpc[a] = "assign"
  /\ handler[a] = active.id
  /\ exception' = msg[a].reading
  /\ Leave(a)
  /\ UNCHANGED <<undefined, contextVars, handler, queue, next, active, waiting, error,
                 buffers, moved, alone, callVars>>

\* ...unless they are on the stack frame of a syncRead that is over.
FilterRaiseLate(a) ==
  /\ Defined /\ fpc[a] \in {"raise", "assign"}
  /\ handler[a] # active.id
  /\ undefined' = "handler"
  /\ UNCHANGED <<contextVars, handler, filterVars, syncVars, callVars>>

-----------------------------------------------------------------------------
(* The application. *)

SetMeasurement(m) ==
  /\ Defined /\ apc = "idle"
  /\ measurement' = m
  /\ UNCHANGED <<undefined, pipe, frameNumber, result, handler, filterVars, syncVars,
                 callVars>>

\* Each assembly gets a copy of the pipe; the one it had is destroyed, also
\* when it is running.
SetPipeFilter(n) ==
  /\ Defined /\ apc = "idle"
  /\ calls.pipe < MaxPipes
  /\ calls' = [calls EXCEPT !.pipe = @ + 1]
  /\ pipe' = [a \in Assemblies |-> [NoPipe EXCEPT !.n = n]]
  /\ misplaced' = (misplaced \/ \E a \in Assemblies : ~Quiet(a))
  /\ undefined' = IF \E a \in Assemblies : fpc[a] = "pipe" THEN "pipe destroyed" ELSE "none"
  /\ UNCHANGED <<measurement, frameNumber, result, handler, filterVars, syncVars, apc,
                 reads, used>>

\* Device::read puts the command into every queue.
Push ==
  /\ reads' = reads + 1
  /\ queue' = [a \in Assemblies |-> Append(queue[a], READ(Frames, reads + 1))]
  /\ misplaced' = (misplaced \/ \E a \in Assemblies : pipe[a] = NoPipe)

Read ==
  /\ Defined /\ apc = "idle"
  /\ reads < MaxReads
  /\ Push
  /\ UNCHANGED <<undefined, contextVars, handler, fpc, msg, i, skip, syncVars, apc, calls,
                 used>>

CancelReading ==
  /\ Defined /\ apc = "idle"
  /\ calls.cancel < MaxCancels
  /\ calls' = [calls EXCEPT !.cancel = @ + 1]
  /\ queue' = [a \in Assemblies |-> Append(queue[a], STOP)]
  /\ UNCHANGED <<undefined, contextVars, handler, fpc, msg, i, skip, syncVars, apc, reads,
                 used, misplaced>>

\* disconnect, once the filter threads are idle: deInitFilters asks the pipe.
Disconnect ==
  /\ Defined /\ apc = "idle"
  /\ \A a \in Assemblies : Quiet(a)
  /\ undefined' = IF \E a \in Assemblies : pipe[a] = NoPipe THEN "no pipe" ELSE "none"
  /\ pipe' = [a \in Assemblies |-> [pipe[a] EXCEPT !.initialized = FALSE]]
  /\ misplaced' = (misplaced \/ \E a \in Assemblies : pipe[a] = NoPipe)
  /\ apc' = "disconnected"
  /\ UNCHANGED <<measurement, frameNumber, result, handler, filterVars, syncVars, reads,
                 calls, used>>

\* syncRead's locals.
Locals(sync, isAlone) ==
  /\ active' = sync
  /\ next' = 1
  /\ waiting' = FALSE
  /\ error' = FALSE
  /\ exception' = 0
  /\ buffers' = [a \in Assemblies |-> << >>]
  /\ moved' = [a \in Assemblies |-> FALSE]
  /\ alone' = isAlone

SyncLeave == Locals(NoSync, FALSE) /\ apc' = "idle"

\* syncRead replaces the error callbacks.
SyncRead(save) ==
  /\ Defined /\ apc = "idle"
  /\ reads < MaxReads
  /\ Locals([id |-> reads + 1, save |-> save],
            \A a \in Assemblies : Quiet(a) /\ frameNumber[a] # measurement.readFramesNum
                                           /\ pipe[a].sync = << >>)
  /\ handler' = [a \in Assemblies |-> reads + 1]
  /\ apc' = "add"
  /\ used' = TRUE
  /\ UNCHANGED <<undefined, contextVars, filterVars, reads, calls, misplaced>>

\* buffers.emplace_back() moves the buffers that exist to a larger array (always,
\* up to three assemblies), and the filter is added to a vector that the filter
\* thread may be walking.
SyncAdd ==
  /\ Defined /\ apc = "add"
  /\ next \in Assemblies
  /\ undefined' = IF pipe[next] = NoPipe THEN "no pipe"
                  ELSE IF fpc[next] = "pipe" THEN "pipe changed" ELSE "none"
  /\ moved' = [a \in Assemblies |-> moved[a] \/ a < next]
  /\ pipe' = [pipe EXCEPT ![next].sync = Append(@, active)]
  /\ next' = next + 1
  /\ UNCHANGED <<measurement, frameNumber, result, handler, filterVars, active, waiting,
                 error, exception, buffers, alone, callVars>>

\* Device::read
SyncPush ==
  /\ Defined /\ apc = "add"
  /\ next > N
  /\ Push
  /\ apc' = "sleep"
  /\ UNCHANGED <<undefined, contextVars, handler, fpc, msg, i, skip, syncVars, calls, used>>

\* 100 ms later: throw exception.  The filters and the callbacks stay.
SyncThrow ==
  /\ Defined /\ apc = "sleep"
  /\ error
  /\ SyncLeave
  /\ UNCHANGED <<undefined, contextVars, handler, filterVars, reads, calls, used, misplaced>>

\* Or no error: the contexts are looked at one after another.
SyncPoll ==
  /\ Defined /\ apc = "sleep"
  /\ ~error
  /\ next' = 1
  /\ apc' = "poll"
  /\ UNCHANGED <<undefined, contextVars, handler, filterVars, active, waiting, error, exception,
                 buffers, moved, alone, reads, calls, used, misplaced>>

\* A slip: one frame less is enough.
SlipLook ==
  /\ Defined /\ apc = "poll"
  /\ next \in Assemblies
  /\ waiting' = (waiting \/ frameNumber[next] < measurement.readFramesNum - 1)
  /\ next' = next + 1
  /\ UNCHANGED <<undefined, contextVars, handler, filterVars, active, error, exception,
                 buffers, moved, alone, callVars>>

SyncLook ==
  /\ Defined /\ apc = "poll"
  /\ next \in Assemblies
  /\ waiting' = (waiting \/ frameNumber[next] # measurement.readFramesNum)
  /\ next' = next + 1
  /\ UNCHANGED <<undefined, contextVars, handler, filterVars, active, error, exception,
                 buffers, moved, alone, callVars>>

\* while (reading)
SyncAgain ==
  /\ Defined /\ apc = "poll"
  /\ next > N
  /\ next' = 1
  /\ waiting' = FALSE
  /\ apc' = IF waiting THEN "sleep" ELSE "remove"
  /\ UNCHANGED <<undefined, contextVars, handler, filterVars, active, error,
                 exception, buffers, moved, alone, reads, calls, used, misplaced>>

\* pop_back destroys the filter, which may be running.
SyncRemove ==
  /\ Defined /\ apc = "remove"
  /\ next \in Assemblies
  /\ undefined' = IF fpc[next] = "pipe" THEN "pipe changed" ELSE "none"
  /\ pipe' = [pipe EXCEPT ![next].sync = Front(@)]
  /\ next' = next + 1
  /\ UNCHANGED <<measurement, frameNumber, result, handler, filterVars, active, waiting,
                 error, exception, buffers, moved, alone, callVars>>

\* The saved frames are returned.
SyncReturn ==
  /\ Defined /\ apc = "remove"
  /\ next > N
  /\ SyncLeave
  /\ UNCHANGED <<undefined, contextVars, handler, filterVars, reads, calls, used, misplaced>>

-----------------------------------------------------------------------------

Init ==
  /\ undefined = "none"
  /\ measurement = [readFramesNum |-> 0, skipFramesNum |-> 0]
  /\ pipe = [a \in Assemblies |-> NoPipe]
  /\ handler = [a \in Assemblies |-> 0]
  /\ frameNumber = [a \in Assemblies |-> 0]
  /\ result = [a \in Assemblies |-> << >>]
  /\ queue = [a \in Assemblies |-> << >>]
  /\ fpc = [a \in Assemblies |-> "pop"]
  /\ msg = [a \in Assemblies |-> STOP]
  /\ i = [a \in Assemblies |-> 0]
  /\ skip = [a \in Assemblies |-> 0]
  /\ apc = "idle"
  /\ next = 1
  /\ active = NoSync
  /\ waiting = FALSE
  /\ error = FALSE
  /\ exception = 0
  /\ buffers = [a \in Assemblies |-> << >>]
  /\ moved = [a \in Assemblies |-> FALSE]
  /\ reads = 0
  /\ calls = [pipe |-> 0, cancel |-> 0, fail |-> 0]
  /\ alone = FALSE
  /\ used = FALSE
  /\ misplaced = FALSE

FilterThread(a) ==
  \/ FilterPop(a) \/ FilterBegin(a) \/ FilterNoPipe(a) \/ FilterEnd(a) \/ FilterNumber(a)
  \/ FilterSkip(a) \/ FilterEnterPipe(a) \/ FilterProcess(a) \/ FilterFails(a)
  \/ FilterRaise(a) \/ FilterAssign(a) \/ FilterRaiseLate(a)

Call ==
  \/ \E m \in Measurements : SetMeasurement(m)
  \/ \E n \in Counts : SetPipeFilter(n)
  \/ \E s \in Saves : SyncRead(s)
  \/ Read \/ CancelReading \/ Disconnect

GoOn ==
  SyncAdd \/ SyncPush \/ SyncThrow \/ SyncPoll \/ SyncLook \/ SyncAgain \/ SyncRemove
  \/ SyncReturn

Next == Call \/ GoOn \/ \E a \in Assemblies : FilterThread(a)

\* The threads are scheduled and a call under way goes on.
Fairness ==
  /\ \A a \in Assemblies : WF_vars(FilterThread(a))
  /\ WF_vars(GoOn)

Spec == Init /\ [][Next]_vars /\ Fairness

-----------------------------------------------------------------------------

Causes == {"none", "no pipe", "not initialised", "pipe destroyed", "pipe changed", "buffer",
           "handler"}
Syncs == [id : Nat, save : Nat]

TypeOK ==
  /\ undefined \in Causes
  /\ measurement \in [readFramesNum : Nat, skipFramesNum : Nat]
  /\ pipe \in [Assemblies -> [n : Nat, initialized : BOOLEAN, sync : Seq(Syncs)]]
  /\ {handler, frameNumber, i, skip} \subseteq [Assemblies -> Nat]
  /\ result \in [Assemblies -> Seq(Nat \X Nat)]
  /\ queue \in [Assemblies -> Seq([cmd : {"READ", "STOP"}, payload : Nat, reading : Nat])]
  /\ fpc \in [Assemblies -> {"pop", "start", "top", "wait", "pipe", "raise", "assign"}]
  /\ msg \in [Assemblies -> [cmd : {"READ", "STOP"}, payload : Nat, reading : Nat]]
  /\ apc \in {"idle", "add", "sleep", "poll", "remove", "disconnected"}
  /\ next \in 1 .. N + 1
  /\ active \in Syncs
  /\ buffers \in [Assemblies -> Seq(Nat \X Nat)]
  /\ moved \in [Assemblies -> BOOLEAN]
  /\ {waiting, error, alone, used, misplaced} \subseteq BOOLEAN
  /\ {exception, reads} \subseteq Nat
  /\ calls \in [pipe : Nat, cancel : Nat, fail : Nat]

\* The frames that a syncRead is to save of the first `last` frames of its reading.
AskedUpTo(last) == [j \in 1 .. last \div active.save |-> <<active.id, j * active.save>>]

Returns == Defined /\ apc = "remove" /\ next > N

\* A syncRead that found the assemblies idle, and in their contexts no number equal to
\* the one it waits for, and that skips no frames returns the frames it was to save,
\* of its own reading, in order and each once; it may miss only the last frame of the
\* reading, because the number it waits for is set before that frame has been received
\* (Device::syncRead, Assembly::readFrames; the documentation, "@return the saved
\* frames", knows no exception).
SavesAllButTheLast ==
  Returns /\ alone /\ measurement.skipFramesNum = 0 =>
    \A a \in Assemblies :
      buffers[a] \in {AskedUpTo(measurement.readFramesNum),
                      AskedUpTo(measurement.readFramesNum - 1)}

\* A result passed to the context callback with number k is the sum of the last
\* n frames of its reading and of nothing else, whatever happened to the readings
\* before, as long as whole groups of n frames are skipped (IntegratorFilter sets
\* the sum back at the first frame of a group only).
AveragesAreWhole ==
  [][\A a \in Assemblies :
       LET n == pipe[a].n
           k == frameNumber[a]
       IN  FilterProcess(a) /\ Notifies(n, k) /\ skip[a] % n = 0
             => result'[a] = [j \in 1 .. n |-> <<msg[a].reading, k - n + j>>]]_vars

\* Readings by read() alone are defined, with cancels, failures and any order of
\* calls, if a pipe is set before the first of them and never during one
\* (initFilters before the loop, Assembly::setPipeFilter without a lock).
AsynchronousIsDefined == ~used /\ ~misplaced => Defined

\* syncRead returns or throws, if it is alone and skips no frames.
SyncReadReturns ==
  apc = "sleep" /\ alone /\ measurement.skipFramesNum = 0 /\ measurement.readFramesNum > 0
    ~> apc = "idle" \/ ~Defined

==============================================================================
