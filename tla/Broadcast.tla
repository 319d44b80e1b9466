------------------------------ MODULE Broadcast ------------------------------
(***************************************************************************)
(* A broadcast reading of several assemblies (Device::readBroadcast): each *)
(* assembly but the first is told to prepare (SYNC_PREPARE) and the first  *)
(* to prepare and start them all by one broadcast packet (SYNC_RUN).  All  *)
(* are told through their queues, which their filter threads empty at      *)
(* their own time, and nothing waits until the others are prepared.        *)
(*                                                                         *)
(* Of one assembly's reading as much is kept as matters between them: the  *)
(* connection and the ring are one sequence of frames and never full, no   *)
(* frames are skipped, and a frame that is on its way comes in time        *)
(* (module Assembly has the rest, and cancels).  Devices and network are   *)
(* external: a prepared device keeps its number of frames, a start packet  *)
(* reaches each device at its own time or is lost, and is ignored by one   *)
(* that is sending; the packet is not answered.                            *)
(***************************************************************************)
EXTENDS Integers, Sequences

CONSTANTS
  N,           \* assemblies
  Counts,      \* the numbers of frames that are asked for
  MaxReads,    \* bound: calls of readBroadcast
  MaxLost      \* bound: start packets that are lost

ASSUME BroadcastAssumption ==
  /\ N \in Nat \ {0}
  /\ Counts \subseteq Nat
  /\ {MaxReads, MaxLost} \subseteq Nat

Assemblies == 1 .. N

VARIABLES
  todo,     \* the pushes to queues that the application's call has yet to make
  queue,    \* filterMessageQueue of each assembly
  fpc,      \* where its filter thread is
  msg,      \* the message that thread works on
  i,        \* readFrames' loop counter
  frames,   \* received and not taken
  lines,    \* external: the number of frames each device is prepared for
  starts,   \* external: the start packets on their way to it, oldest first
  device,   \* external: the reading it works on, and the frames sent of it
  outcome,  \* history: how each reading ended at each assembly
  mixed,    \* history: the assemblies whose filters were given, as the k-th frame of
            \* a reading, another than the k-th that its start made the device send
  begun,    \* history: the readings whose start was sent
  together, \* history: every start found the other assemblies waiting for it
  quiet,    \* history: no start packet was lost
  lost      \* the start packets lost so far

filterVars == <<fpc, msg, i>>
deviceVars == <<lines, starts, device, lost>>
historyVars == <<outcome, mixed, begun, together, quiet>>
vars == <<todo, queue, filterVars, frames, deviceVars, historyVars>>

Message(cmd, n, r) == [cmd |-> cmd, payload |-> n, reading |-> r]
NoMessage == Message("NONE", 0, 0)

Idle == [reading |-> 0, sent |-> 0, total |-> 0]

Sending(a) == device[a].sent < device[a].total

-----------------------------------------------------------------------------
(* The application. *)

Push(a, m) == [asm |-> a, msg |-> m]

\* A slip: every assembly is told to start the reading.
SlipRunAll(n) ==
  /\ todo = << >>
  /\ Len(outcome) < MaxReads
  /\ outcome' = Append(outcome, [a \in Assemblies |-> "pending"])
  /\ todo' = [k \in Assemblies |-> Push(k, Message("SYNC_RUN", n, Len(outcome')))]
  /\ UNCHANGED <<queue, filterVars, frames, deviceVars, mixed, begun, together, quiet>>

\* Device::readBroadcast with measurements of n frames.
ReadBroadcast(n) ==
  /\ todo = << >>
  /\ Len(outcome) < MaxReads
  /\ outcome' = Append(outcome, [a \in Assemblies |-> "pending"])
  /\ todo' = [k \in 1 .. N - 1 |->
                Push(k + 1, Message("SYNC_PREPARE", n, Len(outcome')))]
             \o << Push(1, Message("SYNC_RUN", n, Len(outcome'))) >>
  /\ UNCHANGED <<queue, filterVars, frames, deviceVars, mixed, begun, together, quiet>>

\* The next push of the call under way: syncPrepare or syncRun.
PushNext ==
  /\ todo # << >>
  /\ todo' = Tail(todo)
  /\ queue' = [queue EXCEPT ![Head(todo).asm] = Append(@, Head(todo).msg)]
  /\ UNCHANGED <<filterVars, frames, deviceVars, historyVars>>

-----------------------------------------------------------------------------
(* The filter thread of assembly a. *)

Goto(a, place) == fpc' = [fpc EXCEPT ![a] = place]

\* The reading is over for a; the thread goes back to its queue, and its local
\* variables are gone.
End(a, how) ==
  /\ Goto(a, "pop")
  /\ msg' = [msg EXCEPT ![a] = NoMessage]
  /\ i' = [i EXCEPT ![a] = 0]
  /\ outcome' = [outcome EXCEPT ![msg[a].reading][a] = how]

\* filterMessageQueue.pop()
FilterPop(a) ==
  /\ fpc[a] = "pop"
  /\ queue[a] # << >>
  /\ queue' = [queue EXCEPT ![a] = Tail(@)]
  /\ msg' = [msg EXCEPT ![a] = Head(queue[a])]
  /\ Goto(a, "prepare")
  /\ UNCHANGED <<todo, i, frames, deviceVars, historyVars>>

\* A slip: the number of frames is set only where the reading is started.
SlipPrepare(a) ==
  /\ fpc[a] = "prepare"
  /\ lines' = IF msg[a].cmd = "SYNC_RUN" THEN [lines EXCEPT ![a] = msg[a].payload] ELSE lines
  /\ i' = [i EXCEPT ![a] = 0]
  /\ Goto(a, IF msg[a].cmd = "SYNC_RUN" THEN "start" ELSE "top")
  /\ UNCHANGED <<todo, queue, msg, frames, starts, device, lost, historyVars>>

\* masi.initBroadcastReading: the device is told the number of frames.
FilterPrepare(a) ==
  /\ fpc[a] = "prepare"
  /\ lines' = [lines EXCEPT ![a] = msg[a].payload]
  /\ i' = [i EXCEPT ![a] = 0]
  /\ Goto(a, IF msg[a].cmd = "SYNC_RUN" THEN "start" ELSE "top")
  /\ UNCHANGED <<todo, queue, msg, frames, starts, device, lost, historyVars>>

\* A device that is sending may refuse with UDP_BSY; the exception ends the reading.
FilterRefused(a) ==
  /\ fpc[a] = "prepare"
  /\ Sending(a)
  /\ End(a, "failed")
  /\ UNCHANGED <<todo, queue, frames, deviceVars, mixed, begun, together, quiet>>

\* a waits for the first frame of reading r.
Waiting(a, r) == fpc[a] \in {"top", "frame"} /\ msg[a].reading = r /\ i[a] = 0

\* masi.startReadingBroadcast sends the packet; the loop of readFrames follows.
FilterStart(a) ==
  /\ fpc[a] = "start"
  /\ starts' = [b \in Assemblies |-> Append(starts[b], msg[a].reading)]
  /\ begun' = begun \cup {msg[a].reading}
  /\ together' = (together /\ \A b \in Assemblies \ {a} : Waiting(b, msg[a].reading))
  /\ Goto(a, "top")
  /\ UNCHANGED <<todo, queue, msg, i, frames, lines, device, lost, outcome, mixed, quiet>>

FilterNext(a) ==
  /\ fpc[a] = "top"
  /\ i[a] < msg[a].payload
  /\ Goto(a, "frame")
  /\ UNCHANGED <<todo, queue, msg, i, frames, deviceVars, historyVars>>

FilterDone(a) ==
  /\ fpc[a] = "top"
  /\ i[a] >= msg[a].payload
  /\ End(a, "done")
  /\ UNCHANGED <<todo, queue, frames, deviceVars, mixed, begun, together, quiet>>

\* A frame is taken from the ring, processed and given back.
FilterFrame(a) ==
  /\ fpc[a] = "frame"
  /\ frames[a] # << >>
  /\ frames' = [frames EXCEPT ![a] = Tail(@)]
  /\ mixed' = IF Head(frames[a]) = <<msg[a].reading, i[a] + 1>> THEN mixed
              ELSE mixed \cup {a}
  /\ i' = [i EXCEPT ![a] = @ + 1]
  /\ Goto(a, "top")
  /\ UNCHANGED <<todo, queue, msg, deviceVars, outcome, begun, together, quiet>>

\* A slip: getReadPtr waits without a time limit.
SlipNoTimeout(a) == FALSE

\* getReadPtr waits for DriverConfig::timeout and throws.
FilterTimeout(a) ==
  /\ fpc[a] = "frame"
  /\ frames[a] = << >>
  /\ ~Sending(a)
  /\ starts[a] = << >>
  /\ End(a, "failed")
  /\ UNCHANGED <<todo, queue, frames, deviceVars, mixed, begun, together, quiet>>

-----------------------------------------------------------------------------
(* The devices and the network (external). *)

DeviceStart(a) ==
  /\ starts[a] # << >>
  /\ starts' = [starts EXCEPT ![a] = Tail(@)]
  /\ device' = IF Sending(a) THEN device
               ELSE [device EXCEPT ![a] =
                       [reading |-> Head(starts[a]), sent |-> 0, total |-> lines[a]]]
  /\ UNCHANGED <<todo, queue, filterVars, frames, lines, lost, historyVars>>

DeviceSend(a) ==
  /\ Sending(a)
  /\ device' = [device EXCEPT ![a].sent = @ + 1]
  /\ frames' = [frames EXCEPT ![a] = Append(@, <<device[a].reading, device[a].sent + 1>>)]
  /\ UNCHANGED <<todo, queue, filterVars, lines, starts, lost, historyVars>>

LoseStart(a) ==
  /\ starts[a] # << >>
  /\ lost < MaxLost
  /\ lost' = lost + 1
  /\ starts' = [starts EXCEPT ![a] = Tail(@)]
  /\ quiet' = FALSE
  /\ UNCHANGED <<todo, queue, filterVars, frames, lines, device, outcome, mixed,
                 begun, together>>

-----------------------------------------------------------------------------

Init ==
  /\ todo = << >>
  /\ queue = [a \in Assemblies |-> << >>]
  /\ fpc = [a \in Assemblies |-> "pop"]
  /\ msg = [a \in Assemblies |-> NoMessage]
  /\ i = [a \in Assemblies |-> 0]
  /\ frames = [a \in Assemblies |-> << >>]
  /\ lines = [a \in Assemblies |-> 0]
  /\ starts = [a \in Assemblies |-> << >>]
  /\ device = [a \in Assemblies |-> Idle]
  /\ outcome = << >>
  /\ mixed = {}
  /\ begun = {}
  /\ together = TRUE
  /\ quiet = TRUE
  /\ lost = 0

Call == \E n \in Counts : ReadBroadcast(n)

FilterThread(a) ==
  \/ FilterPop(a) \/ FilterPrepare(a) \/ FilterRefused(a) \/ FilterStart(a)
  \/ FilterNext(a) \/ FilterDone(a) \/ FilterFrame(a) \/ FilterTimeout(a)

Device(a) == DeviceStart(a) \/ DeviceSend(a) \/ LoseStart(a)

Next ==
  \/ Call
  \/ PushNext
  \/ \E a \in Assemblies : FilterThread(a) \/ Device(a)

\* The threads are scheduled, a call under way goes on, packets arrive or are
\* lost, and a device sends what it was asked for.
Fairness ==
  /\ WF_vars(PushNext)
  /\ \A a \in Assemblies : WF_vars(FilterThread(a)) /\ WF_vars(Device(a))

Spec == Init /\ [][Next]_vars /\ Fairness

-----------------------------------------------------------------------------

Messages == [cmd : {"SYNC_RUN", "SYNC_PREPARE", "NONE"}, payload : Nat, reading : Nat]
Outcomes == {"pending", "done", "failed"}

\* The types; only the first assembly ever starts one.
TypeOK ==
  /\ todo \in Seq([asm : Assemblies, msg : Messages])
  /\ queue \in [Assemblies -> Seq(Messages)]
  /\ fpc \in [Assemblies -> {"pop", "prepare", "start", "top", "frame"}]
  /\ \A a \in Assemblies : fpc[a] = "start" => a = 1
  /\ msg \in [Assemblies -> Messages]
  /\ i \in [Assemblies -> Nat]
  /\ frames \in [Assemblies -> Seq(Nat \X Nat)]
  /\ lines \in [Assemblies -> Nat]
  /\ starts \in [Assemblies -> Seq(Nat)]
  /\ device \in [Assemblies -> [reading : Nat, sent : Nat, total : Nat]]
  /\ outcome \in Seq([Assemblies -> Outcomes])
  /\ mixed \subseteq Assemblies
  /\ begun \subseteq DOMAIN outcome
  /\ {together, quiet} \subseteq BOOLEAN
  /\ lost \in Nat

\* a was given the frames of each reading and no others, in order, and no
\* reading that was started failed at a.
Exact(a) ==
  /\ a \notin mixed
  /\ \A r \in begun : outcome[r][a] # "failed"

\* A broadcast reading is synchronous if each start finds the others waiting
\* (the order that the comment on Assembly::syncRun asks for, and that nothing
\* in Device::readBroadcast brings about): frames with the same number belong
\* to the same start at all assemblies.  A start that comes too early, before
\* an assembly is prepared or after it gave up, harms that assembly and those
\* readings of it that follow, but never the first one's readings.
\* Readings of 0 frames, which the code accepts, are left out (Counts): such a
\* reading is over before its start arrives, and that start then makes the
\* devices send the frames of the next one.
Synchronous ==
  quiet => \A a \in Assemblies : a = 1 \/ together => Exact(a)

\* A broadcast reading comes to an end at every assembly, however early its
\* start was and if it was lost (Assembly::reader, FrameBuffer::getReadPtr).
BroadcastEnds ==
  \A r \in 1 .. MaxReads :
    r \in DOMAIN outcome
      ~> r \in DOMAIN outcome /\ \A a \in Assemblies : outcome[r][a] # "pending"

==============================================================================
