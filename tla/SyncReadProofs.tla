--------------------------- MODULE SyncReadProofs ----------------------------
(***************************************************************************)
(* Proofs about module SyncRead, for every number of assemblies, every     *)
(* measurement and pipe, and every bound.                                  *)
(***************************************************************************)
EXTENDS SyncRead, TLAPS

Messages == [cmd : {"READ", "STOP"}, payload : Nat, reading : Nat]
Pipes == [n : Nat, initialized : BOOLEAN, sync : Seq(Syncs)]
Collections == [Assemblies -> Seq(Nat \X Nat)]

\* TypeOK in parts, by the steps that change them.
ContextTypes ==
  /\ undefined \in Causes
  /\ measurement \in [readFramesNum : Nat, skipFramesNum : Nat]
  /\ pipe \in [Assemblies -> Pipes]
  /\ frameNumber \in [Assemblies -> Nat] /\ handler \in [Assemblies -> Nat]
  /\ result \in Collections

FilterTypes ==
  /\ queue \in [Assemblies -> Seq(Messages)]
  /\ fpc \in [Assemblies -> {"pop", "start", "top", "wait", "pipe", "raise", "assign"}]
  /\ msg \in [Assemblies -> Messages]
  /\ i \in [Assemblies -> Nat] /\ skip \in [Assemblies -> Nat]

SyncTypes ==
  /\ next \in 1 .. N + 1 /\ active \in Syncs
  /\ waiting \in BOOLEAN /\ error \in BOOLEAN /\ alone \in BOOLEAN
  /\ exception \in Nat
  /\ buffers \in Collections /\ moved \in [Assemblies -> BOOLEAN]

CallTypes ==
  /\ apc \in {"idle", "add", "sleep", "poll", "remove", "disconnected"}
  /\ reads \in Nat /\ calls \in [pipe : Nat, cancel : Nat, fail : Nat]
  /\ used \in BOOLEAN /\ misplaced \in BOOLEAN

TypeInv == ContextTypes /\ FilterTypes /\ SyncTypes /\ CallTypes

\* Before the first syncRead there are no filters and callbacks of one.
Unused ==
  /\ apc \in {"idle", "disconnected"}
  /\ \A a \in Assemblies :
       handler[a] = 0 /\ pipe[a].sync = << >> /\ fpc[a] \notin {"raise", "assign"}

\* The pipe of an assembly that has something to read is set, and it is initialised
\* from initFilters to the end of the reading.
PipeReady(a) ==
  /\ \/ pipe[a].n # 0
     \/ fpc[a] = "pop" /\ \A j \in DOMAIN queue[a] : queue[a][j].cmd # "READ"
  /\ fpc[a] \in {"top", "wait", "pipe"} => pipe[a].initialized
  /\ pipe[a].initialized => pipe[a].n # 0

AsynchronousInv ==
  /\ ~used => Unused
  /\ ~used /\ ~misplaced => Defined /\ \A a \in Assemblies : PipeReady(a)
-----------------------------------------------------------------------------
(* Types. *)

\* What the actions compute with numbers.
LEMMA NumberTypes ==
  N \in Nat /\ 1 \in 1 .. N + 1 /\ \A a \in Assemblies : a \in 1 .. N + 1 /\ a + 1 \in 1 .. N + 1
BY SyncReadAssumption DEF Assemblies

\* A message in a queue, and a queue without its head or with another message.
LEMMA MessageTypes ==
  /\ STOP \in Messages /\ \A n, r \in Nat : READ(n, r) \in Messages
  /\ \A q \in Seq(Messages) :
       /\ q # << >> => Head(q) \in Messages /\ Tail(q) \in Seq(Messages)
       /\ \A m \in Messages : Append(q, m) \in Seq(Messages)
<1>1. \A q \in Seq(Messages) :
        /\ q # << >> => Head(q) \in Messages /\ Tail(q) \in Seq(Messages)
        /\ \A m \in Messages : Append(q, m) \in Seq(Messages)
  OBVIOUS
<1>2. STOP \in Messages /\ \A n, r \in Nat : READ(n, r) \in Messages
  BY DEF STOP, READ, Messages
<1> QED
  BY <1>1, <1>2

\* The fields of a pipe that a step changes.
LEMMA PipeTypes ==
  /\ NoPipe \in Pipes /\ NoSync \in Syncs
  /\ NoPipe.n = 0 /\ ~NoPipe.initialized /\ NoPipe.sync = << >>
  /\ \A n \in Nat : LET p == [NoPipe EXCEPT !.n = n]
                    IN  p.n = n /\ ~p.initialized /\ p.sync = << >>
  /\ \A n \in Nat : [NoPipe EXCEPT !.n = n] \in Pipes
  /\ \A p \in Pipes :
       /\ \A b \in BOOLEAN : [p EXCEPT !.initialized = b] \in Pipes
       /\ \A s \in Syncs : [p EXCEPT !.sync = Append(@, s)] \in Pipes
       /\ [p EXCEPT !.sync = Front(@)] \in Pipes
<1>1. \A s \in Seq(Syncs) : /\ Front(s) \in Seq(Syncs)
                             /\ \A t \in Syncs : Append(s, t) \in Seq(Syncs)
  BY DEF Front
<1>2. << >> \in Seq(Syncs)
  OBVIOUS
<1>3. NoPipe.n = 0 /\ ~NoPipe.initialized /\ NoPipe.sync = << >>
  BY DEF NoPipe
<1>4. NoPipe \in Pipes /\ NoSync \in Syncs
  BY <1>2 DEF NoPipe, NoSync, Pipes, Syncs
<1>5. \A n \in Nat : LET p == [NoPipe EXCEPT !.n = n]
                    IN  p.n = n /\ ~p.initialized /\ p.sync = << >>
  BY DEF NoPipe
<1>6. \A n \in Nat : [NoPipe EXCEPT !.n = n] \in Pipes
  BY <1>4 DEF Pipes
<1>7. ASSUME NEW p \in Pipes
      PROVE  /\ \A b \in BOOLEAN : [p EXCEPT !.initialized = b] \in Pipes
             /\ \A s \in Syncs : [p EXCEPT !.sync = Append(@, s)] \in Pipes
             /\ [p EXCEPT !.sync = Front(@)] \in Pipes
  <2>1. \A t \in Seq(Syncs) : [p EXCEPT !.sync = t] \in Pipes
    BY DEF Pipes
  <2>2. p.sync \in Seq(Syncs)
    BY DEF Pipes
  <2>3. \A b \in BOOLEAN : [p EXCEPT !.initialized = b] \in Pipes
    BY DEF Pipes
  <2> QED
    BY <1>1, <2>1, <2>2, <2>3
<1> QED
  BY <1>4, <1>5, <1>6, <1>7, <1>3

\* The frames that a filter adds to a list.
LEMMA FrameTypes ==
  ASSUME NEW s \in Seq(Nat \X Nat), NEW r \in Nat, NEW k \in Nat, NEW n
  PROVE  /\ Append(s, <<r, k>>) \in Seq(Nat \X Nat)
         /\ Integrate(n, k, <<r, k>>, s) \in Seq(Nat \X Nat)
<1>1. \A f \in Nat \X Nat : <<f>> \in Seq(Nat \X Nat) /\ Append(s, f) \in Seq(Nat \X Nat)
  OBVIOUS
<1>2. <<r, k>> \in Nat \X Nat
  OBVIOUS
<1> QED
  BY <1>1, <1>2 DEF Integrate

\* Every step keeps the types of what the filters and the application share.
LEMMA ContextTypesNext ==
  ASSUME TypeInv, [Next]_vars
  PROVE  ContextTypes'
<1> USE DEF TypeInv
<1>1. ASSUME UNCHANGED <<undefined, contextVars, handler>> PROVE ContextTypes'
  BY <1>1 DEF ContextTypes, contextVars
<1>2. ASSUME NEW a \in Assemblies, FilterThread(a) PROVE ContextTypes'
  <2>1. CASE FilterPop(a) \/ FilterEnd(a) \/ FilterSkip(a) \/ FilterFails(a) \/ FilterRaise(a)
             \/ FilterAssign(a)
    BY <1>1, <2>1 DEF FilterPop, FilterEnd, FilterSkip, FilterFails, FilterRaise, FilterAssign
  <2>2. CASE FilterNoPipe(a) \/ FilterEnterPipe(a) \/ FilterRaiseLate(a)
    BY <2>2 DEF FilterNoPipe, FilterEnterPipe, FilterRaiseLate, ContextTypes, contextVars, Causes
  <2>3. CASE FilterBegin(a)
    BY <2>3, PipeTypes DEF FilterBegin, ContextTypes
  <2>4. CASE FilterNumber(a)
    BY <2>4 DEF FilterNumber, ContextTypes, FilterTypes
  <2>5. CASE FilterProcess(a)
    <3>1. undefined' \in Causes /\ UNCHANGED <<measurement, pipe, frameNumber, handler>>
      BY <2>5 DEF FilterProcess, ContextTypes, Causes
    <3>2. Integrate(pipe[a].n, frameNumber[a], <<msg[a].reading, frameNumber[a]>>, result[a])
            \in Seq(Nat \X Nat)
      BY FrameTypes DEF ContextTypes, FilterTypes, Messages, Collections
    <3>3. result' \in Collections
      BY <2>5, <3>2 DEF FilterProcess, ContextTypes, Collections
    <3> QED
      BY <3>1, <3>3 DEF ContextTypes
  <2> QED
    BY <1>2, <2>1, <2>2, <2>3, <2>4, <2>5 DEF FilterThread
<1>3. CASE Call
  <2>1. ASSUME NEW m \in Measurements, SetMeasurement(m) PROVE ContextTypes'
    BY <2>1, SyncReadAssumption DEF SetMeasurement, ContextTypes
  <2>2. ASSUME NEW n \in Counts, SetPipeFilter(n) PROVE ContextTypes'
    <3>1. [a \in Assemblies |-> [NoPipe EXCEPT !.n = n]] \in [Assemblies -> Pipes]
      BY PipeTypes, SyncReadAssumption
    <3> QED
      BY <2>2, <3>1 DEF SetPipeFilter, ContextTypes, Causes
  <2>3. ASSUME NEW s \in Saves, SyncRead(s) PROVE ContextTypes'
    BY <2>3 DEF SyncRead, ContextTypes, CallTypes, contextVars
  <2>4. CASE Read \/ CancelReading
    BY <1>1, <2>4 DEF Read, CancelReading
  <2>5. CASE Disconnect
    <3>1. [a \in Assemblies |-> [pipe[a] EXCEPT !.initialized = FALSE]] \in [Assemblies -> Pipes]
      BY PipeTypes DEF ContextTypes
    <3> QED
      BY <2>5, <3>1 DEF Disconnect, ContextTypes, Causes
  <2> QED
    BY <1>3, <2>1, <2>2, <2>3, <2>4, <2>5 DEF Call
<1>4. CASE GoOn
  <2>1. CASE SyncAdd
    <3>1. pipe' \in [Assemblies -> Pipes]
      BY <2>1, PipeTypes DEF SyncAdd, ContextTypes, SyncTypes
    <3> QED
      BY <2>1, <3>1 DEF SyncAdd, ContextTypes, Causes
  <2>2. CASE SyncRemove
    <3>1. pipe' \in [Assemblies -> Pipes]
      BY <2>2, PipeTypes DEF SyncRemove, ContextTypes
    <3> QED
      BY <2>2, <3>1 DEF SyncRemove, ContextTypes, Causes
  <2>3. CASE SyncPush \/ SyncThrow \/ SyncPoll \/ SyncLook \/ SyncAgain \/ SyncReturn
    BY <1>1, <2>3 DEF SyncPush, SyncThrow, SyncPoll, SyncLook, SyncAgain, SyncReturn
  <2> QED
    BY <1>4, <2>1, <2>2, <2>3 DEF GoOn
<1>5. CASE UNCHANGED vars
  BY <1>1, <1>5 DEF vars
<1> QED
  BY <1>2, <1>3, <1>4, <1>5 DEF Next

\* Every step keeps the types of the filter threads.
LEMMA FilterTypesNext ==
  ASSUME TypeInv, [Next]_vars
  PROVE  FilterTypes'
<1> USE DEF TypeInv
<1>1. ASSUME UNCHANGED filterVars PROVE FilterTypes'
  BY <1>1 DEF FilterTypes, filterVars
<1>2. ASSUME NEW a \in Assemblies, Leave(a) PROVE UNCHANGED queue => FilterTypes'
  BY <1>2, MessageTypes DEF Leave, FilterTypes
<1>3. ASSUME NEW a \in Assemblies, FilterThread(a) PROVE FilterTypes'
  <2>1. CASE FilterPop(a)
    BY <2>1, MessageTypes DEF FilterPop, FilterTypes
  <2>2. CASE FilterBegin(a)
    BY <2>2 DEF FilterBegin, FilterTypes, ContextTypes
  <2>3. CASE FilterEnd(a)
    BY <2>3, MessageTypes DEF FilterEnd, Leave, FilterTypes, StopWaits
  <2>4. CASE FilterNumber(a) \/ FilterEnterPipe(a)
    BY <2>4 DEF FilterNumber, FilterEnterPipe, FilterTypes
  <2>5. CASE FilterSkip(a)
    BY <2>5 DEF FilterSkip, FilterTypes
  <2>6. CASE FilterProcess(a)
    BY <2>6 DEF FilterProcess, FilterTypes
  <2>7. CASE FilterFails(a)
    BY <1>2, <2>7 DEF FilterFails, FilterTypes
  <2>8. CASE FilterRaise(a) \/ FilterAssign(a)
    BY <1>2, <2>8 DEF FilterRaise, FilterAssign, FilterTypes
  <2>9. CASE FilterNoPipe(a) \/ FilterRaiseLate(a)
    BY <1>1, <2>9 DEF FilterNoPipe, FilterRaiseLate
  <2> QED
    BY <1>3, <2>1, <2>2, <2>3, <2>4, <2>6, <2>7, <2>8, <2>9, <2>5 DEF FilterThread
<1>4. ASSUME Push, UNCHANGED <<fpc, msg, i, skip>> PROVE FilterTypes'
  <2>1. READ(Frames, reads + 1) \in Messages
    BY MessageTypes DEF Frames, ContextTypes, CallTypes
  <2> QED
    BY <1>4, <2>1, MessageTypes DEF Push, FilterTypes
<1>5. CASE CancelReading
  BY <1>5, MessageTypes DEF CancelReading, FilterTypes
<1>6. CASE Read \/ SyncPush
  BY <1>4, <1>6 DEF Read, SyncPush
<1>7. CASE Call /\ ~Read /\ ~CancelReading
  BY <1>1, <1>7 DEF Call, SetMeasurement, SetPipeFilter, SyncRead, Disconnect
<1>8. CASE GoOn /\ ~SyncPush
  BY <1>1, <1>8 DEF GoOn, SyncAdd, SyncThrow, SyncPoll, SyncLook, SyncAgain, SyncRemove,
                    SyncReturn
<1>9. CASE UNCHANGED vars
  BY <1>1, <1>9 DEF vars
<1> QED
  BY <1>3, <1>5, <1>6, <1>7, <1>8, <1>9 DEF Next

\* Every step keeps the types of syncRead's locals.
LEMMA SyncTypesNext ==
  ASSUME TypeInv, [Next]_vars
  PROVE  SyncTypes'
<1> USE DEF TypeInv
<1>1. ASSUME UNCHANGED syncVars PROVE SyncTypes'
  BY <1>1 DEF SyncTypes, syncVars
<1>2. ASSUME NEW sync \in Syncs, NEW isAlone \in BOOLEAN, Locals(sync, isAlone) PROVE SyncTypes'
  <2>1. buffers' \in Collections
    BY <1>2 DEF Locals, Collections
  <2> QED
    BY <1>2, <2>1, NumberTypes DEF Locals, SyncTypes
<1>3. ASSUME NEW a \in Assemblies, FilterThread(a) PROVE SyncTypes'
  <2>1. CASE FilterProcess(a)
    <3>1. Append(buffers[a], <<msg[a].reading, frameNumber[a]>>) \in Seq(Nat \X Nat)
      BY FrameTypes DEF SyncTypes, ContextTypes, FilterTypes, Messages, Collections
    <3>2. buffers' \in Collections
      BY <2>1, <3>1 DEF FilterProcess, SyncTypes, Collections
    <3> QED
      BY <2>1, <3>2 DEF FilterProcess, SyncTypes
  <2>2. CASE FilterRaise(a)
    BY <2>2 DEF FilterRaise, SyncTypes
  <2>3. CASE FilterAssign(a)
    BY <2>3 DEF FilterAssign, SyncTypes, FilterTypes, Messages
  <2>4. CASE FilterPop(a) \/ FilterBegin(a) \/ FilterNoPipe(a) \/ FilterEnd(a) \/ FilterNumber(a)
             \/ FilterSkip(a) \/ FilterEnterPipe(a) \/ FilterFails(a) \/ FilterRaiseLate(a)
    BY <1>1, <2>4 DEF FilterPop, FilterBegin, FilterNoPipe, FilterEnd, FilterNumber, FilterSkip,
       FilterEnterPipe, FilterFails, FilterRaiseLate
  <2> QED
    BY <1>3, <2>1, <2>2, <2>3, <2>4 DEF FilterThread
<1>4. ASSUME NEW s \in Saves, SyncRead(s) PROVE SyncTypes'
  <2>1. [id |-> reads + 1, save |-> s] \in Syncs
    BY SyncReadAssumption DEF Syncs, CallTypes
  <2> QED
    BY <1>2, <1>4, <2>1 DEF SyncRead
<1>5. CASE SyncThrow \/ SyncReturn
  BY <1>2, <1>5, PipeTypes DEF SyncThrow, SyncReturn, SyncLeave
<1>6. CASE SyncAdd
  BY <1>6, NumberTypes DEF SyncAdd, SyncTypes
<1>7. CASE SyncPoll \/ SyncLook \/ SyncAgain \/ SyncRemove
  BY <1>7, NumberTypes DEF SyncPoll, SyncLook, SyncAgain, SyncRemove, SyncTypes
<1>8. CASE Read \/ CancelReading \/ Disconnect \/ SyncPush \/ UNCHANGED vars
  BY <1>1, <1>8 DEF Read, CancelReading, Disconnect, SyncPush, vars
<1>9. CASE (\E m \in Measurements : SetMeasurement(m)) \/ (\E n \in Counts : SetPipeFilter(n))
  BY <1>1, <1>9 DEF SetMeasurement, SetPipeFilter
<1> QED
  BY <1>3, <1>4, <1>5, <1>6, <1>7, <1>8, <1>9 DEF Next, Call, GoOn

\* Every step keeps the types of the application's calls.
LEMMA CallTypesNext ==
  ASSUME TypeInv, [Next]_vars
  PROVE  CallTypes'
<1> USE DEF TypeInv
<1>1. ASSUME UNCHANGED callVars PROVE CallTypes'
  BY <1>1 DEF CallTypes, callVars
<1>2. ASSUME NEW a \in Assemblies, FilterThread(a) PROVE CallTypes'
  <2>1. CASE FilterFails(a)
    BY <2>1 DEF FilterFails, CallTypes
  <2>2. CASE ~FilterFails(a)
    BY <1>1, <1>2, <2>2 DEF FilterThread, FilterPop, FilterBegin, FilterNoPipe, FilterEnd,
       FilterNumber, FilterSkip, FilterEnterPipe, FilterProcess, FilterRaise, FilterAssign,
       FilterRaiseLate
  <2> QED
    BY <2>1, <2>2
<1>3. CASE Call
  <2>1. ASSUME NEW m \in Measurements, SetMeasurement(m) PROVE CallTypes'
    BY <1>1, <2>1 DEF SetMeasurement
  <2>2. ASSUME NEW n \in Counts, SetPipeFilter(n) PROVE CallTypes'
    <3>1. misplaced' \in BOOLEAN
      BY <2>2, Zenon DEF SetPipeFilter
    <3>2. calls' \in [pipe : Nat, cancel : Nat, fail : Nat]
      <4>1. calls' = [calls EXCEPT !.pipe = @ + 1]
        BY <2>2 DEF SetPipeFilter
      <4> QED
        BY <4>1 DEF CallTypes
    <3> QED
      BY <2>2, <3>1, <3>2 DEF SetPipeFilter, CallTypes
  <2>3. ASSUME NEW s \in Saves, SyncRead(s) PROVE CallTypes'
    BY <2>3 DEF SyncRead, CallTypes
  <2>4. CASE Read \/ CancelReading \/ Disconnect
    <3>1. misplaced' = misplaced \/ misplaced' \in BOOLEAN
      BY <2>4, Zenon DEF Read, CancelReading, Disconnect, Push
    <3>2. calls' = calls \/ calls' = [calls EXCEPT !.cancel = @ + 1]
      BY <2>4 DEF Read, CancelReading, Disconnect
    <3>3. /\ reads' = reads \/ reads' = reads + 1
          /\ used' = used /\ (apc' = apc \/ apc' = "disconnected")
      BY <2>4 DEF Read, CancelReading, Disconnect, Push
    <3> QED
      BY <3>1, <3>2, <3>3 DEF CallTypes
  <2> QED
    BY <1>3, <2>1, <2>2, <2>3, <2>4 DEF Call
<1>4. CASE GoOn
  <2>1. CASE SyncPush
    <3>1. misplaced' \in BOOLEAN
      BY <2>1, Zenon DEF SyncPush, Push
    <3> QED
      BY <2>1, <3>1 DEF SyncPush, Push, CallTypes
  <2>2. CASE ~SyncPush
    BY <1>4, <2>2 DEF GoOn, SyncAdd, SyncThrow, SyncPoll, SyncLook, SyncAgain, SyncRemove,
       SyncReturn, SyncLeave, CallTypes, callVars
  <2> QED
    BY <2>1, <2>2
<1>5. CASE UNCHANGED vars
  BY <1>1, <1>5 DEF vars
<1> QED
  BY <1>2, <1>3, <1>4, <1>5 DEF Next

\* The types of the variables hold in every behaviour of Spec, undefined ones included
\* (TypeOK).
THEOREM SyncReadTypeCorrect == Spec => [](TypeOK /\ TypeInv)
<1>1. Init => TypeInv
  <2> SUFFICES ASSUME Init PROVE TypeInv
    OBVIOUS
  <2>1. << >> \in Seq(Nat \X Nat) /\ << >> \in Seq(Messages)
    OBVIOUS
  <2>2. ContextTypes
    BY <2>1, PipeTypes DEF Init, ContextTypes, Causes, Collections
  <2>3. FilterTypes
    BY <2>1, MessageTypes DEF Init, FilterTypes
  <2>4. SyncTypes
    BY <2>1, PipeTypes, NumberTypes DEF Init, SyncTypes, Collections
  <2>5. CallTypes
    BY DEF Init, CallTypes
  <2> QED
    BY <2>2, <2>3, <2>4, <2>5 DEF TypeInv
<1>2. TypeInv /\ [Next]_vars => TypeInv'
  BY ContextTypesNext, FilterTypesNext, SyncTypesNext, CallTypesNext DEF TypeInv
<1>3. TypeInv => TypeOK
  BY DEF TypeInv, ContextTypes, FilterTypes, SyncTypes, CallTypes, TypeOK, Messages, Pipes,
     Collections
<1>4. QED
  BY <1>1, <1>2, <1>3, PTL DEF Spec
-----------------------------------------------------------------------------
(* Readings without syncRead. *)

\* Before the first syncRead no step leaves the part of the application that knows of none.
LEMMA UnusedStep ==
  ASSUME TypeInv, ~used => Unused, [Next]_vars
  PROVE  ~used' => Unused'
<1> SUFFICES ASSUME ~used' PROVE Unused'
  OBVIOUS
<1> USE DEF TypeInv
<1>1. ~used
  BY DEF Next, Call, GoOn, FilterThread, SetMeasurement, SetPipeFilter, SyncRead, Read,
     CancelReading, Disconnect, SyncAdd, SyncPush, SyncThrow, SyncPoll, SyncLook, SyncAgain,
     SyncRemove, SyncReturn, FilterPop, FilterBegin, FilterNoPipe, FilterEnd, FilterNumber,
     FilterSkip, FilterEnterPipe, FilterProcess, FilterFails, FilterRaise, FilterAssign,
     FilterRaiseLate, vars, callVars
<1>2. Unused
  BY <1>1
<1>3. ASSUME UNCHANGED <<apc, handler, pipe, fpc>> PROVE Unused'
  BY <1>2, <1>3 DEF Unused
<1>4. ~GoOn
  BY <1>2 DEF Unused, GoOn, SyncAdd, SyncPush, SyncThrow, SyncPoll, SyncLook, SyncAgain,
     SyncRemove, SyncReturn
<1>5. CASE Call
  <2>1. ASSUME NEW n \in Counts, SetPipeFilter(n) PROVE Unused'
    <3>1. \A a \in Assemblies : pipe'[a].sync = << >>
      BY <2>1, PipeTypes, SyncReadAssumption DEF SetPipeFilter
    <3> QED
      BY <1>2, <2>1, <3>1 DEF SetPipeFilter, Unused, filterVars
  <2>2. CASE Disconnect
    <3>1. \A a \in Assemblies : pipe'[a].sync = pipe[a].sync
      BY <2>2 DEF Disconnect, ContextTypes, Pipes
    <3> QED
      BY <1>2, <2>2, <3>1 DEF Disconnect, Unused, filterVars
  <2>3. ASSUME NEW s \in Saves, SyncRead(s) PROVE FALSE
    BY <2>3 DEF SyncRead
  <2>4. CASE (\E m \in Measurements : SetMeasurement(m)) \/ Read \/ CancelReading
    BY <1>3, <2>4 DEF SetMeasurement, Read, CancelReading, contextVars, filterVars, callVars
  <2> QED
    BY <1>5, <2>1, <2>2, <2>3, <2>4 DEF Call
<1>6. ASSUME NEW a \in Assemblies, FilterThread(a) PROVE Unused'
  <2>1. handler' = handler /\ apc' = apc
    BY <1>6 DEF FilterThread, FilterPop, FilterBegin, FilterNoPipe, FilterEnd, FilterNumber,
       FilterSkip, FilterEnterPipe, FilterProcess, FilterFails, FilterRaise, FilterAssign,
       FilterRaiseLate, callVars
  <2>2. \A b \in Assemblies : pipe'[b].sync = pipe[b].sync
    <3>1. pipe' = pipe \/ pipe' = [pipe EXCEPT ![a].initialized = TRUE]
      BY <1>6 DEF FilterThread, FilterPop, FilterBegin, FilterNoPipe, FilterEnd, FilterNumber,
         FilterSkip, FilterEnterPipe, FilterProcess, FilterFails, FilterRaise, FilterAssign,
         FilterRaiseLate, contextVars
    <3>2. ASSUME pipe' = [pipe EXCEPT ![a].initialized = TRUE], NEW b \in Assemblies
          PROVE  pipe'[b].sync = pipe[b].sync
      BY <3>2 DEF ContextTypes, Pipes
    <3> QED
      BY <3>1, <3>2
  <2>3. \A b \in Assemblies : fpc'[b] \notin {"raise", "assign"}
    <3>1. handler[a] = 0 /\ fpc[a] \notin {"raise", "assign"}
      BY <1>2 DEF Unused
    <3>2. \/ fpc' = fpc
          \/ \E s \in {"pop", "start", "top", "wait", "pipe"} : fpc' = [fpc EXCEPT ![a] = s]
      BY <1>6, <3>1 DEF FilterThread, FilterPop, FilterBegin, FilterNoPipe, FilterEnd,
         FilterNumber, FilterSkip, FilterEnterPipe, FilterProcess, FilterFails, FilterRaise,
         FilterAssign, FilterRaiseLate, Leave, filterVars
    <3> QED
      BY <1>2, <3>2 DEF Unused, FilterTypes
  <2> QED
    BY <1>2, <2>1, <2>2, <2>3 DEF Unused
<1>7. CASE UNCHANGED vars
  BY <1>3, <1>7 DEF vars, contextVars, filterVars, callVars
<1> QED
  BY <1>4, <1>5, <1>6, <1>7 DEF Next

\* A filter thread's step on a pipe that is set, or on a queue without a reading.
LEMMA PipeReadyStep ==
  ASSUME TypeInv, Unused, Defined, \A b \in Assemblies : PipeReady(b),
         NEW a \in Assemblies, FilterThread(a)
  PROVE  Defined' /\ \A b \in Assemblies : PipeReady(b)'
<1> USE DEF TypeInv
<1>1. ASSUME fpc' = fpc \/ \E s : fpc' = [fpc EXCEPT ![a] = s],
             queue' = queue \/ \E q : queue' = [queue EXCEPT ![a] = q],
             pipe' = pipe \/ \E p : pipe' = [pipe EXCEPT ![a] = p],
             undefined' = undefined, PipeReady(a)'
      PROVE  Defined' /\ \A b \in Assemblies : PipeReady(b)'
  <2>1. \A b \in Assemblies :
          b # a => fpc'[b] = fpc[b] /\ queue'[b] = queue[b] /\ pipe'[b] = pipe[b]
    BY <1>1 DEF ContextTypes, FilterTypes
  <2>2. \A b \in Assemblies : b # a => PipeReady(b)'
    BY <2>1 DEF PipeReady
  <2> QED
    BY <1>1, <2>2 DEF Defined
<1>2. PipeReady(a) /\ fpc[a] \notin {"raise", "assign"} /\ pipe[a].sync = << >>
  BY DEF Unused
<1>3. CASE FilterPop(a)
  <2>1. queue[a] \in Seq(Messages) /\ queue[a] # << >> /\ fpc[a] = "pop"
    BY <1>3 DEF FilterPop, FilterTypes
  <2>2. /\ \A q \in Seq(Messages) : q # << >> =>
             /\ 1 \in DOMAIN q /\ Head(q) = q[1]
             /\ \A j \in DOMAIN Tail(q) : j + 1 \in DOMAIN q /\ Tail(q)[j] = q[j + 1]
    OBVIOUS
  <2>3. /\ queue'[a] = Tail(queue[a]) /\ pipe' = pipe
        /\ fpc'[a] = IF Head(queue[a]).cmd = "READ" THEN "start" ELSE "pop"
    BY <1>3 DEF FilterPop, FilterTypes, contextVars
  <2>4. PipeReady(a)'
    BY <1>2, <2>1, <2>2, <2>3 DEF PipeReady
  <2> QED
    BY <1>1, <1>3, <2>4 DEF FilterPop, contextVars
<1>4. CASE FilterBegin(a)
  <2>1. pipe' = [pipe EXCEPT ![a] = [pipe[a] EXCEPT !.initialized = TRUE]]
    BY <1>4 DEF FilterBegin
  <2>2. pipe'[a].n = pipe[a].n /\ pipe'[a].initialized
    BY <2>1 DEF ContextTypes, Pipes
  <2>3. PipeReady(a)'
    BY <1>2, <1>4, <2>2 DEF FilterBegin, PipeReady, FilterTypes
  <2> QED
    BY <1>1, <1>4, <2>1, <2>3 DEF FilterBegin
<1>5. CASE FilterNoPipe(a)
  BY <1>2, <1>5, PipeTypes DEF FilterNoPipe, PipeReady
<1>6. CASE FilterEnd(a)
  BY <1>1, <1>2, <1>6 DEF FilterEnd, Leave, PipeReady, FilterTypes, contextVars
<1>7. CASE FilterNumber(a) \/ FilterSkip(a)
  BY <1>1, <1>2, <1>7 DEF FilterNumber, FilterSkip, PipeReady, FilterTypes, contextVars
<1>8. CASE FilterEnterPipe(a)
  BY <1>1, <1>2, <1>8 DEF FilterEnterPipe, PipeReady, FilterTypes, contextVars
<1>9. CASE FilterProcess(a)
  <2>1. ToSet(pipe[a].sync) = {}
    BY <1>2 DEF ToSet
  <2>2. undefined' = undefined
    BY <1>9, <2>1 DEF FilterProcess
  <2> QED
    BY <1>1, <1>2, <1>9, <2>2 DEF FilterProcess, PipeReady, FilterTypes
<1>10. CASE FilterFails(a)
  BY <1>1, <1>2, <1>10 DEF FilterFails, Leave, Unused, PipeReady, FilterTypes, contextVars
<1>11. CASE FilterRaise(a) \/ FilterAssign(a) \/ FilterRaiseLate(a)
  BY <1>2, <1>11 DEF FilterRaise, FilterAssign, FilterRaiseLate
<1> QED
  BY <1>3, <1>4, <1>5, <1>6, <1>7, <1>8, <1>9, <1>10, <1>11 DEF FilterThread

\* No step is undefined when no syncRead was called and every pipe was set in time.
LEMMA AsynchronousStep ==
  ASSUME TypeInv, AsynchronousInv, [Next]_vars
  PROVE  AsynchronousInv'
<1> USE DEF TypeInv
<1>1. ~used' => Unused'
  BY UnusedStep DEF AsynchronousInv
<1> SUFFICES ASSUME ~used', ~misplaced' PROVE Defined' /\ \A a \in Assemblies : PipeReady(a)'
  BY <1>1 DEF AsynchronousInv
<1>2. ~used /\ ~misplaced
  <2>1. ~used
    BY DEF Next, Call, GoOn, FilterThread, SetMeasurement, SetPipeFilter, SyncRead, Read,
       CancelReading, Disconnect, SyncAdd, SyncPush, SyncThrow, SyncPoll, SyncLook, SyncAgain,
       SyncRemove, SyncReturn, FilterPop, FilterBegin, FilterNoPipe, FilterEnd, FilterNumber,
       FilterSkip, FilterEnterPipe, FilterProcess, FilterFails, FilterRaise, FilterAssign,
       FilterRaiseLate, vars, callVars
  <2>2. ASSUME NEW n \in Counts, SetPipeFilter(n) PROVE ~misplaced
    BY <2>2, Zenon DEF SetPipeFilter
  <2>3. CASE Read
    BY <2>3, Zenon DEF Read, Push
  <2>4. CASE SyncPush
    BY <2>4, Zenon DEF SyncPush, Push
  <2>5. CASE Disconnect
    BY <2>5, Zenon DEF Disconnect
  <2>6. ASSUME misplaced' = misplaced PROVE ~misplaced
    BY <2>6
  <2>7. ASSUME NEW a \in Assemblies, FilterThread(a) PROVE ~misplaced
    BY <2>6, <2>7 DEF FilterThread, FilterPop, FilterBegin, FilterNoPipe, FilterEnd,
       FilterNumber, FilterSkip, FilterEnterPipe, FilterProcess, FilterFails, FilterRaise,
       FilterAssign, FilterRaiseLate, callVars
  <2>8. ASSUME NEW m \in Measurements, SetMeasurement(m) PROVE misplaced' = misplaced
    BY <2>8 DEF SetMeasurement, callVars
  <2>9. ASSUME NEW r \in Saves, SyncRead(r) PROVE misplaced' = misplaced
    BY <2>9 DEF SyncRead
  <2>10. CASE CancelReading
    BY <2>6, <2>10 DEF CancelReading
  <2>11. ASSUME GoOn, ~SyncPush PROVE misplaced' = misplaced
    BY <2>11 DEF GoOn, SyncAdd, SyncThrow, SyncPoll, SyncLook, SyncAgain, SyncRemove,
       SyncReturn, callVars
  <2>12. CASE UNCHANGED vars
    BY <2>6, <2>12 DEF vars, callVars
  <2> QED
    BY <2>1, <2>2, <2>3, <2>6, <2>7, <2>8, <2>9, <2>4, <2>5, <2>10, <2>11, <2>12 DEF Next, Call
<1>3. Unused /\ Defined /\ \A a \in Assemblies : PipeReady(a)
  BY <1>2 DEF AsynchronousInv
<1>4. ASSUME UNCHANGED <<undefined, pipe, queue, fpc>>
      PROVE  Defined' /\ \A a \in Assemblies : PipeReady(a)'
  BY <1>3, <1>4 DEF Defined, PipeReady
<1>5. ASSUME NEW m \in Messages, queue' = [a \in Assemblies |-> Append(queue[a], m)],
             m.cmd # "READ" \/ \A a \in Assemblies : pipe[a].n # 0,
             UNCHANGED <<undefined, pipe, fpc>>
      PROVE  Defined' /\ \A a \in Assemblies : PipeReady(a)'
  <2>1. \A q \in Seq(Messages) : \A j \in DOMAIN Append(q, m) :
          Append(q, m)[j] = m \/ (j \in DOMAIN q /\ Append(q, m)[j] = q[j])
    OBVIOUS
  <2>2. \A a \in Assemblies : queue[a] \in Seq(Messages) /\ queue'[a] = Append(queue[a], m)
    BY <1>5 DEF FilterTypes
  <2>3. ASSUME NEW a \in Assemblies PROVE PipeReady(a)'
    BY <1>3, <1>5, <2>1, <2>2 DEF PipeReady
  <2> QED
    BY <1>3, <1>5, <2>3 DEF Defined
<1>6. ASSUME NEW n \in Counts, SetPipeFilter(n)
      PROVE  Defined' /\ \A a \in Assemblies : PipeReady(a)'
  <2>1. \A a \in Assemblies : Quiet(a)
    BY <1>6 DEF SetPipeFilter
  <2>2. Defined'
    BY <1>6, <2>1 DEF SetPipeFilter, Quiet, Defined
  <2>3. \A a \in Assemblies : fpc'[a] = "pop" /\ queue'[a] = << >>
    BY <1>6, <2>1 DEF SetPipeFilter, Quiet, filterVars
  <2>4. \A a \in Assemblies : ~pipe'[a].initialized
    BY <1>6, PipeTypes, SyncReadAssumption DEF SetPipeFilter
  <2> QED
    BY <2>2, <2>3, <2>4 DEF PipeReady
<1>7. CASE Read
  <2>1. \A a \in Assemblies : pipe[a] # NoPipe
    BY <1>7 DEF Read, Push
  <2>2. READ(Frames, reads + 1) \in Messages
    BY MessageTypes DEF Frames, ContextTypes, CallTypes
  <2>3. \A p \in Pipes : p.n = 0 /\ ~p.initialized /\ p.sync = << >> => p = NoPipe
    BY DEF Pipes, NoPipe
  <2>4. \A a \in Assemblies : pipe[a].n # 0
    BY <1>3, <2>1, <2>3 DEF Unused, PipeReady, ContextTypes
  <2> QED
    BY <1>5, <1>7, <2>2, <2>4 DEF Read, Push, READ, contextVars
<1>8. CASE CancelReading
  BY <1>5, <1>8, MessageTypes DEF CancelReading, STOP, contextVars
<1>9. CASE Disconnect
  <2>1. \A a \in Assemblies : Quiet(a)
    BY <1>9 DEF Disconnect
  <2>2. Defined'
    BY <1>9 DEF Disconnect, Defined
  <2>3. \A a \in Assemblies : fpc'[a] = "pop" /\ queue'[a] = << >>
    BY <1>9, <2>1 DEF Disconnect, Quiet, filterVars
  <2>4. \A a \in Assemblies : ~pipe'[a].initialized
    BY <1>9 DEF Disconnect, ContextTypes, Pipes
  <2> QED
    BY <2>2, <2>3, <2>4 DEF PipeReady
<1>10. ASSUME NEW m \in Measurements, SetMeasurement(m)
       PROVE  Defined' /\ \A a \in Assemblies : PipeReady(a)'
  BY <1>4, <1>10 DEF SetMeasurement, filterVars
<1>11. ASSUME NEW s \in Saves, SyncRead(s) PROVE FALSE
  BY <1>11 DEF SyncRead
<1>12. ~GoOn
  BY <1>3 DEF Unused, GoOn, SyncAdd, SyncPush, SyncThrow, SyncPoll, SyncLook, SyncAgain,
     SyncRemove, SyncReturn
<1>13. CASE UNCHANGED vars
  BY <1>4, <1>13 DEF vars, contextVars, filterVars
<1> QED
  BY <1>3, <1>6, <1>7, <1>8, <1>9, <1>10, <1>11, <1>12, <1>13, PipeReadyStep DEF Next, Call

\* Readings by read() alone never do what C++ leaves undefined - ask a pipe that was not set,
\* run a filter that was not initialised or is gone, call a handler that is gone - if a pipe
\* is set before the first of them and never while one is queued or under way.
THEOREM AsynchronousDefined == Spec => []AsynchronousIsDefined
<1>1. Init => AsynchronousInv
  <2> SUFFICES ASSUME Init PROVE AsynchronousInv
    OBVIOUS
  <2>1. Unused
    BY DEF Init, Unused, NoPipe
  <2>2. Defined
    BY DEF Init, Defined
  <2>3. \A a \in Assemblies : PipeReady(a)
    BY PipeTypes DEF Init, PipeReady
  <2> QED
    BY <2>1, <2>2, <2>3 DEF AsynchronousInv
<1>2. AsynchronousInv => AsynchronousIsDefined
  BY DEF AsynchronousInv, AsynchronousIsDefined
<1>3. QED
  BY <1>1, <1>2, AsynchronousStep, SyncReadTypeCorrect, PTL DEF Spec

-----------------------------------------------------------------------------
(* Averages.                                                               *)

\* What the integrator has added up after frame k of reading r: the frames since
\* the last whole group of n.
Group(r, k, n) ==
  LET length == ((k - 1) % n) + 1 IN [j \in 1 .. length |-> <<r, k - length + j>>]

Whole(s, n) == s % n = 0

\* A pipe that was set has a count.
Counted(a) == pipe[a].n = 0 => ~pipe[a].initialized /\ pipe[a].sync = << >>

\* Only an initialised pipe processes frames, and only those that are kept.
Entered(a) == fpc[a] = "pipe" => pipe[a].initialized /\ i[a] >= skip[a]

\* The number in the context is that of the frame under way, from before it is received
\* to the end of its processing (readFrames).
Numbered(a) == pipe[a].initialized /\ fpc[a] \in {"wait", "pipe"} => frameNumber[a] = i[a] + 1

\* The result is the group to which the next frame will be added (IntegratorFilter).
Summed(a) ==
  pipe[a].initialized /\ fpc[a] \in {"top", "wait", "pipe"} /\ Whole(skip[a], pipe[a].n)
    /\ i[a] > skip[a] => result[a] = Group(msg[a].reading, i[a], pipe[a].n)

Grouped(a) == Counted(a) /\ Entered(a) /\ Numbered(a) /\ Summed(a)

AverageInv == Defined => \A a \in Assemblies : Grouped(a)

\* A remainder is below the divisor, and determined by that.
LEMMA Remainder ==
  ASSUME NEW x \in Int, NEW n \in Nat \ {0}
  PROVE  /\ x % n \in 0 .. n - 1 /\ x \div n \in Int /\ x = n * (x \div n) + (x % n)
OBVIOUS

LEMMA RemainderUnique ==
  ASSUME NEW n \in Nat \ {0}, NEW p \in Int, NEW q \in Int,
         NEW r \in 0 .. n - 1, NEW s \in 0 .. n - 1, n * p + r = n * q + s
  PROVE  r = s
<1>1. \A d \in Int : d >= 1 => n * d >= n
  OBVIOUS
<1>2. p - q \in Int /\ q - p \in Int
  OBVIOUS
<1>3. n * (p - q) = s - r /\ n * (q - p) = r - s
  OBVIOUS
<1>4. ~(p - q >= 1)
  BY <1>1, <1>2, <1>3
<1>5. ~(q - p >= 1)
  BY <1>1, <1>2, <1>3
<1>6. p = q
  BY <1>4, <1>5
<1> QED
  BY <1>3, <1>6

\* The next number's remainder.
LEMMA NextRemainder ==
  ASSUME NEW x \in Nat, NEW n \in Nat \ {0}
  PROVE  (x + 1) % n = IF x % n = n - 1 THEN 0 ELSE (x % n) + 1
<1> DEFINE p == x \div n
           r == x % n
           q == (x + 1) \div n
           s == (x + 1) % n
<1>1. r \in 0 .. n - 1 /\ p \in Int /\ x = n * p + r
  BY Remainder
<1>2. s \in 0 .. n - 1 /\ q \in Int /\ x + 1 = n * q + s
  BY Remainder
<1> HIDE DEF p, q, r, s
<1>3. CASE r = n - 1
  <2>1. x + 1 = n * p + n /\ n * p + n = n * (p + 1) + 0
    BY <1>1, <1>3
  <2>2. n * q + s = n * (p + 1) + 0
    BY <1>2, <2>1
  <2>3. 0 \in 0 .. n - 1 /\ p + 1 \in Int
    BY <1>1
  <2>4. s = 0
    BY <1>2, <2>2, <2>3, RemainderUnique
  <2> QED
    BY <1>3, <2>4 DEF r, s
<1>4. CASE r # n - 1
  <2>1. n * q + s = n * p + (r + 1)
    BY <1>1, <1>2
  <2>2. r + 1 \in 0 .. n - 1
    BY <1>1, <1>4
  <2>3. s = r + 1
    BY <1>1, <1>2, <2>1, <2>2, RemainderUnique
  <2> QED
    BY <1>4, <2>3 DEF r, s
<1> QED
  BY <1>3, <1>4

\* The integrator's sum after frame k, if before it the sum was its group; the first
\* frame of a group needs nothing before it (IntegratorFilter::process).
LEMMA IntegrateGroup ==
  ASSUME NEW n \in Nat \ {0}, NEW k \in Nat, k >= 1, NEW r \in Nat, NEW sum,
         (k - 1) % n # 0 => sum = Group(r, k - 1, n)
  PROVE  Integrate(n, k, <<r, k>>, sum) = Group(r, k, n)
<1> DEFINE c == (k - 1) % n
<1>1. c \in 0 .. n - 1 /\ k - 1 \in Nat
  BY Remainder
<1>2. k % n = IF c = n - 1 THEN 0 ELSE c + 1
  <2>1. (k - 1) + 1 = k
    OBVIOUS
  <2> QED
    BY <1>1, <2>1, NextRemainder
<1>3. Group(r, k, n) = [j \in 1 .. c + 1 |-> <<r, k - (c + 1) + j>>]
  BY DEF Group
<1>4. CASE c = 0
  <2>1. n = 1 \/ k % n = 1
    BY <1>1, <1>2, <1>4
  <2>2. \A j \in 1 .. 1 : <<r, k - (0 + 1) + j>> = <<r, k>>
    OBVIOUS
  <2>3. [j \in 1 .. 1 |-> <<r, k - (0 + 1) + j>>] = [j \in 1 .. 1 |-> <<r, k>>]
    BY <2>2
  <2>4. [j \in 1 .. 1 |-> <<r, k>>] = << <<r, k>> >>
    OBVIOUS
  <2> QED
    BY <1>3, <1>4, <2>1, <2>3, <2>4 DEF Integrate
<1>5. CASE c # 0
  <2>1. n # 1 /\ k % n # 1
    BY <1>1, <1>2, <1>5
  <2>2. k - 2 \in Nat
    <3>1. k # 1
      <4>1. ASSUME k = 1 PROVE FALSE
        <5>1. c = 0 % n
          BY <4>1
        <5>2. 0 % n = 0
          OBVIOUS
        <5> QED
          BY <1>5, <5>1, <5>2
      <4> QED
        BY <4>1
    <3> QED
      BY <3>1
  <2>3. (k - 2) % n = c - 1
    <3> DEFINE d == (k - 2) % n
    <3>1. d \in 0 .. n - 1
      BY <2>2, Remainder
    <3>2. (k - 2) + 1 = k - 1
      OBVIOUS
    <3>3. c = IF d = n - 1 THEN 0 ELSE d + 1
      BY <2>2, <3>2, NextRemainder
    <3> HIDE DEF c, d
    <3>4. d = c - 1
      BY <1>5, <3>1, <3>3
    <3> QED
      BY <3>4 DEF d
  <2>4. (k - 1) - 1 = k - 2
    OBVIOUS
  <2>5. sum = [j \in 1 .. c |-> <<r, (k - 1) - c + j>>]
    <3>1. sum = Group(r, k - 1, n)
      BY <1>5
    <3>2. (((k - 1) - 1) % n) + 1 = c
      <4> HIDE DEF c
      <4> QED
        BY <1>1, <2>3, <2>4
    <3> QED
      BY <3>1, <3>2 DEF Group
  <2> HIDE DEF c
  <2>6. \A j \in 1 .. c : <<r, (k - 1) - c + j>> = <<r, k - (c + 1) + j>>
    BY <1>1
  <2>7. \A j \in 1 .. c : <<r, k - (c + 1) + j>> \in Nat \X Int
    BY <1>1
  <2>8. sum = [j \in 1 .. c |-> <<r, k - (c + 1) + j>>]
    BY <2>5, <2>6
  <2>9. sum \in Seq(Nat \X Int) /\ Len(sum) = c
    BY <1>1, <2>7, <2>8
  <2>10. <<r, k>> = <<r, k - (c + 1) + (c + 1)>>
    BY <1>1
  <2>11. Append(sum, <<r, k>>) = [j \in 1 .. c + 1 |-> <<r, k - (c + 1) + j>>]
    BY <1>1, <2>8, <2>9, <2>10
  <2> QED
    BY <1>3, <2>1, <2>11 DEF Integrate
<1> QED
  BY <1>4, <1>5

\* A pipe that was never set is NoPipe and nothing else.
LEMMA NoPipeUnique ==
  \A p \in Pipes : p.n = 0 /\ ~p.initialized /\ p.sync = << >> => p = NoPipe
BY DEF Pipes, NoPipe

\* A filter thread's step, on its own assembly and on the others.
LEMMA GroupedThread ==
  ASSUME TypeInv, Defined, AverageInv, NEW a \in Assemblies, FilterThread(a), Defined'
  PROVE  \A b \in Assemblies : Grouped(b)'
<1> USE DEF TypeInv
<1>1. Grouped(a) /\ pipe[a] \in Pipes /\ i[a] \in Nat /\ skip[a] \in Nat
      /\ frameNumber[a] \in Nat
  BY DEF AverageInv, ContextTypes, FilterTypes
<1>2. ASSUME NEW b \in Assemblies, b # a PROVE Grouped(b)'
  <2> Grouped(b)
    BY DEF AverageInv
  <2>1. /\ pipe'[b] = pipe[b] /\ fpc'[b] = fpc[b] /\ frameNumber'[b] = frameNumber[b]
        /\ result'[b] = result[b] /\ i'[b] = i[b] /\ skip'[b] = skip[b] /\ msg'[b] = msg[b]
    BY <1>2 DEF FilterThread, FilterPop, FilterBegin, FilterNoPipe, FilterEnd, FilterNumber,
       FilterSkip, FilterEnterPipe, FilterProcess, FilterFails, FilterRaise, FilterAssign,
       FilterRaiseLate, Leave, contextVars, filterVars, ContextTypes, FilterTypes, Collections
  <2> QED
    BY <2>1 DEF Grouped, Counted, Entered, Numbered, Summed
<1>3. ASSUME pipe' = pipe, fpc'[a] \in {"pop", "start", "raise", "assign"} PROVE Grouped(a)'
  BY <1>1, <1>3 DEF Grouped, Counted, Entered, Numbered, Summed
<1>4. ASSUME FilterPop(a) \/ FilterEnd(a) \/ FilterFails(a) \/ FilterRaise(a) \/ FilterAssign(a)
      PROVE  Grouped(a)'
  <2>1. pipe' = pipe
    BY <1>4 DEF FilterPop, FilterEnd, FilterFails, FilterRaise, FilterAssign, contextVars
  <2>2. \E s \in {"pop", "start", "raise", "assign"} : fpc' = [fpc EXCEPT ![a] = s]
    BY <1>4 DEF FilterPop, FilterEnd, FilterFails, FilterRaise, FilterAssign, Leave
  <2> QED
    BY <1>3, <2>1, <2>2 DEF FilterTypes
<1>5. CASE FilterNoPipe(a) \/ FilterRaiseLate(a)
  BY <1>5 DEF FilterNoPipe, FilterRaiseLate, Defined
<1>6. ASSUME FilterBegin(a) PROVE Grouped(a)'
  <2>1. pipe' = [pipe EXCEPT ![a] = [pipe[a] EXCEPT !.initialized = TRUE]]
    BY <1>6 DEF FilterBegin
  <2>2. pipe'[a].n = pipe[a].n /\ pipe'[a].sync = pipe[a].sync
    BY <2>1, <1>1 DEF ContextTypes, Pipes
  <2>3. pipe[a].n # 0
    BY <1>1, <1>6, NoPipeUnique DEF Grouped, Counted, FilterBegin
  <2>4. fpc'[a] = "top" /\ i'[a] = 0 /\ skip'[a] \in Nat
    BY <1>6 DEF FilterBegin, FilterTypes, ContextTypes
  <2> QED
    BY <2>2, <2>3, <2>4 DEF Grouped, Counted, Entered, Numbered, Summed
<1>7. ASSUME FilterNumber(a) PROVE Grouped(a)'
  <2>1. /\ pipe' = pipe /\ result' = result /\ i' = i /\ skip' = skip /\ msg' = msg
        /\ fpc[a] = "top" /\ fpc'[a] = "wait" /\ frameNumber'[a] = i[a] + 1
    BY <1>7 DEF FilterNumber, FilterTypes, ContextTypes
  <2> QED
    BY <1>1, <2>1 DEF Grouped, Counted, Entered, Numbered, Summed
<1>8. ASSUME FilterSkip(a) PROVE Grouped(a)'
  <2>1. /\ pipe' = pipe /\ skip' = skip /\ fpc'[a] = "top" /\ i'[a] = i[a] + 1
        /\ i[a] < skip[a]
    BY <1>8 DEF FilterSkip, FilterTypes, contextVars
  <2>2. ~(i'[a] > skip'[a])
    BY <1>1, <2>1
  <2> QED
    BY <1>1, <2>1, <2>2 DEF Grouped, Counted, Entered, Numbered, Summed
<1>9. ASSUME FilterEnterPipe(a) PROVE Grouped(a)'
  <2>1. /\ pipe' = pipe /\ result' = result /\ i' = i /\ skip' = skip /\ msg' = msg
        /\ frameNumber' = frameNumber
        /\ fpc[a] = "wait" /\ fpc'[a] = "pipe" /\ i[a] >= skip[a] /\ pipe[a].initialized
    BY <1>9 DEF FilterEnterPipe, FilterTypes, contextVars, Defined
  <2> QED
    BY <1>1, <2>1 DEF Grouped, Counted, Entered, Numbered, Summed
<1>10. ASSUME FilterProcess(a) PROVE Grouped(a)'
  <2>1. /\ pipe' = pipe /\ skip' = skip /\ msg' = msg /\ frameNumber' = frameNumber
        /\ fpc[a] = "pipe" /\ fpc'[a] = "top" /\ i'[a] = i[a] + 1
        /\ result'[a] = Integrate(pipe[a].n, frameNumber[a], <<msg[a].reading, frameNumber[a]>>,
                                  result[a])
    BY <1>10 DEF FilterProcess, FilterTypes, ContextTypes, Collections
  <2>2. /\ pipe[a].initialized /\ i[a] >= skip[a] /\ frameNumber[a] = i[a] + 1
        /\ pipe[a].n \in Nat \ {0} /\ msg[a].reading \in Nat
    BY <1>1, <2>1 DEF Grouped, Entered, Numbered, Counted, Pipes, FilterTypes, Messages
  <2>3. ASSUME Whole(skip[a], pipe[a].n)
        PROVE  result'[a] = Group(msg[a].reading, i[a] + 1, pipe[a].n)
    <3> DEFINE n == pipe[a].n
               k == i[a] + 1
               r == msg[a].reading
    <3>1. k \in Nat /\ k >= 1 /\ k - 1 = i[a] /\ n \in Nat \ {0} /\ r \in Nat
      BY <1>1, <2>2
    <3>2. (k - 1) % n # 0 => result[a] = Group(r, k - 1, n)
      <4>1. CASE i[a] = skip[a]
        BY <2>3, <3>1, <4>1 DEF Whole
      <4>2. CASE i[a] > skip[a]
        BY <1>1, <2>1, <2>2, <2>3, <3>1, <4>2 DEF Grouped, Summed
      <4> QED
        BY <1>1, <2>2, <4>1, <4>2
    <3>3. result'[a] = Integrate(n, k, <<r, k>>, result[a])
      BY <2>1, <2>2
    <3> HIDE DEF n, k, r
    <3>4. result'[a] = Group(r, k, n)
      BY <3>1, <3>2, <3>3, IntegrateGroup
    <3> QED
      BY <3>4 DEF n, k, r
  <2> QED
    BY <1>1, <2>1, <2>2, <2>3 DEF Grouped, Counted, Entered, Numbered, Summed
<1>11. Grouped(a)'
  BY <1>4, <1>5, <1>6, <1>7, <1>8, <1>9, <1>10 DEF FilterThread
<1> QED
  BY <1>2, <1>11

LEMMA AverageStep ==
  ASSUME TypeInv, AverageInv, [Next]_vars
  PROVE  AverageInv'
<1> USE DEF TypeInv
<1> SUFFICES ASSUME Defined' PROVE \A a \in Assemblies : Grouped(a)'
  BY DEF AverageInv
<1>1. Defined
  BY DEF Next, Call, GoOn, FilterThread, SetMeasurement, SetPipeFilter, SyncRead, Read,
     CancelReading, Disconnect, SyncAdd, SyncPush, SyncThrow, SyncPoll, SyncLook, SyncAgain,
     SyncRemove, SyncReturn, FilterPop, FilterBegin, FilterNoPipe, FilterEnd, FilterNumber,
     FilterSkip, FilterEnterPipe, FilterProcess, FilterFails, FilterRaise, FilterAssign,
     FilterRaiseLate, vars, Defined
<1>2. \A a \in Assemblies : Grouped(a) /\ pipe[a] \in Pipes
  BY <1>1 DEF AverageInv, ContextTypes
<1>3. ASSUME UNCHANGED <<fpc, msg, i, skip, frameNumber, result>>,
             NEW a \in Assemblies,
             \/ pipe'[a] = pipe[a]
             \/ /\ pipe'[a].n = pipe[a].n /\ pipe[a].n # 0
                /\ pipe'[a].initialized = pipe[a].initialized
      PROVE  Grouped(a)'
  BY <1>2, <1>3 DEF Grouped, Counted, Entered, Numbered, Summed
<1>4. ASSUME UNCHANGED <<pipe, fpc, msg, i, skip, frameNumber, result>>
      PROVE  \A a \in Assemblies : Grouped(a)'
  BY <1>3, <1>4
<1>5. ASSUME NEW m \in Measurements, SetMeasurement(m) PROVE \A a \in Assemblies : Grouped(a)'
  BY <1>4, <1>5 DEF SetMeasurement, filterVars
<1>6. ASSUME NEW n \in Counts, SetPipeFilter(n) PROVE \A a \in Assemblies : Grouped(a)'
  <2>1. \A a \in Assemblies : pipe'[a].n # 0 /\ ~pipe'[a].initialized
    BY <1>6, PipeTypes, SyncReadAssumption DEF SetPipeFilter
  <2>2. \A a \in Assemblies : fpc'[a] # "pipe"
    BY <1>6 DEF SetPipeFilter, Defined, filterVars
  <2> QED
    BY <2>1, <2>2 DEF Grouped, Counted, Entered, Numbered, Summed
<1>7. CASE Disconnect
  <2>1. \A a \in Assemblies : pipe'[a] = [pipe[a] EXCEPT !.initialized = FALSE]
    BY <1>7 DEF Disconnect
  <2>2. \A a \in Assemblies :
          pipe'[a].n = pipe[a].n /\ ~pipe'[a].initialized /\ pipe'[a].sync = pipe[a].sync
    BY <1>2, <2>1 DEF Pipes
  <2>3. \A a \in Assemblies : fpc'[a] = "pop"
    BY <1>7 DEF Disconnect, Quiet, filterVars
  <2> QED
    BY <1>2, <2>2, <2>3 DEF Grouped, Counted, Entered, Numbered, Summed
<1>8. CASE (\E s \in Saves : SyncRead(s)) \/ Read \/ CancelReading
  BY <1>4, <1>8 DEF SyncRead, Read, CancelReading, contextVars, filterVars
<1>9. CASE SyncAdd
  <2>1. /\ next \in Assemblies /\ pipe[next] # NoPipe
        /\ pipe' = [pipe EXCEPT ![next] = [pipe[next] EXCEPT !.sync = Append(@, active)]]
        /\ UNCHANGED <<fpc, msg, i, skip, frameNumber, result>>
    BY <1>9 DEF SyncAdd, Defined, filterVars
  <2>2. pipe[next].n # 0
    BY <1>2, <2>1, NoPipeUnique DEF Grouped, Counted
  <2>3. pipe'[next].n = pipe[next].n /\ pipe'[next].initialized = pipe[next].initialized
    BY <1>2, <2>1 DEF ContextTypes, Pipes
  <2>4. \A a \in Assemblies : a # next => pipe'[a] = pipe[a]
    BY <2>1 DEF ContextTypes
  <2> QED
    BY <1>3, <2>1, <2>2, <2>3, <2>4
<1>10. CASE SyncRemove
  <2>1. /\ next \in Assemblies
        /\ pipe' = [pipe EXCEPT ![next] = [pipe[next] EXCEPT !.sync = Front(@)]]
        /\ UNCHANGED <<fpc, msg, i, skip, frameNumber, result>>
    BY <1>10 DEF SyncRemove, filterVars
  <2>2. pipe'[next].n = pipe[next].n /\ pipe'[next].initialized = pipe[next].initialized
        /\ pipe'[next].sync = Front(pipe[next].sync)
    BY <1>2, <2>1 DEF ContextTypes, Pipes
  <2>3. Front(<< >>) = << >>
    BY DEF Front
  <2>4. pipe[next].n = 0 => pipe'[next].sync = << >>
    BY <1>2, <2>1, <2>2, <2>3 DEF Grouped, Counted
  <2>5. ASSUME NEW a \in Assemblies, a = next PROVE Grouped(a)'
    BY <1>2, <2>1, <2>2, <2>4, <2>5 DEF Grouped, Counted, Entered, Numbered, Summed
  <2>6. \A a \in Assemblies : a # next => pipe'[a] = pipe[a]
    BY <2>1 DEF ContextTypes
  <2>7. \A a \in Assemblies : a # next => Grouped(a)'
    BY <1>3, <2>1, <2>6
  <2> QED
    BY <2>5, <2>7
<1>11. CASE SyncPush \/ SyncThrow \/ SyncPoll \/ SyncLook \/ SyncAgain \/ SyncReturn
  BY <1>4, <1>11 DEF SyncPush, SyncThrow, SyncPoll, SyncLook, SyncAgain, SyncReturn, contextVars,
     filterVars
<1>12. CASE UNCHANGED vars
  BY <1>4, <1>12 DEF vars, contextVars, filterVars
<1>13. ASSUME NEW a \in Assemblies, FilterThread(a) PROVE \A b \in Assemblies : Grouped(b)'
  BY <1>1, <1>13, GroupedThread
<1> QED
  BY <1>5, <1>6, <1>7, <1>8, <1>9, <1>10, <1>11, <1>12, <1>13 DEF Next, Call, GoOn

\* A result that the context callback gets is the sum of the last n frames of its own
\* reading, whatever cancels, failures, new pipes and syncReads came before it, as long
\* as whole groups are skipped (IntegratorFilter::process, CopyNotifyFilter::process).
THEOREM AveragesWhole == Spec => AveragesAreWhole
<1>1. Init => AverageInv
  BY PipeTypes DEF Init, AverageInv, Grouped, Counted, Entered, Numbered, Summed
<1>2. TypeInv /\ AverageInv /\ [Next]_vars => AverageInv'
  BY AverageStep
<1>3. ASSUME TypeInv, AverageInv, NEW a \in Assemblies, FilterProcess(a),
             Notifies(pipe[a].n, frameNumber[a]), skip[a] % pipe[a].n = 0
      PROVE  result'[a] = [j \in 1 .. pipe[a].n |->
                             <<msg[a].reading, frameNumber[a] - pipe[a].n + j>>]
  <2> USE DEF TypeInv
  <2> DEFINE n == pipe[a].n
             k == frameNumber[a]
             r == msg[a].reading
  <2>1. Grouped(a) /\ fpc[a] = "pipe" /\ pipe[a] \in Pipes /\ msg[a] \in Messages
    BY <1>3 DEF AverageInv, FilterProcess, ContextTypes, FilterTypes
  <2>2. /\ n \in Nat \ {0} /\ r \in Nat /\ k = i[a] + 1 /\ i[a] \in Nat /\ skip[a] \in Nat
        /\ i[a] >= skip[a] /\ skip[a] % n = 0
        /\ i[a] > skip[a] => result[a] = Group(r, i[a], n)
    BY <1>3, <2>1 DEF Grouped, Counted, Entered, Numbered, Summed, Whole, FilterTypes,
       Pipes, Messages
  <2>3. result'[a] = Integrate(n, k, <<r, k>>, result[a])
    BY <1>3 DEF FilterProcess, ContextTypes, Collections
  <2>4. k % n = 0
    BY <1>3 DEF Notifies
  <2> HIDE DEF n, k, r
  <2>5. (k - 1) % n # 0 => result[a] = Group(r, k - 1, n)
    <3>1. k - 1 = i[a]
      BY <2>2
    <3>2. CASE i[a] = skip[a]
      BY <2>2, <3>1, <3>2
    <3>3. CASE i[a] > skip[a]
      BY <2>2, <3>1, <3>3
    <3> QED
      BY <2>2, <3>2, <3>3
  <2>6. result'[a] = Group(r, k, n)
    BY <2>2, <2>3, <2>5, IntegrateGroup
  <2>7. ((k - 1) % n) + 1 = n
    <3>1. k - 1 \in Nat /\ k - 1 \in Int /\ (k - 1) + 1 = k /\ n \in Nat \ {0}
      BY <2>2
    <3>2. (k - 1) % n \in 0 .. n - 1
      BY <3>1, Remainder, Zenon
    <3>3. k % n = IF (k - 1) % n = n - 1 THEN 0 ELSE ((k - 1) % n) + 1
      BY <3>1, NextRemainder
    <3> QED
      BY <2>2, <2>4, <3>2, <3>3
  <2>8. result'[a] = [j \in 1 .. n |-> <<r, k - n + j>>]
    BY <2>6, <2>7 DEF Group
  <2> QED
    BY <2>8 DEF n, k, r
<1>4. TypeInv /\ AverageInv =>
        [\A a \in Assemblies :
           LET n == pipe[a].n
               k == frameNumber[a]
           IN  FilterProcess(a) /\ Notifies(n, k) /\ skip[a] % n = 0
                 => result'[a] = [j \in 1 .. n |-> <<msg[a].reading, k - n + j>>]]_vars
  BY <1>3
<1> QED
  BY <1>1, <1>2, <1>4, SyncReadTypeCorrect, PTL DEF Spec, AveragesAreWhole

-----------------------------------------------------------------------------
(* The frames that syncRead returns.                                       *)

Asked == measurement.readFramesNum

\* A syncRead is under way that found the assemblies idle, and skips no frames.
SyncAlone ==
  Defined /\ alone /\ apc \in {"add", "sleep", "poll", "remove"}
    /\ measurement.skipFramesNum = 0

\* Its filter is in the pipe of a: put there by the first of syncRead's loops and
\* removed by the last (Device::syncRead).
Listening(a) == CASE apc = "add" -> a < next [] apc = "remove" -> a >= next [] OTHER -> TRUE

Saved(a) == buffers[a] \in {AskedUpTo(Asked), AskedUpTo(Asked - 1)}

\* The command of the reading.
Command == READ(Asked, active.id)

\* The reading has not begun: nothing is saved, and the number in the context is still
\* that of another reading (Assembly::read, reader).
Awaited(a) ==
  fpc[a] \in {"pop", "start"} /\ (apc = "add" \/ queue[a] # << >> \/ fpc[a] = "start")
    => frameNumber[a] # Asked /\ buffers[a] = << >>

\* The reading is under way: what is saved follows the counter (readFrames).
Saving(a) ==
  fpc[a] \in {"top", "wait", "pipe"} =>
    /\ msg[a] = Command /\ skip[a] = 0 /\ i[a] <= Asked
    /\ fpc[a] = "top" => IF i[a] = 0 THEN frameNumber[a] # Asked ELSE frameNumber[a] = i[a]
    /\ fpc[a] # "top" => i[a] < Asked /\ frameNumber[a] = i[a] + 1
    /\ Listening(a) => buffers[a] = AskedUpTo(i[a])

\* Nothing but this reading is in the queue, and nothing before it is pushed.
OnlyThis(a) ==
  /\ queue[a] # << >> => queue[a] = <<Command>> /\ fpc[a] = "pop" /\ apc # "add"
  /\ apc = "add" => fpc[a] = "pop"
  /\ fpc[a] = "start" => msg[a] = Command

\* The number is the last one only when everything up to the frame before it is saved,
\* and it does not change after that; so what the loop has seen stays true.
Seen(a) ==
  /\ frameNumber[a] = Asked => Saved(a)
  /\ apc = "poll" /\ ~waiting /\ a < next => frameNumber[a] = Asked
  /\ apc = "remove" => frameNumber[a] = Asked

\* All this of one assembly.
Collected(a) ==
  /\ pipe[a].sync = IF Listening(a) THEN <<active>> ELSE << >>
  /\ Awaited(a) /\ Saving(a) /\ OnlyThis(a) /\ Seen(a)

SavingInv ==
  SyncAlone =>
    /\ active.save # 0
    /\ apc = "add" => active.id = reads + 1
    /\ \A a \in Assemblies : Collected(a)

\* One frame more is a frame more to save, or none.
LEMMA Quotient ==
  ASSUME NEW k \in Nat, NEW s \in Nat \ {0}
  PROVE  /\ k \div s \in Nat
         /\ (k + 1) % s = 0 =>
              (k + 1) \div s = (k \div s) + 1 /\ ((k \div s) + 1) * s = k + 1
         /\ (k + 1) % s # 0 => (k + 1) \div s = k \div s
<1> DEFINE p == k \div s
           r == k % s
           q == (k + 1) \div s
           t == (k + 1) % s
<1>1. r \in 0 .. s - 1 /\ p \in Int /\ k = s * p + r
  BY Remainder
<1>2. t \in 0 .. s - 1 /\ q \in Int /\ k + 1 = s * q + t
  BY Remainder
<1>3. t = IF r = s - 1 THEN 0 ELSE r + 1
  BY NextRemainder
<1> HIDE DEF p, q, r, t
<1>4. p \in Nat
  <2>1. \A d \in Int : d <= -1 => s * d <= -s
    OBVIOUS
  <2>2. s * p > -s
    BY <1>1
  <2> QED
    BY <1>1, <2>1, <2>2
<1>5. \A d \in Int : s * d = 0 => d = 0
  OBVIOUS
<1>6. ASSUME t = 0 PROVE q = p + 1 /\ (p + 1) * s = k + 1
  <2>1. s * q = s * p + s
    BY <1>1, <1>2, <1>3, <1>6
  <2>2. s * (q - (p + 1)) = 0 /\ q - (p + 1) \in Int
    BY <1>1, <1>2, <2>1
  <2>3. q = p + 1
    BY <1>1, <1>2, <1>5, <2>2
  <2> QED
    BY <1>2, <1>6, <2>3
<1>7. ASSUME t # 0 PROVE q = p
  <2>1. s * q = s * p
    BY <1>1, <1>2, <1>3, <1>7
  <2>2. s * (q - p) = 0 /\ q - p \in Int
    BY <1>1, <1>2, <2>1
  <2> QED
    BY <1>1, <1>2, <1>5, <2>2
<1> QED
  BY <1>4, <1>6, <1>7 DEF p, q, t

\* What is to be saved of one frame more (SyncReadFilter::process).
LEMMA AskedNext ==
  ASSUME active \in Syncs, active.save # 0, NEW k \in Nat
  PROVE  AskedUpTo(k + 1) = IF Keeps(active.save, k + 1)
                              THEN Append(AskedUpTo(k), <<active.id, k + 1>>)
                              ELSE AskedUpTo(k)
<1> DEFINE s == active.save
           d == active.id
           n == k \div s
<1>1. s \in Nat \ {0} /\ d \in Nat
  BY DEF Syncs
<1>2. AskedUpTo(k) = [j \in 1 .. n |-> <<d, j * s>>]
  BY DEF AskedUpTo
<1>3. /\ n \in Nat
      /\ Keeps(s, k + 1) => (k + 1) \div s = n + 1 /\ (n + 1) * s = k + 1
      /\ ~Keeps(s, k + 1) => (k + 1) \div s = n
  BY <1>1, Quotient DEF Keeps
<1>4. AskedUpTo(k + 1) = [j \in 1 .. (k + 1) \div s |-> <<d, j * s>>]
  BY DEF AskedUpTo
<1> HIDE DEF s, d, n
<1>5. ASSUME Keeps(s, k + 1)
      PROVE  AskedUpTo(k + 1) = Append(AskedUpTo(k), <<d, k + 1>>)
  <2>1. AskedUpTo(k + 1) = [j \in 1 .. n + 1 |-> <<d, j * s>>]
    BY <1>3, <1>4, <1>5
  <2>2. \A j \in 1 .. n : <<d, j * s>> \in Nat \X Nat
    BY <1>1, <1>3
  <2>3. AskedUpTo(k) \in Seq(Nat \X Nat) /\ Len(AskedUpTo(k)) = n
    BY <1>2, <1>3, <2>2
  <2>4. <<d, (n + 1) * s>> = <<d, k + 1>>
    BY <1>3, <1>5
  <2> QED
    BY <1>2, <1>3, <2>1, <2>3, <2>4
<1>6. ASSUME ~Keeps(s, k + 1) PROVE AskedUpTo(k + 1) = AskedUpTo(k)
  BY <1>2, <1>3, <1>4, <1>6
<1> QED
  BY <1>5, <1>6 DEF s, d

\* Nothing is to be saved of no frames.
LEMMA AskedNone ==
  ASSUME active \in Syncs, active.save # 0
  PROVE  AskedUpTo(0) = << >>
<1>1. active.save \in Nat \ {0}
  BY DEF Syncs
<1>2. 0 \div active.save = 0
  BY <1>1
<1>3. AskedUpTo(0) = [j \in 1 .. 0 |-> <<active.id, j * active.save>>]
  BY <1>2 DEF AskedUpTo
<1> QED
  BY <1>3

\* A step that leaves an assembly and syncRead's place alone.
LEMMA CollectedSame ==
  ASSUME NEW a \in Assemblies, Collected(a),
         UNCHANGED <<apc, next, waiting, active, measurement>>,
         pipe'[a].sync = pipe[a].sync, fpc'[a] = fpc[a], queue'[a] = queue[a],
         msg'[a] = msg[a], i'[a] = i[a], skip'[a] = skip[a],
         frameNumber'[a] = frameNumber[a], buffers'[a] = buffers[a]
  PROVE  Collected(a)'
<1>1. Asked' = Asked /\ Command' = Command /\ Listening(a)' = Listening(a)
  BY DEF Asked, Command, Listening
<1>2. \A k : AskedUpTo(k)' = AskedUpTo(k)
  BY DEF AskedUpTo
<1>3. Awaited(a)'
  BY <1>1 DEF Collected, Awaited
<1>4. Saving(a)'
  BY <1>1 DEF Collected, Saving, AskedUpTo
<1>5. OnlyThis(a)'
  BY <1>1 DEF Collected, OnlyThis
<1>6. Seen(a)'
  BY <1>1 DEF Collected, Seen, Saved, AskedUpTo
<1> QED
  BY <1>1, <1>3, <1>4, <1>5, <1>6 DEF Collected

\* What a step of a's filter thread leaves alone.
LEMMA ThreadLeaves ==
  ASSUME TypeInv, NEW a \in Assemblies, FilterThread(a)
  PROVE  /\ UNCHANGED <<apc, next, waiting, active, measurement, alone, reads>>
         /\ \A b \in Assemblies : b # a =>
              /\ pipe'[b] = pipe[b] /\ fpc'[b] = fpc[b] /\ queue'[b] = queue[b]
              /\ msg'[b] = msg[b] /\ i'[b] = i[b] /\ skip'[b] = skip[b]
              /\ frameNumber'[b] = frameNumber[b] /\ buffers'[b] = buffers[b]
<1> USE DEF TypeInv
<1>1. UNCHANGED <<apc, next, waiting, active, measurement, alone, reads>>
  BY DEF FilterThread, FilterPop, FilterBegin, FilterNoPipe, FilterEnd, FilterNumber,
     FilterSkip, FilterEnterPipe, FilterProcess, FilterFails, FilterRaise, FilterAssign,
     FilterRaiseLate, contextVars, syncVars, callVars
<1>2. ASSUME NEW b \in Assemblies, b # a
      PROVE  /\ pipe'[b] = pipe[b] /\ fpc'[b] = fpc[b] /\ queue'[b] = queue[b]
             /\ msg'[b] = msg[b] /\ i'[b] = i[b] /\ skip'[b] = skip[b]
             /\ frameNumber'[b] = frameNumber[b] /\ buffers'[b] = buffers[b]
  BY <1>2 DEF FilterThread, FilterPop, FilterBegin, FilterNoPipe, FilterEnd, FilterNumber,
     FilterSkip, FilterEnterPipe, FilterProcess, FilterFails, FilterRaise, FilterAssign,
     FilterRaiseLate, Leave, contextVars, filterVars, syncVars, ContextTypes, FilterTypes,
     SyncTypes, Collections
<1> QED
  BY <1>1, <1>2

\* A filter thread's step while a syncRead waits for it.
LEMMA CollectedThread ==
  ASSUME TypeInv, SavingInv, SyncAlone, NEW a \in Assemblies, FilterThread(a), Defined'
  PROVE  \A b \in Assemblies : Collected(b)'
<1> USE DEF TypeInv
<1>1. /\ Collected(a) /\ active \in Syncs /\ active.save # 0 /\ Asked \in Nat /\ i[a] \in Nat
      /\ measurement.skipFramesNum = 0 /\ apc \in {"add", "sleep", "poll", "remove"}
      /\ frameNumber[a] \in Nat /\ pipe[a] \in Pipes /\ queue[a] \in Seq(Messages)
  BY DEF SavingInv, SyncAlone, SyncTypes, ContextTypes, FilterTypes, Asked
<1>2. ASSUME NEW b \in Assemblies, b # a PROVE Collected(b)'
  BY <1>2, ThreadLeaves, CollectedSame DEF SavingInv
<1>3. /\ Asked' = Asked /\ Command' = Command /\ Listening(a)' = Listening(a)
      /\ apc' = apc /\ waiting' = waiting /\ next' = next /\ active' = active
      /\ Saved(a)' = (buffers'[a] \in {AskedUpTo(Asked), AskedUpTo(Asked - 1)})
      /\ AskedUpTo(i[a])' = [j \in 1 .. i'[a] \div active.save |-> <<active.id, j * active.save>>]
  BY ThreadLeaves DEF Asked, Command, Listening, Saved, AskedUpTo
<1>4. /\ Command \in Messages /\ Command.cmd = "READ" /\ Command.payload = Asked
      /\ Command # STOP
  <2>1. active.id \in Nat
    BY <1>1 DEF Syncs
  <2> QED
    BY <1>1, <2>1 DEF Command, READ, STOP, Messages
<1>5. ~StopWaits(a)
  BY <1>1, <1>4 DEF StopWaits, Collected, OnlyThis
<1>6. ASSUME pipe'[a].sync = pipe[a].sync, frameNumber'[a] = frameNumber[a],
             buffers'[a] = buffers[a], queue'[a] = queue[a],
             fpc'[a] \in {"pop", "raise", "assign"}, queue[a] = << >>, apc # "add"
      PROVE  Collected(a)'
  BY <1>1, <1>3, <1>6 DEF Collected, Awaited, Saving, OnlyThis, Seen, Saved
<1>7. ASSUME FilterPop(a) PROVE Collected(a)'
  <2>1. queue[a] = <<Command>> /\ fpc[a] = "pop" /\ apc # "add"
    BY <1>1, <1>7 DEF FilterPop, Collected, OnlyThis
  <2>2. Head(queue[a]) = Command /\ Tail(queue[a]) = << >>
    BY <2>1
  <2>3. /\ queue'[a] = << >> /\ msg'[a] = Command /\ fpc'[a] = "start"
        /\ pipe' = pipe /\ frameNumber' = frameNumber /\ buffers' = buffers
    BY <1>4, <1>7, <2>2 DEF FilterPop, FilterTypes, contextVars, syncVars
  <2> QED
    BY <1>1, <1>3, <2>1, <2>3 DEF Collected, Awaited, Saving, OnlyThis, Seen, Saved
<1>8. fpc[a] # "pop" => queue[a] = << >> /\ apc # "add"
  BY <1>1 DEF Collected, OnlyThis
<1>9. ASSUME FilterBegin(a) PROVE Collected(a)'
  <2>1. pipe' = [pipe EXCEPT ![a] = [pipe[a] EXCEPT !.initialized = TRUE]]
    BY <1>9 DEF FilterBegin
  <2>2. pipe'[a].sync = pipe[a].sync
    BY <1>1, <2>1 DEF ContextTypes, Pipes
  <2>3. /\ fpc[a] = "start" /\ fpc'[a] = "top" /\ i'[a] = 0 /\ skip'[a] = 0
        /\ queue'[a] = queue[a] /\ msg'[a] = msg[a] /\ frameNumber' = frameNumber
        /\ buffers' = buffers
    BY <1>1, <1>9 DEF FilterBegin, FilterTypes, syncVars
  <2>4. msg[a] = Command /\ frameNumber[a] # Asked /\ buffers[a] = << >>
    BY <1>1, <2>3 DEF Collected, OnlyThis, Awaited
  <2>5. AskedUpTo(i[a])' = << >>
    BY <1>1, <1>3, <2>3, AskedNone DEF AskedUpTo
  <2>6. Saving(a)'
    <3>1. (i[a] <= Asked)' /\ (msg[a] = Command)' /\ (frameNumber[a] # Asked)'
      BY <1>1, <1>3, <2>3, <2>4
    <3>2. (buffers[a] = AskedUpTo(i[a]))'
      BY <2>3, <2>4, <2>5
    <3> QED
      BY <2>3, <3>1, <3>2 DEF Saving
  <2>7. Awaited(a)' /\ OnlyThis(a)' /\ Seen(a)'
    BY <1>1, <1>3, <1>8, <2>3, <2>4 DEF Collected, Awaited, OnlyThis, Seen
  <2> QED
    BY <1>1, <1>3, <2>2, <2>6, <2>7 DEF Collected
<1>10. ASSUME FilterNoPipe(a) \/ FilterRaiseLate(a) PROVE Collected(a)'
  BY <1>10 DEF FilterNoPipe, FilterRaiseLate, Defined
<1>11. ASSUME FilterEnd(a) \/ FilterFails(a) \/ FilterRaise(a) \/ FilterAssign(a)
       PROVE  Collected(a)'
  <2>1. pipe' = pipe /\ frameNumber' = frameNumber /\ buffers' = buffers
    BY <1>11 DEF FilterEnd, FilterFails, FilterRaise, FilterAssign, contextVars, syncVars
  <2>2. queue' = queue
    BY <1>5, <1>11 DEF FilterEnd, FilterFails, FilterRaise, FilterAssign
  <2>3. \E s \in {"pop", "raise", "assign"} : fpc' = [fpc EXCEPT ![a] = s]
    BY <1>11 DEF FilterEnd, FilterFails, FilterRaise, FilterAssign, Leave
  <2>4. fpc[a] # "pop"
    BY <1>11 DEF FilterEnd, FilterFails, FilterRaise, FilterAssign
  <2> QED
    BY <1>6, <1>8, <2>1, <2>2, <2>3, <2>4 DEF FilterTypes
<1>12. ASSUME FilterNumber(a) PROVE Collected(a)'
  <2>1. /\ fpc[a] = "top" /\ fpc'[a] = "wait" /\ frameNumber'[a] = i[a] + 1
        /\ i[a] < msg[a].payload
        /\ UNCHANGED <<pipe, queue, msg, i, skip, buffers>>
    BY <1>12 DEF FilterNumber, FilterTypes, ContextTypes, syncVars
  <2>2. i[a] < Asked /\ frameNumber[a] # Asked
    BY <1>1, <1>4, <2>1 DEF Collected, Saving
  <2>3. AskedUpTo(i[a])' = AskedUpTo(i[a])
    BY <1>3, <2>1 DEF AskedUpTo
  <2>4. Saving(a)'
    BY <1>1, <1>3, <2>1, <2>2, <2>3 DEF Collected, Saving
  <2>5. ~(apc = "poll" /\ ~waiting /\ a < next) /\ apc # "remove"
    BY <1>1, <2>2 DEF Collected, Seen
  <2>6. Listening(a)
    BY <1>1, <2>5, <1>8, <2>1 DEF Listening
  <2>7. i[a] + 1 = Asked => buffers'[a] = AskedUpTo(Asked - 1)
    BY <1>1, <2>1, <2>6 DEF Collected, Saving
  <2>8. Seen(a)'
    BY <1>3, <2>1, <2>5, <2>7 DEF Seen
  <2>9. Awaited(a)' /\ OnlyThis(a)'
    BY <1>1, <1>3, <1>8, <2>1 DEF Collected, Awaited, OnlyThis
  <2> QED
    BY <1>1, <1>3, <2>1, <2>4, <2>8, <2>9 DEF Collected
<1>13. ASSUME FilterSkip(a) PROVE Collected(a)'
  BY <1>1, <1>13 DEF FilterSkip, Collected, Saving
<1>14. ASSUME FilterEnterPipe(a) PROVE Collected(a)'
  <2>1. /\ fpc[a] = "wait" /\ fpc'[a] = "pipe"
        /\ UNCHANGED <<pipe, queue, msg, i, skip, buffers, frameNumber>>
    BY <1>14 DEF FilterEnterPipe, FilterTypes, contextVars, syncVars, Defined
  <2>2. AskedUpTo(i[a])' = AskedUpTo(i[a])
    BY <1>3, <2>1 DEF AskedUpTo
  <2>3. Saving(a)'
    BY <1>1, <1>3, <2>1, <2>2 DEF Collected, Saving
  <2> QED
    BY <1>1, <1>3, <1>8, <2>1, <2>3 DEF Collected, Awaited, OnlyThis, Seen, Saved
<1>15. ASSUME FilterProcess(a) PROVE Collected(a)'
  <2> DEFINE k == i[a] + 1
             keeping == {s \in ToSet(pipe[a].sync) : Keeps(s.save, frameNumber[a])}
             frame == <<msg[a].reading, frameNumber[a]>>
  <2>1. /\ fpc[a] = "pipe" /\ fpc'[a] = "top" /\ i'[a] = i[a] + 1
        /\ UNCHANGED <<pipe, queue, msg, skip, frameNumber>>
        /\ buffers' = IF keeping # {} THEN [buffers EXCEPT ![a] = Append(@, frame)]
                                      ELSE buffers
    BY <1>15 DEF FilterProcess, FilterTypes, Defined
  <2>2. /\ msg[a] = Command /\ skip[a] = 0 /\ i[a] < Asked /\ frameNumber[a] = i[a] + 1
        /\ Listening(a) => buffers[a] = AskedUpTo(i[a])
    BY <1>1, <2>1 DEF Collected, Saving
  <2>3. frame = <<active.id, i[a] + 1>>
    BY <2>2 DEF Command, READ
  <2>4. ASSUME Listening(a) PROVE buffers'[a] = AskedUpTo(i[a] + 1)
    <3>1. pipe[a].sync = <<active>>
      BY <1>1, <2>4 DEF Collected
    <3>2. ToSet(pipe[a].sync) = {active}
      BY <3>1 DEF ToSet
    <3>3. keeping # {} <=> Keeps(active.save, i[a] + 1)
      BY <2>2, <3>2
    <3> HIDE DEF keeping, frame
    <3>4. buffers'[a] = IF Keeps(active.save, i[a] + 1)
                          THEN Append(buffers[a], <<active.id, i[a] + 1>>) ELSE buffers[a]
      BY <2>1, <2>3, <3>3 DEF SyncTypes, Collections
    <3> QED
      BY <1>1, <2>2, <2>4, <3>4, AskedNext
  <2>5. ASSUME ~Listening(a) PROVE buffers'[a] = buffers[a]
    <3>1. pipe[a].sync = << >>
      BY <1>1, <2>5 DEF Collected
    <3>2. keeping = {}
      BY <3>1 DEF ToSet
    <3> HIDE DEF keeping, frame
    <3> QED
      BY <2>1, <3>2
  <2> HIDE DEF keeping, frame, k
  <2>6. AskedUpTo(i[a])' = AskedUpTo(i[a] + 1)
    BY <1>3, <2>1 DEF AskedUpTo
  <2>7. Saving(a)'
    <3>1. (i[a] <= Asked)' /\ (msg[a] = Command)' /\ (i[a] # 0 /\ frameNumber[a] = i[a])'
      BY <1>1, <1>3, <2>1, <2>2
    <3>2. (Listening(a) => buffers[a] = AskedUpTo(i[a]))'
      BY <1>3, <2>4, <2>6
    <3> QED
      BY <2>1, <2>2, <3>1, <3>2 DEF Saving
  <2>8. frameNumber[a] = Asked => Saved(a)'
    <3>1. ASSUME frameNumber[a] = Asked, Listening(a) PROVE Saved(a)'
      BY <1>3, <2>2, <2>4, <3>1
    <3>2. ASSUME frameNumber[a] = Asked, ~Listening(a) PROVE Saved(a)'
      BY <1>1, <1>3, <2>5, <3>2 DEF Collected, Seen, Saved
    <3> QED
      BY <3>1, <3>2
  <2>9. Seen(a)'
    BY <1>1, <1>3, <2>1, <2>8 DEF Collected, Seen
  <2>10. Awaited(a)' /\ OnlyThis(a)'
    BY <1>1, <1>3, <1>8, <2>1 DEF Collected, Awaited, OnlyThis
  <2> QED
    BY <1>1, <1>3, <2>1, <2>7, <2>9, <2>10 DEF Collected
<1>16. Collected(a)'
  BY <1>7, <1>9, <1>10, <1>11, <1>12, <1>13, <1>14, <1>15 DEF FilterThread
<1> QED
  BY <1>2, <1>16

\* The application's steps.
LEMMA SavingStep ==
  ASSUME TypeInv, TypeInv', SavingInv, [Next]_vars
  PROVE  SavingInv'
<1> USE DEF TypeInv
<1> SUFFICES ASSUME SyncAlone' PROVE SavingInv'
  BY DEF SavingInv
<1>1. N \in Nat \ {0} /\ \A a \in Assemblies : a \in 1 .. N
  BY SyncReadAssumption DEF Assemblies
<1>2. ASSUME NEW a \in Assemblies, FilterThread(a) PROVE SavingInv'
  <2>1. Defined /\ UNCHANGED <<apc, active, measurement, alone, reads>>
    BY <1>2, ThreadLeaves DEF FilterThread, FilterPop, FilterBegin, FilterNoPipe, FilterEnd,
       FilterNumber, FilterSkip, FilterEnterPipe, FilterProcess, FilterFails, FilterRaise,
       FilterAssign, FilterRaiseLate
  <2>2. SyncAlone /\ Defined'
    BY <2>1 DEF SyncAlone
  <2>3. \A b \in Assemblies : Collected(b)'
    BY <1>2, <2>2, CollectedThread
  <2> QED
    BY <2>1, <2>2, <2>3 DEF SavingInv
<1>3. ASSUME Call, \A s \in Saves : ~SyncRead(s) PROVE FALSE
  <2>1. apc' \in {"idle", "disconnected"}
    BY <1>3 DEF Call, SetMeasurement, SetPipeFilter, Read, CancelReading, Disconnect, syncVars,
       callVars
  <2> QED
    BY <2>1 DEF SyncAlone
<1>4. ASSUME NEW s \in Saves, SyncRead(s) PROVE SavingInv'
  <2>1. /\ active' = [id |-> reads + 1, save |-> s] /\ apc' = "add" /\ next' = 1
        /\ buffers' = [a \in Assemblies |-> << >>]
        /\ alone' = \A a \in Assemblies : Quiet(a) /\ frameNumber[a] # measurement.readFramesNum
                                                   /\ pipe[a].sync = << >>
        /\ UNCHANGED <<measurement, pipe, frameNumber, queue, fpc, msg, i, skip, reads>>
    BY <1>4 DEF SyncRead, Locals, contextVars, filterVars
  <2>2. alone'
    BY DEF SyncAlone
  <2>3. \A a \in Assemblies : Quiet(a) /\ frameNumber[a] # measurement.readFramesNum
                                       /\ pipe[a].sync = << >>
    BY <2>1, <2>2
  <2>4. ASSUME NEW a \in Assemblies PROVE Collected(a)'
    <3>1. /\ fpc'[a] = "pop" /\ queue'[a] = << >> /\ frameNumber'[a] # Asked'
          /\ buffers'[a] = << >> /\ pipe'[a].sync = << >>
      BY <2>1, <2>3 DEF Quiet, Asked
    <3>2. ~(a < next')
      BY <1>1, <2>1
    <3>3. ~Listening(a)'
      BY <2>1, <3>2 DEF Listening
    <3> QED
      BY <2>1, <3>1, <3>3 DEF Collected, Awaited, Saving, OnlyThis, Seen
  <2>5. active'.save # 0 /\ active'.id = reads' + 1
    BY <2>1, SyncReadAssumption
  <2> QED
    BY <2>4, <2>5 DEF SavingInv
<1>5. ASSUME SyncThrow \/ SyncReturn PROVE FALSE
  BY <1>5 DEF SyncThrow, SyncReturn, SyncLeave, SyncAlone
<1>6. ASSUME SyncAdd PROVE SavingInv'
  <2>1. /\ apc = "add" /\ apc' = "add" /\ next' = next + 1 /\ next \in Assemblies /\ Defined
        /\ pipe' = [pipe EXCEPT ![next] = [pipe[next] EXCEPT !.sync = Append(@, active)]]
        /\ UNCHANGED <<measurement, frameNumber, queue, fpc, msg, i, skip, active, buffers,
                       alone, reads, waiting>>
    BY <1>6 DEF SyncAdd, filterVars, callVars
  <2>2. SyncAlone
    BY <2>1 DEF SyncAlone
  <2>3. ASSUME NEW a \in Assemblies PROVE Collected(a)'
    <3>1. Collected(a) /\ a \in Nat /\ next \in Nat /\ Asked' = Asked /\ pipe[a] \in Pipes
      BY <2>1, <2>2 DEF SavingInv, Assemblies, Asked, ContextTypes
    <3>2. Listening(a) = (a < next) /\ Listening(a)' = (a < next + 1)
      BY <2>1 DEF Listening
    <3>3. pipe'[a].sync = IF a < next + 1 THEN <<active>> ELSE << >>
      <4>1. pipe[a].sync = IF a < next THEN <<active>> ELSE << >>
        BY <3>1, <3>2 DEF Collected
      <4>2. CASE a = next
        <5>1. pipe'[a] = [pipe[a] EXCEPT !.sync = Append(@, active)]
          BY <2>1, <4>2 DEF ContextTypes
        <5>2. pipe'[a].sync = Append(pipe[a].sync, active)
          BY <3>1, <5>1 DEF Pipes
        <5>3. pipe[a].sync = << >>
          BY <3>1, <4>1, <4>2
        <5>4. Append(<< >>, active) = <<active>>
          BY DEF SyncTypes
        <5> QED
          BY <3>1, <4>2, <5>2, <5>3, <5>4
      <4>3. CASE a # next
        <5>1. pipe'[a] = pipe[a] /\ (a < next + 1 <=> a < next)
          BY <2>1, <3>1, <4>3 DEF ContextTypes
        <5> QED
          BY <4>1, <5>1
      <4> QED
        BY <4>2, <4>3
    <3>4. /\ fpc[a] = "pop" /\ queue[a] = << >> /\ frameNumber[a] # Asked /\ buffers[a] = << >>
      BY <2>1, <3>1 DEF Collected, OnlyThis, Awaited
    <3> QED
      BY <2>1, <3>1, <3>2, <3>3, <3>4 DEF Collected, Awaited, Saving, OnlyThis, Seen
  <2> QED
    BY <2>1, <2>2, <2>3 DEF SavingInv
<1>7. ASSUME SyncPush PROVE SavingInv'
  <2>1. /\ apc = "add" /\ apc' = "sleep" /\ next > N /\ Defined
        /\ queue' = [a \in Assemblies |-> Append(queue[a], READ(Frames, reads + 1))]
        /\ UNCHANGED <<measurement, pipe, frameNumber, fpc, msg, i, skip, active, buffers,
                       alone, next, waiting>>
    BY <1>7 DEF SyncPush, Push, contextVars, syncVars
  <2>2. SyncAlone
    BY <2>1 DEF SyncAlone
  <2>3. active.save # 0 /\ active.id = reads + 1
    BY <2>1, <2>2 DEF SavingInv
  <2>4. Frames = Asked /\ Asked \in Nat
    BY <2>2 DEF SyncAlone, Frames, Asked, ContextTypes
  <2>5. READ(Frames, reads + 1) = Command'
    BY <2>1, <2>3, <2>4 DEF Command, Asked
  <2>6. ASSUME NEW a \in Assemblies PROVE Collected(a)'
    <3>1. Collected(a) /\ a < next
      BY <1>1, <2>1, <2>2 DEF SavingInv, SyncTypes
    <3>2. Listening(a) /\ Listening(a)' /\ Asked' = Asked
      BY <2>1, <3>1 DEF Listening, Asked
    <3>3. /\ fpc[a] = "pop" /\ queue[a] = << >> /\ frameNumber[a] # Asked /\ buffers[a] = << >>
      BY <2>1, <3>1 DEF Collected, OnlyThis, Awaited
    <3>4. queue'[a] = <<Command'>>
      <4>1. queue'[a] = Append(queue[a], Command')
        BY <2>1, <2>5
      <4>2. Append(<< >>, Command') = <<Command'>>
        OBVIOUS
      <4> QED
        BY <3>3, <4>1, <4>2
    <3> QED
      BY <2>1, <3>1, <3>2, <3>3, <3>4 DEF Collected, Awaited, Saving, OnlyThis, Seen
  <2> QED
    BY <2>1, <2>3, <2>6 DEF SavingInv
<1>8. ASSUME SyncPoll PROVE SavingInv'
  <2>1. /\ apc = "sleep" /\ apc' = "poll" /\ next' = 1 /\ Defined
        /\ UNCHANGED <<measurement, pipe, frameNumber, queue, fpc, msg, i, skip, active,
                       buffers, alone, waiting>>
    BY <1>8 DEF SyncPoll, contextVars, filterVars
  <2>2. SyncAlone
    BY <2>1 DEF SyncAlone
  <2>3. ASSUME NEW a \in Assemblies PROVE Collected(a)'
    <3>1. Collected(a) /\ Listening(a) /\ Listening(a)' /\ Asked' = Asked /\ Command' = Command
      BY <2>1, <2>2 DEF SavingInv, Listening, Asked, Command
    <3>2. ~(a < next')
      BY <1>1, <2>1
    <3> QED
      BY <2>1, <3>1, <3>2
         DEF Collected, Awaited, Saving, OnlyThis, Seen, Saved, AskedUpTo
  <2> QED
    BY <2>1, <2>2, <2>3 DEF SavingInv
<1>9. ASSUME SyncLook PROVE SavingInv'
  <2>1. /\ apc = "poll" /\ apc' = "poll" /\ next \in Assemblies /\ next' = next + 1 /\ Defined
        /\ ~waiting' => ~waiting /\ frameNumber[next] = Asked
        /\ UNCHANGED <<measurement, pipe, frameNumber, queue, fpc, msg, i, skip, active,
                       buffers, alone>>
    <3>1. ~waiting' => ~waiting /\ frameNumber[next] = Asked
      BY <1>9, Zenon DEF SyncLook, Asked
    <3> QED
      BY <1>9, <3>1 DEF SyncLook, contextVars, filterVars, callVars
  <2>2. SyncAlone
    BY <2>1 DEF SyncAlone
  <2>3. ASSUME NEW a \in Assemblies PROVE Collected(a)'
    <3>1. Collected(a) /\ Listening(a) /\ Listening(a)' /\ Asked' = Asked /\ Command' = Command
      BY <2>1, <2>2 DEF SavingInv, Listening, Asked, Command
    <3>2. ~waiting' /\ a < next + 1 => frameNumber[a] = Asked
      <4>1. a < next + 1 => a < next \/ a = next
        BY <2>1 DEF Assemblies
      <4> QED
        BY <2>1, <3>1, <4>1 DEF Collected, Seen
    <3> QED
      BY <2>1, <3>1, <3>2
         DEF Collected, Awaited, Saving, OnlyThis, Seen, Saved, AskedUpTo
  <2> QED
    BY <2>1, <2>2, <2>3 DEF SavingInv
<1>10. ASSUME SyncAgain PROVE SavingInv'
  <2>1. /\ apc = "poll" /\ next > N /\ next' = 1 /\ Defined
        /\ apc' = IF waiting THEN "sleep" ELSE "remove"
        /\ UNCHANGED <<measurement, pipe, frameNumber, queue, fpc, msg, i, skip, active,
                       buffers, alone>>
    BY <1>10 DEF SyncAgain, contextVars, filterVars
  <2>2. SyncAlone
    BY <2>1 DEF SyncAlone
  <2>3. ASSUME NEW a \in Assemblies PROVE Collected(a)'
    <3>1. a < next /\ a >= next'
      BY <1>1, <2>1 DEF SyncTypes
    <3>2. Collected(a) /\ Listening(a) /\ Listening(a)' /\ Asked' = Asked /\ Command' = Command
      BY <2>1, <2>2, <3>1 DEF SavingInv, Listening, Asked, Command
    <3>3. ~waiting => frameNumber[a] = Asked
      BY <2>1, <3>1, <3>2 DEF Collected, Seen
    <3> QED
      BY <2>1, <3>2, <3>3
         DEF Collected, Awaited, Saving, OnlyThis, Seen, Saved, AskedUpTo
  <2> QED
    BY <2>1, <2>2, <2>3 DEF SavingInv
<1>11. ASSUME SyncRemove PROVE SavingInv'
  <2>1. /\ apc = "remove" /\ apc' = "remove" /\ next \in Assemblies /\ next' = next + 1
        /\ Defined
        /\ pipe' = [pipe EXCEPT ![next] = [pipe[next] EXCEPT !.sync = Front(@)]]
        /\ UNCHANGED <<measurement, frameNumber, queue, fpc, msg, i, skip, active, buffers,
                       alone, waiting>>
    BY <1>11 DEF SyncRemove, filterVars, callVars
  <2>2. SyncAlone
    BY <2>1 DEF SyncAlone
  <2>3. ASSUME NEW a \in Assemblies PROVE Collected(a)'
    <3>1. /\ Collected(a) /\ a \in Nat /\ next \in Nat /\ Asked' = Asked /\ pipe[a] \in Pipes
          /\ Command' = Command
      BY <2>1, <2>2 DEF SavingInv, Assemblies, Asked, Command, ContextTypes
    <3>2. Listening(a) = (a >= next) /\ Listening(a)' = (a >= next + 1)
      BY <2>1 DEF Listening
    <3>3. pipe'[a].sync = IF a >= next + 1 THEN <<active>> ELSE << >>
      <4>1. pipe[a].sync = IF a >= next THEN <<active>> ELSE << >>
        BY <3>1, <3>2 DEF Collected
      <4>2. CASE a = next
        <5>1. pipe'[a] = [pipe[a] EXCEPT !.sync = Front(@)]
          BY <2>1, <4>2 DEF ContextTypes
        <5>2. pipe'[a].sync = Front(pipe[a].sync)
          BY <3>1, <5>1 DEF Pipes
        <5>3. pipe[a].sync = <<active>>
          BY <3>1, <4>1, <4>2
        <5>4. Front(<<active>>) = << >>
          BY DEF Front
        <5> QED
          BY <3>1, <4>2, <5>2, <5>3, <5>4
      <4>3. CASE a # next
        <5>1. pipe'[a] = pipe[a] /\ (a >= next + 1 <=> a >= next)
          BY <2>1, <3>1, <4>3 DEF ContextTypes
        <5> QED
          BY <4>1, <5>1
      <4> QED
        BY <4>2, <4>3
    <3>4. Listening(a)' => Listening(a)
      <4>1. a >= next + 1 => a >= next
        BY <3>1
      <4> QED
        BY <3>2, <4>1, Zenon
    <3>5. pipe'[a].sync = IF Listening(a)' THEN <<active'>> ELSE << >>
      BY <2>1, <3>2, <3>3
    <3> QED
      BY <2>1, <3>1, <3>4, <3>5
         DEF Collected, Awaited, Saving, OnlyThis, Seen, Saved, AskedUpTo
  <2> QED
    BY <2>1, <2>2, <2>3 DEF SavingInv
<1>12. ASSUME UNCHANGED vars PROVE SavingInv'
  <2>1. SyncAlone
    BY <1>12 DEF SyncAlone, Defined, vars, contextVars, syncVars, callVars
  <2>2. UNCHANGED <<apc, next, waiting, active, measurement, reads, pipe, fpc, queue, msg, i,
                    skip, frameNumber, buffers>>
    BY <1>12 DEF vars, contextVars, filterVars, syncVars, callVars
  <2>3. \A a \in Assemblies : Collected(a)'
    BY <2>1, <2>2, CollectedSame DEF SavingInv
  <2> QED
    BY <2>1, <2>2, <2>3 DEF SavingInv
<1> QED
  BY <1>2, <1>3, <1>4, <1>5, <1>6, <1>7, <1>8, <1>9, <1>10, <1>11, <1>12 DEF Next, GoOn

\* A syncRead that finds the assemblies idle and skips no frames returns what it was to
\* save of its own reading, in order and each once, but for the last frame at most, with
\* any number of assemblies and whatever went before (Device::syncRead).
THEOREM AllButTheLast == Spec => []SavesAllButTheLast
<1>1. Init => SavingInv
  BY DEF Init, SavingInv, SyncAlone
<1>2. TypeInv /\ TypeInv' /\ SavingInv /\ [Next]_vars => SavingInv'
  BY SavingStep
<1>3. SavingInv => SavesAllButTheLast
  BY DEF SavingInv, SyncAlone, SavesAllButTheLast, Returns, Collected, Seen, Saved, Asked
<1> QED
  BY <1>1, <1>2, <1>3, SyncReadTypeCorrect, PTL DEF Spec

=============================================================================
