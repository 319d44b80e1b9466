--------------------------- MODULE BroadcastProofs ---------------------------
(***************************************************************************)
(* Proofs about module Broadcast, for every number of assemblies and       *)
(* readings and every number of lost start packets.                        *)
(***************************************************************************)
EXTENDS Broadcast, TLAPS

\* The messages that a will work on after the one that it works on.
Ahead(a) ==
  {queue[a][k] : k \in DOMAIN queue[a]}
  \cup {todo[k].msg : k \in {j \in DOMAIN todo : todo[j].asm = a}}

Works(a) == fpc[a] # "pop"

Work(a) == Ahead(a) \cup IF Works(a) THEN {msg[a]} ELSE {}

\* Every message is for a reading that was called for, and the first assembly and
\* no other is told to start it.
Called ==
  \A a \in Assemblies : \A m \in Work(a) :
    m.reading \in DOMAIN outcome /\ (m.cmd = "SYNC_RUN" <=> a = 1)

TypeInv == TypeOK /\ Called

\* An assembly works on the readings in the order of the calls.
Ordered ==
  /\ \A a \in Assemblies : \A j, k \in DOMAIN queue[a] :
       j < k => queue[a][j].reading < queue[a][k].reading
  /\ \A k \in DOMAIN todo :
       /\ \A j \in DOMAIN queue[todo[k].asm] :
            queue[todo[k].asm][j].reading < todo[k].msg.reading
       /\ \A j \in DOMAIN todo : todo[j].asm = todo[k].asm => j = k
  /\ \A a \in Assemblies : \A m \in Ahead(a) : Works(a) => msg[a].reading < m.reading

\* Nothing has happened so far that would harm assembly a's readings.
Unharmed(a) == quiet /\ (a = 1 \/ together)

\* What is to be worked on has not ended, and has not been started.
Pending ==
  \A a \in Assemblies :
    /\ \A m \in Work(a) : m.payload \in Counts /\ outcome[m.reading][a] = "pending"
    /\ Unharmed(a) => \A m \in Ahead(a) : m.reading \notin begun

\* No frame and no start of a reading is on its way to a.
Clear(a) == frames[a] = << >> /\ starts[a] = << >> /\ ~Sending(a)

\* The frames that a's filters still have to be given are on their way to a: its
\* start, or what its device has sent and will send.
OnTheWay(a) ==
  \/ /\ frames[a] = << >> /\ ~Sending(a) /\ i[a] = 0
     /\ starts[a] = << msg[a].reading >>
     /\ lines[a] = msg[a].payload
  \/ /\ starts[a] = << >>
     /\ device[a] = [reading |-> msg[a].reading, sent |-> i[a] + Len(frames[a]),
                     total |-> msg[a].payload]
     /\ device[a].sent <= device[a].total
     /\ \A k \in DOMAIN frames[a] : frames[a][k] = <<msg[a].reading, i[a] + k>>

\* How far an unharmed reading has come.
Progress(a) ==
  /\ fpc[a] = "pop" => Clear(a)
  /\ fpc[a] \in {"prepare", "start"} => Clear(a) /\ msg[a].reading \notin begun
  /\ fpc[a] = "start" => i[a] = 0 /\ lines[a] = msg[a].payload
  /\ fpc[a] \in {"top", "frame"} =>
       IF msg[a].reading \in begun THEN OnTheWay(a)
       ELSE a # 1 /\ Clear(a) /\ i[a] = 0 /\ lines[a] = msg[a].payload
  /\ fpc[a] = "frame" => i[a] < msg[a].payload

SynchronousInv ==
  /\ Ordered
  /\ Pending
  /\ \A a \in Assemblies : Unharmed(a) => Progress(a) /\ Exact(a)

-----------------------------------------------------------------------------
(* What lies ahead of an assembly. *)

\* An element of a sequence behind its head is the next one of its tail.
LEMMA TailType ==
  ASSUME NEW S, NEW s \in Seq(S), s # << >>
  PROVE  /\ Head(s) = s[1] /\ 1 \in DOMAIN s /\ Head(s) \in S
         /\ Tail(s) \in Seq(S)
         /\ \A k \in DOMAIN Tail(s) : k + 1 \in DOMAIN s /\ Tail(s)[k] = s[k + 1]
OBVIOUS

\* What Append adds, and what it leaves.
LEMMA AppendType ==
  ASSUME NEW S, NEW s \in Seq(S), NEW e \in S
  PROVE  /\ Append(s, e) \in Seq(S)
         /\ DOMAIN Append(s, e) = DOMAIN s \cup {Len(s) + 1}
         /\ \A k \in DOMAIN s : Append(s, e)[k] = s[k]
         /\ Append(s, e)[Len(s) + 1] = e
OBVIOUS

\* To concatenate one element is to append it.
LEMMA ConcatenateOne ==
  ASSUME NEW S, NEW s \in Seq(S), NEW e \in S
  PROVE  s \o << e >> = Append(s, e)
OBVIOUS

Pushes == [asm : Assemblies, msg : Messages]

\* The message by which assembly a is told of the next reading.
NewMessage(a, n) ==
  Message(IF a = 1 THEN "SYNC_RUN" ELSE "SYNC_PREPARE", n, Len(outcome) + 1)

\* Device::readBroadcast tells every assembly once, the first one last.
LEMMA NewPushes ==
  ASSUME TypeOK, NEW n \in Counts, ReadBroadcast(n)
  PROVE  /\ outcome' = Append(outcome, [a \in Assemblies |-> "pending"])
         /\ todo' \in Seq(Pushes) /\ Len(todo') = N
         /\ \A k \in 1 .. N :
              todo'[k].asm = (IF k = N THEN 1 ELSE k + 1)
              /\ todo'[k].msg = NewMessage(todo'[k].asm, n)
<1> DEFINE prepares == [k \in 1 .. N - 1 |->
                          Push(k + 1, Message("SYNC_PREPARE", n, Len(outcome')))]
           run == Push(1, Message("SYNC_RUN", n, Len(outcome')))
<1>1. N \in Nat \ {0} /\ n \in Nat
  BY BroadcastAssumption
<1>2. outcome' = Append(outcome, [a \in Assemblies |-> "pending"])
      /\ Len(outcome') = Len(outcome) + 1 /\ Len(outcome) \in Nat
  BY DEF ReadBroadcast, TypeOK
<1>3. \A k \in 1 .. N - 1 : Push(k + 1, Message("SYNC_PREPARE", n, Len(outcome'))) \in Pushes
  BY <1>1, <1>2 DEF Push, Message, Pushes, Messages, Assemblies
<1>4. prepares \in Seq(Pushes) /\ Len(prepares) = N - 1
  BY <1>1, <1>3
<1>5. run \in Pushes
  BY <1>1, <1>2 DEF Push, Message, Pushes, Messages, Assemblies
<1>6. todo' = prepares \o << run >>
  BY DEF ReadBroadcast
<1> HIDE DEF prepares, run
<1>7. todo' = Append(prepares, run)
  BY <1>4, <1>5, <1>6, ConcatenateOne
<1>8. todo' \in Seq(Pushes) /\ Len(todo') = N
  BY <1>1, <1>4, <1>5, <1>7, AppendType
<1>9. ASSUME NEW k \in 1 .. N
      PROVE  todo'[k].asm = (IF k = N THEN 1 ELSE k + 1)
             /\ todo'[k].msg = NewMessage(todo'[k].asm, n)
  <2>1. CASE k = N
    <3>1. todo'[k] = run
      BY <1>1, <1>4, <1>5, <1>7, <2>1
    <3> QED
      BY <1>2, <2>1, <3>1 DEF run, Push, NewMessage
  <2>2. CASE k # N
    <3>1. k \in 1 .. N - 1 /\ k + 1 # 1
      BY <1>1, <2>2
    <3>2. todo'[k] = prepares[k]
      BY <1>1, <1>4, <1>5, <1>7, <3>1
    <3> QED
      BY <1>2, <2>2, <3>1, <3>2 DEF prepares, Push, NewMessage
  <2> QED
    BY <2>1, <2>2
<1> QED
  BY <1>2, <1>8, <1>9

\* A call adds the message of the new reading to what lies ahead.
LEMMA AheadRead ==
  ASSUME TypeOK, NEW n \in Counts, ReadBroadcast(n), NEW a \in Assemblies
  PROVE  Ahead(a)' \subseteq Ahead(a) \cup {NewMessage(a, n)}
<1>1. queue' = queue
  BY DEF ReadBroadcast
<1>2. DOMAIN todo' = 1 .. N
  BY NewPushes
<1>3. \A k \in DOMAIN todo' : todo'[k].asm = a => todo'[k].msg = NewMessage(a, n)
  BY <1>2, NewPushes
<1> QED
  BY <1>1, <1>3 DEF Ahead

\* A push moves the message from the call to the queue.
LEMMA AheadPush ==
  ASSUME TypeOK, PushNext, NEW a \in Assemblies
  PROVE  Ahead(a)' \subseteq Ahead(a)
<1> DEFINE h == Head(todo)
<1>1. todo \in Seq(Pushes) /\ todo # << >> /\ todo' = Tail(todo)
  BY DEF PushNext, TypeOK, Pushes
<1>2. h = todo[1] /\ 1 \in DOMAIN todo /\ h \in Pushes
      /\ \A k \in DOMAIN todo' : k + 1 \in DOMAIN todo /\ todo'[k] = todo[k + 1]
  BY <1>1, TailType
<1>3. h.asm \in Assemblies /\ h.msg \in Messages
  BY <1>2 DEF Pushes
<1> HIDE DEF h
<1>4. queue' = [queue EXCEPT ![h.asm] = Append(queue[h.asm], h.msg)]
      /\ queue \in [Assemblies -> Seq(Messages)]
  BY DEF h, PushNext, TypeOK
<1>5. \A k \in DOMAIN queue'[a] : \/ k \in DOMAIN queue[a] /\ queue'[a][k] = queue[a][k]
                                  \/ h.asm = a /\ queue'[a][k] = h.msg
  <2>1. CASE a = h.asm
    <3>1. queue'[a] = Append(queue[a], h.msg) /\ queue[a] \in Seq(Messages)
      BY <1>3, <1>4, <2>1
    <3> QED
      BY <1>3, <2>1, <3>1, AppendType
  <2>2. CASE a # h.asm
    BY <1>3, <1>4, <2>2
  <2> QED
    BY <2>1, <2>2
<1>6. ASSUME NEW k \in DOMAIN queue'[a]
      PROVE  queue'[a][k] \in Ahead(a)
  BY <1>2, <1>5 DEF Ahead
<1>7. ASSUME NEW k \in DOMAIN todo', todo'[k].asm = a
      PROVE  todo'[k].msg \in Ahead(a)
  BY <1>2, <1>7 DEF Ahead
<1> QED
  BY <1>6, <1>7 DEF Ahead

\* The thread takes the message that lies ahead.
LEMMA AheadPop ==
  ASSUME TypeOK, NEW b \in Assemblies, FilterPop(b), NEW a \in Assemblies
  PROVE  Ahead(a)' \subseteq Ahead(a) /\ msg'[b] \in Ahead(b) /\ Works(b)'
<1>1. queue[b] \in Seq(Messages) /\ queue[b] # << >>
  BY DEF FilterPop, TypeOK
<1>2. queue' = [queue EXCEPT ![b] = Tail(queue[b])] /\ queue \in [Assemblies -> Seq(Messages)]
      /\ todo' = todo
  BY DEF FilterPop, TypeOK
<1>3. \A k \in DOMAIN queue'[a] : \E j \in DOMAIN queue[a] : queue'[a][k] = queue[a][j]
  BY <1>1, <1>2, TailType
<1>4. msg'[b] = queue[b][1] /\ 1 \in DOMAIN queue[b]
  BY <1>1, TailType DEF FilterPop, TypeOK
<1>5. Ahead(a)' \subseteq Ahead(a)
  BY <1>2, <1>3 DEF Ahead
<1>6. msg'[b] \in Ahead(b)
  BY <1>4 DEF Ahead
<1>7. Works(b)'
  BY DEF FilterPop, Goto, Works, TypeOK
<1> QED
  BY <1>5, <1>6, <1>7

\* The other steps leave it alone.
LEMMA AheadSame ==
  ASSUME UNCHANGED <<todo, queue>>, NEW a \in Assemblies
  PROVE  Ahead(a)' = Ahead(a)
BY DEF Ahead

\* The messages that lie ahead are messages.
LEMMA AheadType ==
  ASSUME TypeOK, NEW a \in Assemblies
  PROVE  Ahead(a) \subseteq Messages
<1>1. queue[a] \in Seq(Messages) /\ todo \in Seq(Pushes)
  BY DEF TypeOK, Pushes
<1>2. \A k \in DOMAIN queue[a] : queue[a][k] \in Messages
  BY <1>1
<1>3. \A k \in DOMAIN todo : todo[k] \in Pushes
  BY <1>1
<1>4. \A k \in DOMAIN todo : todo[k].msg \in Messages
  BY <1>3 DEF Pushes
<1> QED
  BY <1>2, <1>4 DEF Ahead

-----------------------------------------------------------------------------
(* Types. *)

\* A reading ends: the thread's variables and the outcome keep their types.
LEMMA EndType ==
  ASSUME TypeOK, NEW a \in Assemblies, NEW how \in Outcomes, End(a, how)
  PROVE  /\ fpc' \in [Assemblies -> {"pop", "prepare", "start", "top", "frame"}]
         /\ \A b \in Assemblies : fpc'[b] = "start" => b = 1
         /\ msg' \in [Assemblies -> Messages] /\ i' \in [Assemblies -> Nat]
         /\ outcome' \in Seq([Assemblies -> Outcomes]) /\ DOMAIN outcome' = DOMAIN outcome
<1>1. NoMessage \in Messages
  BY DEF NoMessage, Message, Messages
<1>2. outcome \in Seq([Assemblies -> Outcomes]) /\ msg[a].reading \in Nat
  BY DEF TypeOK, Messages
<1>3. outcome' = [outcome EXCEPT ![msg[a].reading] = [@ EXCEPT ![a] = how]]
  BY DEF End
<1>4. /\ outcome \in [1 .. Len(outcome) -> [Assemblies -> Outcomes]]
      /\ Len(outcome) \in Nat
  BY <1>2
<1>5. outcome' \in [1 .. Len(outcome) -> [Assemblies -> Outcomes]]
  BY <1>3, <1>4
<1>6. outcome' \in Seq([Assemblies -> Outcomes]) /\ DOMAIN outcome' = DOMAIN outcome
  BY <1>4, <1>5
<1> QED
  BY <1>1, <1>6 DEF End, Goto, TypeOK

\* The variables have their types (TypeOK), in every behaviour of Spec: only the
\* first assembly starts readings, and a reading is worked on after it was called for.
THEOREM BroadcastTypeCorrect == Spec => [](TypeOK /\ Called)
<1>1. Init => TypeInv
  <2> SUFFICES ASSUME Init PROVE TypeInv
    OBVIOUS
  <2>1. TypeOK
    BY DEF Init, TypeOK, NoMessage, Message, Messages, Idle, Assemblies
  <2>2. \A a \in Assemblies : Work(a) = {}
    BY DEF Init, Work, Ahead, Works
  <2> QED
    BY <2>1, <2>2 DEF TypeInv, Called
<1>2. TypeInv /\ [Next]_vars => TypeInv'
  <2> SUFFICES ASSUME TypeInv, [Next]_vars PROVE TypeOK' /\ Called'
    BY DEF TypeInv
  <2> USE DEF TypeInv
  <2> USE BroadcastAssumption
  <2>1. ASSUME NEW n \in Counts, ReadBroadcast(n) PROVE TypeOK' /\ Called'
    <3>1. [a \in Assemblies |-> "pending"] \in [Assemblies -> Outcomes]
      BY DEF Outcomes
    <3>2. outcome \in Seq([Assemblies -> Outcomes])
      BY DEF TypeOK
    <3>3. outcome' = Append(outcome, [a \in Assemblies |-> "pending"])
      BY <2>1 DEF ReadBroadcast
    <3>4. outcome' \in Seq([Assemblies -> Outcomes])
          /\ DOMAIN outcome' = DOMAIN outcome \cup {Len(outcome) + 1}
      BY <3>1, <3>2, <3>3, AppendType
    <3>5. TypeOK'
      BY <2>1, <3>4, NewPushes
         DEF ReadBroadcast, TypeOK, Pushes, filterVars, deviceVars
    <3>6. ASSUME NEW a \in Assemblies, NEW m \in Work(a)'
          PROVE  m \in Work(a) \/ m = NewMessage(a, n)
      BY <2>1, <3>6, AheadRead DEF Work, Works, ReadBroadcast, filterVars
    <3>7. \A a \in Assemblies :
            /\ NewMessage(a, n).reading = Len(outcome) + 1
            /\ NewMessage(a, n).cmd = "SYNC_RUN" <=> a = 1
      BY DEF NewMessage, Message
    <3> QED
      BY <3>4, <3>5, <3>6, <3>7 DEF Called
  <2>2. CASE PushNext
    <3>1. todo \in Seq(Pushes) /\ todo # << >> /\ todo' = Tail(todo)
      BY <2>2 DEF PushNext, TypeOK, Pushes
    <3>2. Head(todo) \in Pushes /\ todo' \in Seq(Pushes)
      BY <3>1, TailType
    <3>3. Head(todo).asm \in Assemblies /\ Head(todo).msg \in Messages
      BY <3>2 DEF Pushes
    <3>4. queue \in [Assemblies -> Seq(Messages)]
      BY DEF TypeOK
    <3>5. Append(queue[Head(todo).asm], Head(todo).msg) \in Seq(Messages)
      BY <3>3, <3>4
    <3>6. queue' \in [Assemblies -> Seq(Messages)]
      BY <2>2, <3>4, <3>5 DEF PushNext
    <3>7. TypeOK'
      BY <2>2, <3>2, <3>6
         DEF PushNext, TypeOK, Pushes, filterVars, deviceVars, historyVars
    <3> QED
      BY <2>2, <3>7, AheadPush DEF Called, Work, Works, PushNext, filterVars, historyVars
  <2>3. ASSUME NEW a \in Assemblies, FilterPop(a) PROVE TypeOK' /\ Called'
    <3>1. queue[a] \in Seq(Messages) /\ queue[a] # << >>
      BY <2>3 DEF FilterPop, TypeOK
    <3>2. Head(queue[a]) \in Messages /\ Tail(queue[a]) \in Seq(Messages)
      BY <3>1
    <3>3. TypeOK'
      BY <2>3, <3>2 DEF FilterPop, Goto, TypeOK, deviceVars, historyVars
    <3>4. \A b \in Assemblies : Work(b)' \subseteq Work(b)
      BY <2>3, AheadPop DEF Work, Works, FilterPop, Goto, TypeOK
    <3> QED
      BY <2>3, <3>3, <3>4 DEF Called, FilterPop, historyVars
  <2>4. ASSUME TypeOK', UNCHANGED <<todo, queue>>, DOMAIN outcome' = DOMAIN outcome,
               \A a \in Assemblies : Works(a)' => Works(a) /\ msg'[a] = msg[a]
        PROVE  Called'
    <3>1. \A a \in Assemblies : Work(a)' \subseteq Work(a)
      BY <2>4, AheadSame DEF Work
    <3> QED
      BY <2>4, <3>1 DEF Called
  <2>5. ASSUME NEW a \in Assemblies, FilterPrepare(a) PROVE TypeOK' /\ Called'
    <3>1. msg[a] \in Messages /\ Works(a) /\ msg[a] \in Work(a)
      BY <2>5 DEF TypeOK, FilterPrepare, Works, Work
    <3>2. msg[a].cmd = "SYNC_RUN" => a = 1
      BY <3>1 DEF Called
    <3>3. TypeOK'
      BY <2>5, <3>1, <3>2 DEF FilterPrepare, Goto, TypeOK, Messages, historyVars
    <3> QED
      BY <2>4, <2>5, <3>3 DEF FilterPrepare, Works, Goto, TypeOK, historyVars
  <2>6. ASSUME NEW a \in Assemblies, NEW how \in Outcomes, End(a, how),
               UNCHANGED <<todo, queue, frames, deviceVars, mixed, begun, together, quiet>>
        PROVE  TypeOK' /\ Called'
    <3>1. TypeOK'
      BY <2>6, EndType DEF TypeOK, deviceVars
    <3> QED
      BY <2>4, <2>6, <3>1, EndType DEF End, Works, Goto, TypeOK
  <2>7. {"done", "failed"} \subseteq Outcomes
    BY DEF Outcomes
  <2>8. ASSUME NEW a \in Assemblies,
               FilterRefused(a) \/ FilterDone(a) \/ FilterTimeout(a)
        PROVE  TypeOK' /\ Called'
    BY <2>6, <2>7, <2>8 DEF FilterRefused, FilterDone, FilterTimeout
  <2>9. ASSUME NEW a \in Assemblies, FilterStart(a) PROVE TypeOK' /\ Called'
    <3>1. msg[a] \in Messages /\ Works(a) /\ msg[a] \in Work(a)
      BY <2>9 DEF TypeOK, FilterStart, Works, Work
    <3>2. msg[a].reading \in DOMAIN outcome /\ msg[a].reading \in Nat
      BY <3>1 DEF Called, Messages
    <3>3. starts' \in [Assemblies -> Seq(Nat)]
      BY <2>9, <3>2 DEF FilterStart, TypeOK
    <3>4. together' \in BOOLEAN
      BY <2>9 DEF FilterStart, TypeOK
    <3>5. TypeOK'
      BY <2>9, <3>2, <3>3, <3>4 DEF FilterStart, Goto, TypeOK
    <3> QED
      BY <2>4, <2>9, <3>5 DEF FilterStart, Works, Goto, TypeOK
  <2>10. ASSUME NEW a \in Assemblies, FilterNext(a) PROVE TypeOK' /\ Called'
    <3>1. TypeOK'
      BY <2>10 DEF FilterNext, Goto, TypeOK, deviceVars, historyVars
    <3> QED
      BY <2>4, <2>10, <3>1 DEF FilterNext, Works, Goto, TypeOK, historyVars
  <2>11. ASSUME NEW a \in Assemblies, FilterFrame(a) PROVE TypeOK' /\ Called'
    <3>1. frames' \in [Assemblies -> Seq(Nat \X Nat)]
      BY <2>11 DEF FilterFrame, TypeOK
    <3>2. i[a] + 1 \in Nat
      BY DEF TypeOK
    <3>3. i' \in [Assemblies -> Nat] /\ mixed' \subseteq Assemblies
      BY <2>11, <3>2 DEF FilterFrame, TypeOK
    <3>4. TypeOK'
      BY <2>11, <3>1, <3>3 DEF FilterFrame, Goto, TypeOK, deviceVars
    <3> QED
      BY <2>4, <2>11, <3>4 DEF FilterFrame, Works, Goto, TypeOK
  <2>12. ASSUME NEW a \in Assemblies, DeviceStart(a) PROVE TypeOK' /\ Called'
    <3>1. starts[a] \in Seq(Nat) /\ starts[a] # << >>
      BY <2>12 DEF DeviceStart, TypeOK
    <3>2. Head(starts[a]) \in Nat /\ Tail(starts[a]) \in Seq(Nat)
      BY <3>1
    <3>3. TypeOK'
      BY <2>12, <3>2 DEF DeviceStart, TypeOK, filterVars, historyVars
    <3> QED
      BY <2>4, <2>12, <3>3 DEF DeviceStart, Works, filterVars, historyVars
  <2>13. ASSUME NEW a \in Assemblies, DeviceSend(a) PROVE TypeOK' /\ Called'
    <3>1. device[a].sent + 1 \in Nat /\ device[a].reading \in Nat
      BY DEF TypeOK
    <3>2. <<device[a].reading, device[a].sent + 1>> \in Nat \X Nat
      BY <3>1
    <3>3. frames' \in [Assemblies -> Seq(Nat \X Nat)]
      BY <2>13, <3>2 DEF DeviceSend, TypeOK
    <3>4. device \in [Assemblies -> [reading : Nat, sent : Nat, total : Nat]]
          /\ device' = [device EXCEPT ![a] = [@ EXCEPT !.sent = device[a].sent + 1]]
      BY <2>13 DEF DeviceSend, TypeOK
    <3>5. [device[a] EXCEPT !.sent = device[a].sent + 1]
             \in [reading : Nat, sent : Nat, total : Nat]
      BY <3>1, <3>4
    <3>6. device' \in [Assemblies -> [reading : Nat, sent : Nat, total : Nat]]
      BY <3>4, <3>5
    <3>7. TypeOK'
      BY <2>13, <3>3, <3>6 DEF DeviceSend, TypeOK, filterVars, historyVars
    <3> QED
      BY <2>4, <2>13, <3>7 DEF DeviceSend, Works, filterVars, historyVars
  <2>14. ASSUME NEW a \in Assemblies, LoseStart(a) PROVE TypeOK' /\ Called'
    <3>1. starts[a] \in Seq(Nat) /\ starts[a] # << >>
      BY <2>14 DEF LoseStart, TypeOK
    <3>2. Tail(starts[a]) \in Seq(Nat)
      BY <3>1
    <3>3. lost' \in Nat
      BY <2>14 DEF LoseStart, TypeOK
    <3>4. TypeOK'
      BY <2>14, <3>2, <3>3 DEF LoseStart, TypeOK, filterVars
    <3> QED
      BY <2>4, <2>14, <3>4 DEF LoseStart, Works, filterVars
  <2>15. CASE UNCHANGED vars
    <3>1. TypeOK'
      BY <2>15 DEF vars, TypeOK, filterVars, deviceVars, historyVars
    <3> QED
      BY <2>4, <2>15, <3>1 DEF vars, Works, filterVars, historyVars
  <2>16. QED
    BY <2>1, <2>2, <2>3, <2>5, <2>8, <2>9, <2>10, <2>11, <2>12, <2>13, <2>14, <2>15
       DEF Next, Call, FilterThread, Device
<1>3. QED
  BY <1>1, <1>2, PTL DEF Spec, TypeInv

-----------------------------------------------------------------------------
(* The order of the readings. *)

\* A step keeps the order when messages stay where they are.
LEMMA OrderedStays ==
  ASSUME Ordered, UNCHANGED <<todo, queue>>,
         \A a \in Assemblies : Works(a)' => Works(a) /\ msg'[a] = msg[a]
  PROVE  Ordered'
<1>1. \A a \in Assemblies : Ahead(a)' = Ahead(a)
  BY AheadSame
<1> QED
  BY <1>1 DEF Ordered

\* A call's reading is later than all that are under way.
LEMMA OrderedRead ==
  ASSUME TypeInv, Ordered, NEW n \in Counts, ReadBroadcast(n)
  PROVE  Ordered'
<1>1. UNCHANGED <<queue, fpc, msg>>
  BY DEF ReadBroadcast, filterVars
<1>2. todo' \in Seq(Pushes) /\ DOMAIN todo' = 1 .. N /\ N \in Nat \ {0}
  BY NewPushes, BroadcastAssumption DEF TypeInv
<1>3. outcome \in Seq([Assemblies -> Outcomes]) /\ Len(outcome) \in Nat
      /\ DOMAIN outcome = 1 .. Len(outcome)
  BY DEF TypeInv, TypeOK
<1>4. ASSUME NEW a \in Assemblies, NEW m \in Work(a)
      PROVE  m.reading < Len(outcome) + 1
  BY <1>3 DEF TypeInv, Called
<1>5. \A a \in Assemblies : NewMessage(a, n).reading = Len(outcome) + 1
  BY DEF NewMessage, Message
<1>6. ASSUME NEW k \in DOMAIN todo'
      PROVE  /\ \A j \in DOMAIN queue'[todo'[k].asm] :
                  queue'[todo'[k].asm][j].reading < todo'[k].msg.reading
             /\ \A j \in DOMAIN todo' : todo'[j].asm = todo'[k].asm => j = k
  <2>1. todo'[k].asm \in Assemblies /\ todo'[k].msg.reading = Len(outcome) + 1
    <3>1. todo'[k] \in Pushes
      BY <1>2
    <3>2. todo'[k].asm \in Assemblies
      BY <3>1 DEF Pushes
    <3>3. todo'[k].msg = NewMessage(todo'[k].asm, n)
      BY <1>2, NewPushes DEF TypeInv
    <3> QED
      BY <1>5, <3>2, <3>3
  <2>2. \A j \in DOMAIN queue[todo'[k].asm] : queue[todo'[k].asm][j] \in Work(todo'[k].asm)
    BY DEF Work, Ahead
  <2>3. ASSUME NEW j \in DOMAIN todo', todo'[j].asm = todo'[k].asm
        PROVE  j = k
    <3>1. /\ todo'[j].asm = (IF j = N THEN 1 ELSE j + 1)
          /\ todo'[k].asm = (IF k = N THEN 1 ELSE k + 1)
      BY <1>2, NewPushes DEF TypeInv
    <3>2. j \in 1 .. N /\ k \in 1 .. N /\ N \in Nat
      BY <1>2
    <3>3. (IF j = N THEN 1 ELSE j + 1) = (IF k = N THEN 1 ELSE k + 1)
      BY <2>3, <3>1
    <3> QED
      BY <3>2, <3>3
  <2> QED
    BY <1>1, <1>4, <2>1, <2>2, <2>3
<1>7. ASSUME NEW a \in Assemblies, NEW m \in Ahead(a)', Works(a)'
      PROVE  msg'[a].reading < m.reading
  <2>1. m \in Ahead(a) \/ m = NewMessage(a, n)
    BY <1>7, AheadRead DEF TypeInv
  <2>2. Works(a) /\ msg[a] \in Work(a) /\ msg'[a] = msg[a]
    BY <1>1, <1>7 DEF Works, Work
  <2> QED
    BY <1>4, <1>5, <2>1, <2>2 DEF Ordered
<1> QED
  BY <1>1, <1>6, <1>7 DEF Ordered

\* A push puts the message last.
LEMMA OrderedPush ==
  ASSUME TypeInv, Ordered, PushNext
  PROVE  Ordered'
<1> DEFINE h == Head(todo)
<1>1. todo \in Seq(Pushes) /\ todo # << >> /\ todo' = Tail(todo)
  BY DEF PushNext, TypeInv, TypeOK, Pushes
<1>2. h = todo[1] /\ 1 \in DOMAIN todo /\ h \in Pushes
  BY <1>1, TailType
<1>3. \A k \in DOMAIN todo' : k \in Nat \ {0} /\ k + 1 \in DOMAIN todo /\ todo'[k] = todo[k + 1]
  BY <1>1
<1>4. h.asm \in Assemblies /\ h.msg \in Messages
  BY <1>2 DEF Pushes
<1>5. queue' = [queue EXCEPT ![h.asm] = Append(queue[h.asm], h.msg)]
      /\ queue \in [Assemblies -> Seq(Messages)] /\ UNCHANGED <<fpc, msg>>
  BY DEF h, PushNext, TypeInv, TypeOK, filterVars
<1> HIDE DEF h
<1>6. ASSUME NEW a \in Assemblies, NEW j \in DOMAIN queue'[a], NEW k \in DOMAIN queue'[a],
             j < k
      PROVE  queue'[a][j].reading < queue'[a][k].reading
  <2>1. CASE a # h.asm
    BY <1>4, <1>5, <1>6, <2>1 DEF Ordered
  <2>2. CASE a = h.asm
    <3>1. queue'[a] = Append(queue[a], h.msg) /\ queue[a] \in Seq(Messages)
      BY <1>5, <2>2
    <3>2. /\ DOMAIN queue'[a] = DOMAIN queue[a] \cup {Len(queue[a]) + 1}
          /\ \A l \in DOMAIN queue[a] : queue'[a][l] = queue[a][l]
          /\ queue'[a][Len(queue[a]) + 1] = h.msg
          /\ DOMAIN queue[a] = 1 .. Len(queue[a]) /\ Len(queue[a]) \in Nat
      BY <1>4, <3>1, AppendType
    <3>3. j \in DOMAIN queue[a]
      BY <1>6, <3>2
    <3>4. \A l \in DOMAIN queue[a] : queue[a][l].reading < h.msg.reading
      BY <1>2, <2>2 DEF Ordered
    <3> QED
      BY <1>6, <3>2, <3>3, <3>4 DEF Ordered
  <2> QED
    BY <2>1, <2>2
<1>7. ASSUME NEW k \in DOMAIN todo'
      PROVE  /\ \A j \in DOMAIN queue'[todo'[k].asm] :
                  queue'[todo'[k].asm][j].reading < todo'[k].msg.reading
             /\ \A j \in DOMAIN todo' : todo'[j].asm = todo'[k].asm => j = k
  <2>1. k + 1 \in DOMAIN todo /\ todo'[k] = todo[k + 1] /\ k + 1 # 1
    BY <1>3
  <2>2. todo'[k].asm # h.asm
    BY <1>2, <2>1 DEF Ordered
  <2>3. queue'[todo'[k].asm] = queue[todo'[k].asm]
    BY <1>5, <2>2
  <2>4. ASSUME NEW j \in DOMAIN todo', todo'[j].asm = todo'[k].asm
        PROVE  j = k
    <3>1. j + 1 \in DOMAIN todo /\ todo'[j] = todo[j + 1]
      BY <1>3
    <3>2. j + 1 = k + 1
      BY <2>1, <2>4, <3>1 DEF Ordered
    <3> QED
      BY <1>3, <3>2
  <2> QED
    BY <2>1, <2>3, <2>4 DEF Ordered
<1>8. ASSUME NEW a \in Assemblies, NEW m \in Ahead(a)', Works(a)'
      PROVE  msg'[a].reading < m.reading
  BY <1>5, <1>8, AheadPush DEF Ordered, Works, TypeInv
<1> QED
  BY <1>6, <1>7, <1>8 DEF Ordered

\* The message that is taken is the oldest.
LEMMA OrderedPop ==
  ASSUME TypeInv, Ordered, NEW b \in Assemblies, FilterPop(b)
  PROVE  Ordered'
<1>1. queue[b] \in Seq(Messages) /\ queue[b] # << >>
  BY DEF FilterPop, TypeInv, TypeOK
<1>2. queue' = [queue EXCEPT ![b] = Tail(queue[b])] /\ queue \in [Assemblies -> Seq(Messages)]
      /\ todo' = todo
  BY DEF FilterPop, TypeInv, TypeOK
<1>3. \A k \in DOMAIN Tail(queue[b]) :
         k \in Nat \ {0} /\ k + 1 \in DOMAIN queue[b] /\ Tail(queue[b])[k] = queue[b][k + 1]
  BY <1>1
<1>4. msg'[b] = queue[b][1] /\ 1 \in DOMAIN queue[b]
  BY <1>1, TailType DEF FilterPop, TypeInv, TypeOK
<1>5. ASSUME NEW a \in Assemblies, NEW j \in DOMAIN queue'[a], NEW k \in DOMAIN queue'[a],
             j < k
      PROVE  queue'[a][j].reading < queue'[a][k].reading
  <2>1. CASE a = b
    <3>1. queue'[a] = Tail(queue[b])
      BY <1>2, <2>1
    <3>2. j + 1 < k + 1
      BY <1>3, <1>5, <3>1
    <3> QED
      BY <1>3, <3>1, <3>2 DEF Ordered
  <2>2. CASE a # b
    BY <1>2, <1>5, <2>2 DEF Ordered
  <2> QED
    BY <2>1, <2>2
<1>6. \A a \in Assemblies : \A k \in DOMAIN queue'[a] : \E j \in DOMAIN queue[a] :
        queue'[a][k] = queue[a][j]
  BY <1>1, <1>2, TailType
<1>7. \A k \in DOMAIN todo : todo[k].asm \in Assemblies
  <2>1. todo \in Seq(Pushes)
    BY DEF TypeInv, TypeOK, Pushes
  <2>2. \A k \in DOMAIN todo : todo[k] \in Pushes
    BY <2>1
  <2> QED
    BY <2>2 DEF Pushes
<1>8. ASSUME NEW k \in DOMAIN todo'
      PROVE  /\ \A j \in DOMAIN queue'[todo'[k].asm] :
                  queue'[todo'[k].asm][j].reading < todo'[k].msg.reading
             /\ \A j \in DOMAIN todo' : todo'[j].asm = todo'[k].asm => j = k
  BY <1>2, <1>6, <1>7 DEF Ordered
<1>9. ASSUME NEW a \in Assemblies, NEW m \in Ahead(a)', Works(a)'
      PROVE  msg'[a].reading < m.reading
  <2>1. CASE a # b
    <3>1. Works(a) /\ msg'[a] = msg[a] /\ m \in Ahead(a)
      BY <1>9, <2>1, AheadPop DEF FilterPop, Goto, Works, TypeInv, TypeOK
    <3> QED
      BY <3>1 DEF Ordered
  <2>2. CASE a = b
    <3>1. CASE \E k \in DOMAIN queue'[b] : m = queue'[b][k]
      <4>1. PICK k \in DOMAIN Tail(queue[b]) : m = queue[b][k + 1]
        BY <1>2, <1>3, <3>1
      <4>2. 1 < k + 1 /\ k + 1 \in DOMAIN queue[b]
        BY <1>3
      <4> QED
        BY <1>4, <2>2, <4>1, <4>2 DEF Ordered
    <3>2. CASE \E k \in DOMAIN todo : todo[k].asm = b /\ m = todo[k].msg
      BY <1>4, <2>2, <3>2 DEF Ordered
    <3> QED
      BY <1>2, <1>9, <2>2, <3>1, <3>2 DEF Ahead
  <2> QED
    BY <2>1, <2>2
<1> QED
  BY <1>5, <1>8, <1>9 DEF Ordered

-----------------------------------------------------------------------------
(* What is to be worked on. *)

\* An assembly that is unharmed after a step was so before it.
LEMMA HarmStays ==
  ASSUME TypeInv, [Next]_vars, NEW a \in Assemblies, Unharmed(a)'
  PROVE  Unharmed(a)
<1>1. CASE \E b \in Assemblies : FilterStart(b)
  BY <1>1, Zenon DEF FilterStart, Unharmed
<1>2. CASE \E b \in Assemblies : LoseStart(b)
  BY <1>2 DEF LoseStart, Unharmed
<1>3. CASE UNCHANGED <<together, quiet>>
  BY <1>3 DEF Unharmed
<1>4. CASE ~(\E b \in Assemblies : FilterStart(b) \/ LoseStart(b))
  BY <1>3, <1>4
     DEF vars, historyVars, Next, Call, ReadBroadcast, PushNext, FilterThread,
         FilterPop, FilterPrepare, FilterRefused, FilterNext, FilterDone,
         FilterFrame, FilterTimeout, Device, DeviceStart, DeviceSend
<1> QED
  BY <1>1, <1>2, <1>4

\* Steps that leave the queues and the messages alone.
LEMMA PendingStays ==
  ASSUME TypeInv, [Next]_vars, Pending, UNCHANGED <<todo, queue, outcome, begun>>,
         \A a \in Assemblies : Works(a)' => Works(a) /\ msg'[a] = msg[a]
  PROVE  Pending'
<1>1. \A a \in Assemblies : Ahead(a)' = Ahead(a)
  BY AheadSame
<1>2. \A a \in Assemblies : Work(a)' \subseteq Work(a)
  BY <1>1 DEF Work
<1> QED
  BY <1>1, <1>2, HarmStays DEF Pending

\* A new reading is pending in every assembly.
LEMMA PendingRead ==
  ASSUME TypeInv, [Next]_vars, Pending, NEW n \in Counts, ReadBroadcast(n)
  PROVE  Pending'
<1>1. /\ outcome \in Seq([Assemblies -> Outcomes])
      /\ [a \in Assemblies |-> "pending"] \in [Assemblies -> Outcomes]
  BY DEF TypeInv, TypeOK, Outcomes
<1>2. outcome' = Append(outcome, [a \in Assemblies |-> "pending"]) /\ begun' = begun
  BY DEF ReadBroadcast
<1>3. /\ \A r \in DOMAIN outcome : outcome'[r] = outcome[r]
      /\ outcome'[Len(outcome) + 1] = [a \in Assemblies |-> "pending"]
      /\ Len(outcome) + 1 \notin DOMAIN outcome
  BY <1>1, <1>2
<1>4. ASSUME NEW a \in Assemblies, NEW m \in Work(a)'
      PROVE  m \in Work(a) \/ m = NewMessage(a, n)
  BY <1>4, AheadRead DEF TypeInv, Work, Works, ReadBroadcast, filterVars
<1>5. \A a \in Assemblies : /\ NewMessage(a, n).reading = Len(outcome) + 1
                            /\ NewMessage(a, n).payload = n
  BY DEF NewMessage, Message
<1>6. begun \subseteq DOMAIN outcome
  BY DEF TypeInv, TypeOK
<1>7. ASSUME NEW a \in Assemblies, NEW m \in Work(a)'
      PROVE  m.payload \in Counts /\ outcome'[m.reading][a] = "pending"
  <2>1. CASE m \in Work(a)
    BY <1>3, <2>1 DEF Pending, TypeInv, Called
  <2>2. CASE m = NewMessage(a, n)
    BY <1>3, <1>5, <2>2
  <2> QED
    BY <1>4, <1>7, <2>1, <2>2
<1>8. ASSUME NEW a \in Assemblies, NEW m \in Ahead(a)', Unharmed(a)'
      PROVE  m.reading \notin begun'
  <2>1. m \in Ahead(a) \/ m = NewMessage(a, n)
    BY <1>8, AheadRead DEF TypeInv
  <2> QED
    BY <1>2, <1>3, <1>5, <1>6, <1>8, <2>1, HarmStays DEF Pending
<1> QED
  BY <1>7, <1>8 DEF Pending

\* A message goes from the call to the assembly's queue.
LEMMA PendingPush ==
  ASSUME TypeInv, [Next]_vars, Pending, PushNext
  PROVE  Pending'
<1>1. UNCHANGED <<fpc, msg, outcome, begun>>
  BY DEF PushNext, filterVars, historyVars
<1>2. \A a \in Assemblies : Ahead(a)' \subseteq Ahead(a) /\ Work(a)' \subseteq Work(a)
  BY <1>1, AheadPush DEF TypeInv, Work, Works
<1> QED
  BY <1>1, <1>2, HarmStays DEF Pending

\* A message goes from the queue to the filter thread.
LEMMA PendingPop ==
  ASSUME TypeInv, [Next]_vars, Pending, NEW b \in Assemblies, FilterPop(b)
  PROVE  Pending'
<1>1. UNCHANGED <<outcome, begun>>
  BY DEF FilterPop, historyVars
<1>2. \A a \in Assemblies : Ahead(a)' \subseteq Ahead(a)
  BY AheadPop DEF TypeInv
<1>3. \A a \in Assemblies : Work(a)' \subseteq Work(a)
  BY AheadPop DEF Work, Works, FilterPop, Goto, TypeInv, TypeOK
<1> QED
  BY <1>1, <1>2, <1>3, HarmStays DEF Pending

\* The reading that ends is none of those ahead.
LEMMA PendingEnd ==
  ASSUME TypeInv, [Next]_vars, Ordered, Pending,
         NEW b \in Assemblies, Works(b), NEW how, End(b, how),
         UNCHANGED <<todo, queue, begun>>
  PROVE  Pending'
<1>1. \A a \in Assemblies : Ahead(a)' = Ahead(a)
  BY AheadSame
<1>2. \A a \in Assemblies :
         Work(a)' \subseteq IF a = b THEN Ahead(a) ELSE Work(a)
  BY <1>1 DEF Work, Works, End, Goto, TypeInv, TypeOK
<1>3. outcome \in Seq([Assemblies -> Outcomes])
      /\ outcome' = [outcome EXCEPT ![msg[b].reading][b] = how]
  BY DEF End, TypeInv, TypeOK
<1>4. \A r \in DOMAIN outcome, a \in Assemblies :
         a # b \/ r # msg[b].reading => outcome'[r][a] = outcome[r][a]
  BY <1>3
<1>5. ASSUME NEW a \in Assemblies, NEW m \in Work(a)'
      PROVE  m.payload \in Counts /\ outcome'[m.reading][a] = "pending"
  <2>1. m \in Work(a) /\ m.reading \in DOMAIN outcome
    BY <1>2, <1>5 DEF TypeInv, Called, Work
  <2>2. CASE a # b
    BY <1>4, <2>1, <2>2 DEF Pending
  <2>3. CASE a = b
    <3>1. msg[b].reading < m.reading
      BY <1>2, <1>5, <2>3 DEF Ordered
    <3>2. m \in Messages /\ msg[b] \in Messages
      BY <1>2, <1>5, <2>3, AheadType DEF TypeInv, TypeOK
    <3>3. m.reading \in Nat /\ msg[b].reading \in Nat
      BY <3>2 DEF Messages
    <3>4. msg[b].reading # m.reading
      BY <3>1, <3>3
    <3> QED
      BY <1>4, <2>1, <3>4 DEF Pending
  <2> QED
    BY <2>2, <2>3
<1> QED
  BY <1>1, <1>5, HarmStays DEF Pending

\* When a start finds the others waiting, they are past the reading's message.
LEMMA PendingStart ==
  ASSUME TypeInv, [Next]_vars, Ordered, Pending, NEW b \in Assemblies, FilterStart(b)
  PROVE  Pending'
<1>1. UNCHANGED <<todo, queue, msg, outcome>> /\ begun' = begun \cup {msg[b].reading} /\ b = 1
  BY DEF FilterStart, TypeInv, TypeOK
<1>2. \A a \in Assemblies : Ahead(a)' = Ahead(a)
  BY <1>1, AheadSame
<1>3. \A a \in Assemblies : Work(a)' = Work(a)
  BY <1>1, <1>2 DEF Work, Works, FilterStart, Goto, TypeInv, TypeOK
<1>4. ASSUME NEW a \in Assemblies, NEW m \in Ahead(a), Unharmed(a)'
      PROVE  m.reading \notin begun'
  <2>1. m.reading \notin begun
    BY <1>4, HarmStays DEF Pending
  <2>2. Works(a) /\ msg[a].reading = msg[b].reading
    <3>1. CASE a = b
      BY <3>1 DEF FilterStart, Works
    <3>2. CASE a # b
      BY <1>1, <1>4, <3>2 DEF Unharmed, FilterStart, Waiting, Works
    <3> QED
      BY <3>1, <3>2
  <2>3. msg[b].reading < m.reading
    BY <2>2 DEF Ordered
  <2>4. msg[b].reading # m.reading
    <3>1. m \in Messages
      BY AheadType DEF TypeInv
    <3>2. m.reading \in Nat
      BY <3>1 DEF Messages
    <3> QED
      BY <2>3, <3>2
  <2> QED
    BY <1>1, <2>1, <2>4
<1> QED
  BY <1>1, <1>2, <1>3, <1>4 DEF Pending

-----------------------------------------------------------------------------
(* The frames of a reading. *)

Fine(a) == Progress(a) /\ Exact(a)

\* A step that leaves alone all that is a's.
LEMMA FineStays ==
  ASSUME TypeInv, NEW a \in Assemblies, Fine(a),
         UNCHANGED <<fpc[a], msg[a], i[a], frames[a], lines[a], starts[a], device[a], begun>>,
         DOMAIN outcome' = DOMAIN outcome,
         \A r \in DOMAIN outcome : outcome'[r][a] = outcome[r][a],
         a \in mixed' => a \in mixed
  PROVE  Fine(a)'
<1>1. Progress(a)'
  BY DEF Fine, Progress, Clear, OnTheWay, Sending
<1>2. Exact(a)'
  BY DEF Fine, Exact, TypeInv, TypeOK
<1> QED
  BY <1>1, <1>2 DEF Fine

\* An unharmed reading ends when nothing of it is on its way, and fails only
\* before it was started.
LEMMA FineEnd ==
  ASSUME TypeInv, NEW a \in Assemblies, Fine(a), NEW how \in Outcomes, End(a, how),
         UNCHANGED <<frames, deviceVars, mixed, begun>>,
         Clear(a), how = "failed" => msg[a].reading \notin begun
  PROVE  Fine(a)'
<1>1. fpc'[a] = "pop"
  BY DEF End, Goto, TypeInv, TypeOK
<1>2. Clear(a)'
  BY DEF Clear, Sending, deviceVars
<1>3. Progress(a)'
  BY <1>1, <1>2 DEF Progress
<1>4. outcome \in Seq([Assemblies -> Outcomes]) /\ begun \subseteq DOMAIN outcome
      /\ outcome' = [outcome EXCEPT ![msg[a].reading][a] = how]
  BY DEF End, TypeInv, TypeOK
<1>5. \A r \in begun : outcome'[r][a] # "failed"
  BY <1>4 DEF Fine, Exact
<1>6. Exact(a)'
  BY <1>5 DEF Fine, Exact
<1> QED
  BY <1>3, <1>6 DEF Fine

\* A thread other than a's ends its reading.
LEMMA FineOtherEnd ==
  ASSUME TypeInv, NEW a \in Assemblies, Fine(a), NEW b \in Assemblies, b # a,
         NEW how \in Outcomes, End(b, how),
         UNCHANGED <<todo, queue, frames, deviceVars, mixed, begun, together, quiet>>
  PROVE  Fine(a)'
<1>1. UNCHANGED <<fpc[a], msg[a], i[a], frames[a], lines[a], starts[a], device[a], begun>>
  BY DEF End, Goto, TypeInv, TypeOK, deviceVars
<1>2. DOMAIN outcome' = DOMAIN outcome
  BY EndType DEF TypeInv
<1>3. outcome \in Seq([Assemblies -> Outcomes])
      /\ outcome' = [outcome EXCEPT ![msg[b].reading][b] = how]
  BY DEF End, TypeInv, TypeOK
<1>4. \A r \in DOMAIN outcome : outcome'[r][a] = outcome[r][a]
  BY <1>3
<1> QED
  BY <1>1, <1>2, <1>4, FineStays

\* The first frame that the filters wait for is the next one of their reading.
LEMMA NextFrame ==
  ASSUME TypeInv, NEW a \in Assemblies, OnTheWay(a), frames[a] # << >>
  PROVE  /\ Head(frames[a]) = <<msg[a].reading, i[a] + 1>>
         /\ starts[a] = << >>
         /\ Len(Tail(frames[a])) = Len(frames[a]) - 1
         /\ \A k \in DOMAIN Tail(frames[a]) :
              Tail(frames[a])[k] = <<msg[a].reading, i[a] + 1 + k>>
<1>1. frames[a] \in Seq(Nat \X Nat) /\ i[a] \in Nat
  BY DEF TypeInv, TypeOK
<1>2. starts[a] = << >>
      /\ \A k \in DOMAIN frames[a] : frames[a][k] = <<msg[a].reading, i[a] + k>>
  BY DEF OnTheWay
<1>3. Head(frames[a]) = frames[a][1] /\ 1 \in DOMAIN frames[a]
  BY <1>1
<1>4. Len(Tail(frames[a])) = Len(frames[a]) - 1
  BY <1>1
<1>5. ASSUME NEW k \in DOMAIN Tail(frames[a])
      PROVE  Tail(frames[a])[k] = <<msg[a].reading, i[a] + 1 + k>>
  <2>1. k + 1 \in DOMAIN frames[a] /\ Tail(frames[a])[k] = frames[a][k + 1] /\ k \in Nat
    <3>1. \A s \in Seq(Nat \X Nat) : s # << >> =>
            \A j \in DOMAIN Tail(s) : j + 1 \in DOMAIN s /\ Tail(s)[j] = s[j + 1] /\ j \in Nat
      OBVIOUS
    <3> QED
      BY <1>1, <3>1
  <2>2. i[a] \in Nat /\ k \in Nat
    BY <1>1, <2>1
  <2>3. i[a] + (k + 1) = i[a] + 1 + k
    BY <2>2
  <2> QED
    BY <1>2, <2>1, <2>3
<1> QED
  BY <1>2, <1>3, <1>4, <1>5

\* An unharmed assembly's reading stays so.
LEMMA FineNext ==
  ASSUME 0 \notin Counts, TypeInv, SynchronousInv, [Next]_vars,
         NEW a \in Assemblies, Unharmed(a)'
  PROVE  Fine(a)'
<1>1. Unharmed(a) /\ Fine(a)
  BY HarmStays DEF SynchronousInv, Fine
<1>2. Works(a) => /\ msg[a] \in Messages /\ msg[a].payload \in Counts
                  /\ msg[a].reading \in DOMAIN outcome
                  /\ msg[a].cmd = "SYNC_RUN" <=> a = 1
  BY DEF SynchronousInv, Pending, Work, TypeInv, TypeOK, Called
<1>3. Works(a) => /\ msg[a].payload \in Nat \ {0}
                  /\ msg[a].reading \in Nat
  BY <1>2, BroadcastAssumption DEF Messages
<1>4. i[a] \in Nat /\ frames[a] \in Seq(Nat \X Nat) /\ starts[a] \in Seq(Nat)
      /\ Len(frames[a]) \in Nat
      /\ lines[a] \in Nat /\ device[a] \in [reading : Nat, sent : Nat, total : Nat]
  BY DEF TypeInv, TypeOK
<1>5. CASE Call
  <2>1. PICK n \in Counts : ReadBroadcast(n)
    BY <1>5 DEF Call
  <2>2. UNCHANGED <<filterVars, frames, deviceVars, mixed, begun>>
    BY <2>1 DEF ReadBroadcast
  <2>3. outcome \in Seq([Assemblies -> Outcomes]) /\ begun \subseteq DOMAIN outcome
        /\ outcome' = Append(outcome, [b \in Assemblies |-> "pending"])
    BY <2>1 DEF ReadBroadcast, TypeInv, TypeOK
  <2>4. \A r \in DOMAIN outcome : outcome'[r] = outcome[r]
    BY <2>3
  <2>5. Progress(a)'
    BY <1>1, <2>2 DEF Fine, Progress, Clear, OnTheWay, Sending, filterVars, deviceVars
  <2>6. Exact(a)'
    BY <1>1, <2>2, <2>3, <2>4 DEF Fine, Exact
  <2> QED
    BY <2>5, <2>6 DEF Fine
<1>6. CASE PushNext
  BY <1>1, <1>6, FineStays DEF PushNext, filterVars, deviceVars, historyVars
<1>7. ASSUME NEW b \in Assemblies, FilterPop(b)
      PROVE  Fine(a)'
  <2>1. CASE b # a
    BY <1>1, <1>7, <2>1, FineStays
       DEF FilterPop, Goto, deviceVars, historyVars, TypeInv, TypeOK
  <2>2. CASE b = a
    <3>1. fpc[a] = "pop" /\ fpc'[a] = "prepare"
          /\ UNCHANGED <<frames, deviceVars, historyVars>>
      BY <1>7, <2>2 DEF FilterPop, Goto, TypeInv, TypeOK
    <3>2. msg'[a].reading \notin begun
      BY <1>1, <1>7, <2>2, AheadPop DEF SynchronousInv, Pending, TypeInv
    <3>3. Clear(a)'
      BY <1>1, <3>1 DEF Fine, Progress, Clear, Sending, deviceVars
    <3> QED
      BY <1>1, <3>1, <3>2, <3>3 DEF Fine, Progress, Exact, historyVars
  <2> QED
    BY <2>1, <2>2
<1>8. ASSUME NEW b \in Assemblies, FilterPrepare(b)
      PROVE  Fine(a)'
  <2>1. CASE b # a
    BY <1>1, <1>8, <2>1, FineStays DEF FilterPrepare, Goto, historyVars, TypeInv, TypeOK
  <2>2. CASE b = a
    <3>1. fpc[a] = "prepare" /\ fpc'[a] = (IF a = 1 THEN "start" ELSE "top")
          /\ UNCHANGED <<msg, frames, starts, device, historyVars>>
          /\ lines'[a] = msg[a].payload /\ i'[a] = 0
      BY <1>2, <1>8, <2>2 DEF FilterPrepare, Goto, TypeInv, TypeOK, Works
    <3>2. Clear(a)' /\ msg'[a].reading \notin begun'
      BY <1>1, <3>1 DEF Fine, Progress, Clear, Sending, historyVars
    <3> QED
      BY <1>1, <3>1, <3>2 DEF Fine, Progress, Exact, historyVars
  <2> QED
    BY <2>1, <2>2
<1>9. {"done", "failed"} \subseteq Outcomes
  BY DEF Outcomes
<1>10. ASSUME NEW b \in Assemblies, FilterRefused(b)
       PROVE  Fine(a)'
  <2>1. CASE b # a
    BY <1>1, <1>9, <1>10, <2>1, FineOtherEnd DEF FilterRefused
  <2>2. CASE b = a
    BY <1>1, <1>10, <2>2 DEF FilterRefused, Fine, Progress, Clear
  <2> QED
    BY <2>1, <2>2
<1>11. ASSUME NEW b \in Assemblies, FilterStart(b)
       PROVE  Fine(a)'
  <2>1. b = 1 /\ UNCHANGED <<msg, i, frames, lines, device, outcome, mixed>>
        /\ starts'[a] = Append(starts[a], msg[b].reading)
        /\ begun' = begun \cup {msg[b].reading}
        /\ fpc' = [fpc EXCEPT ![b] = "top"]
    BY <1>11 DEF FilterStart, Goto, TypeInv, TypeOK
  <2>2. /\ a = b \/ Waiting(a, msg[b].reading)
        /\ outcome[msg[a].reading][a] = "pending"
        /\ msg[a].reading = msg[b].reading /\ Works(a)
    <3>1. a = b \/ Waiting(a, msg[b].reading)
      BY <1>11, <2>1 DEF FilterStart, Unharmed
    <3>2. msg[a].reading = msg[b].reading /\ Works(a)
      BY <1>11, <3>1 DEF FilterStart, Waiting, Works
    <3> QED
      BY <3>1, <3>2 DEF SynchronousInv, Pending, Work
  <2>3. Clear(a) /\ i[a] = 0 /\ lines[a] = msg[a].payload
    <3>1. CASE a = b
      BY <1>1, <1>11, <3>1 DEF Fine, Progress, FilterStart
    <3>2. CASE a # b
      <4>1. fpc[a] \in {"top", "frame"} /\ i[a] = 0 /\ a # 1
        BY <2>1, <2>2, <3>2 DEF Waiting
      <4>2. msg[b].reading \notin begun
        <5>1. Unharmed(b) /\ b \in Assemblies
          BY <1>1, <2>1 DEF Unharmed
        <5>2. Progress(b) /\ fpc[b] = "start"
          BY <1>11, <5>1 DEF SynchronousInv, FilterStart
        <5> QED
          BY <5>2 DEF Progress
      <4> QED
        BY <1>1, <2>2, <4>1, <4>2 DEF Fine, Progress
    <3> QED
      BY <3>1, <3>2
  <2>4. OnTheWay(a)'
    <3>1. starts'[a] = << msg[a].reading >>
      BY <2>1, <2>2, <2>3 DEF Clear
    <3>2. frames'[a] = << >> /\ ~Sending(a)' /\ i'[a] = 0 /\ lines'[a] = msg'[a].payload
      BY <2>1, <2>3 DEF Clear, Sending
    <3> QED
      BY <2>1, <3>1, <3>2 DEF OnTheWay
  <2>5. fpc'[a] \in {"top", "frame"} /\ (fpc'[a] = "frame" => fpc[a] = "frame")
    BY <2>1, <2>2 DEF Waiting, TypeInv, TypeOK
  <2>6. Progress(a)'
    BY <1>1, <2>1, <2>2, <2>4, <2>5 DEF Progress, Fine
  <2>7. Exact(a)'
    BY <1>1, <2>1, <2>2 DEF Exact, Fine
  <2> QED
    BY <2>6, <2>7 DEF Fine
<1>12. ASSUME NEW b \in Assemblies, FilterNext(b)
       PROVE  Fine(a)'
  <2>1. CASE b # a
    BY <1>1, <1>12, <2>1, FineStays
       DEF FilterNext, Goto, deviceVars, historyVars, TypeInv, TypeOK
  <2>2. CASE b = a
    BY <1>1, <1>12, <2>2
       DEF FilterNext, Goto, deviceVars, historyVars, TypeInv, TypeOK, Fine, Progress, Exact,
           Clear, OnTheWay, Sending
  <2> QED
    BY <2>1, <2>2
<1>13. ASSUME NEW b \in Assemblies, FilterDone(b)
       PROVE  Fine(a)'
  <2>1. CASE b # a
    BY <1>1, <1>9, <1>13, <2>1, FineOtherEnd DEF FilterDone
  <2>2. CASE b = a
    <3>1. fpc[a] = "top" /\ i[a] >= msg[a].payload /\ msg[a].payload \in Nat \ {0}
      BY <1>3, <1>13, <2>2 DEF FilterDone, Works
    <3>2. msg[a].reading \in begun /\ i[a] # 0
      BY <1>1, <1>4, <3>1 DEF Fine, Progress
    <3>3. /\ starts[a] = << >> /\ device[a].sent = i[a] + Len(frames[a])
          /\ device[a].total = msg[a].payload /\ device[a].sent <= device[a].total
      BY <1>1, <3>1, <3>2 DEF Fine, Progress, OnTheWay
    <3>4. Len(frames[a]) = 0 /\ device[a].sent = device[a].total
      BY <1>4, <3>1, <3>3
    <3>5. Clear(a)
      BY <1>4, <3>3, <3>4 DEF Clear, Sending
    <3> QED
      BY <1>1, <1>9, <1>13, <2>2, <3>5, FineEnd DEF FilterDone
  <2> QED
    BY <2>1, <2>2
<1>14. ASSUME NEW b \in Assemblies, FilterFrame(b)
       PROVE  Fine(a)'
  <2>1. CASE b # a
    BY <1>1, <1>14, <2>1, FineStays
       DEF FilterFrame, Goto, deviceVars, historyVars, TypeInv, TypeOK
  <2>2. CASE b = a
    <3>1. fpc[a] = "frame" /\ frames[a] # << >> /\ frames'[a] = Tail(frames[a])
          /\ i'[a] = i[a] + 1 /\ fpc'[a] = "top"
          /\ UNCHANGED <<msg, deviceVars, outcome, begun>>
      BY <1>14, <2>2 DEF FilterFrame, Goto, TypeInv, TypeOK
    <3>2. msg[a].reading \in begun /\ OnTheWay(a) /\ i[a] < msg[a].payload
      BY <1>1, <3>1 DEF Fine, Progress, Clear
    <3>3. /\ Head(frames[a]) = <<msg[a].reading, i[a] + 1>>
          /\ starts[a] = << >>
          /\ Len(Tail(frames[a])) = Len(frames[a]) - 1
          /\ \A k \in DOMAIN Tail(frames[a]) :
               Tail(frames[a])[k] = <<msg[a].reading, i[a] + 1 + k>>
      BY <3>1, <3>2, NextFrame
    <3>4. mixed' = mixed
      BY <1>14, <2>2, <3>3 DEF FilterFrame
    <3>5. device[a] = [reading |-> msg[a].reading, sent |-> i[a] + Len(frames[a]),
                       total |-> msg[a].payload]
          /\ device[a].sent <= device[a].total
      BY <3>2, <3>3 DEF OnTheWay
    <3>6. i'[a] = i[a] + 1 /\ Len(frames'[a]) = Len(frames[a]) - 1
           /\ i[a] \in Nat /\ Len(frames[a]) \in Nat
      BY <1>4, <3>1, <3>3
    <3>7. \A x, y \in Nat : (x + 1) + (y - 1) = x + y
      OBVIOUS
    <3>8. i'[a] + Len(frames'[a]) = i[a] + Len(frames[a])
      BY <3>6, <3>7
    <3>9. OnTheWay(a)'
      BY <3>1, <3>3, <3>5, <3>8 DEF OnTheWay, deviceVars
    <3>10. Progress(a)'
      BY <3>1, <3>2, <3>9 DEF Progress
    <3>11. Exact(a)'
      BY <1>1, <3>1, <3>4 DEF Exact, Fine
    <3> QED
      BY <3>10, <3>11 DEF Fine
  <2> QED
    BY <2>1, <2>2
<1>15. ASSUME NEW b \in Assemblies, FilterTimeout(b)
       PROVE  Fine(a)'
  <2>1. CASE b # a
    BY <1>1, <1>9, <1>15, <2>1, FineOtherEnd DEF FilterTimeout
  <2>2. CASE b = a
    <3>1. fpc[a] = "frame" /\ Clear(a) /\ i[a] < msg[a].payload
      BY <1>1, <1>15, <2>2 DEF FilterTimeout, Clear, Fine, Progress
    <3>2. msg[a].reading \notin begun
      <4> SUFFICES ASSUME msg[a].reading \in begun PROVE FALSE
        OBVIOUS
      <4>1. OnTheWay(a)
        BY <1>1, <3>1 DEF Fine, Progress
      <4>2. starts[a] = << >> /\ frames[a] = << >> /\ ~Sending(a)
        BY <3>1 DEF Clear
      <4>3. device[a].sent = i[a] + Len(frames[a]) /\ device[a].total = msg[a].payload
        BY <4>1, <4>2 DEF OnTheWay
      <4>4. Len(frames[a]) = 0
        BY <4>2
      <4> QED
        BY <1>3, <1>4, <3>1, <4>2, <4>3, <4>4 DEF Sending, Works
    <3> QED
      BY <1>1, <1>9, <1>15, <2>2, <3>1, <3>2, FineEnd DEF FilterTimeout
  <2> QED
    BY <2>1, <2>2
<1>16. ASSUME NEW b \in Assemblies, DeviceStart(b)
       PROVE  Fine(a)'
  <2>1. CASE b # a
    BY <1>1, <1>16, <2>1, FineStays
       DEF DeviceStart, filterVars, historyVars, TypeInv, TypeOK
  <2>2. CASE b = a
    <3>1. starts[a] # << >> /\ starts'[a] = Tail(starts[a])
          /\ UNCHANGED <<filterVars, frames, lines, historyVars>>
      BY <1>16, <2>2 DEF DeviceStart, TypeInv, TypeOK
    <3>2. fpc[a] \in {"top", "frame"} /\ msg[a].reading \in begun /\ OnTheWay(a)
      <4>1. fpc[a] \in {"pop", "prepare", "start", "top", "frame"}
        BY DEF TypeInv, TypeOK
      <4> QED
        BY <1>1, <3>1, <4>1 DEF Fine, Progress, Clear
    <3>3. /\ frames[a] = << >> /\ ~Sending(a) /\ i[a] = 0
          /\ starts[a] = << msg[a].reading >>
          /\ lines[a] = msg[a].payload
      BY <3>1, <3>2 DEF OnTheWay
    <3>4. Head(starts[a]) = msg[a].reading /\ Tail(starts[a]) = << >> /\ Len(frames[a]) = 0
      BY <3>3
    <3>5. device'[a] = [reading |-> msg[a].reading, sent |-> 0, total |-> msg[a].payload]
      BY <1>16, <2>2, <3>3, <3>4 DEF DeviceStart, TypeInv, TypeOK
    <3>6. 0 <= msg[a].payload /\ i[a] + Len(frames[a]) = 0
      BY <1>3, <3>2, <3>3, <3>4 DEF Works
    <3>7. \A k \in DOMAIN frames[a] : FALSE
      BY <3>3
    <3>8. OnTheWay(a)'
      BY <3>1, <3>4, <3>5, <3>6, <3>7 DEF OnTheWay, filterVars
    <3>9. Progress(a)'
      BY <1>1, <3>1, <3>2, <3>8 DEF Progress, Fine, filterVars, historyVars
    <3>10. Exact(a)'
      BY <1>1, <3>1 DEF Exact, Fine, historyVars
    <3> QED
      BY <3>9, <3>10 DEF Fine
  <2> QED
    BY <2>1, <2>2
<1>17. ASSUME NEW b \in Assemblies, DeviceSend(b)
       PROVE  Fine(a)'
  <2>1. CASE b # a
    BY <1>1, <1>17, <2>1, FineStays
       DEF DeviceSend, filterVars, historyVars, TypeInv, TypeOK
  <2>2. CASE b = a
    <3>1. Sending(a)
          /\ device'[a] = [device[a] EXCEPT !.sent = device[a].sent + 1]
          /\ frames'[a] = Append(frames[a], <<device[a].reading, device[a].sent + 1>>)
          /\ UNCHANGED <<filterVars, starts, historyVars>>
      BY <1>17, <2>2 DEF DeviceSend, TypeInv, TypeOK
    <3>2. fpc[a] \in {"top", "frame"} /\ msg[a].reading \in begun /\ OnTheWay(a)
      <4>1. fpc[a] \in {"pop", "prepare", "start", "top", "frame"}
        BY DEF TypeInv, TypeOK
      <4> QED
        BY <1>1, <3>1, <4>1 DEF Fine, Progress, Clear
    <3>3. /\ starts[a] = << >>
          /\ device[a] = [reading |-> msg[a].reading, sent |-> i[a] + Len(frames[a]),
                          total |-> msg[a].payload]
          /\ \A k \in DOMAIN frames[a] : frames[a][k] = <<msg[a].reading, i[a] + k>>
      BY <3>1, <3>2 DEF OnTheWay
    <3>4. device[a].sent < device[a].total
      BY <3>1 DEF Sending
    <3>5. <<device[a].reading, device[a].sent + 1>> \in Nat \X Nat
      BY <1>4
    <3>6. /\ Len(frames'[a]) = Len(frames[a]) + 1
          /\ DOMAIN frames'[a] = DOMAIN frames[a] \cup {Len(frames[a]) + 1}
          /\ \A k \in DOMAIN frames[a] : frames'[a][k] = frames[a][k]
          /\ frames'[a][Len(frames[a]) + 1] = <<device[a].reading, device[a].sent + 1>>
      <4>1. frames[a] \in Seq(Nat \X Nat)
        BY <1>4
      <4>2. frames'[a] = Append(frames[a], <<device[a].reading, device[a].sent + 1>>)
        BY <3>1
      <4>3. ASSUME NEW s \in Seq(Nat \X Nat), NEW e \in Nat \X Nat
            PROVE  /\ Len(Append(s, e)) = Len(s) + 1
                   /\ DOMAIN Append(s, e) = DOMAIN s \cup {Len(s) + 1}
                   /\ \A k \in DOMAIN s : Append(s, e)[k] = s[k]
                   /\ Append(s, e)[Len(s) + 1] = e
        BY <4>3, AppendType
      <4> QED
        BY ONLY <3>5, <4>1, <4>2, <4>3
    <3>7. device[a].sent + 1 = i[a] + (Len(frames[a]) + 1)
      BY <1>4, <3>3
    <3>8. \A k \in DOMAIN frames'[a] : frames'[a][k] = <<msg[a].reading, i[a] + k>>
      BY <3>3, <3>6, <3>7
    <3>9. device'[a] = [reading |-> msg[a].reading, sent |-> i[a] + Len(frames'[a]),
                        total |-> msg[a].payload]
          /\ device'[a].sent <= device'[a].total
      <4>1. device'[a] = [reading |-> msg[a].reading, sent |-> device[a].sent + 1,
                          total |-> msg[a].payload]
        BY <3>1, <3>3
      <4>2. device[a].sent + 1 = i[a] + Len(frames'[a])
        BY <3>6, <3>7
      <4>3. device[a].sent \in Nat /\ device[a].total \in Nat /\ device[a].total = msg[a].payload
        BY <1>4, <3>3
      <4>4. device[a].sent + 1 <= msg[a].payload
        BY <3>4, <4>3
      <4> QED
        BY <4>1, <4>2, <4>4
    <3>10. OnTheWay(a)'
      BY <3>1, <3>3, <3>8, <3>9 DEF OnTheWay, filterVars
    <3>11. Progress(a)'
      BY <1>1, <3>1, <3>2, <3>10 DEF Progress, Fine, filterVars, historyVars
    <3>12. Exact(a)'
      BY <1>1, <3>1 DEF Exact, Fine, historyVars
    <3> QED
      BY <3>11, <3>12 DEF Fine
  <2> QED
    BY <2>1, <2>2
<1>18. ASSUME NEW b \in Assemblies, LoseStart(b)
       PROVE  Fine(a)'
  BY <1>18 DEF LoseStart, Unharmed
<1>19. CASE UNCHANGED vars
  BY <1>1, <1>19, FineStays DEF vars, filterVars, deviceVars, historyVars
<1>20. QED
  BY <1>5, <1>6, <1>7, <1>8, <1>10, <1>11, <1>12, <1>13, <1>14, <1>15, <1>16, <1>17,
     <1>18, <1>19 DEF Next, FilterThread, Device

-----------------------------------------------------------------------------

\* A broadcast reading of at least one frame is synchronous if each start finds the
\* others waiting, and the first assembly's readings are never harmed (Synchronous),
\* for any number of assemblies and readings.  A reading of no frames is done while its
\* start is still on its way, and the next reading is given its frames.
THEOREM BroadcastSynchronous ==
  ASSUME 0 \notin Counts
  PROVE  Spec => []Synchronous
<1>1. Init => SynchronousInv
  <2> SUFFICES ASSUME Init PROVE SynchronousInv
    OBVIOUS
  <2>1. \A a \in Assemblies : Ahead(a) = {} /\ Work(a) = {}
    BY DEF Init, Work, Ahead, Works
  <2>2. Ordered
    BY <2>1 DEF Init, Ordered
  <2>3. Pending
    BY <2>1 DEF Pending
  <2>4. ASSUME NEW a \in Assemblies PROVE Progress(a) /\ Exact(a)
    BY DEF Init, Progress, Clear, Sending, Idle, Exact
  <2> QED
    BY <2>2, <2>3, <2>4 DEF SynchronousInv
<1>2. TypeInv /\ SynchronousInv /\ [Next]_vars => SynchronousInv'
  <2> SUFFICES ASSUME TypeInv, SynchronousInv, [Next]_vars PROVE SynchronousInv'
    OBVIOUS
  <2>1. Ordered /\ Pending
    BY DEF SynchronousInv
  <2>2. \A a \in Assemblies : Unharmed(a)' => Progress(a)' /\ Exact(a)'
    BY FineNext DEF Fine
  <2>3. ASSUME Call PROVE Ordered' /\ Pending'
    BY <2>1, <2>3, OrderedRead, PendingRead DEF Call
  <2>4. ASSUME PushNext PROVE Ordered' /\ Pending'
    BY <2>1, <2>4, OrderedPush, PendingPush
  <2>5. ASSUME NEW a \in Assemblies, FilterPop(a) PROVE Ordered' /\ Pending'
    BY <2>1, <2>5, OrderedPop, PendingPop
  <2>6. ASSUME NEW a \in Assemblies,
               FilterRefused(a) \/ FilterDone(a) \/ FilterTimeout(a)
        PROVE  Ordered' /\ Pending'
    <3>1. PICK how \in {"done", "failed"} : End(a, how)
      BY <2>6 DEF FilterRefused, FilterDone, FilterTimeout
    <3>2. Works(a) /\ UNCHANGED <<todo, queue, begun>>
      BY <2>6 DEF FilterRefused, FilterDone, FilterTimeout, Works
    <3>3. \A b \in Assemblies : Works(b)' => Works(b) /\ msg'[b] = msg[b]
      BY <3>1 DEF End, Goto, Works, TypeInv, TypeOK
    <3> QED
      BY <2>1, <3>1, <3>2, <3>3, OrderedStays, PendingEnd
  <2>7. ASSUME NEW a \in Assemblies, FilterStart(a)
        PROVE  Ordered' /\ Pending'
    <3>1. \A b \in Assemblies : Works(b)' => Works(b) /\ msg'[b] = msg[b]
      BY <2>7 DEF FilterStart, Goto, Works, TypeInv, TypeOK
    <3> QED
      BY <2>1, <2>7, <3>1, OrderedStays, PendingStart DEF FilterStart
  <2>8. ASSUME NEW a \in Assemblies,
               \/ FilterPrepare(a) \/ FilterNext(a) \/ FilterFrame(a)
               \/ DeviceStart(a) \/ DeviceSend(a) \/ LoseStart(a)
        PROVE  Ordered' /\ Pending'
    <3>1. \A b \in Assemblies : Works(b)' => Works(b) /\ msg'[b] = msg[b]
      BY <2>8 DEF FilterPrepare, FilterNext, FilterFrame, DeviceStart, DeviceSend, LoseStart,
                  Goto, Works, TypeInv, TypeOK, filterVars
    <3>2. UNCHANGED <<todo, queue, outcome, begun>>
      BY <2>8 DEF FilterPrepare, FilterNext, FilterFrame, DeviceStart, DeviceSend, LoseStart,
                  historyVars
    <3> QED
      BY <2>1, <3>1, <3>2, OrderedStays, PendingStays
  <2>9. ASSUME UNCHANGED vars PROVE Ordered' /\ Pending'
    BY <2>1, <2>9, OrderedStays, PendingStays DEF vars, filterVars, historyVars, Works
  <2>10. Ordered' /\ Pending'
    BY <2>3, <2>4, <2>5, <2>6, <2>7, <2>8, <2>9 DEF Next, FilterThread, Device
  <2> QED
    BY <2>2, <2>10 DEF SynchronousInv
<1>3. SynchronousInv => Synchronous
  BY DEF SynchronousInv, Synchronous, Unharmed
<1>4. QED
  BY <1>1, <1>2, <1>3, BroadcastTypeCorrect, PTL DEF Spec, TypeInv

==============================================================================
