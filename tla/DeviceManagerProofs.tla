------------------------- MODULE DeviceManagerProofs -------------------------
(***************************************************************************)
(* Proofs about module DeviceManager, for every number of assemblies and   *)
(* pool threads and every bound.                                           *)
(***************************************************************************)
EXTENDS DeviceManager, TLAPS

Kinds == {"status", "dropped", "connect", "command", "disconnect"}
Stages == {"begin", "lock", "announce", "start", "join", "close", "end"}

\* The tasks, of which those for a status have the name of an assembly, if any, as id;
\* those that wait, and those under way.
AnyTasks == [kind : Kinds, asm : Assemblies, id : Nat, stage : Stages]
NewTasks == {t \in AnyTasks : t.stage = "begin" /\ (t.kind = "status" => t.id \in 0 .. N)}
WorkTasks == {Free} \cup {t \in AnyTasks : t.kind = "status" => t.id \in 0 .. N}

\* The types, in parts; every task is for an assembly.
MapTypes ==
  /\ isRunning \in BOOLEAN
  /\ IsMap(statuses) /\ IsMap(reported) /\ IsMap(old) /\ IsMap(fresh)
  /\ DOMAIN callback = {"asm", "map", "stored"} /\ IsMap(callback.map)
  /\ callback.asm \in 0 .. N /\ callback.stored \in BOOLEAN
  /\ spc \in {"none", "check", "sleep", "submit", "wait", "compare", "exited"}

TaskTypes == pool \in Seq(NewTasks) /\ workers \in [Workers -> WorkTasks]

AppTypes ==
  /\ apc \in {"new", "initialize", "idle", "connect", "command", "join", "disconnect", "off"}
  /\ call \in Nat /\ next \in 0 .. N /\ failed \subseteq Assemblies /\ readCalls \in Nat

Flags == [isRunning : BOOLEAN, wasRunning : BOOLEAN, connected : BOOLEAN,
          reader : BOOLEAN, named : BOOLEAN, closed : BOOLEAN]

AsmTypes ==
  /\ asm \in [Assemblies -> Flags]
  /\ mutex \in [Assemblies -> {"none", "task", "filter"}]
  /\ fpc \in [Assemblies -> {"none", "pop", "start", "reading", "exited"}]
  /\ reads \in [Assemblies -> Nat] /\ starts \in [Assemblies -> Nat]
  /\ up \in [Assemblies -> BOOLEAN] /\ changes \in Nat

TypeInv == MapTypes /\ TaskTypes /\ AppTypes /\ AsmTypes

\* The task is connect's, after its look at wasRunning.
Opened(t) == t.kind = "connect" /\ t.stage \in {"announce", "start"}

\* At most one task of connect gets past wasRunning, and it starts the threads.
OpenedOnce(a) ==
  /\ ~asm[a].wasRunning => starts[a] = 0
  /\ \A w \in Workers :
       workers[w].asm = a /\ Opened(workers[w]) => asm[a].wasRunning /\ starts[a] = 0
  /\ \A v, w \in Workers :
       workers[v].asm = a /\ workers[w].asm = a /\ Opened(workers[v]) /\ Opened(workers[w])
         => v = w
  /\ starts[a] <= 1

\* Device::disconnect has been called, after the join of the scheduler.
Over == apc \in {"disconnect", "off"}

\* The callback is about to say that an assembly is DISCONNECTED, or all maps say it.
AboutToReport(a) ==
  /\ callback.asm = a /\ a \in DOMAIN callback.map /\ callback.map[a] = "DISCONNECTED"
  /\ callback.stored => a \in DOMAIN statuses /\ statuses[a] = "DISCONNECTED"
  /\ \E w \in Workers : /\ workers[w].asm = a /\ workers[w].kind = "disconnect"
                        /\ workers[w].stage = "end"

IsReported(a) ==
  /\ a \in DOMAIN statuses /\ statuses[a] = "DISCONNECTED"
  /\ a \in DOMAIN reported /\ reported[a] = "DISCONNECTED"
  /\ callback # NoCallback => a \in DOMAIN callback.map /\ callback.map[a] = "DISCONNECTED"

\* An assembly is closed after its threads have ended, and then it is reported.
Joined(a) ==
  \A w \in Workers :
    workers[w].asm = a /\ workers[w].kind = "disconnect" /\ workers[w].stage \in {"close", "end"}
      => fpc[a] = "exited" /\ asm[a].reader

Closed(a) ==
  /\ asm[a].reader => starts[a] # 0
  /\ Joined(a)
  /\ asm[a].closed => /\ Over /\ fpc[a] = "exited" /\ asm[a].reader
                      /\ AboutToReport(a) \/ IsReported(a)

ClosingInv ==
  /\ Over => spc = "exited"
  /\ \A t \in Range(pool) \cup Range(workers) : t.kind = "disconnect" => Over
  /\ \A a \in Assemblies : Closed(a)

ManagerInv == (\A a \in Assemblies : OpenedOnce(a)) /\ ClosingInv

-----------------------------------------------------------------------------
(* Types. *)

\* A map with another entry is a map.
LEMMA PutMap ==
  ASSUME NEW map, IsMap(map), NEW name \in Assemblies \cup {NoName}, NEW status \in Status
  PROVE  /\ IsMap(Put(map, name, status))
         /\ name \in DOMAIN Put(map, name, status) /\ Put(map, name, status)[name] = status
         /\ \A n \in DOMAIN map : n # name => /\ n \in DOMAIN Put(map, name, status)
                                              /\ Put(map, name, status)[n] = map[n]
BY DEF IsMap, Put, Range

\* The empty map is a map.
LEMMA EmptyMap == IsMap(Empty)
BY DEF IsMap, Empty, Range

\* Numbers of assemblies.
LEMMA NumberTypes ==
  /\ 0 \in 0 .. N /\ Assemblies \subseteq 0 .. N /\ 0 \notin Assemblies /\ N \in Assemblies
  /\ 1 \in 0 .. N /\ \A a \in 0 .. N : a # N => a + 1 \in 0 .. N
BY SizesAssumption DEF Assemblies

\* A thread that is not free works for an assembly.
LEMMA Works ==
  ASSUME TaskTypes, NEW w \in Workers
  PROVE  /\ workers[w].kind \in Kinds => /\ workers[w] \in AnyTasks
                                         /\ workers[w].asm \in Assemblies
         /\ workers[w].kind = "status" => workers[w].id \in 0 .. N
BY DEF TaskTypes, WorkTasks, AnyTasks, Kinds, Free

\* A thread goes on with its task.
LEMMA GoesTo ==
  ASSUME TaskTypes, NEW w \in Workers, workers[w].kind \in Kinds, NEW s \in Stages, Goto(w, s)
  PROVE  /\ workers' = [workers EXCEPT ![w] = [kind |-> workers[w].kind, asm |-> workers[w].asm,
                                               id |-> workers[w].id, stage |-> s]]
         /\ workers' \in [Workers -> WorkTasks]
<1>1. workers[w] \in AnyTasks
  BY Works
<1>2. [workers[w] EXCEPT !.stage = s]
         = [kind |-> workers[w].kind, asm |-> workers[w].asm, id |-> workers[w].id, stage |-> s]
  BY <1>1 DEF AnyTasks
<1>3. [kind |-> workers[w].kind, asm |-> workers[w].asm, id |-> workers[w].id, stage |-> s]
        \in WorkTasks
  BY <1>1, Works DEF WorkTasks, AnyTasks
<1> QED
  BY <1>2, <1>3 DEF Goto, TaskTypes

\* A thread is free again.
LEMMA GetsFree ==
  ASSUME TaskTypes, NEW w \in Workers, workers' = [workers EXCEPT ![w] = Free]
  PROVE  workers' \in [Workers -> WorkTasks]
BY DEF TaskTypes, WorkTasks

\* Every step keeps the maps of statuses, and where the scheduler is.
LEMMA MapTypesNext ==
  ASSUME TypeInv, [Next]_vars
  PROVE  MapTypes'
<1> USE NumberTypes DEF TypeInv
<1>1. ASSUME UNCHANGED <<isRunning, statusVars, schedulerVars>> PROVE MapTypes'
  BY <1>1 DEF MapTypes, statusVars, schedulerVars
<1>2. CASE Callback
  <2>1. CASE CallbackStore
    <3>1. /\ DOMAIN callback' = {"asm", "map", "stored"} /\ callback'.map = callback.map
          /\ callback'.asm = callback.asm /\ callback'.stored = TRUE
      BY <2>1 DEF CallbackStore, MapTypes
    <3> QED
      BY <2>1, <3>1 DEF CallbackStore, MapTypes, schedulerVars
  <2>2. CASE CallbackReport
    <3>1. /\ DOMAIN NoCallback = {"asm", "map", "stored"} /\ NoCallback.map = Empty
          /\ NoCallback.asm = 0 /\ NoCallback.stored = FALSE
      BY DEF NoCallback
    <3> QED
      BY <2>2, <3>1, EmptyMap DEF CallbackReport, MapTypes, schedulerVars
  <2> QED
    BY <1>2, <2>1, <2>2 DEF Callback
<1>3. CASE Scheduler
  BY <1>3, EmptyMap
     DEF MapTypes, Scheduler, SchedulerCheck, SchedulerOld, SchedulerSubmit, SchedulerStore,
         SchedulerReport, statusVars
<1>4. ASSUME NEW a \in Assemblies, NEW status \in Status, Announce(a, status),
             UNCHANGED <<isRunning, statuses, reported, schedulerVars>>
      PROVE  MapTypes'
  <2>1. IsMap(Put(statuses, a, status))
    BY PutMap DEF MapTypes
  <2> QED
    BY <1>4, <2>1 DEF Announce, MapTypes, schedulerVars
<1>5. ASSUME NEW w \in Workers, Worker(w) PROVE MapTypes'
  <2>1. CASE ReadStatus(w)
    <3>1. workers[w].kind = "status" => workers[w].id \in Assemblies \cup {NoName}
      BY Works, SizesAssumption DEF Assemblies, NoName
    <3>2. Answer(workers[w].asm) \in Status
      BY DEF Answer, Status
    <3>3. IsMap(fresh')
      BY <2>1, <3>1, <3>2, PutMap DEF ReadStatus, MapTypes
    <3> QED
      BY <2>1, <3>3 DEF ReadStatus, MapTypes, statusVars
  <2>2. CASE ConnectAnnounce(w)
    BY <1>4, <2>2, Works DEF ConnectAnnounce, At, Kinds, Status
  <2>3. CASE DisconnectClose(w)
    BY <1>4, <2>3, Works DEF DisconnectClose, At, Kinds, Status
  <2>4. CASE ~ReadStatus(w) /\ ~ConnectAnnounce(w) /\ ~DisconnectClose(w)
    BY <1>1, <1>5, <2>4 DEF Worker, Command, ConnectBegin, ConnectOpen, ConnectStart,
       DisconnectBegin, DisconnectJoin, DisconnectEnd
  <2> QED
    BY <2>1, <2>2, <2>3, <2>4
<1>6. ASSUME NEW a \in Assemblies, Filter(a) \/ Change(a) PROVE MapTypes'
  <2>1. CASE FilterStart(a)
    BY <1>4, <2>1 DEF FilterStart, Status
  <2>2. CASE ~FilterStart(a)
    BY <1>1, <1>6, <2>2 DEF Filter, FilterLock, FilterStartFails, FilterEnd, FilterExit, Change
  <2> QED
    BY <2>1, <2>2
<1>7. CASE PoolTake \/ UNCHANGED vars
  BY <1>1, <1>7 DEF PoolTake, vars
<1>8. CASE InitializeStart \/ InitializeRunning \/ Disconnect
  BY <1>8 DEF InitializeStart, InitializeRunning, Disconnect, MapTypes, statusVars, schedulerVars
<1>9. ASSUME NEW kind, Call(kind) PROVE MapTypes'
  BY <1>1, <1>9 DEF Call
<1>10. CASE Read \/ JoinScheduler \/ GetFuture
  BY <1>1, <1>10 DEF Read, JoinScheduler, GetFuture
<1> QED
  BY <1>2, <1>3, <1>5, <1>6, <1>7, <1>8, <1>9, <1>10 DEF Next, Ask, GoOn

\* A task for every assembly is added to the pool's.
LEMMA AddedTasks ==
  ASSUME TaskTypes, NEW new \in [Assemblies -> NewTasks], pool' = pool \o new
  PROVE  /\ pool' \in Seq(NewTasks)
         /\ Range(pool') = Range(pool) \cup Range(new)
<1>1. N \in Nat /\ Assemblies = 1 .. N
  BY SizesAssumption DEF Assemblies
<1>2. new \in Seq(NewTasks) /\ Len(new) = N /\ DOMAIN new = 1 .. N
  BY <1>1
<1>3. pool \in Seq(NewTasks)
  BY DEF TaskTypes
<1>4. \A s, r \in Seq(NewTasks) :
        /\ s \o r \in Seq(NewTasks) /\ Len(s) \in Nat /\ Len(r) \in Nat
        /\ DOMAIN s = 1 .. Len(s) /\ DOMAIN r = 1 .. Len(r)
        /\ DOMAIN (s \o r) = 1 .. Len(s) + Len(r)
        /\ \A j \in 1 .. Len(s) + Len(r) :
             (s \o r)[j] = IF j <= Len(s) THEN s[j] ELSE r[j - Len(s)]
  OBVIOUS
<1>5. /\ pool' \in Seq(NewTasks) /\ Len(pool) \in Nat /\ DOMAIN pool = 1 .. Len(pool)
      /\ DOMAIN pool' = 1 .. Len(pool) + N
      /\ \A j \in 1 .. Len(pool) + N :
           pool'[j] = IF j <= Len(pool) THEN pool[j] ELSE new[j - Len(pool)]
  BY <1>2, <1>3, <1>4
<1>6. ASSUME NEW j \in DOMAIN pool' PROVE pool'[j] \in Range(pool) \cup Range(new)
  <2>1. CASE j <= Len(pool)
    <3>1. j \in DOMAIN pool /\ pool'[j] = pool[j]
      BY <1>1, <1>5, <2>1
    <3> QED
      BY <3>1 DEF Range
  <2>2. CASE ~(j <= Len(pool))
    <3>1. j - Len(pool) \in DOMAIN new /\ pool'[j] = new[j - Len(pool)]
      BY <1>1, <1>2, <1>5, <2>2
    <3> QED
      BY <3>1 DEF Range
  <2> QED
    BY <2>1, <2>2
<1>7. ASSUME NEW j \in DOMAIN pool PROVE pool[j] \in Range(pool')
  <2>1. j \in DOMAIN pool' /\ pool'[j] = pool[j]
    BY <1>1, <1>5
  <2> QED
    BY <2>1 DEF Range
<1>8. ASSUME NEW j \in DOMAIN new PROVE new[j] \in Range(pool')
  <2>1. /\ Len(pool) + j \in 1 .. Len(pool) + N /\ ~(Len(pool) + j <= Len(pool))
        /\ Len(pool) + j - Len(pool) = j
    BY <1>1, <1>2, <1>5
  <2>2. Len(pool) + j \in DOMAIN pool' /\ pool'[Len(pool) + j] = new[j]
    BY <1>5, <2>1
  <2> QED
    BY <2>2 DEF Range
<1>9. Range(pool') \subseteq Range(pool) \cup Range(new)
  BY <1>6 DEF Range
<1>10. Range(pool) \subseteq Range(pool') /\ Range(new) \subseteq Range(pool')
  BY <1>7, <1>8 DEF Range
<1> QED
  BY <1>5, <1>9, <1>10

\* A task that is given to the pool.
LEMMA TaskIsNew ==
  /\ \A kind \in Kinds \ {"status"}, a \in Assemblies, id \in Nat : Task(kind, a, id) \in NewTasks
  /\ \A a \in Assemblies : Task("status", a, Name(a)) \in NewTasks
  /\ \A a \in Assemblies : Name(a) \in Nat
<1>1. \A a \in Assemblies : Name(a) \in 0 .. N /\ Name(a) \in Nat
  BY NumberTypes, SizesAssumption DEF Name, NoName, Assemblies
<1> QED
  BY <1>1 DEF Task, NewTasks, AnyTasks, Kinds, Stages

\* The oldest task goes to a free thread.
LEMMA TakenTask ==
  ASSUME TaskTypes, PoolTake
  PROVE  \E w \in Workers :
           /\ workers[w] = Free /\ workers' = [workers EXCEPT ![w] = Head(pool)]
           /\ Head(pool) \in NewTasks /\ Head(pool) \in Range(pool)
           /\ pool' \in Seq(NewTasks) /\ Range(pool') \subseteq Range(pool)
<1>1. pool \in Seq(NewTasks) /\ pool # << >> /\ pool' = Tail(pool)
  BY DEF TaskTypes, PoolTake
<1>2. /\ Head(pool) \in NewTasks /\ pool' \in Seq(NewTasks) /\ Len(pool) \in Nat
      /\ Len(pool) > 0 /\ DOMAIN pool = 1 .. Len(pool) /\ Head(pool) = pool[1]
      /\ DOMAIN pool' = 1 .. Len(pool) - 1
      /\ \A j \in 1 .. Len(pool) - 1 : pool'[j] = pool[j + 1]
  BY <1>1
<1>3. Head(pool) \in Range(pool)
  BY <1>2 DEF Range
<1>4. \A j \in DOMAIN pool' : j + 1 \in DOMAIN pool /\ pool'[j] = pool[j + 1]
  BY <1>2
<1>5. Range(pool') \subseteq Range(pool)
  BY <1>4 DEF Range
<1> QED
  BY <1>2, <1>3, <1>5 DEF PoolTake

\* Where a pool thread goes on.
StepTo(w, stage) ==
  \/ ConnectBegin(w) /\ stage = "lock"
  \/ ConnectOpen(w) /\ stage = "announce"
  \/ ConnectAnnounce(w) /\ stage = "start"
  \/ DisconnectBegin(w) /\ stage = "join"
  \/ DisconnectJoin(w) /\ stage = "close"
  \/ DisconnectClose(w) /\ stage = "end"

\* What a step of a pool thread makes of its task.
NextTask(w, t) ==
  \/ t = Free
  \/ /\ workers[w].kind \in Kinds /\ t.kind = workers[w].kind /\ t.asm = workers[w].asm
     /\ t.id = workers[w].id /\ StepTo(w, t.stage)

\* A pool thread's step changes its own task only.
LEMMA WorkerTask ==
  ASSUME TaskTypes, NEW w \in Workers, Worker(w)
  PROVE  /\ pool' = pool
         /\ \E t \in WorkTasks : workers' = [workers EXCEPT ![w] = t] /\ NextTask(w, t)
<1>1. pool' = pool
  BY DEF Worker, ReadStatus, Command, ConnectBegin, ConnectOpen, ConnectAnnounce, ConnectStart,
         DisconnectBegin, DisconnectJoin, DisconnectClose, DisconnectEnd
<1>2. Free \in WorkTasks /\ NextTask(w, Free)
  BY DEF WorkTasks, NextTask
<1>3. ASSUME workers' = [workers EXCEPT ![w] = Free]
      PROVE  \E t \in WorkTasks : workers' = [workers EXCEPT ![w] = t] /\ NextTask(w, t)
  BY <1>2, <1>3
<1>4. ASSUME NEW s \in Stages, Goto(w, s), workers[w].kind \in Kinds,
             StepTo(w, s)
      PROVE  \E t \in WorkTasks : workers' = [workers EXCEPT ![w] = t] /\ NextTask(w, t)
  <2> DEFINE t == [kind |-> workers[w].kind, asm |-> workers[w].asm, id |-> workers[w].id,
                   stage |-> s]
  <2>1. workers' = [workers EXCEPT ![w] = t] /\ workers' \in [Workers -> WorkTasks]
    BY <1>4, GoesTo
  <2>2. t \in WorkTasks
    BY <2>1 DEF TaskTypes
  <2>3. NextTask(w, t)
    BY <1>4 DEF NextTask
  <2> QED
    BY <2>1, <2>2, <2>3
<1>5. CASE ReadStatus(w) \/ Command(w) \/ ConnectStart(w) \/ DisconnectEnd(w)
  BY <1>3, <1>5 DEF ReadStatus, Command, ConnectStart, DisconnectEnd, Finish, FinishFailed
<1> USE DEF Stages
<1>6. ASSUME NEW s \in Stages, Goto(w, s), StepTo(w, s)
       PROVE  \E t \in WorkTasks : workers' = [workers EXCEPT ![w] = t] /\ NextTask(w, t)
  <2>1. workers[w].kind \in Kinds
    BY <1>6 DEF StepTo, ConnectBegin, ConnectOpen, ConnectAnnounce, DisconnectBegin,
       DisconnectJoin, DisconnectClose, At, Kinds
  <2> QED
    BY <1>4, <1>6, <2>1
<1>7. CASE ConnectBegin(w)
  <2>1. Goto(w, "lock") \/ workers' = [workers EXCEPT ![w] = Free]
    BY <1>7 DEF ConnectBegin, Finish
  <2> QED
    BY <1>3, <1>6, <1>7, <2>1 DEF ConnectBegin, StepTo
<1>8. CASE ConnectOpen(w)
  <2>1. Goto(w, "announce") \/ workers' = [workers EXCEPT ![w] = Free]
    BY <1>8 DEF ConnectOpen, FinishFailed
  <2> QED
    BY <1>3, <1>6, <1>8, <2>1 DEF ConnectOpen, StepTo
<1>9. CASE ConnectAnnounce(w)
  BY <1>6, <1>9 DEF ConnectAnnounce, StepTo
<1>10. CASE DisconnectBegin(w)
  <2>1. Goto(w, "join") \/ workers' = [workers EXCEPT ![w] = Free]
    BY <1>10 DEF DisconnectBegin, Finish
  <2> QED
    BY <1>3, <1>6, <1>10, <2>1 DEF DisconnectBegin, StepTo
<1>11. CASE DisconnectJoin(w)
  <2>1. Goto(w, "close") \/ workers' = [workers EXCEPT ![w] = Free]
    BY <1>11 DEF DisconnectJoin, FinishFailed
  <2> QED
    BY <1>3, <1>6, <1>11, <2>1 DEF DisconnectJoin, StepTo
<1>12. CASE DisconnectClose(w)
  BY <1>6, <1>12 DEF DisconnectClose, StepTo
<1> QED
  BY <1>1, <1>5, <1>7, <1>8, <1>9, <1>10, <1>11, <1>12 DEF Worker

\* Every step keeps the tasks' types.
LEMMA TaskTypesNext ==
  ASSUME TypeInv, [Next]_vars
  PROVE  TaskTypes'
<1> USE DEF TypeInv
<1>1. ASSUME UNCHANGED poolVars PROVE TaskTypes'
  BY <1>1 DEF TaskTypes, poolVars
<1>2. ASSUME NEW kind \in {"connect", "command", "disconnect"}, Submit(kind), workers' = workers
      PROVE  TaskTypes'
  <2>1. [a \in Assemblies |-> Task(kind, a, call')] \in [Assemblies -> NewTasks]
    BY <1>2, TaskIsNew DEF Submit, AppTypes, Kinds
  <2> QED
    BY <1>2, <2>1, AddedTasks DEF Submit, TaskTypes
<1>3. CASE SchedulerSubmit
  <2>1. [a \in Assemblies |-> Task(IF Kept(a) THEN "status" ELSE "dropped", a, Name(a))]
          \in [Assemblies -> NewTasks]
    BY TaskIsNew DEF Kinds
  <2> QED
    BY <1>3, <2>1, AddedTasks DEF SchedulerSubmit, TaskTypes
<1>4. CASE Callback \/ (Scheduler /\ ~SchedulerSubmit) \/ UNCHANGED vars
  BY <1>1, <1>4 DEF Callback, CallbackStore, CallbackReport, Scheduler, SchedulerCheck,
     SchedulerOld, SchedulerStore, SchedulerReport, vars
<1>5. CASE PoolTake
  BY <1>5, TakenTask DEF TaskTypes, WorkTasks, NewTasks
<1>6. ASSUME NEW w \in Workers, Worker(w) PROVE TaskTypes'
  BY <1>6, WorkerTask DEF TaskTypes
<1>7. ASSUME NEW a \in Assemblies, Filter(a) \/ Change(a) PROVE TaskTypes'
  BY <1>1, <1>7 DEF Filter, FilterLock, FilterStart, FilterStartFails, FilterEnd, FilterExit,
     Change
<1>8. CASE InitializeStart \/ InitializeRunning \/ Read \/ Disconnect \/ GetFuture
  BY <1>1, <1>8 DEF InitializeStart, InitializeRunning, Read, Disconnect, GetFuture
<1>9. CASE Call("connect") \/ Call("command") \/ JoinScheduler
  BY <1>2, <1>9 DEF Call, JoinScheduler
<1> QED
  BY <1>3, <1>4, <1>5, <1>6, <1>7, <1>8, <1>9 DEF Next, Ask, GoOn

\* Every step keeps the application's types.
LEMMA AppTypesNext ==
  ASSUME TypeInv, [Next]_vars
  PROVE  AppTypes'
<1> USE NumberTypes DEF TypeInv
<1>1. ASSUME UNCHANGED appVars PROVE AppTypes'
  BY <1>1 DEF AppTypes, appVars
<1>2. CASE Callback \/ Scheduler \/ PoolTake \/ UNCHANGED vars
  BY <1>1, <1>2 DEF Callback, CallbackStore, CallbackReport, Scheduler, SchedulerCheck,
     SchedulerOld, SchedulerSubmit, SchedulerStore, SchedulerReport, PoolTake, vars
<1>3. ASSUME NEW a \in Assemblies, Filter(a) \/ Change(a) PROVE AppTypes'
  BY <1>1, <1>3 DEF Filter, FilterLock, FilterStart, FilterStartFails, FilterEnd, FilterExit,
     Change
<1>4. CASE InitializeStart \/ InitializeRunning \/ Read \/ Disconnect
  <2>1. apc' \in {"initialize", "idle", "join", apc} /\ UNCHANGED <<call, next, failed>>
    BY <1>4 DEF InitializeStart, InitializeRunning, Read, Disconnect
  <2>2. readCalls' = readCalls \/ readCalls' = readCalls + 1
    BY <1>4 DEF InitializeStart, InitializeRunning, Read, Disconnect
  <2> QED
    BY <2>1, <2>2 DEF AppTypes
<1>5. ASSUME NEW kind \in {"connect", "command", "disconnect"}, Submit(kind), apc' = kind,
             readCalls' = readCalls
      PROVE  AppTypes'
  BY <1>5 DEF Submit, AppTypes
<1>6. CASE Call("connect") \/ Call("command") \/ JoinScheduler
  BY <1>5, <1>6 DEF Call, JoinScheduler
<1>7. CASE GetFuture
  BY <1>7 DEF GetFuture, AppTypes
<1>8. ASSUME NEW w \in Workers, Worker(w) PROVE AppTypes'
  <2>1. UNCHANGED <<apc, call, next, readCalls>>
    BY <1>8 DEF Worker, ReadStatus, Command, ConnectBegin, ConnectOpen, ConnectAnnounce,
       ConnectStart, DisconnectBegin, DisconnectJoin, DisconnectClose, DisconnectEnd, appVars
  <2>2. failed' = failed \/ (failed' = failed \cup {workers[w].asm} /\ workers[w].kind \in Kinds)
    BY <1>8 DEF Worker, ReadStatus, Command, ConnectBegin, ConnectOpen, ConnectAnnounce,
       ConnectStart, DisconnectBegin, DisconnectJoin, DisconnectClose, DisconnectEnd, appVars,
       Finish, FinishFailed, At, Kinds
  <2> QED
    BY <2>1, <2>2, Works DEF AppTypes
<1> QED
  BY <1>2, <1>3, <1>4, <1>6, <1>7, <1>8 DEF Next, Ask, GoOn

\* An assembly's flags, changed.
LEMMA FlagTypes ==
  ASSUME AsmTypes, NEW a \in Assemblies
  PROVE  /\ [asm EXCEPT ![a].isRunning = TRUE, ![a].wasRunning = TRUE, ![a].connected = TRUE]
              = [asm EXCEPT ![a] = [asm[a] EXCEPT !.isRunning = TRUE, !.wasRunning = TRUE,
                                                  !.connected = TRUE]]
         /\ [asm EXCEPT ![a].reader = TRUE, ![a].named = TRUE]
              = [asm EXCEPT ![a] = [asm[a] EXCEPT !.reader = TRUE, !.named = TRUE]]
         /\ [asm EXCEPT ![a].closed = TRUE, ![a].connected = FALSE]
              = [asm EXCEPT ![a] = [asm[a] EXCEPT !.closed = TRUE, !.connected = FALSE]]
         /\ asm[a] \in Flags
         /\ \A x \in BOOLEAN : /\ [asm[a] EXCEPT !.connected = x] \in Flags
                               /\ [asm[a] EXCEPT !.isRunning = x] \in Flags
         /\ [asm[a] EXCEPT !.isRunning = TRUE, !.wasRunning = TRUE, !.connected = TRUE] \in Flags
         /\ [asm[a] EXCEPT !.reader = TRUE, !.named = TRUE] \in Flags
         /\ [asm[a] EXCEPT !.closed = TRUE, !.connected = FALSE] \in Flags
BY DEF AsmTypes, Flags

\* Every step keeps the assemblies' types.
LEMMA AsmTypesNext ==
  ASSUME TypeInv, [Next]_vars
  PROVE  AsmTypes'
<1> USE DEF TypeInv
<1>1. ASSUME UNCHANGED <<asmVars, filterVars, deviceVars>> PROVE AsmTypes'
  BY <1>1 DEF AsmTypes, asmVars, filterVars, deviceVars
<1>2. CASE Callback \/ Scheduler \/ PoolTake \/ UNCHANGED vars
  BY <1>1, <1>2 DEF Callback, CallbackStore, CallbackReport, Scheduler, SchedulerCheck,
     SchedulerOld, SchedulerSubmit, SchedulerStore, SchedulerReport, PoolTake, vars
<1>3. CASE (Ask /\ ~Read) \/ GoOn
  BY <1>1, <1>3 DEF Ask, GoOn, InitializeStart, InitializeRunning, Call, Disconnect,
     JoinScheduler, GetFuture
<1>4. CASE Read
  BY <1>4 DEF Read, AsmTypes, asmVars, deviceVars
<1>5. ASSUME NEW a \in Assemblies, NEW f \in Flags, asm' = [asm EXCEPT ![a] = f]
      PROVE  asm' \in [Assemblies -> Flags]
  BY <1>5 DEF AsmTypes
<1>6. ASSUME NEW w \in Workers, Worker(w) PROVE AsmTypes'
  <2>1. workers[w].kind \in Kinds => workers[w].asm \in Assemblies
    BY Works
  <2>2. Reachable(workers[w].asm) \in BOOLEAN
    BY DEF Reachable
  <2>3. CASE ReadStatus(w)
    <3>1. workers[w].asm \in Assemblies /\ up[workers[w].asm] \in BOOLEAN
      BY <2>1, <2>3 DEF ReadStatus, Kinds, AsmTypes
    <3>2. asm' \in [Assemblies -> Flags]
      BY <1>5, <2>3, <3>1, FlagTypes DEF ReadStatus
    <3> QED
      BY <2>3, <3>2 DEF ReadStatus, AsmTypes, filterVars, deviceVars
  <2>4. CASE Command(w)
    <3>1. workers[w].asm \in Assemblies
      BY <2>1, <2>4 DEF Command, At, Kinds
    <3>2. asm' \in [Assemblies -> Flags]
      BY <1>5, <2>2, <2>4, <3>1, FlagTypes DEF Command
    <3> QED
      BY <2>4, <3>2 DEF Command, AsmTypes, filterVars, deviceVars
  <2>5. CASE ConnectOpen(w)
    <3>1. workers[w].asm \in Assemblies
      BY <2>1, <2>5 DEF ConnectOpen, At, Kinds
    <3>2. asm' \in [Assemblies -> Flags]
      <4>1. \/ asm' = asm
            \/ asm' = [asm EXCEPT ![workers[w].asm].isRunning = TRUE,
                                  ![workers[w].asm].wasRunning = TRUE,
                                  ![workers[w].asm].connected = TRUE]
        BY <2>5 DEF ConnectOpen
      <4>2. \A a \in Assemblies :
              /\ [asm EXCEPT ![a].isRunning = TRUE, ![a].wasRunning = TRUE, ![a].connected = TRUE]
                   = [asm EXCEPT ![a] = [asm[a] EXCEPT !.isRunning = TRUE, !.wasRunning = TRUE,
                                                       !.connected = TRUE]]
              /\ [asm[a] EXCEPT !.isRunning = TRUE, !.wasRunning = TRUE, !.connected = TRUE]
                   \in Flags
        BY FlagTypes
      <4>3. asm \in [Assemblies -> Flags]
        BY DEF AsmTypes
      <4>4. \A a \in Assemblies, f \in Flags : [asm EXCEPT ![a] = f] \in [Assemblies -> Flags]
        BY <4>3
      <4>5. CASE asm' = asm
        BY <4>3, <4>5
      <4>6. CASE asm' # asm
        <5> DEFINE a == workers[w].asm
                   f == [asm[a] EXCEPT !.isRunning = TRUE, !.wasRunning = TRUE,
                                       !.connected = TRUE]
        <5>1. asm' = [asm EXCEPT ![a].isRunning = TRUE, ![a].wasRunning = TRUE,
                                 ![a].connected = TRUE]
          BY <4>1, <4>6
        <5>2. asm' = [asm EXCEPT ![a] = f] /\ f \in Flags
          BY <3>1, <4>2, <5>1
        <5> HIDE DEF f
        <5> QED
          BY <3>1, <4>4, <5>2
      <4> QED
        BY <4>5, <4>6
    <3> QED
      BY <2>5, <3>1, <3>2 DEF ConnectOpen, AsmTypes, filterVars, deviceVars
  <2>6. CASE ConnectStart(w)
    <3>1. workers[w].asm \in Assemblies
      BY <2>1, <2>6 DEF ConnectStart, At, Kinds
    <3>2. asm' \in [Assemblies -> Flags]
      <4>1. \/ asm' = [asm EXCEPT ![workers[w].asm].connected = FALSE]
            \/ asm' = [asm EXCEPT ![workers[w].asm].reader = TRUE,
                                  ![workers[w].asm].named = TRUE]
        BY <2>6 DEF ConnectStart
      <4>2. \A a \in Assemblies :
              /\ [asm EXCEPT ![a].reader = TRUE, ![a].named = TRUE]
                   = [asm EXCEPT ![a] = [asm[a] EXCEPT !.reader = TRUE, !.named = TRUE]]
              /\ [asm[a] EXCEPT !.reader = TRUE, !.named = TRUE] \in Flags
              /\ [asm[a] EXCEPT !.connected = FALSE] \in Flags
        BY FlagTypes
      <4>3. CASE asm' = [asm EXCEPT ![workers[w].asm].connected = FALSE]
        BY <1>5, <3>1, <4>2, <4>3
      <4>4. CASE asm' = [asm EXCEPT ![workers[w].asm].reader = TRUE,
                                     ![workers[w].asm].named = TRUE]
        <5>1. asm' = [asm EXCEPT ![workers[w].asm] = [asm[workers[w].asm] EXCEPT !.reader = TRUE,
                                                                               !.named = TRUE]]
          BY <3>1, <4>2, <4>4
        <5> QED
          BY <1>5, <3>1, <4>2, <5>1
      <4> QED
        BY <4>1, <4>3, <4>4
    <3> QED
      BY <2>6, <3>1, <3>2 DEF ConnectStart, AsmTypes, deviceVars
  <2>7. CASE DisconnectBegin(w)
    <3>1. workers[w].asm \in Assemblies
      BY <2>1, <2>7 DEF DisconnectBegin, At, Kinds
    <3>2. asm' \in [Assemblies -> Flags]
      BY <1>5, <2>7, <3>1, FlagTypes DEF DisconnectBegin, AsmTypes
    <3> QED
      BY <2>7, <3>2 DEF DisconnectBegin, AsmTypes, filterVars, deviceVars
  <2>8. CASE DisconnectClose(w)
    <3>1. workers[w].asm \in Assemblies
      BY <2>1, <2>8 DEF DisconnectClose, At, Kinds
    <3>2. asm' \in [Assemblies -> Flags]
      BY <1>5, <2>8, <3>1, FlagTypes DEF DisconnectClose
    <3> QED
      BY <2>8, <3>1, <3>2 DEF DisconnectClose, AsmTypes, filterVars, deviceVars
  <2>9. CASE DisconnectEnd(w)
    BY <2>9 DEF DisconnectEnd, AsmTypes, filterVars, deviceVars
  <2>10. CASE ConnectBegin(w) \/ ConnectAnnounce(w) \/ DisconnectJoin(w)
    BY <1>1, <2>10 DEF ConnectBegin, ConnectAnnounce, DisconnectJoin
  <2> QED
    BY <1>6, <2>3, <2>4, <2>5, <2>6, <2>7, <2>8, <2>9, <2>10 DEF Worker
<1>7. ASSUME NEW a \in Assemblies, Filter(a) PROVE AsmTypes'
  <2>1. CASE FilterLock(a)
    BY <2>1 DEF FilterLock, AsmTypes, deviceVars
  <2>2. CASE FilterStart(a)
    BY <2>2 DEF FilterStart, AsmTypes, asmVars, deviceVars
  <2>3. CASE FilterStartFails(a)
    <3>1. asm' \in [Assemblies -> Flags]
      BY <1>5, <2>3, FlagTypes DEF FilterStartFails
    <3> QED
      BY <2>3, <3>1 DEF FilterStartFails, AsmTypes, deviceVars
  <2>4. CASE FilterEnd(a)
    BY <2>4 DEF FilterEnd, AsmTypes, deviceVars
  <2>5. CASE FilterExit(a)
    BY <2>5 DEF FilterExit, AsmTypes, asmVars, deviceVars
  <2> QED
    BY <1>7, <2>1, <2>2, <2>3, <2>4, <2>5 DEF Filter
<1>8. ASSUME NEW a \in Assemblies, Change(a) PROVE AsmTypes'
  BY <1>8 DEF Change, AsmTypes, asmVars, filterVars
<1> QED
  BY <1>2, <1>3, <1>4, <1>6, <1>7, <1>8 DEF Next, Ask

\* TypeOK follows from the parts.
LEMMA TypesFollow == TypeInv => TypeOK
<1> SUFFICES ASSUME TypeInv PROVE TypeOK
  OBVIOUS
<1>1. TaskOK(Free)
  BY NumberTypes DEF TaskOK, Free
<1>2. \A t \in AnyTasks : TaskOK(t)
  BY NumberTypes DEF TaskOK, AnyTasks, Kinds, Stages
<1>3. \A t \in Range(pool) : t \in NewTasks
  <2>1. \A s \in Seq(NewTasks) : \A j \in DOMAIN s : s[j] \in NewTasks
    OBVIOUS
  <2> QED
    BY <2>1 DEF TypeInv, TaskTypes, Range
<1>4. DOMAIN workers = Workers /\ \A t \in Range(workers) : t \in WorkTasks
  BY DEF TypeInv, TaskTypes, Range
<1>5. \A t \in Range(pool) \cup Range(workers) : TaskOK(t)
  BY <1>1, <1>2, <1>3, <1>4 DEF NewTasks, WorkTasks
<1> QED
  BY <1>4, <1>5 DEF TypeOK, TypeInv, MapTypes, AppTypes, AsmTypes, Flags

\* The types of the variables hold in every behaviour of Spec (TypeOK); every task of the
\* pool is for an assembly.
THEOREM ManagerTypeCorrect == Spec => [](TypeOK /\ TypeInv)
<1>1. Init => TypeInv
  <2> SUFFICES ASSUME Init PROVE TypeInv
    OBVIOUS
  <2>1. MapTypes
    BY EmptyMap, NumberTypes DEF Init, MapTypes, NoCallback
  <2>2. TaskTypes
    BY DEF Init, TaskTypes, WorkTasks
  <2>3. AppTypes
    BY NumberTypes DEF Init, AppTypes
  <2>4. AsmTypes
    BY DEF Init, AsmTypes, Flags
  <2> QED
    BY <2>1, <2>2, <2>3, <2>4 DEF TypeInv
<1>2. TypeInv /\ [Next]_vars => TypeInv'
  BY MapTypesNext, TaskTypesNext, AppTypesNext, AsmTypesNext DEF TypeInv
<1>3. QED
  BY <1>1, <1>2, TypesFollow, PTL DEF Spec

-----------------------------------------------------------------------------
(* The threads are started once. *)

\* What a step does to the tasks of the pool's threads.
LEMMA WorkersAfter ==
  ASSUME TypeInv, [Next]_vars, NEW w \in Workers
  PROVE  \/ workers'[w] = workers[w]
         \/ workers[w] = Free /\ workers'[w] \in Range(pool) /\ workers'[w].stage = "begin"
         \/ Worker(w) /\ NextTask(w, workers'[w])
<1> USE DEF TypeInv
<1>1. CASE PoolTake
  <2>1. PICK v \in Workers : /\ workers[v] = Free /\ workers' = [workers EXCEPT ![v] = Head(pool)]
                             /\ Head(pool) \in NewTasks /\ Head(pool) \in Range(pool)
    BY <1>1, TakenTask
  <2> QED
    BY <2>1 DEF TaskTypes, NewTasks
<1>2. ASSUME NEW v \in Workers, Worker(v)
      PROVE  workers'[w] = workers[w] \/ (v = w /\ NextTask(w, workers'[w]))
  BY <1>2, WorkerTask DEF TaskTypes
<1>3. ASSUME workers' = workers PROVE workers'[w] = workers[w]
  BY <1>3
<1>4. CASE Callback \/ Scheduler \/ Ask \/ GoOn \/ UNCHANGED vars
  BY <1>3, <1>4 DEF Callback, CallbackStore, CallbackReport, Scheduler, SchedulerCheck,
     SchedulerOld, SchedulerSubmit, SchedulerStore, SchedulerReport, Ask, GoOn, InitializeStart,
     InitializeRunning, Call, Read, Disconnect, JoinScheduler, GetFuture, vars, poolVars
<1>5. ASSUME NEW a \in Assemblies, Filter(a) \/ Change(a) PROVE workers'[w] = workers[w]
  BY <1>3, <1>5 DEF Filter, FilterLock, FilterStart, FilterStartFails, FilterEnd, FilterExit,
     Change, poolVars
<1> QED
  BY <1>1, <1>2, <1>4, <1>5 DEF Next

\* What a step does to the flags of an assembly that are set once, and to starts.
LEMMA FlagsAfter ==
  ASSUME TypeInv, [Next]_vars,
         ~\E w \in Workers : ConnectOpen(w) \/ ConnectStart(w) \/ DisconnectClose(w)
  PROVE  /\ starts' = starts
         /\ \A a \in Assemblies : /\ asm'[a].wasRunning = asm[a].wasRunning
                                  /\ asm'[a].reader = asm[a].reader
                                  /\ asm'[a].closed = asm[a].closed
<1> USE DEF TypeInv
<1>1. ASSUME UNCHANGED asmVars PROVE starts' = starts /\ asm' = asm
  BY <1>1 DEF asmVars
<1>2. CASE Callback \/ Scheduler \/ PoolTake \/ Ask \/ GoOn \/ UNCHANGED vars
  BY <1>1, <1>2 DEF Callback, CallbackStore, CallbackReport, Scheduler, SchedulerCheck,
     SchedulerOld, SchedulerSubmit, SchedulerStore, SchedulerReport, PoolTake, Ask, GoOn,
     InitializeStart, InitializeRunning, Call, Read, Disconnect, JoinScheduler, GetFuture, vars
<1>3. ASSUME NEW b, NEW x,
             \/ asm' = [asm EXCEPT ![b].connected = x]
             \/ asm' = [asm EXCEPT ![b].isRunning = x]
             \/ asm' = asm
      PROVE  \A a \in Assemblies : /\ asm'[a].wasRunning = asm[a].wasRunning
                                   /\ asm'[a].reader = asm[a].reader
                                   /\ asm'[a].closed = asm[a].closed
  BY <1>3 DEF AsmTypes, Flags
<1>4. ASSUME NEW a \in Assemblies, Filter(a) \/ Change(a)
      PROVE  /\ starts' = starts
             /\ asm' = [asm EXCEPT ![a].connected = FALSE] \/ asm' = asm
  BY <1>4 DEF Filter, FilterLock, FilterStart, FilterStartFails, FilterEnd, FilterExit, Change,
     asmVars
<1>5. ASSUME NEW w \in Workers, Worker(w)
      PROVE  /\ starts' = starts
             /\ \/ asm' = [asm EXCEPT ![workers[w].asm].connected = up[workers[w].asm]]
                \/ asm' = [asm EXCEPT ![workers[w].asm].connected = Reachable(workers[w].asm)]
                \/ asm' = [asm EXCEPT ![workers[w].asm].isRunning = FALSE]
                \/ asm' = asm
  BY <1>5 DEF Worker, ReadStatus, Command, ConnectBegin, ConnectAnnounce, DisconnectBegin,
     DisconnectJoin, DisconnectEnd, asmVars
<1> QED
  BY <1>2, <1>3, <1>4, <1>5 DEF Next

\* Of the tasks of connect only those that saw wasRunning unset, and set it, go on.
LEMMA OpenedStep ==
  ASSUME TypeInv, \A a \in Assemblies : OpenedOnce(a), [Next]_vars
  PROVE  \A a \in Assemblies : OpenedOnce(a)'
<1> USE DEF TypeInv
<1>1. \A v \in Workers : Opened(workers[v]) => workers[v].asm \in Assemblies
  BY Works DEF Opened, Kinds
<1>2. ASSUME NEW w \in Workers, ConnectOpen(w) PROVE \A a \in Assemblies : OpenedOnce(a)'
  <2>1. workers[w].asm \in Assemblies /\ starts' = starts
        /\ workers[w].kind = "connect" /\ workers[w].stage = "lock"
    BY <1>2, Works DEF ConnectOpen, At, Kinds
  <2>2. \A v \in Workers : v # w => workers'[v] = workers[v]
    BY <1>2 DEF ConnectOpen, TaskTypes, Goto, FinishFailed
  <2>3. CASE asm' = asm /\ workers'[w] = Free
    BY <2>1, <2>2, <2>3 DEF OpenedOnce, Opened, Free
  <2>4. CASE /\ ~asm[workers[w].asm].wasRunning
             /\ asm'[workers[w].asm].wasRunning
             /\ \A a \in Assemblies : a # workers[w].asm => asm'[a] = asm[a]
             /\ workers'[w].asm = workers[w].asm
    BY <1>1, <2>1, <2>2, <2>4 DEF OpenedOnce
  <2>5. (asm' = asm /\ workers'[w] = Free)
        \/ /\ ~asm[workers[w].asm].wasRunning
           /\ asm'[workers[w].asm].wasRunning
           /\ \A a \in Assemblies : a # workers[w].asm => asm'[a] = asm[a]
           /\ workers'[w].asm = workers[w].asm
    <3>1. CASE asm[workers[w].asm].wasRunning \/ ~Opens(workers[w].asm)
      BY <1>2, <3>1 DEF ConnectOpen, FinishFailed, TaskTypes
    <3>2. CASE ~(asm[workers[w].asm].wasRunning \/ ~Opens(workers[w].asm))
      <4>1. /\ Goto(w, "announce")
            /\ asm' = [asm EXCEPT ![workers[w].asm].isRunning = TRUE,
                                  ![workers[w].asm].wasRunning = TRUE,
                                  ![workers[w].asm].connected = TRUE]
        BY <1>2, <3>2 DEF ConnectOpen
      <4>2. workers'[w].asm = workers[w].asm
        BY <2>1, <4>1, GoesTo DEF Kinds, Stages, TaskTypes
      <4>3. asm'[workers[w].asm].wasRunning
            /\ \A a \in Assemblies : a # workers[w].asm => asm'[a] = asm[a]
        BY <2>1, <4>1 DEF AsmTypes, Flags
      <4> QED
        BY <3>2, <4>2, <4>3
    <3> QED
      BY <3>1, <3>2
  <2> QED
    BY <2>3, <2>4, <2>5
<1>3. ASSUME NEW w \in Workers, ConnectStart(w) PROVE \A a \in Assemblies : OpenedOnce(a)'
  <2>1. workers[w].asm \in Assemblies /\ Opened(workers[w])
    BY <1>3, Works DEF ConnectStart, At, Kinds, Opened
  <2>2. workers'[w] = Free /\ \A v \in Workers : v # w => workers'[v] = workers[v]
    BY <1>3 DEF ConnectStart, TaskTypes, Finish, FinishFailed
  <2>3. \A a \in Assemblies : asm'[a].wasRunning = asm[a].wasRunning
    <3>1. \/ asm' = [asm EXCEPT ![workers[w].asm].connected = FALSE]
          \/ asm' = [asm EXCEPT ![workers[w].asm].reader = TRUE, ![workers[w].asm].named = TRUE]
      BY <1>3 DEF ConnectStart
    <3> QED
      BY <3>1 DEF AsmTypes, Flags
  <2>4. \A a \in Assemblies : starts'[a] = IF a = workers[w].asm THEN starts[a] + 1 ELSE starts[a]
    BY <1>3 DEF ConnectStart, AsmTypes
  <2>5. starts[workers[w].asm] = 0 /\ asm[workers[w].asm].wasRunning
        /\ \A v \in Workers : workers[v].asm = workers[w].asm /\ Opened(workers[v]) => v = w
    BY <2>1 DEF OpenedOnce
  <2>6. ~Opened(Free)
    BY DEF Opened, Free
  <2> QED
    BY <2>2, <2>3, <2>4, <2>5, <2>6 DEF OpenedOnce
<1>4. ASSUME starts' = starts, \A a \in Assemblies : asm'[a].wasRunning = asm[a].wasRunning,
             ~\E w \in Workers : ConnectOpen(w) \/ ConnectStart(w)
      PROVE  \A a \in Assemblies : OpenedOnce(a)'
  <2>1. ASSUME NEW w \in Workers, Opened(workers'[w])
        PROVE  Opened(workers[w]) /\ workers'[w].asm = workers[w].asm
    BY <1>4, <2>1, WorkersAfter
       DEF Opened, NextTask, Free, StepTo, ConnectAnnounce, At
  <2> QED
    BY <1>4, <2>1 DEF OpenedOnce
<1>5. ASSUME NEW w \in Workers, DisconnectClose(w) PROVE \A a \in Assemblies : OpenedOnce(a)'
  <2>1. starts' = starts /\ \A a \in Assemblies : asm'[a].wasRunning = asm[a].wasRunning
    BY <1>5 DEF DisconnectClose, AsmTypes, Flags
  <2> QED
    BY <1>2, <1>3, <1>4, <2>1
<1> QED
  BY <1>2, <1>3, <1>4, <1>5, FlagsAfter
\* The threads of an assembly are started at most once, whatever tasks of connect overlap in
\* the pool: Assembly::connect looks at wasRunning, and sets it, under the lock.
THEOREM ThreadsStartedOnce == Spec => []StartedOnce
<1>1. Init => \A a \in Assemblies : OpenedOnce(a)
  BY DEF Init, OpenedOnce, Opened, Free
<1>2. TypeInv /\ (\A a \in Assemblies : OpenedOnce(a)) /\ [Next]_vars
        => (\A a \in Assemblies : OpenedOnce(a))'
  BY OpenedStep
<1>3. (\A a \in Assemblies : OpenedOnce(a)) => StartedOnce
  BY DEF OpenedOnce, StartedOnce
<1>4. QED
  BY <1>1, <1>2, <1>3, ManagerTypeCorrect, PTL DEF Spec

-----------------------------------------------------------------------------
(* A closed assembly is reported. *)

\* After the call of Device::disconnect there is no other call, and no scheduler.
LEMMA OverStep ==
  ASSUME Over => spc = "exited", [Next]_vars
  PROVE  (Over => Over') /\ (Over' => spc' = "exited")
<1>1. ASSUME apc' = apc, spc' = spc PROVE (Over => Over') /\ (Over' => spc' = "exited")
  BY <1>1 DEF Over
<1>2. CASE Callback \/ PoolTake \/ UNCHANGED vars
  BY <1>1, <1>2 DEF Callback, CallbackStore, CallbackReport, PoolTake, vars, appVars,
     schedulerVars
<1>3. CASE Scheduler
  BY <1>3 DEF Over, Scheduler, SchedulerCheck, SchedulerOld, SchedulerSubmit, SchedulerStore,
     SchedulerReport, appVars
<1>4. ASSUME NEW w \in Workers, Worker(w) PROVE apc' = apc /\ spc' = spc
  BY <1>4 DEF Worker, ReadStatus, Command, ConnectBegin, ConnectOpen, ConnectAnnounce,
     ConnectStart, DisconnectBegin, DisconnectJoin, DisconnectClose, DisconnectEnd, appVars,
     schedulerVars
<1>5. ASSUME NEW a \in Assemblies, Filter(a) \/ Change(a) PROVE apc' = apc /\ spc' = spc
  BY <1>5 DEF Filter, FilterLock, FilterStart, FilterStartFails, FilterEnd, FilterExit, Change,
     appVars, schedulerVars
<1>6. CASE Ask \/ GoOn
  BY <1>6 DEF Over, Ask, GoOn, InitializeStart, InitializeRunning, Call, Read, Disconnect,
     JoinScheduler, GetFuture, schedulerVars
<1> QED
  BY <1>1, <1>2, <1>3, <1>4, <1>5, <1>6 DEF Next
\* Only Device::disconnect gives the pool tasks of disconnect.
LEMMA DisconnectTasksStep ==
  ASSUME TypeInv, ClosingInv, [Next]_vars
  PROVE  \A t \in (Range(pool) \cup Range(workers))' : t.kind = "disconnect" => Over'
<1> USE DEF TypeInv
<1>1. Over => Over'
  BY OverStep DEF ClosingInv
<1>2. \A t \in Range(pool) \cup Range(workers) : t.kind = "disconnect" => Over'
  BY <1>1 DEF ClosingInv
<1>3. ASSUME NEW t \in Range(workers'), t.kind = "disconnect" PROVE Over'
  <2>1. PICK w \in Workers : t = workers'[w]
    BY <1>3, TaskTypesNext DEF TaskTypes, Range
  <2>2. workers[w] \in Range(workers)
    BY DEF TaskTypes, Range
  <2> QED
    BY <1>2, <1>3, <2>1, <2>2, WorkersAfter DEF NextTask, Free
<1>4. ASSUME NEW t \in Range(pool'), t.kind = "disconnect" PROVE Over'
  <2>1. ASSUME NEW kind \in {"connect", "command", "disconnect"}, Submit(kind)
        PROVE  t \in Range(pool) \/ t.kind = kind
    <3> DEFINE new == [a \in Assemblies |-> Task(kind, a, call')]
    <3>1. new \in [Assemblies -> NewTasks]
      BY <2>1, TaskIsNew DEF Submit, AppTypes, Kinds
    <3>2. Range(pool') = Range(pool) \cup Range(new)
      BY <2>1, <3>1, AddedTasks DEF Submit
    <3>3. \A r \in Range(new) : r.kind = kind
      BY DEF Range, Task
    <3> HIDE DEF new
    <3> QED
      BY <1>4, <3>2, <3>3
  <2>2. CASE SchedulerSubmit
    <3> DEFINE new == [a \in Assemblies |->
                         Task(IF Kept(a) THEN "status" ELSE "dropped", a, Name(a))]
    <3>1. new \in [Assemblies -> NewTasks]
      BY TaskIsNew DEF Kinds
    <3>2. Range(pool') = Range(pool) \cup Range(new)
      BY <2>2, <3>1, AddedTasks DEF SchedulerSubmit
    <3>3. \A r \in Range(new) : r.kind \in {"status", "dropped"}
      BY DEF Range, Task
    <3> HIDE DEF new
    <3> QED
      BY <1>2, <1>4, <3>2, <3>3
  <2>3. CASE Call("connect") \/ Call("command")
    BY <1>2, <1>4, <2>1, <2>3 DEF Call
  <2>4. CASE JoinScheduler
    BY <2>4 DEF JoinScheduler, Over
  <2>5. CASE PoolTake
    BY <1>2, <1>4, <2>5, TakenTask
  <2>6. ASSUME pool' = pool PROVE Over'
    BY <1>2, <1>4, <2>6
  <2>7. CASE Callback \/ (Scheduler /\ ~SchedulerSubmit) \/ UNCHANGED vars
    BY <2>6, <2>7 DEF Callback, CallbackStore, CallbackReport, Scheduler, SchedulerCheck,
       SchedulerOld, SchedulerStore, SchedulerReport, vars, poolVars
  <2>8. CASE InitializeStart \/ InitializeRunning \/ Read \/ Disconnect \/ GetFuture
    BY <2>6, <2>8 DEF InitializeStart, InitializeRunning, Read, Disconnect, GetFuture, poolVars
  <2>9. CASE \E w \in Workers : Worker(w)
    BY <2>6, <2>9, WorkerTask
  <2>10. ASSUME NEW a \in Assemblies, Filter(a) \/ Change(a) PROVE pool' = pool
    BY <2>10 DEF Filter, FilterLock, FilterStart, FilterStartFails, FilterEnd, FilterExit,
       Change, poolVars
  <2> QED
    BY <2>2, <2>3, <2>4, <2>5, <2>6, <2>7, <2>8, <2>9, <2>10 DEF Next, Ask, GoOn
<1> QED
  BY <1>3, <1>4

\* An assembly whose reader thread was started is not opened again.
LEMMA NotOpened ==
  ASSUME NEW a \in Assemblies, OpenedOnce(a), Closed(a), asm[a].reader, NEW w \in Workers,
         workers[w].asm = a
  PROVE  ~ConnectAnnounce(w) /\ ~ConnectStart(w)
BY DEF OpenedOnce, Closed, ConnectAnnounce, ConnectStart, At, Opened

\* The threads of an assembly that ended are not started again.
LEMMA ExitedStep ==
  ASSUME TypeInv, NEW a \in Assemblies, OpenedOnce(a), Closed(a), asm[a].reader,
         fpc[a] = "exited", [Next]_vars
  PROVE  fpc'[a] = "exited"
<1> USE DEF TypeInv
<1>1. ASSUME fpc' = fpc PROVE fpc'[a] = "exited"
  BY <1>1
<1>2. CASE Callback \/ Scheduler \/ PoolTake \/ Ask \/ GoOn \/ UNCHANGED vars
  BY <1>1, <1>2 DEF Callback, CallbackStore, CallbackReport, Scheduler, SchedulerCheck,
     SchedulerOld, SchedulerSubmit, SchedulerStore, SchedulerReport, PoolTake, Ask, GoOn,
     InitializeStart, InitializeRunning, Call, Read, Disconnect, JoinScheduler, GetFuture, vars,
     filterVars
<1>3. ASSUME NEW w \in Workers, Worker(w), ~ConnectStart(w) PROVE fpc' = fpc
  BY <1>3 DEF Worker, ReadStatus, Command, ConnectBegin, ConnectOpen, ConnectAnnounce,
     DisconnectBegin, DisconnectJoin, DisconnectClose, DisconnectEnd, filterVars
<1>4. ASSUME NEW w \in Workers, ConnectStart(w) PROVE fpc'[a] = "exited"
  <2>1. workers[w].asm # a
    BY <1>4, NotOpened
  <2>2. fpc' = [fpc EXCEPT ![workers[w].asm] = "pop"]
    BY <1>4 DEF ConnectStart
  <2> QED
    BY <2>1, <2>2 DEF AsmTypes
<1>5. ASSUME NEW b \in Assemblies, Filter(b) PROVE b # a /\ \E s : fpc' = [fpc EXCEPT ![b] = s]
  BY <1>5 DEF Filter, FilterLock, FilterStart, FilterStartFails, FilterEnd, FilterExit
<1>6. ASSUME NEW b \in Assemblies, Change(b) PROVE fpc' = fpc
  BY <1>6 DEF Change, filterVars
<1>7. ASSUME NEW b \in Assemblies, NEW s, b # a, fpc' = [fpc EXCEPT ![b] = s]
      PROVE  fpc'[a] = "exited"
  BY <1>7 DEF AsmTypes
<1> QED
  BY <1>1, <1>2, <1>3, <1>4, <1>5, <1>6, <1>7 DEF Next
\* What a step after the call of Device::disconnect does to the maps: it announces no
\* assembly whose threads have ended, but as DISCONNECTED.
LEMMA MapsAfter ==
  ASSUME TypeInv, NEW a \in Assemblies, OpenedOnce(a), Closed(a), asm[a].reader,
         fpc[a] = "exited", Over, spc = "exited", [Next]_vars
  PROVE  \/ UNCHANGED statusVars
         \/ CallbackStore
         \/ CallbackReport
         \/ /\ UNCHANGED <<statuses, reported>>
            /\ \E b \in Assemblies : \E s : b # a /\ Announce(b, s)
         \/ \E w \in Workers : workers[w].asm = a /\ DisconnectClose(w)
<1> USE DEF TypeInv
<1>1. CASE Scheduler
  BY <1>1 DEF Scheduler, SchedulerCheck, SchedulerOld, SchedulerSubmit, SchedulerStore,
     SchedulerReport
<1>2. CASE Callback \/ PoolTake \/ Ask \/ GoOn \/ UNCHANGED vars
  BY <1>2 DEF Callback, PoolTake, Ask, GoOn, InitializeStart, InitializeRunning, Call, Read,
     Disconnect, JoinScheduler, GetFuture, vars
<1>3. ASSUME NEW b \in Assemblies, Filter(b) \/ Change(b)
      PROVE  \/ UNCHANGED statusVars
             \/ b # a /\ UNCHANGED <<statuses, reported>> /\ Announce(b, "BYSY")
  BY <1>3 DEF Filter, FilterLock, FilterStart, FilterStartFails, FilterEnd, FilterExit, Change
<1>4. ASSUME NEW w \in Workers, Worker(w), ~ConnectAnnounce(w), ~DisconnectClose(w)
      PROVE  UNCHANGED statusVars
  BY <1>4 DEF Worker, ReadStatus, Command, ConnectBegin, ConnectOpen, ConnectStart,
     DisconnectBegin, DisconnectJoin, DisconnectEnd
<1>5. ASSUME NEW w \in Workers, ConnectAnnounce(w)
      PROVE  /\ workers[w].asm \in Assemblies /\ workers[w].asm # a
             /\ UNCHANGED <<statuses, reported>> /\ Announce(workers[w].asm, "ALIVE")
  BY <1>5, NotOpened, Works DEF ConnectAnnounce, At, Kinds
<1>6. ASSUME NEW w \in Workers, DisconnectClose(w), workers[w].asm # a
      PROVE  /\ workers[w].asm \in Assemblies
             /\ UNCHANGED <<statuses, reported>> /\ Announce(workers[w].asm, "DISCONNECTED")
  BY <1>6, Works DEF DisconnectClose, At, Kinds
<1> QED
  BY <1>1, <1>2, <1>3, <1>4, <1>5, <1>6 DEF Next

\* DISCONNECTED stays in the maps.
LEMMA ReportedStep ==
  ASSUME TypeInv, NEW a \in Assemblies, OpenedOnce(a), Closed(a), asm[a].reader,
         fpc[a] = "exited", Over, spc = "exited", IsReported(a), [Next]_vars,
         ~\E w \in Workers : workers[w].asm = a /\ DisconnectClose(w)
  PROVE  IsReported(a)'
<1>1. CASE UNCHANGED statusVars
  BY <1>1 DEF IsReported, statusVars
<1>2. CASE CallbackStore
  <2>1. /\ statuses' = callback.map /\ reported' = reported
        /\ callback' = [callback EXCEPT !.stored = TRUE]
        /\ a \in DOMAIN callback.map /\ callback.map[a] = "DISCONNECTED"
    BY <1>2 DEF CallbackStore, IsReported
  <2>2. callback'.map = callback.map
    BY <2>1 DEF TypeInv, MapTypes
  <2> QED
    BY <2>1, <2>2 DEF IsReported
<1>3. CASE CallbackReport
  <2>1. /\ statuses' = statuses /\ reported' = callback.map /\ callback' = NoCallback
        /\ callback # NoCallback
    BY <1>3 DEF CallbackReport, NoCallback
  <2> QED
    BY <2>1 DEF IsReported
<1>4. ASSUME UNCHANGED <<statuses, reported>>, NEW b \in Assemblies, NEW s, b # a, Announce(b, s)
      PROVE  IsReported(a)'
  <2>1. callback'.map = Put(statuses, b, s)
    BY <1>4 DEF Announce
  <2>2. a \in DOMAIN Put(statuses, b, s) /\ Put(statuses, b, s)[a] = "DISCONNECTED"
    BY <1>4 DEF Put, IsReported
  <2> QED
    BY <1>4, <2>1, <2>2 DEF IsReported
<1> QED
  BY <1>1, <1>2, <1>3, <1>4, MapsAfter

\* The callback that says it is followed by the report.
LEMMA AboutToReportStep ==
  ASSUME TypeInv, NEW a \in Assemblies, OpenedOnce(a), Closed(a), asm[a].reader,
         fpc[a] = "exited", Over, spc = "exited", AboutToReport(a), [Next]_vars
  PROVE  AboutToReport(a)' \/ IsReported(a)'
<1>1. callback # NoCallback
  BY NumberTypes DEF AboutToReport, NoCallback
<1>2. PICK w \in Workers : /\ workers[w].asm = a /\ workers[w].kind = "disconnect"
                           /\ workers[w].stage = "end"
  BY DEF AboutToReport
<1>3. workers'[w] = workers[w]
  <2>1. ~Worker(w)
    BY <1>2 DEF AboutToReport, Worker, ReadStatus, Command, ConnectBegin, ConnectOpen,
       ConnectAnnounce, ConnectStart, DisconnectBegin, DisconnectJoin, DisconnectClose,
       DisconnectEnd, At, Announcing
  <2> QED
    BY <1>2, <2>1, WorkersAfter DEF Free
<1>4. CASE UNCHANGED statusVars
  BY <1>2, <1>3, <1>4 DEF AboutToReport, statusVars
<1>5. CASE CallbackStore
  <2>1. /\ statuses' = callback.map
        /\ callback' = [callback EXCEPT !.stored = TRUE]
    BY <1>5 DEF CallbackStore
  <2>2. callback'.map = callback.map /\ callback'.asm = callback.asm
    BY <2>1 DEF TypeInv, MapTypes
  <2> QED
    BY <1>2, <1>3, <2>1, <2>2 DEF AboutToReport
<1>6. CASE CallbackReport
  BY <1>6 DEF AboutToReport, IsReported, CallbackReport
<1>7. ASSUME NEW v, NEW s, Announce(v, s) PROVE FALSE
  BY <1>1, <1>7 DEF Announce
<1> QED
  BY <1>4, <1>5, <1>6, <1>7, MapsAfter DEF DisconnectClose

\* A task closes an assembly, and announces it.
LEMMA CloseStep ==
  ASSUME TypeInv, ClosingInv, NEW w \in Workers, DisconnectClose(w), NEW a, a = workers[w].asm
  PROVE  /\ a \in Assemblies /\ Over /\ fpc[a] = "exited" /\ asm[a].reader
         /\ UNCHANGED <<fpc, starts>>
         /\ \A b \in Assemblies : /\ asm'[b].reader = asm[b].reader
                                  /\ b # a => asm'[b].closed = asm[b].closed
         /\ AboutToReport(a)'
<1> USE DEF TypeInv
<1>1. a \in Assemblies /\ workers[w].kind = "disconnect" /\ workers[w].stage = "close"
  BY Works DEF DisconnectClose, At, Kinds
<1>2. Over
  <2>1. workers[w] \in Range(workers)
    BY DEF TaskTypes, Range
  <2> QED
    BY <1>1, <2>1 DEF ClosingInv
<1>3. fpc[a] = "exited" /\ asm[a].reader
  BY <1>1 DEF ClosingInv, Closed, Joined
<1>4. \A b \in Assemblies : /\ asm'[b].reader = asm[b].reader
                            /\ b # a => asm'[b].closed = asm[b].closed
  <2>1. asm' = [asm EXCEPT ![a].closed = TRUE, ![a].connected = FALSE]
    BY DEF DisconnectClose
  <2> QED
    BY <1>1, <2>1 DEF AsmTypes, Flags
<1>5. /\ workers' = [workers EXCEPT ![w] = [kind |-> workers[w].kind, asm |-> workers[w].asm,
                                            id |-> workers[w].id, stage |-> "end"]]
  BY <1>1, GoesTo DEF DisconnectClose, Kinds, Stages
<1>6. workers'[w].asm = a /\ workers'[w].kind = "disconnect" /\ workers'[w].stage = "end"
  BY <1>1, <1>5 DEF TaskTypes
<1>7. callback' = [asm |-> a, map |-> Put(statuses, a, "DISCONNECTED"), stored |-> FALSE]
  BY DEF DisconnectClose, Announce
<1>8. callback'.asm = a /\ callback'.map = Put(statuses, a, "DISCONNECTED") /\ ~callback'.stored
  BY <1>7
<1>9. a \in DOMAIN callback'.map /\ callback'.map[a] = "DISCONNECTED"
  BY <1>8 DEF Put
<1>10. AboutToReport(a)'
  BY <1>6, <1>8, <1>9 DEF AboutToReport
<1> QED
  BY <1>1, <1>2, <1>3, <1>4, <1>10 DEF DisconnectClose, filterVars
\* Every step keeps what is said of an assembly.
LEMMA ClosedStep ==
  ASSUME TypeInv, \A a \in Assemblies : OpenedOnce(a), ClosingInv, [Next]_vars,
         NEW a \in Assemblies
  PROVE  Closed(a)'
<1> USE DEF TypeInv
<1>1. Closed(a) /\ OpenedOnce(a) /\ (Over => Over' /\ spc = "exited")
  BY OverStep DEF ClosingInv
<1>2. asm[a].reader => asm'[a].reader /\ starts'[a] = starts[a]
  <2>1. ASSUME NEW w \in Workers, ConnectStart(w), asm[a].reader
        PROVE  asm'[a].reader /\ starts'[a] = starts[a]
    <3>1. workers[w].asm # a
      BY <1>1, <2>1, NotOpened
    <3>2. starts' = [starts EXCEPT ![workers[w].asm] = @ + 1]
          /\ \/ asm' = [asm EXCEPT ![workers[w].asm].connected = FALSE]
             \/ asm' = [asm EXCEPT ![workers[w].asm].reader = TRUE,
                                   ![workers[w].asm].named = TRUE]
      BY <2>1 DEF ConnectStart
    <3> QED
      BY <2>1, <3>1, <3>2 DEF AsmTypes
  <2>2. ASSUME NEW w \in Workers, ConnectOpen(w)
        PROVE  asm'[a].reader = asm[a].reader /\ starts' = starts
    <3>1. \/ asm' = asm
          \/ asm' = [asm EXCEPT ![workers[w].asm].isRunning = TRUE,
                                ![workers[w].asm].wasRunning = TRUE,
                                ![workers[w].asm].connected = TRUE]
      BY <2>2 DEF ConnectOpen
    <3> QED
      BY <2>2, <3>1 DEF AsmTypes, Flags, ConnectOpen
  <2> QED
    BY <2>1, <2>2, CloseStep, FlagsAfter
<1>3. asm'[a].reader => starts'[a] # 0
  <2>1. ASSUME NEW w \in Workers, ConnectStart(w), ~asm[a].reader, asm'[a].reader
        PROVE  starts'[a] # 0
    <3>1. starts' = [starts EXCEPT ![workers[w].asm] = @ + 1]
          /\ \/ asm' = [asm EXCEPT ![workers[w].asm].connected = FALSE]
             \/ asm' = [asm EXCEPT ![workers[w].asm].reader = TRUE,
                                   ![workers[w].asm].named = TRUE]
      BY <2>1 DEF ConnectStart
    <3>2. workers[w].asm = a
      BY <2>1, <3>1 DEF AsmTypes, Flags
    <3> QED
      BY <3>1, <3>2 DEF AsmTypes
  <2>2. ASSUME NEW w \in Workers, ConnectOpen(w) PROVE asm'[a].reader = asm[a].reader
    <3>1. \/ asm' = asm
          \/ asm' = [asm EXCEPT ![workers[w].asm].isRunning = TRUE,
                                ![workers[w].asm].wasRunning = TRUE,
                                ![workers[w].asm].connected = TRUE]
      BY <2>2 DEF ConnectOpen
    <3> QED
      BY <3>1 DEF AsmTypes, Flags
  <2>3. asm[a].reader => starts'[a] # 0
    BY <1>1, <1>2 DEF Closed
  <2> QED
    BY <2>1, <2>2, <2>3, CloseStep, FlagsAfter
<1>4. Joined(a)'
  <2> SUFFICES ASSUME NEW w \in Workers', workers'[w].asm = a, workers'[w].kind = "disconnect",
                      workers'[w].stage \in {"close", "end"}
               PROVE  fpc'[a] = "exited" /\ asm'[a].reader
    BY DEF Joined
  <2>1. w \in Workers
    BY DEF Workers
  <2>2. ASSUME workers'[w] = workers[w] PROVE fpc[a] = "exited" /\ asm[a].reader
    BY <1>1, <2>1, <2>2 DEF Closed, Joined
  <2>3. ASSUME Worker(w), NextTask(w, workers'[w]) PROVE fpc[a] = "exited" /\ asm[a].reader
    <3>1. workers[w].asm = a /\ StepTo(w, workers'[w].stage) /\ workers'[w] # Free
      BY <2>3 DEF NextTask, Free
    <3>2. CASE DisconnectJoin(w)
      <4>1. workers' # [workers EXCEPT ![w] = Free]
        BY <2>1, <3>1 DEF TaskTypes
      <4> QED
        BY <3>1, <3>2, <4>1 DEF DisconnectJoin, FinishFailed
    <3>3. CASE DisconnectClose(w)
      BY <1>1, <2>1, <3>1, <3>3 DEF DisconnectClose, At, Closed, Joined
    <3> QED
      BY <3>1, <3>2, <3>3 DEF StepTo
  <2>4. workers'[w].stage # "begin"
    OBVIOUS
  <2>5. fpc[a] = "exited" /\ asm[a].reader
    BY <2>1, <2>2, <2>3, <2>4, WorkersAfter
  <2> QED
    BY <1>1, <1>2, <2>5, ExitedStep
<1>5. ASSUME asm[a].closed PROVE Over' /\ fpc'[a] = "exited" /\ asm'[a].reader
                                 /\ (AboutToReport(a)' \/ IsReported(a)')
  <2>1. Over /\ fpc[a] = "exited" /\ asm[a].reader /\ (AboutToReport(a) \/ IsReported(a))
    BY <1>1, <1>5 DEF Closed
  <2>2. (\E w \in Workers : workers[w].asm = a /\ DisconnectClose(w)) => AboutToReport(a)'
    BY CloseStep
  <2> QED
    BY <1>1, <1>2, <2>1, <2>2, ExitedStep, ReportedStep, AboutToReportStep
<1>6. ASSUME ~asm[a].closed, asm'[a].closed
      PROVE  Over' /\ fpc'[a] = "exited" /\ asm'[a].reader /\ AboutToReport(a)'
  <2>1. ASSUME NEW w \in Workers, ConnectStart(w) \/ ConnectOpen(w)
        PROVE  asm'[a].closed = asm[a].closed
    <3>1. \/ asm' = asm
          \/ asm' = [asm EXCEPT ![workers[w].asm].isRunning = TRUE,
                                ![workers[w].asm].wasRunning = TRUE,
                                ![workers[w].asm].connected = TRUE]
          \/ asm' = [asm EXCEPT ![workers[w].asm].connected = FALSE]
          \/ asm' = [asm EXCEPT ![workers[w].asm].reader = TRUE, ![workers[w].asm].named = TRUE]
      BY <2>1 DEF ConnectOpen, ConnectStart
    <3> QED
      BY <3>1 DEF AsmTypes, Flags
  <2>2. PICK w \in Workers : DisconnectClose(w)
    BY <1>6, <2>1, FlagsAfter
  <2>3. workers[w].asm = a
    BY <1>6, <2>2, CloseStep
  <2> QED
    BY <1>1, <2>2, <2>3, CloseStep
<1> QED
  BY <1>3, <1>4, <1>5, <1>6 DEF Closed

\* When Device::disconnect has returned and its tasks are done, the last map given to the
\* application says DISCONNECTED for every closed assembly: the scheduler thread was joined
\* before, and the maps of the other assemblies' callbacks keep the entry.
THEOREM ClosedReported == Spec => []ClosedIsReported
<1>1. Init => \A a \in Assemblies : OpenedOnce(a)
  BY DEF Init, OpenedOnce, Opened, Free
<1>2. Init => ClosingInv
  <2> SUFFICES ASSUME Init PROVE ClosingInv
    OBVIOUS
  <2>1. \A t \in Range(pool) \cup Range(workers) : t.kind # "disconnect"
    BY DEF Init, Range, Free
  <2>2. \A a \in Assemblies : Closed(a)
    BY DEF Init, Closed, Joined, Free
  <2> QED
    BY <2>1, <2>2 DEF Init, ClosingInv, Over
<1>3. TypeInv /\ ManagerInv /\ [Next]_vars => ManagerInv'
  <2> SUFFICES ASSUME TypeInv, ManagerInv, [Next]_vars PROVE ManagerInv'
    OBVIOUS
  <2>1. \A a \in Assemblies : OpenedOnce(a)'
    BY OpenedStep DEF ManagerInv
  <2>2. Over' => spc' = "exited"
    BY OverStep DEF ManagerInv, ClosingInv
  <2>3. \A t \in (Range(pool) \cup Range(workers))' : t.kind = "disconnect" => Over'
    BY DisconnectTasksStep DEF ManagerInv
  <2>4. \A a \in Assemblies : Closed(a)'
    BY ClosedStep DEF ManagerInv
  <2> QED
    BY <2>1, <2>2, <2>3, <2>4 DEF ManagerInv, ClosingInv
<1>4. TypeInv /\ ManagerInv => ClosedIsReported
  <2> SUFFICES ASSUME TypeInv, ManagerInv, Tasks = {}, NEW a \in Assemblies, asm[a].closed
               PROVE  a \in DOMAIN reported /\ reported[a] = "DISCONNECTED"
    BY DEF ClosedIsReported
  <2>1. \A w \in Workers : workers[w] = Free
    BY DEF Tasks
  <2>2. ~AboutToReport(a)
    BY <2>1 DEF AboutToReport, Free
  <2> QED
    BY <2>2 DEF ManagerInv, ClosingInv, Closed, IsReported
<1>5. QED
  BY <1>1, <1>2, <1>3, <1>4, ManagerTypeCorrect, PTL DEF Spec, ManagerInv

=============================================================================
