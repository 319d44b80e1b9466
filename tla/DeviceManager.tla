---------------------------- MODULE DeviceManager ----------------------------
(***************************************************************************)
(* The classes DeviceManager and Device (lib/include/device): one call of  *)
(* the application is made of one task per assembly, run by a thread pool, *)
(* and of the wait for their futures; a scheduler thread polls the status  *)
(* of the assemblies through the same pool; and the assemblies report      *)
(* changes of their status through a callback.                             *)
(*                                                                         *)
(* Of an assembly (module Assembly) this module keeps what its callers     *)
(* see: its lock, its flags, and a filter thread that holds the lock for a *)
(* reading, which ends at some time.  An exchange with the device under    *)
(* the lock is one step: it succeeds if the assembly answers then.         *)
(***************************************************************************)
EXTENDS Integers, Sequences, Functions

CONSTANTS
  N,           \* the number of assemblies
  PoolSize,    \* threads in Device::pool (the number of processors)
  MaxCalls,    \* bound: calls of connect and of writeCr
  MaxReads,    \* bound: calls of read
  MaxChanges   \* bound: how often an assembly stops or starts to answer

ASSUME SizesAssumption == N \in Nat \ {0} /\ PoolSize \in Nat \ {0}

ASSUME BoundsAssumption == {MaxCalls, MaxReads, MaxChanges} \subseteq Nat

Assemblies == 1 .. N
Workers == 1 .. PoolSize

\* The key of an assembly whose parameters were not read yet is "".
NoName == 0

VARIABLES
  isRunning,   \* DeviceManager::isRunning
  statuses,    \* Device::assemblyStatuses: a map from names to statuses
  callback,    \* the status callback under way (statusMutex)
  reported,    \* history: the map last passed to the application's callback
  spc,         \* where the scheduler thread is
  old,         \* its oldStatuses
  fresh,       \* its newStatuses, as far as they are known
  pool,        \* the tasks that wait for a pool thread
  workers,     \* the task that each pool thread works on
  apc,         \* where the application is
  call,        \* the number of its last call
  next,        \* the assembly whose future it gets next
  failed,      \* the assemblies whose task of this call ended in an exception
  asm,         \* the flags of each assembly (connected is MasiEthernet's)
  mutex,       \* who holds Assembly::mutex
  fpc,         \* where the filter thread of each assembly is
  reads,       \* READ messages in its queue
  starts,      \* history: how often its threads were started
  readCalls,   \* calls of read so far
  up,          \* external: the assembly answers
  changes      \* how often that changed

schedulerVars == <<spc, old, fresh>>
poolVars == <<pool, workers>>
appVars == <<apc, call, next, failed, readCalls>>
statusVars == <<statuses, callback, reported>>
asmVars == <<asm, mutex, starts>>
filterVars == <<fpc, reads>>
deviceVars == <<up, changes>>
vars == <<isRunning, statusVars, schedulerVars, poolVars, appVars, asmVars, filterVars,
          deviceVars>>

Empty == << >>   \* the empty map

Free == [kind |-> "free", asm |-> 0, id |-> 0, stage |-> "begin"]
NoCallback == [asm |-> 0, map |-> Empty, stored |-> FALSE]

\* id is the number of the call, or the name a status is stored under.
Task(kind, a, id) == [kind |-> kind, asm |-> a, id |-> id, stage |-> "begin"]

Name(a) == IF asm[a].named THEN a ELSE NoName

\* statuses[name] = status
Put(map, name, status) ==
  [n \in DOMAIN map \cup {name} |-> IF n = name THEN status ELSE map[n]]

Answer(a) == IF up[a] THEN "ALIVE" ELSE "DISCONNECTED"

\* commandConnect succeeds: it does nothing when the sockets are open.
Opens(a) == up[a] \/ asm[a].connected

\* A command succeeds; if not, MasiEthernet has closed its sockets.
Reachable(a) == up[a] /\ asm[a].connected

\* The tasks that are not finished.
Tasks == Range(pool) \cup {workers[w] : w \in {v \in Workers : workers[v] # Free}}

-----------------------------------------------------------------------------
(* The status callback given to the assemblies in DeviceManager::initialize: *)
(* it reads, changes and writes back the map under statusMutex.              *)

Announcing(a) == callback.asm = a

Announce(a, status) ==
  /\ callback = NoCallback
  /\ callback' = [asm |-> a, map |-> Put(statuses, a, status), stored |-> FALSE]

CallbackStore ==
  /\ callback # NoCallback
  /\ ~callback.stored
  /\ statuses' = callback.map
  /\ callback' = [callback EXCEPT !.stored = TRUE]
  /\ UNCHANGED <<isRunning, reported, schedulerVars, poolVars, appVars, asmVars,
                 filterVars, deviceVars>>

CallbackReport ==
  /\ callback.stored
  /\ reported' = callback.map
  /\ callback' = NoCallback
  /\ UNCHANGED <<isRunning, statuses, schedulerVars, poolVars, appVars, asmVars,
                 filterVars, deviceVars>>

-----------------------------------------------------------------------------
(* The scheduler thread, checkAssembliesStatusLoop. *)

SchedulerCheck ==
  /\ spc = "check"
  /\ spc' = IF isRunning THEN "sleep" ELSE "exited"
  /\ UNCHANGED <<isRunning, statusVars, old, fresh, poolVars, appVars, asmVars,
                 filterVars, deviceVars>>

\* After the sleep the old statuses are copied, without statusMutex.
SchedulerOld ==
  /\ spc = "sleep"
  /\ old' = statuses
  /\ spc' = "submit"
  /\ UNCHANGED <<isRunning, statusVars, fresh, poolVars, appVars, asmVars, filterVars,
                 deviceVars>>

\* The map of futures has one entry per name: of the assemblies without a
\* name the first one's future is kept, the others' tasks run for nothing.
Kept(a) == asm[a].named \/ \A b \in 1 .. a - 1 : asm[b].named

SchedulerSubmit ==
  /\ spc = "submit"
  /\ pool' = pool \o [a \in Assemblies |->
                       Task(IF Kept(a) THEN "status" ELSE "dropped", a, Name(a))]
  /\ spc' = "wait"
  /\ UNCHANGED <<isRunning, statusVars, old, fresh, workers, appVars, asmVars,
                 filterVars, deviceVars>>

\* A slip: the new statuses are returned and not stored.
SlipNotStored ==
  /\ spc = "wait"
  /\ \A t \in Tasks : t.kind # "status"
  /\ spc' = "compare"
  /\ UNCHANGED <<isRunning, statusVars, old, fresh, poolVars, appVars, asmVars,
                 filterVars, deviceVars>>

\* Every future was got, and readAssemblyStatuses stores the result.
SchedulerStore ==
  /\ spc = "wait"
  /\ \A t \in Tasks : t.kind # "status"
  /\ statuses' = fresh
  /\ spc' = "compare"
  /\ UNCHANGED <<isRunning, callback, reported, old, fresh, poolVars, appVars, asmVars,
                 filterVars, deviceVars>>

SchedulerReport ==
  /\ spc = "compare"
  /\ reported' = IF old # fresh THEN fresh ELSE reported
  /\ old' = Empty
  /\ fresh' = Empty
  /\ spc' = "check"
  /\ UNCHANGED <<isRunning, statuses, callback, poolVars, appVars, asmVars, filterVars,
                 deviceVars>>

-----------------------------------------------------------------------------
(* The pool. *)

\* A free thread takes the oldest task; which thread it is does not matter.
PoolTake ==
  /\ pool # << >>
  /\ \E w \in Workers :
       /\ workers[w] = Free
       /\ \A v \in 1 .. w - 1 : workers[v] # Free
       /\ workers' = [workers EXCEPT ![w] = Head(pool)]
  /\ pool' = Tail(pool)
  /\ UNCHANGED <<isRunning, statusVars, schedulerVars, appVars, asmVars, filterVars,
                 deviceVars>>

At(w, kind, stage) == workers[w].kind = kind /\ workers[w].stage = stage

Goto(w, stage) == workers' = [workers EXCEPT ![w].stage = stage]

Finish(w) ==
  /\ workers' = [workers EXCEPT ![w] = Free]
  /\ UNCHANGED failed

\* The exception is kept in the future, which only its own call looks at.
FinishFailed(w) ==
  /\ workers' = [workers EXCEPT ![w] = Free]
  /\ failed' = IF workers[w].id = call THEN failed \cup {workers[w].asm} ELSE failed

\* getAssemblyStatus: getStatus under the lock, and no exception.  It opens
\* the sockets of an assembly that does not have them open.
ReadStatus(w) ==
  LET t == workers[w] IN
  /\ t.kind \in {"status", "dropped"}
  /\ mutex[t.asm] = "none"
  /\ fresh' = IF t.kind = "status" THEN Put(fresh, t.id, Answer(t.asm)) ELSE fresh
  /\ asm' = [asm EXCEPT ![t.asm].connected = up[t.asm]]
  /\ Finish(w)
  /\ UNCHANGED <<isRunning, statusVars, spc, old, pool, apc, call, next, readCalls,
                 mutex, starts, filterVars, deviceVars>>

\* writeCr: one exchange under the lock.
Command(w) ==
  LET a == workers[w].asm IN
  /\ At(w, "command", "begin")
  /\ mutex[a] = "none"
  /\ asm' = [asm EXCEPT ![a].connected = Reachable(a)]
  /\ IF Reachable(a) THEN Finish(w) ELSE FinishFailed(w)
  /\ UNCHANGED <<isRunning, statusVars, schedulerVars, pool, apc, call, next, readCalls,
                 mutex, starts, filterVars, deviceVars>>

(* Assembly::connect *)

\* The first check is made without the lock.
ConnectBegin(w) ==
  LET a == workers[w].asm IN
  /\ At(w, "connect", "begin")
  /\ IF asm[a].isRunning THEN Finish(w) ELSE Goto(w, "lock") /\ UNCHANGED failed
  /\ UNCHANGED <<isRunning, statusVars, schedulerVars, pool, apc, call, next, readCalls,
                 asmVars, filterVars, deviceVars>>

\* A slip: whether it was connected before is not checked.
SlipConnectTwice(w) ==
  LET a == workers[w].asm IN
  /\ At(w, "connect", "lock")
  /\ mutex[a] = "none"
  /\ IF ~Opens(a)
       THEN FinishFailed(w) /\ UNCHANGED <<asm, mutex>>
       ELSE /\ mutex' = [mutex EXCEPT ![a] = "task"]
            /\ asm' = [asm EXCEPT ![a].isRunning = TRUE, ![a].wasRunning = TRUE,
                                  ![a].connected = TRUE]
            /\ Goto(w, "announce")
            /\ UNCHANGED failed
  /\ UNCHANGED <<isRunning, statusVars, schedulerVars, pool, apc, call, next, readCalls,
                 starts, filterVars, deviceVars>>

\* Under the lock: not a second time, and commandConnect.
ConnectOpen(w) ==
  LET a == workers[w].asm IN
  /\ At(w, "connect", "lock")
  /\ mutex[a] = "none"
  /\ IF asm[a].wasRunning \/ ~Opens(a)
       THEN FinishFailed(w) /\ UNCHANGED <<asm, mutex>>
       ELSE /\ mutex' = [mutex EXCEPT ![a] = "task"]
            /\ asm' = [asm EXCEPT ![a].isRunning = TRUE, ![a].wasRunning = TRUE,
                                  ![a].connected = TRUE]
            /\ Goto(w, "announce")
            /\ UNCHANGED failed
  /\ UNCHANGED <<isRunning, statusVars, schedulerVars, pool, apc, call, next, readCalls,
                 starts, filterVars, deviceVars>>

ConnectAnnounce(w) ==
  LET a == workers[w].asm IN
  /\ At(w, "connect", "announce")
  /\ Announce(a, "ALIVE")
  /\ Goto(w, "start")
  /\ UNCHANGED <<isRunning, statuses, reported, schedulerVars, pool, appVars, asmVars,
                 filterVars, deviceVars>>

\* The filter thread starts, and getAssemblyParams may fail: then there is no
\* frame buffer, no reader thread and no name.
ConnectStart(w) ==
  LET a == workers[w].asm IN
  /\ At(w, "connect", "start")
  /\ ~Announcing(a)
  /\ fpc' = [fpc EXCEPT ![a] = "pop"]
  /\ starts' = [starts EXCEPT ![a] = @ + 1]
  /\ mutex' = [mutex EXCEPT ![a] = "none"]
  /\ IF Reachable(a)
       THEN /\ asm' = [asm EXCEPT ![a].reader = TRUE, ![a].named = TRUE]
            /\ Finish(w)
       ELSE /\ asm' = [asm EXCEPT ![a].connected = FALSE]
            /\ FinishFailed(w)
  /\ UNCHANGED <<isRunning, statusVars, schedulerVars, pool, apc, call, next, readCalls,
                 reads, deviceVars>>

(* Assembly::disconnect *)

DisconnectBegin(w) ==
  LET a == workers[w].asm IN
  /\ At(w, "disconnect", "begin")
  /\ IF asm[a].isRunning
       THEN /\ asm' = [asm EXCEPT ![a].isRunning = FALSE]
            /\ Goto(w, "join")
            /\ UNCHANGED failed
       ELSE Finish(w) /\ UNCHANGED asm
  /\ UNCHANGED <<isRunning, statusVars, schedulerVars, pool, apc, call, next, readCalls,
                 mutex, starts, filterVars, deviceVars>>

\* Both threads are joined; a thread that was not started cannot be, and the
\* task ends in an exception.  That they end is shown in module Assembly.
DisconnectJoin(w) ==
  LET a == workers[w].asm IN
  /\ At(w, "disconnect", "join")
  /\ fpc[a] \in {"none", "exited"}
  /\ IF fpc[a] = "exited" /\ asm[a].reader
       THEN Goto(w, "close") /\ UNCHANGED failed
       ELSE FinishFailed(w)
  /\ UNCHANGED <<isRunning, statusVars, schedulerVars, pool, apc, call, next, readCalls,
                 asmVars, filterVars, deviceVars>>

\* masi.disconnect under the lock, which is kept for the callback.
DisconnectClose(w) ==
  LET a == workers[w].asm IN
  /\ At(w, "disconnect", "close")
  /\ mutex[a] = "none"
  /\ Announce(a, "DISCONNECTED")
  /\ mutex' = [mutex EXCEPT ![a] = "task"]
  /\ asm' = [asm EXCEPT ![a].closed = TRUE, ![a].connected = FALSE]
  /\ Goto(w, "end")
  /\ UNCHANGED <<isRunning, statuses, reported, schedulerVars, pool, appVars, starts,
                 filterVars, deviceVars>>

DisconnectEnd(w) ==
  LET a == workers[w].asm IN
  /\ At(w, "disconnect", "end")
  /\ ~Announcing(a)
  /\ mutex' = [mutex EXCEPT ![a] = "none"]
  /\ Finish(w)
  /\ UNCHANGED <<isRunning, statusVars, schedulerVars, pool, apc, call, next, readCalls,
                 asm, starts, filterVars, deviceVars>>

-----------------------------------------------------------------------------
(* The filter thread of an assembly, Assembly::reader, as its callers see it. *)

\* A slip: pop() on an empty queue.
SlipPopEmpty(a) ==
  /\ fpc[a] = "pop"
  /\ mutex[a] = "none"
  /\ mutex' = [mutex EXCEPT ![a] = "filter"]
  /\ reads' = [reads EXCEPT ![a] = @ - 1]
  /\ fpc' = [fpc EXCEPT ![a] = "start"]
  /\ UNCHANGED <<isRunning, statusVars, schedulerVars, poolVars, appVars, asm, starts,
                 deviceVars>>

FilterLock(a) ==
  /\ fpc[a] = "pop"
  /\ reads[a] > 0
  /\ mutex[a] = "none"
  /\ mutex' = [mutex EXCEPT ![a] = "filter"]
  /\ reads' = [reads EXCEPT ![a] = @ - 1]
  /\ fpc' = [fpc EXCEPT ![a] = "start"]
  /\ UNCHANGED <<isRunning, statusVars, schedulerVars, poolVars, appVars, asm, starts,
                 deviceVars>>

\* startReadingUnicast, and the callback with BYSY.
FilterStart(a) ==
  /\ fpc[a] = "start"
  /\ Reachable(a)
  /\ Announce(a, "BYSY")
  /\ fpc' = [fpc EXCEPT ![a] = "reading"]
  /\ UNCHANGED <<isRunning, statuses, reported, schedulerVars, poolVars, appVars,
                 asmVars, reads, deviceVars>>

\* A slip: the lock is kept when the start fails.
SlipKeepsLock(a) ==
  /\ fpc[a] = "start"
  /\ ~Reachable(a)
  /\ fpc' = [fpc EXCEPT ![a] = "pop"]
  /\ asm' = [asm EXCEPT ![a].connected = FALSE]
  /\ UNCHANGED <<isRunning, statusVars, schedulerVars, poolVars, appVars, mutex, starts,
                 reads, deviceVars>>

FilterStartFails(a) ==
  /\ fpc[a] = "start"
  /\ ~Reachable(a)
  /\ fpc' = [fpc EXCEPT ![a] = "pop"]
  /\ mutex' = [mutex EXCEPT ![a] = "none"]
  /\ asm' = [asm EXCEPT ![a].connected = FALSE]
  /\ UNCHANGED <<isRunning, statusVars, schedulerVars, poolVars, appVars, starts,
                 reads, deviceVars>>

\* The reading ends, in whatever way.
FilterEnd(a) ==
  /\ fpc[a] = "reading"
  /\ ~Announcing(a)
  /\ fpc' = [fpc EXCEPT ![a] = "pop"]
  /\ mutex' = [mutex EXCEPT ![a] = "none"]
  /\ UNCHANGED <<isRunning, statusVars, schedulerVars, poolVars, appVars, asm, starts,
                 reads, deviceVars>>

FilterExit(a) ==
  /\ fpc[a] = "pop"
  /\ ~asm[a].isRunning
  /\ fpc' = [fpc EXCEPT ![a] = "exited"]
  /\ UNCHANGED <<isRunning, statusVars, schedulerVars, poolVars, appVars, asmVars, reads,
                 deviceVars>>

-----------------------------------------------------------------------------
(* The application. *)

\* initialize: the scheduler thread is started, then isRunning is set.
InitializeStart ==
  /\ apc = "new"
  /\ spc' = "check"
  /\ apc' = "initialize"
  /\ UNCHANGED <<isRunning, statusVars, old, fresh, poolVars, call, next, failed,
                 readCalls, asmVars, filterVars, deviceVars>>

InitializeRunning ==
  /\ apc = "initialize"
  /\ isRunning' = TRUE
  /\ apc' = "idle"
  /\ UNCHANGED <<statusVars, schedulerVars, poolVars, call, next, failed, readCalls,
                 asmVars, filterVars, deviceVars>>

\* A task for every assembly; nothing is waited for in between.
Submit(kind) ==
  /\ call' = call + 1
  /\ next' = 1
  /\ failed' = {}
  /\ pool' = pool \o [a \in Assemblies |-> Task(kind, a, call')]

\* Device::connect, and writeCr for the synchronous commands.
Call(kind) ==
  /\ apc = "idle"
  /\ call < MaxCalls
  /\ Submit(kind)
  /\ apc' = kind
  /\ UNCHANGED <<isRunning, statusVars, schedulerVars, workers, readCalls, asmVars,
                 filterVars, deviceVars>>

\* Each assembly's queue gets a READ.  The application reads only what is
\* connected: without a frame buffer a reading dereferences a null pointer.
Read ==
  /\ apc = "idle"
  /\ readCalls < MaxReads
  /\ \A a \in Assemblies : asm[a].reader
  /\ readCalls' = readCalls + 1
  /\ reads' = [a \in Assemblies |-> reads[a] + 1]
  /\ UNCHANGED <<isRunning, statusVars, schedulerVars, poolVars, apc, call, next, failed,
                 asmVars, fpc, deviceVars>>

\* DeviceManager::disconnect; cancelReading makes readings end, which they do.
Disconnect ==
  /\ apc = "idle"
  /\ isRunning
  /\ isRunning' = FALSE
  /\ apc' = "join"
  /\ UNCHANGED <<statusVars, schedulerVars, poolVars, call, next, failed, readCalls,
                 asmVars, filterVars, deviceVars>>

\* A slip: the scheduler thread is not joined.
SlipNoJoin ==
  /\ apc = "join"
  /\ Submit("disconnect")
  /\ apc' = "disconnect"
  /\ UNCHANGED <<isRunning, statusVars, schedulerVars, workers, readCalls, asmVars,
                 filterVars, deviceVars>>

\* schedulerThread.join(), and Device::disconnect
JoinScheduler ==
  /\ apc = "join"
  /\ spc = "exited"
  /\ Submit("disconnect")
  /\ apc' = "disconnect"
  /\ UNCHANGED <<isRunning, statusVars, schedulerVars, workers, readCalls, asmVars,
                 filterVars, deviceVars>>

\* f.get() for the futures in order: an exception ends the call at once.
GetFuture ==
  /\ apc \in {"connect", "command", "disconnect"}
  /\ \A t \in Tasks : ~(t.kind = apc /\ t.asm = next /\ t.id = call)
  /\ LET returns == next = N \/ next \in failed IN
       /\ next' = IF returns THEN 0 ELSE next + 1
       /\ apc' = IF ~returns THEN apc ELSE IF apc = "disconnect" THEN "off" ELSE "idle"
  /\ UNCHANGED <<isRunning, statusVars, schedulerVars, poolVars, call, failed, readCalls,
                 asmVars, filterVars, deviceVars>>

\* An assembly stops or starts to answer.
Change(a) ==
  /\ changes < MaxChanges
  /\ changes' = changes + 1
  /\ up' = [up EXCEPT ![a] = ~@]
  /\ UNCHANGED <<isRunning, statusVars, schedulerVars, poolVars, appVars, asmVars,
                 filterVars>>

-----------------------------------------------------------------------------

Init ==
  /\ isRunning = FALSE
  /\ statuses = Empty
  /\ callback = NoCallback
  /\ reported = Empty
  /\ spc = "none"
  /\ old = Empty
  /\ fresh = Empty
  /\ pool = << >>
  /\ workers = [w \in Workers |-> Free]
  /\ apc = "new"
  /\ call = 0
  /\ next = 0
  /\ failed = {}
  /\ asm = [a \in Assemblies |-> [isRunning |-> FALSE, wasRunning |-> FALSE,
                                  connected |-> FALSE, reader |-> FALSE,
                                  named |-> FALSE, closed |-> FALSE]]
  /\ mutex = [a \in Assemblies |-> "none"]
  /\ fpc = [a \in Assemblies |-> "none"]
  /\ reads = [a \in Assemblies |-> 0]
  /\ starts = [a \in Assemblies |-> 0]
  /\ readCalls = 0
  /\ up = [a \in Assemblies |-> TRUE]
  /\ changes = 0

Callback == CallbackStore \/ CallbackReport

Scheduler ==
  SchedulerCheck \/ SchedulerOld \/ SchedulerSubmit \/ SchedulerStore \/ SchedulerReport

Worker(w) ==
  \/ ReadStatus(w) \/ Command(w)
  \/ ConnectBegin(w) \/ ConnectOpen(w) \/ ConnectAnnounce(w) \/ ConnectStart(w)
  \/ DisconnectBegin(w) \/ DisconnectJoin(w) \/ DisconnectClose(w) \/ DisconnectEnd(w)

Filter(a) ==
  \/ FilterLock(a) \/ FilterStart(a) \/ FilterStartFails(a) \/ FilterEnd(a)
  \/ FilterExit(a)

\* The calls the application may make, and those under way that go on.
Ask == InitializeStart \/ Call("connect") \/ Call("command") \/ Read \/ Disconnect

GoOn == InitializeRunning \/ JoinScheduler \/ GetFuture

Next ==
  \/ Callback \/ Scheduler \/ PoolTake \/ Ask \/ GoOn
  \/ \E w \in Workers : Worker(w)
  \/ \E a \in Assemblies : Filter(a) \/ Change(a)

\* Every thread is scheduled, and a reading ends (module Assembly shows it).
\* The application need not call and the device need not change.
Fairness ==
  /\ WF_vars(Callback) /\ WF_vars(Scheduler) /\ WF_vars(PoolTake) /\ WF_vars(GoOn)
  /\ \A w \in Workers : WF_vars(Worker(w))
  /\ \A a \in Assemblies : WF_vars(Filter(a))

Spec == Init /\ [][Next]_vars /\ Fairness

-----------------------------------------------------------------------------

Status == {"ALIVE", "BYSY", "DISCONNECTED"}

IsMap(map) == DOMAIN map \subseteq Assemblies \cup {NoName} /\ Range(map) \subseteq Status

TaskOK(t) ==
  t \in [kind : {"status", "dropped", "connect", "command", "disconnect", "free"},
         asm : 0 .. N, id : Nat,
         stage : {"begin", "lock", "announce", "start", "join", "close", "end"}]

TypeOK ==
  /\ isRunning \in BOOLEAN
  /\ IsMap(statuses) /\ IsMap(reported) /\ IsMap(old) /\ IsMap(fresh)
  /\ DOMAIN callback = {"asm", "map", "stored"} /\ IsMap(callback.map)
  /\ callback.asm \in 0 .. N /\ callback.stored \in BOOLEAN
  /\ spc \in {"none", "check", "sleep", "submit", "wait", "compare", "exited"}
  /\ \A t \in Range(pool) \cup Range(workers) : TaskOK(t)
  /\ DOMAIN workers = Workers
  /\ apc \in {"new", "initialize", "idle", "connect", "command", "join", "disconnect", "off"}
  /\ call \in Nat /\ next \in 0 .. N /\ failed \subseteq Assemblies /\ readCalls \in Nat
  /\ asm \in [Assemblies -> [isRunning : BOOLEAN, wasRunning : BOOLEAN, connected : BOOLEAN,
                             reader : BOOLEAN, named : BOOLEAN, closed : BOOLEAN]]
  /\ mutex \in [Assemblies -> {"none", "task", "filter"}]
  /\ fpc \in [Assemblies -> {"none", "pop", "start", "reading", "exited"}]
  /\ reads \in [Assemblies -> Nat] /\ starts \in [Assemblies -> Nat]
  /\ up \in [Assemblies -> BOOLEAN] /\ changes \in Nat

\* The threads of an assembly are started at most once, whatever calls of
\* connect overlap because an earlier one returned with the exception of
\* another assembly (Assembly::connect checks wasRunning under the lock).
StartedOnce == \A a \in Assemblies : starts[a] <= 1

\* When disconnect has returned and its tasks are done, the last map that the
\* application was given shows every closed assembly as DISCONNECTED: neither
\* the scheduler nor another assembly's callback brings back an older status.
ClosedIsReported ==
  apc = "off" /\ Tasks = {} =>
    \A a \in Assemblies :
      asm[a].closed => a \in DOMAIN reported /\ reported[a] = "DISCONNECTED"

\* Every call returns, disconnect with its joins included.
CallsReturn == (apc \notin {"new", "idle", "off"}) ~> (apc \in {"idle", "off"})

\* When the application and the device are at rest and the scheduler polls,
\* the stored status of each assembly becomes what the assembly answers, in
\* spite of the updates that the callback and the scheduler lose to each other.
StoredConverges ==
  \A a \in Assemblies :
    <>[](apc = "idle" /\ asm[a].named /\ spc # "exited") =>
      <>[](a \in DOMAIN statuses /\ statuses[a] = Answer(a))

\* And the application is told (README: the callback is called when the
\* status of the device changes).
ReportsConverge ==
  \A a \in Assemblies :
    <>[](apc = "idle" /\ asm[a].named /\ spc # "exited") =>
      <>[](a \in DOMAIN reported /\ reported[a] = Answer(a))

==============================================================================
