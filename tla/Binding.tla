------------------------------- MODULE Binding -------------------------------
(***************************************************************************)
(* The Python binding (binding/src/pymodule.cpp): Python's global lock,    *)
(* the GIL, beside the driver's own locks and the threads that wait for    *)
(* one another.                                                            *)
(*                                                                         *)
(* A call from Python gives up the GIL for its time and takes it again to  *)
(* return; a callback takes it for the time that Python code runs.  The    *)
(* callbacks run in the driver's threads, under the locks that these hold: *)
(* on_frame and, for BYSY, on_status under Assembly::mutex, the latter     *)
(* under statusMutex too; ALIVE and DISCONNECTED in a pool thread, under   *)
(* both; on_status in the scheduler and on_error under none.  Callbacks    *)
(* call the driver in their turn.                                          *)
(*                                                                         *)
(* What calls do to the assemblies is in Assembly and DeviceManager; here  *)
(* an exchange with an assembly works, and a reading may end at any time.  *)
(***************************************************************************)
EXTENDS Integers, Sequences, Functions

CONSTANTS
  N,          \* the number of assemblies
  PoolSize,   \* threads in Device::pool
  InError,    \* the calls that the application makes in on_error
  MaxReads,   \* bound: calls of read
  MaxErrors,  \* bound: exceptions in the assemblies' threads
  MaxFrames,  \* bound: frames passed to on_frame
  MaxReports, \* bound: changes of a status that the scheduler reports
  MaxCalls    \* bound: calls that callbacks make

Assemblies == 1 .. N
Workers == 1 .. PoolSize

\* read and cancel_reading only put messages into queues.
Asynchronous == {"read", "cancel_reading"}
InCallback == Asynchronous \cup {"write_cr"}

\* disconnect keeps one pool thread for each assembly until the assembly's
\* threads have ended: with no other thread left, the command of an on_error
\* that they wait for is never run.
ASSUME BindingAssumption ==
  /\ N \in Nat \ {0} /\ PoolSize \in Nat \ {0}
  /\ InError \subseteq InCallback
  /\ "write_cr" \in InError => N < PoolSize
  /\ {MaxReads, MaxErrors, MaxFrames, MaxReports, MaxCalls} \subseteq Nat

Main == <<"main", 0>>
Scheduler == <<"scheduler", 0>>
Worker(w) == <<"worker", w>>
Filter(a) == <<"filter", a>>
Reader(a) == <<"reader", a>>
Nobody == <<"nobody", 0>>

Threads == {Main, Scheduler} \cup {Worker(w) : w \in Workers}
           \cup {Filter(a) : a \in Assemblies} \cup {Reader(a) : a \in Assemblies}

VARIABLES
  gil,          \* the thread that holds the GIL, or Nobody
  mutex,        \* Assembly::mutex of each assembly: the thread that holds it
  statusMutex,  \* DeviceManager::statusMutex
  py,           \* of each thread: "none" outside callbacks, "want" the GIL, "python"
                \* with it, "call" in a call from Python
  call,         \* the call, and its step
  isRunning,    \* DeviceManager::isRunning
  running,      \* Assembly::isRunning
  reads,        \* READ messages in filterMessageQueue
  fpc,          \* where each filter thread is
  rpc,          \* where each reader thread is
  spc,          \* where the scheduler is
  pool,         \* the tasks that wait for a pool thread
  workers,      \* the task that each pool thread works on
  count         \* how much of each bound is used

pyVars == <<gil, py, call>>
lockVars == <<mutex, statusMutex>>
asmVars == <<running, reads, fpc, rpc>>
poolVars == <<pool, workers>>
vars == <<pyVars, lockVars, isRunning, asmVars, spc, poolVars, count>>

NoCall == [name |-> "none", step |-> "none"]
Free == [kind |-> "free", asm |-> 0, by |-> Nobody, stage |-> "begin"]
Task(kind, a, t) == [kind |-> kind, asm |-> a, by |-> t, stage |-> "begin"]

Bounds == [reads |-> MaxReads, errors |-> MaxErrors, frames |-> MaxFrames,
           reports |-> MaxReports, calls |-> MaxCalls]

\* The step uses so much of the bounds.
Count(use) ==
  /\ count' = [b \in DOMAIN count |-> count[b] + IF b \in DOMAIN use THEN use[b] ELSE 0]
  /\ \A b \in DOMAIN count : count'[b] <= Bounds[b]

Submit(kind, t) == pool' = pool \o [a \in Assemblies |-> Task(kind, a, t)]

Tasks == Range(pool) \cup Range(workers)

\* Every future of thread t is ready.
Ready(t) == \A k \in Tasks : k.by # t

-----------------------------------------------------------------------------
(* Python. *)

\* gil_scoped_acquire at the start of a callback, or the end of
\* gil_scoped_release after a call; or the program's turn.
GilTake(t) ==
  /\ py[t] = "want" /\ gil = Nobody
  /\ gil' = t
  /\ py' = [py EXCEPT ![t] = "python"]
  /\ UNCHANGED <<call, lockVars, isRunning, asmVars, spc, poolVars, count>>

\* The interpreter makes the program give a turn to a thread that waits.  To do
\* so within a callback would only take it back to where it waited for the GIL.
GilSwitch ==
  /\ py[Main] = "python"
  /\ \E t \in Threads :
       /\ py[t] = "want"
       /\ gil' = t
       /\ py' = [py EXCEPT ![t] = "python", ![Main] = "want"]
  /\ UNCHANGED <<call, lockVars, isRunning, asmVars, spc, poolVars, count>>

InOnError(t) == \E a \in Assemblies : \/ t = Filter(a) /\ fpc[a] = "error"
                                      \/ t = Reader(a) /\ rpc[a] = "error"

\* The application does not call what waits for the assembly's lock in a callback
\* that runs under it, nor disconnect in any callback, and connects once.
MayCall(t, name) ==
  IF t = Main THEN isRunning /\ (name = "connect" => \A a \in Assemblies : fpc[a] = "none")
              ELSE name \in (IF InOnError(t) THEN InError ELSE Asynchronous)

\* A slip: disconnect keeps the GIL.
SlipKeepsGil(t, name) ==
  /\ py[t] = "python"
  /\ MayCall(t, name)
  /\ Count([reads |-> IF name = "read" THEN 1 ELSE 0, calls |-> IF t = Main THEN 0 ELSE 1])
  /\ call' = [call EXCEPT ![t] = [name |-> name, step |-> "begin"]]
  /\ py' = [py EXCEPT ![t] = "call"]
  /\ gil' = IF name = "disconnect" THEN gil ELSE Nobody
  /\ UNCHANGED <<lockVars, isRunning, asmVars, spc, poolVars>>

\* gil_scoped_release, by call_guard or in disconnect's lambda.
CallBegin(t, name) ==
  /\ py[t] = "python"
  /\ MayCall(t, name)
  /\ Count([reads |-> IF name = "read" THEN 1 ELSE 0, calls |-> IF t = Main THEN 0 ELSE 1])
  /\ call' = [call EXCEPT ![t] = [name |-> name, step |-> "begin"]]
  /\ py' = [py EXCEPT ![t] = "call"]
  /\ gil' = Nobody
  /\ UNCHANGED <<lockVars, isRunning, asmVars, spc, poolVars>>

\* The program drops the DeviceManager: the destructor calls disconnect, and
\* the interpreter calls the destructor with the GIL.
Destroy ==
  /\ py[Main] = "python"
  /\ isRunning
  /\ call' = [call EXCEPT ![Main] = [name |-> "destroy", step |-> "begin"]]
  /\ py' = [py EXCEPT ![Main] = "call"]
  /\ UNCHANGED <<gil, lockVars, isRunning, asmVars, spc, poolVars, count>>

-----------------------------------------------------------------------------
(* The calls, in whatever thread. *)

At(t, names, step) == call[t].name \in names /\ call[t].step = step

Step(t, step) == call' = [call EXCEPT ![t].step = step] /\ UNCHANGED py

\* Back to Python, which needs the GIL unless it was kept.
Return(t) ==
  /\ call' = [call EXCEPT ![t] = NoCall]
  /\ py' = [py EXCEPT ![t] = IF gil = t THEN "python" ELSE "want"]

CallAsynchronous(t) ==
  /\ At(t, Asynchronous, "begin")
  /\ reads' = IF call[t].name = "read" THEN [a \in Assemblies |-> reads[a] + 1] ELSE reads
  /\ Return(t)
  /\ UNCHANGED <<gil, lockVars, isRunning, running, fpc, rpc, spc, poolVars, count>>

\* connect and write_cr give each assembly's task to the pool...
CallSubmit(t) ==
  /\ At(t, {"connect", "write_cr"}, "begin")
  /\ Submit(call[t].name, t)
  /\ Step(t, "await")
  /\ UNCHANGED <<gil, lockVars, isRunning, asmVars, spc, workers, count>>

\* ...and wait for the futures, as disconnect does.
CallAwait(t) ==
  /\ At(t, {"connect", "write_cr", "disconnect", "destroy"}, "await")
  /\ Ready(t)
  /\ Return(t)
  /\ UNCHANGED <<gil, lockVars, isRunning, asmVars, spc, poolVars, count>>

\* DeviceManager::disconnect stops the scheduler...
DisconnectBegin(t) ==
  /\ At(t, {"disconnect", "destroy"}, "begin")
  /\ isRunning' = FALSE
  /\ Step(t, "join")
  /\ UNCHANGED <<gil, lockVars, asmVars, spc, poolVars, count>>

\* A slip: the scheduler is not joined.
SlipNoJoin(t) ==
  /\ At(t, {"disconnect", "destroy"}, "join")
  /\ Submit("disconnect", t)
  /\ Step(t, "await")
  /\ UNCHANGED <<gil, lockVars, isRunning, asmVars, spc, workers, count>>

\* ...joins it, and closes the assemblies.
DisconnectJoin(t) ==
  /\ At(t, {"disconnect", "destroy"}, "join")
  /\ spc = "exited"
  /\ Submit("disconnect", t)
  /\ Step(t, "await")
  /\ UNCHANGED <<gil, lockVars, isRunning, asmVars, spc, workers, count>>

CallStep(t) ==
  CallAsynchronous(t) \/ CallSubmit(t) \/ CallAwait(t) \/ DisconnectBegin(t) \/ DisconnectJoin(t)

-----------------------------------------------------------------------------
(* The scheduler and the pool. *)

SchedulerPoll ==
  /\ spc = "check"
  /\ IF isRunning THEN Submit("status", Scheduler) /\ spc' = "wait"
                  ELSE spc' = "exited" /\ UNCHANGED pool
  /\ UNCHANGED <<pyVars, lockVars, isRunning, asmVars, workers, count>>

\* The statuses have changed, or not; on_status is called without a lock.
SchedulerReport ==
  /\ spc = "wait"
  /\ Ready(Scheduler)
  /\ \/ spc' = "report" /\ py' = [py EXCEPT ![Scheduler] = "want"] /\ Count([reports |-> 1])
     \/ spc' = "check" /\ UNCHANGED <<py, count>>
  /\ UNCHANGED <<gil, call, lockVars, isRunning, asmVars, poolVars>>

\* A free thread takes the oldest task; which thread it is does not matter.
PoolTake ==
  /\ pool # << >>
  /\ \E w \in Workers :
       /\ workers[w] = Free
       /\ \A v \in 1 .. w - 1 : workers[v] # Free
       /\ workers' = [workers EXCEPT ![w] = Head(pool)]
  /\ pool' = Tail(pool)
  /\ UNCHANGED <<pyVars, lockVars, isRunning, asmVars, spc, count>>

TaskAt(w, kinds, stage) == workers[w].kind \in kinds /\ workers[w].stage = stage

Goto(w, stage) == workers' = [workers EXCEPT ![w].stage = stage]

\* getAssemblyStatus and writeCr: an exchange under the lock.
TaskExchange(w) ==
  /\ TaskAt(w, {"status", "write_cr"}, "begin")
  /\ mutex[workers[w].asm] = Nobody
  /\ workers' = [workers EXCEPT ![w] = Free]
  /\ UNCHANGED <<pyVars, lockVars, isRunning, asmVars, spc, pool, count>>

\* Assembly::disconnect of an assembly that runs: its threads are to end...
TaskStop(w) ==
  LET a == workers[w].asm IN
  /\ TaskAt(w, {"disconnect"}, "begin")
  /\ running' = [running EXCEPT ![a] = FALSE]
  /\ workers' = [workers EXCEPT ![w] = IF running[a] THEN [@ EXCEPT !.stage = "join"] ELSE Free]
  /\ UNCHANGED <<pyVars, lockVars, isRunning, reads, fpc, rpc, spc, pool, count>>

\* ...and are joined.
TaskJoin(w) ==
  /\ TaskAt(w, {"disconnect"}, "join")
  /\ fpc[workers[w].asm] = "exited" /\ rpc[workers[w].asm] = "exited"
  /\ Goto(w, "lock")
  /\ UNCHANGED <<pyVars, lockVars, isRunning, asmVars, spc, pool, count>>

\* disconnect once it has joined, and connect: the lock, and the exchanges.
TaskLock(w) ==
  LET a == workers[w].asm IN
  /\ TaskAt(w, {"connect"}, "begin") \/ TaskAt(w, {"disconnect"}, "lock")
  /\ mutex[a] = Nobody
  /\ mutex' = [mutex EXCEPT ![a] = Worker(w)]
  /\ running' = IF workers[w].kind = "connect" THEN [running EXCEPT ![a] = TRUE] ELSE running
  /\ Goto(w, "announce")
  /\ UNCHANGED <<pyVars, statusMutex, isRunning, reads, fpc, rpc, spc, pool, count>>

\* The callback that DeviceManager gives to the assemblies locks statusMutex
\* and calls on_status.
Announce(t) ==
  /\ statusMutex = Nobody
  /\ statusMutex' = t
  /\ py' = [py EXCEPT ![t] = "want"]
  /\ UNCHANGED <<gil, call>>

TaskAnnounce(w) ==
  /\ TaskAt(w, {"connect", "disconnect"}, "announce")
  /\ Announce(Worker(w))
  /\ Goto(w, "status")
  /\ UNCHANGED <<mutex, isRunning, asmVars, spc, pool, count>>

\* connect starts the threads.
TaskEnd(w) ==
  LET a == workers[w].asm IN
  /\ TaskAt(w, {"connect", "disconnect"}, "end")
  /\ mutex' = [mutex EXCEPT ![a] = Nobody]
  /\ IF workers[w].kind = "connect"
     THEN fpc' = [fpc EXCEPT ![a] = "pop"] /\ rpc' = [rpc EXCEPT ![a] = "run"]
     ELSE UNCHANGED <<fpc, rpc>>
  /\ workers' = [workers EXCEPT ![w] = Free]
  /\ UNCHANGED <<pyVars, statusMutex, isRunning, running, reads, spc, pool, count>>

-----------------------------------------------------------------------------
(* The threads of an assembly. *)

\* A slip: pop() on an empty queue.
SlipPopEmpty(a) ==
  /\ fpc[a] = "pop"
  /\ mutex[a] = Nobody
  /\ mutex' = [mutex EXCEPT ![a] = Filter(a)]
  /\ reads' = [reads EXCEPT ![a] = @ - 1]
  /\ fpc' = [fpc EXCEPT ![a] = "start"]
  /\ UNCHANGED <<pyVars, statusMutex, isRunning, running, rpc, spc, poolVars, count>>

\* A READ is taken, and the lock for the reading.
FilterTake(a) ==
  /\ fpc[a] = "pop"
  /\ reads[a] > 0
  /\ mutex[a] = Nobody
  /\ mutex' = [mutex EXCEPT ![a] = Filter(a)]
  /\ reads' = [reads EXCEPT ![a] = @ - 1]
  /\ fpc' = [fpc EXCEPT ![a] = "start"]
  /\ UNCHANGED <<pyVars, statusMutex, isRunning, running, rpc, spc, poolVars, count>>

\* The reading has been started: BYSY.
FilterAnnounce(a) ==
  /\ fpc[a] = "start"
  /\ Announce(Filter(a))
  /\ fpc' = [fpc EXCEPT ![a] = "status"]
  /\ UNCHANGED <<mutex, isRunning, running, reads, rpc, spc, poolVars, count>>

\* The pipe passes a frame to on_frame.
FilterFrame(a) ==
  /\ fpc[a] = "reading"
  /\ Count([frames |-> 1])
  /\ fpc' = [fpc EXCEPT ![a] = "frame"]
  /\ py' = [py EXCEPT ![Filter(a)] = "want"]
  /\ UNCHANGED <<gil, call, lockVars, isRunning, running, reads, rpc, spc, poolVars>>

FilterEnd(a) ==
  /\ fpc[a] = "reading"
  /\ fpc' = [fpc EXCEPT ![a] = "pop"]
  /\ mutex' = [mutex EXCEPT ![a] = Nobody]
  /\ UNCHANGED <<pyVars, statusMutex, isRunning, running, reads, rpc, spc, poolVars,
                 count>>

\* A slip: on_error is called before the lock is given back.
SlipErrorLocked(a) ==
  /\ fpc[a] \in {"start", "reading"}
  /\ Count([errors |-> 1])
  /\ fpc' = [fpc EXCEPT ![a] = "error"]
  /\ py' = [py EXCEPT ![Filter(a)] = "want"]
  /\ UNCHANGED <<gil, call, lockVars, isRunning, running, reads, rpc, spc, poolVars>>

\* An exception, also one that on_frame or on_status raised, leaves the scope
\* of the locks; then on_error is called.
FilterFails(a) ==
  /\ \/ fpc[a] \in {"start", "reading"} /\ UNCHANGED <<gil, statusMutex>>
     \/ /\ fpc[a] \in {"status", "frame"} /\ py[Filter(a)] = "python"
        /\ gil' = Nobody
        /\ statusMutex' = IF fpc[a] = "status" THEN Nobody ELSE statusMutex
  /\ Count([errors |-> 1])
  /\ mutex' = [mutex EXCEPT ![a] = Nobody]
  /\ fpc' = [fpc EXCEPT ![a] = "error"]
  /\ py' = [py EXCEPT ![Filter(a)] = "want"]
  /\ UNCHANGED <<call, isRunning, running, reads, rpc, spc, poolVars>>

FilterExit(a) ==
  /\ fpc[a] = "pop"
  /\ ~running[a]
  /\ fpc' = [fpc EXCEPT ![a] = "exited"]
  /\ UNCHANGED <<pyVars, lockVars, isRunning, running, reads, rpc, spc, poolVars, count>>

ReaderFails(a) ==
  /\ rpc[a] = "run"
  /\ Count([errors |-> 1])
  /\ rpc' = [rpc EXCEPT ![a] = "error"]
  /\ py' = [py EXCEPT ![Reader(a)] = "want"]
  /\ UNCHANGED <<gil, call, lockVars, isRunning, running, reads, fpc, spc, poolVars>>

ReaderExit(a) ==
  /\ rpc[a] = "run"
  /\ ~running[a]
  /\ rpc' = [rpc EXCEPT ![a] = "exited"]
  /\ UNCHANGED <<pyVars, lockVars, isRunning, running, reads, fpc, spc, poolVars, count>>

-----------------------------------------------------------------------------
(* A callback ends: gil_scoped_acquire gives the GIL back, and the thread goes on. *)

PythonEnds(t) ==
  /\ py[t] = "python"
  /\ gil' = Nobody
  /\ py' = [py EXCEPT ![t] = "none"]
  /\ UNCHANGED <<call, mutex, isRunning, running, reads, count>>

FilterGoesOn(a) ==
  /\ PythonEnds(Filter(a))
  /\ fpc' = [fpc EXCEPT ![a] = IF @ = "error" THEN "pop" ELSE "reading"]
  /\ statusMutex' = IF fpc[a] = "status" THEN Nobody ELSE statusMutex
  /\ UNCHANGED <<rpc, spc, poolVars>>

ReaderGoesOn(a) ==
  /\ PythonEnds(Reader(a))
  /\ rpc' = [rpc EXCEPT ![a] = "run"]
  /\ UNCHANGED <<statusMutex, fpc, spc, poolVars>>

SchedulerGoesOn ==
  /\ PythonEnds(Scheduler)
  /\ spc' = "check"
  /\ UNCHANGED <<statusMutex, fpc, rpc, poolVars>>

WorkerGoesOn(w) ==
  /\ PythonEnds(Worker(w))
  /\ Goto(w, "end")
  /\ statusMutex' = Nobody
  /\ UNCHANGED <<fpc, rpc, spc, pool>>

-----------------------------------------------------------------------------

Init ==
  /\ gil = Main
  /\ mutex = [a \in Assemblies |-> Nobody]
  /\ statusMutex = Nobody
  /\ py = [t \in Threads |-> IF t = Main THEN "python" ELSE "none"]
  /\ call = [t \in Threads |-> NoCall]
  /\ isRunning = TRUE
  /\ running = [a \in Assemblies |-> FALSE]
  /\ reads = [a \in Assemblies |-> 0]
  /\ fpc = [a \in Assemblies |-> "none"]
  /\ rpc = [a \in Assemblies |-> "none"]
  /\ spc = "check"
  /\ pool = << >>
  /\ workers = [w \in Workers |-> Free]
  /\ count = [b \in DOMAIN Bounds |-> 0]

Names == InCallback \cup {"connect", "disconnect"}

Python(t) == GilTake(t) \/ \E name \in Names : CallBegin(t, name)

SchedulerStep == SchedulerPoll \/ SchedulerReport \/ SchedulerGoesOn

WorkerStep(w) ==
  TaskExchange(w) \/ TaskStop(w) \/ TaskJoin(w) \/ TaskLock(w) \/ TaskAnnounce(w) \/ TaskEnd(w)
  \/ WorkerGoesOn(w)

FilterStep(a) ==
  FilterTake(a) \/ FilterAnnounce(a) \/ FilterFrame(a) \/ FilterEnd(a) \/ FilterFails(a)
  \/ FilterExit(a) \/ FilterGoesOn(a)

ReaderStep(a) == ReaderFails(a) \/ ReaderExit(a) \/ ReaderGoesOn(a)

Next ==
  \/ \E t \in Threads : Python(t) \/ CallStep(t)
  \/ GilSwitch \/ Destroy
  \/ SchedulerStep \/ PoolTake
  \/ \E w \in Workers : WorkerStep(w)
  \/ \E a \in Assemblies : FilterStep(a) \/ ReaderStep(a)

\* The threads are scheduled; a thread that waits for the GIL makes the interpreter
\* switch, so that it gets it some time; callbacks and readings end.
Fairness ==
  /\ \A t \in Threads : SF_vars(GilTake(t)) /\ WF_vars(CallStep(t))
  /\ WF_vars(GilSwitch) /\ WF_vars(PoolTake)
  /\ WF_vars(SchedulerStep)
  /\ \A w \in Workers : WF_vars(WorkerStep(w))
  /\ \A a \in Assemblies : WF_vars(FilterStep(a)) /\ WF_vars(ReaderStep(a))

Spec == Init /\ [][Next]_vars /\ Fairness

-----------------------------------------------------------------------------

Owners == Threads \cup {Nobody}

TypeOK ==
  /\ gil \in Owners
  /\ mutex \in [Assemblies -> Owners]
  /\ statusMutex \in Owners
  /\ py \in [Threads -> {"none", "want", "python", "call"}]
  /\ call \in [Threads -> [name : Names \cup {"destroy", "none"},
                           step : {"none", "begin", "join", "await"}]]
  /\ isRunning \in BOOLEAN
  /\ running \in [Assemblies -> BOOLEAN]
  /\ reads \in [Assemblies -> Nat]
  /\ fpc \in [Assemblies -> {"none", "pop", "start", "status", "reading", "frame", "error",
                             "exited"}]
  /\ rpc \in [Assemblies -> {"none", "run", "error", "exited"}]
  /\ spc \in {"check", "wait", "report", "exited"}
  /\ workers \in [Workers -> [kind : {"free", "status", "write_cr", "connect", "disconnect"},
                              asm : 0 .. N, by : Owners,
                              stage : {"begin", "join", "lock", "announce", "status", "end"}]]
  /\ pool \in Seq([kind : {"status", "write_cr", "connect", "disconnect"},
                   asm : Assemblies, by : Threads, stage : {"begin"}])
  /\ count \in [DOMAIN Bounds -> Nat]

\* Thread t waits for another thread or for a task of the pool.
WaitsForWork(t) ==
  \/ call[t].step \in {"join", "await"}
  \/ t = Scheduler /\ spc = "wait"
  \/ \E w \in Workers : t = Worker(w) /\ TaskAt(w, {"disconnect"}, "join")

\* Thread t needs an assembly's lock, or statusMutex, for its next step.
WaitsForMutex(t) ==
  \/ \E w \in Workers :
       /\ t = Worker(w)
       /\ \/ TaskAt(w, {"status", "write_cr", "connect"}, "begin")
          \/ TaskAt(w, {"disconnect"}, "lock")
  \/ \E a \in Assemblies : t = Filter(a) /\ fpc[a] = "pop"

WaitsForStatus(t) ==
  \/ \E w \in Workers : t = Worker(w) /\ TaskAt(w, {"connect", "disconnect"}, "announce")
  \/ \E a \in Assemblies : t = Filter(a) /\ fpc[a] = "start"

HasMutex(t) == \E a \in Assemblies : mutex[a] = t

\* The locks are taken in one order, the assembly's, statusMutex, the GIL, and
\* who waits for the work of others has none of them, so that no wait is for a
\* thread that waits in its turn for the waiting one; except in the
\* destructor, which is called with the GIL (DeviceManager.h, pymodule.cpp).
LockOrder ==
  \A t \in Threads :
    /\ WaitsForWork(t) /\ call[t].name # "destroy" => ~HasMutex(t) /\ statusMutex # t /\ gil # t
    /\ WaitsForMutex(t) => ~HasMutex(t) /\ statusMutex # t /\ gil # t
    /\ WaitsForStatus(t) => statusMutex # t /\ gil # t
    /\ py[t] = "want" => gil # t

\* When disconnect has returned no callback is running or about to run, in
\* whatever thread, and none will be: the program may drop what they use.
\* It is said of programs whose connects succeed, as all do in this module: a
\* connect that threw (Device.h:50) leaves tasks of other assemblies behind, and
\* disconnect may overtake one of them, whose threads then start afterwards.
QuietAfterDisconnect ==
  ~isRunning /\ call[Main] = NoCall =>
    /\ \A t \in Threads \ {Main} : py[t] = "none"
    /\ spc = "exited"
    /\ \A a \in Assemblies : fpc[a] \in {"none", "exited"} /\ rpc[a] \in {"none", "exited"}

\* Every call from Python returns, in the program and in every callback, while
\* polls go on and callbacks wait for the GIL and call the driver; except the
\* destructor of a DeviceManager that is running, and what then needs the GIL.
CallsReturn ==
  \A t \in Threads :
    py[t] \in {"call", "want"} ~> py[t] = "python" \/ call[Main].name = "destroy"

==============================================================================
