---------------------------- MODULE BindingProofs ----------------------------
(***************************************************************************)
(* Proofs about module Binding, for every number of assemblies and pool    *)
(* threads, whatever the callbacks call.                                   *)
(***************************************************************************)
EXTENDS Binding, TLAPS

\* The places at which the threads of an assembly hold its lock, or are in Python.
FilterLocked == {"start", "status", "reading", "frame"}
FilterPython == {"status", "frame", "error"}
TaskLocked == {"announce", "status", "end"}

\* A thread is in a call when it says so, with a step that the call has.
CallFits(t) ==
  /\ py[t] = "call" <=> call[t].name # "none"
  /\ call[t].name = "none" <=> call[t].step = "none"
  /\ call[t].name \in Asynchronous => call[t].step = "begin"
  /\ call[t].step = "join" => call[t].name \in {"disconnect", "destroy"}

Calls == \A t \in Threads : CallFits(t)

\* Threads are in Python where callbacks are called, and the program always is.
Callbacks ==
  /\ py[Main] # "none"
  /\ py[Scheduler] # "none" <=> spc = "report"
  /\ \A w \in Workers : py[Worker(w)] # "none" <=> workers[w].stage = "status"
  /\ \A a \in Assemblies : py[Filter(a)] # "none" <=> fpc[a] \in FilterPython
  /\ \A a \in Assemblies : py[Reader(a)] # "none" <=> rpc[a] = "error"

\* What callbacks call: only on_error waits.
CallbackCalls ==
  /\ call[Scheduler].name \in Asynchronous \cup {"none"}
  /\ \A w \in Workers : call[Worker(w)].name \in Asynchronous \cup {"none"}
  /\ \A a \in Assemblies :
       /\ \/ call[Filter(a)].name \in Asynchronous \cup {"none"}
          \/ call[Filter(a)].name = "write_cr" /\ fpc[a] = "error"
       /\ call[Reader(a)].name \in Asynchronous \cup {"none", "write_cr"}

\* The GIL is with the thread that runs Python code, or was kept by the destructor.
GilHeld ==
  /\ gil \in Threads =>
       \/ py[gil] = "python"
       \/ gil = Main /\ call[Main].name = "destroy"
  /\ \A t \in Threads : py[t] = "python" => gil = t
  /\ call[Main].name = "destroy" => gil = Main

\* The locks are with the threads that are at the places between lock and unlock.
MutexHeld(a) ==
  /\ \/ mutex[a] = Nobody
     \/ mutex[a] = Filter(a) /\ fpc[a] \in FilterLocked
     \/ \E w \in Workers : /\ mutex[a] = Worker(w) /\ workers[w].asm = a
                           /\ workers[w].stage \in TaskLocked
  /\ fpc[a] \in FilterLocked => mutex[a] = Filter(a)
  /\ fpc[a] = "status" => statusMutex = Filter(a)

WorkerHolds(w) ==
  /\ workers[w].stage \in TaskLocked => mutex[workers[w].asm] = Worker(w)
  /\ workers[w].stage = "status" => statusMutex = Worker(w)

StatusHeld ==
  \/ statusMutex = Nobody
  \/ \E a \in Assemblies : statusMutex = Filter(a) /\ fpc[a] = "status"
  \/ \E w \in Workers : statusMutex = Worker(w) /\ workers[w].stage = "status"

LocksHeld ==
  (\A a \in Assemblies : MutexHeld(a)) /\ (\A w \in Workers : WorkerHolds(w)) /\ StatusHeld

\* A task has only the places of its kind; connect and disconnect are the program's, and
\* it waits for them.
TaskFits(k) ==
  /\ k.kind = "free" <=> k.asm = 0
  /\ k.stage # "begin" => k.kind \in {"connect", "disconnect"}
  /\ k.stage \in {"join", "lock"} => k.kind = "disconnect"
  /\ k.kind = "connect" =>
       k.by = Main /\ call[Main].name = "connect" /\ call[Main].step = "await"
  /\ k.kind = "disconnect" =>
       k.by = Main /\ call[Main].name \in {"disconnect", "destroy"} /\ call[Main].step = "await"

TasksFit == \A k \in Tasks : TaskFits(k)

\* The assembly's threads have not been started or have ended.
Dead(a) == fpc[a] \in {"none", "exited"} /\ rpc[a] \in {"none", "exited"}

\* An assembly that is to be connected has no threads.
ConnectNew ==
  /\ \A a \in Assemblies : fpc[a] = "none" <=> rpc[a] = "none"
  /\ call[Main].name = "connect" /\ call[Main].step = "begin" =>
       \A a \in Assemblies : fpc[a] = "none"
  /\ \A k \in Tasks : k.kind = "connect" => fpc[k.asm] = "none"

\* There is at most one task to connect an assembly.
ConnectOnce ==
  /\ \A v, w \in Workers :
       workers[v].kind = "connect" /\ workers[w].kind = "connect"
       /\ workers[v].asm = workers[w].asm => v = w
  /\ \A j, k \in DOMAIN pool :
       pool[j].kind = "connect" /\ pool[k].kind = "connect" /\ pool[j].asm = pool[k].asm => j = k
  /\ \A j \in DOMAIN pool, w \in Workers :
       pool[j].kind = "connect" /\ workers[w].kind = "connect" => pool[j].asm # workers[w].asm

Connecting == ConnectNew /\ ConnectOnce

\* disconnect has been called.
Closing ==
  /\ ~isRunning
  /\ call[Main].name \in {"disconnect", "destroy"} /\ call[Main].step \in {"join", "await"}

\* The threads of an assembly that has been told to stop are joined.
Watched ==
  \A a \in Assemblies :
    \/ Dead(a) \/ running[a]
    \/ \E w \in Workers : workers[w].asm = a /\ TaskAt(w, {"disconnect"}, "join")

\* An assembly that is connected runs, one that has been joined has no threads.
TaskSettled(w) ==
  /\ workers[w].kind = "connect" /\ workers[w].stage # "begin" => running[workers[w].asm]
  /\ workers[w].kind = "disconnect" /\ workers[w].stage \in {"lock"} \cup TaskLocked =>
       Dead(workers[w].asm)

Settled == \A w \in Workers : TaskSettled(w)

\* disconnect joins the scheduler, and waits until the threads of all have ended.
Stopping ==
  /\ isRunning => call[Main].step # "join"
  /\ call[Main].name \in {"disconnect", "destroy"} /\ call[Main].step = "await" => ~isRunning
  /\ ~isRunning =>
       /\ call[Main] = NoCall \/ Closing
       /\ call[Main].step # "join" =>
            /\ spc = "exited"
            /\ \A a \in Assemblies :
                 Dead(a) \/ \E k \in Tasks : k.kind = "disconnect" /\ k.asm = a

Shutdown == Watched /\ Settled /\ Stopping

BindingInv ==
  /\ Calls /\ Callbacks /\ CallbackCalls
  /\ GilHeld /\ LocksHeld
  /\ TasksFit /\ Connecting /\ Shutdown

-----------------------------------------------------------------------------
(* Threads and types. *)

\* The threads are different ones.
LEMMA ThreadsDiffer ==
  /\ Main \in Threads /\ Scheduler \in Threads /\ Nobody \notin Threads
  /\ \A w \in Workers : Worker(w) \in Threads
  /\ \A a \in Assemblies : Filter(a) \in Threads /\ Reader(a) \in Threads
  /\ Main # Scheduler
  /\ \A w \in Workers : Worker(w) \notin {Main, Scheduler, Nobody}
  /\ \A a \in Assemblies : Filter(a) \notin {Main, Scheduler, Nobody}
                           /\ Reader(a) \notin {Main, Scheduler, Nobody}
  /\ \A a \in Assemblies, w \in Workers : Filter(a) # Worker(w) /\ Reader(a) # Worker(w)
  /\ \A a, b \in Assemblies : Filter(a) # Reader(b)
  /\ \A v, w \in Workers : Worker(v) = Worker(w) => v = w
  /\ \A a, b \in Assemblies : (Filter(a) = Filter(b) => a = b) /\ (Reader(a) = Reader(b) => a = b)
BY DEF Threads, Main, Scheduler, Nobody, Worker, Filter, Reader

CallRecords == [name : Names \cup {"destroy", "none"}, step : {"none", "begin", "join", "await"}]
PoolTasks == [kind : {"status", "write_cr", "connect", "disconnect"},
              asm : Assemblies, by : Threads, stage : {"begin"}]
WorkerTasks == [kind : {"free", "status", "write_cr", "connect", "disconnect"},
                asm : 0 .. N, by : Owners,
                stage : {"begin", "join", "lock", "announce", "status", "end"}]

\* A step that counts within the bounds.
LEMMA CountType ==
  ASSUME TypeOK, NEW use, \A b \in DOMAIN use : use[b] \in Nat, Count(use)
  PROVE  count' \in [DOMAIN Bounds -> Nat]
<1>1. count \in [DOMAIN Bounds -> Nat]
  BY DEF TypeOK
<1>2. \A b \in DOMAIN Bounds : count[b] + (IF b \in DOMAIN use THEN use[b] ELSE 0) \in Nat
  BY <1>1
<1>3. count' = [b \in DOMAIN Bounds |-> count[b] + IF b \in DOMAIN use THEN use[b] ELSE 0]
  BY <1>1 DEF Count
<1> QED
  BY <1>2, <1>3

\* What two sequences hold is what the one after the other holds.
LEMMA ConcatenationRange ==
  ASSUME NEW S, NEW s \in Seq(S), NEW r \in Seq(S)
  PROVE  s \o r \in Seq(S) /\ Range(s \o r) = Range(s) \cup Range(r)
<1>1. /\ s \o r \in Seq(S) /\ Len(s) \in Nat /\ Len(r) \in Nat
      /\ DOMAIN (s \o r) = 1 .. Len(s) + Len(r)
      /\ DOMAIN s = 1 .. Len(s) /\ DOMAIN r = 1 .. Len(r)
  OBVIOUS
<1>2. \A k \in 1 .. Len(s) + Len(r) :
        (s \o r)[k] = IF k <= Len(s) THEN s[k] ELSE r[k - Len(s)]
  OBVIOUS
<1>3. ASSUME NEW k \in DOMAIN (s \o r)
      PROVE  (s \o r)[k] \in Range(s) \cup Range(r)
  <2>1. CASE k <= Len(s)
    <3>1. k \in DOMAIN s /\ (s \o r)[k] = s[k]
      BY <1>1, <1>2, <2>1
    <3> QED
      BY <3>1 DEF Range
  <2>2. CASE ~(k <= Len(s))
    <3>1. k - Len(s) \in DOMAIN r /\ (s \o r)[k] = r[k - Len(s)]
      BY <1>1, <1>2, <2>2
    <3> QED
      BY <3>1 DEF Range
  <2> QED
    BY <2>1, <2>2
<1>4. ASSUME NEW k \in DOMAIN s PROVE s[k] \in Range(s \o r)
  <2>1. k \in DOMAIN (s \o r) /\ (s \o r)[k] = s[k]
    BY <1>1, <1>2
  <2> QED
    BY <2>1 DEF Range
<1>5. ASSUME NEW k \in DOMAIN r PROVE r[k] \in Range(s \o r)
  <2>1. /\ Len(s) + k \in 1 .. Len(s) + Len(r) /\ ~(Len(s) + k <= Len(s))
        /\ Len(s) + k - Len(s) = k
    BY <1>1
  <2>2. Len(s) + k \in DOMAIN (s \o r) /\ (s \o r)[Len(s) + k] = r[k]
    BY <1>1, <1>2, <2>1
  <2> QED
    BY <2>2 DEF Range
<1> QED
  BY <1>1, <1>3, <1>4, <1>5 DEF Range

\* What a sequence holds is its head and what its tail holds.
LEMMA TailRange ==
  ASSUME NEW S, NEW s \in Seq(S), s # << >>
  PROVE  Head(s) \in S /\ Tail(s) \in Seq(S) /\ Range(s) = Range(Tail(s)) \cup {Head(s)}
<1>1. Head(s) \in S /\ Tail(s) \in Seq(S)
  OBVIOUS
<1>2. << Head(s) >> \in Seq(S) /\ << Head(s) >> \o Tail(s) = s
  BY <1>1
<1>3. Range(<< Head(s) >>) = {Head(s)}
  BY DEF Range
<1>4. Range(<< Head(s) >> \o Tail(s)) = Range(<< Head(s) >>) \cup Range(Tail(s))
  <2>1. \A q, r \in Seq(S) : Range(q \o r) = Range(q) \cup Range(r)
    BY ConcatenationRange
  <2> QED
    BY <1>1, <1>2, <2>1
<1> QED
  BY <1>1, <1>2, <1>3, <1>4

\* A task for every assembly is added to the pool's.
LEMMA SubmitType ==
  ASSUME TypeOK, NEW kind \in {"status", "write_cr", "connect", "disconnect"},
         NEW t \in Threads, Submit(kind, t)
  PROVE  /\ pool' \in Seq(PoolTasks)
         /\ Range(pool') = Range(pool) \cup {Task(kind, a, t) : a \in Assemblies}
<1> DEFINE new == [a \in Assemblies |-> Task(kind, a, t)]
<1>1. \A a \in Assemblies : Task(kind, a, t) \in PoolTasks
  BY DEF Task, PoolTasks
<1>2. N \in Nat /\ Assemblies = 1 .. N
  BY BindingAssumption DEF Assemblies
<1>3. new \in Seq(PoolTasks) /\ Len(new) = N
  BY <1>1, <1>2
<1>4. pool \in Seq(PoolTasks) /\ pool' = pool \o new
  BY DEF TypeOK, PoolTasks, Submit
<1>5. Range(new) = {Task(kind, a, t) : a \in Assemblies}
  BY DEF Range
<1> HIDE DEF new
<1> QED
  BY <1>3, <1>4, <1>5, ConcatenationRange

\* The oldest of the pool's tasks goes to a thread.
LEMMA PoolTakeType ==
  ASSUME TypeOK, PoolTake
  PROVE  \E w \in Workers :
           /\ workers[w] = Free
           /\ workers' = [workers EXCEPT ![w] = Head(pool)]
           /\ Head(pool) \in PoolTasks
           /\ pool' \in Seq(PoolTasks)
           /\ Range(pool) = Range(pool') \cup {Head(pool)}
<1>1. pool \in Seq(PoolTasks) /\ pool # << >> /\ pool' = Tail(pool)
  BY DEF TypeOK, PoolTasks, PoolTake
<1>2. Head(pool) \in PoolTasks /\ pool' \in Seq(PoolTasks)
      /\ Range(pool) = Range(pool') \cup {Head(pool)}
  BY <1>1, TailRange
<1> QED
  BY <1>2 DEF PoolTake

\* The types but the pool's and the counters'.
LocalTypes ==
  /\ gil \in Owners
  /\ mutex \in [Assemblies -> Owners]
  /\ statusMutex \in Owners
  /\ py \in [Threads -> {"none", "want", "python", "call"}]
  /\ call \in [Threads -> CallRecords]
  /\ isRunning \in BOOLEAN
  /\ running \in [Assemblies -> BOOLEAN]
  /\ reads \in [Assemblies -> Nat]
  /\ fpc \in [Assemblies -> {"none", "pop", "start", "status", "reading", "frame", "error",
                             "exited"}]
  /\ rpc \in [Assemblies -> {"none", "run", "error", "exited"}]
  /\ spc \in {"check", "wait", "report", "exited"}

PoolTypes ==
  /\ workers \in [Workers -> WorkerTasks]
  /\ pool \in Seq(PoolTasks)
  /\ count \in [DOMAIN Bounds -> Nat]

\* The types in two parts.
LEMMA TypeParts == TypeOK <=> LocalTypes /\ PoolTypes
BY Zenon DEF TypeOK, LocalTypes, PoolTypes, CallRecords, PoolTasks, WorkerTasks

\* The types of single threads, calls and tasks.
LEMMA ThreadTypes ==
  /\ Owners = Threads \cup {Nobody} /\ Threads \subseteq Owners
  /\ Nobody \in Owners /\ Main \in Threads /\ Scheduler \in Threads
  /\ \A w \in Workers : Worker(w) \in Threads
  /\ \A a \in Assemblies : Filter(a) \in Threads /\ Reader(a) \in Threads
  /\ NoCall \in CallRecords /\ Free \in WorkerTasks /\ PoolTasks \subseteq WorkerTasks
<1>1. Owners = Threads \cup {Nobody}
  BY DEF Owners
<1>2. NoCall \in CallRecords
  BY DEF NoCall, CallRecords
<1>3. 0 \in 0 .. N /\ Assemblies \subseteq 0 .. N
  BY BindingAssumption DEF Assemblies
<1>4. Free \in WorkerTasks
  BY <1>1, <1>3 DEF Free, WorkerTasks
<1>5. PoolTasks \subseteq WorkerTasks
  BY <1>1, <1>3 DEF PoolTasks, WorkerTasks
<1> QED
  BY <1>1, <1>2, <1>4, <1>5, ThreadsDiffer

\* A step that gives a call the step s.
LEMMA StepType ==
  ASSUME LocalTypes, NEW t \in Threads, NEW s \in {"none", "begin", "join", "await"}, Step(t, s)
  PROVE  call' \in [Threads -> CallRecords] /\ py' = py
<1>1. [call[t] EXCEPT !.step = s] \in CallRecords
  BY DEF LocalTypes, CallRecords
<1> QED
  BY <1>1 DEF Step, LocalTypes

\* A step that gives a worker the stage s.
LEMMA GotoType ==
  ASSUME PoolTypes, NEW w \in Workers,
         NEW s \in {"begin", "join", "lock", "announce", "status", "end"}, Goto(w, s)
  PROVE  workers' \in [Workers -> WorkerTasks]
<1>1. [workers[w] EXCEPT !.stage = s] \in WorkerTasks
  BY DEF PoolTypes, WorkerTasks
<1> QED
  BY <1>1 DEF Goto, PoolTypes

\* A call's return.
LEMMA ReturnType ==
  ASSUME LocalTypes, NEW t \in Threads, Return(t)
  PROVE  call' \in [Threads -> CallRecords]
         /\ py' \in [Threads -> {"none", "want", "python", "call"}]
BY ThreadTypes DEF Return, LocalTypes

\* Every step keeps the types.
LEMMA NextType ==
  ASSUME TypeOK, [Next]_vars
  PROVE  TypeOK'
<1> USE BindingAssumption, ThreadTypes
<1>1. LocalTypes /\ PoolTypes
  BY TypeParts
<1>2. ASSUME LocalTypes', PoolTypes' PROVE TypeOK'
  BY <1>2, TypeParts, PTL
<1>3. ASSUME NEW t \in Threads, GilTake(t) PROVE TypeOK'
  <2>1. LocalTypes'
    BY <1>1, <1>3 DEF GilTake, LocalTypes, lockVars, asmVars
  <2>2. PoolTypes'
    BY <1>1, <1>3 DEF GilTake, PoolTypes, poolVars
  <2> QED
    BY <1>2, <2>1, <2>2
<1>4. ASSUME GilSwitch PROVE TypeOK'
  <2>1. LocalTypes'
    BY <1>1, <1>4 DEF GilSwitch, LocalTypes, lockVars, asmVars
  <2>2. PoolTypes'
    BY <1>1, <1>4 DEF GilSwitch, PoolTypes, poolVars
  <2> QED
    BY <1>2, <2>1, <2>2
<1>5. ASSUME NEW t \in Threads, NEW name \in Names, CallBegin(t, name) PROVE TypeOK'
  <2>1. [name |-> name, step |-> "begin"] \in CallRecords
    BY DEF CallRecords
  <2>2. count' \in [DOMAIN Bounds -> Nat]
    BY <1>5, CountType DEF CallBegin
  <2>3. LocalTypes'
    BY <1>1, <1>5, <2>1 DEF CallBegin, LocalTypes, lockVars, asmVars
  <2>4. PoolTypes'
    BY <1>1, <1>5, <2>2 DEF CallBegin, PoolTypes, poolVars
  <2> QED
    BY <1>2, <2>3, <2>4
<1>6. ASSUME Destroy PROVE TypeOK'
  <2>1. [name |-> "destroy", step |-> "begin"] \in CallRecords
    BY DEF CallRecords
  <2>2. LocalTypes'
    BY <1>1, <1>6, <2>1 DEF Destroy, LocalTypes, lockVars, asmVars
  <2>3. PoolTypes'
    BY <1>1, <1>6 DEF Destroy, PoolTypes, poolVars
  <2> QED
    BY <1>2, <2>2, <2>3
<1>7. ASSUME NEW t \in Threads, CallAsynchronous(t) PROVE TypeOK'
  <2>1. reads' \in [Assemblies -> Nat]
    BY <1>1, <1>7 DEF CallAsynchronous, LocalTypes
  <2>2. Return(t)
    BY <1>7 DEF CallAsynchronous
  <2>3. LocalTypes'
    BY <1>1, <1>7, <2>1, <2>2, ReturnType DEF CallAsynchronous, LocalTypes, lockVars
  <2>4. PoolTypes'
    BY <1>1, <1>7 DEF CallAsynchronous, PoolTypes, poolVars
  <2> QED
    BY <1>2, <2>3, <2>4
<1>8. ASSUME NEW t \in Threads, CallSubmit(t) PROVE TypeOK'
  <2>1. call[t].name \in {"connect", "write_cr"} /\ Submit(call[t].name, t) /\ Step(t, "await")
    BY <1>8 DEF CallSubmit, At
  <2>2. pool' \in Seq(PoolTasks)
    BY <2>1, SubmitType
  <2>3. LocalTypes'
    BY <1>1, <1>8, <2>1, StepType DEF CallSubmit, LocalTypes, lockVars, asmVars
  <2>4. PoolTypes'
    BY <1>1, <1>8, <2>2 DEF CallSubmit, PoolTypes
  <2> QED
    BY <1>2, <2>3, <2>4
<1>9. ASSUME NEW t \in Threads, CallAwait(t) PROVE TypeOK'
  <2>1. LocalTypes'
    BY <1>1, <1>9, ReturnType DEF CallAwait, LocalTypes, lockVars, asmVars
  <2>2. PoolTypes'
    BY <1>1, <1>9 DEF CallAwait, PoolTypes, poolVars
  <2> QED
    BY <1>2, <2>1, <2>2
<1>10. ASSUME NEW t \in Threads, DisconnectBegin(t) PROVE TypeOK'
  <2>1. LocalTypes'
    BY <1>1, <1>10, StepType DEF DisconnectBegin, LocalTypes, lockVars, asmVars
  <2>2. PoolTypes'
    BY <1>1, <1>10 DEF DisconnectBegin, PoolTypes, poolVars
  <2> QED
    BY <1>2, <2>1, <2>2
<1>11. ASSUME NEW t \in Threads, DisconnectJoin(t) PROVE TypeOK'
  <2>1. Submit("disconnect", t) /\ Step(t, "await")
    BY <1>11 DEF DisconnectJoin
  <2>2. pool' \in Seq(PoolTasks)
    BY <2>1, SubmitType
  <2>3. LocalTypes'
    BY <1>1, <1>11, <2>1, StepType DEF DisconnectJoin, LocalTypes, lockVars, asmVars
  <2>4. PoolTypes'
    BY <1>1, <1>11, <2>2 DEF DisconnectJoin, PoolTypes
  <2> QED
    BY <1>2, <2>3, <2>4
<1>12. ASSUME SchedulerPoll PROVE TypeOK'
  <2>1. CASE isRunning
    <3>1. Submit("status", Scheduler)
      BY <1>12, <2>1 DEF SchedulerPoll
    <3>2. pool' \in Seq(PoolTasks)
      BY <3>1, SubmitType
    <3>3. PoolTypes'
      BY <1>1, <1>12, <3>2 DEF SchedulerPoll, PoolTypes
    <3>4. LocalTypes'
      BY <1>1, <1>12 DEF SchedulerPoll, LocalTypes, pyVars, lockVars, asmVars
    <3> QED
      BY <1>2, <3>3, <3>4
  <2>2. CASE ~isRunning
    <3>1. PoolTypes'
      BY <1>1, <1>12, <2>2 DEF SchedulerPoll, PoolTypes
    <3>2. LocalTypes'
      BY <1>1, <1>12 DEF SchedulerPoll, LocalTypes, pyVars, lockVars, asmVars
    <3> QED
      BY <1>2, <3>1, <3>2
  <2> QED
    BY <2>1, <2>2
<1>13. ASSUME SchedulerReport PROVE TypeOK'
  <2>1. count' \in [DOMAIN Bounds -> Nat]
    BY <1>1, <1>13, CountType DEF SchedulerReport, PoolTypes
  <2>2. LocalTypes'
    BY <1>1, <1>13 DEF SchedulerReport, LocalTypes, lockVars, asmVars
  <2>3. PoolTypes'
    BY <1>1, <1>13, <2>1 DEF SchedulerReport, PoolTypes, poolVars
  <2> QED
    BY <1>2, <2>2, <2>3
<1>14. ASSUME PoolTake PROVE TypeOK'
  <2>1. workers' \in [Workers -> WorkerTasks] /\ pool' \in Seq(PoolTasks)
    BY <1>1, <1>14, PoolTakeType DEF PoolTypes
  <2>2. LocalTypes'
    BY <1>1, <1>14 DEF PoolTake, LocalTypes, pyVars, lockVars, asmVars
  <2>3. PoolTypes'
    BY <1>1, <1>14, <2>1 DEF PoolTake, PoolTypes
  <2> QED
    BY <1>2, <2>2, <2>3
<1>15. ASSUME NEW w \in Workers, TaskExchange(w) PROVE TypeOK'
  <2>1. workers' \in [Workers -> WorkerTasks]
    BY <1>1, <1>15 DEF TaskExchange, PoolTypes
  <2>2. LocalTypes'
    BY <1>1, <1>15 DEF TaskExchange, LocalTypes, pyVars, lockVars, asmVars, Announce
  <2>3. PoolTypes'
    BY <1>1, <1>15, <2>1 DEF TaskExchange, PoolTypes, poolVars
  <2> QED
    BY <1>2, <2>2, <2>3
<1>16. ASSUME NEW w \in Workers, TaskStop(w) PROVE TypeOK'
  <2>1. workers' \in [Workers -> WorkerTasks]
    <3>1. [workers[w] EXCEPT !.stage = "join"] \in WorkerTasks
      BY <1>1 DEF PoolTypes, WorkerTasks
    <3> QED
      BY <1>1, <1>16, <3>1 DEF TaskStop, PoolTypes
  <2>2. LocalTypes'
    BY <1>1, <1>16 DEF TaskStop, LocalTypes, pyVars, lockVars, asmVars, Announce
  <2>3. PoolTypes'
    BY <1>1, <1>16, <2>1 DEF TaskStop, PoolTypes, poolVars
  <2> QED
    BY <1>2, <2>2, <2>3
<1>17. ASSUME NEW w \in Workers, TaskJoin(w) PROVE TypeOK'
  <2>1. workers' \in [Workers -> WorkerTasks]
    BY <1>1, <1>17, GotoType DEF TaskJoin
  <2>2. LocalTypes'
    BY <1>1, <1>17 DEF TaskJoin, LocalTypes, pyVars, lockVars, asmVars, Announce
  <2>3. PoolTypes'
    BY <1>1, <1>17, <2>1 DEF TaskJoin, PoolTypes, poolVars
  <2> QED
    BY <1>2, <2>2, <2>3
<1>18. ASSUME NEW w \in Workers, TaskLock(w) PROVE TypeOK'
  <2>1. workers' \in [Workers -> WorkerTasks]
    BY <1>1, <1>18, GotoType DEF TaskLock
  <2>2. LocalTypes'
    BY <1>1, <1>18 DEF TaskLock, LocalTypes, pyVars, lockVars, asmVars, Announce
  <2>3. PoolTypes'
    BY <1>1, <1>18, <2>1 DEF TaskLock, PoolTypes, poolVars
  <2> QED
    BY <1>2, <2>2, <2>3
<1>19. ASSUME NEW w \in Workers, TaskAnnounce(w) PROVE TypeOK'
  <2>1. workers' \in [Workers -> WorkerTasks]
    BY <1>1, <1>19, GotoType DEF TaskAnnounce
  <2>2. LocalTypes'
    BY <1>1, <1>19 DEF TaskAnnounce, LocalTypes, pyVars, lockVars, asmVars, Announce
  <2>3. PoolTypes'
    BY <1>1, <1>19, <2>1 DEF TaskAnnounce, PoolTypes, poolVars
  <2> QED
    BY <1>2, <2>2, <2>3
<1>20. ASSUME NEW w \in Workers, TaskEnd(w) PROVE TypeOK'
  <2>1. workers' \in [Workers -> WorkerTasks]
    BY <1>1, <1>20 DEF TaskEnd, PoolTypes
  <2>2. LocalTypes'
    BY <1>1, <1>20 DEF TaskEnd, LocalTypes, pyVars, lockVars, asmVars, Announce
  <2>3. PoolTypes'
    BY <1>1, <1>20, <2>1 DEF TaskEnd, PoolTypes, poolVars
  <2> QED
    BY <1>2, <2>2, <2>3
<1>21. ASSUME NEW w \in Workers, WorkerGoesOn(w) PROVE TypeOK'
  <2>1. workers' \in [Workers -> WorkerTasks]
    BY <1>1, <1>21, GotoType DEF WorkerGoesOn
  <2>2. LocalTypes'
    BY <1>1, <1>21 DEF WorkerGoesOn, LocalTypes, pyVars, lockVars, asmVars, PythonEnds
  <2>3. PoolTypes'
    BY <1>1, <1>21, <2>1 DEF WorkerGoesOn, PythonEnds, PoolTypes
  <2> QED
    BY <1>2, <2>2, <2>3
<1>22. ASSUME NEW a \in Assemblies, FilterTake(a) PROVE TypeOK'
  <2>1. reads' \in [Assemblies -> Nat]
    BY <1>1, <1>22 DEF FilterTake, LocalTypes
  <2>2. LocalTypes'
    BY <1>1, <1>22, <2>1 DEF FilterTake, LocalTypes, pyVars, lockVars, asmVars
  <2>3. PoolTypes'
    BY <1>1, <1>22 DEF FilterTake, PoolTypes, poolVars
  <2> QED
    BY <1>2, <2>2, <2>3
<1>23. ASSUME NEW a \in Assemblies, FilterAnnounce(a) PROVE TypeOK'
  <2>1. LocalTypes'
    BY <1>1, <1>23 DEF FilterAnnounce, LocalTypes, pyVars, lockVars, asmVars, Announce
  <2>2. PoolTypes'
    BY <1>1, <1>23 DEF FilterAnnounce, PoolTypes, poolVars, Announce
  <2> QED
    BY <1>2, <2>1, <2>2
<1>24. ASSUME NEW a \in Assemblies, FilterFrame(a) PROVE TypeOK'
  <2>1. count' \in [DOMAIN Bounds -> Nat]
    BY <1>24, CountType DEF FilterFrame
  <2>2. LocalTypes'
    BY <1>1, <1>24 DEF FilterFrame, LocalTypes, pyVars, lockVars, asmVars
  <2>3. PoolTypes'
    BY <1>1, <1>24, <2>1 DEF FilterFrame, PoolTypes, poolVars
  <2> QED
    BY <1>2, <2>2, <2>3
<1>25. ASSUME NEW a \in Assemblies, FilterEnd(a) PROVE TypeOK'
  <2>1. LocalTypes'
    BY <1>1, <1>25 DEF FilterEnd, LocalTypes, pyVars, lockVars, asmVars
  <2>2. PoolTypes'
    BY <1>1, <1>25 DEF FilterEnd, PoolTypes, poolVars
  <2> QED
    BY <1>2, <2>1, <2>2
<1>26. ASSUME NEW a \in Assemblies, FilterFails(a) PROVE TypeOK'
  <2>1. count' \in [DOMAIN Bounds -> Nat]
    BY <1>26, CountType DEF FilterFails
  <2>2. LocalTypes'
    BY <1>1, <1>26 DEF FilterFails, LocalTypes, pyVars, lockVars, asmVars
  <2>3. PoolTypes'
    BY <1>1, <1>26, <2>1 DEF FilterFails, PoolTypes, poolVars
  <2> QED
    BY <1>2, <2>2, <2>3
<1>27. ASSUME NEW a \in Assemblies, FilterExit(a) PROVE TypeOK'
  <2>1. LocalTypes'
    BY <1>1, <1>27 DEF FilterExit, LocalTypes, pyVars, lockVars, asmVars
  <2>2. PoolTypes'
    BY <1>1, <1>27 DEF FilterExit, PoolTypes, poolVars
  <2> QED
    BY <1>2, <2>1, <2>2
<1>28. ASSUME NEW a \in Assemblies, FilterGoesOn(a) PROVE TypeOK'
  <2>1. LocalTypes'
    BY <1>1, <1>28 DEF FilterGoesOn, LocalTypes, pyVars, lockVars, asmVars, PythonEnds
  <2>2. PoolTypes'
    BY <1>1, <1>28 DEF FilterGoesOn, PoolTypes, poolVars, PythonEnds
  <2> QED
    BY <1>2, <2>1, <2>2
<1>29. ASSUME NEW a \in Assemblies, ReaderFails(a) PROVE TypeOK'
  <2>1. count' \in [DOMAIN Bounds -> Nat]
    BY <1>29, CountType DEF ReaderFails
  <2>2. LocalTypes'
    BY <1>1, <1>29 DEF ReaderFails, LocalTypes, pyVars, lockVars, asmVars
  <2>3. PoolTypes'
    BY <1>1, <1>29, <2>1 DEF ReaderFails, PoolTypes, poolVars
  <2> QED
    BY <1>2, <2>2, <2>3
<1>30. ASSUME NEW a \in Assemblies, ReaderExit(a) PROVE TypeOK'
  <2>1. LocalTypes'
    BY <1>1, <1>30 DEF ReaderExit, LocalTypes, pyVars, lockVars, asmVars
  <2>2. PoolTypes'
    BY <1>1, <1>30 DEF ReaderExit, PoolTypes, poolVars
  <2> QED
    BY <1>2, <2>1, <2>2
<1>31. ASSUME NEW a \in Assemblies, ReaderGoesOn(a) PROVE TypeOK'
  <2>1. LocalTypes'
    BY <1>1, <1>31 DEF ReaderGoesOn, LocalTypes, pyVars, lockVars, asmVars, PythonEnds
  <2>2. PoolTypes'
    BY <1>1, <1>31 DEF ReaderGoesOn, PoolTypes, poolVars, PythonEnds
  <2> QED
    BY <1>2, <2>1, <2>2
<1>32. ASSUME SchedulerGoesOn PROVE TypeOK'
  <2>1. LocalTypes'
    BY <1>1, <1>32 DEF SchedulerGoesOn, PythonEnds, LocalTypes, asmVars
  <2>2. PoolTypes'
    BY <1>1, <1>32 DEF SchedulerGoesOn, PythonEnds, PoolTypes, poolVars
  <2> QED
    BY <1>2, <2>1, <2>2
<1>33. ASSUME UNCHANGED vars PROVE TypeOK'
  <2>1. LocalTypes'
    BY <1>1, <1>33 DEF vars, LocalTypes, pyVars, lockVars, asmVars
  <2>2. PoolTypes'
    BY <1>1, <1>33 DEF vars, PoolTypes, poolVars
  <2> QED
    BY <1>2, <2>1, <2>2
<1> QED
  BY <1>3, <1>4, <1>5, <1>6, <1>7, <1>8, <1>9, <1>10, <1>11, <1>12, <1>13, <1>14, <1>15, <1>16,
     <1>17, <1>18, <1>19, <1>20, <1>21, <1>22, <1>23, <1>24, <1>25, <1>26, <1>27, <1>28, <1>29,
     <1>30, <1>31, <1>32, <1>33
     DEF Next, Python, CallStep, SchedulerStep, WorkerStep, FilterStep, ReaderStep

\* The types of the variables hold in every behaviour of Spec (TypeOK).
THEOREM BindingTypeCorrect == Spec => []TypeOK
<1>1. Init => TypeOK
  <2> SUFFICES ASSUME Init PROVE TypeOK
    OBVIOUS
  <2>1. LocalTypes
    BY ThreadTypes DEF Init, LocalTypes
  <2>2. 0 \in Nat /\ << >> \in Seq(PoolTasks)
    OBVIOUS
  <2>3. PoolTypes
    BY <2>2, ThreadTypes DEF Init, PoolTypes
  <2> QED
    BY <2>1, <2>3, TypeParts
<1>2. TypeOK /\ [Next]_vars => TypeOK'
  BY NextType
<1>3. QED
  BY <1>1, <1>2, PTL DEF Spec

-----------------------------------------------------------------------------
(* Calls and callbacks. *)

\* A thread that is in no call gets its turn in Python or waits for it.
LEMMA CallsMove ==
  ASSUME TypeOK, Calls, NEW t \in Threads, NEW p \in {"none", "want", "python"},
         py[t] # "call", py' = [py EXCEPT ![t] = p], call' = call
  PROVE  Calls'
BY DEF TypeOK, Calls, CallFits

\* A call starts.
LEMMA CallsStart ==
  ASSUME TypeOK, Calls, NEW t \in Threads, NEW name \in Names \cup {"destroy"},
         py' = [py EXCEPT ![t] = "call"],
         call' = [call EXCEPT ![t] = [name |-> name, step |-> "begin"]]
  PROVE  Calls'
<1>1. name # "none"
  BY DEF Names, InCallback, Asynchronous
<1> QED
  BY <1>1 DEF TypeOK, Calls, CallFits

\* A call returns.
LEMMA CallsReturned ==
  ASSUME TypeOK, Calls, NEW t \in Threads, Return(t)
  PROVE  Calls'
BY DEF TypeOK, Calls, CallFits, Return, NoCall, Asynchronous

\* A call that waits goes on.
LEMMA CallsGoOn ==
  ASSUME TypeOK, Calls, NEW t \in Threads, NEW step \in {"join", "await"}, Step(t, step),
         call[t].name \notin Asynchronous \cup {"none"},
         step = "join" => call[t].name \in {"disconnect", "destroy"}
  PROVE  Calls'
<1>1. call[t] \in CallRecords
  BY DEF TypeOK, CallRecords
<1>2. [call[t] EXCEPT !.step = step] = [name |-> call[t].name, step |-> step]
  BY <1>1 DEF CallRecords
<1>3. call' = [call EXCEPT ![t] = [name |-> call[t].name, step |-> step]] /\ py' = py
  BY <1>2 DEF Step
<1> QED
  BY <1>3 DEF TypeOK, Calls, CallFits

\* A step that neither changes.
LEMMA CallsStay ==
  ASSUME Calls, UNCHANGED <<py, call>>
  PROVE  Calls'
BY DEF Calls, CallFits

\* A thread that is where no callback is called is in no call.
LEMMA CallsStep ==
  ASSUME TypeOK, Calls, Callbacks, [Next]_vars
  PROVE  Calls'
<1> USE ThreadsDiffer
<1>1. ASSUME NEW t \in Threads, GilTake(t) PROVE Calls'
  BY <1>1, CallsMove DEF GilTake
<1>2. CASE GilSwitch
  <2>1. PICK t \in Threads : py[t] = "want" /\ py' = [py EXCEPT ![t] = "python", ![Main] = "want"]
    BY <1>2 DEF GilSwitch
  <2> QED
    BY <1>2, <2>1 DEF GilSwitch, TypeOK, Calls, CallFits
<1>3. ASSUME NEW t \in Threads, NEW name \in Names, CallBegin(t, name) PROVE Calls'
  BY <1>3, CallsStart DEF CallBegin
<1>4. CASE Destroy
  BY <1>4, CallsStart DEF Destroy
<1>5. ASSUME NEW t \in Threads, CallAsynchronous(t) \/ CallAwait(t) PROVE Calls'
  BY <1>5, CallsReturned DEF CallAsynchronous, CallAwait
<1>6. ASSUME NEW t \in Threads, CallSubmit(t) \/ DisconnectBegin(t) \/ DisconnectJoin(t)
      PROVE  Calls'
  BY <1>6, CallsGoOn
     DEF CallSubmit, DisconnectBegin, DisconnectJoin, At, Asynchronous
<1>7. CASE SchedulerReport
  <2>1. py[Scheduler] # "call"
    BY <1>7 DEF SchedulerReport, Callbacks
  <2> QED
    BY <1>7, <2>1, CallsMove, CallsStay DEF SchedulerReport
<1>8. ASSUME NEW w \in Workers, TaskAnnounce(w) PROVE Calls'
  <2>1. py[Worker(w)] # "call"
    BY <1>8 DEF TaskAnnounce, TaskAt, Callbacks
  <2> QED
    BY <1>8, <2>1, CallsMove DEF TaskAnnounce, Announce
<1>9. ASSUME NEW a \in Assemblies, FilterAnnounce(a) \/ FilterFrame(a) PROVE Calls'
  <2>1. py[Filter(a)] # "call"
    BY <1>9 DEF FilterAnnounce, FilterFrame, FilterPython, Callbacks
  <2> QED
    BY <1>9, <2>1, CallsMove DEF FilterAnnounce, FilterFrame, Announce
<1>10. ASSUME NEW a \in Assemblies, FilterFails(a) PROVE Calls'
  <2>1. py[Filter(a)] # "call"
    BY <1>10 DEF FilterFails, FilterPython, Callbacks
  <2> QED
    BY <1>10, <2>1, CallsMove DEF FilterFails
<1>11. ASSUME NEW a \in Assemblies, ReaderFails(a) PROVE Calls'
  <2>1. py[Reader(a)] # "call"
    BY <1>11 DEF ReaderFails, Callbacks
  <2> QED
    BY <1>11, <2>1, CallsMove DEF ReaderFails
<1>12. ASSUME NEW t \in Threads, PythonEnds(t) PROVE Calls'
  BY <1>12, CallsMove DEF PythonEnds
<1>13. CASE UNCHANGED <<py, call>>
  BY <1>13, CallsStay
<1>14. CASE \/ SchedulerPoll \/ PoolTake \/ UNCHANGED vars
            \/ \E w \in Workers : TaskExchange(w) \/ TaskStop(w) \/ TaskJoin(w) \/ TaskLock(w)
                                  \/ TaskEnd(w)
            \/ \E a \in Assemblies :
                 FilterTake(a) \/ FilterEnd(a) \/ FilterExit(a) \/ ReaderExit(a)
  BY <1>13, <1>14
     DEF SchedulerPoll, PoolTake, TaskExchange, TaskStop, TaskJoin, TaskLock, TaskEnd,
         FilterTake, FilterEnd, FilterExit, ReaderExit, vars, pyVars
<1> QED
  BY <1>1, <1>2, <1>3, <1>4, <1>5, <1>6, <1>7, <1>8, <1>9, <1>10, <1>11, <1>12, <1>14
     DEF Next, Python, CallStep, SchedulerStep, SchedulerGoesOn, WorkerStep, WorkerGoesOn,
         FilterStep, FilterGoesOn, ReaderStep, ReaderGoesOn

\* A step between two places of one kind: at neither or at both is Python.
LEMMA CallbacksStay ==
  ASSUME TypeOK, Callbacks, py[Main] # "none" => py'[Main] # "none",
         \A t \in Threads : py'[t] = "none" <=> py[t] = "none",
         spc' = "report" <=> spc = "report",
         \A w \in Workers : workers'[w].stage = "status" <=> workers[w].stage = "status",
         \A a \in Assemblies : fpc'[a] \in FilterPython <=> fpc[a] \in FilterPython,
         \A a \in Assemblies : rpc'[a] = "error" <=> rpc[a] = "error"
  PROVE  Callbacks'
BY ThreadsDiffer DEF Callbacks

\* A pool thread gets a new stage, and others keep theirs.
LEMMA StageAfter ==
  ASSUME TypeOK, NEW w \in Workers,
         NEW s \in {"begin", "join", "lock", "announce", "status", "end"}, Goto(w, s)
  PROVE  /\ workers' = [workers EXCEPT ![w] = [kind |-> workers[w].kind, asm |-> workers[w].asm,
                                               by |-> workers[w].by, stage |-> s]]
         /\ workers' \in [Workers -> WorkerTasks]
<1>1. workers[w] \in WorkerTasks /\ workers \in [Workers -> WorkerTasks]
  BY DEF TypeOK, WorkerTasks
<1>2. [workers[w] EXCEPT !.stage = s]
         = [kind |-> workers[w].kind, asm |-> workers[w].asm, by |-> workers[w].by, stage |-> s]
  BY <1>1 DEF WorkerTasks
<1>3. workers' = [workers EXCEPT ![w] = [kind |-> workers[w].kind, asm |-> workers[w].asm,
                                         by |-> workers[w].by, stage |-> s]]
  BY <1>2 DEF Goto
<1> QED
  BY <1>3, GotoType, TypeParts

\* Threads are in Python where callbacks are called.
LEMMA CallbacksStep ==
  ASSUME TypeOK, Calls, Callbacks, TasksFit, Connecting, [Next]_vars
  PROVE  Callbacks'
<1> USE ThreadsDiffer
<1>1. ASSUME NEW t \in Threads, Python(t) \/ CallStep(t) PROVE Callbacks'
  <2>1. UNCHANGED <<spc, workers, fpc, rpc>>
    BY <1>1 DEF Python, GilTake, CallBegin, CallStep, CallAsynchronous, CallSubmit, CallAwait,
                DisconnectBegin, DisconnectJoin, asmVars, poolVars
  <2>2. \A u \in Threads : py'[u] = "none" <=> py[u] = "none"
    <3>1. Python(t) => py[t] \in {"want", "python"}
                       /\ \E q \in {"python", "call"} : py' = [py EXCEPT ![t] = q]
      BY DEF Python, GilTake, CallBegin
    <3>2. CallAsynchronous(t) \/ CallAwait(t) => py[t] = "call" /\ Return(t)
      BY DEF CallAsynchronous, CallAwait, At, Calls, CallFits, Asynchronous
    <3>3. CallSubmit(t) \/ DisconnectBegin(t) \/ DisconnectJoin(t) => py' = py
      BY DEF CallSubmit, DisconnectBegin, DisconnectJoin, Step
    <3> QED
      BY <1>1, <3>1, <3>2, <3>3 DEF CallStep, Return, TypeOK
  <2> QED
    BY <2>1, <2>2, CallbacksStay
<1>2. CASE GilSwitch
  BY <1>2, CallbacksStay DEF GilSwitch, TypeOK, asmVars, poolVars
<1>3. CASE Destroy
  BY <1>3, CallbacksStay DEF Destroy, TypeOK, asmVars, poolVars
<1>4. CASE SchedulerPoll
  BY <1>4, CallbacksStay DEF SchedulerPoll, pyVars, asmVars
<1>5. CASE SchedulerReport
  BY <1>5 DEF SchedulerReport, Callbacks, TypeOK, asmVars, poolVars
<1>6. CASE SchedulerGoesOn
  BY <1>6 DEF SchedulerGoesOn, PythonEnds, Callbacks, TypeOK, poolVars
<1>7. CASE PoolTake
  <2>1. PICK w \in Workers : /\ workers[w] = Free
                             /\ workers' = [workers EXCEPT ![w] = Head(pool)]
                             /\ Head(pool) \in PoolTasks
    BY <1>7, PoolTakeType
  <2>2. Free.stage # "status" /\ Head(pool).stage # "status"
    BY <2>1 DEF Free, PoolTasks
  <2> QED
    BY <1>7, <2>1, <2>2, CallbacksStay DEF PoolTake, TypeOK, pyVars, asmVars
<1>8. ASSUME NEW w \in Workers, TaskExchange(w) \/ TaskStop(w) \/ TaskEnd(w) PROVE Callbacks'
  <2>1. workers[w].stage # "status" /\ py' = py /\ spc' = spc
    BY <1>8 DEF TaskExchange, TaskStop, TaskEnd, TaskAt, pyVars
  <2>2. /\ \A v \in Workers : v # w => workers'[v] = workers[v]
        /\ workers'[w].stage # "status"
    <3>1. workers'[w] = Free \/ workers'[w] = [workers[w] EXCEPT !.stage = "join"]
      BY <1>8 DEF TaskExchange, TaskStop, TaskEnd, TypeOK
    <3>2. [workers[w] EXCEPT !.stage = "join"].stage = "join"
      BY DEF TypeOK
    <3> QED
      BY <1>8, <3>1, <3>2 DEF TaskExchange, TaskStop, TaskEnd, TypeOK, Free
  <2>3. \A a \in Assemblies :
          /\ fpc'[a] = fpc[a] \/ (fpc[a] = "none" /\ fpc'[a] = "pop")
          /\ rpc'[a] = rpc[a] \/ (rpc[a] = "none" /\ rpc'[a] = "run")
    <3>1. CASE TaskEnd(w) /\ workers[w].kind = "connect"
      <4>1. workers[w] \in Tasks
        BY DEF Tasks, Range, TypeOK
      <4>2. fpc[workers[w].asm] = "none" /\ rpc[workers[w].asm] = "none"
        <5>1. fpc[workers[w].asm] = "none"
          BY <3>1, <4>1 DEF Connecting, ConnectNew
        <5>2. workers[w].asm \in Assemblies
          BY <3>1, <4>1, BindingAssumption DEF TasksFit, TaskFits, Assemblies, TypeOK
        <5> QED
          BY <5>1, <5>2 DEF Connecting, ConnectNew
      <4>3. fpc' = [fpc EXCEPT ![workers[w].asm] = "pop"]
            /\ rpc' = [rpc EXCEPT ![workers[w].asm] = "run"]
        BY <3>1 DEF TaskEnd
      <4>4. DOMAIN fpc = Assemblies /\ DOMAIN rpc = Assemblies
        BY DEF TypeOK
      <4> QED
        BY <4>2, <4>3, <4>4
    <3>2. CASE UNCHANGED <<fpc, rpc>>
      BY <3>2
    <3>3. (TaskEnd(w) /\ workers[w].kind = "connect") \/ UNCHANGED <<fpc, rpc>>
      <4>1. TaskExchange(w) \/ TaskStop(w) => UNCHANGED <<fpc, rpc>>
        BY DEF TaskExchange, TaskStop, asmVars
      <4>2. TaskEnd(w) /\ workers[w].kind # "connect" => UNCHANGED <<fpc, rpc>>
        BY DEF TaskEnd
      <4> QED
        BY <1>8, <4>1, <4>2
    <3> QED
      BY <3>1, <3>2, <3>3
  <2> QED
    BY <2>1, <2>2, <2>3, CallbacksStay DEF FilterPython
<1>9. ASSUME NEW w \in Workers, TaskJoin(w) \/ TaskLock(w) PROVE Callbacks'
  <2>1. PICK s \in {"lock", "announce"} : Goto(w, s)
    BY <1>9 DEF TaskJoin, TaskLock
  <2>2. workers[w].stage # "status"
    BY <1>9 DEF TaskJoin, TaskLock, TaskAt
  <2>3. UNCHANGED <<py, spc, fpc, rpc>>
    BY <1>9 DEF TaskJoin, TaskLock, pyVars, asmVars
  <2>4. \A v \in Workers : workers'[v].stage = "status" <=> workers[v].stage = "status"
    BY <2>1, <2>2, StageAfter DEF TypeOK
  <2> QED
    BY <2>3, <2>4, CallbacksStay
<1>10. ASSUME NEW w \in Workers, TaskAnnounce(w) \/ WorkerGoesOn(w) PROVE Callbacks'
  <2>1. PICK s \in {"status", "end"} : /\ Goto(w, s)
                                       /\ py'[Worker(w)] # "none" <=> s = "status"
    BY <1>10 DEF TaskAnnounce, Announce, WorkerGoesOn, PythonEnds, TypeOK
  <2>2. UNCHANGED <<spc, fpc, rpc>> /\ \A t \in Threads : t # Worker(w) => py'[t] = py[t]
    BY <1>10 DEF TaskAnnounce, Announce, WorkerGoesOn, PythonEnds, TypeOK, asmVars
  <2>3. \A v \in Workers : workers'[v].stage = IF v = w THEN s ELSE workers[v].stage
    BY <2>1, StageAfter DEF TypeOK
  <2> QED
    BY <2>1, <2>2, <2>3 DEF Callbacks
<1>11. ASSUME NEW a \in Assemblies, FilterStep(a) PROVE Callbacks'
  <2>1. UNCHANGED <<spc, workers, rpc>>
        /\ (\A t \in Threads : t # Filter(a) => py'[t] = py[t])
        /\ (\A b \in Assemblies : b # a => fpc'[b] = fpc[b])
    BY <1>11 DEF FilterStep, FilterTake, FilterAnnounce, FilterFrame, FilterEnd, FilterFails,
       FilterExit, FilterGoesOn, Announce, PythonEnds, TypeOK, pyVars, poolVars
  <2>2. py'[Filter(a)] # "none" <=> fpc'[a] \in FilterPython
    BY <1>11 DEF FilterStep, FilterTake, FilterAnnounce, FilterFrame, FilterEnd, FilterFails,
       FilterExit, FilterGoesOn, Announce, PythonEnds, TypeOK, pyVars, Callbacks, FilterPython
  <2> QED
    BY <2>1, <2>2 DEF Callbacks
<1>12. ASSUME NEW a \in Assemblies, ReaderStep(a) PROVE Callbacks'
  <2>1. UNCHANGED <<spc, workers, fpc>>
        /\ (\A t \in Threads : t # Reader(a) => py'[t] = py[t])
        /\ (\A b \in Assemblies : b # a => rpc'[b] = rpc[b])
    BY <1>12 DEF ReaderStep, ReaderFails, ReaderExit, ReaderGoesOn, PythonEnds, TypeOK, pyVars,
       poolVars
  <2>2. py'[Reader(a)] # "none" <=> rpc'[a] = "error"
    BY <1>12 DEF ReaderStep, ReaderFails, ReaderExit, ReaderGoesOn, PythonEnds, TypeOK, pyVars,
       Callbacks
  <2> QED
    BY <2>1, <2>2 DEF Callbacks
<1>13. CASE UNCHANGED vars
  BY <1>13, CallbacksStay DEF vars, pyVars, asmVars, poolVars
<1> QED
  BY <1>1, <1>2, <1>3, <1>4, <1>5, <1>6, <1>7, <1>8, <1>9, <1>10, <1>11, <1>12, <1>13
     DEF Next, SchedulerStep, WorkerStep

\* A call from a callback is not one that waits, except a write_cr in on_error.
LEMMA CallbackCallsStep ==
  ASSUME TypeOK, Calls, Callbacks, CallbackCalls, TasksFit, Connecting, [Next]_vars
  PROVE  CallbackCalls'
<1> USE ThreadsDiffer
<1>1. ASSUME NEW t \in Threads, NEW name \in Names, CallBegin(t, name) PROVE CallbackCalls'
  <2>1. call' = [call EXCEPT ![t] = [name |-> name, step |-> "begin"]] /\ fpc' = fpc
    BY <1>1 DEF CallBegin, asmVars
  <2>2. t # Main => name \in Asynchronous \/ (InOnError(t) /\ name = "write_cr")
    BY <1>1, BindingAssumption DEF CallBegin, MayCall, InCallback
  <2>3. InOnError(t) => \/ t \in {Reader(a) : a \in Assemblies}
                        \/ \E a \in Assemblies : t = Filter(a) /\ fpc[a] = "error"
    BY DEF InOnError
  <2>4. call'[t].name = name /\ \A u \in Threads : u # t => call'[u] = call[u]
    BY <2>1 DEF TypeOK
  <2> QED
    BY <2>1, <2>2, <2>3, <2>4 DEF CallbackCalls
<1>2. ASSUME \A t \in Threads : call'[t].name \in {call[t].name, "none"} \/ t = Main,
             \A a \in Assemblies : fpc'[a] = fpc[a] \/ call[Filter(a)].name # "write_cr"
      PROVE  CallbackCalls'
  BY <1>2 DEF CallbackCalls
<1>3. ASSUME NEW t \in Threads, GilTake(t) \/ CallStep(t) PROVE CallbackCalls'
  <2>1. fpc' = fpc
    BY <1>3 DEF GilTake, CallStep, CallAsynchronous, CallSubmit, CallAwait, DisconnectBegin,
                DisconnectJoin, asmVars
  <2>2. call' = call \/ Return(t) \/ \E step \in {"join", "await"} : Step(t, step)
    BY <1>3 DEF GilTake, CallStep, CallAsynchronous, CallSubmit, CallAwait, DisconnectBegin,
                DisconnectJoin
  <2>3. \A step : [call[t] EXCEPT !.step = step].name = call[t].name
    BY DEF TypeOK
  <2>4. \A u \in Threads : call'[u].name \in {call[u].name, "none"}
    <3>1. Return(t) => \A u \in Threads : call'[u].name \in {call[u].name, "none"}
      BY DEF Return, NoCall, TypeOK
    <3>2. ASSUME NEW step \in {"join", "await"}, Step(t, step)
          PROVE  \A u \in Threads : call'[u].name = call[u].name
      BY <2>3, <3>2 DEF Step, TypeOK
    <3> QED
      BY <2>2, <3>1, <3>2
  <2> QED
    BY <1>2, <2>1, <2>4
<1>4. CASE GilSwitch
  BY <1>2, <1>4 DEF GilSwitch, asmVars
<1>5. CASE Destroy
  BY <1>2, <1>5 DEF Destroy, asmVars, TypeOK
<1>6. CASE SchedulerStep \/ PoolTake
  BY <1>2, <1>6 DEF SchedulerStep, SchedulerPoll, SchedulerReport, SchedulerGoesOn, PythonEnds,
     PoolTake, pyVars, asmVars
<1>7. ASSUME NEW w \in Workers, WorkerStep(w) PROVE CallbackCalls'
  <2>1. CASE TaskEnd(w) /\ workers[w].kind = "connect"
    <3>1. workers[w] \in Tasks
      BY DEF Tasks, Range, TypeOK
    <3>2. fpc[workers[w].asm] = "none"
      BY <2>1, <3>1 DEF Connecting, ConnectNew
    <3>3. fpc' = [fpc EXCEPT ![workers[w].asm] = "pop"] /\ call' = call
      BY <2>1 DEF TaskEnd, pyVars
    <3>4. \A a \in Assemblies : fpc[a] # "error" => fpc[a] = fpc'[a] \/ fpc[a] = "none"
      BY <3>2, <3>3 DEF TypeOK
    <3> QED
      BY <3>2, <3>3 DEF CallbackCalls, Asynchronous, TypeOK
  <2>2. CASE ~(TaskEnd(w) /\ workers[w].kind = "connect")
    <3>1. call' = call
      BY <1>7 DEF WorkerStep, TaskExchange, TaskStop, TaskJoin, TaskLock, TaskAnnounce, TaskEnd,
         WorkerGoesOn, PythonEnds, Announce, pyVars
    <3>2. fpc' = fpc
      BY <1>7, <2>2 DEF WorkerStep, TaskExchange, TaskStop, TaskJoin, TaskLock, TaskAnnounce,
         TaskEnd, WorkerGoesOn, asmVars
    <3> QED
      BY <1>2, <3>1, <3>2
  <2> QED
    BY <2>1, <2>2
<1>8. ASSUME NEW a \in Assemblies, FilterStep(a) PROVE CallbackCalls'
  <2>1. call' = call /\ \A b \in Assemblies : b # a => fpc'[b] = fpc[b]
    BY <1>8 DEF FilterStep, FilterTake, FilterAnnounce, FilterFrame, FilterEnd, FilterFails,
       FilterExit, FilterGoesOn, Announce, PythonEnds, TypeOK, pyVars
  <2>2. call[Filter(a)].name = "write_cr" => fpc'[a] = fpc[a]
    <3> SUFFICES ASSUME call[Filter(a)].name = "write_cr" PROVE FALSE
      OBVIOUS
    <3>1. fpc[a] = "error" /\ py[Filter(a)] = "call"
      BY DEF CallbackCalls, Calls, CallFits, Asynchronous
    <3> QED
      BY <1>8, <3>1 DEF FilterStep, FilterTake, FilterAnnounce, FilterFrame, FilterEnd,
         FilterFails, FilterExit, FilterGoesOn, PythonEnds
  <2> QED
    BY <1>2, <2>1, <2>2
<1>9. ASSUME NEW a \in Assemblies, ReaderStep(a) PROVE CallbackCalls'
  BY <1>2, <1>9 DEF ReaderStep, ReaderFails, ReaderExit, ReaderGoesOn, PythonEnds, pyVars
<1>10. CASE UNCHANGED vars
  BY <1>2, <1>10 DEF vars, pyVars, asmVars
<1> QED
  BY <1>1, <1>3, <1>4, <1>5, <1>6, <1>7, <1>8, <1>9, <1>10 DEF Next, Python

-----------------------------------------------------------------------------
(* The GIL. *)

\* The GIL is with who runs Python code, or with the destructor.
LEMMA GilStep ==
  ASSUME TypeOK, Calls, Callbacks, CallbackCalls, GilHeld, [Next]_vars
  PROVE  GilHeld'
<1> USE ThreadsDiffer
<1>1. call[Main].name = "destroy" => py[Main] = "call" /\ gil = Main
  BY DEF Calls, CallFits, GilHeld
<1>2. ASSUME NEW t \in Threads, GilTake(t) PROVE GilHeld'
  BY <1>2, <1>1 DEF GilTake, GilHeld, TypeOK
<1>3. CASE GilSwitch
  BY <1>3, <1>1 DEF GilSwitch, GilHeld, TypeOK
<1>4. ASSUME NEW t \in Threads, NEW name \in Names, CallBegin(t, name) PROVE GilHeld'
  <2>1. name # "destroy"
    BY DEF Names, InCallback, Asynchronous
  <2>2. gil = t /\ gil' = Nobody /\ py' = [py EXCEPT ![t] = "call"]
        /\ call' = [call EXCEPT ![t] = [name |-> name, step |-> "begin"]]
    BY <1>4 DEF CallBegin, GilHeld
  <2>3. call[Main].name # "destroy"
    BY <1>1, <1>4, <2>2 DEF CallBegin
  <2>4. call'[Main].name # "destroy"
    BY <2>1, <2>2, <2>3 DEF TypeOK
  <2> QED
    BY <2>2, <2>4 DEF GilHeld, TypeOK
<1>5. CASE Destroy
  BY <1>5 DEF Destroy, GilHeld, TypeOK
<1>6. ASSUME NEW t \in Threads, CallAsynchronous(t) \/ CallAwait(t) PROVE GilHeld'
  <2>1. Return(t) /\ gil' = gil /\ py[t] = "call"
    BY <1>6 DEF CallAsynchronous, CallAwait, At, Calls, CallFits, Asynchronous
  <2>2. call' = [call EXCEPT ![t] = NoCall] /\ NoCall.name = "none"
    BY <2>1 DEF Return, NoCall
  <2>3. py' = [py EXCEPT ![t] = IF gil = t THEN "python" ELSE "want"]
    BY <2>1 DEF Return
  <2> QED
    BY <2>1, <2>2, <2>3 DEF GilHeld, TypeOK
<1>7. ASSUME NEW t \in Threads, CallSubmit(t) \/ DisconnectBegin(t) \/ DisconnectJoin(t)
      PROVE  GilHeld'
  <2>1. PICK step \in {"join", "await"} : Step(t, step)
    BY <1>7 DEF CallSubmit, DisconnectBegin, DisconnectJoin
  <2>2. gil' = gil /\ py' = py
    BY <1>7 DEF CallSubmit, DisconnectBegin, DisconnectJoin, Step
  <2>3. [call[t] EXCEPT !.step = step].name = call[t].name
    BY DEF TypeOK
  <2>4. call'[Main].name = call[Main].name
    BY <2>1, <2>3 DEF Step, TypeOK
  <2> QED
    BY <2>2, <2>4 DEF GilHeld
<1>8. ASSUME NEW t \in Threads, py[t] = "none", py' = [py EXCEPT ![t] = "want"],
             UNCHANGED <<gil, call>>
      PROVE  GilHeld'
  BY <1>8 DEF GilHeld, TypeOK
<1>9. ASSUME UNCHANGED <<gil, py, call>> PROVE GilHeld'
  BY <1>9 DEF GilHeld
<1>10. ASSUME NEW t \in Threads, t # Main, PythonEnds(t) PROVE GilHeld'
  BY <1>1, <1>10 DEF PythonEnds, GilHeld, TypeOK
<1>11. CASE SchedulerReport
  BY <1>8, <1>9, <1>11 DEF SchedulerReport, Callbacks
<1>12. ASSUME NEW w \in Workers, TaskAnnounce(w) PROVE GilHeld'
  <2>1. py[Worker(w)] = "none"
    BY <1>12 DEF TaskAnnounce, TaskAt, Callbacks
  <2> QED
    BY <1>8, <1>12, <2>1 DEF TaskAnnounce, Announce
<1>13. ASSUME NEW a \in Assemblies, FilterAnnounce(a) \/ FilterFrame(a) PROVE GilHeld'
  <2>1. py[Filter(a)] = "none"
    BY <1>13 DEF FilterAnnounce, FilterFrame, FilterPython, Callbacks
  <2> QED
    BY <1>8, <1>13, <2>1 DEF FilterAnnounce, FilterFrame, Announce
<1>14. ASSUME NEW a \in Assemblies, FilterFails(a) PROVE GilHeld'
  <2>1. CASE fpc[a] \in {"start", "reading"}
    <3>1. py[Filter(a)] = "none"
      BY <2>1 DEF Callbacks, FilterPython
    <3> QED
      BY <1>8, <1>14, <2>1, <3>1 DEF FilterFails
  <2>2. CASE py[Filter(a)] = "python" /\ gil' = Nobody
    <3>1. gil = Filter(a) /\ call[Main].name # "destroy"
      BY <1>1, <2>2 DEF GilHeld
    <3> QED
      BY <1>14, <2>2, <3>1 DEF FilterFails, GilHeld, TypeOK
  <2> QED
    BY <1>14, <2>1, <2>2 DEF FilterFails
<1>15. ASSUME NEW a \in Assemblies, ReaderFails(a) PROVE GilHeld'
  <2>1. py[Reader(a)] = "none"
    BY <1>15 DEF ReaderFails, Callbacks
  <2> QED
    BY <1>8, <1>15, <2>1 DEF ReaderFails
<1>16. CASE \/ SchedulerPoll \/ PoolTake \/ UNCHANGED vars
            \/ \E w \in Workers : TaskExchange(w) \/ TaskStop(w) \/ TaskJoin(w) \/ TaskLock(w)
                                  \/ TaskEnd(w)
            \/ \E a \in Assemblies :
                 FilterTake(a) \/ FilterEnd(a) \/ FilterExit(a) \/ ReaderExit(a)
  BY <1>9, <1>16
     DEF SchedulerPoll, PoolTake, TaskExchange, TaskStop, TaskJoin, TaskLock, TaskEnd,
         FilterTake, FilterEnd, FilterExit, ReaderExit, vars, pyVars
<1> QED
  BY <1>2, <1>3, <1>4, <1>5, <1>6, <1>7, <1>10, <1>11, <1>12, <1>13, <1>14, <1>15, <1>16
     DEF Next, Python, CallStep, SchedulerStep, SchedulerGoesOn, WorkerStep, WorkerGoesOn,
         FilterStep, FilterGoesOn, ReaderStep, ReaderGoesOn

-----------------------------------------------------------------------------
(* The driver's locks. *)

\* A task is for an assembly.
LEMMA TaskAssembly ==
  ASSUME TypeOK, TasksFit, NEW w \in Workers, workers[w].kind # "free"
  PROVE  workers[w].asm \in Assemblies /\ workers[w] \in Tasks /\ TaskFits(workers[w])
<1>1. workers[w] \in Tasks
  BY DEF Tasks, Range, TypeOK
<1>2. TaskFits(workers[w])
  BY <1>1 DEF TasksFit
<1>3. workers[w].asm \in 0 .. N /\ workers[w].asm # 0
  BY <1>2 DEF TypeOK, TaskFits
<1> QED
  BY <1>1, <1>2, <1>3, BindingAssumption DEF Assemblies

\* A task that has a lock has its assembly's.
LEMMA LockedAssembly ==
  ASSUME TypeOK, TasksFit, LocksHeld, NEW w \in Workers, workers[w].stage \in TaskLocked
  PROVE  workers[w].asm \in Assemblies /\ mutex[workers[w].asm] = Worker(w)
<1>1. workers[w] \in Tasks /\ workers[w].stage # "begin"
  BY DEF Tasks, Range, TypeOK, TaskLocked
<1>2. workers[w].kind # "free"
  BY <1>1 DEF TasksFit, TaskFits
<1> QED
  BY <1>2, TaskAssembly DEF LocksHeld, WorkerHolds

\* No step of a thread that has no lock changes who has them.
LEMMA LocksStay ==
  ASSUME TypeOK, LocksHeld, UNCHANGED <<mutex, statusMutex>>,
         \A w \in Workers :
           workers'[w] = workers[w]
           \/ (workers[w].stage \notin TaskLocked /\ workers'[w].stage \notin TaskLocked),
         \A a \in Assemblies :
           fpc'[a] = fpc[a] \/ (fpc[a] \notin FilterLocked /\ fpc'[a] \notin FilterLocked)
  PROVE  LocksHeld'
<1>1. "status" \in TaskLocked /\ "status" \in FilterLocked
  BY DEF TaskLocked, FilterLocked
<1> QED
  BY <1>1 DEF LocksHeld, MutexHeld, WorkerHolds, StatusHeld

\* The pool's steps keep the locks with those who are between lock and unlock.
LEMMA WorkerLocks ==
  ASSUME TypeOK, Calls, Callbacks, TasksFit, Connecting, LocksHeld,
         NEW w \in Workers, WorkerStep(w)
  PROVE  LocksHeld'
<1> USE ThreadsDiffer
<1>1. CASE TaskExchange(w) \/ TaskStop(w)
  <2>1. workers'[w] = Free \/ workers'[w] = [workers[w] EXCEPT !.stage = "join"]
    BY <1>1 DEF TaskExchange, TaskStop, TypeOK
  <2>2. [workers[w] EXCEPT !.stage = "join"].stage = "join" /\ Free.stage = "begin"
    BY DEF TypeOK, Free
  <2>3. workers'[w].stage \notin TaskLocked /\ workers[w].stage \notin TaskLocked
    BY <1>1, <2>1, <2>2 DEF TaskExchange, TaskStop, TaskAt, TaskLocked
  <2>4. \A v \in Workers : v # w => workers'[v] = workers[v]
    BY <1>1 DEF TaskExchange, TaskStop, TypeOK
  <2> QED
    BY <1>1, <2>3, <2>4, LocksStay DEF TaskExchange, TaskStop, lockVars, asmVars
<1>2. CASE TaskJoin(w)
  <2>1. \A v \in Workers : v # w => workers'[v] = workers[v]
    BY <1>2 DEF TaskJoin, Goto, TypeOK
  <2>2. workers'[w].stage = "lock" /\ workers[w].stage = "join"
    BY <1>2, StageAfter DEF TaskJoin, TaskAt, TypeOK
  <2> QED
    BY <1>2, <2>1, <2>2, LocksStay DEF TaskJoin, lockVars, asmVars, TaskLocked
<1>3. CASE TaskLock(w)
  <2>1. workers[w].kind # "free" /\ workers[w].stage \notin TaskLocked
    BY <1>3 DEF TaskLock, TaskAt, TaskLocked
  <2>2. workers[w].asm \in Assemblies
    BY <2>1, TaskAssembly
  <2>3. /\ mutex[workers[w].asm] = Nobody
        /\ mutex' = [mutex EXCEPT ![workers[w].asm] = Worker(w)]
        /\ UNCHANGED <<statusMutex, fpc>>
    BY <1>3 DEF TaskLock
  <2>4. /\ workers'[w].stage = "announce" /\ workers'[w].asm = workers[w].asm
        /\ \A v \in Workers : v # w => workers'[v] = workers[v]
    BY <1>3, StageAfter DEF TaskLock, TypeOK
  <2>5. \A a \in Assemblies : a # workers[w].asm => mutex'[a] = mutex[a]
    BY <2>3 DEF TypeOK
  <2>6. mutex'[workers[w].asm] = Worker(w)
    BY <2>2, <2>3 DEF TypeOK
  <2>7. "announce" \in TaskLocked
    BY DEF TaskLocked
  <2> QED
    <3>1. ASSUME NEW a \in Assemblies PROVE MutexHeld(a)'
      <4>1. CASE a = workers[w].asm
        <5>1. fpc[a] \notin FilterLocked /\ "status" \in FilterLocked
          BY <2>3, <4>1 DEF LocksHeld, MutexHeld, FilterLocked
        <5> QED
          BY <2>3, <2>4, <2>6, <2>7, <4>1, <5>1 DEF MutexHeld
      <4>2. CASE a # workers[w].asm
        BY <2>1, <2>3, <2>4, <2>5, <4>2 DEF LocksHeld, MutexHeld
      <4> QED
        BY <4>1, <4>2
    <3>2. ASSUME NEW v \in Workers PROVE WorkerHolds(v)'
      <4>1. CASE v = w
        BY <2>4, <2>6, <4>1 DEF WorkerHolds
      <4>2. CASE v # w /\ workers[v].stage \in TaskLocked
        <5>1. workers[v].asm \in Assemblies /\ mutex[workers[v].asm] = Worker(v)
          BY <4>2, LockedAssembly
        <5>2. workers[v].asm # workers[w].asm
          BY <2>3, <5>1
        <5> QED
          BY <2>3, <2>4, <2>5, <4>2, <5>1, <5>2 DEF LocksHeld, WorkerHolds
      <4>3. CASE v # w /\ workers[v].stage \notin TaskLocked
        BY <2>3, <2>4, <4>3 DEF LocksHeld, WorkerHolds
      <4> QED
        BY <4>1, <4>2, <4>3
    <3>3. StatusHeld'
      <4>1. workers[w].stage # "status"
        BY <2>1 DEF TaskLocked
      <4> QED
        BY <2>3, <2>4, <4>1 DEF LocksHeld, StatusHeld
    <3> QED
      BY <3>1, <3>2, <3>3 DEF LocksHeld
<1>4. CASE TaskAnnounce(w)
  <2>1. /\ statusMutex = Nobody /\ statusMutex' = Worker(w)
        /\ UNCHANGED <<mutex, fpc>>
    BY <1>4 DEF TaskAnnounce, Announce, asmVars
  <2>2. /\ workers'[w].stage = "status" /\ workers'[w].asm = workers[w].asm
        /\ workers[w].stage = "announce"
        /\ \A v \in Workers : v # w => workers'[v] = workers[v]
    BY <1>4, StageAfter DEF TaskAnnounce, TaskAt, TypeOK
  <2>3. {"announce", "status"} \subseteq TaskLocked
    BY DEF TaskLocked
  <2> QED
    BY <2>1, <2>2, <2>3 DEF LocksHeld, MutexHeld, WorkerHolds, StatusHeld
<1>5. CASE WorkerGoesOn(w)
  <2>1. workers[w].stage = "status"
    BY <1>5 DEF WorkerGoesOn, PythonEnds, Callbacks
  <2>2. statusMutex = Worker(w) /\ statusMutex' = Nobody /\ UNCHANGED <<mutex, fpc>>
    BY <1>5, <2>1 DEF WorkerGoesOn, PythonEnds, LocksHeld, MutexHeld, WorkerHolds, StatusHeld
  <2>3. /\ workers'[w].stage = "end" /\ workers'[w].asm = workers[w].asm
        /\ \A v \in Workers : v # w => workers'[v] = workers[v]
    BY <1>5, StageAfter DEF WorkerGoesOn, TypeOK
  <2>4. {"end", "status"} \subseteq TaskLocked
    BY DEF TaskLocked
  <2> QED
    BY <2>1, <2>2, <2>3, <2>4 DEF LocksHeld, MutexHeld, WorkerHolds, StatusHeld
<1>6. CASE TaskEnd(w)
  <2>1. workers[w].kind # "free" /\ workers[w].stage = "end"
    BY <1>6 DEF TaskEnd, TaskAt
  <2>2. workers[w].asm \in Assemblies /\ mutex[workers[w].asm] = Worker(w)
    BY <2>1, TaskAssembly DEF LocksHeld, MutexHeld, WorkerHolds, StatusHeld, TaskLocked
  <2>3. /\ \A a \in Assemblies : a # workers[w].asm => mutex'[a] = mutex[a]
        /\ mutex'[workers[w].asm] = Nobody
        /\ statusMutex' = statusMutex
    BY <1>6, <2>2 DEF TaskEnd, TypeOK
  <2>4. /\ \A v \in Workers : v # w => workers'[v] = workers[v]
        /\ workers'[w].stage \notin TaskLocked
    BY <1>6 DEF TaskEnd, TypeOK, Free, TaskLocked
  <2>5. fpc'[workers[w].asm] \notin FilterLocked
        /\ \A a \in Assemblies : a # workers[w].asm => fpc'[a] = fpc[a]
    <3>1. CASE workers[w].kind = "connect"
      BY <1>6, <2>2, <3>1 DEF TaskEnd, TypeOK, FilterLocked
    <3>2. CASE workers[w].kind # "connect"
      <4>1. fpc' = fpc
        BY <1>6, <3>2 DEF TaskEnd
      <4>2. fpc[workers[w].asm] \notin FilterLocked
        BY <2>2 DEF LocksHeld, MutexHeld, WorkerHolds, StatusHeld
      <4> QED
        BY <4>1, <4>2
    <3> QED
      BY <3>1, <3>2
  <2>6. fpc[workers[w].asm] \notin FilterLocked
    BY <2>2 DEF LocksHeld, MutexHeld, WorkerHolds, StatusHeld
  <2>7. "status" \in TaskLocked /\ "status" \in FilterLocked
    BY DEF TaskLocked, FilterLocked
  <2>8. statusMutex # Worker(w)
    BY <2>1 DEF LocksHeld, MutexHeld, WorkerHolds, StatusHeld
  <2> QED
    <3>1. ASSUME NEW a \in Assemblies PROVE MutexHeld(a)'
      <4>1. CASE a = workers[w].asm
        BY <2>3, <2>5, <2>7, <4>1 DEF MutexHeld
      <4>2. CASE a # workers[w].asm
        BY <2>3, <2>4, <2>5, <4>2 DEF LocksHeld, MutexHeld
      <4> QED
        BY <4>1, <4>2
    <3>2. ASSUME NEW v \in Workers PROVE WorkerHolds(v)'
      <4>1. CASE v = w
        BY <2>4, <2>7, <4>1 DEF WorkerHolds
      <4>2. CASE v # w /\ workers[v].stage \in TaskLocked
        <5>1. workers[v].asm \in Assemblies /\ mutex[workers[v].asm] = Worker(v)
          BY <4>2, LockedAssembly
        <5>2. workers[v].asm # workers[w].asm
          BY <2>2, <4>2, <5>1
        <5> QED
          BY <2>3, <2>4, <4>2, <5>1, <5>2 DEF LocksHeld, WorkerHolds
      <4>3. CASE v # w /\ workers[v].stage \notin TaskLocked
        BY <2>3, <2>4, <2>7, <4>3 DEF WorkerHolds
      <4> QED
        BY <4>1, <4>2, <4>3
    <3>3. StatusHeld'
      <4>1. \A b \in Assemblies : fpc[b] = "status" => fpc'[b] = "status"
        BY <2>5, <2>6, <2>7
      <4>2. \A v \in Workers : workers[v].stage = "status" => workers'[v].stage = "status"
        BY <2>1, <2>4
      <4> QED
        BY <2>3, <4>1, <4>2 DEF LocksHeld, StatusHeld
    <3> QED
      BY <3>1, <3>2, <3>3 DEF LocksHeld
<1> QED
  BY <1>1, <1>2, <1>3, <1>4, <1>5, <1>6 DEF WorkerStep

\* A filter thread gives its locks back.
LEMMA FilterUnlocks ==
  ASSUME TypeOK, TasksFit, LocksHeld, workers' = workers,
         NEW a \in Assemblies, fpc[a] \in FilterLocked, fpc'[a] \notin FilterLocked,
         \A b \in Assemblies : b # a => fpc'[b] = fpc[b],
         mutex' = [mutex EXCEPT ![a] = Nobody],
         statusMutex' = IF fpc[a] = "status" THEN Nobody ELSE statusMutex
  PROVE  LocksHeld'
<1> USE ThreadsDiffer
<1>1. mutex[a] = Filter(a) /\ mutex'[a] = Nobody
      /\ \A b \in Assemblies : b # a => mutex'[b] = mutex[b]
  BY DEF LocksHeld, MutexHeld, TypeOK
<1>2. "status" \in FilterLocked /\ "status" \in TaskLocked
  BY DEF FilterLocked, TaskLocked
<1>3. ASSUME NEW b \in Assemblies PROVE MutexHeld(b)'
  <2>1. CASE b = a
    BY <1>1, <1>2, <2>1 DEF MutexHeld
  <2>2. CASE b # a
    <3>1. mutex'[b] = mutex[b] /\ fpc'[b] = fpc[b]
      BY <1>1, <2>2
    <3>2. fpc[b] = "status" => fpc[a] # "status"
      BY <2>2 DEF LocksHeld, MutexHeld
    <3> QED
      BY <3>1, <3>2 DEF LocksHeld, MutexHeld
  <2> QED
    BY <2>1, <2>2
<1>4. ASSUME NEW v \in Workers PROVE WorkerHolds(v)'
  <2>1. workers[v].stage = "status" => fpc[a] # "status"
    BY DEF LocksHeld, MutexHeld, WorkerHolds
  <2>2. CASE workers[v].stage \in TaskLocked
    <3>1. workers[v].asm \in Assemblies /\ mutex[workers[v].asm] = Worker(v)
      BY <2>2, LockedAssembly
    <3>2. workers[v].asm # a
      BY <1>1, <3>1
    <3> QED
      BY <1>1, <2>1, <3>1, <3>2 DEF LocksHeld, WorkerHolds
  <2>3. CASE workers[v].stage \notin TaskLocked
    BY <1>2, <2>3 DEF WorkerHolds
  <2> QED
    BY <2>2, <2>3
<1>5. StatusHeld'
  BY DEF LocksHeld, StatusHeld
<1> QED
  BY <1>3, <1>4, <1>5 DEF LocksHeld

\* So do the filter threads' steps.
LEMMA FilterLocks ==
  ASSUME TypeOK, Callbacks, TasksFit, LocksHeld, NEW a \in Assemblies, FilterStep(a)
  PROVE  LocksHeld'
<1> USE ThreadsDiffer
<1> USE DEF FilterLocked
<1>1. workers' = workers /\ \A b \in Assemblies : b # a => fpc'[b] = fpc[b]
  BY DEF FilterStep, FilterTake, FilterAnnounce, FilterFrame, FilterEnd, FilterFails,
     FilterExit, FilterGoesOn, TypeOK, poolVars
<1>2. CASE FilterTake(a)
  BY <1>1, <1>2 DEF FilterTake, LocksHeld, MutexHeld, WorkerHolds, StatusHeld, TypeOK
<1>3. CASE FilterAnnounce(a)
  BY <1>1, <1>3 
     DEF FilterAnnounce, Announce, LocksHeld, MutexHeld, WorkerHolds, StatusHeld, TypeOK
<1>4. CASE FilterFrame(a)
  BY <1>1, <1>4 DEF FilterFrame, LocksHeld, MutexHeld, WorkerHolds, StatusHeld, TypeOK, lockVars
<1>5. CASE FilterEnd(a)
  BY <1>1, <1>5 DEF FilterEnd, LocksHeld, MutexHeld, WorkerHolds, StatusHeld, TypeOK
<1>6. CASE FilterFails(a)
  <2>1. fpc[a] \in FilterLocked /\ mutex[a] = Filter(a) /\ mutex' = [mutex EXCEPT ![a] = Nobody]
        /\ fpc'[a] = "error"
        /\ statusMutex' = (IF fpc[a] = "status" THEN Nobody ELSE statusMutex)
    BY <1>6 DEF FilterFails, LocksHeld, MutexHeld, WorkerHolds, StatusHeld, TypeOK
  <2> QED
    BY <1>1, <2>1, FilterUnlocks
<1>7. CASE FilterExit(a)
  BY <1>1, <1>7, LocksStay DEF FilterExit, lockVars, TypeOK
<1>8. CASE FilterGoesOn(a)
  <2>1. fpc[a] \in FilterPython
    BY <1>8 DEF FilterGoesOn, PythonEnds, Callbacks
  <2>2. mutex' = mutex /\ statusMutex' = (IF fpc[a] = "status" THEN Nobody ELSE statusMutex)
        /\ fpc'[a] = (IF fpc[a] = "error" THEN "pop" ELSE "reading")
    BY <1>8 DEF FilterGoesOn, PythonEnds, TypeOK
  <2> QED
    <3>1. CASE fpc[a] = "error"
      BY <1>1, <2>2, <3>1, LocksStay
    <3>2. CASE fpc[a] # "error"
      <4>1. fpc[a] \in FilterLocked /\ fpc'[a] = "reading"
        BY <2>1, <2>2, <3>2 DEF FilterPython
      <4>2. ASSUME NEW b \in Assemblies PROVE MutexHeld(b)'
        BY <1>1, <2>2, <4>1, <4>2 DEF LocksHeld, MutexHeld
      <4>3. ASSUME NEW v \in Workers PROVE WorkerHolds(v)'
        BY <1>1, <2>2, <4>3 DEF LocksHeld, MutexHeld, WorkerHolds
      <4>4. StatusHeld'
        BY <1>1, <2>2, <4>1 DEF LocksHeld, StatusHeld
      <4> QED
        BY <4>2, <4>3, <4>4 DEF LocksHeld
    <3> QED
      BY <3>1, <3>2
<1> QED
  BY <1>2, <1>3, <1>4, <1>5, <1>6, <1>7, <1>8 DEF FilterStep

\* And so does every step.
LEMMA LocksStep ==
  ASSUME TypeOK, Calls, Callbacks, TasksFit, Connecting, LocksHeld, [Next]_vars
  PROVE  LocksHeld'
<1>1. ASSUME UNCHANGED <<mutex, statusMutex, workers, fpc>> PROVE LocksHeld'
  BY <1>1 DEF LocksHeld, MutexHeld, WorkerHolds, StatusHeld
<1>2. ASSUME NEW t \in Threads, Python(t) \/ CallStep(t) PROVE LocksHeld'
  BY <1>1, <1>2 DEF Python, GilTake, CallBegin, CallStep, CallAsynchronous, CallSubmit, CallAwait,
              DisconnectBegin, DisconnectJoin, lockVars, asmVars, poolVars
<1>3. CASE GilSwitch \/ Destroy \/ SchedulerStep \/ UNCHANGED vars
  BY <1>1, <1>3 DEF GilSwitch, Destroy, SchedulerStep, SchedulerPoll, SchedulerReport,
     SchedulerGoesOn, PythonEnds, lockVars, asmVars, poolVars, vars
<1>4. CASE PoolTake
  <2>1. PICK w \in Workers : /\ workers[w] = Free
                             /\ workers' = [workers EXCEPT ![w] = Head(pool)]
                             /\ Head(pool) \in PoolTasks
    BY <1>4, PoolTakeType
  <2>2. Free.stage \notin TaskLocked /\ Head(pool).stage \notin TaskLocked
    BY <2>1 DEF Free, PoolTasks, TaskLocked
  <2> QED
    BY <1>4, <2>1, <2>2, LocksStay DEF PoolTake, TypeOK, lockVars, asmVars
<1>5. ASSUME NEW a \in Assemblies, ReaderStep(a) PROVE LocksHeld'
  BY <1>1, <1>5 DEF ReaderStep, ReaderFails, ReaderExit, ReaderGoesOn, PythonEnds, lockVars,
     poolVars
<1> QED
  BY <1>2, <1>3, <1>4, <1>5, WorkerLocks, FilterLocks DEF Next

-----------------------------------------------------------------------------
(* The tasks. *)

\* A call's tasks are added to those of the pool.
LEMMA TasksSubmit ==
  ASSUME TypeOK, NEW kind \in {"status", "write_cr", "connect", "disconnect"},
         NEW t \in Threads, Submit(kind, t), workers' = workers
  PROVE  Tasks' = Tasks \cup {Task(kind, a, t) : a \in Assemblies}
<1>1. Range(pool') = Range(pool) \cup {Task(kind, a, t) : a \in Assemblies}
  BY SubmitType
<1> QED
  BY <1>1 DEF Tasks

\* A thread that takes a task is no longer free; nothing else changes.
LEMMA TasksTake ==
  ASSUME TypeOK, PoolTake
  PROVE  Tasks' \subseteq Tasks /\ Tasks \subseteq Tasks' \cup {Free}
<1>1. PICK w \in Workers : /\ workers[w] = Free
                           /\ workers' = [workers EXCEPT ![w] = Head(pool)]
                           /\ Range(pool) = Range(pool') \cup {Head(pool)}
  BY PoolTakeType
<1>2. /\ DOMAIN workers = Workers /\ DOMAIN workers' = Workers
      /\ workers'[w] = Head(pool) /\ \A v \in Workers : v # w => workers'[v] = workers[v]
  BY <1>1 DEF TypeOK
<1> QED
  BY <1>1, <1>2 DEF Tasks, Range

\* One thread has another task.
LEMMA TasksWork ==
  ASSUME TypeOK, NEW w \in Workers, NEW k, workers' = [workers EXCEPT ![w] = k], pool' = pool
  PROVE  /\ Tasks' \subseteq Tasks \cup {k} /\ k \in Tasks'
         /\ \A j \in Tasks : j \in Tasks' \/ j = workers[w]
<1>1. /\ DOMAIN workers = Workers /\ DOMAIN workers' = Workers
      /\ workers'[w] = k /\ \A v \in Workers : v # w => workers'[v] = workers[v]
  BY DEF TypeOK
<1> QED
  BY <1>1 DEF Tasks, Range

\* What a pool thread's step makes of its task.
NextTask(w, k) ==
  \/ k = Free
  \/ /\ k.kind = workers[w].kind /\ k.asm = workers[w].asm /\ k.by = workers[w].by
     /\ \/ TaskStop(w) /\ k.stage = "join"
        \/ TaskJoin(w) /\ k.stage = "lock"
        \/ TaskLock(w) /\ k.stage = "announce"
        \/ TaskAnnounce(w) /\ k.stage = "status"
        \/ WorkerGoesOn(w) /\ k.stage = "end"

\* A pool thread's step changes its own task, and no call.
LEMMA WorkerTask ==
  ASSUME TypeOK, NEW w \in Workers, WorkerStep(w)
  PROVE  /\ pool' = pool /\ call' = call /\ spc' = spc /\ isRunning' = isRunning
         /\ \E k \in WorkerTasks : workers' = [workers EXCEPT ![w] = k] /\ NextTask(w, k)
<1>1. pool' = pool /\ call' = call /\ spc' = spc /\ isRunning' = isRunning
  BY DEF WorkerStep, TaskExchange, TaskStop, TaskJoin, TaskLock, TaskAnnounce, TaskEnd,
         WorkerGoesOn, PythonEnds, Announce, pyVars, asmVars
<1>2. \A s \in {"begin", "join", "lock", "announce", "status", "end"} :
        /\ [workers[w] EXCEPT !.stage = s] \in WorkerTasks
        /\ [workers[w] EXCEPT !.stage = s].kind = workers[w].kind
        /\ [workers[w] EXCEPT !.stage = s].asm = workers[w].asm
        /\ [workers[w] EXCEPT !.stage = s].by = workers[w].by
        /\ [workers[w] EXCEPT !.stage = s].stage = s
  BY DEF TypeOK, WorkerTasks
<1>3. Free \in WorkerTasks
  BY ThreadTypes
<1>4. CASE TaskExchange(w) \/ TaskEnd(w)
  BY <1>1, <1>3, <1>4 DEF TaskExchange, TaskEnd, NextTask
<1>5. CASE TaskStop(w)
  <2>1. workers' = [workers EXCEPT ![w] = Free]
        \/ workers' = [workers EXCEPT ![w] = [workers[w] EXCEPT !.stage = "join"]]
    BY <1>5 DEF TaskStop, TypeOK
  <2> QED
    BY <1>1, <1>2, <1>3, <1>5, <2>1 DEF NextTask
<1>6. CASE TaskJoin(w)
  BY <1>1, <1>2, <1>6 DEF TaskJoin, Goto, NextTask
<1>7. CASE TaskLock(w)
  BY <1>1, <1>2, <1>7 DEF TaskLock, Goto, NextTask
<1>8. CASE TaskAnnounce(w)
  BY <1>1, <1>2, <1>8 DEF TaskAnnounce, Goto, NextTask
<1>9. CASE WorkerGoesOn(w)
  BY <1>1, <1>2, <1>9 DEF WorkerGoesOn, Goto, NextTask
<1> QED
  BY <1>4, <1>5, <1>6, <1>7, <1>8, <1>9 DEF WorkerStep

\* A step that leaves the program's call alone and adds no task.
LEMMA TasksFitStay ==
  ASSUME TasksFit, Tasks' \subseteq Tasks, call'[Main] = call[Main]
  PROVE  TasksFit'
BY DEF TasksFit, TaskFits

\* Callbacks neither connect nor disconnect.
LEMMA CallbackNames ==
  ASSUME CallbackCalls, NEW t \in Threads, t # Main
  PROVE  call[t].name \in {"read", "cancel_reading", "none", "write_cr"}
BY DEF CallbackCalls, Asynchronous, Threads

\* Without a connect or disconnect that waits there is no task of theirs.
LEMMA NoTasksOfMain ==
  ASSUME TasksFit, \/ call[Main].name \notin {"connect", "disconnect", "destroy"}
                   \/ call[Main].step # "await" \/ Ready(Main)
  PROVE  \A k \in Tasks : k.kind \notin {"connect", "disconnect"}
BY DEF TasksFit, TaskFits, Ready

\* The steps of a call.
LEMMA CallTasks ==
  ASSUME TypeOK, Calls, CallbackCalls, TasksFit, NEW t \in Threads, CallStep(t)
  PROVE  TasksFit'
<1> USE ThreadsDiffer
<1>1. CASE CallAsynchronous(t) \/ CallAwait(t)
  <2>1. Tasks' = Tasks /\ call' = [call EXCEPT ![t] = NoCall]
    BY <1>1 DEF CallAsynchronous, CallAwait, Return, Tasks, poolVars
  <2>2. CASE t = Main
    <3>1. \A k \in Tasks : k.kind \notin {"connect", "disconnect"}
      BY <1>1, <2>2, NoTasksOfMain DEF CallAsynchronous, CallAwait, At, Asynchronous
    <3> QED
      BY <2>1, <3>1 DEF TasksFit, TaskFits
  <2>3. CASE t # Main
    <3>1. call'[Main] = call[Main]
      BY <2>1, <2>3 DEF TypeOK
    <3> QED
      BY <2>1, <3>1, TasksFitStay
  <2> QED
    BY <2>2, <2>3
<1>2. CASE DisconnectBegin(t)
  <2>1. t = Main
    BY <1>2, CallbackNames DEF DisconnectBegin, At
  <2>2. \A k \in Tasks : k.kind \notin {"connect", "disconnect"}
    BY <1>2, <2>1, NoTasksOfMain DEF DisconnectBegin, At
  <2>3. Tasks' = Tasks
    BY <1>2 DEF DisconnectBegin, Tasks, poolVars
  <2> QED
    BY <2>2, <2>3 DEF TasksFit, TaskFits
<1>3. ASSUME NEW kind \in {"write_cr", "connect", "disconnect"}, Submit(kind, t),
             Step(t, "await"), workers' = workers, call[t].step # "await",
             kind \in {"write_cr", "connect"} => call[t].name = kind,
             kind = "disconnect" => call[t].name \in {"disconnect", "destroy"}
      PROVE  TasksFit'
  <2>1. Tasks' = Tasks \cup {Task(kind, a, t) : a \in Assemblies}
    BY <1>3, TasksSubmit
  <2>2. /\ call' = [call EXCEPT ![t].step = "await"]
        /\ call'[t] = [name |-> call[t].name, step |-> "await"]
    BY <1>3 DEF Step, TypeOK
  <2>3. \A a \in Assemblies : a # 0
    BY BindingAssumption DEF Assemblies
  <2>4. CASE t = Main
    <3>1. \A k \in Tasks : k.kind \notin {"connect", "disconnect"}
      BY <1>3, <2>4, NoTasksOfMain
    <3>2. ASSUME NEW k \in Tasks PROVE TaskFits(k)'
      BY <3>1 DEF TasksFit, TaskFits
    <3>3. ASSUME NEW a \in Assemblies PROVE TaskFits(Task(kind, a, t))'
      BY <1>3, <2>2, <2>3, <2>4 DEF TaskFits, Task
    <3> QED
      BY <2>1, <3>2, <3>3 DEF TasksFit
  <2>5. CASE t # Main
    <3>1. kind = "write_cr" /\ call'[Main] = call[Main]
      BY <1>3, <2>2, <2>5, CallbackNames DEF TypeOK
    <3>2. ASSUME NEW k \in Tasks PROVE TaskFits(k)'
      BY <3>1 DEF TasksFit, TaskFits
    <3>3. ASSUME NEW a \in Assemblies PROVE TaskFits(Task(kind, a, t))'
      BY <2>3, <3>1 DEF TaskFits, Task
    <3> QED
      BY <2>1, <3>2, <3>3 DEF TasksFit
  <2> QED
    BY <2>4, <2>5
<1>4. CASE CallSubmit(t)
  BY <1>3, <1>4 DEF CallSubmit, At
<1>5. CASE DisconnectJoin(t)
  BY <1>3, <1>5 DEF DisconnectJoin, At
<1> QED
  BY <1>1, <1>2, <1>4, <1>5 DEF CallStep

\* The tasks are of their kinds, and for connect and disconnect the program waits.
LEMMA TasksStep ==
  ASSUME TypeOK, Calls, Callbacks, CallbackCalls, TasksFit, [Next]_vars
  PROVE  TasksFit'
<1> USE ThreadsDiffer
<1>1. ASSUME NEW t \in Threads, GilTake(t) PROVE TasksFit'
  BY <1>1, TasksFitStay DEF GilTake, Tasks, poolVars
<1>2. ASSUME NEW t \in Threads, NEW name \in Names \cup {"destroy"}, py[t] = "python",
             call' = [call EXCEPT ![t] = [name |-> name, step |-> "begin"]], UNCHANGED poolVars
      PROVE  TasksFit'
  <2>1. Tasks' = Tasks
    BY <1>2 DEF Tasks, poolVars
  <2>2. CASE t = Main
    <3>1. call[Main].name = "none"
      BY <1>2, <2>2 DEF Calls, CallFits
    <3>2. \A k \in Tasks : k.kind \notin {"connect", "disconnect"}
      BY <3>1, NoTasksOfMain
    <3> QED
      BY <2>1, <3>2 DEF TasksFit, TaskFits
  <2>3. CASE t # Main
    <3>1. call'[Main] = call[Main]
      BY <1>2, <2>3 DEF TypeOK
    <3> QED
      BY <2>1, <3>1, TasksFitStay
  <2> QED
    BY <2>2, <2>3
<1>3. ASSUME NEW t \in Threads, Python(t) PROVE TasksFit'
  BY <1>1, <1>2, <1>3 DEF Python, CallBegin
<1>4. CASE Destroy
  BY <1>2, <1>4 DEF Destroy
<1>5. CASE SchedulerPoll
  <2>1. call' = call
    BY <1>5 DEF SchedulerPoll, pyVars
  <2>2. CASE isRunning
    <3>1. Tasks' = Tasks \cup {Task("status", a, Scheduler) : a \in Assemblies}
      BY <1>5, <2>2, TasksSubmit DEF SchedulerPoll
    <3>2. ASSUME NEW a \in Assemblies PROVE TaskFits(Task("status", a, Scheduler))'
      BY BindingAssumption DEF TaskFits, Task, Assemblies
    <3>3. ASSUME NEW k \in Tasks PROVE TaskFits(k)'
      BY <2>1 DEF TasksFit, TaskFits
    <3> QED
      BY <3>1, <3>2, <3>3 DEF TasksFit
  <2>3. CASE ~isRunning
    BY <1>5, <2>1, <2>3, TasksFitStay DEF SchedulerPoll, Tasks
  <2> QED
    BY <2>2, <2>3
<1>6. CASE PoolTake
  BY <1>6, TasksTake, TasksFitStay DEF PoolTake, pyVars
<1>7. ASSUME NEW w \in Workers, WorkerStep(w) PROVE TasksFit'
  <2>1. call' = call /\ pool' = pool
    BY <1>7, WorkerTask
  <2>2. PICK k \in WorkerTasks : workers' = [workers EXCEPT ![w] = k] /\ NextTask(w, k)
    BY <1>7, WorkerTask
  <2>3. TaskFits(workers[w])
    BY DEF TasksFit, Tasks, Range, TypeOK
  <2>4. TaskFits(k)'
    <3>1. CASE k = Free
      BY <3>1 DEF TaskFits, Free
    <3>2. CASE k # Free
      <4>1. /\ k.kind = workers[w].kind /\ k.asm = workers[w].asm /\ k.by = workers[w].by
            /\ k.kind \in {"connect", "disconnect"}
            /\ k.stage \in {"join", "lock"} => k.kind = "disconnect"
        BY <2>2, <2>3, <3>2, ThreadsDiffer
           DEF NextTask, TaskStop, TaskJoin, TaskLock, TaskAnnounce, TaskAt, WorkerGoesOn,
               PythonEnds, Callbacks, TaskFits
      <4> QED
        BY <2>1, <2>3, <4>1 DEF TaskFits
    <3> QED
      BY <3>1, <3>2
  <2>5. Tasks' \subseteq Tasks \cup {k}
    BY <2>1, <2>2, TasksWork
  <2>6. ASSUME NEW j \in Tasks PROVE TaskFits(j)'
    BY <2>1 DEF TasksFit, TaskFits
  <2> QED
    BY <2>4, <2>5, <2>6 DEF TasksFit
<1>8. CASE UNCHANGED <<call, poolVars>>
  BY <1>8, TasksFitStay DEF Tasks, poolVars
<1>9. CASE GilSwitch \/ SchedulerReport \/ SchedulerGoesOn
  BY <1>8, <1>9 DEF GilSwitch, SchedulerReport, SchedulerGoesOn, PythonEnds
<1>10. ASSUME NEW a \in Assemblies, FilterStep(a) \/ ReaderStep(a) PROVE TasksFit'
  BY <1>8, <1>10 DEF FilterStep, FilterTake, FilterAnnounce, FilterFrame, FilterEnd, FilterFails,
     FilterExit, FilterGoesOn, ReaderStep, ReaderFails, ReaderExit, ReaderGoesOn, Announce,
     PythonEnds, pyVars
<1>11. ASSUME NEW t \in Threads, CallStep(t) PROVE TasksFit'
  BY <1>11, CallTasks
<1> QED
  BY <1>3, <1>4, <1>5, <1>6, <1>7, <1>8, <1>9, <1>10, <1>11 DEF Next, SchedulerStep, vars, pyVars

-----------------------------------------------------------------------------
(* connect. *)

\* The places of the tasks in the pool's queue after a call's have been added.
LEMMA SubmitPlaces ==
  ASSUME TypeOK, NEW kind \in {"status", "write_cr", "connect", "disconnect"},
         NEW t \in Threads, Submit(kind, t)
  PROVE  \A j \in DOMAIN pool' :
           \/ j \in DOMAIN pool /\ pool'[j] = pool[j]
           \/ j - Len(pool) \in Assemblies /\ pool'[j] = Task(kind, j - Len(pool), t)
<1> DEFINE new == [a \in Assemblies |-> Task(kind, a, t)]
<1>1. \A a \in Assemblies : Task(kind, a, t) \in PoolTasks
  BY DEF Task, PoolTasks
<1>2. N \in Nat /\ Assemblies = 1 .. N
  BY BindingAssumption DEF Assemblies
<1>3. new \in Seq(PoolTasks) /\ Len(new) = N /\ \A a \in Assemblies : new[a] = Task(kind, a, t)
  BY <1>1, <1>2
<1>4. pool \in Seq(PoolTasks) /\ pool' = pool \o new
  BY DEF TypeOK, PoolTasks, Submit
<1> HIDE DEF new
<1>5. /\ Len(pool) \in Nat /\ DOMAIN pool = 1 .. Len(pool)
      /\ DOMAIN pool' = 1 .. Len(pool) + N
      /\ \A j \in 1 .. Len(pool) + N :
           pool'[j] = IF j <= Len(pool) THEN pool[j] ELSE new[j - Len(pool)]
  <2>1. \A s, r \in Seq(PoolTasks) :
          /\ Len(s) \in Nat /\ DOMAIN s = 1 .. Len(s)
          /\ DOMAIN (s \o r) = 1 .. Len(s) + Len(r)
          /\ \A j \in 1 .. Len(s) + Len(r) :
               (s \o r)[j] = IF j <= Len(s) THEN s[j] ELSE r[j - Len(s)]
    OBVIOUS
  <2> QED
    BY <1>3, <1>4, <2>1
<1>6. ASSUME NEW j \in DOMAIN pool'
      PROVE  \/ j \in DOMAIN pool /\ pool'[j] = pool[j]
             \/ j - Len(pool) \in Assemblies /\ pool'[j] = Task(kind, j - Len(pool), t)
  <2>1. CASE j <= Len(pool)
    BY <1>5, <2>1
  <2>2. CASE ~(j <= Len(pool))
    <3>1. j - Len(pool) \in Assemblies
      BY <1>2, <1>5, <2>2
    <3>2. pool'[j] = new[j - Len(pool)]
      BY <1>5, <2>2
    <3> QED
      BY <1>3, <3>1, <3>2
  <2> QED
    BY <2>1, <2>2
<1> QED
  BY <1>6

\* The places after the oldest has been taken.
LEMMA TakePlaces ==
  ASSUME TypeOK, PoolTake
  PROVE  /\ 1 \in DOMAIN pool /\ Head(pool) = pool[1]
         /\ \A j \in DOMAIN pool' :
              j \in Nat /\ j + 1 \in DOMAIN pool /\ j + 1 # 1 /\ pool'[j] = pool[j + 1]
<1>1. pool \in Seq(PoolTasks) /\ pool # << >> /\ pool' = Tail(pool)
  BY DEF TypeOK, PoolTasks, PoolTake
<1>2. /\ Len(pool) \in Nat /\ Len(pool) > 0 /\ DOMAIN pool = 1 .. Len(pool)
      /\ Head(pool) = pool[1]
      /\ DOMAIN pool' = 1 .. Len(pool) - 1
      /\ \A j \in 1 .. Len(pool) - 1 : pool'[j] = pool[j + 1]
  BY <1>1
<1> QED
  BY <1>2

\* A step that adds no task to connect.
LEMMA ConnectSubmit ==
  ASSUME TypeOK, ConnectOnce, NEW kind \in {"status", "write_cr", "connect", "disconnect"},
         NEW t \in Threads, Submit(kind, t), workers' = workers,
         kind = "connect" => \A k \in Tasks : k.kind # "connect"
  PROVE  ConnectOnce'
<1>1. \A j \in DOMAIN pool' :
        \/ j \in DOMAIN pool /\ pool'[j] = pool[j]
        \/ j - Len(pool) \in Assemblies /\ pool'[j] = Task(kind, j - Len(pool), t)
  BY SubmitPlaces
<1>2. \A a : Task(kind, a, t).kind = kind /\ Task(kind, a, t).asm = a
  BY DEF Task
<1>3. CASE kind # "connect"
  <2>1. \A j \in DOMAIN pool' :
          pool'[j].kind = "connect" => j \in DOMAIN pool /\ pool'[j] = pool[j]
    BY <1>1, <1>2, <1>3
  <2> QED
    BY <2>1 DEF ConnectOnce
<1>4. CASE kind = "connect"
  <2>1. /\ \A w \in Workers : workers[w].kind # "connect"
        /\ \A j \in DOMAIN pool : pool[j].kind # "connect"
    BY <1>4 DEF Tasks, Range, TypeOK
  <2>2. \A j \in DOMAIN pool' : pool'[j].kind = "connect" => pool'[j].asm = j - Len(pool)
    BY <1>1, <1>2, <2>1
  <2>3. \A j \in DOMAIN pool' : j \in Int /\ Len(pool) \in Int
    <3>1. pool' \in Seq(PoolTasks) /\ pool \in Seq(PoolTasks)
      BY SubmitType DEF TypeOK, PoolTasks
    <3> QED
      BY <3>1
  <2>4. \A j, k \in DOMAIN pool' : j - Len(pool) = k - Len(pool) => j = k
    BY <2>3
  <2> QED
    BY <2>1, <2>2, <2>4 DEF ConnectOnce
<1> QED
  BY <1>3, <1>4

\* No step makes a second task to connect an assembly.
LEMMA ConnectOnceStep ==
  ASSUME TypeOK, Calls, CallbackCalls, TasksFit, ConnectOnce, [Next]_vars
  PROVE  ConnectOnce'
<1>1. ASSUME UNCHANGED poolVars PROVE ConnectOnce'
  BY <1>1 DEF ConnectOnce, poolVars
<1>2. ASSUME NEW t \in Threads, CallSubmit(t) PROVE ConnectOnce'
  <2>1. /\ call[t].name \in {"connect", "write_cr"} /\ call[t].step = "begin"
        /\ Submit(call[t].name, t) /\ workers' = workers
    BY <1>2 DEF CallSubmit, At
  <2>2. call[t].name = "connect" => \A k \in Tasks : k.kind # "connect"
    BY <2>1, CallbackNames, NoTasksOfMain
  <2> QED
    BY <2>1, <2>2, ConnectSubmit
<1>3. ASSUME NEW t \in Threads, DisconnectJoin(t) PROVE ConnectOnce'
  BY <1>3, ConnectSubmit DEF DisconnectJoin
<1>4. CASE SchedulerPoll
  <2>1. CASE isRunning
    BY <1>4, <2>1, ConnectSubmit, ThreadsDiffer DEF SchedulerPoll
  <2>2. CASE ~isRunning
    BY <1>1, <1>4, <2>2 DEF SchedulerPoll, poolVars
  <2> QED
    BY <2>1, <2>2
<1>5. CASE PoolTake
  <2>1. PICK w \in Workers : workers[w] = Free /\ workers' = [workers EXCEPT ![w] = Head(pool)]
    BY <1>5, PoolTakeType
  <2>2. /\ 1 \in DOMAIN pool /\ workers'[w] = pool[1]
        /\ \A v \in Workers : v # w => workers'[v] = workers[v]
    BY <1>5, <2>1, TakePlaces DEF TypeOK
  <2>3. \A j \in DOMAIN pool' :
          j \in Nat /\ j + 1 \in DOMAIN pool /\ j + 1 # 1 /\ pool'[j] = pool[j + 1]
    BY <1>5, TakePlaces
  <2>4. \A v, u \in Workers :
          workers'[v].kind = "connect" /\ workers'[u].kind = "connect"
          /\ workers'[v].asm = workers'[u].asm => v = u
    BY <2>2 DEF ConnectOnce
  <2>5. ASSUME NEW j \in DOMAIN pool', NEW k \in DOMAIN pool',
               pool'[j].kind = "connect", pool'[k].kind = "connect", pool'[j].asm = pool'[k].asm
        PROVE  j = k
    <3>1. j + 1 = k + 1
      BY <2>3, <2>5 DEF ConnectOnce
    <3>2. j \in Nat /\ k \in Nat
      BY <2>3
    <3> QED
      BY <3>1, <3>2
  <2>6. ASSUME NEW j \in DOMAIN pool', NEW v \in Workers,
               pool'[j].kind = "connect", workers'[v].kind = "connect"
        PROVE  pool'[j].asm # workers'[v].asm
    <3>1. CASE v = w
      BY <2>2, <2>3, <2>6, <3>1 DEF ConnectOnce
    <3>2. CASE v # w
      BY <2>2, <2>3, <2>6, <3>2 DEF ConnectOnce
    <3> QED
      BY <3>1, <3>2
  <2> QED
    BY <2>4, <2>5, <2>6 DEF ConnectOnce
<1>6. ASSUME NEW w \in Workers, WorkerStep(w) PROVE ConnectOnce'
  <2>1. pool' = pool
    BY <1>6, WorkerTask
  <2>2. PICK k \in WorkerTasks : workers' = [workers EXCEPT ![w] = k] /\ NextTask(w, k)
    BY <1>6, WorkerTask
  <2>3. k.kind = "connect" => workers[w].kind = "connect" /\ workers[w].asm = k.asm
    BY <2>2 DEF NextTask, Free
  <2>4. workers'[w] = k /\ \A v \in Workers : v # w => workers'[v] = workers[v]
    BY <2>2 DEF TypeOK
  <2> QED
    BY <2>1, <2>3, <2>4 DEF ConnectOnce
<1>7. ASSUME NEW t \in Threads,
             Python(t) \/ CallAsynchronous(t) \/ CallAwait(t) \/ DisconnectBegin(t)
      PROVE  ConnectOnce'
  BY <1>1, <1>7 DEF Python, GilTake, CallBegin, CallAsynchronous, CallAwait, DisconnectBegin
<1>8. CASE GilSwitch \/ Destroy \/ SchedulerReport \/ SchedulerGoesOn \/ UNCHANGED vars
  BY <1>1, <1>8 DEF GilSwitch, Destroy, SchedulerReport, SchedulerGoesOn, vars
<1>9. ASSUME NEW a \in Assemblies, FilterStep(a) \/ ReaderStep(a) PROVE ConnectOnce'
  BY <1>1, <1>9 DEF FilterStep, FilterTake, FilterAnnounce, FilterFrame, FilterEnd, FilterFails,
     FilterExit, FilterGoesOn, ReaderStep, ReaderFails, ReaderExit, ReaderGoesOn
<1> QED
  BY <1>2, <1>3, <1>4, <1>5, <1>6, <1>7, <1>8, <1>9 DEF Next, CallStep, SchedulerStep

\* What a step does to the program's call.
LEMMA MainCall ==
  ASSUME TypeOK, CallbackCalls, [Next]_vars
  PROVE  \/ call'[Main] = call[Main]
         \/ \E name \in Names :
              CallBegin(Main, name) /\ call'[Main] = [name |-> name, step |-> "begin"]
         \/ Destroy /\ call'[Main] = [name |-> "destroy", step |-> "begin"]
         \/ (CallAsynchronous(Main) \/ CallAwait(Main)) /\ call'[Main] = NoCall
         \/ /\ CallSubmit(Main) \/ DisconnectJoin(Main)
            /\ call'[Main] = [name |-> call[Main].name, step |-> "await"]
         \/ DisconnectBegin(Main) /\ call'[Main] = [name |-> call[Main].name, step |-> "join"]
<1> USE ThreadsDiffer
<1>1. ASSUME NEW t \in Threads, t # Main, Python(t) \/ CallStep(t) PROVE call'[Main] = call[Main]
  BY <1>1 DEF Python, GilTake, CallBegin, CallStep, CallAsynchronous, CallSubmit, CallAwait,
              DisconnectBegin, DisconnectJoin, Return, Step, TypeOK
<1>2. GilTake(Main) => call'[Main] = call[Main]
  BY DEF GilTake
<1>3. ASSUME NEW name \in Names, CallBegin(Main, name)
      PROVE  call'[Main] = [name |-> name, step |-> "begin"]
  BY <1>3 DEF CallBegin, TypeOK
<1>4. Destroy => call'[Main] = [name |-> "destroy", step |-> "begin"]
  BY DEF Destroy, TypeOK
<1>5. CallAsynchronous(Main) \/ CallAwait(Main) => call'[Main] = NoCall
  BY DEF CallAsynchronous, CallAwait, Return, TypeOK
<1>6. ASSUME NEW s, Step(Main, s) PROVE call'[Main] = [name |-> call[Main].name, step |-> s]
  BY <1>6 DEF Step, TypeOK
<1>7. /\ CallSubmit(Main) \/ DisconnectJoin(Main) => Step(Main, "await")
      /\ DisconnectBegin(Main) => Step(Main, "join")
  BY DEF CallSubmit, DisconnectJoin, DisconnectBegin
<1>8. CASE GilSwitch \/ SchedulerStep \/ PoolTake \/ UNCHANGED vars
  BY <1>8 DEF GilSwitch, SchedulerStep, SchedulerPoll, SchedulerReport, SchedulerGoesOn,
     PythonEnds, PoolTake, pyVars, vars
<1>9. ASSUME NEW w \in Workers, WorkerStep(w) PROVE call' = call
  BY <1>9, WorkerTask
<1>10. ASSUME NEW a \in Assemblies, FilterStep(a) \/ ReaderStep(a) PROVE call' = call
  BY <1>10 DEF FilterStep, FilterTake, FilterAnnounce, FilterFrame, FilterEnd, FilterFails,
     FilterExit, FilterGoesOn, ReaderStep, ReaderFails, ReaderExit, ReaderGoesOn, Announce,
     PythonEnds, pyVars
<1> QED
  BY <1>1, <1>2, <1>3, <1>4, <1>5, <1>6, <1>7, <1>8, <1>9, <1>10 DEF Next, Python, CallStep

\* A task, wherever it is, is for an assembly.
LEMMA AnyAssembly ==
  ASSUME TypeOK, TasksFit, NEW k \in Tasks, k.kind # "free"
  PROVE  k.asm \in Assemblies
<1>1. CASE k \in Range(pool)
  <2>1. pool \in Seq(PoolTasks)
    BY DEF TypeOK, PoolTasks
  <2>2. k \in PoolTasks
    BY <1>1, <2>1 DEF Range
  <2> QED
    BY <2>2 DEF PoolTasks
<1>2. CASE k \in Range(workers)
  BY <1>2, TaskAssembly DEF Range, TypeOK
<1> QED
  BY <1>1, <1>2 DEF Tasks

\* Where tasks to connect come from.
LEMMA ConnectTasks ==
  ASSUME TypeOK, CallbackCalls, [Next]_vars, NEW k \in Tasks', k.kind = "connect"
  PROVE  \/ \E j \in Tasks : j.kind = "connect" /\ j.asm = k.asm
         \/ CallSubmit(Main) /\ call[Main].name = "connect" /\ k.asm \in Assemblies
<1> USE ThreadsDiffer
<1>1. CASE k \in Tasks
  BY <1>1
<1>2. ASSUME NEW kind \in {"status", "write_cr", "connect", "disconnect"}, NEW t \in Threads,
             Submit(kind, t), workers' = workers
      PROVE  k \in Tasks \/ (kind = "connect" /\ k.asm \in Assemblies)
  <2>1. k \in Tasks \/ \E a \in Assemblies : k = Task(kind, a, t)
    BY <1>2, TasksSubmit
  <2> QED
    BY <2>1 DEF Task
<1>3. ASSUME NEW t \in Threads, CallSubmit(t)
      PROVE  \/ k \in Tasks
             \/ CallSubmit(Main) /\ call[Main].name = "connect" /\ k.asm \in Assemblies
  <2>1. /\ call[t].name \in {"connect", "write_cr"}
        /\ Submit(call[t].name, t) /\ workers' = workers
    BY <1>3 DEF CallSubmit, At
  <2>2. call[t].name = "connect" => t = Main
    BY CallbackNames
  <2> QED
    BY <1>2, <1>3, <2>1, <2>2
<1>4. ASSUME NEW t \in Threads, DisconnectJoin(t) PROVE k \in Tasks
  BY <1>2, <1>4 DEF DisconnectJoin
<1>5. CASE SchedulerPoll
  <2>1. CASE isRunning
    BY <1>2, <1>5, <2>1 DEF SchedulerPoll
  <2>2. CASE ~isRunning
    BY <1>5, <2>2 DEF SchedulerPoll, Tasks
  <2> QED
    BY <2>1, <2>2, <1>1
<1>6. CASE PoolTake
  BY <1>1, <1>6, TasksTake
<1>7. ASSUME NEW w \in Workers, WorkerStep(w)
      PROVE  \E j \in Tasks : j.kind = "connect" /\ j.asm = k.asm
  <2>1. PICK n \in WorkerTasks : workers' = [workers EXCEPT ![w] = n] /\ NextTask(w, n)
    BY <1>7, WorkerTask
  <2>2. k \in Tasks \/ k = n
    BY <1>7, <2>1, WorkerTask, TasksWork
  <2>3. workers[w] \in Tasks
    BY DEF Tasks, Range, TypeOK
  <2>4. k = n => workers[w].kind = "connect" /\ workers[w].asm = k.asm
    BY <2>1 DEF NextTask, Free
  <2> QED
    BY <2>2, <2>3, <2>4
<1>8. ASSUME UNCHANGED poolVars PROVE k \in Tasks
  BY <1>8 DEF Tasks, poolVars
<1>9. ASSUME NEW t \in Threads,
             Python(t) \/ CallAsynchronous(t) \/ CallAwait(t) \/ DisconnectBegin(t)
      PROVE  k \in Tasks
  BY <1>8, <1>9 DEF Python, GilTake, CallBegin, CallAsynchronous, CallAwait, DisconnectBegin
<1>10. CASE GilSwitch \/ Destroy \/ SchedulerReport \/ SchedulerGoesOn \/ UNCHANGED vars
  BY <1>1, <1>8, <1>10 DEF GilSwitch, Destroy, SchedulerReport, SchedulerGoesOn, vars
<1>11. ASSUME NEW a \in Assemblies, FilterStep(a) \/ ReaderStep(a) PROVE k \in Tasks
  BY <1>8, <1>11 DEF FilterStep, FilterTake, FilterAnnounce, FilterFrame, FilterEnd, FilterFails,
     FilterExit, FilterGoesOn, ReaderStep, ReaderFails, ReaderExit, ReaderGoesOn
<1> QED
  BY <1>1, <1>3, <1>4, <1>5, <1>6, <1>7, <1>9, <1>10, <1>11 DEF Next, CallStep, SchedulerStep

\* Only connect starts threads, and threads that have ended stay.
LEMMA ThreadsStart ==
  ASSUME TypeOK, Callbacks, [Next]_vars
  PROVE  \/ \E w \in Workers : TaskEnd(w) /\ workers[w].kind = "connect"
         \/ \A a \in Assemblies : /\ fpc'[a] = "none" <=> fpc[a] = "none"
                                  /\ rpc'[a] = "none" <=> rpc[a] = "none"
<1>1. ASSUME UNCHANGED <<fpc, rpc>>
      PROVE  \A a \in Assemblies : /\ fpc'[a] = "none" <=> fpc[a] = "none"
                                   /\ rpc'[a] = "none" <=> rpc[a] = "none"
  BY <1>1
<1>2. ASSUME NEW t \in Threads, Python(t) \/ CallStep(t) PROVE UNCHANGED <<fpc, rpc>>
  BY <1>2 DEF Python, GilTake, CallBegin, CallStep, CallAsynchronous, CallSubmit, CallAwait,
              DisconnectBegin, DisconnectJoin, asmVars
<1>3. CASE GilSwitch \/ Destroy \/ SchedulerStep \/ PoolTake \/ UNCHANGED vars
  BY <1>3 DEF GilSwitch, Destroy, SchedulerStep, SchedulerPoll, SchedulerReport,
     SchedulerGoesOn, PoolTake, asmVars, vars
<1>4. ASSUME NEW w \in Workers, WorkerStep(w), ~(TaskEnd(w) /\ workers[w].kind = "connect")
      PROVE  UNCHANGED <<fpc, rpc>>
  BY <1>4 DEF WorkerStep, TaskExchange, TaskStop, TaskJoin, TaskLock, TaskAnnounce, TaskEnd,
     WorkerGoesOn, asmVars
<1>5. ASSUME NEW a \in Assemblies, FilterStep(a)
      PROVE  /\ fpc[a] # "none" /\ fpc'[a] # "none" /\ rpc' = rpc
             /\ \A b \in Assemblies : b # a => fpc'[b] = fpc[b]
  <2>1. FilterGoesOn(a) => fpc[a] # "none"
    BY ThreadsDiffer DEF FilterGoesOn, PythonEnds, Callbacks, FilterPython
  <2> QED
    BY <1>5, <2>1 DEF FilterStep, FilterTake, FilterAnnounce, FilterFrame, FilterEnd, FilterFails,
     FilterExit, FilterGoesOn, TypeOK
<1>6. ASSUME NEW a \in Assemblies, ReaderStep(a)
      PROVE  /\ rpc[a] # "none" /\ rpc'[a] # "none" /\ fpc' = fpc
             /\ \A b \in Assemblies : b # a => rpc'[b] = rpc[b]
  <2>1. ReaderGoesOn(a) => rpc[a] # "none"
    BY ThreadsDiffer DEF ReaderGoesOn, PythonEnds, Callbacks
  <2> QED
    BY <1>6, <2>1 DEF ReaderStep, ReaderFails, ReaderExit, ReaderGoesOn, TypeOK
<1> QED
  BY <1>1, <1>2, <1>3, <1>4, <1>5, <1>6 DEF Next

\* connect starts the threads of an assembly that has none.
LEMMA ConnectNewStep ==
  ASSUME TypeOK, Calls, Callbacks, CallbackCalls, TasksFit, Connecting, [Next]_vars
  PROVE  ConnectNew'
<1>1. CASE \E w \in Workers : TaskEnd(w) /\ workers[w].kind = "connect"
  <2>1. PICK w \in Workers : TaskEnd(w) /\ workers[w].kind = "connect"
    BY <1>1
  <2>2. workers[w].asm \in Assemblies /\ workers[w] \in Tasks /\ TaskFits(workers[w])
    BY <2>1, TaskAssembly
  <2>3. /\ fpc'[workers[w].asm] = "pop" /\ rpc'[workers[w].asm] = "run"
        /\ \A a \in Assemblies : a # workers[w].asm => fpc'[a] = fpc[a] /\ rpc'[a] = rpc[a]
        /\ call' = call /\ pool' = pool /\ workers'[w] = Free
        /\ \A v \in Workers : v # w => workers'[v] = workers[v]
    BY <2>1, <2>2 DEF TaskEnd, TypeOK, pyVars
  <2>4. call'[Main].step = "await"
    BY <2>1, <2>2, <2>3 DEF TaskFits
  <2>5. ASSUME NEW k \in Tasks', k.kind = "connect" PROVE fpc'[k.asm] = "none"
    <3>1. CASE k \in Range(pool)
      <4>1. PICK j \in DOMAIN pool : k = pool[j]
        BY <3>1 DEF Range
      <4>2. k \in Tasks /\ k.asm \in Assemblies
        BY <2>5, <3>1, AnyAssembly DEF Tasks
      <4>3. k.asm # workers[w].asm
        BY <2>1, <2>5, <4>1 DEF Connecting, ConnectOnce
      <4> QED
        BY <2>3, <2>5, <4>2, <4>3 DEF Connecting, ConnectNew
    <3>2. CASE \E v \in Workers : v # w /\ k = workers[v]
      <4>1. PICK v \in Workers : v # w /\ k = workers[v]
        BY <3>2
      <4>2. k.asm \in Assemblies /\ k \in Tasks
        BY <2>5, <4>1, TaskAssembly
      <4>3. k.asm # workers[w].asm
        BY <2>1, <2>5, <4>1 DEF Connecting, ConnectOnce
      <4> QED
        BY <2>3, <2>5, <4>2, <4>3 DEF Connecting, ConnectNew
    <3>3. k \in Range(pool) \/ k = Free \/ \E v \in Workers : v # w /\ k = workers[v]
      <4>1. DOMAIN workers' = Workers
        BY <2>1 DEF TaskEnd, TypeOK
      <4> QED
        BY <2>3, <4>1 DEF Tasks, Range
    <3> QED
      BY <2>5, <3>1, <3>2, <3>3 DEF Free
  <2> QED
    BY <2>3, <2>4, <2>5 DEF Connecting, ConnectNew
<1>2. CASE \A a \in Assemblies : /\ fpc'[a] = "none" <=> fpc[a] = "none"
                                 /\ rpc'[a] = "none" <=> rpc[a] = "none"
  <2>1. ASSUME call'[Main].name = "connect", call'[Main].step = "begin"
        PROVE  \A a \in Assemblies : fpc[a] = "none"
    <3>1. CASE call'[Main] = call[Main]
      BY <2>1, <3>1 DEF Connecting, ConnectNew
    <3>2. CASE CallBegin(Main, "connect")
      BY <3>2 DEF CallBegin, MayCall
    <3>3. call'[Main] = call[Main] \/ CallBegin(Main, "connect")
      <4>1. call[Main] \in CallRecords
        BY ThreadsDiffer DEF TypeOK, CallRecords
      <4>2. ASSUME NEW name \in Names, CallBegin(Main, name),
                   call'[Main] = [name |-> name, step |-> "begin"]
            PROVE  CallBegin(Main, "connect")
        <5>1. name = "connect"
          BY <2>1, <4>2
        <5> QED
          BY <4>2, <5>1
      <4>3. /\ call'[Main] # [name |-> "destroy", step |-> "begin"]
            /\ call'[Main] # NoCall
            /\ call'[Main] # [name |-> call[Main].name, step |-> "await"]
            /\ call'[Main] # [name |-> call[Main].name, step |-> "join"]
        BY <2>1 DEF NoCall
      <4> QED
        BY <4>2, <4>3, MainCall
    <3> QED
      BY <3>1, <3>2, <3>3
  <2>2. ASSUME NEW k \in Tasks', k.kind = "connect"
        PROVE  k.asm \in Assemblies /\ fpc[k.asm] = "none"
    <3>1. CASE \E j \in Tasks : j.kind = "connect" /\ j.asm = k.asm
      BY <3>1, AnyAssembly DEF Connecting, ConnectNew
    <3>2. CASE CallSubmit(Main) /\ call[Main].name = "connect" /\ k.asm \in Assemblies
      BY <3>2 DEF Connecting, ConnectNew, CallSubmit, At
    <3> QED
      BY <2>2, <3>1, <3>2, ConnectTasks
  <2> QED
    BY <1>2, <2>1, <2>2 DEF Connecting, ConnectNew
<1> QED
  BY <1>1, <1>2, ThreadsStart

-----------------------------------------------------------------------------
(* disconnect. *)

\* Threads that have ended are started again by connect only.
LEMMA DeadStays ==
  ASSUME TypeOK, Callbacks, [Next]_vars, NEW a \in Assemblies, Dead(a)
  PROVE  Dead(a)' \/ \E w \in Workers : TaskEnd(w) /\ workers[w].kind = "connect"
<1> USE ThreadsDiffer
<1>1. ASSUME UNCHANGED <<fpc, rpc>> PROVE Dead(a)'
  BY <1>1 DEF Dead
<1>2. ASSUME NEW t \in Threads, Python(t) \/ CallStep(t) PROVE Dead(a)'
  BY <1>1, <1>2 DEF Python, GilTake, CallBegin, CallStep, CallAsynchronous, CallSubmit, CallAwait,
                    DisconnectBegin, DisconnectJoin, asmVars
<1>3. CASE GilSwitch \/ Destroy \/ SchedulerStep \/ PoolTake \/ UNCHANGED vars
  BY <1>1, <1>3 DEF GilSwitch, Destroy, SchedulerStep, SchedulerPoll, SchedulerReport,
     SchedulerGoesOn, PoolTake, asmVars, vars
<1>4. ASSUME NEW w \in Workers, WorkerStep(w), ~(TaskEnd(w) /\ workers[w].kind = "connect")
      PROVE  Dead(a)'
  BY <1>1, <1>4 DEF WorkerStep, TaskExchange, TaskStop, TaskJoin, TaskLock, TaskAnnounce, TaskEnd,
     WorkerGoesOn, asmVars
<1>5. ASSUME NEW b \in Assemblies, FilterStep(b) PROVE Dead(a)'
  <2>1. FilterGoesOn(b) => fpc[b] \in FilterPython
    BY DEF FilterGoesOn, PythonEnds, Callbacks
  <2>2. fpc[b] \notin {"none", "exited"}
    BY <1>5, <2>1 DEF FilterStep, FilterTake, FilterAnnounce, FilterFrame, FilterEnd, FilterFails,
       FilterExit, FilterPython
  <2>3. rpc' = rpc /\ \A c \in Assemblies : c # b => fpc'[c] = fpc[c]
    BY <1>5 DEF FilterStep, FilterTake, FilterAnnounce, FilterFrame, FilterEnd, FilterFails,
       FilterExit, FilterGoesOn, TypeOK
  <2> QED
    BY <2>2, <2>3 DEF Dead
<1>6. ASSUME NEW b \in Assemblies, ReaderStep(b) PROVE Dead(a)'
  <2>1. ReaderGoesOn(b) => rpc[b] = "error"
    BY DEF ReaderGoesOn, PythonEnds, Callbacks
  <2>2. rpc[b] \notin {"none", "exited"}
    BY <1>6, <2>1 DEF ReaderStep, ReaderFails, ReaderExit
  <2>3. fpc' = fpc /\ \A c \in Assemblies : c # b => rpc'[c] = rpc[c]
    BY <1>6 DEF ReaderStep, ReaderFails, ReaderExit, ReaderGoesOn, TypeOK
  <2> QED
    BY <2>2, <2>3 DEF Dead
<1> QED
  BY <1>2, <1>3, <1>4, <1>5, <1>6 DEF Next

\* What a step that is no pool thread's does to the tasks of pool threads.
LEMMA TakenTasks ==
  ASSUME TypeOK, [Next]_vars, ~\E w \in Workers : WorkerStep(w)
  PROVE  /\ running' = running
         /\ \A v \in Workers :
              \/ workers'[v] = workers[v]
              \/ workers[v] = Free /\ workers'[v].stage = "begin"
<1>1. ASSUME NEW t \in Threads, Python(t) \/ CallStep(t) PROVE UNCHANGED <<running, workers>>
  BY <1>1 DEF Python, GilTake, CallBegin, CallStep, CallAsynchronous, CallSubmit, CallAwait,
              DisconnectBegin, DisconnectJoin, asmVars, poolVars
<1>2. CASE GilSwitch \/ Destroy \/ SchedulerStep \/ UNCHANGED vars
  BY <1>2 DEF GilSwitch, Destroy, SchedulerStep, SchedulerPoll, SchedulerReport,
     SchedulerGoesOn, PythonEnds, asmVars, poolVars, vars
<1>3. CASE PoolTake
  <2>1. PICK w \in Workers : /\ workers[w] = Free
                             /\ workers' = [workers EXCEPT ![w] = Head(pool)]
                             /\ Head(pool) \in PoolTasks
    BY <1>3, PoolTakeType
  <2>2. Head(pool).stage = "begin"
    BY <2>1 DEF PoolTasks
  <2> QED
    BY <1>3, <2>1, <2>2 DEF PoolTake, asmVars, TypeOK
<1>4. ASSUME NEW a \in Assemblies, FilterStep(a) \/ ReaderStep(a)
      PROVE  UNCHANGED <<running, workers>>
  BY <1>4 DEF FilterStep, FilterTake, FilterAnnounce, FilterFrame, FilterEnd, FilterFails,
     FilterExit, FilterGoesOn, ReaderStep, ReaderFails, ReaderExit, ReaderGoesOn, PythonEnds,
     poolVars
<1> QED
  BY <1>1, <1>2, <1>3, <1>4 DEF Next

\* What pool threads' steps do to Assembly::isRunning.
LEMMA RunningAfter ==
  ASSUME TypeOK, TasksFit, NEW w \in Workers, WorkerStep(w)
  PROVE  \A a \in Assemblies :
           \/ running'[a] = running[a]
           \/ TaskLock(w) /\ workers[w].kind = "connect" /\ running'[a] = TRUE
           \/ TaskStop(w) /\ workers[w].asm = a /\ running[a]
<1>1. CASE TaskStop(w)
  <2>1. running' = [running EXCEPT ![workers[w].asm] = FALSE]
    BY <1>1 DEF TaskStop
  <2>2. \A a \in Assemblies : running'[a] = IF a = workers[w].asm THEN FALSE ELSE running[a]
    BY <2>1 DEF TypeOK
  <2>3. \A a \in Assemblies : running[a] \in BOOLEAN
    BY DEF TypeOK
  <2> QED
    BY <1>1, <2>2, <2>3
<1>2. CASE TaskLock(w) /\ workers[w].kind = "connect"
  <2>1. running' = [running EXCEPT ![workers[w].asm] = TRUE]
    BY <1>2 DEF TaskLock
  <2>2. \A a \in Assemblies : running'[a] = IF a = workers[w].asm THEN TRUE ELSE running[a]
    BY <2>1 DEF TypeOK
  <2> QED
    BY <1>2, <2>2
<1>3. CASE ~TaskStop(w) /\ ~(TaskLock(w) /\ workers[w].kind = "connect")
  <2>1. running' = running
    BY <1>3 DEF WorkerStep, TaskExchange, TaskJoin, TaskLock, TaskAnnounce, TaskEnd,
       WorkerGoesOn, PythonEnds, asmVars
  <2> QED
    BY <2>1
<1> QED
  BY <1>1, <1>2, <1>3

\* connect and disconnect do not have tasks at a time.
LEMMA OneCall ==
  ASSUME TypeOK, TasksFit, NEW v \in Workers, NEW w \in Workers,
         workers[v].kind = "connect", workers[w].kind = "disconnect"
  PROVE  FALSE
<1>1. TaskFits(workers[v]) /\ TaskFits(workers[w])
  BY TaskAssembly
<1> QED
  BY <1>1 DEF TaskFits

\* The threads of an assembly that is told to stop are joined.
LEMMA WatchedStep ==
  ASSUME TypeOK, Callbacks, TasksFit, Watched, Settled, [Next]_vars
  PROVE  Watched'
<1> SUFFICES ASSUME NEW a \in Assemblies
             PROVE  \/ Dead(a)' \/ running'[a]
                    \/ \E w \in Workers :
                         /\ workers'[w].asm = a /\ workers'[w].kind = "disconnect"
                         /\ workers'[w].stage = "join"
  BY DEF Watched, TaskAt
<1>1. \/ Dead(a) \/ running[a]
      \/ \E w \in Workers : workers[w].asm = a /\ TaskAt(w, {"disconnect"}, "join")
  BY DEF Watched
<1>2. CASE ~\E w \in Workers : WorkerStep(w)
  <2>1. running' = running /\ \A v \in Workers : workers'[v] = workers[v] \/ workers[v] = Free
    BY <1>2, TakenTasks
  <2>2. Dead(a) => Dead(a)'
    BY <1>2, DeadStays DEF WorkerStep
  <2>3. \A v \in Workers : workers[v].kind = "disconnect" => workers'[v] = workers[v]
    BY <2>1 DEF Free
  <2> QED
    BY <1>1, <2>1, <2>2, <2>3 DEF TaskAt
<1>3. ASSUME NEW w \in Workers, WorkerStep(w)
      PROVE  \/ Dead(a)' \/ running'[a]
             \/ \E v \in Workers : /\ workers'[v].asm = a /\ workers'[v].kind = "disconnect"
                                   /\ workers'[v].stage = "join"
  <2>1. \A v \in Workers : v # w => workers'[v] = workers[v]
    BY <1>3, WorkerTask DEF TypeOK
  <2>2. CASE Dead(a)
    <3>1. CASE \E v \in Workers : TaskEnd(v) /\ workers[v].kind = "connect"
      <4>1. PICK v \in Workers : TaskEnd(v) /\ workers[v].kind = "connect"
        BY <3>1
      <4>2. running' = running
        BY <4>1 DEF TaskEnd
      <4>3. workers[v].asm \in Assemblies /\ running[workers[v].asm]
        BY <4>1, TaskAssembly DEF Settled, TaskSettled, TaskEnd, TaskAt
      <4>4. workers[v].asm # a => UNCHANGED <<fpc[a], rpc[a]>>
        BY <4>1, <4>3 DEF TaskEnd, TypeOK
      <4> QED
        BY <2>2, <4>2, <4>3, <4>4 DEF Dead
    <3>2. CASE Dead(a)'
      BY <3>2
    <3> QED
      BY <2>2, <3>1, <3>2, DeadStays
  <2>3. CASE running[a]
    <3>1. CASE TaskStop(w) /\ workers[w].asm = a
      <4>1. workers'[w] = [workers[w] EXCEPT !.stage = "join"]
        BY <2>3, <3>1 DEF TaskStop, TypeOK
      <4>2. workers'[w].asm = a /\ workers'[w].kind = "disconnect" /\ workers'[w].stage = "join"
        BY <3>1, <4>1 DEF TaskStop, TaskAt, TypeOK
      <4> QED
        BY <4>2
    <3>2. CASE ~(TaskStop(w) /\ workers[w].asm = a)
      BY <1>3, <2>3, <3>2, RunningAfter
    <3> QED
      BY <3>1, <3>2
  <2>4. CASE \E v \in Workers : workers[v].asm = a /\ TaskAt(v, {"disconnect"}, "join")
    <3>1. PICK v \in Workers : workers[v].asm = a /\ TaskAt(v, {"disconnect"}, "join")
      BY <2>4
    <3>2. CASE v # w
      BY <2>1, <3>1, <3>2 DEF TaskAt
    <3>3. CASE v = w
      <4>1. TaskJoin(w)
        BY <1>3, <3>1, <3>3, ThreadsDiffer
           DEF WorkerStep, TaskExchange, TaskStop, TaskLock, TaskAnnounce, TaskEnd, TaskAt,
               WorkerGoesOn, PythonEnds, Callbacks
      <4>2. Dead(a)'
        BY <3>1, <3>3, <4>1 DEF TaskJoin, asmVars, Dead
      <4> QED
        BY <4>2
    <3> QED
      BY <3>2, <3>3
  <2> QED
    BY <1>1, <2>2, <2>3, <2>4
<1> QED
  BY <1>2, <1>3

\* connect's assembly runs, and one that disconnect has joined has no threads.
LEMMA SettledStep ==
  ASSUME TypeOK, Callbacks, TasksFit, Settled, [Next]_vars
  PROVE  Settled'
<1> SUFFICES ASSUME NEW v \in Workers PROVE TaskSettled(v)'
  BY DEF Settled
<1>1. "begin" \notin {"lock"} \cup TaskLocked
  BY DEF TaskLocked
<1>2. ASSUME workers[v].kind = "disconnect", workers[v].stage \in {"lock"} \cup TaskLocked
      PROVE  \A a \in Assemblies : a = workers[v].asm => Dead(a)'
  <2>1. workers[v].asm \in Assemblies /\ Dead(workers[v].asm)
    BY <1>2, TaskAssembly DEF Settled, TaskSettled
  <2>2. \A w \in Workers : workers[w].kind # "connect"
    BY <1>2, OneCall
  <2> QED
    BY <2>1, <2>2, DeadStays
<1>3. CASE ~\E w \in Workers : WorkerStep(w)
  <2>1. /\ running' = running
        /\ workers'[v] = workers[v] \/ workers'[v].stage = "begin"
    BY <1>3, TakenTasks
  <2>2. CASE workers'[v] = workers[v]
    <3>1. running'[workers'[v].asm] <=> running[workers[v].asm]
      BY <2>1, <2>2
    <3>2. workers[v].kind = "disconnect" => workers[v].asm \in Assemblies
      BY TaskAssembly
    <3> QED
      BY <1>2, <2>2, <3>1, <3>2 DEF Settled, TaskSettled, Dead
  <2> QED
    BY <1>1, <2>1, <2>2 DEF TaskSettled
<1>4. ASSUME NEW w \in Workers, WorkerStep(w), v # w
      PROVE  TaskSettled(v)'
  <2>1. workers'[v] = workers[v]
    BY <1>4, WorkerTask DEF TypeOK
  <2>2. ASSUME workers[v].kind = "connect", workers[v].stage # "begin"
        PROVE  running'[workers[v].asm]
    <3>1. workers[v].asm \in Assemblies /\ running[workers[v].asm]
      BY <2>2, TaskAssembly DEF Settled, TaskSettled
    <3>2. ~TaskStop(w)
      BY <2>2, OneCall DEF TaskStop, TaskAt
    <3> QED
      BY <1>4, <3>1, <3>2, RunningAfter
  <2> QED
    <3>1. workers[v].kind = "disconnect" => workers[v].asm \in Assemblies
      BY TaskAssembly
    <3> QED
      BY <1>2, <2>1, <2>2, <3>1 DEF TaskSettled, Dead
<1>5. ASSUME WorkerStep(v)
      PROVE  TaskSettled(v)'
  <2>1. PICK k \in WorkerTasks : workers' = [workers EXCEPT ![v] = k] /\ NextTask(v, k)
    BY <1>5, WorkerTask
  <2>2. workers'[v] = k
    BY <2>1 DEF TypeOK
  <2>3. ASSUME k.kind = "connect", k.stage # "begin" PROVE running'[k.asm]
    <3>1. /\ workers[v].kind = "connect" /\ workers[v].asm = k.asm
          /\ TaskStop(v) \/ TaskJoin(v) \/ TaskLock(v) \/ TaskAnnounce(v) \/ WorkerGoesOn(v)
      BY <2>1, <2>3 DEF NextTask, Free
    <3>2. k.asm \in Assemblies
      BY <3>1, TaskAssembly
    <3>3. CASE TaskLock(v)
      BY <3>1, <3>2, <3>3 DEF TaskLock, TypeOK
    <3>4. CASE ~TaskLock(v)
      <4>1. workers[v].stage # "begin" /\ running' = running
        BY <3>1, <3>4, ThreadsDiffer
           DEF TaskStop, TaskJoin, TaskAnnounce, TaskAt, WorkerGoesOn, PythonEnds, Callbacks,
               asmVars
      <4> QED
        BY <3>1, <4>1 DEF Settled, TaskSettled
    <3> QED
      BY <3>3, <3>4
  <2>4. ASSUME k.kind = "disconnect", k.stage \in {"lock"} \cup TaskLocked PROVE Dead(k.asm)'
    <3>1. /\ workers[v].kind = "disconnect" /\ workers[v].asm = k.asm
          /\ TaskJoin(v) \/ TaskLock(v) \/ TaskAnnounce(v) \/ WorkerGoesOn(v)
      BY <2>1, <2>4 DEF NextTask, Free, TaskLocked
    <3>2. CASE TaskJoin(v)
      BY <3>1, <3>2 DEF TaskJoin, asmVars, Dead
    <3>3. CASE ~TaskJoin(v)
      <4>1. workers[v].stage \in {"lock"} \cup TaskLocked
        BY <3>1, <3>3, ThreadsDiffer
           DEF TaskLock, TaskAnnounce, TaskAt, WorkerGoesOn, PythonEnds, Callbacks, TaskLocked
      <4>2. k.asm \in Assemblies
        BY <3>1, TaskAssembly
      <4> QED
        BY <1>2, <3>1, <4>1, <4>2
    <3> QED
      BY <3>2, <3>3
  <2> QED
    BY <2>2, <2>3, <2>4 DEF TaskSettled, Dead
<1> QED
  BY <1>3, <1>4, <1>5


\* A task to disconnect remains until its assembly has no threads.
LEMMA DisconnectTasks ==
  ASSUME TypeOK, Callbacks, TasksFit, Watched, Settled, [Next]_vars, NEW k \in Tasks,
         k.kind = "disconnect"
  PROVE  Dead(k.asm)' \/ \E j \in Tasks' : j.kind = "disconnect" /\ j.asm = k.asm
<1>1. CASE k \in Tasks'
  BY <1>1
<1>2. ASSUME UNCHANGED poolVars PROVE k \in Tasks'
  BY <1>2 DEF Tasks, poolVars
<1>3. ASSUME NEW kind \in {"status", "write_cr", "connect", "disconnect"}, NEW t \in Threads,
             Submit(kind, t), workers' = workers
      PROVE  k \in Tasks'
  BY <1>3, TasksSubmit
<1>4. ASSUME NEW t \in Threads, Python(t) \/ CallStep(t) PROVE k \in Tasks'
  <2>1. CASE CallSubmit(t) \/ DisconnectJoin(t)
    BY <1>3, <2>1 DEF CallSubmit, At, DisconnectJoin
  <2>2. CASE ~(CallSubmit(t) \/ DisconnectJoin(t))
    BY <1>2, <1>4, <2>2 DEF Python, GilTake, CallBegin, CallStep, CallAsynchronous, CallAwait,
       DisconnectBegin
  <2> QED
    BY <2>1, <2>2
<1>5. CASE SchedulerPoll
  <2>1. CASE isRunning
    BY <1>3, <1>5, <2>1, ThreadsDiffer DEF SchedulerPoll
  <2>2. CASE ~isRunning
    BY <1>2, <1>5, <2>2 DEF SchedulerPoll, poolVars
  <2> QED
    BY <1>1, <2>1, <2>2
<1>6. CASE PoolTake
  <2>1. k \in Tasks' \cup {Free}
    BY <1>6, TasksTake
  <2> QED
    BY <1>1, <2>1 DEF Free
<1>7. ASSUME NEW w \in Workers, WorkerStep(w)
      PROVE  Dead(k.asm)' \/ \E j \in Tasks' : j.kind = "disconnect" /\ j.asm = k.asm
  <2>1. PICK n \in WorkerTasks : workers' = [workers EXCEPT ![w] = n] /\ NextTask(w, n)
    BY <1>7, WorkerTask
  <2>2. n \in Tasks' /\ (k \in Tasks' \/ k = workers[w])
    BY <1>7, <2>1, WorkerTask, TasksWork
  <2>3. CASE k = workers[w] /\ n # Free
    BY <2>1, <2>2, <2>3 DEF NextTask
  <2>4. CASE k = workers[w] /\ TaskStop(w) /\ n = Free
    <3>1. k.asm \in Assemblies
      BY AnyAssembly
    <3>2. ~running[k.asm]
      BY <2>1, <2>4 DEF TaskStop, TypeOK, Free
    <3>3. CASE Dead(k.asm)
      BY <3>1, <3>3, DeadStays, OneCall, <2>4
    <3>4. CASE \E v \in Workers : workers[v].asm = k.asm /\ TaskAt(v, {"disconnect"}, "join")
      <4>1. PICK v \in Workers : workers[v].asm = k.asm /\ TaskAt(v, {"disconnect"}, "join")
        BY <3>4
      <4>2. v # w
        BY <2>4, <4>1 DEF TaskStop, TaskAt
      <4>3. workers'[v] = workers[v] /\ workers'[v] \in Tasks'
        BY <2>1, <4>2 DEF TypeOK, Tasks, Range
      <4> QED
        BY <4>1, <4>3 DEF TaskAt
    <3> QED
      BY <3>1, <3>2, <3>3, <3>4 DEF Watched
  <2>5. CASE k = workers[w] /\ TaskEnd(w)
    <3>1. k.asm \in Assemblies /\ Dead(k.asm)
      BY <2>5, AnyAssembly DEF Settled, TaskSettled, TaskEnd, TaskAt, TaskLocked
    <3>2. \A v \in Workers : workers[v].kind # "connect"
      BY <2>5, OneCall
    <3> QED
      BY <3>1, <3>2, DeadStays
  <2>6. n = Free => TaskStop(w) \/ TaskEnd(w) \/ k # workers[w]
    BY <1>7, <2>1 DEF WorkerStep, TaskExchange, TaskAt, TaskJoin, TaskLock, TaskAnnounce,
       WorkerGoesOn, NextTask, Free, Goto, TypeOK
  <2> QED
    BY <1>1, <2>2, <2>3, <2>4, <2>5, <2>6
<1>8. CASE GilSwitch \/ Destroy \/ SchedulerReport \/ SchedulerGoesOn \/ UNCHANGED vars
  BY <1>1, <1>2, <1>8 DEF GilSwitch, Destroy, SchedulerReport, SchedulerGoesOn, vars
<1>9. ASSUME NEW a \in Assemblies, FilterStep(a) \/ ReaderStep(a) PROVE k \in Tasks'
  BY <1>2, <1>9 DEF FilterStep, FilterTake, FilterAnnounce, FilterFrame, FilterEnd, FilterFails,
     FilterExit, FilterGoesOn, ReaderStep, ReaderFails, ReaderExit, ReaderGoesOn
<1> QED
  BY <1>1, <1>4, <1>5, <1>6, <1>7, <1>8, <1>9 DEF Next, SchedulerStep

\* A scheduler that has ended has ended, and disconnect is final.
LEMMA EndedStays ==
  ASSUME TypeOK, Callbacks, CallbackCalls, [Next]_vars
  PROVE  /\ isRunning' = isRunning \/ (DisconnectBegin(Main) /\ isRunning' = FALSE)
         /\ spc = "exited" => spc' = "exited"
<1>1. ASSUME NEW t \in Threads, Python(t) \/ CallStep(t)
      PROVE  /\ isRunning' = isRunning \/ (DisconnectBegin(Main) /\ isRunning' = FALSE)
             /\ spc' = spc
  <2>1. DisconnectBegin(t) => t = Main
    BY CallbackNames DEF DisconnectBegin, At
  <2> QED
    BY <1>1, <2>1 DEF Python, GilTake, CallBegin, CallStep, CallAsynchronous, CallSubmit,
       CallAwait, DisconnectBegin, DisconnectJoin
<1>2. CASE GilSwitch \/ Destroy \/ PoolTake \/ UNCHANGED vars
  BY <1>2 DEF GilSwitch, Destroy, PoolTake, vars
<1>3. CASE SchedulerStep
  BY <1>3, ThreadsDiffer
     DEF SchedulerStep, SchedulerPoll, SchedulerReport, SchedulerGoesOn, PythonEnds, Callbacks
<1>4. ASSUME NEW w \in Workers, WorkerStep(w) PROVE UNCHANGED <<isRunning, spc>>
  BY <1>4, WorkerTask
<1>5. ASSUME NEW a \in Assemblies, FilterStep(a) \/ ReaderStep(a)
      PROVE  UNCHANGED <<isRunning, spc>>
  BY <1>5 DEF FilterStep, FilterTake, FilterAnnounce, FilterFrame, FilterEnd, FilterFails,
     FilterExit, FilterGoesOn, ReaderStep, ReaderFails, ReaderExit, ReaderGoesOn, PythonEnds
<1> QED
  BY <1>1, <1>2, <1>3, <1>4, <1>5 DEF Next

\* disconnect waits for the scheduler, then for the threads of all assemblies.
LEMMA StoppingStep ==
  ASSUME TypeOK, Calls, Callbacks, CallbackCalls, TasksFit, Watched, Settled, Stopping,
         [Next]_vars
  PROVE  Stopping'
<1>1. /\ isRunning' = isRunning \/ (DisconnectBegin(Main) /\ isRunning' = FALSE)
      /\ spc = "exited" => spc' = "exited"
  BY EndedStays
<1>2. ASSUME ~isRunning, NEW a \in Assemblies,
             Dead(a) \/ \E k \in Tasks : k.kind = "disconnect" /\ k.asm = a
      PROVE  Dead(a)' \/ \E k \in Tasks' : k.kind = "disconnect" /\ k.asm = a
  <2>1. call[Main].name # "connect"
    BY <1>2 DEF Stopping, Closing, NoCall
  <2>2. \A w \in Workers : workers[w].kind # "connect"
    BY <2>1, TaskAssembly DEF TaskFits
  <2>3. CASE Dead(a)
    BY <2>2, <2>3, DeadStays
  <2>4. CASE \E k \in Tasks : k.kind = "disconnect" /\ k.asm = a
    <3>1. PICK k \in Tasks : k.kind = "disconnect" /\ k.asm = a
      BY <2>4
    <3>2. Dead(k.asm)' \/ \E j \in Tasks' : j.kind = "disconnect" /\ j.asm = k.asm
      BY <3>1, DisconnectTasks
    <3> QED
      BY <3>1, <3>2
  <2> QED
    BY <1>2, <2>3, <2>4
<1>3. CASE DisconnectBegin(Main)
  <2>1. isRunning' = FALSE /\ call[Main].name \in {"disconnect", "destroy"}
    BY <1>3 DEF DisconnectBegin, At
  <2>2. call'[Main].name = call[Main].name /\ call'[Main].step = "join"
    BY <1>3, ThreadsDiffer DEF DisconnectBegin, Step, TypeOK
  <2> QED
    BY <2>1, <2>2 DEF Stopping, Closing
<1>4. ASSUME isRunning' = isRunning,
             ~isRunning =>
               /\ spc = "exited"
               /\ \/ \A a \in Assemblies :
                       Dead(a) \/ \E k \in Tasks : k.kind = "disconnect" /\ k.asm = a
                  \/ \A a \in Assemblies : Task("disconnect", a, Main) \in Tasks'
      PROVE  ~isRunning' => /\ spc' = "exited"
                            /\ \A a \in Assemblies : Dead(a)' \/ \E k \in Tasks' :
                                 k.kind = "disconnect" /\ k.asm = a
  BY <1>1, <1>2, <1>4 DEF Task
<1>5. CASE isRunning' = isRunning /\ call'[Main] = call[Main]
  BY <1>4, <1>5 DEF Stopping, Closing
<1>6. ASSUME isRunning' = isRunning, NEW name \in Names \cup {"destroy"}, isRunning,
             call'[Main] = [name |-> name, step |-> "begin"]
      PROVE  Stopping'
  BY <1>6 DEF Stopping
<1>7. CASE isRunning' = isRunning /\ (CallAsynchronous(Main) \/ CallAwait(Main))
           /\ call'[Main] = NoCall
  <2>1. call[Main].step # "join"
    BY <1>7 DEF CallAsynchronous, CallAwait, At
  <2> QED
    BY <1>4, <1>7, <2>1 DEF Stopping, NoCall
<1>8. CASE isRunning' = isRunning /\ CallSubmit(Main)
           /\ call'[Main] = [name |-> call[Main].name, step |-> "await"]
  <2>1. isRunning /\ call[Main].name \in {"connect", "write_cr"}
    BY <1>8 DEF CallSubmit, At, Stopping, Closing, NoCall
  <2> QED
    BY <1>8, <2>1 DEF Stopping
<1>9. CASE isRunning' = isRunning /\ DisconnectJoin(Main)
           /\ call'[Main] = [name |-> call[Main].name, step |-> "await"]
  <2>1. ~isRunning /\ call[Main].name \in {"disconnect", "destroy"} /\ spc = "exited"
    BY <1>9 DEF DisconnectJoin, At, Stopping
  <2>2. \A a \in Assemblies : Task("disconnect", a, Main) \in Tasks'
    BY <1>9, TasksSubmit, ThreadsDiffer DEF DisconnectJoin
  <2> QED
    BY <1>4, <1>9, <2>1, <2>2 DEF Stopping, Closing
<1>10. ASSUME NEW name \in Names, CallBegin(Main, name) PROVE isRunning
  BY <1>10 DEF CallBegin, MayCall
<1>11. Destroy => isRunning
  BY DEF Destroy
<1> QED
  BY <1>1, <1>3, <1>5, <1>6, <1>7, <1>8, <1>9, <1>10, <1>11, MainCall

-----------------------------------------------------------------------------
(* The invariant and what follows from it. *)

\* BindingInv is inductive.
LEMMA BindingInvStep ==
  ASSUME TypeOK, BindingInv, [Next]_vars
  PROVE  BindingInv'
<1> USE DEF BindingInv, Shutdown
<1>1. Calls'
  BY CallsStep
<1>2. Callbacks'
  BY CallbacksStep
<1>3. CallbackCalls'
  BY CallbackCallsStep
<1>4. GilHeld'
  BY GilStep
<1>5. LocksHeld'
  BY LocksStep
<1>6. TasksFit'
  BY TasksStep
<1>7. ConnectNew'
  BY ConnectNewStep
<1>8. ConnectOnce'
  BY ConnectOnceStep DEF Connecting
<1>9. Watched'
  BY WatchedStep
<1>10. Settled'
  BY SettledStep
<1>11. Stopping'
  BY StoppingStep
<1> QED
  BY <1>1, <1>2, <1>3, <1>4, <1>5, <1>6, <1>7, <1>8, <1>9, <1>10, <1>11 DEF Connecting

\* BindingInv holds at the start: the program is in Python, and all else is idle.
LEMMA BindingInvInit == Init => BindingInv
<1> SUFFICES ASSUME Init PROVE BindingInv
  OBVIOUS
<1> USE ThreadsDiffer
<1>1. Tasks \subseteq {Free}
  BY DEF Init, Tasks, Range
<1>2. \A w \in Workers : workers[w] = Free
  BY DEF Init
<1>3. \A t \in Threads : call[t] = NoCall /\ py[t] = IF t = Main THEN "python" ELSE "none"
  BY DEF Init
<1>4. \A a \in Assemblies : fpc[a] = "none" /\ rpc[a] = "none" /\ mutex[a] = Nobody
  BY DEF Init
<1>5. Free.stage = "begin" /\ Free.kind = "free" /\ Free.asm = 0
  BY DEF Free
<1>6. NoCall.name = "none" /\ NoCall.step = "none"
  BY DEF NoCall
<1>7. DOMAIN pool = {} /\ gil = Main /\ statusMutex = Nobody /\ isRunning /\ spc = "check"
  BY DEF Init
<1>8. Calls /\ CallbackCalls
  BY <1>3, <1>6 DEF Calls, CallFits, CallbackCalls, Asynchronous
<1>9. Callbacks
  BY <1>2, <1>3, <1>4, <1>5, <1>7 DEF Callbacks, FilterPython
<1>10. GilHeld
  BY <1>3, <1>6, <1>7 DEF GilHeld
<1>11. LocksHeld
  BY <1>2, <1>4, <1>5, <1>7
     DEF LocksHeld, MutexHeld, WorkerHolds, StatusHeld, FilterLocked, TaskLocked
<1>12. TasksFit
  BY <1>1, <1>5 DEF TasksFit, TaskFits
<1>13. Connecting
  BY <1>1, <1>2, <1>3, <1>4, <1>5, <1>6, <1>7 DEF Connecting, ConnectNew, ConnectOnce
<1>14. Shutdown
  BY <1>2, <1>3, <1>4, <1>5, <1>6, <1>7
     DEF Shutdown, Watched, Settled, TaskSettled, Stopping, Dead
<1> QED
  BY <1>8, <1>9, <1>10, <1>11, <1>12, <1>13, <1>14 DEF BindingInv

\* In every behaviour of Spec a thread is in a call, in Python or at a lock when its
\* place says so, a task is of its kind, connect starts an assembly's threads once, and
\* disconnect waits for them (BindingInv, of pymodule.cpp, DeviceManager.h and Assembly.h).
THEOREM BindingInvariant == Spec => [](TypeOK /\ BindingInv)
<1>1. Init => BindingInv
  BY BindingInvInit
<1>2. TypeOK /\ BindingInv /\ [Next]_vars => BindingInv'
  BY BindingInvStep
<1>3. QED
  BY <1>1, <1>2, BindingTypeCorrect, PTL DEF Spec

\* Who has a lock is between its lock and unlock.
LEMMA Holders ==
  ASSUME TypeOK, LocksHeld, NEW t \in Threads
  PROVE  /\ HasMutex(t) => \/ \E a \in Assemblies : t = Filter(a) /\ fpc[a] \in FilterLocked
                           \/ \E w \in Workers : t = Worker(w) /\ workers[w].stage \in TaskLocked
         /\ statusMutex = t => \/ \E a \in Assemblies : t = Filter(a) /\ fpc[a] = "status"
                               \/ \E w \in Workers : t = Worker(w) /\ workers[w].stage = "status"
BY ThreadsDiffer DEF HasMutex, LocksHeld, MutexHeld, StatusHeld

\* Who has the GIL is in Python, or is the destructor.
LEMMA GilHolder ==
  ASSUME Calls, GilHeld, NEW t \in Threads, gil = t
  PROVE  \/ py[t] = "python"
         \/ t = Main /\ py[t] = "call" /\ call[t].name = "destroy"
BY ThreadsDiffer DEF Calls, CallFits, GilHeld

\* The order of the locks follows from where the threads are.
LEMMA OrderFollows == TypeOK /\ BindingInv => LockOrder
<1> SUFFICES ASSUME TypeOK, BindingInv, NEW t \in Threads
             PROVE  /\ WaitsForWork(t) /\ call[t].name # "destroy" =>
                         ~HasMutex(t) /\ statusMutex # t /\ gil # t
                    /\ WaitsForMutex(t) => ~HasMutex(t) /\ statusMutex # t /\ gil # t
                    /\ WaitsForStatus(t) => statusMutex # t /\ gil # t
                    /\ py[t] = "want" => gil # t
  BY DEF LockOrder
<1> USE ThreadsDiffer
<1>1. ASSUME py[t] # "python", call[t].name # "destroy" PROVE gil # t
  BY <1>1, GilHolder DEF BindingInv
<1>2. py[t] = "want" => gil # t
  BY GilHolder DEF BindingInv
<1>3. ASSUME call[t].step \in {"join", "await"}, call[t].name # "destroy"
      PROVE  ~HasMutex(t) /\ statusMutex # t /\ gil # t
  <2>1. py[t] = "call" /\ call[t].name \notin Asynchronous \cup {"none"}
    BY <1>3 DEF BindingInv, Calls, CallFits
  <2>2. \A a \in Assemblies : t = Filter(a) => fpc[a] = "error"
    BY <2>1 DEF BindingInv, CallbackCalls
  <2>3. \A w \in Workers : t # Worker(w)
    BY <2>1 DEF BindingInv, CallbackCalls
  <2> QED
    BY <1>1, <1>3, <2>1, <2>2, <2>3, Holders DEF BindingInv, FilterLocked
<1>4. ASSUME t = Scheduler, spc = "wait" PROVE ~HasMutex(t) /\ statusMutex # t /\ gil # t
  <2>1. py[t] = "none"
    BY <1>4 DEF BindingInv, Callbacks
  <2> QED
    BY <1>4, <2>1, Holders, GilHolder DEF BindingInv
<1>5. ASSUME NEW w \in Workers, t = Worker(w), workers[w].stage \notin TaskLocked
      PROVE  ~HasMutex(t) /\ statusMutex # t /\ gil # t
  <2>1. py[t] = "none"
    BY <1>5 DEF BindingInv, Callbacks, TaskLocked
  <2> QED
    BY <1>5, <2>1, Holders, GilHolder DEF BindingInv, TaskLocked
<1>6. WaitsForWork(t) /\ call[t].name # "destroy" => ~HasMutex(t) /\ statusMutex # t /\ gil # t
  BY <1>3, <1>4, <1>5 DEF WaitsForWork, TaskAt, TaskLocked
<1>7. ASSUME NEW a \in Assemblies, t = Filter(a), fpc[a] = "pop"
      PROVE  ~HasMutex(t) /\ statusMutex # t /\ gil # t
  <2>1. py[t] = "none"
    BY <1>7 DEF BindingInv, Callbacks, FilterPython
  <2> QED
    BY <1>7, <2>1, Holders, GilHolder DEF BindingInv, FilterLocked
<1>8. WaitsForMutex(t) => ~HasMutex(t) /\ statusMutex # t /\ gil # t
  BY <1>5, <1>7 DEF WaitsForMutex, TaskAt, TaskLocked
<1>9. ASSUME NEW w \in Workers, t = Worker(w), workers[w].stage = "announce"
      PROVE  statusMutex # t /\ gil # t
  <2>1. py[t] = "none"
    BY <1>9 DEF BindingInv, Callbacks
  <2> QED
    BY <1>9, <2>1, Holders, GilHolder DEF BindingInv
<1>10. ASSUME NEW a \in Assemblies, t = Filter(a), fpc[a] = "start"
       PROVE  statusMutex # t /\ gil # t
  <2>1. py[t] = "none"
    BY <1>10 DEF BindingInv, Callbacks, FilterPython
  <2> QED
    BY <1>10, <2>1, Holders, GilHolder DEF BindingInv
<1>11. WaitsForStatus(t) => statusMutex # t /\ gil # t
  BY <1>9, <1>10 DEF WaitsForStatus, TaskAt
<1> QED
  BY <1>2, <1>6, <1>8, <1>11

\* The assembly's lock, statusMutex and the GIL are taken in this order, and who waits for
\* a task or a thread has none of them, but for the destructor with the GIL (LockOrder, of
\* pymodule.cpp's call guards and callbacks under the driver's locks).
THEOREM LocksOrdered == Spec => []LockOrder
BY BindingInvariant, OrderFollows, PTL

\* When disconnect is over nothing is left that could call back.
LEMMA QuietFollows == TypeOK /\ BindingInv => QuietAfterDisconnect
<1> SUFFICES ASSUME TypeOK, BindingInv, ~isRunning, call[Main] = NoCall
             PROVE  /\ \A t \in Threads \ {Main} : py[t] = "none"
                    /\ spc = "exited"
                    /\ \A a \in Assemblies : fpc[a] \in {"none", "exited"}
                                             /\ rpc[a] \in {"none", "exited"}
  BY DEF QuietAfterDisconnect
<1>1. call[Main].name = "none" /\ call[Main].step = "none"
  BY DEF NoCall
<1>2. spc = "exited"
        /\ \A a \in Assemblies : Dead(a) \/ \E k \in Tasks : k.kind = "disconnect" /\ k.asm = a
  BY <1>1 DEF BindingInv, Shutdown, Stopping
<1>3. \A k \in Tasks : k.kind \notin {"connect", "disconnect"}
  BY <1>1, NoTasksOfMain DEF BindingInv
<1>4. \A a \in Assemblies : Dead(a)
  BY <1>2, <1>3
<1>5. \A w \in Workers : workers[w].stage # "status"
  BY <1>3 DEF BindingInv, TasksFit, TaskFits, Tasks, Range, TypeOK
<1>6. /\ py[Scheduler] = "none" /\ \A w \in Workers : py[Worker(w)] = "none"
      /\ \A a \in Assemblies : py[Filter(a)] = "none" /\ py[Reader(a)] = "none"
  BY <1>2, <1>4, <1>5 DEF BindingInv, Callbacks, Dead, FilterPython
<1> QED
  BY <1>2, <1>4, <1>6 DEF Threads, Dead

\* When disconnect has returned no callback runs or is about to, and the scheduler and the
\* assemblies' threads have ended (QuietAfterDisconnect, of DeviceManager::disconnect), in
\* programs whose connects succeed: one that threw may leave tasks that start threads later.
THEOREM DisconnectQuiet == Spec => []QuietAfterDisconnect
BY BindingInvariant, QuietFollows, PTL

==============================================================================
