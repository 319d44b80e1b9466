# Verification of libspectrum3

TLA+ models of the driver library in `lib/` (C++), which reads frames from
spectrometer assemblies ("сборки") over the network and passes them through
filters to a callback of the application.

## The system

| part | state | operations | runs in |
| --- | --- | --- | --- |
| `DeviceManager` (`device/DeviceManager.h`) | `isRunning`, callbacks, `statusMutex`, the scheduler thread | initialize, connect, disconnect, setMeasurement, setPipeFilter, writeCr, read, readBroadcast, syncRead, cancelReading, the status loop | application thread, scheduler thread |
| `Device` (`device/Device.h`) | the assemblies, `assemblyStatuses`, a thread pool | each call is submitted to the pool for every assembly and awaited in order | application and pool threads |
| `Assembly` (`assembly/Assembly.h`) | `isRunning`, `wasRunning`, `mutex`, `filterMessageQueue`, `readerMessageQueue`, context, frame buffer | connect, disconnect, read, cancelReading, setMeasurement, writeCr, getAssemblyStatus, syncRun, syncPrepare | pool threads; filter thread (`reader`, `readFrames`); reader thread (`readFramesThread`) |
| `FrameBuffer` (`utils/FrameBuffer.h`) | a ring of frames, two indexes, `full` | getWritePtr, finishWrite, getReadPtr, finishRead | reader thread writes, filter thread reads |
| `BlockingQueue` (`utils/BlockingQueue.h`) | a deque under a mutex | push, pop, peak, isEmpty | any |
| `MasiEthernet` (`assembly/MasiEthernet.*`) | sockets, `connected`, `seq_num`, `cr`, `prevTimerState` | one UDP exchange per command, `readFrame` over TCP, `stopReading`, `getStatus` | whoever calls |
| filters (`filters/`) | integrator sum, swap buffer, dark signal | `process` for every frame | filter thread |
| `AutoConfig`, `DriverConfig`, `ConfigFileParser` | none that lasts | search for assemblies, read and write XML | application thread |
| contexts (`filters/ContextHolder.h`) | measurement, pipe, frame number, result; shared without a lock | getContext, initFilters, deInitFilters | application and filter threads |
| Python binding (`binding/src/pymodule.cpp`) | the interpreter's lock (GIL) | gives it up in calls, takes it in callbacks | any |
| the emulator, examples | | | |

How they interact: the application calls `DeviceManager`, which calls `Device`,
which runs each assembly's operation on the pool. `read` only puts a READ
message into the assembly's queue. The filter thread takes it, locks the
assembly for the whole reading, starts the device, and consumes frames from the
ring; the reader thread receives them from the TCP socket all the time and
fills the ring. `cancelReading` puts STOP into two queues: the filter thread
takes its STOP between two frames, the reader thread sends UDP_STOP and
reconnects. Status goes the other way: the assembly reports ALIVE, BYSY and
DISCONNECTED through a callback, and the scheduler polls every 500 ms.

What is hard: three threads per assembly with two queues, a lock, a ring and a
flag; a frame copied outside the ring's lock; cancels that may arrive at any
point; frames left over from a reading that ended early; time-outs; exceptions
that leave a loop in the middle. `PROJECT.json` lists these hazards by line.

What makes each part correct:

- frame buffer: a bounded FIFO channel between two threads; every frame is
  passed on once, in order and unmixed, and a refused frame is reported;
- assembly: a reading that ends by itself delivered every frame asked for; the
  number a callback sees is the frame's number in its reading; nothing of a
  reading is left for the next; commands do not reach a device that is
  streaming; every reading ends, the filter thread returns to its queue, and
  `disconnect` returns;
- device manager: what is reported is what was stored and finally what is
  true; calls for all assemblies are complete when they return;
- protocol: an answer belongs to its command; after a failure the assembly
  can be used again;
- exposure: what the device is set to is the measurement, as exactly as it can
  be expressed, and a reading starts only when the device has switched to it;
- filters and `syncRead`: an average is one of whole groups of one reading;
  `syncRead` returns, with the frames asked for; no filter, buffer or callback
  is used after its life;
- broadcast reading: frames of several assemblies with the same number belong to
  the same start packet, and every reading ends everywhere;
- Python binding: no thread waits for the GIL while others wait for it;
  every call returns; after `disconnect` no callback runs.

## Modules

| module | models |
| --- | --- |
| `FrameBuffer` | the class: ring, indexes, `full`; one definition per method. Every method runs under the class's mutex and is one step. A frame's content is its identity |
| `FrameChannel` | what the class promises: an abstract bounded channel that may refuse only when it is full |
| `FrameTransfer` | the two loops over the ring. Filling a slot (`asio::read`, sign fix-up) and copying one (`std::transform`) hold no lock, so each has a begin and an end; a slot being filled is `Torn` |
| `FrameTransferProofs` | the theorems about them |
| `Assembly` | a connected assembly: filter thread, reader thread, application and device. It shares the variables of `FrameTransfer` and uses its actions, so the composition is by construction of the actions; that the result is a refinement is proved, not assumed |
| `AssemblyProofs` | that refinement and what it brings to the assembly; its types, finished readings, and an assembly without cancels |
| `MCAssembly` | measurements for model checking |
| `DeviceManager` | `DeviceManager` and `Device`: calls as tasks of a thread pool and futures, the scheduler, the status callback, and of each assembly its lock, flags and filter thread as the callers see them |
| `DeviceManagerProofs` | the theorems about it |
| `Commands` | the UDP commands of one `MasiEthernet`: exchanges, time-outs, sockets, status polls |
| `CommandsProofs` | the theorems about it |
| `Exposure` | the conversion of an exposure, setMeasurement's commands, and the wait before a reading, beside a device with a clock |
| `MCExposure` | exposures for model checking |
| `ExposureProofs` | the theorems about the conversion, the measurement and the wait |
| `SyncRead` | the pipe of filters, the contexts, and `Device::syncRead` beside the filter threads |
| `MCSyncRead` | measurements for model checking |
| `SyncReadProofs` | the theorems about averages, saved frames and undefined behaviour |
| `Broadcast` | `readBroadcast`: the filter threads of several assemblies, their devices, and the start packet |
| `BroadcastProofs` | the theorems about it |
| `Binding` | the GIL, the driver's locks and the threads that wait for one another, with callbacks that call the driver |
| `BindingProofs` | the theorems about it |

Correspondence in `Assembly`: `fpc` is the filter thread's place (`check`:
`while (isRunning)`; `pop`; `lock`; `start`: startReadingUnicast; `begin`:
readFrames up to its loop; `top`: the loop's head with the look into the queue;
`frame`: getReadPtr to finishRead), `rdpc` the reader thread's, `cpc` the
application's call under way. `filterQueue` is `filterMessageQueue`, oldest
first; of `readerMessageQueue`, which only ever holds STOP, the length is kept.
A reading is named by its call of `read()`; `readings` remembers what was asked
and how it ended (`done`: the loop ran to its end; `cancelled`: STOP; `failed`:
an exception reached the error callback).

The device is external. It is described by what the code sends and expects: it
sends as many frames as startReadingUnicast asked for, refuses a start with
UDP_BSY while it is sending, and on UDP_STOP drops the reading and closes the
connection (stopReading reconnects for that reason).

Correspondence in `DeviceManager`: `apc` is the call under way, `next` the future
it gets next; `pool` and `workers` are the thread pool's queue and threads, a
task being its kind, assembly, call and stage; `spc` is the scheduler's place;
`callback` is the status callback under `statusMutex` with the copy of the map it
works on; `asm` has `isRunning`, `wasRunning`, `connected` (MasiEthernet's), and
whether the reader thread exists (`reader`), the assembly's parameters were read
(`named`; before that its key in the map is "", `NoName`) and it was disconnected
(`closed`). The module relates to `Assembly` in three places: a reading ends
(`FilterEnd`) because `FilterComesBack` holds there, the threads end once
`isRunning` is false (`FilterExit`, `DisconnectJoin`) because `DisconnectReturns`
holds there, and the lock is held as there. It is checked beside `Assembly`, not
as a refinement of it.

Correspondence in `Commands`: a call (`call`) is a sequence of exchanges, `op` the
one under way and `script` those after it. `pc` is its place: `dial` (connectUdp),
`send` and `receive` (the functions of these names), `return`. `inbox` holds the
packets in the UDP socket, in the order in which the network delivers them; a
packet is its number, its response code and, as history, whether it answers the
request under way (`own`). `refused` is an error the socket will report, `stale`
the handler of a receive that timed out: it stays in `udpContext`, refers to
variables of a function that has ended, and may write an error into one of the
next function's (`DialFails`). `tcp` is the socket of the reader thread, `cut`
when the assembly has ended the connection, which it does on UDP_STOP and on
DISCONNECT_SOCK (as the emulator does). The module stands beside `Assembly` and
`DeviceManager`: there an exchange is one step that works or fails, here is what
it consists of.

Correspondence in `Exposure`: `timer` is the value that the device was sent last,
`running` the one it accumulates with and `left` how long still; a change takes
effect when an accumulation ends. `apc` is setMeasurement's place (`query`:
readExposure for prevTimerState; `set`: the command; `record`: the context),
`rpc` startReadingUnicast's (`elapsed`, `asleep`: waitLastExposure; `send`). Time
passes in the device's unit of 100 us (`Tick`), `age` is the time since prevTimerState
was taken. `Unit`, `Milli`, `SigLimit` and `Word` are the code's 100, 1000, 2^10 and
2^32 as constants, so that TLC can use small ones in which every boundary is met.

Correspondence in `SyncRead`: `fpc` is the filter thread's place in reader and
readFrames (`wait`: getReadPtr, `pipe`: PipeFilter::process, `raise` and `assign`:
syncRead's error callback), `apc` the application's (`add`, `sleep`, `poll`,
`remove`: the four loops of syncRead). A frame is its reading and number; `result` is the
list of frames that the integrator has added up; `buffers` what SyncReadFilter
saved. A step that C++ leaves undefined sets `undefined` to its cause and ends
the behaviour; so a property can say when there is none.

Correspondence in `Broadcast`: `todo` holds the pushes that readBroadcast has yet to
make, so that filter threads run between them; `fpc` is the filter thread's place
(`prepare`: initBroadcastReading; `start`: the packet of startReadingBroadcast;
`top` and `frame` as in `Assembly`). A device is prepared for `lines` frames, and the
packets on their way to it are `starts`. It does what the code expects and the
emulator does: on a start it sends as many frames as it was last prepared for (none
at first), ignores a start while it sends, and while it sends may accept
a new number or answer UDP_BSY. Socket and ring are one sequence, `frames`.

Correspondence in `Binding`: `gil`, `mutex` and `statusMutex` name the thread that
holds the lock. `py[t]` is `none` in the driver's code, `want` while a thread waits for
the GIL, `python` in Python code, `call` in a call from Python, whose step is in `call[t]`.
The threads are the program (`Main`), the scheduler, the pool's and two of each
assembly; `workers`, `fpc`, `rpc` and `spc` are their places, as in the modules
above but only as far as locks, callbacks and waits go. cancel_reading and
set_pipe_filter need no more than the GIL; the log callback would be one more
callback like on_frame.

In every module an operator named `Slip...` stands before the definition it is
a faulty variant of. No specification uses it; it is there to see that the
properties notice the fault.

## Runs

| run | shows |
| --- | --- |
| `frame_transfer` | three slots, eight frames, every interleaving: `ExactDelivery`, `WriterOwnsItsSlot`, the invariant `RingInv` behind them, and the refinement `ChannelSpec` |
| `assembly_plain` | two readings of one or two frames, the measurement changed at any moment, a command, a disconnect; ring larger than a reading; no skips or cancels: readings are complete, numbered correctly, leave nothing behind, and never fail |
| `assembly_disturbed` | a cancel, one frame skipped per reading, a ring of two slots and a device that may be slower than the time-out: order of delivery, the filter thread always comes back, `disconnect` returns |
| `assembly_cancel` (violation) | `FrameNumbers` after a cancel |
| `device_calls` | two assemblies, two pool threads, two calls and a disconnect, one assembly that stops (or stops and starts) answering: `StartedOnce`, `ClosedIsReported` |
| `device_liveness` | two assemblies on one pool thread, with a reading: `CallsReturn`, `StoredConverges` |
| `status_missed` (violation) | `ReportsConverge`: the application is left with an old BYSY |
| `commands` | any three calls among endless polls, two faults anywhere: `AnswersAreOwn`, `PollsCleanUp`, `StaleRunsBeforeExchanges` and `Recovers` |
| `exposure` | two changes of exposure beside readings: `TimerIsMeasurement` (the conversion, against `Encodes`, what a decimal float of ten bits can be), `RereadIsStable` (there and back) and `WaitsForSwitch` (the wait) |
| `sync_read` | two readings, each by `read` or `syncRead`, two pipes, a cancel and a failure: `SavesAllButTheLast`, `SyncReadReturns`, `AveragesAreWhole`, `AsynchronousIsDefined` |
| `broadcast` | two assemblies, two broadcast readings of one or two frames, a lost start packet: `Synchronous`, `BroadcastEnds` |
| `binding` | a program, callbacks that call the driver, one error, a disconnect or the destructor: `LockOrder`, `CallsReturn`, `QuietAfterDisconnect` |

Bounds. `MaxFrames` = 8 with three slots wraps both indexes twice and fills the
ring. Two readings are the least that can disturb one another, and one cancel
the least that can fall before, between, into and after them. A ring of
`BufferSize` = 3 slots is larger than a reading of two frames and one of 2 slots
is not. In `DeviceManager` two assemblies are the least whose futures and callbacks
can disturb one another; `device_calls` has two pool threads and two calls, without
which connects cannot overlap, and `device_liveness` has a single pool thread, the
worst case for waiting, and the reading that is waited for. One change lets an
assembly fail in the middle of any call. In `Commands` two faults are the least that
combine a duplicated answer with a lost one, and three calls let a connect be
followed by two others; polls are not bounded. `SeqSpace` = 16 stands for 2^16: a
packet left in the socket is at most as many requests old as calls were made, because
a poll that finds one closes the socket (`EnoughNumbers` in `CommandsProofs`).

In `Exposure` the constants are scaled down (a significand below 12, units of 100,
milliseconds of 300, words of 1300) so that one-digit and two-digit exposures, one
above a word and a product that wraps all occur among seven exposures. The limit of
the significand is not a power of ten, as 2^10 is not, so that one length has two
encodings. Two changes are the least of which the second can be too early. In `SyncRead` one
assembly is enough for every interleaving of its filter thread with the
application, which looks at the assemblies one after another and through nothing
they share; with two, `SyncAdd` always moves the first buffer. Two readings let
the first leave something to the second; measurements of 2, 3 and 2 after 2 skipped frames,
integrated by 1 and 2, have readings of whole groups and others. In
`Broadcast` two assemblies are the first and another; in two readings an
early start can leave frames, or a number of frames, to the next. The
properties also hold with three assemblies and readings of one frame, and with three
readings and no loss, which take a minute each. In `Binding`
one assembly and two pool threads are the least in which a command in `on_error`
has a thread besides the one that disconnects; each kind of callback occurs at
least once, and calls of the program are not bounded.

Deadlock checking is off because every model ends: the application need
not call anything more, and after `disconnect` both threads have ended.

Where the code does not do what it should, and where to see it:

- *cancel* (`Assembly.h:127`; `assembly_cancel`): nothing empties the ring between
  readings, whose frames are the next one's first.
- *status* (`DeviceManager.h:133`; `status_missed`): a poll that began before a
  reading overwrites the BYSY of the callback without a report.

Others are in the models, and the properties except them by name:

- *skip* (`Assembly.h:245`): `continue` comes before `finishRead`, so the skipped
  frame is read again as the next one, and one frame per skipped frame stays in
  the ring. `FrameNumbers` is checked without skips, `DeliveryInOrder` with them.
- *overflow* (`Assembly.h:270`): getWritePtr throws, the loop keeps its old
  pointer, and that slot is published and perhaps being read. The next frame is
  received into it. `RingInv` holds up to the first overflow.
- *connect that throws* (`Device.h:50`): its other tasks go on; a disconnect may
  overtake one of them, return, and its threads start afterwards.
- *alive* (`MasiEthernet.cpp:12`): a time-out closes the TCP socket as well, the
  poll's commandConnect opens UDP only: ALIVE, and no frames.
- *last frame* (`Device.h:147`): the number that syncRead waits for is set before
  that frame is there; it may return without it (`SavesAllButTheLast`, while the
  documentation says "@return" the saved frames). A syncRead of one frame, such as the
  example's for the dark signal, may return nothing, and DarkSignalFilter does nothing
  with an empty signal.
- *error callback* (`Device.h:124`): syncRead replaces the application's for good by
  one that refers to its own stack frame: a later reading that fails writes to memory
  that is no longer its own (`FilterRaiseLate`), and the application is not told.
- *broadcast start* (`Device.h:193`): a comment at `Assembly::syncRun` says "after
  syncPrepare of other assemblies", but nothing waits for them. A start that finds
  another assembly unprepared, or no longer waiting, leaves it without frames, or
  with as many as an earlier reading had, or with the frames of a later
  reading (`together`). Nor does startReadingBroadcast wait for the last
  exposure as startReadingUnicast does.
- *number in syncRead* (`Device.h:147`): the number is not set back, so that one left by an
  earlier reading of the same length can make syncRead return at once.
- *skip and cancel in syncRead*: with skipped frames it returns when `readFramesNum`
  of all frames have come, or never if it looks too late; after a cancel it
  never returns. After an exception its filter stays in the pipe.
- *averages* (`IntegratorFilter.h:30`): the sum is set back at the first frame of a
  group only; skipping part of a group leaves an older sum in the first average.
- *pipe* (`Assembly.h:99`): set during a reading it destroys the filter that is
  running, or is used without initFilters; never set, it is a null pointer
  (`AsynchronousIsDefined` says that there is nothing else).
- *exposure* (`MasiEthernet.cpp:170`): set twice quickly, or during the wait of a
  reading, prevTimerState is not what the device runs (`rushed`); the product
  of a double exposure may wrap (`Wraps`); the 64-bit exposure is cut to 32 bits;
  getExposure returns the two of a double exposure exchanged, so setting what was
  read swaps them (`RereadIsStable` is about single ones, whose length stays,
  though not always the encoding: 102400 us are encoded as 102 * 10 units and read as
  102000 us, which are encoded as 1020 * 1).
- *destructor* (`DeviceManager.h:34`): called by Python with the GIL, it waits for
  threads that wait for the GIL (`Destroy`).
- *pool* (`Device.h:59`): with as many assemblies as pool threads, a disconnect keeps
  every pool thread until an `on_error` returns that waits for a command of its
  own (`BindingAssumption`).

One more fault of the code is part of the model without a run of its own: a
connect that the assembly answers with an error leaves the broadcast socket open,
and the next poll ends the program (`DialAlreadyOpen`). `Recovers` excepts it
explicitly, and `PollsCleanUp` shows that polls by themselves never come to it.
`Recovers` excepts the end of the process in one more place: `readFramesThread` calls
`frameConnect` outside its try (`Assembly.h:256`), so that a TCP connection that the
assembly refuses leaves the thread as an exception that nobody catches.

## Fairness

`Assembly!Fairness` is weak fairness of the filter thread, the reader thread,
calls under way (`GoOn`) and the device. The first three are operating-system
threads that block only in a mutex, a queue or a bounded wait; weak fairness per
thread is what any scheduler gives. That the mutex is handed over needs no
strong fairness in these runs because the application makes a bounded number of
calls. The device's fairness says that it sends what it was asked for, which the
liveness properties of a reading need and nothing else uses. The application is
never obliged to make a new call, and the safety properties use no fairness.

`DeviceManager!Fairness` is weak fairness of each pool thread, each filter thread,
the scheduler, the callback, the taking of tasks and the calls under way. A task
that waits for an assembly's lock is obliged to get it only when the lock stays
free; the lock's other users are bounded, and a status read is one step, so
weak fairness is enough. That a reading ends is what `Assembly` shows.

`Commands!Fairness`: the call under way goes on (every wait in it is bounded by
`run_for`), the scheduler polls again, and a started reader thread runs. Nothing is
assumed of the network: that it works in the end is the bound on faults, and
`Recovers` says what happens then.

`Exposure` states none: its properties are about steps and states, and time may
pass or not. `SyncRead!Fairness`: the filter threads run and the call under way goes
on; a wait for a frame ends by a frame or an exception, as `Assembly` shows.
`Broadcast!Fairness`: each filter thread runs, the call under way goes on, packets arrive
or are lost, and devices send what they were started for. `Binding!Fairness` is weak fairness of every thread, and strong fairness of taking
the GIL: a thread that waits for it makes the interpreter switch after a few
milliseconds and hand it over, so that the program cannot keep it by giving it up and
taking it again. That the program switches at all (`GilSwitch`), that callbacks end
and that readings end is part of the threads' weak fairness; what one callback does is
bounded.

## Proofs

`FrameTransferProofs`, for every `BufferSize` > 0 and every `MaxFrames`:

- `TypeCorrect`: `Spec => []TypeOK`;
- `RingCorrect`: `Spec => []RingInv`. `ExactDelivery` alone is not inductive: it
  says nothing of what the slots hold. `RingInv` adds that the ring holds
  exactly the frames received and not given back, oldest first
  (`RingAgrees`), that the writer's pointer is the free slot `writeIndex`
  whenever it is used (`WriterAgrees`), and that the reader's slot does not
  change while it is copied (`ReaderAgrees`); all up to the first overflow,
  after which it is false. The steps that move an index rest on lemmas about
  `(x + 1) % BufferSize` and the distance from `readIndex` (`NextIndex`,
  `Distances`, `OffsetRange`, `DistancesAfter`, `Counts`, `PublishOne`,
  `GiveBackOne`);
- `DeliveryExact` and `WriterSlotFree` follow from it;
- `ImplementsChannel`: `Spec => ChannelSpec`, by `RingInv` at every step.

Every safety property that a passing run checks is a theorem, for every value of the
constants that the assumptions (`ASSUME`) and the hypotheses named below allow.

`AssemblyProofs`: `UsesTransfer`, every behaviour of the assembly is one of
`FrameTransfer`: the bound `MaxFrames` is the only guard to be justified, the
rest is that each action is one of FrameTransfer's or leaves its variables
alone. `DeliveryOrdered` carries `DeliveryExact` over, for every measurement and
any number of calls. `AssemblyTypeCorrect` needs nothing. The others have hypotheses,
each of which stands for a fault listed above:

- `DoneComplete` (`DoneIsComplete`) holds without skipped frames (`NoSkips`), for any
  device and any number of cancels, time-outs and overflows. `CountInv` says that READ
  messages are in the order of the calls and still "pending" (`InOrder`), and that the
  last `i` labels are the frames of the reading under way, numbered 1 to `i`, with all
  before them older (`Counted`). Skips are excluded because `i` then counts frames
  that were not given back.
- `NumbersRight`, `QuietBetweenReadings` and `CommandsInSilence` (`FrameNumbers`,
  `QuietWhenIdle`, `CommandsFindDeviceIdle`) hold for a `Plain` assembly: no skips, no
  cancels, a device that is not slower than the time-out, and readings smaller than
  the ring. A cancel releases the lock while the device still sends (`assembly_cancel`),
  a time-out ends a reading whose frames come later, a skip leaves frames in the
  ring, and a full ring overflows. `PlainInv` follows every frame: those sent and not
  given back belong to the reading under way, numbered from `i` on (`OneReading`); with
  those still to be sent they are fewer than the slots (`HasRoom`), so that nothing
  overflows; between readings there are none, unless the assembly disconnects
  (`NothingLeft`). Calls, commands, and the disconnect are not bounded.

`CommandsProofs`, for every `SeqSpace` > 0 and any number of calls and faults:
`CommandsTypeCorrect`, and `SocketsCorrect`, the invariant `SocketsInv`.
`PollsCleanUp` speaks of the time between calls only; what makes it inductive is
how the sockets and `connected` go together inside a call: open but not yet
connected while commandConnect greets the assembly, closed for an assembly that is
running and not connected, and connected wherever an ordinary exchange is under
way. The last also keeps the old handler out of exchanges. `SocketsAfterPolls` and
`StaleHandlerHarmless` follow. `AnswersOwn` (`AnswersAreOwn`) is proved under
`EnoughNumbers`: more numbers than calls. The code has 2^16. It is needed because
nothing empties the socket before a request; what bounds the age of what is in it is
that a call that meets an old packet makes one request only, fails and ends
(`AgeInv`), and that a poll that fails closes the socket. While answers are awaited,
those to the request under way are the packets of age 0, and they come last
(`ExchangeInv`).

`DeviceManagerProofs`, for any number of assemblies, pool threads and calls:
`ManagerTypeCorrect`; `ThreadsStartedOnce` (`StartedOnce`), because of the tasks of one
assembly at most one is past the look at `wasRunning`, which is set before the lock
is given up (`OpenedOnce`); and `ClosedReported` (`ClosedIsReported`): `ClosingInv` says
that the scheduler has ended before any assembly is closed, that an assembly is closed
only after its threads have ended, and that from then on either the callback is
about to report DISCONNECTED or every copy of the map has it.

`ExposureProofs`. `ConversionIsClosest` is proved for every exposure and every size of
the significand: convertExposure rounds down, by less than a step of its exponent, and
takes the least exponent that does. Recursion is reasoned about through the least
counterexample (`LeastNumber`, from the well-foundedness of `<`), since the provers
cannot use an induction rule. `MeasurementRecorded` (`TimerIsMeasurement`) and
`RereadStable` (`RereadIsStable`) rest on `MeasurementInv`: the device has the converted
value of the measurement recorded, of the call under way, or, after a failure, of some
exposure. `SwitchAwaited` (`WaitsForSwitch`) rests on `WaitInv`. While a change is
pending that was not made too early, prevTimerState is what the device still runs;
what is left of its accumulation and the age of prevTimerState add up to no more than
its length and the time that setting it took; and age and sleep add up to the
milliseconds to wait for (`Awaiting`). The conversion back loses nothing (`BackExact`),
so the milliseconds fall short of the accumulation by less than one for each part
(`WaitIsLong`). Its hypothesis `LongAges` is about the model's bound alone: the age is
counted as far as two words of microseconds, beyond which there is no wait. The
run counts it to 12 units, which is enough for its exposures.

`SyncReadProofs`, for any measurements and any number of assemblies:

- `SyncReadTypeCorrect`, and `AsynchronousDefined` (`AsynchronousIsDefined`): a program
  without syncRead has no filter or callback that could outlive its call (`Unused`),
  and the pipe of an assembly with something to read is set and initialised
  (`PipeReady`).
- `AveragesWhole` (`AveragesAreWhole`): the integrator's result is the group that the
  next frame will be added to, or of which it will begin a new one (`Summed`). A new
  reading needs no assumption about what the last one left, because its first frame
  begins a group.
- `AllButTheLast` (`SavesAllButTheLast`): what is saved follows the counter of readFrames
  (`Saving`); the number in the context is the one waited for only when all but the
  last frame have been saved, and it does not change after that (`Seen`), so what the
  loop saw of one assembly is still true when it has seen them all. Before the
  reading begins it is another number (`Awaited`) because the property asks for that
  (`alone`): syncRead does not set it back.

`BroadcastProofs`, for any number of assemblies, readings and losses:
`BroadcastTypeCorrect`, and `BroadcastSynchronous` (`Synchronous`) if readings have at least
one frame. `SynchronousInv` says that every assembly works on the readings in the order of
the calls (`Ordered`), that what is ahead of it has not been started as long as no start
found it unprepared (`Pending`), and that of a reading under way either the start is
on its way to an assembly prepared for it, or the device's frames, sent and to be sent,
are exactly those still to be passed on (`OnTheWay`). The hypothesis is needed: a
reading of 0 frames is done at once, while its start is still under way, and that start
makes the devices send the frames of the next reading. With 0 among `Counts` TLC finds
`Synchronous` violated. The code does not refuse it: 0 is the default of `readFramesNum`
(`AssemblyContext.h:123`), and `valid()` (line 126), which asks for more, is not called.

`BindingProofs`, for any number of assemblies and pool threads and whatever the callbacks
call: `BindingTypeCorrect`, `LocksOrdered` (`LockOrder`) and `DisconnectQuiet`
(`QuietAfterDisconnect`, for programs whose connects succeed), from `BindingInv`
(`BindingInvariant`). `LockOrder` needs to know who may hold a lock at all: the GIL is
with a thread in Python (`GilHeld`), the locks are with threads at the places between
lock and unlock (`LocksHeld`), and only on_error may call what waits (`CallbackCalls`).
`QuietAfterDisconnect` needs that connect's tasks come from one call that is awaited, one
for each assembly (`Connecting`), and that a thread which has been told to stop has ended
or is being joined (`Watched`, `Settled`, `Stopping`).

Only model-checked is what is under fairness, because liveness and ENABLED are beyond
the prover: that readings end and the filter thread comes back, that calls, syncRead and
disconnect return, that broadcast readings end, that what is stored becomes true, and
that an assembly recovers.

## Not modelled, and the plan

Abstracted in what is modelled:

- `Assembly`: the network neither loses nor delays; a receive without data returns
  by SO_RCVTIMEO as it does on Windows; a pipe filter has been set (`SyncRead` has
  the case without); readings are unicast; frames arrive whole.
- `DeviceManager`: an exchange with an assembly is one step that succeeds if the
  assembly answers then; `initialize` is called once; the application reads only
  assemblies that were connected completely; the unsynchronised accesses to
  `assemblyStatuses`, which C++ leaves undefined, are atomic reads and writes of
  the whole map.
- `Commands`: calls follow one another, an answer after the time-out counts as
  lost, and `Assembly::disconnect` (after the last poll) is left to `Assembly`.
- `Exposure`: an exchange works or fails as a whole; the device tells correctly
  whether its exposure is double.
- `SyncRead`: the arrival of frames is left to `Assembly`; of a frame only the
  reading and the number are kept, not its pixels, which the swap and the dark
  signal filter change one by one; the dark signal has the frame's length.
- `Broadcast`: no skipped frames, a ring that is large enough, no cancels and status
  polls; all assemblies are of the one type there is.
- `Binding`: connects succeed; a callback does not call `disconnect` (it would wait
  for its own thread); exceptions that leave a thread and end the process are not
  followed; the log callback is left out.

Next, in this order:

1. Proofs. That the wait for an assembly's lock in `DeviceManager` is `Assembly`'s, as a
   refinement of a common specification of the lock; what holds of frame numbers in
   `Assembly` with cancels and skips (each leaves a known number of frames behind);
   `EnoughNumbers` with the calls since the last poll in place of all calls.
2. `Commands` with two callers at once, because `setMeasurement`, `getDeviceParams`
   and `stopReading` do not take the lock: one `io_context`, one buffer, one
   sequence number, and one caller's `restart()` that hides from the other that its
   run has ended. The repository's README.md:80 says that a synchronous command during
   a reading blocks until the reading ends.
3. In `Assembly`, frames in two parts, and a number of frames and of skipped frames
   that come from different measurements (`Assembly.h:109`). In `DeviceManager`, `initialize` while running.
4. The search for assemblies (`AutoConfig`), whose answers come from several
   devices through one socket.

Left out for good: configuration files, logging, packaging, examples and the
traffic parser (no state or no part in the running system); the emulator, which
is read for what the device answers.
