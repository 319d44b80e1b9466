------------------------------ MODULE Exposure -------------------------------
(***************************************************************************)
(* The exposure of one assembly: how it is converted for the device's      *)
(* timer, and the wait before a reading that lets the device finish what   *)
(* it accumulates under the exposure it had (MasiEthernet::setExposure,    *)
(* setDoubleExposure, readExposure, waitLastExposure).                     *)
(*                                                                         *)
(* Two threads are at work: the application's call of setMeasurement,      *)
(* which takes no lock, and the filter thread that starts a reading.  Both *)
(* use prevTimerState.  Their commands to the device are exchanges that    *)
(* work or fail as a whole; what one consists of is module Commands.       *)
(*                                                                         *)
(* Time passes in the device's unit of 100 microseconds (Tick).  The       *)
(* device is external: it accumulates with one exposure after another, a   *)
(* new timer value takes effect when the accumulation under way ends, and  *)
(* it answers with the timer value it was sent last.                       *)
(***************************************************************************)
EXTENDS Integers

CONSTANTS
  Unit,         \* microseconds of the device's unit, 100
  Milli,        \* microseconds of the unit of the wait, 1000
  SigLimit,     \* significands are below it, 1 << 10
  Word,         \* 2^32: unsigned int and uint32_t
  MinExposure,  \* AssemblyInfo::minExposure, in microseconds
  Exposures,    \* the exposures the application asks for
  MaxSets,      \* bound: calls of setMeasurement
  MaxLag,       \* bound: units that pass during one call of setMeasurement
  MaxAge        \* bound: the age of prevTimerState is not counted beyond it; every
                \* wait is over by then

Single(t) == [isDouble |-> FALSE, t1 |-> t, r1 |-> 0, t2 |-> 0, r2 |-> 0]
Double(t1, r1, t2, r2) == [isDouble |-> TRUE, t1 |-> t1, r1 |-> r1, t2 |-> t2, r2 |-> r2]

ASSUME UnitsAssumption ==
  /\ {Unit, Milli, Word, MinExposure, MaxSets, MaxLag, MaxAge} \subseteq Nat \ {0}
  /\ SigLimit \in Nat /\ SigLimit >= 10

ASSUME MilliAssumption == Milli % Unit = 0

ASSUME ExposuresAssumption ==
  Exposures \subseteq [isDouble : BOOLEAN, t1 : Nat, r1 : Nat, t2 : Nat, r2 : Nat]

\* The two of a double exposure are uint32_t; a single one is 64 bits wide.
ASSUME DoublesAssumption ==
  \A x \in Exposures : x.isDouble => x.t1 < Word /\ x.t2 < Word

VARIABLES
  timer,        \* external: the timer value the device was sent last
  running,      \* external: the timer value it accumulates with
  left,         \* external: units until that accumulation ends
  prev,         \* prevTimerState without its time
  age,          \* units since prevTimerState.stateTime
  measurement,  \* context->measurement.exposure
  apc,          \* where setMeasurement is
  config,       \* its argument
  rpc,          \* where startReadingUnicast is
  elapsed,      \* waitLastExposure's elapsed_ms
  nap,          \* units it still sleeps
  lag,          \* history: units between reading and setting the timer
  rushed,       \* history: set again before a change took effect, or during a wait,
                \* and not switched since
  sets,         \* calls of setMeasurement so far
  settled       \* history: the last call of setMeasurement did not fail

deviceVars == <<timer, running, left>>
setVars == <<measurement, apc, config, sets, settled>>
startVars == <<rpc, elapsed, nap>>
vars == <<deviceVars, prev, age, setVars, startVars, lag, rushed>>

-----------------------------------------------------------------------------
(* The conversion. *)

\* The loop with a slip: the limit itself is let through.
SlipReduced[m \in Nat] ==
  IF m <= SigLimit THEN [s |-> m, e |-> 0]
  ELSE [s |-> SlipReduced[m \div 10].s, e |-> SlipReduced[m \div 10].e + 1]

\* The loop of convertExposure.
Reduced[m \in Nat] ==
  IF m < SigLimit THEN [s |-> m, e |-> 0]
  ELSE [s |-> Reduced[m \div 10].s, e |-> Reduced[m \div 10].e + 1]

\* A slip: the loop's test is off by one.
SlipConvert(microseconds) == SlipReduced[microseconds \div Unit]

convertExposure(microseconds) == Reduced[microseconds \div Unit]

\* The loop of convertExposureBack, in 32 bits: m by the number of its rounds.
Raised(first) ==
  LET m[e \in Nat] == IF e = 0 THEN first ELSE (m[e - 1] * 10) % Word IN m

\* A slip: the significand in milliseconds.
SlipBack(d) == Raised(d.s * Milli)[d.e]

convertExposureBack(d) == Raised(d.s * Unit)[d.e]

\* The timer value of a setMeasurement: the two exposures of a double one are
\* exchanged, and what does not fit in the parameter's 32 bits is lost.
Timer(x) ==
  IF x.isDouble
  THEN [isDouble |-> TRUE, d1 |-> convertExposure(x.t2), r1 |-> x.r2,
                           d2 |-> convertExposure(x.t1), r2 |-> x.r1]
  ELSE [isDouble |-> FALSE, d1 |-> convertExposure(x.t1 % Word), r1 |-> 0,
                            d2 |-> [s |-> 0, e |-> 0], r2 |-> 0]

\* readExposure of that value.
Answer(v) ==
  IF v.isDouble
  THEN Double(convertExposureBack(v.d1), v.r1, convertExposureBack(v.d2), v.r2)
  ELSE Single(convertExposureBack(v.d1))

Power10[e \in Nat] == IF e = 0 THEN 1 ELSE 10 * Power10[e - 1]

\* External: the units that one accumulation, or one round of both, takes.
Units(d) == d.s * Power10[d.e]
Length(v) == IF v.isDouble THEN Units(v.d1) * v.r1 + Units(v.d2) * v.r2 ELSE Units(v.d1)

\* setExposure and setDoubleExposure refuse it.
TooLow(x) ==
  IF x.isDouble THEN x.t1 < MinExposure \/ x.t2 < MinExposure ELSE x.t1 % Word < MinExposure

-----------------------------------------------------------------------------
(* Time and the device (external). *)

AtMost(x, limit) == IF x < limit THEN x ELSE limit

\* A unit of time passes; an accumulation may end, and the next one begins
\* with the timer value that the device has now.
Tick ==
  /\ apc = "set" => lag < MaxLag
  /\ IF left > 1
     THEN left' = left - 1 /\ UNCHANGED <<running, rushed>>
     ELSE left' = Length(timer) /\ running' = timer /\ rushed' = FALSE
  /\ age' = AtMost(age + 1, MaxAge)
  /\ lag' = IF apc = "set" THEN lag + 1 ELSE lag
  /\ nap' = IF nap > 0 THEN nap - 1 ELSE 0
  /\ UNCHANGED <<timer, prev, setVars, rpc, elapsed>>

-----------------------------------------------------------------------------
(* setMeasurement, called by the application. *)

\* readAssemblyInfo, the check and the conversion.
SetBegin(x) ==
  /\ apc = "idle"
  /\ ~TooLow(x)
  /\ sets < MaxSets
  /\ sets' = sets + 1
  /\ config' = x
  /\ apc' = "query"
  /\ UNCHANGED <<deviceVars, prev, age, measurement, settled, startVars, lag, rushed>>

\* The last change has not taken effect, or a reading waits for it.
Rushing == running # timer \/ rpc # "idle"

\* A slip: the state to wait for is the one being set.
SlipWaitForNew ==
  /\ apc = "query"
  /\ prev' = Answer(Timer(config))
  /\ age' = 0
  /\ lag' = 0
  /\ rushed' = (rushed \/ Rushing)
  /\ apc' = "set"
  /\ UNCHANGED <<deviceVars, measurement, config, sets, settled, startVars>>

\* prevTimerState = readExposure()
SetQuery ==
  /\ apc = "query"
  /\ prev' = Answer(timer)
  /\ age' = 0
  /\ lag' = 0
  /\ rushed' = (rushed \/ Rushing)
  /\ apc' = "set"
  /\ UNCHANGED <<deviceVars, measurement, config, sets, settled, startVars>>

\* UDP_SET_TIMER or UDP_SET_DOUBLE_TIMER reaches the device.
SetTimer ==
  /\ apc = "set"
  /\ timer' = Timer(config)
  /\ rushed' = (rushed \/ Rushing)
  /\ apc' = "record"
  /\ UNCHANGED <<running, left, prev, age, measurement, config, sets, settled, startVars,
                 lag>>

\* It has been answered: context->measurement = config
SetRecord ==
  /\ apc = "record"
  /\ measurement' = config
  /\ settled' = TRUE
  /\ apc' = "idle"
  /\ config' = Single(0)
  /\ UNCHANGED <<deviceVars, prev, age, sets, startVars, lag, rushed>>

\* A slip: the measurement is recorded although the exchange failed.
SlipRecordAnyway ==
  /\ apc \in {"query", "set", "record"}
  /\ measurement' = config
  /\ settled' = (settled /\ apc # "record")
  /\ apc' = "idle"
  /\ config' = Single(0)
  /\ UNCHANGED <<deviceVars, prev, age, sets, startVars, lag, rushed>>

\* An exchange fails by an exception, that of UDP_SET_TIMER before or after
\* the device has taken the new value.
SetFails ==
  /\ apc \in {"query", "set", "record"}
  /\ settled' = (settled /\ apc # "record")
  /\ apc' = "idle"
  /\ config' = Single(0)
  /\ UNCHANGED <<deviceVars, prev, age, measurement, sets, startVars, lag, rushed>>

-----------------------------------------------------------------------------
(* startReadingUnicast, called by the filter thread. *)

\* waitLastExposure takes the time since prevTimerState, in whole milliseconds...
StartElapsed ==
  /\ rpc = "idle"
  /\ elapsed' = (age * Unit) \div Milli
  /\ rpc' = "elapsed"
  /\ UNCHANGED <<deviceVars, prev, age, setVars, nap, lag, rushed>>

\* ...and the whole milliseconds of its exposure; t * r is computed in 32 bits.
TimerMillis(p) ==
  IF p.isDouble
  THEN ((p.t1 * p.r1) % Word) \div Milli + ((p.t2 * p.r2) % Word) \div Milli
  ELSE p.t1 \div Milli

StartSleep ==
  /\ rpc = "elapsed"
  /\ nap' = IF TimerMillis(prev) > elapsed
            THEN (TimerMillis(prev) - elapsed) * (Milli \div Unit) ELSE 0
  /\ rpc' = "asleep"
  /\ elapsed' = 0
  /\ UNCHANGED <<deviceVars, prev, age, setVars, lag, rushed>>

\* A slip: the sleep is not waited for.
SlipNoSleep ==
  /\ rpc = "asleep"
  /\ nap' = 0
  /\ rpc' = "send"
  /\ UNCHANGED <<deviceVars, prev, age, setVars, elapsed, lag, rushed>>

\* The sleep is over; readAssemblyInfo and setChipPixelNumber follow.
StartWake ==
  /\ rpc = "asleep"
  /\ nap = 0
  /\ rpc' = "send"
  /\ UNCHANGED <<deviceVars, prev, age, setVars, elapsed, nap, lag, rushed>>

\* UDP_READ_MULTILINE is sent, or one of the exchanges has failed.
StartSend ==
  /\ rpc = "send"
  /\ rpc' = "idle"
  /\ UNCHANGED <<deviceVars, prev, age, setVars, elapsed, nap, lag, rushed>>

-----------------------------------------------------------------------------

\* The application asks for one of Exposures, or for what getExposure returned.
Set == \E x \in Exposures \cup {Answer(timer)} : SetBegin(x)

Start == StartElapsed \/ StartSleep \/ StartWake \/ StartSend

Init ==
  /\ \E x \in Exposures : ~TooLow(x) /\ timer = Timer(x)
  /\ running = timer
  /\ left = Length(timer)
  /\ prev = Single(0)
  /\ age = MaxAge
  /\ measurement = Single(0)
  /\ apc = "idle"
  /\ config = Single(0)
  /\ rpc = "idle"
  /\ elapsed = 0
  /\ nap = 0
  /\ lag = 0
  /\ rushed = FALSE
  /\ sets = 0
  /\ settled = FALSE

Next == Tick \/ Set \/ SetQuery \/ SetTimer \/ SetRecord \/ SetFails \/ Start

Spec == Init /\ [][Next]_vars

-----------------------------------------------------------------------------

Digits == [s : 0 .. SigLimit - 1, e : Nat]
TimerValues == [isDouble : BOOLEAN, d1 : Digits, r1 : Nat, d2 : Digits, r2 : Nat]
TimerStates == [isDouble : BOOLEAN, t1 : Nat, r1 : Nat, t2 : Nat, r2 : Nat]

\* A significand always fits in its ten bits.
TypeOK ==
  /\ {timer, running} \subseteq TimerValues
  /\ {prev, config, measurement} \subseteq TimerStates
  /\ {left, age, elapsed, nap, lag, sets} \subseteq Nat
  /\ apc \in {"idle", "query", "set", "record"}
  /\ rpc \in {"idle", "elapsed", "asleep", "send"}
  /\ {rushed, settled} \subseteq BOOLEAN

\* d is the finest encoding of t from below: no larger than t, less than one
\* step of its exponent away, and no smaller exponent would have done.
Encodes(d, t) ==
  /\ Units(d) * Unit <= t
  /\ t < (d.s + 1) * Power10[d.e] * Unit
  /\ d.e > 0 => SigLimit * Power10[d.e - 1] * Unit <= t

\* Between calls, and unless the last one failed after the device had taken
\* its value, the device's timer is the recorded measurement, encoded, for
\* exposures that fit in 32 bits (Assembly::setMeasurement).
TimerIsMeasurement ==
  apc = "idle" /\ settled =>
    /\ timer.isDouble = measurement.isDouble
    /\ measurement.isDouble =>
         /\ Encodes(timer.d1, measurement.t2) /\ timer.r1 = measurement.r2
         /\ Encodes(timer.d2, measurement.t1) /\ timer.r2 = measurement.r1
    /\ ~measurement.isDouble /\ measurement.t1 < Word => Encodes(timer.d1, measurement.t1)

\* t * r of prevTimerState does not fit in 32 bits.
Wraps(p) == p.isDouble /\ (p.t1 * p.r1 >= Word \/ p.t2 * p.r2 >= Word)

\* When a reading is started the device has switched to the exposure that was
\* set, or switches within the time that rounding to milliseconds and the two
\* exchanges of setMeasurement can make: the purpose of waitLastExposure.
\* Except if the exposure was set twice before the first change took effect or
\* during the wait: prevTimerState is then not what the device is running.
\* Except also if the product of a double exposure wraps.
WaitsForSwitch ==
  rpc = "send" /\ ~rushed /\ ~Wraps(prev) =>
    \/ running = timer
    \/ left * Unit < lag * Unit + 2 * Milli

\* To set a single exposure that getExposure returned leaves its length as it
\* is, whatever the conversions to and fro have cut off.  The encoding may be
\* another: 102400 us is encoded as 102 * 10 units and read as 102000 us, which
\* is encoded as 1020.
RereadIsStable ==
  [][SetTimer /\ config = Answer(timer) /\ ~config.isDouble
       => ~timer'.isDouble /\ Length(timer') = Length(timer)]_vars

==============================================================================
