----------------------------- MODULE Ultrasonic -----------------------------
(***************************************************************************)
(* One HC-SR04 sensor and its driver, class ultrasonic: the Timeout that   *)
(* triggers a measurement every 100 ms, the interrupts at the two edges of *)
(* the echo pulse, whose width is the distance, and the calls of main.     *)
(* The interrupt handlers run to their end; main's calls are split where   *)
(* an interrupt in between can matter.  The division of the width by 6     *)
(* only changes the unit of distance and is left out; the queue the        *)
(* samples go to is MyQueue's.                                             *)
(***************************************************************************)
EXTENDS Integers

CONSTANTS TimerLimit,  \* _startT resets a timer that is past this (1 s)
          MaxTimer     \* bound of the timer, for model checking

ASSUME UltrasonicAssumption ==
  TimerLimit \in Nat /\ MaxTimer \in Nat /\ TimerLimit < MaxTimer

VARIABLES
  timer,       \* _t
  start, end,  \* the timer at the echo's last rise and fall
  distance,    \* _distance
  done,        \* set by every measurement, cleared by checkDistance
  riseIrq,     \* a handler is attached to the echo's rising edge
  fallIrq,     \* ... and to its falling edge
  timeout,     \* _tout is attached: the next trigger is due in 100 ms
  sensor,      \* the hardware: "quiet", "ranging" (triggered) or "echo" (high)
  pc,          \* where main is in its calls
  width,       \* history: the time since the echo rose
  seen,        \* history: both edges of this pulse find their handler
  unreported   \* history: a measurement no call of _onUpdateMethod came after

handlers == <<riseIrq, fallIrq>>
values == <<start, end, distance>>
history == <<width, seen, unreported>>
vars == <<timer, values, done, handlers, timeout, sensor, pc, history>>

(* The sensors are globals: their members start out as 0.  The constructor *)
(* starts the timer.                                                       *)
Init ==
  /\ timer = 0 /\ start = 0 /\ end = 0 /\ distance = 0
  /\ done = FALSE /\ riseIrq = FALSE /\ fallIrq = FALSE /\ timeout = FALSE
  /\ sensor = "quiet"
  /\ pc = "off"
  /\ width = 0 /\ seen = FALSE /\ unreported = FALSE

Tick ==
  /\ timer < MaxTimer
  /\ timer' = timer + 1
  /\ width' = IF sensor = "echo" THEN width + 1 ELSE width
  /\ UNCHANGED <<values, done, handlers, timeout, sensor, pc, seen, unreported>>

----------------------------------------------------------------------------
(* The interrupts. *)

(* The sensor hears the end of a trigger pulse unless it is measuring.     *)
Triggered == sensor' = IF sensor = "quiet" THEN "ranging" ELSE sensor

(* Mutant of _startTrig: the Timeout is not attached again. *)
_startTrigOnce ==
  /\ timeout
  /\ timeout' = FALSE
  /\ riseIrq' = TRUE
  /\ fallIrq' = TRUE
  /\ Triggered
  /\ UNCHANGED <<timer, values, done, pc, history>>

(* _startTrig in the Timeout's interrupt. *)
_startTrig ==
  /\ timeout
  /\ timeout' = TRUE
  /\ riseIrq' = TRUE
  /\ fallIrq' = TRUE
  /\ Triggered
  /\ UNCHANGED <<timer, values, done, pc, history>>

(* Mutants of _startT: start is not taken when the timer is reset; with    *)
(* the interrupt's latency taken off.                                      *)
EchoRises(stamp) ==
  /\ sensor = "ranging"
  /\ sensor' = "echo"
  /\ IF riseIrq
     THEN /\ timer' = IF timer > TimerLimit THEN 0 ELSE timer
          /\ start' = stamp
     ELSE UNCHANGED <<timer, start>>
  /\ width' = 0
  /\ seen' = riseIrq
  /\ UNCHANGED <<end, distance, done, handlers, timeout, pc, unreported>>

_startTOrReset == EchoRises(IF timer > TimerLimit THEN start ELSE timer)

(* The echo rises: _startT, if attached. *)
_startT ==
  /\ sensor = "ranging"
  /\ sensor' = "echo"
  /\ IF riseIrq
     THEN /\ timer' = IF timer > TimerLimit THEN 0 ELSE timer
          /\ start' = timer'
     ELSE UNCHANGED <<timer, start>>
  /\ width' = 0
  /\ seen' = riseIrq
  /\ UNCHANGED <<end, distance, done, handlers, timeout, pc, unreported>>

(* Mutant of _updateDist: only a distance that changed is flagged. *)
_updateDistIfChanged ==
  /\ sensor = "echo"
  /\ sensor' = "quiet"
  /\ IF fallIrq
     THEN /\ end' = timer
          /\ distance' = end' - start
          /\ done' = (done \/ distance' # distance)
          /\ unreported' = TRUE
     ELSE UNCHANGED <<end, done, distance, unreported>>
  /\ UNCHANGED <<timer, start, handlers, timeout, pc, width, seen>>

(* The echo falls: _updateDist, if attached. *)
_updateDist ==
  /\ sensor = "echo"
  /\ sensor' = "quiet"
  /\ IF fallIrq
     THEN /\ end' = timer
          /\ done' = TRUE
          /\ distance' = end' - start
          /\ unreported' = TRUE
     ELSE UNCHANGED <<end, done, distance, unreported>>
  /\ UNCHANGED <<timer, start, handlers, timeout, pc, width, seen>>

Interrupts == _startTrig \/ _startT \/ _updateDist

----------------------------------------------------------------------------
(* main's calls. *)

MainAt(from, to) == pc = from /\ pc' = to

(* startUpdates calls _startTrig from main: here the echo's edges may come *)
(* between its steps.                                                      *)
startUpdates ==
  /\ pc \in {"off", "run"} /\ pc' = "start1"
  /\ timeout' = FALSE
  /\ UNCHANGED <<timer, values, done, handlers, sensor, history>>

AttachRise ==
  /\ MainAt("start1", "start2")
  /\ riseIrq' = TRUE
  /\ UNCHANGED <<timer, values, done, fallIrq, timeout, sensor, history>>

AttachFall ==
  /\ MainAt("start2", "start3")
  /\ fallIrq' = TRUE
  /\ Triggered
  /\ UNCHANGED <<timer, values, done, riseIrq, timeout, history>>

AttachTimeout ==
  /\ MainAt("start3", "run")
  /\ timeout' = TRUE
  /\ UNCHANGED <<timer, values, done, handlers, sensor, history>>

(* Mutant of pauseUpdates: the Timeout stays attached. *)
pauseEdgesOnly ==
  /\ MainAt("run", "pause1")
  /\ UNCHANGED <<timer, values, done, handlers, timeout, sensor, history>>

(* pauseUpdates: the Timeout, then the rising edge, then the falling one.  *)
pauseUpdates ==
  /\ MainAt("run", "pause1")
  /\ timeout' = FALSE
  /\ UNCHANGED <<timer, values, done, handlers, sensor, history>>

DetachRise ==
  /\ MainAt("pause1", "pause2")
  /\ riseIrq' = FALSE
  /\ UNCHANGED <<timer, values, done, fallIrq, timeout, sensor, history>>

DetachFall ==
  /\ MainAt("pause2", "off")
  /\ fallIrq' = FALSE
  /\ UNCHANGED <<timer, values, done, riseIrq, timeout, sensor, history>>

(* checkDistance: if(isUpdated()), which reads done; then clearDone(); then*)
(* the callback with start, end and _distance.                             *)
checkDistance ==
  /\ pc = "run"
  /\ done
  /\ pc' = "clear"
  /\ UNCHANGED <<timer, values, done, handlers, timeout, sensor, history>>

clearDone ==
  /\ MainAt("clear", "report")
  /\ done' = FALSE
  /\ UNCHANGED <<timer, values, handlers, timeout, sensor, history>>

_onUpdateMethod ==
  /\ MainAt("report", "run")
  /\ unreported' = FALSE
  /\ UNCHANGED <<timer, values, done, handlers, timeout, sensor, width, seen>>

Starting == startUpdates \/ AttachRise \/ AttachFall \/ AttachTimeout
Pausing == pauseUpdates \/ DetachRise \/ DetachFall
Checking == checkDistance \/ clearDone \/ _onUpdateMethod

Next == Tick \/ Interrupts \/ Starting \/ Pausing \/ Checking

Spec == Init /\ [][Next]_vars

(* Timeouts fire and a triggered sensor answers; main finishes what it     *)
(* started but need not start anything.                                    *)
FairSpec ==
  /\ Spec
  /\ WF_vars(_startTrig) /\ WF_vars(_startT) /\ WF_vars(_updateDist)
  /\ WF_vars(AttachRise \/ AttachFall \/ AttachTimeout)
  /\ WF_vars(clearDone \/ _onUpdateMethod)

----------------------------------------------------------------------------

(* A measurement whose two edges were both handled is the pulse's width,   *)
(* whenever the timer was reset.  No other, after a pause, a restart or a  *)
(* missed edge, is negative, which the detection would take for a fall.    *)
MeasuresThePulse ==
  [][(_updateDist /\ fallIrq) => (distance' >= 0 /\ (seen => distance' = width))]_vars

(* Once pauseUpdates has returned nothing is measured until startUpdates:  *)
(* the trigger is detached first, so that no trigger re-attaches an edge.  *)
SilentWhenPaused == pc = "off" => ~riseIrq /\ ~fallIrq /\ ~timeout

(* A measurement is reported by a later callback or still flagged: the     *)
(* flag is cleared before the values are read, so that a measurement in    *)
(* between is at worst reported without a flag, and never flagged away.    *)
NothingFlaggedAway == unreported /\ pc \in {"off", "run"} => done

(* Unless paused, a started sensor goes on measuring. *)
KeepsMeasuring ==
  <>[](pc \in {"run", "clear", "report"}) => []<><<_updateDist /\ fallIrq>>_vars
=============================================================================
