----------------------------- MODULE Recognizer -----------------------------
(***************************************************************************)
(* The gesture state machine of SocketDemo::run (main.cpp), one action per *)
(* branch of an iteration of its loop that found both sensors updated.     *)
(* The states keep the source's numbers.  Module GestoTrack supplies the   *)
(* newest detection, peak.back(), from the sensors' windows; here it may   *)
(* be any.  Messages are handed to a socket whose result is ignored.       *)
(***************************************************************************)
EXTENDS Stopwatch, Sequences

CONSTANTS IdleTime,    \* idleTime, in units of Stopwatch
          ResetTime,   \* resetTime
          SendTime,    \* the longest a blocking send may take
          MayOverrun   \* whether the clock may leave the range of int

ASSUME RecognizerAssumption ==
  /\ IdleTime \in Nat /\ ResetTime \in Nat /\ SendTime \in Nat
  /\ IdleTime < Cap /\ ResetTime < Cap
  /\ MayOverrun \in BOOLEAN

Sensors == {1, 2}
States == {0, 1, 2, 12, 21, 3}
Messages == {"1", "0", "20", "21"}
NoMessage == "none"

VARIABLES state,    \* the state of the diagram in the README
          done,     \* the sensors whose done flag is set
          sent,     \* what the last step gave to sendMessage, or NoMessage
          quiet     \* history: the true time since `state` last changed

clock == <<elapsed, overrun>>
vars == <<state, done, sent, quiet, clock>>

TypeOK ==
  /\ state \in States
  /\ done \subseteq Sensors
  /\ sent \in Messages \union {NoMessage}
  /\ elapsed \in Elapsed
  /\ overrun \in BOOLEAN
  /\ quiet \in 0 .. Cap

Init ==
  /\ StopwatchInit
  /\ state = 0
  /\ done = {}
  /\ sent = NoMessage
  /\ quiet = 0

(* A falling echo edge: _updateDist sets the sensor's done flag. *)
Update(s) ==
  /\ done' = done \union {s}
  /\ sent' = NoMessage
  /\ UNCHANGED <<state, quiet, clock>>

Pass(d) ==
  /\ Elapse(d)
  /\ overrun' => MayOverrun
  /\ quiet' = Capped(quiet + d)
  /\ sent' = NoMessage
  /\ UNCHANGED <<state, done>>

(* Both sensors are updated; checkDistance clears both flags.              *)
BothUpdated == done = Sensors /\ done' = {}

StateChangesTo(st) == state' = st /\ quiet' = 0

(* state = st; lastTime = getUsTime(); *)
Enter(st) == StateChangesTo(st) /\ Stamp(0) /\ sent' = NoMessage

Stay == sent' = NoMessage /\ UNCHANGED <<state, quiet, clock>>

Idle == elapsed > IdleTime

(* Mutant of LeaveFinal: it does not rest. *)
LeaveFinalAtOnce == BothUpdated /\ state = 3 /\ Enter(0)

(* State 3 rests for resetTime; the sensors' queues are reset on leaving.  *)
LeaveFinal ==
  /\ BothUpdated
  /\ state = 3
  /\ elapsed > ResetTime
  /\ Enter(0)

(* Mutants of GoIdle: the messages swapped; only the states that report go *)
(* back to 0.                                                              *)
TimedOut(st) == BothUpdated /\ state # 3 /\ Idle /\ LateStamp /\ state' = st /\ quiet' = 0

GoIdleSwapped ==
  /\ sent' = CASE state = 12 -> "0" [] state = 21 -> "1" [] OTHER -> NoMessage
  /\ TimedOut(0)

GoIdleFromPairs ==
  /\ sent' = CASE state = 12 -> "1" [] state = 21 -> "0" [] OTHER -> NoMessage
  /\ TimedOut(IF state \in {12, 21} THEN 0 ELSE state)

(* The time-out ends the gesture, and reports it if it has two detections. *)
(* The send comes before the stamp.                                        *)
GoIdle ==
  /\ BothUpdated
  /\ state # 3
  /\ Idle
  /\ sent' = CASE state = 12 -> "1" [] state = 21 -> "0" [] OTHER -> NoMessage
  /\ state' = 0
  /\ LateStamp
  /\ quiet' = IF state = 0 THEN quiet ELSE 0

(* Mutant of Appear: lastTime is not stamped. *)
AppearUnstamped(peak) ==
  /\ BothUpdated
  /\ state = 0
  /\ ~Idle
  /\ peak # 0
  /\ StateChangesTo(peak) /\ sent' = NoMessage /\ UNCHANGED clock

Appear(peak) ==
  /\ BothUpdated
  /\ state = 0
  /\ ~Idle
  /\ peak # 0
  /\ Enter(peak)

(* The second detection, by the other sensor. *)
Cross(peak) ==
  /\ BothUpdated
  /\ ~Idle
  /\ \/ state = 1 /\ peak = 2 /\ Enter(12)
     \/ state = 2 /\ peak = 1 /\ Enter(21)

(* Mutant of Return: the third digit is appended as the second was. *)
ReturnAppended(peak, d) ==
  /\ BothUpdated
  /\ ~Idle
  /\ state \in {12, 21} /\ peak # state % 10
  /\ state' = 10 * state + peak
  /\ sent' = "20" /\ Stamp(d) /\ quiet' = Capped(d)

(* The third, by the first sensor again.  The stamp comes before the send, *)
(* which may take d units of time.                                         *)
Return(peak, d) ==
  /\ BothUpdated
  /\ ~Idle
  /\ \/ state = 21 /\ peak = 2 /\ sent' = "21"
     \/ state = 12 /\ peak = 1 /\ sent' = "20"
  /\ state' = 3
  /\ Stamp(d)
  /\ quiet' = Capped(d)

(* No branch is taken: a self-loop of the diagram, or state 3 still rests. *)
Ignore(peak) ==
  /\ BothUpdated
  /\ \/ state = 3 /\ ~(elapsed > ResetTime)
     \/ /\ ~Idle
        /\ \/ state = 0 /\ peak = 0
           \/ state \in {1, 21} /\ peak # 2
           \/ state \in {2, 12} /\ peak # 1
  /\ Stay

Iterate(peak) ==
  /\ \/ LeaveFinal
     \/ GoIdle
     \/ Appear(peak)
     \/ Cross(peak)
     \/ \E d \in 0 .. SendTime : Return(peak, d)
     \/ Ignore(peak)
  /\ overrun' => MayOverrun

Next ==
  \/ \E s \in Sensors : Update(s)
  \/ Pass(1)
  \/ \E peak \in 0 .. 2 : Iterate(peak)

Spec == Init /\ [][Next]_vars

(* The loop never stops and both sensors are triggered every 100 ms.       *)
FairSpec ==
  /\ Spec
  /\ WF_vars(Pass(1))
  /\ WF_vars(\E peak \in 0 .. 2 : Iterate(peak))
  /\ \A s \in Sensors : WF_vars(Update(s))

----------------------------------------------------------------------------

(* lastTime is read before it is first written (main.cpp:175), but its     *)
(* junk is never what decides: whenever a gesture is under way or resting, *)
(* the elapsed time is the true time since that state was entered.         *)
ElapsedIsTrue == state # 0 => elapsed = quiet

(* A gesture's time-out is idleTime long (README: "timeout is 1 second for *)
(* each state except state3").                                             *)
TimesOutAfterIdleTime ==
  [][(state \in {1, 2, 12, 21} /\ state' = 0) => (quiet > IdleTime)]_vars

(* The path of detections that a state stands for. *)
PathOf(st) ==
  CASE st = 1 -> <<1>>
    [] st = 2 -> <<2>>
    [] st = 12 -> <<1, 2>>
    [] st = 21 -> <<2, 1>>
    [] OTHER -> <<>>

Promise == INSTANCE Gesture WITH path <- PathOf(state), resting <- state = 3

(* The state machine implements the README's notion of a gesture: every    *)
(* message is the one for the detections made, and is sent once.           *)
ImplementsGesture == Promise!Spec

(* Every gesture ends: "at each state, if it does not change to the next   *)
(* state for a consecutive time, the state should change to state0".       *)
GestureEnds == state # 0 ~> state = 0

=============================================================================
