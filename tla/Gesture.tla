------------------------------ MODULE Gesture ------------------------------
(***************************************************************************)
(* What the recognizer promises (README, "Definition of Gesture" and       *)
(* "Gesture Recognition"): a gesture is the order in which the two sensors *)
(* detected the object.  A third detection ends it at once; otherwise the  *)
(* time-out ends it.  The Raspberry Pi is told of a gesture of two or      *)
(* three detections, once, when it ends.                                   *)
(***************************************************************************)
EXTENDS Naturals, Sequences

VARIABLES path,      \* the sensors that detected the object, in order
          resting,   \* a complete gesture was just reported
          sent       \* the message that the last step sent, or NoMessage

vars == <<path, resting, sent>>

NoMessage == "none"

(* The encoding: first the light (on or off), then, for three detections,  *)
(* the buzzer or the blinking light.                                       *)
Message(gesture) ==
  CASE gesture = <<1, 2>>    -> "1"
    [] gesture = <<2, 1>>    -> "0"
    [] gesture = <<1, 2, 1>> -> "20"
    [] gesture = <<2, 1, 2>> -> "21"
    [] OTHER                 -> NoMessage

Init ==
  /\ path = <<>>
  /\ resting = FALSE
  /\ sent = NoMessage

(* A sensor other than the last one detects the object. *)
Follows(s) == path = <<>> \/ path[Len(path)] # s

Detect(s) ==
  /\ ~resting
  /\ Len(path) < 2
  /\ Follows(s)
  /\ path' = Append(path, s)
  /\ sent' = NoMessage
  /\ UNCHANGED resting

Complete(s) ==
  /\ Len(path) = 2
  /\ Follows(s)
  /\ path' = <<>>
  /\ resting' = TRUE
  /\ sent' = Message(Append(path, s))

TimeOut ==
  /\ ~resting
  /\ path' = <<>>
  /\ sent' = Message(path)
  /\ UNCHANGED resting

Rested ==
  /\ resting
  /\ resting' = FALSE
  /\ sent' = NoMessage
  /\ UNCHANGED path

(* Time passes and nothing is detected that matters. *)
Wait == sent' = NoMessage /\ UNCHANGED <<path, resting>>

Next == TimeOut \/ Rested \/ Wait \/ \E s \in {1, 2} : Detect(s) \/ Complete(s)

Spec == Init /\ [][Next]_vars
=============================================================================
