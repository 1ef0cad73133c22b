-------------------------- MODULE UltrasonicProofs --------------------------
(***************************************************************************)
(* Proofs about the ultrasonic driver, for any length of time and any      *)
(* order of main's calls and the interrupts: a paused sensor is silent,    *)
(* no measurement is flagged away, and what is measured is the pulse.      *)
(***************************************************************************)
EXTENDS Ultrasonic, TLAPS

Typed ==
  /\ timer \in Nat /\ start \in Nat /\ end \in Nat /\ distance \in Int
  /\ done \in BOOLEAN /\ unreported \in BOOLEAN /\ seen \in BOOLEAN
  /\ riseIrq \in BOOLEAN /\ fallIrq \in BOOLEAN /\ timeout \in BOOLEAN
  /\ sensor \in {"quiet", "ranging", "echo"}
  /\ pc \in {"off", "start1", "start2", "start3", "run",
             "pause1", "pause2", "clear", "report"}
  /\ width \in Nat

(* What is detached while main starts or pauses: the trigger first and     *)
(* last, so that no trigger attaches an edge behind its back.              *)
Detached ==
  /\ pc \in {"off", "start1", "start2", "start3", "pause1", "pause2"} => ~timeout
  /\ pc \in {"off", "pause2"} => ~riseIrq
  /\ pc = "off" => ~fallIrq

(* A measurement is flagged until main clears the flag, which it does only *)
(* on its way to the callback.                                             *)
Flagged ==
  /\ pc = "clear" => done
  /\ unreported /\ pc # "report" => done

(* The timer is reset only where start is taken from it, and from then on  *)
(* it and the pulse grow together.                                         *)
Timed ==
  /\ start <= timer
  /\ sensor = "echo" /\ seen => timer - start = width

(* The inductive invariant. *)
IInv == Typed /\ Detached /\ Flagged /\ Timed

----------------------------------------------------------------------------

(* The sensors are silent when they are constructed. *)
LEMMA InitIInv == Init => IInv
  <1> SUFFICES ASSUME Init PROVE IInv
    OBVIOUS
  <1>1. /\ done \in BOOLEAN /\ unreported \in BOOLEAN /\ seen \in BOOLEAN
        /\ riseIrq \in BOOLEAN /\ fallIrq \in BOOLEAN /\ timeout \in BOOLEAN
    BY Zenon DEF Init
  <1> QED
    BY <1>1 DEF Init, IInv, Typed, Detached, Flagged, Timed

(* main's calls stop and start the interrupts and leave their values be.   *)
LEMMA MainKeeps ==
  ASSUME IInv, Starting \/ Pausing \/ Checking
  PROVE  IInv'
  <1> USE DEF IInv, Typed, Detached, Flagged, Timed, MainAt, values, handlers, history
  <1>1. CASE startUpdates
    BY <1>1 DEF startUpdates
  <1>2. CASE AttachRise
    BY <1>2 DEF AttachRise
  <1>3. CASE AttachFall
    BY <1>3 DEF AttachFall, Triggered
  <1>4. CASE AttachTimeout
    BY <1>4 DEF AttachTimeout
  <1>5. CASE pauseUpdates
    BY <1>5 DEF pauseUpdates
  <1>6. CASE DetachRise
    BY <1>6 DEF DetachRise
  <1>7. CASE DetachFall
    BY <1>7 DEF DetachFall
  <1>8. CASE checkDistance
    BY <1>8 DEF checkDistance
  <1>9. CASE clearDone
    BY <1>9 DEF clearDone
  <1>10. CASE _onUpdateMethod
    BY <1>10 DEF _onUpdateMethod
  <1> QED
    BY <1>1, <1>2, <1>3, <1>4, <1>5, <1>6, <1>7, <1>8, <1>9, <1>10
       DEF Starting, Pausing, Checking

(* The interrupts, which main's calls cannot stop half-way. *)
LEMMA InterruptsKeep ==
  ASSUME IInv, Interrupts
  PROVE  IInv'
  <1> USE DEF IInv, Typed, Detached, Flagged, Timed, values, handlers, history
  <1>1. CASE _startTrig
    BY <1>1 DEF _startTrig, Triggered
  <1>2. CASE _startT
    BY <1>2, UltrasonicAssumption DEF _startT
  <1>3. CASE _updateDist
    <2>1. CASE fallIrq
      BY <1>3, <2>1 DEF _updateDist
    <2>2. CASE ~fallIrq
      BY <1>3, <2>2 DEF _updateDist
    <2> QED
      BY <2>1, <2>2
  <1> QED
    BY <1>1, <1>2, <1>3 DEF Interrupts

(* Every step keeps the invariant. *)
LEMMA Kept ==
  ASSUME IInv, [Next]_vars
  PROVE  IInv'
  <1>1. CASE Tick
    BY <1>1 DEF Tick, IInv, Typed, Detached, Flagged, Timed, values, handlers
  <1>2. CASE UNCHANGED vars
    BY <1>2 DEF vars, values, handlers, history, IInv, Typed, Detached, Flagged, Timed
  <1> QED
    BY <1>1, <1>2, MainKeeps, InterruptsKeep DEF Next

(* It holds in every reachable state. *)
LEMMA IInvHolds == Spec => []IInv
  BY InitIInv, Kept, PTL DEF Spec

----------------------------------------------------------------------------

(* A paused sensor has neither its trigger nor an edge attached: whatever  *)
(* interrupts came between the steps of pauseUpdates, nothing is measured  *)
(* until startUpdates.                                                     *)
THEOREM Silent == Spec => []SilentWhenPaused
  <1>1. IInv => SilentWhenPaused
    BY DEF IInv, Detached, SilentWhenPaused
  <1> QED
    BY <1>1, IInvHolds, PTL

(* No measurement is lost between checkDistance's reading the flag, its    *)
(* clearing it and its callback: it is reported or still flagged.          *)
THEOREM NothingLost == Spec => []NothingFlaggedAway
  <1>1. IInv => NothingFlaggedAway
    BY DEF IInv, Flagged, NothingFlaggedAway
  <1> QED
    BY <1>1, IInvHolds, PTL

(* No measurement is negative, and one whose two edges were handled is the *)
(* width of the pulse, wherever the timer was reset.                       *)
THEOREM PulseMeasured == Spec => MeasuresThePulse
  <1>1. ASSUME IInv, _updateDist, fallIrq
        PROVE  distance' >= 0 /\ (seen => distance' = width)
    BY <1>1 DEF _updateDist, IInv, Typed, Timed
  <1>2. IInv /\ [Next]_vars =>
          [(_updateDist /\ fallIrq) => (distance' >= 0 /\ (seen => distance' = width))]_vars
    BY <1>1
  <1> QED
    BY <1>2, IInvHolds, PTL DEF Spec, MeasuresThePulse
=============================================================================
