-------------------------------- MODULE Home --------------------------------
(***************************************************************************)
(* The board and the Raspberry Pi together, in a common unit of time: the  *)
(* recognizer, whose detections may be any, sends its messages to the      *)
(* script, which sleeps while it buzzes or blinks.  All but the sleeps is  *)
(* fast against one unit.                                                  *)
(***************************************************************************)
EXTENDS Recognizer, LightServer

CONSTANT MaxBacklog   \* bytes that pile up at most, a claim to be checked

VARIABLE measured     \* the sensors that measured in this period

homevars == <<vars, svars, measured>>

HomeInit == Init /\ ServerInit /\ measured = {}

Measure(s) ==
  /\ open
  /\ s \notin measured
  /\ measured' = measured \union {s}
  /\ Update(s)
  /\ UNCHANGED svars

(* An iteration of main's loop; sendMessage hands the message to TCP.      *)
Board ==
  /\ open
  /\ \E peak \in 0 .. 2 : Iterate(peak)
  /\ IF sent' = NoMessage THEN UNCHANGED svars ELSE Transmit(sent')
  /\ UNCHANGED measured

Pi == (Deliver \/ Serve) /\ UNCHANGED <<vars, measured>>

(* The Raspberry Pi has something to do before time passes. *)
PiIsDue ==
  \/ inflight # <<>>
  \/ serving = "recv" /\ (rcvbuf # <<>> \/ ~open)
  \/ serving \in {"buzz", "blink"} /\ left = 0

(* A period passes, for the clock, the sensors and the script's sleep.     *)
Period ==
  /\ open => measured = Sensors /\ done = {}
  /\ ~PiIsDue
  /\ Pass(1)
  /\ measured' = {}
  /\ IF left > 0 THEN Sleep ELSE UNCHANGED svars

(* What may happen at any moment. *)
Disturbance == (KeyboardInterrupt \/ PeerCloses) /\ UNCHANGED <<vars, measured>>

Working == Board \/ Pi \/ Period \/ \E s \in Sensors : Measure(s)

HomeNext == Working \/ Disturbance

(* The order of what both programs do within a period is any.              *)
HomeSpec == HomeInit /\ [][HomeNext]_homevars

----------------------------------------------------------------------------

(* However the hand moves, the pauses of the recognizer keep the bytes     *)
(* that wait for the script to a few, far below the 1024 of its recv.      *)
BacklogIsSmall == Len(rcvbuf) <= MaxBacklog
=============================================================================
