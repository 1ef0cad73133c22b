---------------------------- MODULE LightServer ----------------------------
(***************************************************************************)
(* rpi/server.py and the TCP connection it serves: the gestures' messages  *)
(* arrive as bytes, recv returns all the bytes that have arrived, and the  *)
(* script acts on the first two of them: the LED, then the buzzer or the   *)
(* blinking, during whose sleeps it does not receive.                      *)
(***************************************************************************)
EXTENDS Integers, Sequences

CONSTANTS BuzzTime,    \* sleep(1), in units of one sleep(0.1)
          Blinks       \* range(10)

ASSUME ServerAssumption == BuzzTime \in Nat \ {0} /\ Blinks \in Nat \ {0}

VARIABLES inflight,  \* messages on their way, in order
          rcvbuf,    \* bytes that have arrived and were not received
          open,      \* the board is on, and with it its end of the connection
          serving,   \* "recv", "buzz", "blink" or "ended"
          left,      \* what is left of the current sleep
          blinks,    \* blinks still to come
          led, buzz, \* the two outputs
          meant,     \* history: the LED as the messages sent, acted upon
                     \*   one by one, would leave it
          merged     \* history: some recv returned several messages

link == <<inflight, rcvbuf, open>>
outputs == <<led, buzz>>
svars == <<link, serving, left, blinks, outputs, meant, merged>>

HIGH == TRUE
LOW == FALSE

Bytes(m) ==
  CASE m = "1" -> <<"1">> [] m = "0" -> <<"0">> [] m = "20" -> <<"2", "0">> [] m = "21" -> <<"2", "1">>

Encodings == {<<"1">>, <<"0">>, <<"2", "0">>, <<"2", "1">>}

(* What a message alone makes of the LED: blinking leaves it off. *)
LedAfter(m, before) ==
  CASE m = "1" -> HIGH [] m \in {"0", "20"} -> LOW [] m = "21" -> before

ServerInit ==
  /\ inflight = <<>> /\ rcvbuf = <<>> /\ open = TRUE
  /\ serving = "recv" /\ left = 0 /\ blinks = 0
  /\ led = LOW /\ buzz = LOW
  /\ meant = LOW /\ merged = FALSE

(* The board's _socket.send, whose result is ignored: nobody gets the      *)
(* message if the script has ended.                                        *)
Transmit(m) ==
  /\ open
  /\ inflight' = IF serving = "ended" THEN inflight ELSE Append(inflight, m)
  /\ meant' = LedAfter(m, meant)
  /\ UNCHANGED <<rcvbuf, open, serving, left, blinks, outputs, merged>>

Deliver ==
  /\ inflight # <<>>
  /\ rcvbuf' = rcvbuf \o Bytes(Head(inflight))
  /\ inflight' = Tail(inflight)
  /\ UNCHANGED <<open, serving, left, blinks, outputs, meant, merged>>

(* The board is switched off: its program never closes the socket.         *)
PeerCloses ==
  /\ open
  /\ open' = FALSE
  /\ UNCHANGED <<inflight, rcvbuf, serving, left, blinks, outputs, meant, merged>>

(* Mutant of Switched: whatever is not "1" switches off. *)
SwitchedOff(byte) == IF byte = "1" THEN HIGH ELSE LOW

(* What the first byte makes of the LED. *)
Switched(byte) == IF byte = "1" THEN HIGH ELSE IF byte = "0" THEN LOW ELSE led

(* The first byte switches the LED; the second starts the buzzer or the    *)
(* blinking.  The bytes after them are dropped.                            *)
Receive ==
  /\ serving = "recv"
  /\ rcvbuf # <<>>
  /\ rcvbuf' = <<>>
  /\ LET second == IF Len(rcvbuf) > 1 THEN rcvbuf[2] ELSE "none"
         first == Switched(rcvbuf[1])
     IN  \/ /\ second = "1"
            /\ serving' = "buzz" /\ left' = BuzzTime
            /\ buzz' = HIGH /\ led' = first
            /\ UNCHANGED blinks
         \/ /\ second = "0"
            /\ serving' = "blink" /\ left' = 1 /\ blinks' = Blinks
            /\ led' = HIGH
            /\ UNCHANGED buzz
         \/ /\ second \notin {"0", "1"}
            /\ led' = first
            /\ UNCHANGED <<serving, left, blinks, buzz>>
  /\ merged' = (merged \/ rcvbuf \notin Encodings)
  /\ UNCHANGED <<inflight, open, meant>>

(* recv returns no bytes: the script ends and leaves the outputs alone.    *)
EndOfStream ==
  /\ serving = "recv"
  /\ ~open /\ inflight = <<>> /\ rcvbuf = <<>>
  /\ serving' = "ended"
  /\ UNCHANGED <<link, left, blinks, outputs, meant, merged>>

Sleep ==
  /\ left > 0
  /\ left' = left - 1
  /\ UNCHANGED <<link, serving, blinks, outputs, meant, merged>>

BuzzEnds ==
  /\ serving = "buzz" /\ left = 0
  /\ buzz' = LOW
  /\ serving' = "recv"
  /\ UNCHANGED <<link, left, blinks, led, meant, merged>>

(* The loop's body: HIGH, sleep, LOW, sleep. *)
BlinkLow ==
  /\ serving = "blink" /\ left = 0 /\ led = HIGH
  /\ led' = LOW
  /\ left' = 1
  /\ UNCHANGED <<link, serving, blinks, buzz, meant, merged>>

BlinkNext ==
  /\ serving = "blink" /\ left = 0 /\ led = LOW
  /\ blinks' = blinks - 1
  /\ IF blinks' > 0
     THEN led' = HIGH /\ left' = 1 /\ UNCHANGED serving
     ELSE serving' = "recv" /\ UNCHANGED <<led, left>>
  /\ UNCHANGED <<link, buzz, meant, merged>>

(* Mutant of KeyboardInterrupt: the buzzer is left alone. *)
InterruptLedOnly ==
  /\ serving # "ended"
  /\ serving' = "ended"
  /\ led' = LOW
  /\ left' = 0 /\ blinks' = 0
  /\ inflight' = <<>> /\ rcvbuf' = <<>>
  /\ UNCHANGED <<open, buzz, meant, merged>>

(* Ctrl-C, which ends a sleep too, and closes the connection. *)
KeyboardInterrupt ==
  /\ serving # "ended"
  /\ serving' = "ended"
  /\ led' = LOW /\ buzz' = LOW
  /\ left' = 0 /\ blinks' = 0
  /\ inflight' = <<>> /\ rcvbuf' = <<>>
  /\ UNCHANGED <<open, meant, merged>>

(* The script's steps that take no time. *)
Serve == Receive \/ EndOfStream \/ BuzzEnds \/ BlinkLow \/ BlinkNext

----------------------------------------------------------------------------

(* The light is as the gestures meant it whenever nothing is under way, as *)
(* long as no two messages were received as one: the two-byte messages     *)
(* leave it off, or as it was.                                             *)
LightIsAsMeant ==
  inflight = <<>> /\ rcvbuf = <<>> /\ serving = "recv" /\ ~merged => led = meant

(* No end of the script leaves the buzzer sounding, whichever way and      *)
(* whenever it ends, and it sounds only in its second.  One that ends      *)
(* although the board is on, as Ctrl-C makes it in the middle of a blink,  *)
(* leaves the light off, too.                                              *)
OutputsStop ==
  /\ buzz = HIGH => serving = "buzz"
  /\ serving = "ended" /\ open => led = LOW

(* recv returns one message at a time (README: "RPi controls the device    *)
(* based on the received message").                                        *)
OneMessageAtATime == ~merged
=============================================================================
