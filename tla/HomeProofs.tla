----------------------------- MODULE HomeProofs -----------------------------
(***************************************************************************)
(* Proofs about the board and the Raspberry Pi together, for every         *)
(* duration of the buzz, number of blinks, time-out and resting time: the  *)
(* outputs are as the gestures meant them, and few bytes wait.             *)
(***************************************************************************)
EXTENDS Home, RecognizerProofs, SequenceTheorems

(* A message has been in flight only since this period's iteration of the  *)
(* board's loop, which is the last before time passes.                     *)
Turns ==
  /\ measured \subseteq Sensors
  /\ open => done \subseteq measured
  /\ inflight \in {<<>>} \union {<<m>> : m \in Messages}
  /\ open /\ inflight # <<>> => measured = Sensors /\ done = {}

(* Bytes come whole messages at a time, and nothing comes to a script that *)
(* has ended.                                                              *)
Stream ==
  /\ rcvbuf \in Seq({"0", "1", "2"})
  /\ Len(rcvbuf) = 1 => rcvbuf[1] # "2"
  /\ serving = "ended" => rcvbuf = <<>> /\ inflight = <<>>

(* The script's sleeps. *)
Naps ==
  /\ open \in BOOLEAN /\ led \in BOOLEAN /\ left \in Nat /\ blinks \in Nat
  /\ \/ serving \in {"recv", "ended"} /\ left = 0
     \/ serving = "buzz" /\ left <= BuzzTime
     \/ serving = "blink" /\ left <= 1 /\ 1 <= blinks /\ blinks <= Blinks

Served == TypeOK /\ Turns /\ Stream /\ Naps /\ OutputsStop

(* The light once the script is back at recv, *)
Resting == IF serving = "blink" THEN LOW ELSE led

(* once it has received the bytes that have arrived, if they are of one    *)
(* message,                                                                *)
AfterBytes(before) ==
  IF rcvbuf = <<"1">> THEN HIGH
  ELSE IF rcvbuf \in {<<"0">>, <<"2", "0">>} THEN LOW ELSE before

(* and once it has acted upon the message in flight.                       *)
AfterFlight(before) ==
  IF inflight = <<>> THEN before ELSE LedAfter(inflight[1], before)

Separate == rcvbuf = <<>> \/ rcvbuf \in Encodings

LightInv ==
  ~merged /\ serving # "ended" /\ Separate => meant = AfterFlight(AfterBytes(Resting))

(* The longest sleep of the script. *)
Nap == IF BuzzTime > 2 * Blinks THEN BuzzTime ELSE 2 * Blinks

(* How much of a sleep is over. *)
Slept ==
  CASE serving = "buzz" -> BuzzTime - left
    [] serving = "blink" -> 2 * (Blinks - blinks) + (IF led = HIGH THEN 1 ELSE 2) - left
    [] OTHER -> Nap

(* An iteration of the board's loop is still to come in this period. *)
Due == IF measured = Sensors /\ done = {} THEN 0 ELSE 1

(* The periods that pass, at least, before the next message is sent.       *)
Lull ==
  CASE state = 0 -> 3 - Due
    [] state \in {1, 2} -> 2 - Due
    [] state = 3 -> IF elapsed > ResetTime THEN 4 - Due
                    ELSE IF ResetTime - elapsed > 2 THEN 6
                    ELSE ResetTime + 4 - elapsed
    [] OTHER -> 1 - Due

Coming == IF inflight = <<>> THEN 0 ELSE Len(Bytes(inflight[1]))

(* Every byte on its way or waiting has taken three periods, of this sleep *)
(* or of the lull that its message leaves behind.                          *)
Paced ==
  /\ 3 * (Len(rcvbuf) + Coming) <= Slept + Lull
  /\ 3 * Coming <= Lull

----------------------------------------------------------------------------
(* At home the recognizer is as Recognizer has it. *)

(* Every step at home is one of the recognizer's or leaves it alone.       *)
LEMMA HomeStep == [HomeNext]_homevars => [Next]_vars
  <1> SUFFICES ASSUME [HomeNext]_homevars PROVE [Next]_vars
    OBVIOUS
  <1>1. ASSUME NEW s \in Sensors, Measure(s) PROVE Next
    BY <1>1 DEF Measure, Next
  <1>2. CASE Board
    BY <1>2 DEF Board, Next
  <1>3. CASE Pi
    BY <1>3 DEF Pi
  <1>4. CASE Period
    BY <1>4 DEF Period, Next
  <1>5. CASE Disturbance
    BY <1>5 DEF Disturbance
  <1>6. CASE UNCHANGED homevars
    BY <1>6 DEF homevars
  <1> QED
    BY <1>1, <1>2, <1>3, <1>4, <1>5, <1>6 DEF HomeNext, Working

(* The board at home behaves as a recognizer whose time passes in periods, *)
(* so that what holds of every recognizer holds at home.                   *)
THEOREM HomeIsRecognizer == HomeSpec => Spec
  <1>1. HomeInit => Init
    BY DEF HomeInit
  <1> QED
    BY <1>1, HomeStep, PTL DEF HomeSpec, Spec

----------------------------------------------------------------------------
(* The turns of the two programs. *)

(* What a message is as bytes. *)
LEMMA Encoded ==
  ASSUME NEW m \in Messages
  PROVE  /\ Bytes(m) \in Seq({"0", "1", "2"})
         /\ Len(Bytes(m)) \in {1, 2}
         /\ m = "1" => Bytes(m) = <<"1">>
         /\ m = "0" => Bytes(m) = <<"0">>
         /\ m = "20" => Bytes(m) = <<"2", "0">>
         /\ m = "21" => Bytes(m) = <<"2", "1">>
  <1>1. CASE m = "1"
    BY <1>1, SMT DEF Bytes
  <1>2. CASE m = "0"
    BY <1>2, SMT DEF Bytes
  <1>3. CASE m = "20"
    BY <1>3, SMT DEF Bytes
  <1>4. CASE m = "21"
    BY <1>4, SMT DEF Bytes
  <1> QED
    BY <1>1, <1>2, <1>3, <1>4 DEF Messages

(* The message in flight, if there is one, is all there is. *)
LEMMA OneInFlight ==
  ASSUME Turns, inflight # <<>>
  PROVE  /\ inflight[1] \in Messages
         /\ inflight = <<inflight[1]>>
         /\ Head(inflight) = inflight[1]
         /\ Tail(inflight) = <<>>
  <1>1. PICK m \in Messages : inflight = <<m>>
    BY Zenon DEF Turns
  <1> QED
    BY <1>1, SMT

LEMMA ServedInit == HomeInit => Served
  <1> SUFFICES ASSUME HomeInit PROVE Served
    OBVIOUS
  <1>1. TypeOK
    BY TypeInit DEF HomeInit
  <1>2. Turns
    BY DEF HomeInit, Init, ServerInit, Turns
  <1>3. Stream
    BY EmptySeq, SMT DEF HomeInit, ServerInit, Stream
  <1>4. Naps
    BY DEF HomeInit, ServerInit, Naps, LOW
  <1>5. OutputsStop
    BY DEF HomeInit, ServerInit, OutputsStop, HIGH, LOW
  <1> QED
    BY <1>1, <1>2, <1>3, <1>4, <1>5 DEF Served

(* The board's iteration sends a message of the four, or none, at the end  *)
(* of its turn.                                                            *)
LEMMA BoardStep ==
  ASSUME Served, Board
  PROVE  /\ done = Sensors /\ done' = {} /\ measured = Sensors /\ measured' = measured
         /\ open /\ inflight = <<>>
         /\ IF sent' = NoMessage THEN UNCHANGED svars
            ELSE /\ sent' \in Messages
                 /\ Transmit(sent')
                 /\ inflight' = IF serving = "ended" THEN <<>> ELSE <<sent'>>
  <1>1. done = Sensors /\ done' = {}
    BY DEF Board, Iterate, LeaveFinal, GoIdle, Appear, Cross, Return, Ignore, BothUpdated
  <1>2. measured = Sensors /\ measured' = measured /\ open
    BY <1>1 DEF Board, Served, Turns
  <1>3. inflight = <<>>
    BY <1>1, <1>2, SMT DEF Served, Turns, Sensors
  <1>4. TypeOK'
    BY TypeStep DEF Served, Board, Next
  <1>5. sent' # NoMessage => sent' \in Messages
    BY <1>4 DEF TypeOK
  <1>6. sent' # NoMessage => Transmit(sent')
    BY DEF Board
  <1>7. sent' # NoMessage => inflight' = IF serving = "ended" THEN <<>> ELSE <<sent'>>
    BY <1>3, <1>6, SMT DEF Transmit
  <1> QED
    BY <1>1, <1>2, <1>3, <1>5, <1>6, <1>7 DEF Board

LEMMA TurnsStep == Served /\ [HomeNext]_homevars => Turns'
  <1> SUFFICES ASSUME Served, [HomeNext]_homevars PROVE Turns'
    OBVIOUS
  <1>old. Turns
    BY DEF Served
  <1>1. ASSUME NEW s \in Sensors, Measure(s) PROVE Turns'
    BY <1>1, <1>old, SMT DEF Measure, Update, svars, link, Turns
  <1>2. CASE Board
    <2>1. CASE sent' = NoMessage
      BY <1>2, <1>old, <2>1, BoardStep, SMT DEF svars, link, Turns
    <2>2. CASE sent' # NoMessage
      <3>1. inflight' \in {<<>>} \union {<<m>> : m \in Messages}
        BY <1>2, <2>2, BoardStep, Zenon
      <3>2. measured' = Sensors /\ done' = {}
        BY <1>2, BoardStep
      <3> QED
        BY <3>1, <3>2, SMT DEF Turns
    <2> QED
      BY <2>1, <2>2
  <1>3. CASE Pi
    <2>1. UNCHANGED <<measured, done, open>>
      BY <1>3 DEF Pi, vars, Deliver, Serve, Receive, EndOfStream, BuzzEnds, BlinkLow, BlinkNext, link
    <2>2. inflight' = <<>> \/ inflight' = inflight
      <3>1. CASE Deliver
        BY <3>1, <1>old, OneInFlight DEF Deliver
      <3>2. CASE Serve
        BY <3>2 DEF Serve, Receive, EndOfStream, BuzzEnds, BlinkLow, BlinkNext, link
      <3> QED
        BY <1>3, <3>1, <3>2 DEF Pi
    <2> QED
      BY <1>old, <2>1, <2>2, SMT DEF Turns
  <1>4. CASE Period
    <2>1. inflight = <<>> /\ inflight' = inflight /\ open' = open /\ done' = done
      BY <1>4 DEF Period, PiIsDue, Pass, Sleep, svars, link
    <2>2. open => done = {}
      BY <1>4 DEF Period
    <2>3. measured' = {}
      BY <1>4 DEF Period
    <2> QED
      BY <2>1, <2>2, <2>3, SMT DEF Turns
  <1>5. CASE Disturbance
    <2>1. measured' = measured /\ done' = done /\ (open' => open)
      BY <1>5 DEF Disturbance, KeyboardInterrupt, PeerCloses, vars
    <2>2. inflight' = <<>> \/ inflight' = inflight
      BY <1>5 DEF Disturbance, KeyboardInterrupt, PeerCloses
    <2> QED
      BY <1>old, <2>1, <2>2, SMT DEF Turns
  <1>6. CASE UNCHANGED homevars
    BY <1>6, <1>old DEF homevars, vars, svars, link, Turns
  <1> QED
    BY <1>1, <1>2, <1>3, <1>4, <1>5, <1>6 DEF HomeNext, Working

(* What a delivery makes of the bytes that wait. *)
LEMMA Delivered ==
  ASSUME Served, Deliver
  PROVE  /\ inflight[1] \in Messages
         /\ rcvbuf' = rcvbuf \o Bytes(inflight[1])
         /\ rcvbuf' \in Seq({"0", "1", "2"})
         /\ Len(rcvbuf') = Len(rcvbuf) + Len(Bytes(inflight[1]))
         /\ rcvbuf = <<>> => rcvbuf' = Bytes(inflight[1])
         /\ rcvbuf # <<>> => Len(rcvbuf') >= 2 /\ rcvbuf'[1] = rcvbuf[1]
         /\ inflight' = <<>>
  <1> DEFINE D == {"0", "1", "2"}
             b == Bytes(inflight[1])
  <1>1. inflight[1] \in Messages /\ Head(inflight) = inflight[1] /\ Tail(inflight) = <<>>
    BY OneInFlight DEF Served, Deliver
  <1>2. b \in Seq(D) /\ Len(b) \in {1, 2}
    BY <1>1, Encoded
  <1>3. rcvbuf \in Seq(D)
    BY DEF Served, Stream
  <1>4. rcvbuf' = rcvbuf \o b /\ inflight' = <<>>
    BY <1>1 DEF Deliver
  <1> HIDE DEF D, b
  <1>5. rcvbuf' \in Seq(D) /\ Len(rcvbuf') = Len(rcvbuf) + Len(b)
    BY <1>2, <1>3, <1>4, ConcatProperties
  <1>6. rcvbuf = <<>> => rcvbuf' = b
    BY <1>2, <1>4, ConcatEmptySeq
  <1>7. ASSUME rcvbuf # <<>> PROVE Len(rcvbuf') >= 2 /\ rcvbuf'[1] = rcvbuf[1]
    <2>1. Len(rcvbuf) \in Nat /\ Len(rcvbuf) >= 1
      BY <1>3, <1>7, EmptySeq, LenProperties, SMT
    <2>2. 1 \in 1 .. Len(rcvbuf) + Len(b)
      BY <1>2, <2>1, SMT
    <2>3. rcvbuf'[1] = rcvbuf[1]
      BY <1>2, <1>3, <1>4, <2>1, <2>2, ConcatProperties, SMT
    <2> QED
      BY <1>2, <1>5, <2>1, <2>3, SMT
  <1> QED
    BY <1>1, <1>4, <1>5, <1>6, <1>7 DEF D, b

LEMMA StreamStep == Served /\ [HomeNext]_homevars => Stream'
  <1> SUFFICES ASSUME Served, [HomeNext]_homevars PROVE Stream'
    OBVIOUS
  <1>old. Stream
    BY DEF Served
  <1>empty. <<>> \in Seq({"0", "1", "2"}) /\ Len(<<>>) = 0
    BY EmptySeq
  <1>1. ASSUME NEW s \in Sensors, Measure(s) PROVE Stream'
    BY <1>1, <1>old DEF Measure, svars, link, Stream
  <1>2. CASE Board
    <2>1. CASE sent' = NoMessage
      BY <1>2, <1>old, <2>1, BoardStep DEF svars, link, Stream
    <2>2. CASE sent' # NoMessage
      BY <1>2, <1>old, <2>2, BoardStep DEF Transmit, Stream
    <2> QED
      BY <2>1, <2>2
  <1>3. CASE Pi
    <2>1. CASE Deliver
      <3>1. serving' = serving /\ serving # "ended"
        BY <2>1, <1>old DEF Deliver, Stream
      <3>2. rcvbuf' \in Seq({"0", "1", "2"})
        BY <2>1, Delivered
      <3>3. ASSUME Len(rcvbuf') = 1 PROVE rcvbuf'[1] # "2"
        <4>1. rcvbuf' = Bytes(inflight[1]) /\ inflight[1] \in Messages
          BY <2>1, <3>3, Delivered, SMT
        <4>2. Bytes(inflight[1]) \in {<<"1">>, <<"0">>}
          BY <3>3, <4>1, Encoded, SMT DEF Messages
        <4> QED
          BY <4>1, <4>2, SMT
      <3> QED
        BY <3>1, <3>2, <3>3 DEF Stream
    <2>2. CASE Receive
      <3>1. rcvbuf' = <<>>
        BY <2>2 DEF Receive
      <3>2. serving' # "ended"
        BY <2>2 DEF Receive
      <3> QED
        BY <3>1, <3>2, <1>empty, SMT DEF Stream
    <2>3. CASE EndOfStream
      BY <2>3, <1>old DEF EndOfStream, link, Stream
    <2>4. CASE BuzzEnds \/ BlinkLow \/ BlinkNext
      BY <2>4, <1>old DEF BuzzEnds, BlinkLow, BlinkNext, link, Stream
    <2> QED
      BY <1>3, <2>1, <2>2, <2>3, <2>4 DEF Pi, Serve
  <1>4. CASE Period
    BY <1>4, <1>old DEF Period, Sleep, svars, link, Stream
  <1>5. CASE Disturbance
    <2>1. CASE KeyboardInterrupt
      BY <2>1, <1>empty, SMT DEF KeyboardInterrupt, Stream
    <2>2. CASE PeerCloses
      BY <2>2, <1>old DEF PeerCloses, Stream
    <2> QED
      BY <1>5, <2>1, <2>2 DEF Disturbance
  <1>6. CASE UNCHANGED homevars
    BY <1>6, <1>old DEF homevars, svars, link, Stream
  <1> QED
    BY <1>1, <1>2, <1>3, <1>4, <1>5, <1>6 DEF HomeNext, Working

LEMMA NapsStep == Served /\ [HomeNext]_homevars => Naps' /\ OutputsStop'
  <1> SUFFICES ASSUME Served, [HomeNext]_homevars PROVE Naps' /\ OutputsStop'
    OBVIOUS
  <1>old. Naps /\ OutputsStop
    BY DEF Served
  <1> USE ServerAssumption DEF HIGH, LOW
  <1>same. ASSUME UNCHANGED <<open, led, left, blinks, serving, buzz>>
           PROVE  Naps' /\ OutputsStop'
    BY <1>same, <1>old DEF Naps, OutputsStop
  <1>1. ASSUME NEW s \in Sensors, Measure(s) PROVE Naps' /\ OutputsStop'
    BY <1>1, <1>same DEF Measure, svars, link, outputs
  <1>2. CASE Board
    BY <1>2, <1>same, BoardStep DEF Transmit, svars, link, outputs
  <1>3. CASE Pi
    <2>1. CASE Deliver
      BY <2>1, <1>same DEF Deliver, outputs
    <2>2. CASE Receive
      <3>1. Switched(rcvbuf[1]) \in BOOLEAN
        BY <1>old, Zenon DEF Switched, Naps
      <3>2. serving = "recv" /\ left = 0 /\ open' = open /\ buzz # TRUE /\ led' \in BOOLEAN
        <4>1. led' = Switched(rcvbuf[1]) \/ led' = TRUE
          BY <2>2 DEF Receive
        <4>2. led' \in BOOLEAN
          BY <3>1, <4>1, Zenon
        <4>3. serving = "recv" /\ open' = open
          BY <2>2 DEF Receive
        <4>4. left = 0
          BY <4>3, <1>old, SMT DEF Naps
        <4>5. buzz # TRUE
          BY <4>3, <1>old, Zenon DEF OutputsStop
        <4> QED
          BY <4>2, <4>3, <4>4, <4>5
      <3>3. \/ serving' = "buzz" /\ left' = BuzzTime /\ blinks' = blinks
            \/ serving' = "blink" /\ left' = 1 /\ blinks' = Blinks /\ buzz' = buzz
            \/ UNCHANGED <<serving, left, blinks, buzz>>
        BY <2>2, Zenon DEF Receive
      <3> QED
        BY <3>2, <3>3, <1>old, SMT DEF Naps, OutputsStop
    <2>3. CASE EndOfStream
      BY <2>3, <1>old, SMT DEF EndOfStream, link, outputs, Naps, OutputsStop
    <2>4. CASE BuzzEnds
      BY <2>4, <1>old, SMT DEF BuzzEnds, link, Naps, OutputsStop
    <2>5. CASE BlinkLow
      <3>1. led' \in BOOLEAN
        BY <2>5, Zenon DEF BlinkLow
      <3> QED
        BY <2>5, <3>1, <1>old, SMT DEF BlinkLow, link, Naps, OutputsStop
    <2>6. CASE BlinkNext
      <3>1. led' \in BOOLEAN
        BY <2>6, <1>old, Zenon DEF BlinkNext, Naps
      <3>2. /\ open' = open /\ buzz' = buzz /\ blinks' = blinks - 1
            /\ \/ blinks' > 0 /\ left' = 1 /\ serving' = "blink"
               \/ left' = 0 /\ serving' = "recv"
        BY <2>6, Zenon DEF BlinkNext, link
      <3>3. serving = "blink"
        BY <2>6 DEF BlinkNext
      <3> QED
        BY <3>1, <3>2, <3>3, <1>old, SMT DEF Naps, OutputsStop
    <2> QED
      BY <1>3, <2>1, <2>2, <2>3, <2>4, <2>5, <2>6 DEF Pi, Serve
  <1>4. CASE Period
    <2>1. CASE left > 0
      BY <1>4, <2>1, <1>old, SMT DEF Period, Sleep, link, outputs, Naps, OutputsStop
    <2>2. CASE ~(left > 0)
      BY <1>4, <2>2, <1>same DEF Period, svars, link, outputs
    <2> QED
      BY <2>1, <2>2
  <1>5. CASE Disturbance
    <2>1. CASE KeyboardInterrupt
      <3>1. led' \in BOOLEAN
        BY <2>1, Zenon DEF KeyboardInterrupt
      <3> QED
        BY <2>1, <3>1, <1>old, SMT DEF KeyboardInterrupt, Naps, OutputsStop
    <2>2. CASE PeerCloses
      <3>1. open' \in BOOLEAN
        BY <2>2, Zenon DEF PeerCloses
      <3> QED
        BY <2>2, <3>1, <1>old DEF PeerCloses, outputs, Naps, OutputsStop
    <2> QED
      BY <1>5, <2>1, <2>2 DEF Disturbance
  <1>6. CASE UNCHANGED homevars
    BY <1>6, <1>same DEF homevars, svars, link, outputs
  <1> QED
    BY <1>1, <1>2, <1>3, <1>4, <1>5, <1>6 DEF HomeNext, Working

LEMMA ServedStep == Served /\ [HomeNext]_homevars => Served'
  BY HomeStep, TypeStep, TurnsStep, StreamStep, NapsStep DEF Served

(* What holds of both programs at every moment, on which the rest stands:  *)
(* at most one message is in flight, and only until its period ends.       *)
THEOREM HomeInvariant == HomeSpec => []Served
  BY ServedInit, ServedStep, PTL DEF HomeSpec

(* No end of the script leaves the buzzer sounding, and it sounds only in  *)
(* its sleep (server.py:48-60), whatever the board sends.                  *)
THEOREM Silenced == HomeSpec => []OutputsStop
  <1>1. Served => OutputsStop
    BY DEF Served
  <1> QED
    BY <1>1, HomeInvariant, PTL

----------------------------------------------------------------------------
(* The light. *)

(* The bytes of one message do what the message means, and they are the    *)
(* only ones that look like one.                                           *)
LEMMA OneMessage ==
  ASSUME NEW m \in Messages, NEW before
  PROVE  LedAfter(m, before) =
           IF Bytes(m) = <<"1">> THEN HIGH
           ELSE IF Bytes(m) \in {<<"0">>, <<"2", "0">>} THEN LOW ELSE before
  <1> USE Encoded DEF LedAfter
  <1>distinct. /\ <<"0">> # <<"1">> /\ <<"2", "0">> # <<"1">> /\ <<"2", "1">> # <<"1">>
               /\ <<"2", "1">> \notin {<<"0">>, <<"2", "0">>}
    BY SMT
  <1>1. CASE m = "1"
    <2>1. LedAfter(m, before) = HIGH
      BY <1>1, SMT
    <2> QED
      BY <1>1, <2>1
  <1>2. CASE m = "0"
    <2>1. LedAfter(m, before) = LOW
      BY <1>2, SMT
    <2> QED
      BY <1>2, <2>1, <1>distinct
  <1>3. CASE m = "20"
    <2>1. LedAfter(m, before) = LOW
      BY <1>3, SMT
    <2> QED
      BY <1>3, <2>1, <1>distinct
  <1>4. CASE m = "21"
    <2>1. LedAfter(m, before) = before
      BY <1>4, SMT
    <2> QED
      BY <1>4, <2>1, <1>distinct
  <1> QED
    BY <1>1, <1>2, <1>3, <1>4 DEF Messages

(* What waits is of several messages from the first delivery on top of     *)
(* another until the next recv.                                            *)
LEMMA NoLongerSeparate ==
  ASSUME Served, Deliver, rcvbuf # <<>>
  PROVE  ~Separate'
  <1>1. /\ Len(rcvbuf') = Len(rcvbuf) + Len(Bytes(inflight[1]))
        /\ Len(rcvbuf') >= 2 /\ rcvbuf'[1] = rcvbuf[1]
        /\ Len(Bytes(inflight[1])) \in {1, 2}
    BY Delivered, Encoded
  <1>2. rcvbuf \in Seq({"0", "1", "2"}) /\ Len(rcvbuf) \in Nat /\ Len(rcvbuf) >= 1
    BY EmptySeq, LenProperties, SMT DEF Served, Stream
  <1>3. ASSUME Separate' PROVE FALSE
    <2>1. rcvbuf' \in {<<"2", "0">>, <<"2", "1">>}
      BY <1>1, <1>3, SMT DEF Separate, Encodings
    <2>2. Len(rcvbuf') = 2 /\ rcvbuf'[1] = "2"
      BY <2>1, SMT
    <2>3. rcvbuf[1] = "2"
      BY <1>1, <2>2
    <2>4. PICK n \in {1, 2} : n = Len(Bytes(inflight[1]))
      BY <1>1
    <2>5. Len(rcvbuf) + n = 2
      BY <1>1, <2>2, <2>4
    <2>6. Len(rcvbuf) = 1
      BY <1>2, <2>4, <2>5, SMT
    <2> QED
      BY <2>3, <2>6 DEF Served, Stream
  <1> QED
    BY <1>3

(* What a recv of one message makes of the light: at once, or once the     *)
(* blinking that it starts is over.                                        *)
LEMMA ReceivedOne ==
  ASSUME Receive, rcvbuf \in Encodings
  PROVE  Resting' = AfterBytes(led)
  <1>0. serving = "recv"
    BY DEF Receive
  <1>1. CASE rcvbuf = <<"1">>
    <2>1. ~(Len(rcvbuf) > 1) /\ rcvbuf[1] = "1"
      BY <1>1, SMT
    <2>2. led' = HIGH /\ serving' = serving
      BY <2>1, Zenon DEF Receive, Switched
    <2>3. AfterBytes(led) = HIGH
      BY <1>1, Zenon DEF AfterBytes
    <2> QED
      BY <1>0, <2>2, <2>3, Zenon DEF Resting
  <1>2. CASE rcvbuf = <<"0">>
    <2>1. ~(Len(rcvbuf) > 1) /\ rcvbuf[1] = "0" /\ "0" # "1"
      BY <1>2, SMT
    <2>2. led' = LOW /\ serving' = serving
      BY <2>1, Zenon DEF Receive, Switched
    <2>3. rcvbuf # <<"1">>
      BY <1>2, SMT
    <2>4. AfterBytes(led) = LOW
      BY <1>2, <2>3, Zenon DEF AfterBytes
    <2> QED
      BY <1>0, <2>2, <2>4, Zenon DEF Resting
  <1>3. CASE rcvbuf = <<"2", "0">>
    <2>1. Len(rcvbuf) > 1 /\ rcvbuf[2] = "0" /\ "0" # "1"
      BY <1>3, SMT
    <2>2. serving' = "blink"
      BY <2>1, Zenon DEF Receive
    <2>3. rcvbuf # <<"1">>
      BY <1>3, SMT
    <2>4. AfterBytes(led) = LOW
      BY <1>3, <2>3, Zenon DEF AfterBytes
    <2> QED
      BY <2>2, <2>4, Zenon DEF Resting
  <1>4. CASE rcvbuf = <<"2", "1">>
    <2>1. /\ Len(rcvbuf) > 1 /\ rcvbuf[1] = "2" /\ rcvbuf[2] = "1"
          /\ "1" # "0" /\ "2" # "0" /\ "2" # "1" /\ "buzz" # "blink"
      BY <1>4, SMT
    <2>2. led' = led /\ serving' = "buzz"
      BY <2>1, Zenon DEF Receive, Switched
    <2>3. rcvbuf # <<"1">> /\ rcvbuf \notin {<<"0">>, <<"2", "0">>}
      BY <1>4, SMT
    <2>4. AfterBytes(led) = led
      BY <2>3, Zenon DEF AfterBytes
    <2> QED
      BY <2>1, <2>2, <2>4, Zenon DEF Resting
  <1> QED
    BY <1>1, <1>2, <1>3, <1>4 DEF Encodings

LEMMA LightStep == Served /\ LightInv /\ [HomeNext]_homevars => LightInv'
  <1> SUFFICES ASSUME Served, LightInv, [HomeNext]_homevars,
                      ~merged', serving' # "ended", Separate'
               PROVE  meant' = AfterFlight(AfterBytes(Resting))'
    BY DEF LightInv
  <1>keep. ASSUME UNCHANGED <<inflight, rcvbuf, meant, merged, Resting>>, serving # "ended"
           PROVE  meant' = AfterFlight(AfterBytes(Resting))'
    <2>1. meant = AfterFlight(AfterBytes(Resting))
      BY <1>keep DEF LightInv, Separate
    <2> QED
      BY <1>keep, <2>1, Zenon DEF AfterFlight, AfterBytes
  <1>same. ASSUME UNCHANGED svars PROVE meant' = AfterFlight(AfterBytes(Resting))'
    BY <1>same, <1>keep, Zenon DEF svars, link, outputs, Resting
  <1>1. ASSUME NEW s \in Sensors, Measure(s) PROVE meant' = AfterFlight(AfterBytes(Resting))'
    BY <1>1, <1>same DEF Measure
  <1>2. CASE Board
    <2>1. CASE sent' = NoMessage
      BY <1>2, <2>1, <1>same, BoardStep
    <2>2. CASE sent' # NoMessage
      <3>1. /\ inflight = <<>> /\ Transmit(sent')
            /\ inflight' = IF serving = "ended" THEN <<>> ELSE <<sent'>>
        BY <1>2, <2>2, BoardStep, Zenon
      <3>2. /\ serving' = serving /\ led' = led /\ rcvbuf' = rcvbuf /\ merged' = merged
            /\ meant' = LedAfter(sent', meant)
        BY <3>1 DEF Transmit, outputs
      <3>3. meant = AfterBytes(Resting)
        BY <3>1, <3>2 DEF LightInv, Separate, AfterFlight
      <3>4. AfterBytes(Resting)' = AfterBytes(Resting)
        BY <3>2 DEF AfterBytes, Resting
      <3>5. inflight' # <<>> /\ inflight'[1] = sent'
        BY <3>1, <3>2, SMT
      <3>6. AfterFlight(AfterBytes(Resting))' = LedAfter(sent', AfterBytes(Resting)')
        BY <3>5, Zenon DEF AfterFlight
      <3> QED
        BY <3>2, <3>3, <3>4, <3>6
    <2> QED
      BY <2>1, <2>2
  <1>3. CASE Pi
    <2>1. CASE Deliver
      <3>1. rcvbuf = <<>>
        BY <2>1, NoLongerSeparate
      <3>2. inflight[1] \in Messages /\ rcvbuf' = Bytes(inflight[1]) /\ inflight' = <<>>
            /\ inflight # <<>>
        BY <2>1, <3>1, Delivered DEF Deliver
      <3>3. serving' = serving /\ led' = led /\ meant' = meant /\ merged' = merged
        BY <2>1 DEF Deliver, outputs
      <3>4. <<>> # <<"1">> /\ <<>> \notin {<<"0">>, <<"2", "0">>}
        BY SMT
      <3>5. AfterBytes(Resting) = Resting
        BY <3>1, <3>4, Zenon DEF AfterBytes
      <3>6. meant = LedAfter(inflight[1], Resting)
        BY <3>1, <3>2, <3>3, <3>5 DEF LightInv, Separate, AfterFlight
      <3>7. Resting' = Resting
        BY <3>3 DEF Resting
      <3>8. AfterFlight(AfterBytes(Resting))' = AfterBytes(Resting)'
        BY <3>2, Zenon DEF AfterFlight
      <3>9. AfterBytes(Resting)' = LedAfter(inflight[1], Resting)
        BY <3>2, <3>7, OneMessage, Zenon DEF AfterBytes
      <3> QED
        BY <3>3, <3>6, <3>8, <3>9
    <2>2. CASE Receive
      <3>1. /\ rcvbuf \in Encodings /\ ~merged /\ serving = "recv"
            /\ inflight' = inflight /\ meant' = meant /\ rcvbuf' = <<>>
        BY <2>2 DEF Receive
      <3>2. Resting = led
        BY <3>1 DEF Resting
      <3>3. meant = AfterFlight(AfterBytes(led))
        BY <3>1, <3>2 DEF LightInv, Separate
      <3>4. Resting' = AfterBytes(led)
        BY <2>2, <3>1, ReceivedOne
      <3>5. rcvbuf' # <<"1">> /\ rcvbuf' \notin {<<"0">>, <<"2", "0">>}
        BY <3>1, SMT
      <3>6. AfterBytes(Resting)' = Resting'
        BY <3>5, Zenon DEF AfterBytes
      <3> QED
        BY <3>1, <3>3, <3>4, <3>6, Zenon DEF AfterFlight
    <2>3. CASE EndOfStream
      BY <2>3 DEF EndOfStream
    <2>4. CASE BuzzEnds
      <3>1. Resting' = Resting
        BY <2>4, SMT DEF BuzzEnds, Resting
      <3> QED
        BY <2>4, <3>1, <1>keep DEF BuzzEnds, link
    <2>5. CASE BlinkLow
      <3>1. Resting' = Resting
        BY <2>5, Zenon DEF BlinkLow, Resting
      <3> QED
        BY <2>5, <3>1, <1>keep DEF BlinkLow, link
    <2>6. CASE BlinkNext
      <3>1. Resting' = LOW /\ Resting = LOW
        BY <2>6, Zenon DEF BlinkNext, Resting
      <3> QED
        BY <2>6, <3>1, <1>keep DEF BlinkNext, link
    <2> QED
      BY <1>3, <2>1, <2>2, <2>3, <2>4, <2>5, <2>6 DEF Pi, Serve
  <1>4. CASE Period
    <2>1. CASE left > 0
      <3>1. Resting' = Resting /\ serving' = serving
        BY <1>4, <2>1 DEF Period, Sleep, outputs, Resting
      <3> QED
        BY <1>4, <2>1, <3>1, <1>keep DEF Period, Sleep, link
    <2>2. CASE ~(left > 0)
      BY <1>4, <2>2, <1>same DEF Period
    <2> QED
      BY <2>1, <2>2
  <1>5. CASE Disturbance
    <2>1. CASE KeyboardInterrupt
      BY <2>1 DEF KeyboardInterrupt
    <2>2. CASE PeerCloses
      <3>1. Resting' = Resting /\ serving' = serving
        BY <2>2 DEF PeerCloses, outputs, Resting
      <3> QED
        BY <2>2, <3>1, <1>keep DEF PeerCloses
    <2> QED
      BY <1>5, <2>1, <2>2 DEF Disturbance
  <1>6. CASE UNCHANGED homevars
    BY <1>6, <1>same DEF homevars
  <1> QED
    BY <1>1, <1>2, <1>3, <1>4, <1>5, <1>6 DEF HomeNext, Working

(* Whenever nothing is under way the light is as the messages sent, acted  *)
(* upon one by one, would leave it, unless a recv returned more than one   *)
(* (server.py:28-54): for every interleaving of the board, the delivery    *)
(* and the script, and whatever the durations.                             *)
THEOREM LightFollows == HomeSpec => []LightIsAsMeant
  <1>1. HomeInit => LightInv
    <2>1. <<>> # <<"1">> /\ <<>> \notin {<<"0">>, <<"2", "0">>} /\ "recv" # "blink"
      BY SMT
    <2> QED
      BY <2>1, Zenon DEF HomeInit, ServerInit, LightInv, AfterFlight, AfterBytes, Resting
  <1>2. Served /\ LightInv => LightIsAsMeant
    <2> SUFFICES ASSUME Served, LightInv, inflight = <<>>, rcvbuf = <<>>, serving = "recv", ~merged
                 PROVE  led = meant
      BY DEF LightIsAsMeant
    <2>1. <<>> # <<"1">> /\ <<>> \notin {<<"0">>, <<"2", "0">>} /\ "recv" # "blink" /\ "recv" # "ended"
      BY SMT
    <2> QED
      BY <2>1, Zenon DEF LightInv, Separate, AfterFlight, AfterBytes, Resting
  <1> QED
    BY <1>1, <1>2, LightStep, HomeInvariant, PTL DEF HomeSpec

----------------------------------------------------------------------------
(* The backlog. *)

LEMMA LullBounds == TypeOK => Due \in {0, 1} /\ Lull \in 0 .. 6
  <1> SUFFICES ASSUME TypeOK PROVE Due \in {0, 1} /\ Lull \in 0 .. 6
    OBVIOUS
  <1>1. Due \in {0, 1}
    BY DEF Due
  <1>2. elapsed \in Int /\ ResetTime \in Nat
    BY StopwatchAssumption, RecognizerAssumption, SMT DEF TypeOK, Elapsed
  <1> HIDE DEF Due
  <1>3. Lull \in 0 .. 6
    <2>1. state \in {0, 1, 2, 12, 21, 3}
      BY DEF TypeOK, States
    <2> QED
      BY <1>1, <1>2, <2>1, SMT DEF Lull
  <1> QED
    BY <1>1, <1>3

(* A period shortens the lull by no more than itself. *)
LEMMA PeriodLull ==
  ASSUME Served, Period
  PROVE  Lull' >= Lull - 1
  <1>1. TypeOK /\ TypeOK'
    BY TypeStep DEF Served, Period, Next
  <1>2. Due \in {0, 1} /\ Due' \in {0, 1}
    BY DEF Due
  <1>3. state' = state /\ state \in {0, 1, 2, 12, 21, 3}
    BY <1>1 DEF Period, Pass, TypeOK, States
  <1>4. /\ elapsed \in Int /\ elapsed' \in Int /\ ResetTime \in Nat
        /\ elapsed' <= elapsed + 1
    BY <1>1, StopwatchAssumption, RecognizerAssumption, SMT
       DEF TypeOK, Elapsed, Period, Pass, Elapse, Capped
  <1> HIDE DEF Due
  <1>5. CASE state = 3
    BY <1>2, <1>3, <1>4, <1>5, SMT DEF Lull
  <1>6. CASE state # 3
    BY <1>2, <1>3, <1>6, SMT DEF Lull
  <1> QED
    BY <1>5, <1>6

(* An iteration takes the board nearer to its next message, or sends it:   *)
(* then there was no lull, and there is one now of three periods a byte.   *)
LEMMA BoardLull ==
  ASSUME Served, Board, SendTime = 0, ResetTime >= 2, ~overrun, ~overrun'
  PROVE  IF sent' = NoMessage THEN Lull' >= Lull
         ELSE /\ sent' \in Messages
              /\ Lull = 0
              /\ Lull' >= 3 * Len(Bytes(sent'))
  <1>1. Due = 1 /\ Due' = 0
    <2>1. done = Sensors /\ done' = {} /\ measured = Sensors /\ measured' = measured
      BY BoardStep
    <2> QED
      BY <2>1, SMT DEF Due, Sensors
  <1>2. TypeOK /\ TypeOK'
    BY TypeStep DEF Served, Board, Next
  <1>3. Lull \in 0 .. 6
    BY <1>2, LullBounds
  <1>4. elapsed \in Int /\ elapsed' \in Int /\ ResetTime \in Nat
    BY <1>2, StopwatchAssumption, RecognizerAssumption, SMT DEF TypeOK, Elapsed
  <1>bytes. Len(Bytes("1")) = 1 /\ Len(Bytes("0")) = 1 /\ Len(Bytes("20")) = 2 /\ Len(Bytes("21")) = 2
    BY SMT DEF Bytes
  <1> HIDE DEF Due
  <1>5. PICK peak \in 0 .. 2 : Iterate(peak)
    BY DEF Board
  <1>silent. ASSUME sent' = NoMessage, Lull' >= Lull
             PROVE  IF sent' = NoMessage THEN Lull' >= Lull
                    ELSE sent' \in Messages /\ Lull = 0 /\ Lull' >= 3 * Len(Bytes(sent'))
    BY <1>silent
  <1>6. CASE LeaveFinal
    <2>1. state = 3 /\ state' = 0 /\ elapsed > ResetTime /\ sent' = NoMessage
      BY <1>6 DEF LeaveFinal, Enter, StateChangesTo
    <2>2. Lull = 3 /\ Lull' = 3
      BY <1>1, <2>1, SMT DEF Lull
    <2> QED
      BY <2>1, <2>2, <1>silent, SMT
  <1>7. CASE GoIdle
    <2>1. Lull' = 3
      BY <1>1, <1>7, SMT DEF GoIdle, Lull
    <2>2. CASE state \in {12, 21}
      <3>1. Lull = 0
        BY <1>1, <2>2, SMT DEF Lull
      <3>2. sent' \in {"1", "0"}
        BY <1>7, <2>2, SMT DEF GoIdle
      <3>3. sent' # NoMessage /\ sent' \in Messages
        BY <3>2, SMT DEF NoMessage, Messages
      <3> QED
        BY <2>1, <3>1, <3>2, <3>3, <1>bytes, SMT
    <2>3. CASE state \notin {12, 21}
      <3>1. sent' = NoMessage
        BY <1>7, <2>3, SMT DEF GoIdle
      <3>2. Lull <= 3
        <4>1. state \in {0, 1, 2}
          BY <1>2, <1>7, <2>3, SMT DEF TypeOK, States, GoIdle
        <4> QED
          BY <1>1, <4>1, SMT DEF Lull
      <3> QED
        BY <2>1, <3>1, <3>2, <1>3, <1>silent, SMT
    <2> QED
      BY <2>2, <2>3
  <1>8. CASE Appear(peak)
    <2>1. state = 0 /\ state' \in {1, 2} /\ sent' = NoMessage
      BY <1>8, <1>5, SMT DEF Appear, Enter, StateChangesTo
    <2>2. Lull = 2 /\ Lull' = 2
      BY <1>1, <2>1, SMT DEF Lull
    <2> QED
      BY <2>1, <2>2, <1>silent, SMT
  <1>9. CASE Cross(peak)
    <2>1. state \in {1, 2} /\ state' \in {12, 21} /\ sent' = NoMessage
      BY <1>9, SMT DEF Cross, Enter, StateChangesTo
    <2>2. Lull = 1 /\ Lull' = 1
      BY <1>1, <2>1, SMT DEF Lull
    <2> QED
      BY <2>1, <2>2, <1>silent, SMT
  <1>10. ASSUME NEW d \in 0 .. SendTime, Return(peak, d)
         PROVE  IF sent' = NoMessage THEN Lull' >= Lull
                ELSE sent' \in Messages /\ Lull = 0 /\ Lull' >= 3 * Len(Bytes(sent'))
    <2>1. d = 0
      BY <1>10, SMT
    <2>2. state \in {12, 21} /\ state' = 3 /\ sent' \in {"20", "21"}
      BY <1>10, SMT DEF Return
    <2>3. elapsed' = 0
      BY <1>10, <2>1, StopwatchAssumption, SMT DEF Return, Stamp, Capped
    <2>4. Lull = 0
      BY <1>1, <2>2, SMT DEF Lull
    <2>5. Lull' = 6
      BY <1>4, <2>2, <2>3, SMT DEF Lull
    <2>6. sent' # NoMessage /\ sent' \in Messages
      BY <2>2, SMT DEF NoMessage, Messages
    <2>7. Len(Bytes(sent')) = 2
      BY <2>2, <1>bytes
    <2> QED
      BY <2>4, <2>5, <2>6, <2>7, SMT
  <1>11. CASE Ignore(peak)
    <2>1. state' = state /\ elapsed' = elapsed /\ sent' = NoMessage
      BY <1>11 DEF Ignore, Stay, clock
    <2>2. state \in {0, 1, 2, 12, 21, 3}
      BY <1>2 DEF TypeOK, States
    <2>3. Lull' >= Lull
      BY <1>1, <1>4, <2>1, <2>2, SMT DEF Lull
    <2> QED
      BY <2>1, <2>3, <1>silent
  <1> QED
    BY <1>5, <1>6, <1>7, <1>8, <1>9, <1>10, <1>11 DEF Iterate

LEMMA ComingIsCount == Turns => Coming \in Nat
  <1> SUFFICES ASSUME Turns PROVE Coming \in Nat
    OBVIOUS
  <1>1. CASE inflight = <<>>
    BY <1>1 DEF Coming
  <1>2. CASE inflight # <<>>
    <2>1. Coming = Len(Bytes(inflight[1])) /\ inflight[1] \in Messages
      BY <1>2, OneInFlight, Zenon DEF Coming
    <2> QED
      BY <2>1, Encoded, SMT
  <1> QED
    BY <1>1, <1>2

(* No step outruns the pace: a step that sends finds no lull and leaves    *)
(* one, and a period of a sleep is worth one of the lull.                  *)
LEMMA PacedStep ==
  ASSUME ResetTime >= 2, SendTime = 0
  PROVE  Served /\ Served' /\ ~overrun /\ ~overrun' /\ Paced /\ [HomeNext]_homevars => Paced'
  <1> SUFFICES ASSUME Served, Served', ~overrun, ~overrun', Paced, [HomeNext]_homevars
               PROVE  Paced'
    OBVIOUS
  <1> DEFINE waiting == Len(rcvbuf)
  <1>int. /\ waiting \in Nat /\ Coming \in Nat /\ Lull \in 0 .. 6
          /\ Slept \in Int /\ Nap \in Nat
    <2>1. waiting \in Nat
      BY LenProperties DEF Served, Stream
    <2>2. Coming \in Nat
      BY ComingIsCount DEF Served
    <2>3. Lull \in 0 .. 6
      BY LullBounds DEF Served
    <2>4. Nap \in Nat
      BY ServerAssumption, SMT DEF Nap
    <2>5. Slept \in Int
      BY <2>4, ServerAssumption, SMT DEF Slept, Served, Naps
    <2> QED
      BY <2>1, <2>2, <2>3, <2>4, <2>5
  <1>paced. 3 * (waiting + Coming) <= Slept + Lull /\ 3 * Coming <= Lull
    BY DEF Paced
  <1> HIDE DEF waiting
  <1>lull. ASSUME UNCHANGED <<state, elapsed, done, measured>> PROVE Lull' = Lull
    BY <1>lull DEF Lull, Due
  <1>bytes. ASSUME UNCHANGED <<rcvbuf, inflight>> PROVE waiting' = waiting /\ Coming' = Coming
    BY <1>bytes DEF waiting, Coming
  <1>sleep. ASSUME UNCHANGED <<serving, left, blinks, led>> PROVE Slept' = Slept
    BY <1>sleep DEF Slept
  <1>script. ASSUME UNCHANGED svars
             PROVE  waiting' = waiting /\ Coming' = Coming /\ Slept' = Slept
    BY <1>script, <1>bytes, <1>sleep DEF svars, link, outputs
  <1>board. ASSUME UNCHANGED <<vars, measured>> PROVE Lull' = Lull
    BY <1>board, <1>lull DEF vars, clock
  <1>keep. ASSUME waiting' = waiting, Coming' = Coming, Slept' = Slept, Lull' >= Lull, Lull' \in Int
           PROVE  Paced'
    BY <1>keep, <1>paced, <1>int, SMT DEF Paced, waiting
  <1>newlull. Lull' \in Int
    <2>1. Due' \in Int /\ elapsed' \in Int /\ ResetTime \in Int
      BY StopwatchAssumption, RecognizerAssumption, SMT DEF Served, TypeOK, Elapsed, Due
    <2> HIDE DEF Due
    <2> QED
      BY <2>1, SMT DEF Lull
  <1>1. ASSUME NEW s \in Sensors, Measure(s) PROVE Paced'
    <2>1. Lull' = Lull
      <3>1. Due = 1 /\ Due' = 1
        BY <1>1, SMT DEF Measure, Update, Due
      <3>2. state' = state /\ elapsed' = elapsed
        BY <1>1 DEF Measure, Update, clock
      <3> QED
        BY <3>1, <3>2 DEF Lull
    <2>2. UNCHANGED svars
      BY <1>1 DEF Measure
    <2> QED
      BY <2>1, <2>2, <1>script, <1>keep, <1>int, <1>newlull, SMT
  <1>2. CASE Board
    <2>1. CASE sent' = NoMessage
      <3>1. UNCHANGED svars /\ Lull' >= Lull
        BY <1>2, <2>1, BoardStep, BoardLull
      <3> QED
        BY <3>1, <1>script, <1>keep, <1>newlull
    <2>2. CASE sent' # NoMessage
      <3>1. /\ inflight = <<>> /\ sent' \in Messages /\ Transmit(sent')
            /\ inflight' = IF serving = "ended" THEN <<>> ELSE <<sent'>>
        BY <1>2, <2>2, BoardStep, Zenon
      <3>2. Lull = 0 /\ Lull' >= 3 * Len(Bytes(sent'))
        BY <1>2, <2>2, BoardLull, Zenon
      <3>3. Coming = 0
        BY <3>1 DEF Coming
      <3>4. Coming' = 0 \/ Coming' = Len(Bytes(sent'))
        <4>1. CASE serving = "ended"
          BY <3>1, <4>1 DEF Coming
        <4>2. CASE serving # "ended"
          <5>1. inflight' # <<>> /\ inflight'[1] = sent'
            BY <3>1, <4>2, SMT
          <5> QED
            BY <5>1, Zenon DEF Coming
        <4> QED
          BY <4>1, <4>2
      <3>5. waiting' = waiting /\ Slept' = Slept
        BY <3>1, <1>sleep DEF Transmit, outputs, waiting
      <3>6. PICK n \in {1, 2} : n = Len(Bytes(sent'))
        BY <3>1, Encoded
      <3>7. Coming' \in {0, n} /\ Lull' >= 3 * n
        BY <3>2, <3>4, <3>6
      <3>8. 3 * waiting <= Slept
        BY <3>2, <3>3, <1>paced, <1>int, SMT
      <3>l. PICK l \in Int : l = Lull'
        BY <1>newlull
      <3>9. 3 * (waiting + Coming') <= Slept + l /\ 3 * Coming' <= l
        <4>1. n \in Nat /\ l >= 3 * n
          BY <3>l, <3>6, <3>7, SMT
        <4>2. 3 * (waiting + n) <= Slept + l /\ 3 * n <= l
          BY <3>8, <4>1, <1>int, SMT
        <4>3. 3 * (waiting + 0) <= Slept + l /\ 3 * 0 <= l
          BY <3>8, <4>1, <1>int, SMT
        <4> QED
          BY <3>7, <4>2, <4>3
      <3> QED
        BY <3>l, <3>5, <3>9 DEF Paced, waiting
    <2> QED
      BY <2>1, <2>2
  <1>3. CASE Pi
    <2>lull. Lull' = Lull
      BY <1>3, <1>board DEF Pi
    <2>1. CASE Deliver
      <3>1. /\ waiting' = waiting + Len(Bytes(inflight[1]))
            /\ inflight # <<>> /\ inflight' = <<>>
        BY <2>1, Delivered DEF Deliver, waiting
      <3>2. Coming = Len(Bytes(inflight[1])) /\ Coming' = 0
        BY <3>1, Zenon DEF Coming
      <3>3. waiting' = waiting + Coming
        BY <3>1, <3>2
      <3>4. Slept' = Slept
        BY <2>1, <1>sleep DEF Deliver, outputs
      <3>5. 3 * (waiting' + Coming') <= Slept' + Lull' /\ 3 * Coming' <= Lull'
        BY <2>lull, <3>2, <3>3, <3>4, <1>paced, <1>int, SMT
      <3> QED
        BY <3>5 DEF Paced, waiting
    <2>2. CASE Receive
      <3>1. waiting' = 0 /\ Coming' = Coming
        BY <2>2, EmptySeq DEF Receive, waiting, Coming
      <3>2. Slept' >= 0
        <4>1. \/ serving' = "buzz" /\ left' = BuzzTime
              \/ serving' = "blink" /\ left' = 1 /\ blinks' = Blinks /\ led' = HIGH
              \/ serving' = "recv"
          BY <2>2, Zenon DEF Receive
        <4> QED
          BY <4>1, ServerAssumption, <1>int, SMT DEF Slept, Nap
      <3>3. Slept' \in Int
        BY ServerAssumption, SMT DEF Slept, Served, Naps, Nap
      <3>s. PICK s \in Int : s = Slept'
        BY <3>3
      <3>0. s >= 0
        BY <3>s, <3>2
      <3>4. 3 * (0 + Coming) <= s + Lull /\ 3 * Coming <= Lull
        BY <3>0, <1>paced, <1>int, SMT
      <3> QED
        BY <2>lull, <3>1, <3>s, <3>4 DEF Paced, waiting
    <2>3. CASE EndOfStream
      <3>1. Slept' = Slept
        BY <2>3, SMT DEF EndOfStream, Slept
      <3>2. UNCHANGED <<rcvbuf, inflight>>
        BY <2>3 DEF EndOfStream, link
      <3> QED
        BY <2>lull, <3>1, <3>2, <1>bytes, <1>keep, <1>int, SMT
    <2>4. CASE BuzzEnds
      <3>1. Slept' = Nap /\ Slept = BuzzTime
        BY <2>4, ServerAssumption, SMT DEF BuzzEnds, Slept, Nap
      <3>2. waiting' = waiting /\ Coming' = Coming
        BY <2>4, <1>bytes DEF BuzzEnds, link
      <3>3. BuzzTime <= Nap
        BY ServerAssumption, SMT DEF Nap
      <3>4. 3 * (waiting' + Coming') <= Slept' + Lull' /\ 3 * Coming' <= Lull'
        BY <2>lull, <3>1, <3>2, <3>3, <1>paced, <1>int, ServerAssumption, SMT
      <3> QED
        BY <3>4 DEF Paced, waiting
    <2>5. CASE BlinkLow
      <3>1. Slept' = Slept
        <4>1. /\ serving = "blink" /\ serving' = serving /\ left = 0 /\ left' = 1
              /\ blinks' = blinks /\ led = HIGH /\ led' # HIGH
          BY <2>5, Zenon DEF BlinkLow, HIGH, LOW
        <4>2. Slept = 2 * (Blinks - blinks) + 1 - 0 /\ Slept' = 2 * (Blinks - blinks) + 2 - 1
          BY <4>1, SMT DEF Slept
        <4>3. blinks \in Int /\ Blinks \in Int
          BY ServerAssumption, SMT DEF Served, Naps
        <4> QED
          BY <4>2, <4>3, SMT
      <3>2. waiting' = waiting /\ Coming' = Coming
        BY <2>5, <1>bytes DEF BlinkLow, link
      <3> QED
        BY <2>lull, <3>1, <3>2, <1>keep, <1>int, SMT
    <2>6. CASE BlinkNext
      <3>1. Slept' >= Slept /\ Slept' \in Int
        <4>1. /\ serving = "blink" /\ left = 0 /\ led # HIGH /\ blinks' = blinks - 1
              /\ \/ blinks' > 0 /\ serving' = serving /\ led' = HIGH /\ left' = 1
                 \/ serving' = "recv"
          BY <2>6, Zenon DEF BlinkNext, HIGH, LOW
        <4>2. blinks \in Nat /\ 1 <= blinks /\ Blinks \in Nat
          BY <4>1, ServerAssumption, SMT DEF Served, Naps
        <4>3. Slept = 2 * (Blinks - blinks) + 2 - 0
          BY <4>1, SMT DEF Slept
        <4>4. CASE serving' = "recv"
          <5>1. Slept' = Nap
            BY <4>4, SMT DEF Slept, Nap
          <5>2. Nap >= 2 * Blinks
            BY ServerAssumption, SMT DEF Nap
          <5> QED
            BY <4>2, <4>3, <5>1, <5>2, <1>int, SMT
        <4>5. CASE serving' = "blink" /\ led' = HIGH /\ left' = 1
          <5>1. Slept' = 2 * (Blinks - (blinks - 1)) + 1 - 1
            BY <4>1, <4>5, SMT DEF Slept
          <5> QED
            BY <4>2, <4>3, <5>1, SMT
        <4> QED
          BY <4>1, <4>4, <4>5
      <3>2. waiting' = waiting /\ Coming' = Coming
        BY <2>6, <1>bytes DEF BlinkNext, link
      <3>s. PICK s \in Int : s = Slept'
        BY <3>1
      <3>0. s >= Slept
        BY <3>s, <3>1
      <3>3. 3 * (waiting + Coming) <= s + Lull /\ 3 * Coming <= Lull
        BY <3>0, <1>paced, <1>int, SMT
      <3> QED
        BY <2>lull, <3>2, <3>s, <3>3 DEF Paced, waiting
    <2> QED
      BY <1>3, <2>1, <2>2, <2>3, <2>4, <2>5, <2>6 DEF Pi, Serve
  <1>4. CASE Period
    <2>lull. Lull' >= Lull - 1
      BY <1>4, PeriodLull
    <2>1. inflight = <<>> /\ inflight' = inflight /\ rcvbuf' = rcvbuf
      BY <1>4 DEF Period, PiIsDue, Sleep, svars, link
    <2>2. waiting' = waiting /\ Coming' = 0 /\ Coming = 0
      BY <2>1, <1>bytes DEF Coming
    <2>nonneg. Lull' >= 0
      <3>1. Due' \in {0, 1} /\ elapsed' \in Int /\ ResetTime \in Int
        BY StopwatchAssumption, RecognizerAssumption, SMT DEF Served, TypeOK, Elapsed, Due
      <3> HIDE DEF Due
      <3> QED
        BY <3>1, SMT DEF Lull
    <2>l. PICK l \in Int : l = Lull'
      BY <1>newlull
    <2>0. l >= 0 /\ l >= Lull - 1
      BY <2>l, <2>lull, <2>nonneg
    <2>3. CASE left > 0
      <3>1. /\ serving' = serving /\ left' = left - 1 /\ blinks' = blinks /\ led' = led
        BY <1>4, <2>3 DEF Period, Sleep, outputs
      <3>2. serving \in {"buzz", "blink"}
        BY <2>3, SMT DEF Served, Naps
      <3>3. left \in Int /\ blinks \in Int /\ BuzzTime \in Int /\ Blinks \in Int
        BY ServerAssumption, SMT DEF Served, Naps
      <3>4. Slept' = Slept + 1
        BY <3>1, <3>2, <3>3, SMT DEF Slept
      <3>5. 3 * (waiting + 0) <= Slept + 1 + l /\ 3 * 0 <= l
        BY <2>0, <2>2, <1>paced, <1>int, SMT
      <3> QED
        BY <2>l, <2>2, <3>4, <3>5 DEF Paced, waiting
    <2>4. CASE ~(left > 0)
      <3>1. left = 0 /\ UNCHANGED svars
        BY <1>4, <2>4, SMT DEF Period, Served, Naps
      <3>2. serving \in {"recv", "ended"}
        BY <1>4, <3>1 DEF Period, PiIsDue, Served, Naps
      <3>3. rcvbuf = <<>>
        BY <1>4, <3>2 DEF Period, PiIsDue, Served, Stream
      <3>4. waiting = 0
        BY <3>3, EmptySeq DEF waiting
      <3>5. Slept' = Slept /\ Slept = Nap
        BY <3>1, <3>2, <1>script, SMT DEF Slept, Nap
      <3>6. 3 * (waiting + 0) <= Slept + l /\ 3 * 0 <= l
        BY <2>0, <3>4, <3>5, <1>int, SMT
      <3> QED
        BY <2>l, <2>2, <3>5, <3>6 DEF Paced, waiting
    <2> QED
      BY <2>3, <2>4
  <1>5. CASE Disturbance
    <2>lull. Lull' = Lull
      BY <1>5, <1>board DEF Disturbance
    <2>1. CASE KeyboardInterrupt
      <3>1. waiting' = 0 /\ Coming' = 0
        BY <2>1, EmptySeq DEF KeyboardInterrupt, waiting, Coming
      <3>2. Slept' = Nap
        BY <2>1, SMT DEF KeyboardInterrupt, Slept, Nap
      <3>4. 3 * (waiting' + Coming') = 0
        BY <3>1, SMT
      <3>5. Slept' + Lull' >= 0
        BY <2>lull, <3>2, <1>int, SMT
      <3>6. 3 * Coming' <= Lull'
        BY <2>lull, <3>1, <1>int, SMT
      <3>3. 3 * (waiting' + Coming') <= Slept' + Lull' /\ 3 * Coming' <= Lull'
        BY <3>4, <3>5, <3>6, <3>2, <2>lull, <1>int, SMT
      <3> QED
        BY <3>3 DEF Paced, waiting
    <2>2. CASE PeerCloses
      BY <2>2, <2>lull, <1>bytes, <1>sleep, <1>keep, <1>int, SMT DEF PeerCloses, outputs
    <2> QED
      BY <1>5, <2>1, <2>2 DEF Disturbance
  <1>6. CASE UNCHANGED homevars
    <2>1. UNCHANGED svars /\ UNCHANGED <<vars, measured>>
      BY <1>6 DEF homevars
    <2>2. Lull' = Lull
      BY <2>1, <1>board
    <2> QED
      BY <2>1, <2>2, <1>script, <1>keep, <1>int, SMT
  <1> QED
    BY <1>1, <1>2, <1>3, <1>4, <1>5, <1>6 DEF HomeNext, Working

(* Few bytes wait for the script (server.py:28), however the hand moves:   *)
(* at most one for every three periods of its longest sleep and two more.  *)
(* With the program's 10 periods of buzzing and 10 blinks these are 8.     *)
(* Until the clock leaves the range of int, while sends take less than a   *)
(* period and the rest at the end of a gesture is at least two.            *)
THEOREM BacklogIsPaced ==
  ASSUME ~MayOverrun, SendTime = 0, ResetTime >= 2,
         MaxBacklog \in Nat, Nap + 6 < 3 * (MaxBacklog + 1)
  PROVE  HomeSpec => []BacklogIsSmall
  <1>1. HomeInit => Paced
    <2> SUFFICES ASSUME HomeInit PROVE Paced
      OBVIOUS
    <2>1. TypeOK
      BY TypeInit DEF HomeInit
    <2>2. Lull \in 0 .. 6
      BY <2>1, LullBounds
    <2>3. Len(rcvbuf) = 0 /\ Coming = 0
      BY EmptySeq DEF HomeInit, ServerInit, Coming
    <2>4. Slept = Nap /\ Nap \in Nat
      BY ServerAssumption, SMT DEF HomeInit, ServerInit, Slept, Nap
    <2> HIDE DEF Lull, Slept, Nap, Coming
    <2> QED
      BY <2>2, <2>3, <2>4, SMT DEF Paced
  <1>2. HomeSpec => []~overrun
    <2>1. StampInv => ~overrun
      BY DEF StampInv
    <2> QED
      BY <2>1, HomeIsRecognizer, StampInvariant, PTL
  <1>3. Served /\ Paced => BacklogIsSmall
    <2> SUFFICES ASSUME Served, Paced PROVE Len(rcvbuf) <= MaxBacklog
      BY DEF BacklogIsSmall
    <2>1. Lull \in 0 .. 6
      BY LullBounds DEF Served
    <2>2. Len(rcvbuf) \in Nat
      BY LenProperties DEF Served, Stream
    <2>3. Coming \in Nat
      BY ComingIsCount DEF Served
    <2>4. Nap \in Nat
      BY ServerAssumption, SMT DEF Nap
    <2>5. Slept <= Nap /\ Slept \in Int
      <3>1. BuzzTime <= Nap /\ 2 * Blinks <= Nap
        BY ServerAssumption, SMT DEF Nap
      <3> HIDE DEF Nap
      <3> QED
        BY <2>4, <3>1, ServerAssumption, SMT DEF Slept, Served, Naps
    <2> HIDE DEF Lull, Slept, Nap, Coming
    <2> QED
      BY <2>1, <2>2, <2>3, <2>4, <2>5, SMT DEF Paced
  <1>4. Served /\ Served' /\ ~overrun /\ ~overrun' /\ Paced /\ [HomeNext]_homevars => Paced'
    BY PacedStep
  <1> QED
    BY <1>1, <1>2, <1>3, <1>4, HomeInvariant, PTL DEF HomeSpec
=============================================================================
