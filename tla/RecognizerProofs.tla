-------------------------- MODULE RecognizerProofs --------------------------
(***************************************************************************)
(* Proofs about the gesture state machine, for every time-out, resting     *)
(* time, duration of a send and junk in the uninitialised stamp; and about *)
(* the clock it reads.                                                     *)
(***************************************************************************)
EXTENDS Recognizer, TLAPS

(* Capping keeps what a stopwatch or a history may be. *)
LEMMA CappedInRange ==
  ASSUME NEW t \in Int
  PROVE  /\ t >= 0 => Capped(t) \in 0 .. Cap
         /\ t >= MinElapsed => Capped(t) \in Elapsed
  BY StopwatchAssumption, SMT DEF Capped, Elapsed

(* What a stamp leaves on the stopwatch, early or late. *)
LEMMA StampInRange ==
  ASSUME NEW d \in Nat, overrun \in BOOLEAN
  PROVE  /\ Stamp(d) => elapsed' \in Elapsed /\ overrun' \in BOOLEAN
         /\ LateStamp => elapsed' \in Elapsed /\ overrun' \in BOOLEAN
  <1>1. Capped(d) \in Elapsed /\ Cap \in Elapsed /\ 0 \in Elapsed
    BY CappedInRange, StopwatchAssumption, SMT DEF Elapsed
  <1>2. CASE overrun
    BY <1>1, <1>2, Zenon DEF Stamp, LateStamp
  <1>3. CASE ~overrun
    BY <1>1, <1>3, Zenon DEF Stamp, LateStamp
  <1> QED
    BY <1>2, <1>3

LEMMA TypeInit == Init => TypeOK
  <1> SUFFICES ASSUME Init PROVE TypeOK
    OBVIOUS
  <1>1. quiet \in 0 .. Cap
    BY StopwatchAssumption, SMT DEF Init
  <1>2. state \in States /\ done \subseteq Sensors /\ sent \in Messages \union {NoMessage}
    BY DEF Init, States
  <1> QED
    BY <1>1, <1>2, Zenon DEF Init, StopwatchInit, TypeOK

(* Every step of the program keeps the types: in particular the numbers    *)
(* that stand for states are the README's six, whatever peak.back() gives. *)
LEMMA TypeStep == TypeOK /\ [Next]_vars => TypeOK'
  <1> SUFFICES ASSUME TypeOK, [Next]_vars PROVE TypeOK'
    OBVIOUS
  <1>cap. 0 \in 0 .. Cap
    BY StopwatchAssumption, SMT
  <1>enter. ASSUME NEW st \in States, Enter(st), done' = {} PROVE TypeOK'
    <2>1. elapsed' \in Elapsed /\ overrun' \in BOOLEAN
      BY <1>enter, StampInRange, SMT DEF Enter, TypeOK
    <2> QED
      BY <1>enter, <2>1, <1>cap DEF Enter, StateChangesTo, TypeOK
  <1>1. ASSUME NEW s \in Sensors, Update(s) PROVE TypeOK'
    BY <1>1 DEF Update, TypeOK, clock
  <1>2. CASE Pass(1)
    <2>1. elapsed \in Int /\ elapsed + 1 \in Int /\ elapsed + 1 >= MinElapsed
      BY StopwatchAssumption, SMT DEF TypeOK, Elapsed
    <2>2. elapsed' \in Elapsed
      BY <1>2, <2>1, CappedInRange, Zenon DEF Pass, Elapse
    <2>3. overrun' \in BOOLEAN
      BY <1>2, Zenon DEF Pass, Elapse, TypeOK
    <2>4. quiet + 1 \in Int /\ quiet + 1 >= 0
      BY StopwatchAssumption, SMT DEF TypeOK
    <2>5. quiet' \in 0 .. Cap
      BY <1>2, <2>4, CappedInRange, Zenon DEF Pass
    <2> QED
      BY <1>2, <2>2, <2>3, <2>5 DEF Pass, TypeOK
  <1>3. ASSUME NEW peak \in 0 .. 2, Iterate(peak) PROVE TypeOK'
    <2>1. CASE LeaveFinal
      BY <2>1, <1>enter DEF LeaveFinal, BothUpdated, States
    <2>2. CASE GoIdle
      <3>1. elapsed' \in Elapsed /\ overrun' \in BOOLEAN
        BY <2>2, StampInRange, SMT DEF GoIdle, TypeOK
      <3>2. sent' \in Messages \union {NoMessage}
        BY <2>2 DEF GoIdle, Messages
      <3> QED
        BY <2>2, <3>1, <3>2, <1>cap DEF GoIdle, BothUpdated, States, TypeOK
    <2>3. CASE Appear(peak)
      <3>1. peak \in States
        BY <2>3, SMT DEF Appear, States
      <3> QED
        BY <2>3, <3>1, <1>enter DEF Appear, BothUpdated
    <2>4. CASE Cross(peak)
      BY <2>4, <1>enter DEF Cross, BothUpdated, States
    <2>5. ASSUME NEW d \in 0 .. SendTime, Return(peak, d) PROVE TypeOK'
      <3>1. d \in Nat /\ d >= 0
        BY RecognizerAssumption, SMT
      <3>2. elapsed' \in Elapsed /\ overrun' \in BOOLEAN
        BY <2>5, <3>1, StampInRange, SMT DEF Return, TypeOK
      <3>3. quiet' \in 0 .. Cap
        BY <2>5, <3>1, CappedInRange, SMT DEF Return
      <3> QED
        BY <2>5, <3>2, <3>3 DEF Return, BothUpdated, States, Messages, TypeOK
    <2>6. CASE Ignore(peak)
      BY <2>6 DEF Ignore, Stay, BothUpdated, TypeOK, clock
    <2> QED
      BY <1>3, <2>1, <2>2, <2>3, <2>4, <2>5, <2>6 DEF Iterate
  <1>4. CASE UNCHANGED vars
    BY <1>4 DEF vars, clock, TypeOK
  <1> QED
    BY <1>1, <1>2, <1>3, <1>4 DEF Next

(* The types of the recognizer's variables, main.cpp:171-253. *)
THEOREM TypeCorrect == Spec => []TypeOK
  BY TypeInit, TypeStep, PTL DEF Spec

----------------------------------------------------------------------------
(* Until the clock leaves the range of int. *)

StampInv == TypeOK /\ ~overrun /\ ElapsedIsTrue

(* The stopwatch and the history agree after every step: all that enters   *)
(* a state stamps, and the rest lets both run.                             *)
LEMMA StampInvariant ==
  ASSUME ~MayOverrun
  PROVE  Spec => []StampInv
  <1>1. Init => StampInv
    BY TypeInit DEF Init, StopwatchInit, StampInv, ElapsedIsTrue
  <1>2. StampInv /\ [Next]_vars => StampInv'
    <2> SUFFICES ASSUME StampInv, [Next]_vars PROVE StampInv'
      OBVIOUS
    <2>type. TypeOK'
      BY TypeStep DEF StampInv
    <2>zero. Capped(0) = 0
      BY StopwatchAssumption, SMT DEF Capped
    <2>enter. ASSUME NEW st, Enter(st), ~overrun' PROVE ElapsedIsTrue'
      BY <2>enter, <2>zero DEF Enter, StateChangesTo, Stamp, StampInv, ElapsedIsTrue
    <2>1. ASSUME NEW s \in Sensors, Update(s) PROVE ElapsedIsTrue' /\ ~overrun'
      BY <2>1 DEF Update, clock, StampInv, ElapsedIsTrue
    <2>2. CASE Pass(1)
      BY <2>2, <2>type DEF Pass, Elapse, StampInv, ElapsedIsTrue
    <2>3. ASSUME NEW peak \in 0 .. 2, Iterate(peak) PROVE ElapsedIsTrue' /\ ~overrun'
      <3>1. ~overrun'
        BY <2>3 DEF Iterate
      <3>2. CASE LeaveFinal
        BY <3>1, <3>2, <2>enter DEF LeaveFinal
      <3>3. CASE GoIdle
        BY <3>1, <3>3 DEF GoIdle, ElapsedIsTrue
      <3>4. CASE Appear(peak)
        BY <3>1, <3>4, <2>enter DEF Appear
      <3>5. CASE Cross(peak)
        BY <3>1, <3>5, <2>enter DEF Cross
      <3>6. ASSUME NEW d \in 0 .. SendTime, Return(peak, d) PROVE ElapsedIsTrue'
        BY <3>6 DEF Return, Stamp, StampInv, ElapsedIsTrue
      <3>7. CASE Ignore(peak)
        BY <3>7 DEF Ignore, Stay, clock, StampInv, ElapsedIsTrue
      <3> QED
        BY <2>3, <3>1, <3>2, <3>3, <3>4, <3>5, <3>6, <3>7 DEF Iterate
    <2>4. CASE UNCHANGED vars
      BY <2>4, <2>type DEF vars, clock, StampInv, ElapsedIsTrue
    <2> QED
      BY <2>type, <2>1, <2>2, <2>3, <2>4 DEF Next, StampInv
  <1> QED
    BY <1>1, <1>2, PTL DEF Spec

(* The junk of the uninitialised lastTime never decides about a gesture    *)
(* (main.cpp:175, 203): while one is under way or resting the elapsed time *)
(* is the true time since its state was entered, the time of a blocking    *)
(* send included, as long as the clock fits an int.                        *)
THEOREM StampIsTrue ==
  ASSUME ~MayOverrun
  PROVE  Spec => []ElapsedIsTrue
  <1>1. StampInv => ElapsedIsTrue
    BY DEF StampInv
  <1> QED
    BY <1>1, StampInvariant, PTL

(* A gesture times out only when idleTime has truly passed since its last  *)
(* detection (main.cpp:203), as long as the clock fits an int: the run     *)
(* RecognizerOverrun shows what happens after.  Leaving state 3 is not a   *)
(* time-out, and the late stamp of a time-out does not shorten the next.   *)
THEOREM TimesOutInTime ==
  ASSUME ~MayOverrun
  PROVE  Spec => TimesOutAfterIdleTime
  <1> DEFINE timesOut == state \in {1, 2, 12, 21} /\ state' = 0
  <1>1. ASSUME StampInv, [Next]_vars, timesOut PROVE quiet > IdleTime
    <2>1. elapsed = quiet
      BY <1>1, SMT DEF StampInv, ElapsedIsTrue
    <2>2. state # state' /\ state # 3 /\ state # 0
      BY <1>1, SMT
    <2>3. PICK peak \in 0 .. 2 : Iterate(peak)
      BY <1>1, <2>2, Zenon DEF Next, Update, Pass, vars
    <2>4. GoIdle
      <3>1. ~LeaveFinal
        BY <2>2 DEF LeaveFinal
      <3>2. ~Appear(peak)
        BY <2>2 DEF Appear
      <3>3. ~Cross(peak)
        BY <1>1, SMT DEF Cross, Enter, StateChangesTo
      <3>4. ~(\E d \in 0 .. SendTime : Return(peak, d))
        BY <1>1, SMT DEF Return
      <3>5. ~Ignore(peak)
        BY <2>2 DEF Ignore, Stay
      <3> QED
        BY <2>3, <3>1, <3>2, <3>3, <3>4, <3>5, Zenon DEF Iterate
    <2> QED
      BY <2>1, <2>4, SMT DEF GoIdle, Idle
  <1>2. StampInv /\ [Next]_vars => [timesOut => quiet > IdleTime]_vars
    BY <1>1
  <1> QED
    BY <1>2, StampInvariant, PTL DEF Spec, TimesOutAfterIdleTime

----------------------------------------------------------------------------
(* The implementation of Gesture.  A state stands for the path of          *)
(* detections that led to it; a step that sends nothing and keeps the path *)
(* is Gesture's Wait.                                                      *)

LEMMA Paths ==
  /\ PathOf(0) = <<>> /\ PathOf(3) = <<>>
  /\ PathOf(1) = <<1>> /\ PathOf(2) = <<2>>
  /\ PathOf(12) = <<1, 2>> /\ PathOf(21) = <<2, 1>>
  BY SMT DEF PathOf

(* A third detection makes a path of three. *)
LEMMA AppendThird ==
  ASSUME NEW a \in Int, NEW b \in Int, NEW c \in Int
  PROVE  Append(<<a, b>>, c) = <<a, b, c>>
  <1> DEFINE appended == Append(<<a, b>>, c)
             triple == <<a, b, c>>
  <1>1. <<a, b>> \in Seq(Int) /\ Len(<<a, b>>) = 2
    BY SMT
  <1>2. appended \in Seq(Int) /\ Len(appended) = 3
        /\ appended[1] = a /\ appended[2] = b /\ appended[3] = c
    BY <1>1, SMT
  <1>3. triple \in Seq(Int) /\ Len(triple) = 3
        /\ triple[1] = a /\ triple[2] = b /\ triple[3] = c
    BY SMT
  <1> HIDE DEF appended, triple
  <1>4. appended = triple
    BY <1>2, <1>3, SMT
  <1> QED
    BY <1>4 DEF appended, triple

LEMMA PromisedMessages ==
  /\ \A st \in {0, 1, 2} : Promise!Message(PathOf(st)) = NoMessage
  /\ Promise!Message(PathOf(12)) = "1"
  /\ Promise!Message(PathOf(21)) = "0"
  /\ Promise!Message(Append(PathOf(12), 1)) = "20"
  /\ Promise!Message(Append(PathOf(21), 2)) = "21"
  <1> USE Paths DEF Promise!Message, Promise!NoMessage, NoMessage
  <1>1. \A st \in {0, 1, 2} : Promise!Message(PathOf(st)) = NoMessage
    <2>1. Promise!Message(<<>>) = NoMessage
      BY SMT
    <2>2. Promise!Message(<<1>>) = NoMessage /\ Promise!Message(<<2>>) = NoMessage
      BY SMT
    <2> QED
      BY <2>1, <2>2, SMT
  <1>2. Promise!Message(<<1, 2>>) = "1"
    BY SMT
  <1>3. Promise!Message(<<2, 1>>) = "0"
    BY SMT
  <1>4. Append(<<1, 2>>, 1) = <<1, 2, 1>> /\ Append(<<2, 1>>, 2) = <<2, 1, 2>>
    BY AppendThird, SMT
  <1>5. Promise!Message(<<1, 2, 1>>) = "20"
    BY SMT
  <1>6. Promise!Message(<<2, 1, 2>>) = "21"
    BY SMT
  <1> QED
    BY <1>1, <1>2, <1>3, <1>4, <1>5, <1>6

LEMMA PromiseStep == TypeOK /\ [Next]_vars => [Promise!Next]_(Promise!vars)
  <1> SUFFICES ASSUME TypeOK, [Next]_vars PROVE [Promise!Next]_(Promise!vars)
    OBVIOUS
  <1>wait. ASSUME sent' = NoMessage, UNCHANGED state PROVE Promise!Next
    BY <1>wait DEF Promise!Next, Promise!Wait, Promise!NoMessage, NoMessage
  <1>1. ASSUME NEW s \in Sensors, Update(s) PROVE Promise!Next
    BY <1>1, <1>wait DEF Update
  <1>2. CASE Pass(1)
    BY <1>2, <1>wait DEF Pass
  <1>3. ASSUME NEW peak \in 0 .. 2, Iterate(peak) PROVE Promise!Next
    <2>1. CASE LeaveFinal
      BY <2>1, Paths
         DEF LeaveFinal, Enter, StateChangesTo, Promise!Next, Promise!Rested,
             Promise!NoMessage, NoMessage
    <2>2. CASE GoIdle
      <3>1. sent' = Promise!Message(PathOf(state))
        BY <2>2, PromisedMessages DEF GoIdle, TypeOK, States
      <3> QED
        BY <2>2, <3>1, Paths DEF GoIdle, Promise!Next, Promise!TimeOut
    <2>3. CASE Appear(peak)
      <3>1. peak \in {1, 2}
        BY <2>3, SMT DEF Appear
      <3>2. PathOf(state) = <<>> /\ PathOf(state') = Append(<<>>, peak)
        BY <2>3, <3>1, Paths, SMT DEF Appear, Enter, StateChangesTo
      <3>3. Promise!Detect(peak)
        BY <2>3, <3>1, <3>2, SMT
           DEF Appear, Enter, StateChangesTo, Promise!Detect, Promise!Follows,
               Promise!NoMessage, NoMessage
      <3> QED
        BY <3>1, <3>3 DEF Promise!Next
    <2>4. CASE Cross(peak)
      <3>1. /\ peak \in {1, 2} /\ sent' = NoMessage
            /\ PathOf(state) = <<3 - peak>> /\ PathOf(state') = <<3 - peak, peak>>
            /\ state # 3 /\ state' # 3
        BY <2>4, Paths, SMT DEF Cross, Enter, StateChangesTo
      <3>2. Promise!Detect(peak)
        BY <3>1, SMT DEF Promise!Detect, Promise!Follows, Promise!NoMessage, NoMessage
      <3> QED
        BY <3>1, <3>2 DEF Promise!Next
    <2>5. ASSUME NEW d \in 0 .. SendTime, Return(peak, d) PROVE Promise!Next
      <3>1. /\ peak \in {1, 2} /\ state' = 3
            /\ sent' = Promise!Message(Append(PathOf(state), peak))
            /\ PathOf(state) = <<peak, 3 - peak>> /\ PathOf(state') = <<>>
        BY <2>5, Paths, PromisedMessages, SMT DEF Return
      <3>2. Promise!Complete(peak)
        BY <3>1, SMT DEF Promise!Complete, Promise!Follows
      <3> QED
        BY <3>1, <3>2 DEF Promise!Next
    <2>6. CASE Ignore(peak)
      BY <2>6, <1>wait DEF Ignore, Stay
    <2> QED
      BY <1>3, <2>1, <2>2, <2>3, <2>4, <2>5, <2>6 DEF Iterate
  <1>4. CASE UNCHANGED vars
    BY <1>4 DEF vars, Promise!vars
  <1> QED
    BY <1>1, <1>2, <1>3, <1>4 DEF Next

(* The state machine implements the README's notion of a gesture: every    *)
(* message is the one for the detections made and is sent once, when the   *)
(* gesture ends, whatever the clock, the junk in lastTime and the sensors  *)
(* do.                                                                     *)
THEOREM GestureRefinement == Spec => ImplementsGesture
  <1>1. Init => Promise!Init
    BY Paths DEF Init, Promise!Init, Promise!NoMessage, NoMessage
  <1> QED
    BY <1>1, TypeInit, TypeStep, PromiseStep, PTL
       DEF Spec, ImplementsGesture, Promise!Spec

----------------------------------------------------------------------------
(* The clock that the stopwatch of the recognizer stands for, for every    *)
(* width of int and every time-out that fits one: what is assumed of time  *)
(* is what the code computes.                                              *)

CONSTANT Half

VARIABLES now, lastTime

Us == INSTANCE UsClock

(* A stamp taken in the range of int is exact; one taken later is at least *)
(* a whole range of int too small.                                         *)
LEMMA Truncation ==
  ASSUME Half \in Nat \ {0}, NEW t \in Nat
  PROVE  /\ Us!ToInt(t) \in Us!Word
         /\ t < Half => Us!ToInt(t) = t
         /\ t >= Half => t - Us!ToInt(t) >= 2 * Half
  <1> DEFINE s == t + Half
             r == 2 * Half
  <1>1. s \in Nat /\ r \in Nat \ {0}
    OBVIOUS
  <1> HIDE DEF s, r
  <1>2. /\ s % r \in Nat /\ s % r < r
        /\ s < r => s % r = s
        /\ s >= r => s % r <= s - r
    BY <1>1
  <1> QED
    BY <1>2 DEF s, r, Us!ToInt, Us!Word

(* The clock counts up from 0, and what is stored is always an int. *)
LEMMA ClockTypes ==
  ASSUME Half \in Nat \ {0}
  PROVE  Us!Spec => []Us!TypeOK
  <1>1. Us!Init => Us!TypeOK
    BY DEF Us!Init, Us!TypeOK
  <1>2. Us!TypeOK /\ [Us!Next]_(Us!vars) => Us!TypeOK'
    <2> SUFFICES ASSUME Us!TypeOK, [Us!Next]_(Us!vars)
                 PROVE  Us!TypeOK'
      OBVIOUS
    <2>1. CASE Us!Tick
      BY <2>1 DEF Us!Tick, Us!TypeOK
    <2>2. CASE Us!StampLast
      BY <2>2, Truncation DEF Us!StampLast, Us!TypeOK
    <2>3. CASE UNCHANGED Us!vars
      BY <2>3 DEF Us!vars, Us!TypeOK
    <2> QED
      BY <2>1, <2>2, <2>3 DEF Us!Next
  <1> QED
    BY <1>1, <1>2, PTL DEF Us!Spec

(* A tick is one unit of the stopwatch's time: the difference grows by one *)
(* and, once the clock is past int, is positive whatever the stamp.        *)
LEMMA TickElapses ==
  ASSUME Half \in Nat \ {0}, Cap \in Nat \ {0}, Us!TypeOK, Us!Tick
  PROVE  Us!Watch!Elapse(1)
  <1>1. Us!Difference \in Int /\ Us!Difference' = Us!Difference + 1
    BY DEF Us!TypeOK, Us!Tick, Us!Difference, Us!Word
  <1>2. now' >= Half => Us!Difference' > 0
    BY DEF Us!TypeOK, Us!Tick, Us!Difference, Us!Word
  <1>3. (now >= Half) => (now' >= Half)
    BY DEF Us!TypeOK, Us!Tick
  <1>4. (now' >= Half) \in {now >= Half, TRUE}
    <2>1. CASE now' >= Half
      BY <2>1
    <2>2. CASE ~(now' >= Half)
      <3>1. (now' >= Half) = (now >= Half)
        BY <2>2, <1>3
      <3> QED
        BY <3>1
    <2> QED
      BY <2>1, <2>2
  <1>5. (IF Us!Difference > Cap THEN Cap ELSE Us!Difference)'
          = Us!Watch!Capped((IF Us!Difference > Cap THEN Cap ELSE Us!Difference) + 1)
    BY <1>1 DEF Us!Watch!Capped
  <1>6. (now >= Half)' => (IF Us!Difference > Cap THEN Cap ELSE Us!Difference)' > 0
    BY <1>1, <1>2
  <1> QED
    BY <1>4, <1>5, <1>6 DEF Us!Watch!Elapse

(* A stamp sets the stopwatch to zero, or beyond every time-out. *)
LEMMA StampStamps ==
  ASSUME Half \in Nat \ {0}, Cap \in Nat \ {0}, Cap < Half, Us!TypeOK, Us!StampLast
  PROVE  Us!Watch!Stamp(0)
  <1>1. /\ now \in Nat /\ now' = now
        /\ Us!Difference' = now - Us!ToInt(now)
    BY DEF Us!TypeOK, Us!StampLast, Us!Difference
  <1>2. /\ Us!ToInt(now) \in Int
        /\ now < Half => Us!Difference' = 0
        /\ now >= Half => Us!Difference' > Cap
    BY <1>1, Truncation DEF Us!Word
  <1> QED
    BY <1>1, <1>2 DEF Us!Watch!Stamp, Us!Watch!Capped

(* getUsTime() - lastTime behaves as the stopwatch of the recognizer. *)
THEOREM ClockRefinement ==
  ASSUME Half \in Nat \ {0}, Cap \in Nat \ {0}, Cap < Half
  PROVE  Us!Spec => Us!ImplementsStopwatch
  <1>1. Us!Init => Us!Watch!StopwatchInit
    BY DEF Us!Init, Us!Word, Us!Difference, Us!Watch!StopwatchInit, Us!Watch!Elapsed
  <1>2. Us!TypeOK /\ [Us!Next]_(Us!vars) => [Us!WatchNext]_<<Us!Difference, now >= Half>>
    <2> SUFFICES ASSUME Us!TypeOK, [Us!Next]_(Us!vars)
                 PROVE  [Us!WatchNext]_<<Us!Difference, now >= Half>>
      OBVIOUS
    <2>1. CASE Us!Tick
      BY <2>1, TickElapses DEF Us!WatchNext
    <2>2. CASE Us!StampLast
      BY <2>2, StampStamps DEF Us!WatchNext
    <2>3. CASE UNCHANGED Us!vars
      BY <2>3 DEF Us!vars, Us!Difference
    <2> QED
      BY <2>1, <2>2, <2>3 DEF Us!Next
  <1>3. Us!Spec => []Us!TypeOK
    BY ClockTypes
  <1> QED
    BY <1>1, <1>2, <1>3, PTL DEF Us!Spec, Us!ImplementsStopwatch
=============================================================================
