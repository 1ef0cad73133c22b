------------------------------ MODULE UsClock ------------------------------
(***************************************************************************)
(* clk.elapsed_time().count(), a 64-bit count of microseconds that never   *)
(* overflows in practice, and the `int lastTime` it is stamped into.  The  *)
(* clock is unbounded, so this module is proved about (RecognizerProofs),  *)
(* not model-checked; it is what justifies Stopwatch.                      *)
(***************************************************************************)
EXTENDS Integers

CONSTANTS Half,       \* half the range of int: 2^31
          Cap         \* the longest time-out, and one

VARIABLES now,        \* getUsTime()
          lastTime    \* the stamp

vars == <<now, lastTime>>

Word == -Half .. Half - 1

(* The conversion to int keeps the low bits. *)
ToInt(t) == ((t + Half) % (2 * Half)) - Half

Init == now = 0 /\ lastTime \in Word

Tick == now' = now + 1 /\ UNCHANGED lastTime

StampLast == lastTime' = ToInt(now) /\ UNCHANGED now

Next == Tick \/ StampLast

Spec == Init /\ [][Next]_vars

----------------------------------------------------------------------------

(* A stamp fits an int, the clock need not. *)
TypeOK == now \in Nat /\ lastTime \in Word

(* The subtraction is done in 64 bits. *)
Difference == now - lastTime

Watch == INSTANCE Stopwatch
           WITH MinElapsed <- 1 - Half,
                elapsed <- IF Difference > Cap THEN Cap ELSE Difference,
                overrun <- now >= Half

WatchNext == Watch!Elapse(1) \/ Watch!Stamp(0)

(* The clock and its truncated stamp behave as the stopwatch: exact before *)
(* the clock leaves int's range, and from then on every new stamp is       *)
(* already older than any time-out.                                        *)
ImplementsStopwatch ==
  Watch!StopwatchInit /\ [][WatchNext]_<<Difference, now >= Half>>
=============================================================================
