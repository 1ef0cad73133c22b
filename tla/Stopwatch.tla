----------------------------- MODULE Stopwatch -----------------------------
(***************************************************************************)
(* The time since the last stamp, as run() computes it: getUsTime() is the *)
(* 64-bit microsecond clock, but lastTime is an int, so that the stamps    *)
(* taken once the clock is past the int's range lie in the distant past.   *)
(* UsClock has the clock and the stamp themselves and implements this      *)
(* module.                                                                 *)
(***************************************************************************)
EXTENDS Integers

CONSTANTS Cap,        \* no comparison tells apart the times from Cap on
          MinElapsed  \* the least value the uninitialised lastTime gives

ASSUME StopwatchAssumption == Cap \in Nat /\ MinElapsed \in Int /\ MinElapsed <= 0

VARIABLES elapsed,    \* getUsTime() - lastTime, no more than Cap
          overrun     \* the clock is past the range of int

Capped(t) == IF t > Cap THEN Cap ELSE t

Elapsed == MinElapsed .. Cap

(* `int lastTime;` has any value at first. *)
StopwatchInit ==
  /\ elapsed \in Elapsed
  /\ overrun = FALSE

(* d units of time pass; the clock may leave the range of int, which is    *)
(* later than any stamp.                                                   *)
Elapse(d) ==
  /\ elapsed' = Capped(elapsed + d)
  /\ overrun' \in {overrun, TRUE}
  /\ overrun' => elapsed' > 0

(* lastTime = getUsTime(), then d more units of time. *)
Stamp(d) ==
  /\ overrun' \in IF d > 0 THEN {overrun, TRUE} ELSE {overrun}
  /\ elapsed' = IF overrun THEN Cap ELSE Capped(d)

(* d units of time, then lastTime = getUsTime(). *)
LateStamp ==
  /\ overrun' \in {overrun, TRUE}
  /\ elapsed' = IF overrun' THEN Cap ELSE 0
=============================================================================
