----------------------------- MODULE GestoTrack -----------------------------
(***************************************************************************)
(* The program on the microcontroller: two sensors sampled by interrupts,  *)
(* each into its window, and main's loop that scans both windows for       *)
(* detections and drives the gesture state machine with the newest.  The   *)
(* windows are those of SlidingWindow, which MyQueue is proved to          *)
(* implement; a scan is one step here, see SensorScan for its loads.       *)
(* One unit of the recognizer's time is one period of 100 ms, in which     *)
(* each sensor measures once.                                              *)
(***************************************************************************)
EXTENDS Recognizer, Changes

VARIABLES win,        \* per sensor, its window
          measured,   \* the sensors that measured in this period
          fell,       \* history: sensors whose distance fell since the
                      \*   state last changed
          cleared,    \* history: the windows were reset when the state
                      \*   last changed
          midway      \* history: since the windows were last reset, main
                      \*   iterated (or reset them) between the two
                      \*   sensors' measurements of a period

sensing == <<win, measured, fell, cleared, midway>>
allvars == <<vars, sensing>>

Window(s) == INSTANCE SlidingWindow WITH Values <- Distances, win <- win[s], ready <- TRUE

SensingInit ==
  /\ win = [s \in Sensors |-> <<>>]
  /\ measured = {}
  /\ fell = {}
  /\ cleared = TRUE
  /\ midway = FALSE

NewestFalls(q) == q # <<>> /\ Falls(q, Len(q))

(* The interrupt at the echo's end: queue.push, then the done flag. *)
Measure(s, x) ==
  /\ s \notin measured
  /\ measured' = measured \union {s}
  /\ win' = [win EXCEPT ![s] = Window(s)!Slide(@, x)]
  /\ fell' = IF NewestFalls(win'[s]) THEN fell \union {s} ELSE fell
  /\ Update(s)
  /\ UNCHANGED <<cleared, midway>>

(* The next period begins, whether main has seen this one's samples or is  *)
(* still printing or sending.                                              *)
NextPeriod ==
  /\ measured = Sensors
  /\ measured' = {}
  /\ Pass(1)
  /\ UNCHANGED <<win, fell, cleared, midway>>

Marks(s) == getChanges(win[s])

(* Mutants of Scan: leaving state 3 resets neither queue; resets only the  *)
(* second.                                                                 *)
ScanResetting(queues) ==
  /\ \E junk \in {-1, 0} : Iterate(PeakBack(Marks(1), Marks(2), junk))
  /\ LET resets == state = 3 /\ state' = 0
     IN  /\ win' = [s \in Sensors |-> IF resets /\ s \in queues THEN <<>> ELSE win[s]]
         /\ cleared' = IF state' = state THEN cleared ELSE resets
         /\ midway' = (measured # Sensors \/ (midway /\ ~resets))
  /\ fell' = IF state' = state THEN fell ELSE {}
  /\ UNCHANGED measured

ScanWithoutReset == ScanResetting({})
ScanResettingSecond == ScanResetting({2})

(* An iteration of main's loop: scan, merge, and take a branch.  Leaving   *)
(* state 3 resets both queues.  Past a2's end the merge reads junk.        *)
Scan ==
  /\ \E junk \in {-1, 0} : Iterate(PeakBack(Marks(1), Marks(2), junk))
  /\ LET resets == state = 3 /\ state' = 0
     IN  /\ win' = IF resets THEN [s \in Sensors |-> <<>>] ELSE win
         /\ cleared' = IF state' = state THEN cleared ELSE resets
         /\ midway' = (measured # Sensors \/ (midway /\ ~resets))
  /\ fell' = IF state' = state THEN fell ELSE {}
  /\ UNCHANGED measured

SystemNext ==
  \/ \E s \in Sensors, x \in Distances : Measure(s, x)
  \/ NextPeriod
  \/ Scan

SystemSpec == Init /\ SensingInit /\ [][SystemNext]_allvars

----------------------------------------------------------------------------

(* main's merge loop reads only marks of samples that were taken ("we use  *)
(* a buffer to store past data for every sensor; main() then uses the      *)
(* data"), if main iterates when both sensors have measured: in between    *)
(* a2 may be the shorter one, as long as the windows fill, and what is     *)
(* found behind it may start a gesture.                                    *)
ReadsOnlyPastData ==
  done = Sensors /\ measured = Sensors /\ ~midway => MergeInBounds(Marks(1), Marks(2))

(* The sensor whose detection takes a state to the next. *)
Expected(st) == IF st \in {1, 21} THEN 2 ELSE 1

(* A gesture advances only on a detection made since its last one: what is *)
(* still in the windows from before never counts twice within a gesture,   *)
(* as long as main sees the windows in step.                               *)
GestureAdvancesOnNewFall ==
  [][ state' \in {12, 21, 3} /\ state' # state /\ ~midway'
      => Expected(state) \in fell ]_allvars

(* The diagram in the README: "when sensor1 detects an object at state0,   *)
(* the state changes to state1".  A gesture begins with a detection made   *)
(* in state 0 after a complete gesture, because leaving state 3 resets the *)
(* queues, and at the start; but not after a time-out, which keeps them.   *)
BeginsOnNewFallAfterReset ==
  [][ state = 0 /\ state' \in {1, 2} /\ ~midway' /\ cleared
      => state' \in fell ]_allvars

(* No detection is missed: when the expected sensor alone just fell, the   *)
(* iteration that sees it first advances the gesture.                      *)
ExpectedFallAdvances ==
  [][ LET e == Expected(state)
      IN  /\ Scan /\ ~midway'
          /\ state \in {1, 2, 12, 21}
          /\ ~Idle
          /\ NewestFalls(win[e]) /\ ~NewestFalls(win[3 - e])
          => state' # state ]_allvars
=============================================================================
