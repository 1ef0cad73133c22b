------------------------------ MODULE Changes ------------------------------
(***************************************************************************)
(* How main turns the two sensors' windows into detections:                *)
(* ultrasonic::getChanges marks the samples at which a distance fell or    *)
(* rose, and run() merges the falls of both sensors into `peak'.  Windows  *)
(* are sequences of distances, the oldest first.                           *)
(***************************************************************************)
EXTENDS Integers, Sequences

CONSTANTS Threshold,   \* the least change of distance that counts
          Limit,       \* a sample beyond it is out of range
          W,           \* sonicWindow, the width of a sensor's window
          Distances    \* the distances a sensor may measure

ASSUME ChangesAssumption ==
  /\ Threshold \in Nat \ {0} /\ Limit \in Nat
  /\ W \in Nat \ {0} /\ Distances \subseteq Int

(* Mutants of getChanges: every fall of a run is marked ... *)
MarksEveryStep(q) ==
  [i \in 1 .. Len(q) |->
     IF i = 1 THEN 0
     ELSE IF q[i] > Limit THEN 0
     ELSE IF q[i - 1] - q[i] >= Threshold THEN -1
     ELSE IF q[i] - q[i - 1] >= Threshold THEN 1
     ELSE 0]

(* ... and a mark is kept while the distance stays. *)
MarksLast(q) ==
  LET arr[i \in 1 .. Len(q)] ==
        IF i = 1 \/ q[i] > Limit THEN 0
        ELSE IF arr[i - 1] >= 0 /\ q[i - 1] - q[i] >= Threshold THEN -1
        ELSE IF arr[i - 1] <= 0 /\ q[i] - q[i - 1] >= Threshold THEN 1
        ELSE arr[i - 1]
  IN  arr

(* getChanges: -1 where the distance falls, 1 where it rises, else 0.  A   *)
(* fall is not marked right after a marked fall, nor a rise after a rise.  *)
getChanges(q) ==
  LET arr[i \in 1 .. Len(q)] ==
        IF i = 1 \/ q[i] > Limit THEN 0
        ELSE IF arr[i - 1] >= 0 /\ q[i - 1] - q[i] >= Threshold THEN -1
        ELSE IF arr[i - 1] <= 0 /\ q[i] - q[i - 1] >= Threshold THEN 1
        ELSE 0
  IN  arr

(* The slots of the merge loop that end up in peak, and who is put there:  *)
(* sensor 1 wins a slot at which both fell.  Beyond its end a2 reads as    *)
(* junk, the value found behind the vector's storage.                      *)
Reading(a, t, junk) == IF t \in 1 .. Len(a) THEN a[t] ELSE junk

Detected(a1, a2, junk, t) ==
  IF a1[t] = -1 THEN 1
  ELSE IF Reading(a2, t, junk) = -1 THEN 2
  ELSE 0

(* Mutant of PeakBack: the oldest detection, peak.front(). *)
PeakFront(a1, a2, junk) ==
  LET hits == {t \in 1 .. Len(a1) : Detected(a1, a2, junk, t) # 0}
  IN  IF hits = {} THEN 0
      ELSE Detected(a1, a2, junk, CHOOSE t \in hits : \A u \in hits : u >= t)

(* peak.back(), or 0 when peak is empty: the loop's last detection. *)
PeakBack(a1, a2, junk) ==
  LET hits == {t \in 1 .. Len(a1) : Detected(a1, a2, junk, t) # 0}
  IN  IF hits = {} THEN 0
      ELSE Detected(a1, a2, junk, CHOOSE t \in hits : \A u \in hits : u <= t)

(* Every a2[t] the loop evaluates is an element of a2. *)
MergeInBounds(a1, a2) == \A t \in 1 .. Len(a1) : a1[t] # -1 => t <= Len(a2)

----------------------------------------------------------------------------
(* The reference: a window is cut into maximal runs of falls and of rises, *)
(* and the odd members of a run are marked.                                *)

Falls(q, i) == i > 1 /\ q[i] <= Limit /\ q[i - 1] - q[i] >= Threshold
Rises(q, i) == i > 1 /\ q[i] <= Limit /\ q[i] - q[i - 1] >= Threshold

(* i is an odd member of a run of steps that satisfy Step. *)
OddInRun(q, i, Step(_, _)) ==
  \E first \in 2 .. i :
    /\ \A j \in first .. i : Step(q, j)
    /\ ~Step(q, first - 1)
    /\ (i - first) % 2 = 0

MarkedByRuns(q) ==
  [i \in 1 .. Len(q) |-> IF OddInRun(q, i, Falls) THEN -1
                         ELSE IF OddInRun(q, i, Rises) THEN 1
                         ELSE 0]
=============================================================================
