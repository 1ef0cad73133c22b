---------------------------- MODULE ChangesCheck ----------------------------
(***************************************************************************)
(* getChanges over every window two sensors can fill, sample by sample:    *)
(* against its definition by runs, and for what the next sample may and    *)
(* may not do to the marks of the samples that were there before.          *)
(***************************************************************************)
EXTENDS Changes

VARIABLE window   \* one sensor's window

Sliding == INSTANCE SlidingWindow WITH Values <- Distances, win <- window, ready <- TRUE

WindowInit == window = <<>>

Sample(x) == window' = Sliding!Slide(window, x)

Reset == window' = <<>>

WindowNext == Reset \/ \E x \in Distances : Sample(x)

WindowSpec == WindowInit /\ [][WindowNext]_window

----------------------------------------------------------------------------

(* The scan of getChanges, which looks one mark back, marks exactly the    *)
(* odd members of the runs of falls and rises.                             *)
ScanMatchesRuns == getChanges(window) = MarkedByRuns(window)

(* A window whose object comes and goes sharply: no two falls in a row. *)
Sharp(q) == \A i \in 2 .. Len(q) : Falls(q, i) => ~Falls(q, i - 1)

(* As the window slides, a sharp detection stays with its sample until the *)
(* sample before it is gone; it never appears at a sample that was passed  *)
(* over.  (A run of falls has its marks swap members instead, when its     *)
(* first member's predecessor slides out.)                                 *)
SharpDetectionsStay ==
  [][ Len(window') = W /\ Len(window) = W /\ Sharp(window) =>
        \A i \in 2 .. W - 1 :
          getChanges(window')[i] = -1 <=> getChanges(window)[i + 1] = -1 ]_window
=============================================================================
