--------------------------- MODULE SlidingWindow ---------------------------
(***************************************************************************)
(* What a sensor's queue promises to its readers (README, "Data            *)
(* structure": "it acts as a queue, but the size will not exceed a         *)
(* predetermined constant"): the samples taken since the last reset, of    *)
(* which only the newest W are kept, in the order they were taken.         *)
(***************************************************************************)
EXTENDS Naturals, Sequences

CONSTANTS W,       \* the window's width (MyQueue's template argument W)
          Values   \* the samples

VARIABLES win,     \* the samples a reader may see, the oldest first
          ready    \* whether the window has ever been full

vars == <<win, ready>>

(* One more sample: the oldest makes room once W are kept. *)
Slide(s, x) == IF Len(s) < W THEN Append(s, x) ELSE Append(Tail(s), x)

Init ==
  /\ win = <<>>
  /\ ready = FALSE

Push(x) ==
  /\ win' = Slide(win, x)
  /\ ready' = (ready \/ Len(win') = W)

Reset ==
  /\ win' = <<>>
  /\ UNCHANGED ready

Next == Reset \/ \E x \in Values : Push(x)

Spec == Init /\ [][Next]_vars
=============================================================================
