------------------------------ MODULE MyQueue ------------------------------
(***************************************************************************)
(* MyQueue<T, N, W> of HC_SR04_Ultrasonic_Library/MyQueue.h: the last W    *)
(* samples of a sensor as a window that slides over an array of N slots.   *)
(* The window moves back to the array's start when its end meets the       *)
(* array's.  Each operation is one step here; module SensorScan splits the *)
(* reader's operations into the loads and stores an interrupt may come     *)
(* between.                                                                *)
(***************************************************************************)
EXTENDS Integers, Sequences

CONSTANTS N,       \* slots of the array
          W,       \* width of the window
          Values   \* the samples

(* The constructor's assert(window * 2 <= n); memset makes every slot 0. *)
ASSUME QueueAssumption ==
  /\ N \in Nat
  /\ W \in Nat \ {0}
  /\ W * 2 <= N
  /\ 0 \in Values

VARIABLE queue     \* [a, front, back, valid], the members of the struct

Slots == 0 .. N - 1

Queues == [a : [Slots -> Values], front : 0 .. N, back : 0 .. N, valid : BOOLEAN]

NewQueue == [a |-> [i \in Slots |-> 0], front |-> 0, back |-> 0, valid |-> FALSE]

Size(q) == q.back - q.front

(* operator[]: the i-th of the window's samples, from 0. *)
At(q, i) == q.a[q.front + i]

(* Mutant of Compacted: the copy stops one sample short. *)
CompactedShort(q) ==
  [a |-> [i \in Slots |-> IF i < N - q.front - 1 THEN q.a[q.front + i] ELSE q.a[i]],
   front |-> 0, back |-> W, valid |-> q.valid]

(* push, when the window has met the array's end: std::copy to its start. *)
Compacted(q) ==
  [a |-> [i \in Slots |-> IF i < N - q.front THEN q.a[q.front + i] ELSE q.a[i]],
   front |-> 0, back |-> W, valid |-> q.valid]

(* Mutant of MadeRoom: the array's end is forgotten. *)
NoRoomMade(q) == q

MadeRoom(q) == IF q.back = N THEN Compacted(q) ELSE q

Stored(q, x) ==
  [a |-> [q.a EXCEPT ![q.back] = x],
   front |-> q.front, back |-> q.back + 1, valid |-> q.valid]

(* Mutant of Trimmed: the oldest sample is never dropped. *)
Untrimmed(q) ==
  [a |-> q.a, front |-> q.front, back |-> q.back, valid |-> (q.valid \/ Size(q) >= W)]

(* push's tail: the window is ready once full, and drops its oldest sample *)
(* when it holds one too many.                                             *)
Trimmed(q) ==
  [a |-> q.a,
   front |-> IF Size(q) > W THEN q.front + 1 ELSE q.front,
   back |-> q.back,
   valid |-> (q.valid \/ Size(q) >= W)]

Pushed(q, x) == Trimmed(Stored(MadeRoom(q), x))

(* reset clears the two indices and nothing else: valid stays. *)
Cleared(q) == [a |-> q.a, front |-> 0, back |-> 0, valid |-> q.valid]

----------------------------------------------------------------------------

Init == queue = NewQueue

Push(x) == queue' = Pushed(queue, x)

Reset == queue' = Cleared(queue)

Next == Reset \/ \E x \in Values : Push(x)

Spec == Init /\ [][Next]_queue

----------------------------------------------------------------------------

(* Every member keeps its range: in particular the indices never leave the *)
(* array, whatever the mix of pushes and resets.                           *)
TypeOK == queue \in Queues

(* push's assert(size() == window): the array's end is only ever met by a  *)
(* full window, so that back = window after the copy is right.             *)
FullAtArrayEnd == queue.back = N => Size(queue) = W

(* front is never anything but max(0, back - W), which is why the two      *)
(* properties above hold: the window is full as soon as its start moved.   *)
FrontFollowsBack ==
  queue.front = IF queue.back > W THEN queue.back - W ELSE 0

FullWindowIsReady == Size(queue) = W => queue.valid

IInv == TypeOK /\ FrontFollowsBack /\ FullWindowIsReady

(* The reader's window: what operator[] returns for 0 .. size() - 1. *)
Window == [i \in 1 .. Size(queue) |-> At(queue, i - 1)]

Abstract == INSTANCE SlidingWindow WITH win <- Window, ready <- queue.valid

(* The compacting array implements the sliding window: no push or          *)
(* compaction ever loses, repeats or reorders one of the last W samples.   *)
ImplementsSlidingWindow == Abstract!Spec
=============================================================================
