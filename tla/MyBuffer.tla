------------------------------ MODULE MyBuffer ------------------------------
(***************************************************************************)
(* MyBuffer.h's ring buffer, as operators on its state.  The indices wrap  *)
(* one cell before the array's end, and equal indices mean that it is      *)
(* empty: it holds Size - 2 elements, and one more makes it look empty.    *)
(***************************************************************************)
EXTENDS Integers, Sequences

CONSTANT Size  \* _size

ASSUME SizeAssumption == Size \in Nat /\ Size > 2

Capacity == Size - 2

Buffers(T) ==
  [buf : [0 .. Size - 1 -> T], wloc : 0 .. Size - 2, rloc : 0 .. Size - 2]

(* A cleared buffer; its cells are set to zero. *)
clear(zero) == [buf |-> [i \in 0 .. Size - 1 |-> zero], wloc |-> 0, rloc |-> 0]

(* Mutant of After: an index wraps at the array's end. *)
AfterWhole(loc) == (loc + 1) % Size

After(loc) == (loc + 1) % (Size - 1)

put(b, data) == [b EXCEPT !.buf[b.wloc] = data, !.wloc = After(b.wloc)]

(* What get returns, and what it leaves. *)
get(b) == b.buf[b.rloc]
Taken(b) == [b EXCEPT !.rloc = After(b.rloc)]

available(b) == b.wloc # b.rloc

(* Its caller takes elements until none is available. *)
Flushed(b) == [b EXCEPT !.rloc = b.wloc]

----------------------------------------------------------------------------

Count(b) == IF b.wloc >= b.rloc THEN b.wloc - b.rloc ELSE Size - 1 - b.rloc + b.wloc

(* The cell of the i-th element. *)
Cell(b, i) ==
  LET loc == b.rloc + i - 1 IN IF loc < Size - 1 THEN loc ELSE loc - (Size - 1)

(* What the buffer holds, the oldest first. *)
Contents(b) == [i \in 1 .. Count(b) |-> b.buf[Cell(b, i)]]
=============================================================================
