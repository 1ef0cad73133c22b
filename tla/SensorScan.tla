----------------------------- MODULE SensorScan -----------------------------
(***************************************************************************)
(* One sensor's queue between its two users: the echo interrupt, which     *)
(* pushes a sample as one step, and main, which scans the queue with       *)
(* getChanges or resets it, and which the interrupt may preempt between    *)
(* any two of its memory accesses.  Nothing masks the interrupt and no     *)
(* member of the queue is volatile or atomic.  Samples are numbered in the *)
(* order taken, so that a slot's content tells which sample it is.         *)
(***************************************************************************)
EXTENDS MyQueue

CONSTANTS MaxSamples,    \* bound: samples taken in a behaviour
          PushesPerScan  \* samples that may arrive during one call of main's

ASSUME ScanAssumption ==
  /\ MaxSamples \in Nat /\ PushesPerScan \in Nat
  /\ Values = 0 .. MaxSamples

VARIABLES pc,        \* where main is
          i,         \* getChanges' loop variable
          arrLen,    \* the length of the vector arr
          k,         \* the argument of the operator[] call under way
          slot,      \* the slot it is about to read
          part,      \* the first of the two loads of a size() under way
          taken,     \* samples taken so far: the number of the newest
          pushes,    \* samples that arrived during this call
          torn,      \* history: one came between the loads of a size()
          since,     \* history: samples taken before the last reset
          atStart    \* history: samples taken before this scan

locals == <<i, arrLen, k, slot>>
history == <<torn, since, atStart>>
vars == <<queue, pc, locals, part, taken, pushes, history>>

NoPart == [field |-> "none", value |-> 0]

ScanInit ==
  /\ Init
  /\ pc = "idle"
  /\ i = 0 /\ arrLen = 0 /\ k = 0 /\ slot = 0
  /\ part = NoPart
  /\ taken = 0 /\ pushes = 0 /\ torn = FALSE /\ since = 0 /\ atStart = 0

(* The interrupt runs to its end before main continues. *)
Interrupt ==
  /\ taken < MaxSamples
  /\ taken' = taken + 1
  /\ Push(taken + 1)
  /\ IF pc = "idle" THEN UNCHANGED pushes
     ELSE pushes < PushesPerScan /\ pushes' = pushes + 1
  /\ torn' = (torn \/ part # NoPart)
  /\ UNCHANGED <<pc, locals, part, since, atStart>>

(* size() subtracts front from back; the compiler loads them in any order. *)
LoadOne ==
  /\ pc \in {"alloc", "test", "assert"}
  /\ part = NoPart
  /\ \E f \in {"front", "back"} : part' = [field |-> f, value |-> queue[f]]
  /\ UNCHANGED <<queue, pc, locals, taken, pushes, history>>

(* The value of the size() under way. *)
SizeRead ==
  IF part.field = "back" THEN part.value - queue.front ELSE queue.back - part.value

SizeIsRead == part # NoPart /\ part' = NoPart

StartScan ==
  /\ pc = "idle"
  /\ pc' = "alloc"
  /\ pushes' = 0
  /\ torn' = FALSE
  /\ atStart' = taken
  /\ UNCHANGED <<queue, locals, part, taken, since>>

(* std::vector<int> arr(queue.size()) throws on a negative length. *)
Alloc ==
  /\ pc = "alloc"
  /\ SizeIsRead
  /\ IF SizeRead < 0 THEN pc' = "failed" /\ UNCHANGED arrLen
     ELSE pc' = "test" /\ arrLen' = SizeRead
  /\ i' = 0
  /\ UNCHANGED <<queue, k, slot, taken, pushes, history>>

(* Mutant of Test: i <= queue.size(). *)
TestLate ==
  /\ pc = "test"
  /\ SizeIsRead
  /\ pc' = IF i > SizeRead THEN "idle" ELSE IF i = 0 THEN "store" ELSE "assert"
  /\ k' = i
  /\ UNCHANGED <<queue, i, arrLen, slot, taken, pushes, history>>

(* i < queue.size(); element 0 is stored without reading the queue. *)
Test ==
  /\ pc = "test"
  /\ SizeIsRead
  /\ pc' = IF i >= SizeRead THEN "idle" ELSE IF i = 0 THEN "store" ELSE "assert"
  /\ k' = i
  /\ UNCHANGED <<queue, i, arrLen, slot, taken, pushes, history>>

(* Mutant of Assert: assertions are compiled out. *)
NoAssert ==
  /\ pc = "assert"
  /\ SizeIsRead
  /\ pc' = "front"
  /\ UNCHANGED <<queue, locals, taken, pushes, history>>

(* operator[]: the assertion, then front, then the slot. *)
Assert ==
  /\ pc = "assert"
  /\ SizeIsRead
  /\ pc' = IF k < SizeRead THEN "front" ELSE "failed"
  /\ UNCHANGED <<queue, locals, taken, pushes, history>>

LoadFront ==
  /\ pc = "front"
  /\ slot' = queue.front + k
  /\ pc' = "read"
  /\ UNCHANGED <<queue, i, arrLen, k, part, taken, pushes, history>>

(* The conditions of getChanges read queue[i] and queue[i - 1], as often   *)
(* as they turn out (any number of times here); then arr[i] is stored.     *)
Read ==
  /\ pc = "read"
  /\ \/ pc' = "assert" /\ k' \in {i - 1, i}
     \/ pc' = "store" /\ UNCHANGED k
  /\ UNCHANGED <<queue, i, arrLen, slot, part, taken, pushes, history>>

Store ==
  /\ pc = "store"
  /\ i' = i + 1
  /\ pc' = "test"
  /\ UNCHANGED <<queue, arrLen, k, slot, part, taken, pushes, history>>

(* Mutant of ResetOrder: the stores are swapped. *)
ResetOrderSwapped == <<"front", "back">>

(* reset: front = back = 0 stores back first. *)
ResetOrder == <<"back", "front">>

ResetFirst ==
  /\ pc = "idle"
  /\ queue' = [queue EXCEPT ![ResetOrder[1]] = 0]
  /\ since' = taken
  /\ pushes' = 0
  /\ pc' = "reset"
  /\ UNCHANGED <<locals, part, taken, torn, atStart>>

ResetSecond ==
  /\ pc = "reset"
  /\ queue' = [queue EXCEPT ![ResetOrder[2]] = 0]
  /\ pc' = "idle"
  /\ UNCHANGED <<locals, part, taken, pushes, history>>

Main ==
  \/ LoadOne \/ StartScan \/ Alloc \/ Test \/ Assert \/ LoadFront \/ Read \/ Store
  \/ ResetFirst \/ ResetSecond

ScanNext == Interrupt \/ Main

ScanSpec == ScanInit /\ [][ScanNext]_vars

----------------------------------------------------------------------------

(* Whatever the interrupt preempts, a reset included, the queue keeps its  *)
(* invariant: the push that hits a half-done reset is not harmful.  (Its   *)
(* indices stay in range, the assertion in push holds and the queue is the *)
(* sliding window at every moment: TypeOK, FullAtArrayEnd and              *)
(* ImplementsSlidingWindow of MyQueue are checked of this module, too.)    *)
QueueStaysSound == pc # "reset" => IInv

(* operator[]'s assert(0 <= i && i < size()), and vector's length, fail    *)
(* only if a sample came between the two loads of a size().                *)
AssertionsHoldUnlessTorn == pc = "failed" => torn

(* With one sample per scan at most, every slot main reads is in the array *)
(* and holds a sample of the window as it was when the scan began, or one  *)
(* taken since: never one from before a reset, nor one already dropped.    *)
ReadsWindowSample ==
  pc = "read" =>
    /\ slot \in Slots
    /\ queue.a[slot] > since
    /\ queue.a[slot] > atStart - W

(* arr[i] is stored beyond the vector's end, which keeps the first size,   *)
(* only by a scan that began while the window was filling.                 *)
StoresInsideArr ==
  pc = "store" /\ atStart - since >= W /\ ~torn => i < arrLen

(* No access of a scan, in either array, is outside of it or stale,        *)
(* although the loop asks for the size anew each time.                     *)
AccessesAreSound == ReadsWindowSample /\ StoresInsideArr
=============================================================================
