-------------------------- MODULE SensorScanProofs --------------------------
(***************************************************************************)
(* Proofs about the queue, for every array size, width of the window and   *)
(* number of samples.  First about MyQueue alone: its indices stay in the  *)
(* array, push's assertion holds, and it implements the sliding window.    *)
(* Then under interrupts, when at most one sample comes during a call of   *)
(* main's: the queue stays sound and is a sliding window, and no access of *)
(* a scan is out of range or stale.                                        *)
(***************************************************************************)
EXTENDS SensorScan, SequenceTheorems, TLAPS

(***************************************************************************)
(* The queue by itself.                                                    *)
(***************************************************************************)

(* An empty queue satisfies the invariant. *)
LEMMA InitIInv == Init => IInv
  BY QueueAssumption
  DEF Init, IInv, TypeOK, FrontFollowsBack, FullWindowIsReady, Queues, NewQueue, Slots, Size

(* What push does to the indices, by cases on where the window is: growing *)
(* from the array's start, sliding, or meeting the array's end.            *)
LEMMA PushedFields ==
  ASSUME IInv, NEW x \in Values
  PROVE  LET r == MadeRoom(queue)
             p == Pushed(queue, x)
         IN  /\ r \in Queues
             /\ r.back \in Slots
             /\ r.back = IF queue.back = N THEN W ELSE queue.back
             /\ r.front = IF r.back > W THEN r.back - W ELSE 0
             /\ r.valid = queue.valid
             /\ p.a = [r.a EXCEPT ![r.back] = x]
             /\ p.back = r.back + 1
             /\ p.front = IF p.back > W THEN p.back - W ELSE 0
             /\ p.valid = (queue.valid \/ p.back >= W)
             /\ p \in Queues
<1> DEFINE r == MadeRoom(queue)
           s == Stored(r, x)
           p == Pushed(queue, x)
<1> USE QueueAssumption
<1>1. queue \in Queues /\ queue.front = IF queue.back > W THEN queue.back - W ELSE 0
  BY DEF IInv, TypeOK, FrontFollowsBack
<1>2. /\ r \in Queues
      /\ r.back \in Slots
      /\ r.back = IF queue.back = N THEN W ELSE queue.back
      /\ r.front = IF r.back > W THEN r.back - W ELSE 0
      /\ r.valid = queue.valid
  <2>1. CASE queue.back = N
    <3>1. r = Compacted(queue)
      BY <2>1 DEF MadeRoom
    <3>2. \A j \in Slots : j < N - queue.front => queue.front + j \in Slots
      BY <1>1 DEF Queues, Slots
    <3>3. [j \in Slots |-> IF j < N - queue.front THEN queue.a[queue.front + j] ELSE queue.a[j]]
            \in [Slots -> Values]
      BY <1>1, <3>2 DEF Queues
    <3>4. /\ r.a \in [Slots -> Values]
          /\ r.front = 0
          /\ r.back = W
          /\ r.valid = queue.valid
      BY <1>1, <3>1, <3>3 DEF Compacted, Queues
    <3>5. r \in Queues
      BY <1>1, <3>1, <3>3 DEF Compacted, Queues
    <3> HIDE DEF r
    <3> QED
      BY <2>1, <3>4, <3>5 DEF Slots
  <2>2. CASE queue.back # N
    BY <1>1, <2>2 DEF MadeRoom, Queues, Slots
  <2> QED
    BY <2>1, <2>2
<1>3. /\ s.a = [r.a EXCEPT ![r.back] = x]
      /\ s.a \in [Slots -> Values]
      /\ s.back = r.back + 1
      /\ s.front = r.front
      /\ s.valid = r.valid
      /\ s \in Queues
  BY <1>2 DEF Stored, Queues, Slots
<1>4. p = Trimmed(s)
  BY DEF Pushed
<1>5. /\ p.a = s.a
      /\ p.back = s.back
      /\ p.front = IF Size(s) > W THEN s.front + 1 ELSE s.front
      /\ p.valid = (s.valid \/ Size(s) >= W)
  BY <1>3, <1>4 DEF Trimmed, Queues
<1>6. /\ s.back \in 1 .. N
      /\ s.front = IF s.back - 1 > W THEN s.back - 1 - W ELSE 0
      /\ s.valid \in BOOLEAN
  <2> HIDE DEF r, s
  <2> QED
    BY <1>2, <1>3 DEF Queues, Slots
<1>7. /\ p.front = IF p.back > W THEN p.back - W ELSE 0
      /\ p.valid = (s.valid \/ p.back >= W)
  <2> HIDE DEF s, p
  <2> QED
    BY <1>5, <1>6 DEF Size
<1>8. p \in Queues
  <2>1. (s.valid \/ Size(s) >= W) \in BOOLEAN
    OBVIOUS
  <2>2. (IF Size(s) > W THEN s.front + 1 ELSE s.front) \in 0 .. N
    <3> HIDE DEF s
    <3> QED
      BY <1>6 DEF Size
  <2> HIDE DEF s
  <2> QED
    BY <1>3, <1>4, <2>1, <2>2 DEF Trimmed, Queues
<1> HIDE DEF r, s, p
<1>9. /\ r \in Queues
      /\ r.back \in Slots
      /\ r.back = IF queue.back = N THEN W ELSE queue.back
      /\ r.front = IF r.back > W THEN r.back - W ELSE 0
      /\ r.valid = queue.valid
      /\ p.a = [r.a EXCEPT ![r.back] = x]
      /\ p.back = r.back + 1
      /\ p.front = IF p.back > W THEN p.back - W ELSE 0
      /\ p.valid = (queue.valid \/ p.back >= W)
      /\ p \in Queues
  BY <1>2, <1>3, <1>5, <1>7, <1>8
<1> QED
  BY <1>9 DEF r, p

(* The inductive invariant is kept by every operation. *)
LEMMA NextIInv == IInv /\ [Next]_queue => IInv'
<1> SUFFICES ASSUME IInv, [Next]_queue PROVE IInv'
  OBVIOUS
<1> USE QueueAssumption
<1>1. CASE Reset
  BY <1>1 DEF Reset, Cleared, IInv, TypeOK, FrontFollowsBack, FullWindowIsReady, Queues, Size
<1>2. CASE \E x \in Values : Push(x)
  <2>1. PICK x \in Values : Push(x)
    BY <1>2
  <2> DEFINE p == Pushed(queue, x)
  <2>2. /\ p \in Queues
        /\ p.front = IF p.back > W THEN p.back - W ELSE 0
        /\ p.valid = (queue.valid \/ p.back >= W)
    BY PushedFields
  <2>3. queue' = p
    BY <2>1 DEF Push
  <2> HIDE DEF p
  <2>4. TypeOK' /\ FrontFollowsBack'
    BY <2>2, <2>3 DEF TypeOK, FrontFollowsBack
  <2>5. FullWindowIsReady'
    <3>1. p.back - p.front = W => p.back >= W
      BY <2>2 DEF Queues
    <3> QED
      BY <2>2, <2>3, <3>1 DEF FullWindowIsReady, Size
  <2> QED
    BY <2>4, <2>5 DEF IInv
<1>3. CASE UNCHANGED queue
  BY <1>3 DEF IInv, TypeOK, FrontFollowsBack, FullWindowIsReady, Size
<1> QED
  BY <1>1, <1>2, <1>3 DEF Next

(* The invariant holds throughout: it strengthens the two that follow with *)
(* front = max(0, back - W), without which neither is inductive.           *)
THEOREM Invariance == Spec => []IInv
<1> QED
  BY InitIInv, NextIInv, PTL DEF Spec

(* Every member of the struct keeps its range, so that no push writes and  *)
(* no operator[] reads outside the array, for every N and W.               *)
THEOREM TypeCorrect == Spec => []TypeOK
<1>1. IInv => TypeOK
  BY DEF IInv
<1> QED
  BY <1>1, Invariance, PTL

(* The assertion of push, size() == window, never fires while operations   *)
(* do not overlap.                                                         *)
THEOREM AssertionHolds == Spec => []FullAtArrayEnd
<1>1. IInv => FullAtArrayEnd
  BY QueueAssumption DEF IInv, TypeOK, FrontFollowsBack, FullAtArrayEnd, Size, Queues
<1> QED
  BY <1>1, Invariance, PTL

----------------------------------------------------------------------------

(* The window is a sequence of at most W samples. *)
LEMMA WindowIsSequence ==
  ASSUME IInv
  PROVE  /\ Window \in Seq(Values)
         /\ Len(Window) = Size(queue)
         /\ Size(queue) \in 0 .. W
         /\ \A j \in 1 .. Size(queue) : Window[j] = queue.a[queue.front + j - 1]
<1> USE QueueAssumption
<1>1. Size(queue) \in 0 .. W
  BY DEF IInv, TypeOK, FrontFollowsBack, Queues, Size
<1>2. \A j \in 1 .. Size(queue) :
        /\ queue.front + (j - 1) \in Slots
        /\ queue.front + (j - 1) = queue.front + j - 1
        /\ At(queue, j - 1) \in Values
  BY <1>1 DEF IInv, TypeOK, Queues, Size, Slots, At
<1> QED
  BY <1>1, <1>2 DEF Window, At

(* Moving the window to the array's start changes no sample of it. *)
LEMMA CompactionKeepsWindow ==
  ASSUME IInv
  PROVE  LET r == MadeRoom(queue)
         IN  /\ Size(r) = Size(queue)
             /\ \A j \in 1 .. Size(queue) : r.a[r.front + j - 1] = Window[j]
<1> DEFINE r == MadeRoom(queue)
<1> USE QueueAssumption
<1>1. CASE queue.back # N
  BY <1>1, WindowIsSequence DEF MadeRoom
<1>2. CASE queue.back = N
  <2>1. r = Compacted(queue)
    BY <1>2 DEF MadeRoom
  <2>2. queue.front = N - W /\ Size(queue) = W
    BY <1>2 DEF IInv, TypeOK, FrontFollowsBack, Queues, Size
  <2>3. r.front = 0 /\ r.back = W
    BY <2>1 DEF Compacted
  <2>4. ASSUME NEW j \in 1 .. W PROVE r.a[j - 1] = queue.a[queue.front + j - 1]
    <3>1. j - 1 \in Slots /\ j - 1 < N - queue.front
      BY <2>2 DEF Slots
    <3>2. r.a[j - 1] = queue.a[queue.front + (j - 1)]
      BY <2>1, <3>1 DEF Compacted
    <3> QED
      BY <2>2, <3>2
  <2> HIDE DEF r
  <2>5. Size(r) = Size(queue)
    BY <2>2, <2>3 DEF Size
  <2>6. \A j \in 1 .. Size(queue) : r.a[r.front + j - 1] = Window[j]
    BY <2>2, <2>3, <2>4, WindowIsSequence
  <2> QED
    BY <2>5, <2>6 DEF r
<1> QED
  BY <1>1, <1>2

(* A function with a sequence's domain and elements is that sequence. *)
LEMMA SequenceAsFunction ==
  ASSUME NEW S, NEW t \in Seq(S), NEW n \in Nat, n = Len(t),
         NEW w, w = [j \in 1 .. n |-> w[j]], \A j \in 1 .. n : w[j] = t[j]
  PROVE  w = t /\ Len(w) = n
<1>1. t = [j \in 1 .. n |-> t[j]]
  OBVIOUS
<1> QED
  BY <1>1

(* A push slides the window by the new sample. *)
LEMMA PushSlides ==
  ASSUME IInv, NEW x \in Values, queue' = Pushed(queue, x)
  PROVE  /\ Window' = Abstract!Slide(Window, x)
         /\ Len(Window') = W <=> Pushed(queue, x).back >= W
<1> USE QueueAssumption
<1> DEFINE r == MadeRoom(queue)
           p == Pushed(queue, x)
           sz == Size(queue)
<1>1. /\ r \in Queues
      /\ r.back \in Slots
      /\ r.front = IF r.back > W THEN r.back - W ELSE 0
      /\ p.a = [r.a EXCEPT ![r.back] = x]
      /\ p.back = r.back + 1
      /\ p.front = IF p.back > W THEN p.back - W ELSE 0
  BY PushedFields
<1>2. /\ r.back - r.front = sz
      /\ \A j \in 1 .. sz : r.a[r.front + j - 1] = Window[j]
  BY CompactionKeepsWindow DEF Size
<1>3. /\ Window \in Seq(Values)
      /\ Len(Window) = sz
      /\ sz \in 0 .. W
  BY WindowIsSequence
<1>4. Window' = [j \in 1 .. (p.back - p.front) |-> p.a[p.front + (j - 1)]]
  BY DEF Window, Size, At
<1> HIDE DEF r, p, sz
<1>5. CASE sz < W
  <2>1. /\ r.front = 0
        /\ r.back = sz
        /\ p.front = 0
        /\ p.back = sz + 1
    BY <1>1, <1>2, <1>3, <1>5 DEF Queues
  <2>2. \A j \in 1 .. sz + 1 : p.a[p.front + (j - 1)] = IF j = sz + 1 THEN x ELSE Window[j]
    <3>1. r.a \in [Slots -> Values]
      BY <1>1 DEF Queues
    <3> QED
      BY <1>1, <1>2, <1>3, <2>1, <3>1 DEF Slots
  <2>3. /\ Append(Window, x) \in Seq(Values)
        /\ Len(Append(Window, x)) = sz + 1
        /\ \A j \in 1 .. sz + 1 : Append(Window, x)[j] = IF j = sz + 1 THEN x ELSE Window[j]
    BY <1>3, AppendProperties
  <2>4. Window' = [j \in 1 .. sz + 1 |-> p.a[p.front + (j - 1)]]
    <3>1. p.back - p.front = sz + 1
      BY <1>3, <2>1
    <3> QED
      BY <1>4, <3>1
  <2>5. \A j \in 1 .. sz + 1 : Window'[j] = IF j = sz + 1 THEN x ELSE Window[j]
    BY <2>2, <2>4
  <2> DEFINE w == Window'
             t == Append(Window, x)
  <2>6. w = [j \in 1 .. sz + 1 |-> w[j]] /\ \A j \in 1 .. sz + 1 : w[j] = t[j]
    BY <2>3, <2>4, <2>5
  <2>7. t \in Seq(Values) /\ Len(t) = sz + 1 /\ sz + 1 \in Nat
    BY <1>3, <2>3
  <2> HIDE DEF w, t
  <2>8. w = t /\ Len(w) = sz + 1
    BY <2>6, <2>7, SequenceAsFunction
  <2> QED
    BY <1>3, <1>5, <2>1, <2>8 DEF Abstract!Slide, p, w, t
<1>6. CASE sz = W
  <2>1. /\ r.front = r.back - W
        /\ r.back \in W .. N - 1
        /\ p.front = r.front + 1
        /\ p.back - p.front = W
    BY <1>1, <1>2, <1>3, <1>6 DEF Queues, Slots
  <2>2. \A j \in 1 .. W : p.a[p.front + (j - 1)] = IF j = W THEN x ELSE Window[j + 1]
    <3>1. r.a \in [Slots -> Values]
      BY <1>1 DEF Queues
    <3>2. ASSUME NEW j \in 1 .. W
          PROVE  p.a[p.front + (j - 1)] = IF j = W THEN x ELSE Window[j + 1]
      <4>1. p.front + (j - 1) = r.front + j /\ r.front + j \in Slots
        BY <2>1 DEF Slots
      <4>2. p.a[r.front + j] = IF r.front + j = r.back THEN x ELSE r.a[r.front + j]
        BY <1>1, <3>1, <4>1
      <4>3. j # W => r.a[r.front + (j + 1) - 1] = Window[j + 1]
        BY <1>2, <1>6
      <4>4. r.front + (j + 1) - 1 = r.front + j /\ (r.front + j = r.back <=> j = W)
        BY <2>1
      <4> QED
        BY <4>1, <4>2, <4>3, <4>4
    <3> QED
      BY <3>2
  <2>3. /\ Tail(Window) \in Seq(Values)
        /\ Len(Tail(Window)) = W - 1
        /\ \A j \in 1 .. W - 1 : Tail(Window)[j] = Window[j + 1]
    BY <1>3, <1>6, HeadTailProperties
  <2>4. /\ Append(Tail(Window), x) \in Seq(Values)
        /\ Len(Append(Tail(Window), x)) = W
        /\ \A j \in 1 .. W :
             Append(Tail(Window), x)[j] = IF j = W THEN x ELSE Window[j + 1]
    <3> DEFINE t == Tail(Window)
    <3> HIDE DEF t
    <3>1. /\ Append(t, x) \in Seq(Values)
          /\ Len(Append(t, x)) = W
          /\ \A j \in 1 .. W - 1 : Append(t, x)[j] = t[j]
          /\ Append(t, x)[W] = x
      BY <2>3, AppendProperties DEF t
    <3> QED
      BY <2>3, <3>1 DEF t
  <2>5. Window' = [j \in 1 .. W |-> Window'[j]]
    BY <1>4, <2>1
  <2>6. \A j \in 1 .. W : Window'[j] = IF j = W THEN x ELSE Window[j + 1]
    BY <1>4, <2>1, <2>2
  <2>7. p.back >= W
    BY <1>1, <2>1
  <2> DEFINE w == Window'
             t == Append(Tail(Window), x)
  <2>8. w = [j \in 1 .. W |-> w[j]] /\ \A j \in 1 .. W : w[j] = t[j]
    BY <2>4, <2>5, <2>6
  <2>9. t \in Seq(Values) /\ Len(t) = W
    BY <2>4
  <2> HIDE DEF w, t
  <2>10. w = t /\ Len(w) = W
    BY <2>8, <2>9, SequenceAsFunction
  <2> QED
    BY <1>3, <1>6, <2>7, <2>10 DEF Abstract!Slide, p, w, t
<1> QED
  BY <1>3, <1>5, <1>6

(* Every operation is one of the sliding window's, or leaves it alone. *)
LEMMA StepRefines ==
  ASSUME IInv, IInv', [Next]_queue
  PROVE  [Abstract!Next]_(Abstract!vars)
<1> USE QueueAssumption
<1>1. CASE Reset
  <2>1. queue'.front = 0 /\ queue'.back = 0 /\ queue'.valid = queue.valid
    BY <1>1 DEF Reset, Cleared
  <2>2. Window' = <<>>
    BY <2>1 DEF Window, Size
  <2> QED
    BY <2>1, <2>2 DEF Abstract!Next, Abstract!Reset
<1>2. CASE \E x \in Values : Push(x)
  <2>1. PICK x \in Values : Push(x)
    BY <1>2
  <2>2. queue' = Pushed(queue, x)
    BY <2>1 DEF Push
  <2>3. /\ Window' = Abstract!Slide(Window, x)
        /\ Len(Window') = W <=> queue'.back >= W
    BY <2>2, PushSlides
  <2>4. queue'.valid = (queue.valid \/ Len(Window') = W)
    <3>1. queue'.valid = (queue.valid \/ queue'.back >= W)
      BY <2>2, PushedFields
    <3> QED
      BY <2>3, <3>1
  <2> QED
    BY <2>1, <2>3, <2>4 DEF Abstract!Next, Abstract!Push
<1>3. CASE UNCHANGED queue
  BY <1>3 DEF Abstract!vars, Window, Size, At
<1> QED
  BY <1>1, <1>2, <1>3 DEF Next

(* The compacting array implements the sliding window, for every N, W and  *)
(* set of samples: readers see the last W samples, in order, after any mix *)
(* of pushes, compactions and resets.                                      *)
THEOREM Refinement == Spec => ImplementsSlidingWindow
<1>1. Init => Abstract!Init
  BY QueueAssumption
  DEF Init, NewQueue, Abstract!Init, Window, Size
<1>2. IInv /\ IInv' /\ [Next]_queue => [Abstract!Next]_(Abstract!vars)
  BY StepRefines
<1> QED
  BY <1>1, <1>2, Invariance, PTL DEF Spec, ImplementsSlidingWindow, Abstract!Spec

(***************************************************************************)
(* The queue under interrupts.                                             *)
(***************************************************************************)

(* The samples in the window: all since the last reset, or the last W.     *)
Held == IF taken - since < W THEN taken - since ELSE W

(* The slots from first to the window's end hold the newest samples.       *)
Numbered(first) ==
  \A s \in Slots : first <= s /\ s < queue.back =>
                     queue.a[s] = taken - queue.back + s + 1

(* Between its two stores a reset leaves the old front: the window is      *)
(* empty, or has the one sample that came since.                           *)
HalfReset ==
  /\ queue.back = pushes /\ taken = since + pushes
  /\ Numbered(0)
  /\ queue.front > 0 \/ queue.back = W => queue.valid

QueueInv ==
  /\ TypeOK
  /\ IF pc = "reset" THEN HalfReset
     ELSE IInv /\ Size(queue) = Held /\ Numbered(queue.front)

Sized == {"alloc", "test", "assert"}
Looped == {"assert", "front", "read"}
Scans == Sized \union Looped \union {"store", "failed"}

LocalsOK ==
  /\ pc \in Scans \union {"idle", "reset"}
  /\ i \in Nat /\ arrLen \in Nat /\ k \in Nat /\ slot \in Nat
  /\ part = NoPart \/ (/\ pc \in Sized
                       /\ part \in [field : {"front", "back"}, value : Nat])
  /\ taken \in Nat /\ pushes \in 0 .. PushesPerScan /\ torn \in BOOLEAN
  /\ since \in 0 .. taken /\ atStart \in 0 .. taken
  /\ pc \in Scans => since <= atStart

(* What size() has loaded is still so. *)
Fresh ==
  /\ part.field = "front" => part.value = queue.front
  /\ part.field = "back" => part.value = queue.back

(* Only the one sample tears a size(), and then none is torn any more.     *)
TornOnce ==
  pc \in Scans => IF torn THEN pushes = 1 ELSE Fresh

(* A scan reads below the size that it asked for last, unless that was     *)
(* torn: then operator[] asks anew.                                        *)
Indices ==
  /\ pc \in Looped => 1 <= i /\ (i < Size(queue) \/ torn)
  /\ pc = "assert" => k <= i /\ (torn => Fresh \/ k < Size(queue))
  /\ pc = "front" => k < Size(queue)
  /\ pc = "read" /\ pushes = 0 => queue.front <= slot /\ slot < queue.back

(* arr has the full window's length if the scan began with a full window.  *)
ArrIsWide ==
  pc \in {"test", "store"} \union Looped /\ atStart - since >= W /\ ~torn =>
    arrLen = W /\ (pc = "store" => i < W)

SInv ==
  /\ QueueInv /\ LocalsOK /\ TornOnce /\ Indices /\ ArrIsWide
  /\ ReadsWindowSample /\ AssertionsHoldUnlessTorn

----------------------------------------------------------------------------
(* The queue's part: what the interrupt and the two stores of a reset do.  *)

(* Outside of a reset a push keeps the numbering and never shrinks the     *)
(* window; a slot that was in it keeps its sample or gets the newest.      *)
LEMMA PushKeeps ==
  ASSUME IInv, NEW x \in Values, Push(x), x = taken + 1, taken' = taken + 1,
         taken \in Nat, since \in 0 .. taken, since' = since,
         Size(queue) = Held, Numbered(queue.front)
  PROVE  /\ TypeOK' /\ IInv' /\ Size(queue)' = Held' /\ Numbered(queue.front)'
         /\ Size(queue)' >= Size(queue)
         /\ \A s \in Slots : queue.front <= s /\ s < queue.back =>
              queue'.a[s] \in {queue.a[s], taken'}
<1> USE QueueAssumption
<1> DEFINE r == MadeRoom(queue)
           p == Pushed(queue, x)
<1>1. queue' = p
  BY DEF Push
<1>2. IInv' /\ TypeOK'
  <2>1. IInv'
    BY NextIInv DEF Next
  <2> QED
    BY <2>1 DEF IInv
<1>3. /\ r \in Queues
      /\ r.back \in Slots
      /\ r.back = IF queue.back = N THEN W ELSE queue.back
      /\ r.front = IF r.back > W THEN r.back - W ELSE 0
      /\ p.a = [r.a EXCEPT ![r.back] = x]
      /\ p.back = r.back + 1
      /\ p.front = IF p.back > W THEN p.back - W ELSE 0
  BY PushedFields
<1>4. /\ queue \in Queues
      /\ queue.front = IF queue.back > W THEN queue.back - W ELSE 0
  BY DEF IInv, TypeOK, FrontFollowsBack
<1>5. ASSUME NEW s \in Slots, r.front <= s, s < r.back
      PROVE  r.a[s] = taken - r.back + s + 1
  <2>1. CASE queue.back # N
    BY <1>5, <2>1 DEF MadeRoom, Numbered
  <2>2. CASE queue.back = N
    <3>1. /\ r.a = [j \in Slots |-> IF j < N - queue.front THEN queue.a[queue.front + j]
                                    ELSE queue.a[j]]
          /\ r.front = 0 /\ r.back = W
      BY <2>2 DEF MadeRoom, Compacted
    <3>2. queue.front = N - W
      BY <1>4, <2>2
    <3> HIDE DEF r
    <3>3. r.a[s] = queue.a[queue.front + s] /\ queue.front + s \in Slots
      BY <1>5, <3>1, <3>2 DEF Slots
    <3> QED
      BY <1>5, <2>2, <3>1, <3>2, <3>3 DEF Numbered, Slots
  <2> QED
    BY <2>1, <2>2
<1>6. ASSUME NEW s \in Slots, queue.front <= s, s < queue.back
      PROVE  r.a[s] = queue.a[s]
  <2>1. CASE queue.back # N
    BY <2>1 DEF MadeRoom
  <2>2. CASE queue.back = N
    <3>1. r.a = [j \in Slots |-> IF j < N - queue.front THEN queue.a[queue.front + j]
                                 ELSE queue.a[j]]
      BY <2>2 DEF MadeRoom, Compacted
    <3>2. queue.front = N - W
      BY <1>4, <2>2
    <3>3. ~(s < N - queue.front)
      BY <1>6, <3>2 DEF Slots
    <3> HIDE DEF r
    <3> QED
      BY <3>1, <3>3
  <2> QED
    BY <2>1, <2>2
<1>7. ASSUME NEW s \in Slots, queue.front <= s, s < queue.back
      PROVE  p.a[s] \in {queue.a[s], taken + 1}
  <2>1. r.a \in [Slots -> Values]
    BY <1>3 DEF Queues
  <2>2. p.a[s] = IF s = r.back THEN taken + 1 ELSE r.a[s]
    BY <1>3, <2>1
  <2> QED
    BY <1>6, <1>7, <2>2
<1>8. /\ Size(queue)' = Held' /\ Numbered(queue.front)'
      /\ Size(queue)' >= Size(queue)
  <2>1. queue'.back - queue'.front = IF queue'.back > W THEN W ELSE queue'.back
    BY <1>1, <1>3, <1>4 DEF Slots
  <2>2. Size(queue)' = Held' /\ Size(queue)' >= Size(queue)
    <3> HIDE DEF r, p
    <3> QED
      BY <1>1, <1>3, <1>4, <2>1 DEF Size, Held, Slots, Queues
  <2>3. ASSUME NEW s \in Slots, queue'.front <= s, s < queue'.back
        PROVE  queue'.a[s] = taken' - queue'.back + s + 1
    <3>1. r.a \in [Slots -> Values]
      BY <1>3 DEF Queues
    <3>2. p.a[s] = IF s = r.back THEN taken + 1 ELSE r.a[s]
      BY <1>3, <3>1
    <3> HIDE DEF r, p
    <3>3. s # r.back => r.front <= s /\ s < r.back
      BY <1>1, <1>3, <2>3 DEF Slots
    <3> QED
      BY <1>1, <1>3, <1>5, <2>3, <3>2, <3>3 DEF Slots
  <2> QED
    BY <2>2, <2>3 DEF Numbered
<1> HIDE DEF r, p
<1>9. \A s \in Slots : queue.front <= s /\ s < queue.back =>
        queue'.a[s] \in {queue.a[s], taken'}
  BY <1>1, <1>7
<1> QED
  BY <1>2, <1>8, <1>9

(* A push between the two stores of a reset lands in the first slot. *)
LEMMA PushInReset ==
  ASSUME TypeOK, HalfReset, pushes = 0, NEW x \in Values, Push(x), x = taken + 1,
         taken' = taken + 1, pushes' = 1,
         taken \in Nat, since \in 0 .. taken, since' = since
  PROVE  TypeOK' /\ HalfReset'
<1> USE QueueAssumption
<1>1. /\ queue \in Queues /\ queue.back = 0 /\ taken = since
      /\ queue.front > 0 => queue.valid
  BY DEF TypeOK, HalfReset
<1>2. MadeRoom(queue) = queue
  BY <1>1 DEF MadeRoom
<1> DEFINE st == Stored(queue, x)
<1>3. /\ st \in Queues /\ st.a = [queue.a EXCEPT ![0] = x]
      /\ st.front = queue.front /\ st.back = 1 /\ st.valid = queue.valid
  BY <1>1 DEF Stored, Queues, Slots
<1>4. queue' = Trimmed(st)
  BY <1>2 DEF Push, Pushed
<1> HIDE DEF st
<1>5. /\ ~(Size(st) > W)
      /\ Size(st) >= W <=> W = 1 /\ queue.front = 0
      /\ (st.valid \/ Size(st) >= W) \in BOOLEAN
  BY <1>1, <1>3 DEF Size, Queues
<1>6. /\ queue'.a = st.a /\ queue'.front = queue.front /\ queue'.back = 1
      /\ queue'.valid = (queue.valid \/ (W = 1 /\ queue.front = 0))
      /\ queue' \in Queues
  BY <1>3, <1>4, <1>5 DEF Trimmed, Queues
<1>7. queue'.a[0] = x
  BY <1>1, <1>3, <1>6 DEF Queues, Slots
<1>8. Numbered(0)'
  BY <1>6, <1>7 DEF Numbered, Slots
<1>9. queue'.front > 0 \/ queue'.back = W => queue'.valid
  BY <1>1, <1>6 DEF Queues
<1> QED
  BY <1>1, <1>6, <1>8, <1>9 DEF TypeOK, HalfReset

LEMMA SameQueue ==
  ASSUME QueueInv, UNCHANGED <<queue, taken, since>>, pc # "reset", pc' # "reset"
  PROVE  QueueInv'
BY DEF QueueInv, TypeOK, IInv, FrontFollowsBack, FullWindowIsReady, Numbered, Size, Held

(* Outside of a reset the window has at most W samples, none older than    *)
(* the last reset.                                                         *)
LEMMA SizeBounds ==
  ASSUME QueueInv, LocalsOK, pc # "reset"
  PROVE  /\ queue \in Queues /\ queue.front \in 0 .. N /\ queue.back \in 0 .. N
         /\ Size(queue) \in 0 .. W /\ Size(queue) = queue.back - queue.front
         /\ Size(queue) <= taken - since
         /\ taken - since >= W => Size(queue) = W
  BY QueueAssumption DEF QueueInv, TypeOK, Queues, LocalsOK, Size, Held

----------------------------------------------------------------------------
(* The initial state and the steps. *)

LEMMA InitSInv == ScanInit => SInv
<1> SUFFICES ASSUME ScanInit PROVE SInv
  OBVIOUS
<1>1. IInv
  BY InitIInv DEF ScanInit
<1>2. queue.front = 0 /\ queue.back = 0
  BY DEF ScanInit, Init, NewQueue
<1>3. QueueInv
  BY <1>1, <1>2, QueueAssumption DEF ScanInit, QueueInv, IInv, Size, Held, Numbered, Slots
<1>4. LocalsOK
  <2>1. /\ pc = "idle" /\ i = 0 /\ arrLen = 0 /\ k = 0 /\ slot = 0 /\ part = NoPart
        /\ taken = 0 /\ pushes = 0 /\ torn = FALSE /\ since = 0 /\ atStart = 0
    BY DEF ScanInit
  <2>2. 0 \in 0 .. PushesPerScan /\ 0 \in 0 .. 0
    BY ScanAssumption
  <2>3. torn \in BOOLEAN /\ pc \in Scans \union {"idle", "reset"}
    BY <2>1, Zenon
  <2> QED
    BY <2>1, <2>2, <2>3 DEF LocalsOK
<1>5. TornOnce /\ Indices /\ ArrIsWide /\ ReadsWindowSample /\ AssertionsHoldUnlessTorn
  BY DEF ScanInit, TornOnce, Indices, ArrIsWide, ReadsWindowSample,
         AssertionsHoldUnlessTorn, Scans, Sized, Looped
<1> QED
  BY <1>3, <1>4, <1>5 DEF SInv

(* The one sample that a scan lives through leaves every index that was    *)
(* compared with the size below it, and every slot that was computed with  *)
(* its sample or a newer one.                                              *)
LEMMA InterruptStep ==
  ASSUME PushesPerScan <= 1, SInv, Interrupt
  PROVE  SInv'
<1> USE QueueAssumption, ScanAssumption
<1>1. /\ taken' = taken + 1 /\ Push(taken + 1) /\ taken + 1 \in Values
      /\ pc # "idle" => pushes = 0 /\ pushes' = 1 /\ 1 <= PushesPerScan
      /\ pc = "idle" => pushes' = pushes
      /\ torn' = (torn \/ part # NoPart)
      /\ UNCHANGED <<pc, i, arrLen, k, slot, part, since, atStart>>
  BY DEF Interrupt, SInv, LocalsOK, locals
<1>2. LocalsOK'
  <2>1. torn' \in BOOLEAN
    BY <1>1
  <2> QED
    BY <1>1, <2>1 DEF SInv, LocalsOK
<1>3. CASE pc = "reset"
  <2>1. QueueInv'
    BY <1>1, <1>3, PushInReset DEF SInv, QueueInv, LocalsOK
  <2> QED
    BY <1>1, <1>2, <1>3, <2>1
    DEF SInv, TornOnce, Indices, ArrIsWide, ReadsWindowSample,
        AssertionsHoldUnlessTorn, Scans, Sized, Looped
<1>4. CASE pc # "reset"
  <2>1. /\ TypeOK' /\ IInv' /\ Size(queue)' = Held' /\ Numbered(queue.front)'
        /\ Size(queue)' >= Size(queue)
        /\ \A s \in Slots : queue.front <= s /\ s < queue.back =>
             queue'.a[s] \in {queue.a[s], taken'}
    BY <1>1, <1>4, PushKeeps DEF SInv, QueueInv, LocalsOK
  <2>2. QueueInv'
    BY <1>1, <1>4, <2>1 DEF QueueInv
  <2>3. Size(queue) \in Int /\ Size(queue)' \in Int
    <3>1. Size(queue)' \in 0 .. W
      BY <1>1, <1>2, <1>4, <2>1 DEF Held, LocalsOK
    <3> QED
      BY <1>4, <3>1, SizeBounds DEF SInv
  <2>4. CASE pc = "idle"
    BY <1>1, <1>2, <2>2, <2>4
    DEF SInv, TornOnce, Indices, ArrIsWide, ReadsWindowSample,
        AssertionsHoldUnlessTorn, Scans, Sized, Looped
  <2>5. CASE pc # "idle"
    <3>1. ~torn /\ Fresh
      BY <1>1, <1>4, <2>5 DEF SInv, TornOnce, LocalsOK
    <3>2. TornOnce'
      <4>1. CASE part # NoPart
        BY <1>1, <2>5, <4>1 DEF TornOnce
      <4>2. CASE part = NoPart
        <5>1. part'.field = "none"
          BY <1>1, <4>2 DEF NoPart
        <5> QED
          BY <1>1, <2>5, <3>1, <4>2, <5>1 DEF TornOnce, Fresh
      <4> QED
        BY <4>1, <4>2
    <3>3. Indices'
      BY <1>1, <2>1, <2>3, <2>5, <3>1 DEF SInv, Indices, LocalsOK, Looped
    <3>4. ArrIsWide'
      BY <1>1, <3>1 DEF SInv, ArrIsWide
    <3>5. ReadsWindowSample'
      <4> SUFFICES ASSUME pc = "read"
                   PROVE  /\ slot \in Slots
                          /\ queue'.a[slot] > since
                          /\ queue'.a[slot] > atStart - W
        BY <1>1 DEF ReadsWindowSample
      <4>1. slot \in Slots /\ queue.a[slot] > since /\ queue.a[slot] > atStart - W
        BY DEF SInv, ReadsWindowSample
      <4>2. queue.front <= slot /\ slot < queue.back
        BY <1>1, <2>5 DEF SInv, Indices
      <4>3. queue'.a[slot] \in {queue.a[slot], taken + 1}
        BY <1>1, <2>1, <4>1, <4>2
      <4> QED
        BY <4>1, <4>3 DEF SInv, LocalsOK
    <3>6. AssertionsHoldUnlessTorn'
      BY <1>1 DEF SInv, AssertionsHoldUnlessTorn
    <3> QED
      BY <1>2, <2>2, <3>2, <3>3, <3>4, <3>5, <3>6 DEF SInv
  <2> QED
    BY <2>4, <2>5
<1> QED
  BY <1>3, <1>4

(* A size() whose loads nothing came between is the size. *)
LEMMA SizeReadIsSize ==
  ASSUME SInv, pc # "reset", part # NoPart, Fresh
  PROVE  SizeRead = Size(queue)
  BY DEF SInv, LocalsOK, Fresh, SizeRead, Size

LEMMA SizeReadIsInt ==
  ASSUME SInv, pc # "reset", part # NoPart
  PROVE  SizeRead \in Int
<1>1. queue.front \in Int /\ queue.back \in Int
  BY SizeBounds DEF SInv
<1>2. part.value \in Nat
  BY DEF SInv, LocalsOK
<1> QED
  BY <1>1, <1>2 DEF SizeRead

LEMMA LoadOneStep ==
  ASSUME SInv, LoadOne
  PROVE  SInv'
<1>1. /\ pc \in Sized /\ part = NoPart
      /\ UNCHANGED <<queue, pc, i, arrLen, k, slot, taken, pushes, torn, since, atStart>>
  BY DEF LoadOne, Sized, locals, history
<1>2. pc # "reset" /\ QueueInv'
  BY <1>1, SameQueue DEF SInv, Sized
<1>3. /\ part' \in [field : {"front", "back"}, value : Nat]
      /\ Fresh'
  <2>1. queue \in Queues /\ queue.front \in Nat /\ queue.back \in Nat
    BY <1>2, SizeBounds DEF SInv
  <2>2. PICK f \in {"front", "back"} : part' = [field |-> f, value |-> queue[f]]
    BY DEF LoadOne
  <2>3. CASE f = "front"
    BY <1>1, <2>1, <2>2, <2>3 DEF Fresh
  <2>4. CASE f = "back"
    BY <1>1, <2>1, <2>2, <2>4 DEF Fresh
  <2> QED
    BY <2>3, <2>4
<1>4. LocalsOK'
  BY <1>1, <1>3 DEF SInv, LocalsOK
<1>5. TornOnce' /\ Indices' /\ ArrIsWide' /\ ReadsWindowSample' /\ AssertionsHoldUnlessTorn'
  BY <1>1, <1>3
  DEF SInv, TornOnce, Indices, ArrIsWide, ReadsWindowSample,
      AssertionsHoldUnlessTorn, Sized, Looped, Size
<1> QED
  BY <1>2, <1>4, <1>5 DEF SInv

(* The loop's and operator[]'s own steps. *)
LEMMA LoopStep ==
  ASSUME SInv, StartScan \/ Alloc \/ Test \/ Assert \/ LoadFront \/ Read \/ Store
  PROVE  SInv'
<1> USE QueueAssumption, ScanAssumption
<1>1. /\ UNCHANGED <<queue, taken, since>> /\ pc # "reset" /\ pc' # "reset"
      /\ part' = NoPart /\ pc \in Scans \union {"idle"}
  BY DEF StartScan, Alloc, Test, Assert, LoadFront, Read, Store, SizeIsRead,
         locals, history, SInv, LocalsOK, Sized, Looped, Scans
<1>2. QueueInv'
  BY <1>1, SameQueue DEF SInv
<1>3. Fresh' /\ Size(queue)' = Size(queue)
  BY <1>1 DEF Fresh, NoPart, Size
<1>4. /\ queue \in Queues /\ Size(queue) \in 0 .. W
      /\ Size(queue) = queue.back - queue.front
      /\ Size(queue) <= taken - since
      /\ taken - since >= W => Size(queue) = W
  BY <1>1, SizeBounds DEF SInv
<1>5. CASE StartScan
  <2>1. /\ pc' = "alloc" /\ pushes' = 0 /\ torn' = FALSE /\ atStart' = taken
        /\ UNCHANGED <<i, arrLen, k, slot, part>>
    BY <1>5 DEF StartScan, locals
  <2>2. LocalsOK'
    <3>1. torn' \in BOOLEAN /\ pc' \in Scans
      BY <2>1 DEF Scans, Sized
    <3> QED
      BY <1>1, <2>1, <3>1 DEF SInv, LocalsOK
  <2> QED
    BY <1>1, <1>2, <1>3, <2>1, <2>2
    DEF SInv, TornOnce, Indices, ArrIsWide, ReadsWindowSample,
        AssertionsHoldUnlessTorn, Looped
<1>6. CASE Alloc
  <2>1. /\ pc = "alloc" /\ part # NoPart /\ i' = 0
        /\ UNCHANGED <<k, slot, pushes, torn, atStart>>
    BY <1>6 DEF Alloc, SizeIsRead, history
  <2>2. ~torn => SizeRead = Size(queue)
    BY <1>1, <2>1, SizeReadIsSize DEF SInv, TornOnce, Scans, Sized
  <2>3. SizeRead \in Int
    BY <1>1, <2>1, SizeReadIsInt
  <2>4. \/ SizeRead < 0 /\ pc' = "failed" /\ arrLen' = arrLen
        \/ SizeRead >= 0 /\ pc' = "test" /\ arrLen' = SizeRead
    BY <1>6, <2>3 DEF Alloc
  <2>5. LocalsOK'
    BY <1>1, <2>1, <2>3, <2>4 DEF SInv, LocalsOK, Scans, Sized, Looped
  <2>6. ArrIsWide'
    BY <1>1, <1>4, <2>1, <2>2, <2>4 DEF SInv, LocalsOK, ArrIsWide, Looped, Scans, Sized
  <2> QED
    BY <1>1, <1>2, <1>3, <1>4, <2>1, <2>2, <2>4, <2>5, <2>6
    DEF SInv, TornOnce, Indices, ReadsWindowSample,
        AssertionsHoldUnlessTorn, Scans, Sized, Looped
<1>7. CASE Test
  <2>1. /\ pc = "test" /\ part # NoPart /\ k' = i
        /\ UNCHANGED <<i, arrLen, slot, pushes, torn, atStart>>
    BY <1>7 DEF Test, SizeIsRead, history
  <2>2. ~torn => SizeRead = Size(queue)
    BY <1>1, <2>1, SizeReadIsSize DEF SInv, TornOnce, Scans, Sized
  <2>3. SizeRead \in Int
    BY <1>1, <2>1, SizeReadIsInt
  <2>4. \/ i >= SizeRead /\ pc' = "idle"
        \/ i < SizeRead /\ i = 0 /\ pc' = "store"
        \/ i < SizeRead /\ i >= 1 /\ pc' = "assert"
    BY <1>7, <2>3 DEF Test, SInv, LocalsOK
  <2>5. LocalsOK'
    BY <1>1, <2>1, <2>4 DEF SInv, LocalsOK, Scans, Sized, Looped
  <2>6. ArrIsWide'
    BY <1>1, <1>4, <2>1, <2>2, <2>4 DEF SInv, LocalsOK, ArrIsWide, Looped
  <2>7. Indices'
    BY <1>1, <1>3, <1>4, <2>1, <2>2, <2>4 DEF SInv, LocalsOK, Indices, Looped
  <2> QED
    BY <1>1, <1>2, <1>3, <2>1, <2>4, <2>5, <2>6, <2>7
    DEF SInv, TornOnce, ReadsWindowSample, AssertionsHoldUnlessTorn, Scans, Sized, Looped
<1>8. CASE Assert
  <2>1. /\ pc = "assert" /\ part # NoPart
        /\ UNCHANGED <<i, arrLen, k, slot, pushes, torn, atStart>>
    BY <1>8 DEF Assert, SizeIsRead, locals, history
  <2>2. Fresh => SizeRead = Size(queue)
    BY <1>1, <2>1, SizeReadIsSize
  <2>3. ~torn => Fresh
    BY <2>1 DEF SInv, TornOnce, Scans, Sized
  <2>4. \/ k < SizeRead /\ pc' = "front"
        \/ ~(k < SizeRead) /\ pc' = "failed"
    BY <1>8 DEF Assert
  <2>5. LocalsOK'
    BY <1>1, <2>1, <2>4 DEF SInv, LocalsOK, Scans, Sized, Looped
  <2>6. Indices' /\ AssertionsHoldUnlessTorn'
    BY <1>1, <1>3, <1>4, <2>1, <2>2, <2>3, <2>4
    DEF SInv, LocalsOK, Indices, AssertionsHoldUnlessTorn, Looped
  <2> QED
    BY <1>1, <1>2, <1>3, <2>1, <2>4, <2>5, <2>6
    DEF SInv, TornOnce, ArrIsWide, ReadsWindowSample, Scans, Sized, Looped
<1>9. CASE LoadFront
  <2>1. /\ pc = "front" /\ pc' = "read" /\ slot' = queue.front + k
        /\ UNCHANGED <<i, arrLen, k, pushes, torn, atStart>>
    BY <1>9 DEF LoadFront, history
  <2>2. k < Size(queue) /\ k \in Nat /\ queue.front \in 0 .. N /\ queue.back \in 0 .. N
    BY <1>1, <2>1, SizeBounds DEF SInv, LocalsOK, Indices
  <2>3. slot' \in Slots /\ queue.front <= slot' /\ slot' < queue.back
    BY <1>4, <2>1, <2>2 DEF Slots
  <2>4. queue.a[slot'] = taken - queue.back + slot' + 1
    BY <1>1, <2>3 DEF SInv, QueueInv, Numbered
  <2>5. ReadsWindowSample'
    <3>1. queue.a[slot'] > since /\ queue.a[slot'] > atStart - W
      BY <1>4, <2>1, <2>2, <2>4 DEF SInv, LocalsOK
    <3> QED
      BY <1>1, <2>1, <2>3, <3>1 DEF ReadsWindowSample
  <2>6. LocalsOK'
    BY <1>1, <2>1, <2>2 DEF SInv, LocalsOK, Scans, Sized, Looped
  <2>7. Indices'
    BY <1>1, <1>3, <2>1, <2>3 DEF SInv, Indices, Looped
  <2> QED
    BY <1>1, <1>2, <1>3, <2>1, <2>5, <2>6, <2>7
    DEF SInv, TornOnce, ArrIsWide, AssertionsHoldUnlessTorn, Scans, Sized, Looped
<1>10. CASE Read
  <2>1. /\ pc = "read"
        /\ (pc' = "assert" /\ k' \in {i - 1, i}) \/ (pc' = "store" /\ k' = k)
        /\ UNCHANGED <<i, arrLen, slot, pushes, torn, atStart>>
    BY <1>10 DEF Read, history
  <2>2. i >= 1 /\ (i < Size(queue) \/ torn) /\ i \in Nat
    BY <2>1 DEF SInv, LocalsOK, Indices, Looped
  <2>3. LocalsOK'
    BY <1>1, <2>1, <2>2 DEF SInv, LocalsOK, Scans, Sized, Looped
  <2>4. ArrIsWide'
    BY <1>1, <1>4, <2>1, <2>2 DEF SInv, LocalsOK, ArrIsWide, Looped
  <2>5. Indices'
    BY <1>1, <1>3, <1>4, <2>1, <2>2 DEF Indices, Looped
  <2> QED
    BY <1>1, <1>2, <1>3, <2>1, <2>3, <2>4, <2>5
    DEF SInv, TornOnce, ReadsWindowSample, AssertionsHoldUnlessTorn, Scans, Sized, Looped
<1>11. CASE Store
  BY <1>1, <1>2, <1>3, <1>11
  DEF Store, history, SInv, LocalsOK, TornOnce, Indices, ArrIsWide, ReadsWindowSample,
      AssertionsHoldUnlessTorn, Scans, Sized, Looped
<1> QED
  BY <1>5, <1>6, <1>7, <1>8, <1>9, <1>10, <1>11

(* Storing back first empties the window at once. *)
LEMMA ResetStep ==
  ASSUME PushesPerScan <= 1, SInv, ResetFirst \/ ResetSecond
  PROVE  SInv'
<1> USE QueueAssumption, ScanAssumption
<1>1. CASE ResetFirst
  <2>1. /\ pc = "idle" /\ pc' = "reset" /\ pushes' = 0 /\ since' = taken
        /\ UNCHANGED <<i, arrLen, k, slot, part, taken, torn, atStart>>
    BY <1>1 DEF ResetFirst, locals
  <2>2. queue \in Queues /\ IInv
    BY <2>1 DEF SInv, QueueInv, TypeOK
  <2>3. /\ queue' \in Queues /\ queue'.back = 0 /\ queue'.front = queue.front
        /\ queue'.valid = queue.valid
    BY <1>1, <2>2 DEF ResetFirst, ResetOrder, Queues
  <2>4. queue.front > 0 => queue.valid
    BY <2>2 DEF IInv, FrontFollowsBack, FullWindowIsReady, Queues, Size
  <2>5. QueueInv'
    BY <2>1, <2>3, <2>4 DEF QueueInv, TypeOK, HalfReset, Numbered, Slots, SInv, LocalsOK
  <2> QED
    BY <2>1, <2>5
    DEF SInv, LocalsOK, TornOnce, Indices, ArrIsWide, ReadsWindowSample,
        AssertionsHoldUnlessTorn, Scans, Sized, Looped
<1>2. CASE ResetSecond
  <2>1. /\ pc = "reset" /\ pc' = "idle"
        /\ UNCHANGED <<i, arrLen, k, slot, part, taken, pushes, torn, since, atStart>>
    BY <1>2 DEF ResetSecond, locals, history
  <2>2. /\ queue \in Queues /\ HalfReset /\ pushes \in 0 .. 1
    BY <2>1 DEF SInv, QueueInv, TypeOK, LocalsOK
  <2>3. /\ queue' \in Queues /\ queue'.back = queue.back /\ queue'.front = 0
        /\ queue'.valid = queue.valid /\ queue'.a = queue.a
    BY <1>2, <2>2 DEF ResetSecond, ResetOrder, Queues
  <2>4. IInv'
    BY <2>2, <2>3 DEF HalfReset, IInv, TypeOK, FrontFollowsBack, FullWindowIsReady, Size
  <2>5. Size(queue)' = Held' /\ Numbered(queue.front)'
    BY <2>1, <2>2, <2>3 DEF HalfReset, Numbered, Size, Held, SInv, LocalsOK
  <2>6. QueueInv'
    BY <2>1, <2>3, <2>4, <2>5 DEF QueueInv, TypeOK
  <2> QED
    BY <2>1, <2>6
    DEF SInv, LocalsOK, TornOnce, Indices, ArrIsWide, ReadsWindowSample,
        AssertionsHoldUnlessTorn, Scans, Sized, Looped
<1> QED
  BY <1>1, <1>2

LEMMA StepSInv ==
  ASSUME PushesPerScan <= 1
  PROVE  SInv /\ [ScanNext]_vars => SInv'
<1> SUFFICES ASSUME SInv, [ScanNext]_vars PROVE SInv'
  OBVIOUS
<1>1. CASE Interrupt
  BY <1>1, InterruptStep
<1>2. CASE Main
  BY <1>2, LoadOneStep, LoopStep, ResetStep DEF Main
<1>3. CASE UNCHANGED vars
  BY <1>3 DEF vars, locals, history, SInv, QueueInv, TypeOK, IInv, FrontFollowsBack,
     FullWindowIsReady, Numbered, HalfReset, Size, Held, LocalsOK, TornOnce, Fresh, Indices,
     ArrIsWide, ReadsWindowSample, AssertionsHoldUnlessTorn
<1> QED
  BY <1>1, <1>2, <1>3 DEF ScanNext

LEMMA SInvHolds == ASSUME PushesPerScan <= 1 PROVE ScanSpec => []SInv
<1>1. SInv /\ [ScanNext]_vars => SInv'
  BY StepSInv
<1> QED
  BY <1>1, InitSInv, PTL DEF ScanSpec

(* Between any two memory accesses of main's a sample may come: the queue  *)
(* keeps its invariant, and its indices stay in range even inside a reset. *)
THEOREM QueueIsSound == ASSUME PushesPerScan <= 1 PROVE ScanSpec => []QueueStaysSound
<1>1. SInv => QueueStaysSound
  BY DEF SInv, QueueInv, QueueStaysSound
<1> QED
  BY <1>1, SInvHolds, PTL

(* push's assertion and its indices, also when it interrupts a reset.      *)
THEOREM InterruptedPushIsSafe ==
  ASSUME PushesPerScan <= 1
  PROVE  ScanSpec => [](TypeOK /\ FullAtArrayEnd)
<1>1. SInv => TypeOK /\ FullAtArrayEnd
  <2> SUFFICES ASSUME SInv PROVE FullAtArrayEnd
    BY DEF SInv, QueueInv
  <2>1. CASE pc = "reset"
    BY <2>1, QueueAssumption, ScanAssumption
    DEF SInv, QueueInv, LocalsOK, HalfReset, FullAtArrayEnd
  <2>2. CASE pc # "reset"
    BY <2>2, QueueAssumption
    DEF SInv, QueueInv, IInv, TypeOK, Queues, FrontFollowsBack, FullAtArrayEnd, Size
  <2> QED
    BY <2>1, <2>2
<1> QED
  BY <1>1, SInvHolds, PTL

(* Every access of a scan is inside its array and reads a sample that was  *)
(* in the window when the scan began, or one taken since.                  *)
THEOREM ScanIsSound == ASSUME PushesPerScan <= 1 PROVE ScanSpec => []AccessesAreSound
<1>1. SInv => AccessesAreSound
  BY DEF SInv, ArrIsWide, AccessesAreSound, StoresInsideArr
<1> QED
  BY <1>1, SInvHolds, PTL

(* An assertion of a scan fails only if a sample came between the loads of *)
(* one size().                                                             *)
THEOREM OnlyTearingFails ==
  ASSUME PushesPerScan <= 1
  PROVE  ScanSpec => []AssertionsHoldUnlessTorn
<1>1. SInv => AssertionsHoldUnlessTorn
  BY DEF SInv
<1> QED
  BY <1>1, SInvHolds, PTL

----------------------------------------------------------------------------
(* The sliding window under interrupts. *)

WindowOf(q) == [j \in 1 .. Size(q) |-> At(q, j - 1)]

LEMMA WindowIs == Window = WindowOf(queue) /\ Window' = WindowOf(queue')
  BY DEF Window, WindowOf

(* A window of no sample, or of one. *)
LEMMA SmallWindow ==
  ASSUME NEW q \in Queues
  PROVE  /\ q.back <= q.front => WindowOf(q) = <<>>
         /\ q.front = 0 /\ q.back = 1 => WindowOf(q) = <<q.a[0]>>
<1>1. ASSUME q.back <= q.front PROVE WindowOf(q) = <<>>
  <2>1. 1 .. Size(q) = {}
    BY <1>1 DEF Queues, Size
  <2> QED
    BY <2>1 DEF WindowOf
<1>2. ASSUME q.front = 0, q.back = 1 PROVE WindowOf(q) = <<q.a[0]>>
  <2>1. Size(q) = 1
    BY <1>2 DEF Size
  <2>2. WindowOf(q) = [j \in 1 .. 1 |-> q.a[0]]
    BY <1>2, <2>1 DEF WindowOf, At
  <2> QED
    BY <2>2
<1> QED
  BY <1>1, <1>2

(* A first sample after a reset. *)
LEMMA FirstSlide ==
  ASSUME NEW x \in Values
  PROVE  Abstract!Slide(<<>>, x) = <<x>>
  BY QueueAssumption DEF Abstract!Slide

(* The sample that comes inside a reset enters the window at once if the   *)
(* old front was 0, else with the second store.                            *)
LEMMA ScanStepRefines ==
  ASSUME PushesPerScan <= 1, SInv, SInv', [ScanNext]_vars
  PROVE  [Abstract!Next]_(Abstract!vars)
<1> USE QueueAssumption, ScanAssumption
<1>1. queue \in Queues /\ queue' \in Queues
  BY DEF SInv, QueueInv, TypeOK
<1>2. CASE UNCHANGED queue
  BY <1>2 DEF Abstract!vars, Window, Size, At
<1>3. CASE Interrupt /\ pc # "reset"
  <2>1. taken + 1 \in Values /\ Push(taken + 1) /\ pc' = pc
    BY <1>3 DEF Interrupt, SInv, LocalsOK
  <2>2. IInv /\ IInv'
    BY <1>3, <2>1 DEF SInv, QueueInv
  <2> QED
    BY <2>1, <2>2, StepRefines DEF Next
<1>4. CASE Interrupt /\ pc = "reset"
  <2>1. /\ taken + 1 \in Values /\ Push(taken + 1) /\ queue.back = 0
        /\ queue.front > 0 => queue.valid
    BY <1>4 DEF Interrupt, SInv, LocalsOK, QueueInv, HalfReset
  <2> DEFINE st == Stored(queue, taken + 1)
  <2>2. /\ st \in Queues /\ st.a = [queue.a EXCEPT ![0] = taken + 1]
        /\ st.front = queue.front /\ st.back = 1 /\ st.valid = queue.valid
    BY <1>1, <2>1 DEF Stored, Queues, Slots
  <2>3. queue' = Trimmed(st)
    BY <2>1 DEF Push, Pushed, MadeRoom
  <2> HIDE DEF st
  <2>4. /\ ~(Size(st) > W)
        /\ Size(st) >= W <=> W = 1 /\ queue.front = 0
    BY <1>1, <2>2 DEF Size, Queues
  <2>5. /\ queue'.a = st.a /\ queue'.front = queue.front /\ queue'.back = 1
        /\ queue'.valid = (queue.valid \/ (W = 1 /\ queue.front = 0))
    BY <2>2, <2>3, <2>4 DEF Trimmed, Queues
  <2>6. Window = <<>>
    BY <1>1, <2>1, SmallWindow, WindowIs DEF Queues
  <2>7. CASE queue.front = 0
    <3>1. queue'.a[0] = taken + 1
      BY <1>1, <2>2, <2>5 DEF Queues, Slots
    <3>2. Window' = <<taken + 1>>
      BY <1>1, <2>5, <2>7, <3>1, SmallWindow, WindowIs
    <3>3. Len(Window') = 1
      BY <3>2
    <3> QED
      BY <2>1, <2>5, <2>6, <2>7, <3>2, <3>3, FirstSlide DEF Abstract!Next, Abstract!Push
  <2>8. CASE queue.front # 0
    <3>1. Window' = <<>>
      BY <1>1, <2>5, <2>8, SmallWindow, WindowIs DEF Queues
    <3>2. queue'.valid = queue.valid
      BY <1>1, <2>5, <2>8 DEF Queues
    <3> QED
      BY <2>6, <3>1, <3>2 DEF Abstract!vars
  <2> QED
    BY <2>7, <2>8
<1>5. CASE ResetFirst
  <2>1. /\ queue'.back = 0 /\ queue'.valid = queue.valid /\ queue'.front >= 0
    BY <1>1, <1>5 DEF ResetFirst, ResetOrder, Queues
  <2>2. Window' = <<>>
    BY <1>1, <2>1, SmallWindow, WindowIs
  <2> QED
    BY <2>1, <2>2 DEF Abstract!Next, Abstract!Reset
<1>6. CASE ResetSecond
  <2>1. /\ queue'.back = queue.back /\ queue'.front = 0
        /\ queue'.valid = queue.valid /\ queue'.a = queue.a
        /\ queue.back \in 0 .. 1 /\ (queue.front > 0 => queue.valid)
    BY <1>1, <1>6 DEF ResetSecond, ResetOrder, Queues, SInv, LocalsOK, QueueInv, HalfReset
  <2>2. CASE queue.back = 0
    BY <1>1, <2>1, <2>2, SmallWindow, WindowIs DEF Abstract!vars, Queues
  <2>3. CASE queue.back = 1 /\ queue.front = 0
    BY <1>1, <2>1, <2>3, SmallWindow, WindowIs DEF Abstract!vars
  <2>4. CASE queue.back = 1 /\ queue.front > 0
    <3>1. Window = <<>> /\ Window' = <<queue.a[0]>>
      BY <1>1, <2>1, <2>4, SmallWindow, WindowIs DEF Queues
    <3>2. queue.a[0] \in Values
      BY <1>1 DEF Queues, Slots
    <3> QED
      BY <2>1, <2>4, <3>1, <3>2, FirstSlide DEF Abstract!Next, Abstract!Push
  <2> QED
    BY <1>1, <2>1, <2>2, <2>3, <2>4 DEF Queues
<1>7. \/ UNCHANGED queue \/ Interrupt \/ ResetFirst \/ ResetSecond
  BY DEF ScanNext, Main, LoadOne, StartScan, Alloc, Test, Assert, LoadFront, Read, Store, vars
<1> QED
  BY <1>2, <1>3, <1>4, <1>5, <1>6, <1>7

(* For main the queue is the last W samples at every moment, whatever the  *)
(* interrupt comes between.                                                *)
THEOREM InterruptedRefinement ==
  ASSUME PushesPerScan <= 1
  PROVE  ScanSpec => ImplementsSlidingWindow
<1>1. ScanInit => Abstract!Init
  BY QueueAssumption DEF ScanInit, Init, NewQueue, Abstract!Init, Window, Size
<1>2. SInv /\ SInv' /\ [ScanNext]_vars => [Abstract!Next]_(Abstract!vars)
  BY ScanStepRefines
<1> QED
  BY <1>1, <1>2, SInvHolds, PTL DEF ScanSpec, ImplementsSlidingWindow, Abstract!Spec
=============================================================================
