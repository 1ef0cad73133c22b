-------------------------- MODULE GestoTrackProofs --------------------------
(***************************************************************************)
(* Proofs about the detections and the program that acts on them, for      *)
(* every width of the windows, set of distances, threshold and time-out.   *)
(* First getChanges: its scan marks the odd members of the runs.  Then the *)
(* program: its merge stays in bounds, and gestures begin and advance on   *)
(* new detections.                                                         *)
(***************************************************************************)
EXTENDS GestoTrack, ChangesCheck, RecognizerProofs, SequenceTheorems, WellFoundedInduction

----------------------------------------------------------------------------
(* Runs.  That windows have a width and distances are integers is used     *)
(* throughout.                                                             *)

USE ChangesAssumption

(* The last member i of a run in the set S is an odd one.                  *)
OddIn(S, i) ==
  \E first \in 2 .. i :
    /\ first .. i \subseteq S
    /\ first - 1 \notin S
    /\ (i - first) % 2 = 0

(* The library's well-foundedness of < as a least-number principle, which  *)
(* replaces the induction of the proofs below.                             *)
LEMMA LeastNatural ==
  ASSUME NEW T, T \subseteq Nat, T # {}
  PROVE  \E x \in T : \A y \in T : x <= y
  <1> DEFINE R == OpToRel(<, Nat)
  <1>1. IsWellFoundedOn(R, Nat)
    BY NatLessThanWellFounded
  <1>2. \A x, y \in Nat : <<y, x>> \in R <=> y < x
    BY SMT DEF OpToRel
  <1> HIDE DEF R
  <1>3. PICK x \in T : \A y \in T : ~ (<<y, x>> \in R)
    BY <1>1, WFMin
  <1>4. \A y \in T : y \in Nat
    OBVIOUS
  <1>5. ASSUME NEW y \in T PROVE x <= y
    <2>1. ~(y < x)
      BY <1>2, <1>3, <1>4
    <2> QED
      BY <2>1, <1>4, SMT
  <1> QED
    BY <1>5

(* Every member of a set of numbers from 2 on belongs to a run that begins *)
(* somewhere.                                                              *)
LEMMA RunBegins ==
  ASSUME NEW S, \A j \in S : j \in Nat /\ j >= 2, NEW i \in S
  PROVE  \E first \in 2 .. i : first .. i \subseteq S /\ first - 1 \notin S
  <1> DEFINE T == {f \in 2 .. i : f .. i \subseteq S}
  <1>1. i \in Nat /\ i >= 2
    OBVIOUS
  <1>2. i \in T
    <2>1. i .. i \subseteq S
      BY <1>1, SMT
    <2> QED
      BY <1>1, <2>1, SMT
  <1>3. T \subseteq Nat
    BY <1>1, SMT
  <1>4. PICK first \in T : \A f \in T : first <= f
    BY <1>2, <1>3, LeastNatural
  <1>5. first - 1 \notin S
    <2> SUFFICES ASSUME first - 1 \in S PROVE FALSE
      OBVIOUS
    <2>1. first \in 2 .. i /\ first .. i \subseteq S
      BY <1>4
    <2>2. first - 1 \in Nat /\ first - 1 >= 2
      OBVIOUS
    <2>3. ASSUME NEW j \in (first - 1) .. i PROVE j \in S
      <3>1. j = first - 1 \/ j \in first .. i
        BY <1>1, <2>1, <2>3, SMT
      <3> QED
        BY <2>1, <3>1
    <2>4. first - 1 \in T
      <3>1. first - 1 \in 2 .. i
        BY <1>1, <2>1, <2>2, SMT
      <3> QED
        BY <3>1, <2>3
    <2>5. first <= first - 1
      BY <1>4, <2>4
    <2> QED
      BY <2>1, <2>5, <1>1, SMT
  <1> QED
    BY <1>4, <1>5

(* A member is odd in its run if and only if the one before it is not.     *)
LEMMA OddAlternates ==
  ASSUME NEW S, \A j \in S : j \in Nat /\ j >= 2, NEW i \in Nat, i >= 2
  PROVE  OddIn(S, i) <=> i \in S /\ ~OddIn(S, i - 1)
  <1>1. ASSUME OddIn(S, i) PROVE i \in S /\ ~OddIn(S, i - 1)
    <2>1. PICK f \in 2 .. i : f .. i \subseteq S /\ f - 1 \notin S /\ (i - f) % 2 = 0
      BY <1>1 DEF OddIn
    <2>2. i \in S
      <3>1. i \in f .. i
        BY <2>1, SMT
      <3> QED
        BY <2>1, <3>1
    <2>3. ASSUME OddIn(S, i - 1) PROVE FALSE
      <3>1. PICK g \in 2 .. i - 1 :
              g .. i - 1 \subseteq S /\ g - 1 \notin S /\ (i - 1 - g) % 2 = 0
        BY <2>3 DEF OddIn
      <3>2. CASE f < g
        <4>1. g - 1 \in f .. i
          BY <2>1, <3>1, <3>2, SMT
        <4> QED
          BY <2>1, <3>1, <4>1
      <3>3. CASE g < f
        <4>1. f - 1 \in g .. i - 1
          BY <2>1, <3>1, <3>3, SMT
        <4> QED
          BY <2>1, <3>1, <4>1
      <3>4. CASE f = g
        BY <2>1, <3>1, <3>4, SMT
      <3> QED
        BY <3>2, <3>3, <3>4, SMT
    <2> QED
      BY <2>2, <2>3
  <1>2. ASSUME i \in S, ~OddIn(S, i - 1) PROVE OddIn(S, i)
    <2>1. PICK f \in 2 .. i : f .. i \subseteq S /\ f - 1 \notin S
      BY <1>2, RunBegins
    <2>2. CASE f = i
      <3>1. (i - f) % 2 = 0
        BY <2>2, SMT
      <3> QED
        BY <2>1, <3>1 DEF OddIn
    <2>3. CASE f # i
      <3>1. f \in 2 .. i - 1
        BY <2>3, SMT
      <3>2. f .. i - 1 \subseteq S
        <4>1. \A j \in f .. i - 1 : j \in f .. i
          BY SMT
        <4> QED
          BY <2>1, <4>1
      <3>3. (i - 1 - f) % 2 # 0
        BY <1>2, <2>1, <3>1, <3>2 DEF OddIn
      <3>4. (i - f) % 2 = 0
        BY <3>1, <3>3, SMT
      <3> QED
        BY <2>1, <3>4 DEF OddIn
    <2> QED
      BY <2>2, <2>3
  <1> QED
    BY <1>1, <1>2

----------------------------------------------------------------------------
(* The marks of getChanges. *)

FallsOf(q) == {i \in 2 .. Len(q) : Falls(q, i)}
RisesOf(q) == {i \in 2 .. Len(q) : Rises(q, i)}

(* getChanges' loop body. *)
Body(q, arr, i) ==
  IF i = 1 \/ q[i] > Limit THEN 0
  ELSE IF arr[i - 1] >= 0 /\ q[i - 1] - q[i] >= Threshold THEN -1
  ELSE IF arr[i - 1] <= 0 /\ q[i] - q[i - 1] >= Threshold THEN 1
  ELSE 0

(* The runs of the reference are those of the sets of falls and rises.     *)
LEMMA OddInRunIsOddIn ==
  ASSUME NEW q \in Seq(Int), NEW i \in 1 .. Len(q)
  PROVE  /\ OddInRun(q, i, Falls) <=> OddIn(FallsOf(q), i)
         /\ OddInRun(q, i, Rises) <=> OddIn(RisesOf(q), i)
  <1>len. Len(q) \in Nat
    BY LenProperties
  <1>0. ASSUME NEW f \in 2 .. i
        PROVE  /\ \A j \in f .. i : j \in 2 .. Len(q)
               /\ f - 1 \in 1 .. Len(q)
    BY <1>len, <1>0, SMT
  <1>1. ASSUME NEW f \in 2 .. i
        PROVE  /\ (\A j \in f .. i : Falls(q, j)) <=> f .. i \subseteq FallsOf(q)
               /\ (\A j \in f .. i : Rises(q, j)) <=> f .. i \subseteq RisesOf(q)
    BY <1>0 DEF FallsOf, RisesOf
  <1>2. ASSUME NEW f \in 2 .. i
        PROVE  /\ Falls(q, f - 1) <=> f - 1 \in FallsOf(q)
               /\ Rises(q, f - 1) <=> f - 1 \in RisesOf(q)
    <2>1. f - 1 \in 1 .. Len(q)
      BY <1>0
    <2>2. f - 1 > 1 => f - 1 \in 2 .. Len(q)
      BY <2>1, <1>len, SMT
    <2>3. f - 1 \in 2 .. Len(q) => f - 1 > 1
      BY <1>len, SMT
    <2> QED
      BY <2>2, <2>3 DEF FallsOf, RisesOf, Falls, Rises
  <1> QED
    BY <1>1, <1>2 DEF OddInRun, OddIn

(* A sample does not both fall and rise. *)
LEMMA FallsAndRises ==
  ASSUME NEW q \in Seq(Int)
  PROVE  /\ \A i \in FallsOf(q) \union RisesOf(q) : i \in Nat /\ i >= 2 /\ i <= Len(q)
         /\ FallsOf(q) \cap RisesOf(q) = {}
  <1>len. Len(q) \in Nat
    BY LenProperties
  <1>1. ASSUME NEW i \in FallsOf(q) \union RisesOf(q) PROVE i \in Nat /\ i >= 2 /\ i <= Len(q)
    BY <1>len, SMT DEF FallsOf, RisesOf
  <1>2. ASSUME NEW i \in FallsOf(q) \cap RisesOf(q) PROVE FALSE
    <2>1. i \in 1 .. Len(q) /\ i - 1 \in 1 .. Len(q)
      BY <1>1, <1>2, <1>len, SMT
    <2>2. q[i] \in Int /\ q[i - 1] \in Int
      BY <2>1, ElementOfSeq
    <2>3. q[i - 1] - q[i] >= Threshold /\ q[i] - q[i - 1] >= Threshold
      BY <1>2 DEF FallsOf, RisesOf, Falls, Rises
    <2> QED
      BY <2>2, <2>3, ChangesAssumption, SMT
  <1> QED
    BY <1>1, <1>2

(* The reference satisfies the scan's equation ... *)
LEMMA RunsSatisfyScan ==
  ASSUME NEW q \in Seq(Int)
  PROVE  MarkedByRuns(q) = [i \in 1 .. Len(q) |-> Body(q, MarkedByRuns(q), i)]
  <1> DEFINE M == MarkedByRuns(q)
             F == FallsOf(q)
             R == RisesOf(q)
  <1>len. Len(q) \in Nat
    BY LenProperties
  <1>sets. /\ \A j \in F : j \in Nat /\ j >= 2
           /\ \A j \in R : j \in Nat /\ j >= 2
           /\ \A j \in F : j \notin R
    BY FallsAndRises
  <1>M. ASSUME NEW i \in 1 .. Len(q)
        PROVE  M[i] = IF OddIn(F, i) THEN -1 ELSE IF OddIn(R, i) THEN 1 ELSE 0
    BY <1>M, OddInRunIsOddIn DEF MarkedByRuns
  <1> HIDE DEF M, F, R
  <1>1. ASSUME NEW i \in 1 .. Len(q) PROVE M[i] = Body(q, M, i)
    <2>1. CASE i = 1
      <3>1. ~OddIn(F, i) /\ ~OddIn(R, i)
        BY <2>1, SMT DEF OddIn
      <3> QED
        BY <2>1, <3>1, <1>M DEF Body
    <2>2. CASE i # 1
      <3>i. i \in Nat /\ i >= 2 /\ i - 1 \in 1 .. Len(q) /\ i \in 2 .. Len(q) /\ i > 1
        BY <2>2, <1>len, SMT
      <3>F. OddIn(F, i) <=> i \in F /\ ~OddIn(F, i - 1)
        BY <3>i, <1>sets, OddAlternates
      <3>R. OddIn(R, i) <=> i \in R /\ ~OddIn(R, i - 1)
        BY <3>i, <1>sets, OddAlternates
      <3>prev. /\ OddIn(F, i - 1) => i - 1 \in F
               /\ OddIn(R, i - 1) => i - 1 \in R
        <4>1. ASSUME NEW S, OddIn(S, i - 1) PROVE i - 1 \in S
          <5>1. PICK f \in 2 .. i - 1 : f .. i - 1 \subseteq S
            BY <4>1 DEF OddIn
          <5>2. i - 1 \in f .. i - 1
            BY <3>i, <5>1, SMT
          <5> QED
            BY <5>1, <5>2
        <4> QED
          BY <4>1
      <3>excl. ~(OddIn(F, i - 1) /\ OddIn(R, i - 1))
        BY <3>prev, <1>sets
      <3>low. M[i - 1] >= 0 <=> ~OddIn(F, i - 1)
        BY <3>i, <1>M, SMT
      <3>high. M[i - 1] <= 0 <=> ~OddIn(R, i - 1)
        <4>1. M[i - 1] = IF OddIn(F, i - 1) THEN -1 ELSE IF OddIn(R, i - 1) THEN 1 ELSE 0
          BY <3>i, <1>M
        <4> QED
          BY <4>1, <3>excl, SMT
      <3>f. i \in F <=> q[i] <= Limit /\ q[i - 1] - q[i] >= Threshold
        BY <3>i DEF F, FallsOf, Falls
      <3>r. i \in R <=> q[i] <= Limit /\ q[i] - q[i - 1] >= Threshold
        BY <3>i DEF R, RisesOf, Rises
      <3>q. q[i] \in Int /\ Limit \in Int
        BY ElementOfSeq, ChangesAssumption, SMT
      <3>1. q[i] > Limit <=> ~(q[i] <= Limit)
        BY <3>q, SMT
      <3>2. i \in F => i \notin R
        BY <1>sets
      <3>3. Body(q, M, i) =
              IF q[i] > Limit THEN 0
              ELSE IF ~OddIn(F, i - 1) /\ q[i - 1] - q[i] >= Threshold THEN -1
              ELSE IF ~OddIn(R, i - 1) /\ q[i] - q[i - 1] >= Threshold THEN 1
              ELSE 0
        BY <2>2, <3>low, <3>high, Zenon DEF Body
      <3>4. M[i] = IF OddIn(F, i) THEN -1 ELSE IF OddIn(R, i) THEN 1 ELSE 0
        BY <1>M
      <3>5. Body(q, M, i) =
              IF i \in F /\ ~OddIn(F, i - 1) THEN -1
              ELSE IF i \in R /\ ~OddIn(R, i - 1) THEN 1
              ELSE 0
        BY <3>1, <3>3, <3>f, <3>r, Zenon
      <3>6. CASE OddIn(F, i)
        BY <3>4, <3>5, <3>6, <3>F, Zenon
      <3>7. CASE ~OddIn(F, i) /\ OddIn(R, i)
        BY <3>4, <3>5, <3>7, <3>F, <3>R, Zenon
      <3>8. CASE ~OddIn(F, i) /\ ~OddIn(R, i)
        BY <3>4, <3>5, <3>8, <3>F, <3>R, Zenon
      <3> QED
        BY <3>6, <3>7, <3>8
    <2> QED
      BY <2>1, <2>2
  <1>2. M = [i \in 1 .. Len(q) |-> M[i]]
    BY DEF M, MarkedByRuns
  <1>3. [i \in 1 .. Len(q) |-> M[i]] = [i \in 1 .. Len(q) |-> Body(q, M, i)]
    BY <1>1
  <1>4. M = [i \in 1 .. Len(q) |-> Body(q, M, i)]
    BY <1>2, <1>3
  <1> QED
    BY <1>4 DEF M

(* ... and so does the scan, since something satisfies it. *)
LEMMA ScanSatisfiesScan ==
  ASSUME NEW q \in Seq(Int)
  PROVE  getChanges(q) = [i \in 1 .. Len(q) |-> Body(q, getChanges(q), i)]
  <1>1. \E f : f = [i \in 1 .. Len(q) |-> Body(q, f, i)]
    BY RunsSatisfyScan
  <1>2. getChanges(q) = CHOOSE f : f = [i \in 1 .. Len(q) |-> Body(q, f, i)]
    BY DEF getChanges, Body
  <1> QED
    BY <1>1, <1>2, Zenon

(* getChanges' scan, which looks one mark back, marks exactly the odd      *)
(* members of the runs of falls and rises, of every window: a window at    *)
(* which the two first differ would have to differ before.                 *)
LEMMA ScanIsByRuns ==
  ASSUME NEW q \in Seq(Int)
  PROVE  getChanges(q) = MarkedByRuns(q)
  <1> DEFINE G == getChanges(q)
             M == MarkedByRuns(q)
             T == {i \in 1 .. Len(q) : G[i] # M[i]}
  <1>len. Len(q) \in Nat
    BY LenProperties
  <1>G. G = [i \in 1 .. Len(q) |-> Body(q, G, i)]
    BY ScanSatisfiesScan
  <1>M. M = [i \in 1 .. Len(q) |-> Body(q, M, i)]
    BY RunsSatisfyScan
  <1> HIDE DEF G, M
  <1>1. ASSUME T # {} PROVE FALSE
    <2>1. T \subseteq Nat
      BY <1>len, SMT
    <2>2. PICK i \in T : \A j \in T : i <= j
      BY <1>1, <2>1, LeastNatural
    <2>3. i \in 1 .. Len(q) /\ G[i] # M[i]
      BY <2>2
    <2>4. G[i] = Body(q, G, i) /\ M[i] = Body(q, M, i)
      BY <2>3, <1>G, <1>M
    <2>5. CASE i = 1
      BY <2>3, <2>4, <2>5 DEF Body
    <2>6. CASE i # 1
      <3>1. i - 1 \in 1 .. Len(q) /\ ~(i <= i - 1)
        BY <2>3, <2>6, <1>len, SMT
      <3>2. i - 1 \notin T
        BY <2>2, <3>1
      <3>3. G[i - 1] = M[i - 1]
        BY <3>1, <3>2
      <3> QED
        BY <2>3, <2>4, <3>3 DEF Body
    <2> QED
      BY <2>5, <2>6
  <1>2. \A i \in 1 .. Len(q) : G[i] = M[i]
    BY <1>1
  <1>3. DOMAIN G = 1 .. Len(q) /\ DOMAIN M = 1 .. Len(q)
    BY <1>G, <1>M, Zenon
  <1>4. G = [i \in 1 .. Len(q) |-> G[i]] /\ M = [i \in 1 .. Len(q) |-> M[i]]
    BY <1>G, <1>M, <1>3
  <1>5. G = M
    BY <1>2, <1>4
  <1> QED
    BY <1>5 DEF G, M

(* What the marks are, whatever the window: one for every sample, and a    *)
(* fall is marked only where the distance falls.                           *)
LEMMA MarksOf ==
  ASSUME NEW q \in Seq(Int)
  PROVE  /\ getChanges(q) \in Seq({-1, 0, 1})
         /\ Len(getChanges(q)) = Len(q)
         /\ \A t \in 1 .. Len(q) : getChanges(q)[t] = -1 => t \in 2 .. Len(q) /\ Falls(q, t)
  <1> DEFINE G == getChanges(q)
  <1>len. Len(q) \in Nat
    BY LenProperties
  <1>G. G = [i \in 1 .. Len(q) |-> Body(q, G, i)]
    BY ScanSatisfiesScan
  <1> HIDE DEF G
  <1>1. \A i : Body(q, G, i) \in {-1, 0, 1}
    BY DEF Body
  <1>2. G \in [1 .. Len(q) -> {-1, 0, 1}]
    BY <1>G, <1>1, Zenon
  <1>3. G \in Seq({-1, 0, 1}) /\ Len(G) = Len(q)
    BY <1>2, <1>len, IsASeq, LenProperties, SMT
  <1>4. ASSUME NEW t \in 1 .. Len(q), G[t] = -1 PROVE t \in 2 .. Len(q) /\ Falls(q, t)
    <2>1. Body(q, G, t) = -1
      BY <1>4, <1>G
    <2>2. t # 1 /\ ~(q[t] > Limit) /\ q[t - 1] - q[t] >= Threshold
      BY <2>1, SMT DEF Body
    <2>3. t \in 2 .. Len(q) /\ t > 1
      BY <2>2, <1>len, SMT
    <2>4. q[t] \in Int
      BY ElementOfSeq
    <2>5. q[t] <= Limit
      BY <2>2, <2>4, ChangesAssumption, SMT
    <2> QED
      BY <2>2, <2>3, <2>5 DEF Falls
  <1> QED
    BY <1>3, <1>4 DEF G

(* A fall is marked unless the sample before it falls as well.             *)
LEMMA SharpMarks ==
  ASSUME NEW q \in Seq(Int), NEW t \in 2 .. Len(q), Falls(q, t) => ~Falls(q, t - 1)
  PROVE  getChanges(q)[t] = -1 <=> Falls(q, t)
  <1> DEFINE G == getChanges(q)
  <1>t. t \in 1 .. Len(q) /\ t - 1 \in 1 .. Len(q) /\ t # 1
    BY LenProperties, SMT
  <1>1. ASSUME Falls(q, t) PROVE G[t] = -1
    <2>1. G[t - 1] # -1
      BY <1>1, <1>t, MarksOf
    <2>2. G[t - 1] \in {-1, 0, 1}
      BY <1>t, MarksOf, ElementOfSeq
    <2>3. G[t] = Body(q, G, t)
      <3>1. G = [i \in 1 .. Len(q) |-> Body(q, G, i)]
        BY ScanSatisfiesScan
      <3> HIDE DEF G
      <3> QED
        BY <3>1, <1>t
    <2> HIDE DEF G
    <2>4. q[t] \in Int /\ q[t] <= Limit /\ q[t - 1] - q[t] >= Threshold
      BY <1>1, <1>t, ElementOfSeq DEF Falls
    <2>5. ~(q[t] > Limit) /\ G[t - 1] >= 0
      BY <2>1, <2>2, <2>4, ChangesAssumption, SMT
    <2> QED
      BY <2>3, <2>4, <2>5, <1>t, Zenon DEF Body
  <1> QED
    BY <1>1, <1>t, MarksOf

----------------------------------------------------------------------------
(* The check of getChanges, in a window of its own. *)

(* What one more sample makes of a window of at most W.                    *)
LEMMA Slid ==
  ASSUME NEW S, NEW q \in Seq(S), Len(q) <= W, NEW x \in S, NEW r,
         r = IF Len(q) < W THEN Append(q, x) ELSE Append(Tail(q), x)
  PROVE  /\ r \in Seq(S) /\ Len(r) <= W
         /\ Len(r) = IF Len(q) < W THEN Len(q) + 1 ELSE W
         /\ r[Len(r)] = x
         /\ Len(q) < W => \A t \in 1 .. Len(q) : r[t] = q[t]
         /\ ~(Len(q) < W) => \A t \in 1 .. W - 1 : r[t] = q[t + 1]
  <1>len. Len(q) \in Nat
    BY LenProperties
  <1>1. CASE Len(q) < W
    <2>1. r = Append(q, x)
      BY <1>1
    <2> QED
      BY <1>1, <1>len, <2>1, AppendProperties, SMT
  <1>2. CASE ~(Len(q) < W)
    <2>1. r = Append(Tail(q), x) /\ Len(q) = W
      BY <1>2, <1>len, SMT
    <2>2. q # <<>>
      BY <2>1, EmptySeq, SMT
    <2>3. /\ Tail(q) \in Seq(S) /\ Len(Tail(q)) = W - 1
          /\ \A t \in 1 .. W - 1 : Tail(q)[t] = q[t + 1]
      BY <2>1, <2>2, HeadTailProperties
    <2>4. /\ r \in Seq(S) /\ Len(r) = W /\ r[W] = x
          /\ \A t \in 1 .. W - 1 : r[t] = Tail(q)[t]
      BY <2>1, <2>3, AppendProperties, SMT
    <2> QED
      BY <1>2, <2>1, <2>3, <2>4, SMT
  <1> QED
    BY <1>1, <1>2

LEMMA SeqOfInts ==
  ASSUME NEW S, S \subseteq Int, NEW q \in Seq(S)
  PROVE  q \in Seq(Int)
  <1>1. Len(q) \in Nat /\ q = [i \in 1 .. Len(q) |-> q[i]]
    BY LenProperties
  <1>2. \A i \in 1 .. Len(q) : q[i] \in Int
    BY ElementOfSeq
  <1>3. [i \in 1 .. Len(q) |-> q[i]] \in Seq(Int)
    BY <1>1, <1>2, IsASeq
  <1> QED
    BY <1>1, <1>3

WindowInv == window \in Seq(Distances) /\ Len(window) <= W

LEMMA WindowStep ==
  WindowInv /\ [WindowNext]_window => WindowInv'
  <1> SUFFICES ASSUME WindowInv, [WindowNext]_window PROVE WindowInv'
    OBVIOUS
  <1>1. ASSUME NEW x \in Distances, Sample(x) PROVE WindowInv'
    <2>1. window' = IF Len(window) < W THEN Append(window, x) ELSE Append(Tail(window), x)
      BY <1>1 DEF Sample, Sliding!Slide
    <2> QED
      BY <2>1, Slid, Zenon DEF WindowInv
  <1>2. CASE Reset
    BY <1>2, EmptySeq, SMT DEF Reset, WindowInv
  <1>3. CASE UNCHANGED window
    BY <1>3 DEF WindowInv
  <1> QED
    BY <1>1, <1>2, <1>3 DEF WindowNext

LEMMA WindowInvariant ==
  WindowSpec => []WindowInv
  <1>1. WindowInit => WindowInv
    BY EmptySeq, SMT DEF WindowInit, WindowInv
  <1> QED
    BY <1>1, WindowStep, PTL DEF WindowSpec

(* The scan of getChanges marks exactly the odd members of the runs of     *)
(* falls and rises (ultrasonic.h:38-56), in every window that samples can  *)
(* fill, of every width.                                                   *)
THEOREM ScansMatchRuns ==
  WindowSpec => []ScanMatchesRuns
  <1>1. WindowInv => ScanMatchesRuns
    <2> SUFFICES ASSUME WindowInv PROVE getChanges(window) = MarkedByRuns(window)
      BY DEF ScanMatchesRuns
    <2>1. window \in Seq(Int)
      BY SeqOfInts DEF WindowInv
    <2> QED
      BY <2>1, ScanIsByRuns
  <1> QED
    BY <1>1, WindowInvariant, PTL

(* As the window slides, a detection stays with its sample until the       *)
(* sample before it is gone, if no two samples in a row fall; and none     *)
(* appears at a sample that was passed over.                               *)
THEOREM DetectionsStay ==
  WindowSpec => SharpDetectionsStay
  <1> DEFINE stay == Len(window') = W /\ Len(window) = W /\ Sharp(window) =>
                       \A i \in 2 .. W - 1 :
                         getChanges(window')[i] = -1
                           <=> getChanges(window)[i + 1] = -1
  <1>1. ASSUME WindowInv, [WindowNext]_window PROVE [stay]_window
    <2> SUFFICES ASSUME Len(window') = W, Len(window) = W, Sharp(window),
                        window' # window, NEW i \in 2 .. W - 1
                 PROVE  getChanges(window')[i] = -1 <=> getChanges(window)[i + 1] = -1
      OBVIOUS
    <2>sharp. \A j \in 2 .. W : Falls(window, j) => ~Falls(window, j - 1)
      BY DEF Sharp
    <2>types. window \in Seq(Int) /\ window' \in Seq(Int)
      BY <1>1, WindowStep, SeqOfInts DEF WindowInv
    <2>1. PICK x \in Distances : Sample(x)
      <3>1. ~Reset
        BY EmptySeq, SMT DEF Reset
      <3> QED
        BY <1>1, <3>1 DEF WindowNext
    <2>2. \A t \in 1 .. W - 1 : window'[t] = window[t + 1]
      <3>1. window' = IF Len(window) < W THEN Append(window, x) ELSE Append(Tail(window), x)
        BY <2>1 DEF Sample, Sliding!Slide
      <3>2. ~(Len(window) < W) /\ Len(window) <= W
        BY SMT
      <3>3. ~(Len(window) < W) => \A t \in 1 .. W - 1 : window'[t] = window[t + 1]
        <4>1. window \in Seq(Distances) /\ Len(window) <= W
          BY <1>1 DEF WindowInv
        <4>2. \A r : r = (IF Len(window) < W THEN Append(window, x) ELSE Append(Tail(window), x))
                     => (~(Len(window) < W) => \A t \in 1 .. W - 1 : r[t] = window[t + 1])
          <5> SUFFICES ASSUME NEW r,
                              r = IF Len(window) < W THEN Append(window, x)
                                  ELSE Append(Tail(window), x),
                              ~(Len(window) < W), NEW t \in 1 .. W - 1
                       PROVE  r[t] = window[t + 1]
            OBVIOUS
          <5> QED
            BY <4>1, Slid
        <4> QED
          BY <4>2, <3>1
      <3> QED
        BY <3>2, <3>3
    <2>3. \A t \in 2 .. W - 1 : Falls(window', t) <=> Falls(window, t + 1)
      <3> SUFFICES ASSUME NEW t \in 2 .. W - 1
                   PROVE  Falls(window', t) <=> Falls(window, t + 1)
        OBVIOUS
      <3>1. t \in 1 .. W - 1 /\ t - 1 \in 1 .. W - 1 /\ t > 1 /\ t + 1 > 1
            /\ (t + 1) - 1 = t /\ (t - 1) + 1 = t
        BY SMT
      <3>2. window'[t] = window[t + 1] /\ window'[t - 1] = window[t]
        BY <2>2, <3>1
      <3> QED
        BY <3>1, <3>2 DEF Falls
    <2>4. i + 1 \in 2 .. Len(window) /\ i \in 2 .. Len(window') /\ i \in 2 .. W
          /\ (i = 2 \/ i - 1 \in 2 .. W - 1) /\ (i + 1) - 1 = i /\ (i - 1) + 1 = i
          /\ i + 1 \in 2 .. W
      BY SMT
    <2>5. Falls(window, i + 1) => ~Falls(window, i)
      BY <2>4, <2>sharp
    <2>6. Falls(window', i) => ~Falls(window', i - 1)
      <3>1. CASE i = 2
        BY <3>1, SMT DEF Falls
      <3>2. CASE i - 1 \in 2 .. W - 1
        BY <2>3, <2>4, <2>5, <3>2
      <3> QED
        BY <2>4, <3>1, <3>2
    <2>7. getChanges(window')[i] = -1 <=> Falls(window', i)
      BY <2>4, <2>6, <2>types, SharpMarks
    <2>8. getChanges(window)[i + 1] = -1 <=> Falls(window, i + 1)
      BY <2>4, <2>5, <2>types, SharpMarks
    <2> QED
      BY <2>3, <2>7, <2>8
  <1>2. WindowInv /\ [WindowNext]_window => [stay]_window
    BY <1>1
  <1> QED
    BY <1>2, WindowInvariant, PTL DEF WindowSpec, SharpDetectionsStay

----------------------------------------------------------------------------
(* The merge of two scans of the same length. *)

LEMMA GreatestUpTo ==
  ASSUME NEW n \in Nat, NEW T, T \subseteq 1 .. n, T # {}
  PROVE  \E x \in T : \A y \in T : y <= x
  <1> DEFINE B == {b \in 0 .. n : n - b \in T}
  <1>1. B \subseteq Nat
    BY SMT
  <1>2. PICK t \in T : TRUE
    OBVIOUS
  <1>3. t \in 1 .. n /\ n - t \in 0 .. n /\ n - (n - t) = t
    BY <1>2, SMT
  <1>4. n - t \in B
    BY <1>2, <1>3
  <1>5. PICK b \in B : \A c \in B : b <= c
    BY <1>1, <1>4, LeastNatural
  <1>6. ASSUME NEW y \in T PROVE y <= n - b
    <2>1. y \in 1 .. n
      OBVIOUS
    <2>2. n - y \in 0 .. n /\ n - (n - y) = y
      BY <2>1, SMT
    <2>3. n - y \in B
      BY <2>2
    <2>4. b <= n - y
      BY <1>5, <2>3
    <2>5. b \in 0 .. n
      OBVIOUS
    <2> QED
      BY <2>1, <2>4, <2>5, SMT
  <1> QED
    BY <1>5, <1>6

(* peak.back() is what was detected at the last slot with a detection.     *)
LEMMA PeakIs ==
  ASSUME NEW a1 \in Seq({-1, 0, 1}), NEW a2 \in Seq({-1, 0, 1}), Len(a1) = Len(a2), NEW junk
  PROVE  LET p == PeakBack(a1, a2, junk)
             None(t) == a1[t] # -1 /\ a2[t] # -1
         IN  \/ p = 0 /\ \A t \in 1 .. Len(a1) : None(t)
             \/ \E m \in 1 .. Len(a1) :
                  /\ \/ p = 1 /\ a1[m] = -1
                     \/ p = 2 /\ a1[m] # -1 /\ a2[m] = -1
                  /\ \A t \in 1 .. Len(a1) : ~(t <= m) => None(t)
  <1> DEFINE hits == {t \in 1 .. Len(a1) : Detected(a1, a2, junk, t) # 0}
             last == CHOOSE t \in hits : \A u \in hits : u <= t
             p == PeakBack(a1, a2, junk)
             None(t) == a1[t] # -1 /\ a2[t] # -1
  <1>1. ASSUME NEW t \in 1 .. Len(a1)
        PROVE  Detected(a1, a2, junk, t) = IF a1[t] = -1 THEN 1 ELSE IF a2[t] = -1 THEN 2 ELSE 0
    BY DEF Detected, Reading
  <1>2. \A t \in 1 .. Len(a1) : t \notin hits => None(t)
    BY <1>1, SMT
  <1>3. CASE hits = {}
    <2>1. p = 0
      BY <1>3 DEF PeakBack
    <2> QED
      BY <2>1, <1>2, <1>3
  <1>4. CASE hits # {}
    <2>1. p = Detected(a1, a2, junk, last)
      BY <1>4 DEF PeakBack
    <2>2. Len(a1) \in Nat
      BY LenProperties
    <2>3. \E t \in hits : \A u \in hits : u <= t
      BY <1>4, <2>2, GreatestUpTo
    <2>4. last \in hits /\ \A u \in hits : u <= last
      BY <2>3
    <2> HIDE DEF last, p
    <2>5. last \in 1 .. Len(a1) /\ Detected(a1, a2, junk, last) # 0
      BY <2>4
    <2>6. \/ p = 1 /\ a1[last] = -1
          \/ p = 2 /\ a1[last] # -1 /\ a2[last] = -1
      <3>1. p = IF a1[last] = -1 THEN 1 ELSE IF a2[last] = -1 THEN 2 ELSE 0
        BY <1>1, <2>1, <2>5
      <3>2. p # 0
        BY <2>1, <2>5
      <3> QED
        BY <3>1, <3>2
    <2>7. \A t \in 1 .. Len(a1) : ~(t <= last) => None(t)
      BY <1>2, <2>4
    <2> QED
      BY <2>5, <2>6, <2>7, Zenon DEF p
  <1> QED
    BY <1>3, <1>4

(* How many periods ago the distance fell, as far as the window tells.     *)
(* `lag' is 1 if the sensor has yet to measure in this period, when the    *)
(* oldest sample of a full window is about to go, and else 0.              *)
Ages(q, lag) ==
  {a \in 0 .. W - 2 : Len(q) + lag - a \in 2 .. Len(q) /\ Falls(q, Len(q) + lag - a)}

(* The marked falls of a window have ages. *)
LEMMA MarkedAges ==
  ASSUME NEW q \in Seq(Int), Len(q) <= W,
         NEW t \in 1 .. Len(q), getChanges(q)[t] = -1
  PROVE  Len(q) - t \in Ages(q, 0)
  <1>1. t \in 2 .. Len(q) /\ Falls(q, t)
    BY MarksOf
  <1>2. Len(q) \in Nat
    BY LenProperties
  <1>3. Len(q) - t \in 0 .. W - 2 /\ Len(q) + 0 - (Len(q) - t) = t
    BY <1>1, <1>2, SMT
  <1> QED
    BY <1>1, <1>3 DEF Ages

(* A gesture can begin only with a sensor that has a fall in its window.   *)
LEMMA PeakHasFall ==
  ASSUME NEW q1 \in Seq(Int), NEW q2 \in Seq(Int),
         Len(q1) = Len(q2), Len(q1) <= W, NEW junk
  PROVE  LET p == PeakBack(getChanges(q1), getChanges(q2), junk)
         IN  (p = 1 => Ages(q1, 0) # {}) /\ (p = 2 => Ages(q2, 0) # {})
  <1> DEFINE p == PeakBack(getChanges(q1), getChanges(q2), junk)
  <1>1. /\ getChanges(q1) \in Seq({-1, 0, 1}) /\ getChanges(q2) \in Seq({-1, 0, 1})
        /\ Len(getChanges(q1)) = Len(q1) /\ Len(getChanges(q2)) = Len(q2)
    BY MarksOf
  <1>2. \/ p = 0
        \/ \E m \in 1 .. Len(q1) :
             \/ p = 1 /\ getChanges(q1)[m] = -1
             \/ p = 2 /\ getChanges(q2)[m] = -1
    BY <1>1, PeakIs
  <1> HIDE DEF p
  <1>3. (p = 1 => Ages(q1, 0) # {}) /\ (p = 2 => Ages(q2, 0) # {})
    BY <1>2, MarkedAges
  <1> QED
    BY <1>3 DEF p

(* No two samples in a row fall, whatever they are: an object comes into   *)
(* the range of detection within one period.                               *)
SharpDistances ==
  \A x, y, z \in Distances :
    ~(y <= Limit /\ x - y >= Threshold /\ z <= Limit /\ y - z >= Threshold)

(* peak.back() is the sensor whose distance fell last; in the same period, *)
(* sensor 1.                                                               *)
LEMMA PeakIsNewest ==
  ASSUME SharpDistances,
         NEW q1 \in Seq(Distances), NEW q2 \in Seq(Distances),
         Len(q1) = Len(q2), Len(q1) <= W, NEW junk
  PROVE  LET p == PeakBack(getChanges(q1), getChanges(q2), junk)
         IN  \/ p = 0 /\ Ages(q1, 0) = {} /\ Ages(q2, 0) = {}
             \/ p = 1 /\ \E a \in Ages(q1, 0) : \A b \in Ages(q2, 0) : a <= b
             \/ p = 2 /\ \E a \in Ages(q2, 0) : \A b \in Ages(q1, 0) : a < b
  <1> DEFINE p == PeakBack(getChanges(q1), getChanges(q2), junk)
             n == Len(q1)
             None(t) == getChanges(q1)[t] # -1 /\ getChanges(q2)[t] # -1
  <1>int. q1 \in Seq(Int) /\ q2 \in Seq(Int)
    BY SeqOfInts
  <1>n. n \in Nat /\ n <= W /\ Len(q2) = n
    BY LenProperties
  <1>1. /\ getChanges(q1) \in Seq({-1, 0, 1}) /\ getChanges(q2) \in Seq({-1, 0, 1})
        /\ Len(getChanges(q1)) = n /\ Len(getChanges(q2)) = n
    BY <1>int, <1>n, MarksOf
  <1>2. \/ p = 0 /\ \A t \in 1 .. n : None(t)
        \/ \E m \in 1 .. n :
             /\ \/ p = 1 /\ getChanges(q1)[m] = -1
                \/ p = 2 /\ getChanges(q1)[m] # -1 /\ getChanges(q2)[m] = -1
             /\ \A t \in 1 .. n : ~(t <= m) => None(t)
    BY <1>1, PeakIs
  <1>3. ASSUME NEW q \in {q1, q2}, NEW a \in Ages(q, 0)
        PROVE  a \in Nat /\ n - a \in 1 .. n /\ getChanges(q)[n - a] = -1
    <2>0. q \in Seq(Int) /\ q \in Seq(Distances) /\ Len(q) = n
      BY <1>int, <1>n
    <2>1. a \in 0 .. W - 2 /\ n + 0 - a \in 2 .. n /\ Falls(q, n + 0 - a)
      BY <2>0, <1>3 DEF Ages
    <2>2. a \in Nat /\ n - a \in 2 .. n /\ n - a \in 1 .. n /\ n + 0 - a = n - a
          /\ n - a - 1 \in 1 .. n
      BY <1>n, <2>1, SMT
    <2>3. Falls(q, n - a)
      BY <2>1, <2>2
    <2>4. ~Falls(q, n - a - 1)
      <3> SUFFICES ASSUME Falls(q, n - a - 1) PROVE FALSE
        OBVIOUS
      <3>1. n - a - 1 - 1 \in 1 .. n
        <4>1. n - a - 1 > 1
          BY DEF Falls
        <4> QED
          BY <1>n, <2>2, <4>1, SMT
      <3>2. q[n - a] \in Distances /\ q[n - a - 1] \in Distances /\ q[n - a - 1 - 1] \in Distances
        BY <2>0, <2>2, <3>1, ElementOfSeq
      <3> QED
        BY <2>3, <3>2 DEF Falls, SharpDistances
    <2>5. getChanges(q)[n - a] = -1
      BY <2>0, <2>2, <2>3, <2>4, SharpMarks
    <2> QED
      BY <2>2, <2>5
  <1>4. ASSUME NEW q \in {q1, q2}, NEW m \in 1 .. n, getChanges(q)[m] = -1
        PROVE  n - m \in Ages(q, 0)
    BY <1>4, <1>int, <1>n, MarkedAges
  <1> HIDE DEF p, n
  <1>5. ASSUME p = 0, \A t \in 1 .. n : None(t)
        PROVE  Ages(q1, 0) = {} /\ Ages(q2, 0) = {}
    <2>1. ASSUME NEW q \in {q1, q2}, NEW a \in Ages(q, 0) PROVE FALSE
      BY <1>3, <1>5, <2>1
    <2> QED
      BY <1>5, <2>1
  <1>6. ASSUME NEW m \in 1 .. n, \A t \in 1 .. n : ~(t <= m) => None(t),
               p = 1, getChanges(q1)[m] = -1
        PROVE  \E a \in Ages(q1, 0) : \A b \in Ages(q2, 0) : a <= b
    <2>1. n - m \in Ages(q1, 0)
      BY <1>4, <1>6
    <2>2. ASSUME NEW b \in Ages(q2, 0) PROVE n - m <= b
      <3>1. b \in Nat /\ n - b \in 1 .. n /\ getChanges(q2)[n - b] = -1
        BY <1>3
      <3>2. n - b <= m
        BY <1>6, <3>1
      <3> QED
        BY <1>n, <3>1, <3>2, SMT DEF n
    <2> QED
      BY <2>1, <2>2
  <1>7. ASSUME NEW m \in 1 .. n, \A t \in 1 .. n : ~(t <= m) => None(t),
               p = 2, getChanges(q1)[m] # -1, getChanges(q2)[m] = -1
        PROVE  \E a \in Ages(q2, 0) : \A b \in Ages(q1, 0) : a < b
    <2>1. n - m \in Ages(q2, 0)
      BY <1>4, <1>7
    <2>2. ASSUME NEW b \in Ages(q1, 0) PROVE n - m < b
      <3>1. b \in Nat /\ n - b \in 1 .. n /\ getChanges(q1)[n - b] = -1
        BY <1>3
      <3>2. n - b <= m /\ n - b # m
        BY <1>7, <3>1
      <3> QED
        BY <1>n, <3>1, <3>2, SMT DEF n
    <2> QED
      BY <2>1, <2>2
  <1>8. \/ p = 0 /\ Ages(q1, 0) = {} /\ Ages(q2, 0) = {}
        \/ p = 1 /\ \E a \in Ages(q1, 0) : \A b \in Ages(q2, 0) : a <= b
        \/ p = 2 /\ \E a \in Ages(q2, 0) : \A b \in Ages(q1, 0) : a < b
    <2>1. CASE p = 0 /\ \A t \in 1 .. n : None(t)
      BY <1>5, <2>1
    <2>2. CASE ~(p = 0 /\ \A t \in 1 .. n : None(t))
      <3>1. PICK m \in 1 .. n :
              /\ \/ p = 1 /\ getChanges(q1)[m] = -1
                 \/ p = 2 /\ getChanges(q1)[m] # -1 /\ getChanges(q2)[m] = -1
              /\ \A t \in 1 .. n : ~(t <= m) => None(t)
        BY <1>2, <2>2, Zenon
      <3>2. CASE p = 1 /\ getChanges(q1)[m] = -1
        BY <1>6, <3>1, <3>2, Zenon
      <3>3. CASE p = 2 /\ getChanges(q1)[m] # -1 /\ getChanges(q2)[m] = -1
        BY <1>7, <3>1, <3>3, Zenon
      <3> QED
        BY <3>1, <3>2, <3>3
    <2> QED
      BY <2>1, <2>2
  <1> QED
    BY <1>8 DEF p

----------------------------------------------------------------------------
(* What sampling makes of the ages. *)

(* One more sample may add a fall of age 0. *)
LEMMA SlideAges ==
  ASSUME NEW q \in Seq(Int), Len(q) <= W, NEW x \in Int, NEW r,
         r = IF Len(q) < W THEN Append(q, x) ELSE Append(Tail(q), x)
  PROVE  Ages(r, 0) = Ages(q, 1) \union (IF NewestFalls(r) THEN {0} ELSE {})
  <1> DEFINE l == Len(q)
             m == Len(r)
  <1>1. /\ r \in Seq(Int) /\ m <= W
        /\ m = IF l < W THEN l + 1 ELSE W
        /\ l < W => \A t \in 1 .. l : r[t] = q[t]
        /\ ~(l < W) => \A t \in 1 .. W - 1 : r[t] = q[t + 1]
    BY Slid
  <1>2. l \in Nat /\ m \in Nat /\ l <= W
    BY <1>1, LenProperties
  <1> HIDE DEF l, m
  <1>3. r # <<>>
    <2>1. m > 0
      BY <1>1, <1>2, SMT
    <2> QED
      BY <2>1, SMT DEF m
  <1>4. NewestFalls(r) <=> Falls(r, m)
    BY <1>3 DEF NewestFalls, m
  <1>5. 0 \in Ages(r, 0) <=> NewestFalls(r)
    <2>1. Falls(r, m) => m > 1
      BY DEF Falls
    <2>2. m + 0 - 0 = m /\ (m > 1 => 0 \in 0 .. W - 2 /\ m \in 2 .. m)
      BY <1>1, <1>2, SMT
    <2>3. 0 \in Ages(r, 0) <=> 0 \in 0 .. W - 2 /\ m \in 2 .. m /\ Falls(r, m)
      BY <2>2 DEF Ages, m
    <2> QED
      BY <1>4, <2>1, <2>2, <2>3
  <1>6. 0 \notin Ages(q, 1)
    <2>1. l + 1 - 0 \notin 2 .. l
      BY <1>2, SMT
    <2> QED
      BY <2>1 DEF Ages, l
  <1>7. ASSUME NEW a \in 1 .. W - 2 PROVE a \in Ages(r, 0) <=> a \in Ages(q, 1)
    <2>a. a \in 0 .. W - 2
      BY SMT
    <2>1. a \in Ages(r, 0) <=> m + 0 - a \in 2 .. m /\ Falls(r, m + 0 - a)
      BY <2>a DEF Ages, m
    <2>2. a \in Ages(q, 1) <=> l + 1 - a \in 2 .. l /\ Falls(q, l + 1 - a)
      BY <2>a DEF Ages, l
    <2>3. CASE l < W
      <3>1. m + 0 - a = l + 1 - a /\ (l + 1 - a \in 2 .. m <=> l + 1 - a \in 2 .. l)
        BY <1>1, <1>2, <2>3, SMT
      <3>2. ASSUME NEW t \in 2 .. l PROVE Falls(r, t) <=> Falls(q, t)
        <4>1. t \in 1 .. l /\ t - 1 \in 1 .. l
          BY <1>2, SMT
        <4> QED
          BY <4>1, <1>1, <2>3 DEF Falls
      <3> QED
        BY <2>1, <2>2, <3>1, <3>2
    <2>4. CASE ~(l < W)
      <3>1. /\ m + 0 - a \in 2 .. m /\ m + 0 - a \in 2 .. W - 1
            /\ l + 1 - a \in 2 .. l /\ l + 1 - a = (m + 0 - a) + 1
        BY <1>1, <1>2, <2>4, SMT
      <3>2. ASSUME NEW t \in 2 .. W - 1 PROVE Falls(r, t) <=> Falls(q, t + 1)
        <4>1. t \in 1 .. W - 1 /\ t - 1 \in 1 .. W - 1 /\ t > 1 /\ t + 1 > 1
              /\ (t - 1) + 1 = t /\ (t + 1) - 1 = t
          BY SMT
        <4>2. r[t] = q[t + 1] /\ r[t - 1] = q[t]
          BY <4>1, <1>1, <2>4
        <4>3. Falls(r, t) <=> r[t] <= Limit /\ r[t - 1] - r[t] >= Threshold
          BY <4>1 DEF Falls
        <4>4. Falls(q, t + 1) <=> q[t + 1] <= Limit /\ q[t] - q[t + 1] >= Threshold
          BY <4>1 DEF Falls
        <4> QED
          BY <4>2, <4>3, <4>4, Zenon
      <3> QED
        BY <2>1, <2>2, <3>1, <3>2
    <2> QED
      BY <2>3, <2>4
  <1>8. \A a \in Ages(r, 0) \union Ages(q, 1) : a = 0 \/ a \in 1 .. W - 2
    <2>1. \A a \in 0 .. W - 2 : a = 0 \/ a \in 1 .. W - 2
      BY SMT
    <2> QED
      BY <2>1 DEF Ages
  <1>9. CASE NewestFalls(r)
    BY <1>5, <1>6, <1>7, <1>8, <1>9
  <1>10. CASE ~NewestFalls(r)
    BY <1>5, <1>6, <1>7, <1>8, <1>10
  <1> QED
    BY <1>9, <1>10

(* In the next period everything is a period older. *)
LEMMA PeriodAges ==
  ASSUME NEW q \in Seq(Int)
  PROVE  Ages(q, 1) = {a \in 1 .. W - 2 : a - 1 \in Ages(q, 0)}
  <1>1. Len(q) \in Nat
    BY LenProperties
  <1>2. ASSUME NEW a \in Ages(q, 1) PROVE a \in 1 .. W - 2
    <2>1. a \in 0 .. W - 2 /\ Len(q) + 1 - a \in 2 .. Len(q)
      BY DEF Ages
    <2> QED
      BY <1>1, <2>1, SMT
  <1>3. ASSUME NEW a \in 1 .. W - 2 PROVE a \in Ages(q, 1) <=> a - 1 \in Ages(q, 0)
    <2>1. a \in 0 .. W - 2 /\ a - 1 \in 0 .. W - 2 /\ Len(q) + 1 - a = Len(q) + 0 - (a - 1)
      BY <1>1, SMT
    <2> QED
      BY <2>1 DEF Ages
  <1> QED
    BY <1>2, <1>3

LEMMA NoAges == \A lag \in {0, 1} : Ages(<<>>, lag) = {}
  <1>1. Len(<<>>) = 0
    BY SMT
  <1>2. \A t : t \notin 2 .. 0
    BY SMT
  <1> QED
    BY <1>1, <1>2, Zenon DEF Ages

----------------------------------------------------------------------------
(* The program. *)

(* The program drives the gesture state machine as any program may that    *)
(* gives it detections; what RecognizerProofs proves holds of it.          *)
THEOREM SystemIsRecognizer == SystemSpec => Spec
  <1>1. ASSUME SystemNext PROVE Next
    <2>1. ASSUME NEW s \in Sensors, NEW x \in Distances, Measure(s, x) PROVE Next
      BY <2>1 DEF Measure, Next
    <2>2. CASE NextPeriod
      BY <2>2 DEF NextPeriod, Next
    <2>3. CASE Scan
      <3>1. PICK junk \in {-1, 0} : Iterate(PeakBack(Marks(1), Marks(2), junk))
        BY <2>3 DEF Scan
      <3>2. PeakBack(Marks(1), Marks(2), junk) \in 0 .. 2
        BY SMT DEF PeakBack, Detected
      <3> QED
        BY <3>1, <3>2 DEF Next
    <2> QED
      BY <1>1, <2>1, <2>2, <2>3 DEF SystemNext
  <1>2. [SystemNext]_allvars => [Next]_vars
    BY <1>1 DEF allvars
  <1> QED
    BY <1>2, PTL DEF SystemSpec, Spec

Recent(s) == Ages(win[s], IF s \in measured THEN 0 ELSE 1)

Sampled ==
  /\ measured \subseteq Sensors
  /\ win \in [Sensors -> Seq(Distances)]
  /\ \A s \in Sensors : Len(win[s]) <= W

(* As long as main iterates when both sensors have measured, the windows   *)
(* are of one length, or one sensor is a sample ahead.                     *)
InStep ==
  ~midway =>
    IF measured \in {{}, Sensors} THEN Len(win[1]) = Len(win[2])
    ELSE \A s \in measured :
           Len(win[s]) = IF Len(win[3 - s]) < W THEN Len(win[3 - s]) + 1 ELSE W

(* What is in the windows since they were reset has fallen since then.     *)
Noticed == cleared => \A s \in Sensors : Recent(s) # {} => s \in fell

ProgramInv == Sampled /\ InStep /\ Noticed

LEMMA MeasureEffect ==
  ASSUME Sampled,
         NEW s \in Sensors, NEW x \in Distances, Measure(s, x)
  PROVE  /\ Sampled'
         /\ measured' = measured \union {s} /\ s \notin measured
         /\ 3 - s \in Sensors /\ 3 - s # s
         /\ Len(win'[s]) = IF Len(win[s]) < W THEN Len(win[s]) + 1 ELSE W
         /\ win'[3 - s] = win[3 - s]
         /\ Recent(s)' = Recent(s) \union (IF NewestFalls(win'[s]) THEN {0} ELSE {})
         /\ Recent(3 - s)' = Recent(3 - s)
  <1>1. /\ measured' = measured \union {s} /\ s \notin measured
        /\ 3 - s \in Sensors /\ 3 - s # s /\ \A u \in Sensors : u = s \/ u = 3 - s
    BY SMT DEF Measure, Sensors
  <1>2. /\ win'[s] = IF Len(win[s]) < W THEN Append(win[s], x) ELSE Append(Tail(win[s]), x)
        /\ win'[3 - s] = win[3 - s]
        /\ win' = [win EXCEPT ![s] = win'[s]]
    BY <1>1 DEF Measure, Sampled, Window!Slide
  <1>3. win[s] \in Seq(Distances) /\ win[s] \in Seq(Int) /\ x \in Int /\ Len(win[s]) <= W
    BY SeqOfInts DEF Sampled
  <1>4. /\ win'[s] \in Seq(Distances) /\ Len(win'[s]) <= W
        /\ Len(win'[s]) = IF Len(win[s]) < W THEN Len(win[s]) + 1 ELSE W
    BY <1>2, <1>3, Slid
  <1>5. Ages(win'[s], 0) = Ages(win[s], 1) \union (IF NewestFalls(win'[s]) THEN {0} ELSE {})
    BY <1>2, <1>3, SlideAges
  <1>6. Recent(s)' = Recent(s) \union (IF NewestFalls(win'[s]) THEN {0} ELSE {})
    BY <1>1, <1>5 DEF Recent
  <1>7. Recent(3 - s)' = Recent(3 - s)
    <2>1. 3 - s \in measured' <=> 3 - s \in measured
      BY <1>1
    <2> QED
      BY <1>2, <2>1 DEF Recent
  <1>8. Sampled'
    <2>1. win' \in [Sensors -> Seq(Distances)]
      BY <1>2, <1>4 DEF Sampled
    <2>2. measured' \subseteq Sensors
      BY <1>1 DEF Sampled
    <2>3. \A u \in Sensors : Len(win'[u]) <= W
      BY <1>1, <1>2, <1>4 DEF Sampled
    <2> QED
      BY <2>1, <2>2, <2>3 DEF Sampled
  <1> QED
    BY <1>1, <1>2, <1>4, <1>6, <1>7, <1>8

LEMMA PeriodEffect ==
  ASSUME Sampled, NextPeriod
  PROVE  /\ Sampled'
         /\ \A s \in Sensors : Recent(s)' = {a \in 1 .. W - 2 : a - 1 \in Recent(s)}
  <1>1. Sampled'
    BY DEF NextPeriod, Sampled
  <1>2. ASSUME NEW s \in Sensors PROVE Recent(s)' = {a \in 1 .. W - 2 : a - 1 \in Recent(s)}
    <2>1. win[s] \in Seq(Int)
      BY SeqOfInts DEF Sampled
    <2>2. Recent(s) = Ages(win[s], 0) /\ Recent(s)' = Ages(win[s], 1)
      BY DEF NextPeriod, Recent
    <2> QED
      BY <2>1, <2>2, PeriodAges
  <1> QED
    BY <1>1, <1>2

Resets == state = 3 /\ state' = 0

LEMMA ScanEffect ==
  ASSUME Sampled, Scan
  PROVE  /\ Sampled'
         /\ measured' = measured
         /\ ~Resets => win' = win /\ \A s \in Sensors : Recent(s)' = Recent(s)
         /\ Resets => \A s \in Sensors : win'[s] = <<>> /\ Recent(s)' = {}
         /\ midway' = (measured # Sensors \/ (midway /\ ~Resets))
         /\ cleared' = IF state' = state THEN cleared ELSE Resets
         /\ fell' = IF state' = state THEN fell ELSE {}
  <1>1. /\ measured' = measured
        /\ win' = IF Resets THEN [s \in Sensors |-> <<>>] ELSE win
        /\ midway' = (measured # Sensors \/ (midway /\ ~Resets))
        /\ cleared' = IF state' = state THEN cleared ELSE Resets
        /\ fell' = IF state' = state THEN fell ELSE {}
    BY Zenon DEF Scan, Resets
  <1>2. CASE ~Resets
    <2>1. win' = win
      BY <1>1, <1>2
    <2> QED
      BY <1>1, <1>2, <2>1 DEF Sampled, Recent
  <1>3. CASE Resets
    <2>1. win' = [s \in Sensors |-> <<>>]
      BY <1>1, <1>3
    <2>2. \A s \in Sensors : win'[s] = <<>>
      BY <2>1
    <2>3. \A s \in Sensors : Recent(s)' = {}
      BY <2>2, NoAges DEF Recent
    <2>4. <<>> \in Seq(Distances) /\ Len(<<>>) <= W
      BY EmptySeq, SMT
    <2>5. Sampled'
      BY <1>1, <2>1, <2>2, <2>4 DEF Sampled
    <2> QED
      BY <1>1, <1>3, <2>2, <2>3, <2>5
  <1> QED
    BY <1>2, <1>3

LEMMA ProgramInit ==
  ASSUME Init, SensingInit
  PROVE  ProgramInv
  <1>1. win = [s \in Sensors |-> <<>>] /\ measured = {} /\ cleared = TRUE /\ midway = FALSE
    BY DEF SensingInit
  <1>2. \A s \in Sensors : win[s] = <<>>
    BY <1>1
  <1>3. <<>> \in Seq(Distances) /\ Len(<<>>) <= W
    BY EmptySeq, SMT
  <1>4. Sampled
    BY <1>1, <1>2, <1>3 DEF Sampled
  <1>5. InStep
    BY <1>1, <1>2 DEF InStep, Sensors
  <1>6. \A s \in Sensors : Recent(s) = {}
    BY <1>2, NoAges DEF Recent
  <1> QED
    BY <1>4, <1>5, <1>6 DEF Noticed, ProgramInv

LEMMA MeasureKeeps ==
  ASSUME ProgramInv,
         NEW s \in Sensors, NEW x \in Distances, Measure(s, x)
  PROVE  ProgramInv'
  <1>1. /\ Sampled'
        /\ measured' = measured \union {s} /\ s \notin measured
        /\ 3 - s \in Sensors /\ 3 - s # s
        /\ Len(win'[s]) = IF Len(win[s]) < W THEN Len(win[s]) + 1 ELSE W
        /\ win'[3 - s] = win[3 - s]
        /\ Recent(s)' = Recent(s) \union (IF NewestFalls(win'[s]) THEN {0} ELSE {})
        /\ Recent(3 - s)' = Recent(3 - s)
    BY MeasureEffect DEF ProgramInv
  <1>2. \A u \in Sensors : u = s \/ u = 3 - s
    BY SMT DEF Sensors
  <1>3. midway' = midway /\ cleared' = cleared
        /\ fell' = IF NewestFalls(win'[s]) THEN fell \union {s} ELSE fell
    BY DEF Measure
  <1>4. Noticed'
    <2>1. ASSUME cleared PROVE \A u \in Sensors : Recent(u)' # {} => u \in fell'
      <3>1. \A u \in Sensors : Recent(u) # {} => u \in fell
        BY <2>1 DEF ProgramInv, Noticed
      <3>2. Recent(s)' # {} => s \in fell'
        <4>1. CASE NewestFalls(win'[s])
          BY <4>1, <1>3
        <4>2. CASE ~NewestFalls(win'[s])
          BY <4>2, <3>1, <1>1, <1>3
        <4> QED
          BY <4>1, <4>2
      <3>3. Recent(3 - s)' # {} => 3 - s \in fell'
        BY <3>1, <1>1, <1>3
      <3>4. ASSUME NEW u \in Sensors, Recent(u)' # {} PROVE u \in fell'
        <4>1. CASE u = s
          BY <3>2, <3>4, <4>1
        <4>2. CASE u = 3 - s
          BY <3>3, <3>4, <4>2
        <4> QED
          BY <1>2, <4>1, <4>2
      <3> QED
        BY <3>4
    <2> QED
      BY <2>1, <1>3 DEF Noticed
  <1>5. InStep'
    <2> SUFFICES ASSUME ~midway
                 PROVE  IF measured' \in {{}, Sensors} THEN Len(win'[1]) = Len(win'[2])
                        ELSE \A u \in measured' :
                               Len(win'[u]) = IF Len(win'[3 - u]) < W THEN Len(win'[3 - u]) + 1
                                              ELSE W
      BY <1>3 DEF InStep
    <2>0. measured \subseteq Sensors /\ 3 - (3 - s) = s
      BY SMT DEF ProgramInv, Sampled, Sensors
    <2>1. CASE measured = {}
      <3>1. measured' = {s} /\ measured' \notin {{}, Sensors}
        BY <1>1, <2>1
      <3>2. Len(win[1]) = Len(win[2])
        BY <2>1 DEF ProgramInv, InStep
      <3>3. Len(win[s]) = Len(win[3 - s])
        BY <3>2, SMT DEF Sensors
      <3> QED
        BY <1>1, <3>1, <3>3
    <2>2. CASE measured = {3 - s}
      <3>1. measured' = Sensors
        BY <1>1, <1>2, <2>2
      <3>2. measured \notin {{}, Sensors}
        BY <1>1, <2>2
      <3>3. Len(win[3 - s]) = IF Len(win[s]) < W THEN Len(win[s]) + 1 ELSE W
        BY <2>0, <2>2, <3>2 DEF ProgramInv, InStep
      <3>4. Len(win'[s]) = Len(win'[3 - s])
        BY <1>1, <3>3
      <3>5. Len(win'[1]) = Len(win'[2])
        BY <3>4, SMT DEF Sensors
      <3> QED
        BY <3>1, <3>5
    <2>3. measured = {} \/ measured = {3 - s}
      BY <1>1, <1>2, <2>0
    <2> QED
      BY <2>1, <2>2, <2>3
  <1> QED
    BY <1>1, <1>4, <1>5 DEF ProgramInv

LEMMA PeriodKeeps ==
  ASSUME ProgramInv, NextPeriod
  PROVE  ProgramInv'
  <1>1. Sampled' /\ \A s \in Sensors : Recent(s)' = {a \in 1 .. W - 2 : a - 1 \in Recent(s)}
    BY PeriodEffect DEF ProgramInv
  <1>2. /\ measured = Sensors /\ measured' = {}
        /\ win' = win /\ fell' = fell /\ cleared' = cleared /\ midway' = midway
    BY DEF NextPeriod
  <1>3. InStep'
    BY <1>2 DEF ProgramInv, InStep
  <1>4. Noticed'
    <2>1. \A s \in Sensors : Recent(s)' # {} => Recent(s) # {}
      BY <1>1
    <2> QED
      BY <1>2, <2>1 DEF ProgramInv, Noticed
  <1> QED
    BY <1>1, <1>3, <1>4 DEF ProgramInv

LEMMA ScanKeeps ==
  ASSUME ProgramInv, Scan
  PROVE  ProgramInv'
  <1>1. /\ Sampled'
        /\ measured' = measured
        /\ ~Resets => win' = win /\ \A s \in Sensors : Recent(s)' = Recent(s)
        /\ Resets => \A s \in Sensors : win'[s] = <<>> /\ Recent(s)' = {}
        /\ midway' = (measured # Sensors \/ (midway /\ ~Resets))
        /\ cleared' = IF state' = state THEN cleared ELSE Resets
        /\ fell' = IF state' = state THEN fell ELSE {}
    BY ScanEffect DEF ProgramInv
  <1>2. InStep'
    <2> SUFFICES ASSUME ~midway' PROVE measured = Sensors /\ Len(win'[1]) = Len(win'[2])
      BY <1>1 DEF InStep
    <2>1. measured = Sensors /\ (Resets \/ ~midway)
      BY <1>1
    <2>2. CASE Resets
      BY <1>1, <2>1, <2>2 DEF Sensors
    <2>3. CASE ~Resets
      BY <1>1, <2>1, <2>3 DEF ProgramInv, InStep
    <2> QED
      BY <2>2, <2>3
  <1>3. Noticed'
    <2>1. CASE Resets
      BY <1>1, <2>1 DEF Noticed
    <2>2. CASE ~Resets
      <3>1. cleared' => cleared /\ fell' = fell
        BY <1>1, <2>2
      <3> QED
        BY <1>1, <2>2, <3>1 DEF ProgramInv, Noticed
    <2> QED
      BY <2>1, <2>2
  <1> QED
    BY <1>1, <1>2, <1>3 DEF ProgramInv

LEMMA UnchangedKeeps == ProgramInv /\ UNCHANGED allvars => ProgramInv'
  <1> SUFFICES ASSUME ProgramInv, UNCHANGED allvars PROVE ProgramInv'
    OBVIOUS
  <1>1. UNCHANGED <<win, measured, fell, cleared, midway>>
    BY DEF allvars, sensing
  <1>2. \A s \in Sensors : Recent(s)' = Recent(s)
    BY <1>1 DEF Recent
  <1> QED
    BY <1>1, <1>2 DEF ProgramInv, Sampled, InStep, Noticed

LEMMA ProgramInvariant ==
  SystemSpec => []ProgramInv
  <1>1. ProgramInv /\ [SystemNext]_allvars => ProgramInv'
    BY MeasureKeeps, PeriodKeeps, ScanKeeps, UnchangedKeeps DEF SystemNext
  <1> QED
    BY <1>1, ProgramInit, PTL DEF SystemSpec

(* When main iterates after both sensors have measured, its merge reads no *)
(* further in the second sensor's marks than they go (main.cpp:189-199).   *)
THEOREM MergeStaysInBounds ==
  SystemSpec => []ReadsOnlyPastData
  <1>1. ProgramInv => ReadsOnlyPastData
    <2> SUFFICES ASSUME ProgramInv, measured = Sensors, ~midway
                 PROVE  MergeInBounds(Marks(1), Marks(2))
      BY DEF ReadsOnlyPastData
    <2>1. Len(win[1]) = Len(win[2])
      BY DEF ProgramInv, InStep
    <2>2. win[1] \in Seq(Int) /\ win[2] \in Seq(Int)
      BY SeqOfInts DEF ProgramInv, Sampled, Sensors
    <2>3. Len(Marks(1)) = Len(Marks(2)) /\ Len(Marks(1)) \in Nat
      BY <2>1, <2>2, MarksOf, LenProperties DEF Marks
    <2> QED
      BY <2>3, SMT DEF MergeInBounds
  <1> QED
    BY <1>1, ProgramInvariant, PTL

----------------------------------------------------------------------------
(* Which detections begin and advance a gesture. *)

(* The branches of an iteration that change the state. *)
LEMMA Advances ==
  ASSUME NEW peak, Iterate(peak), state' # state
  PROVE  \/ state' = 0
         \/ state = 0 /\ state' = peak
         \/ state = 1 /\ peak = 2 /\ state' = 12
         \/ state = 2 /\ peak = 1 /\ state' = 21
         \/ state = 12 /\ peak = 1 /\ state' = 3
         \/ state = 21 /\ peak = 2 /\ state' = 3
  <1>1. CASE LeaveFinal
    BY <1>1 DEF LeaveFinal, Enter, StateChangesTo
  <1>2. CASE GoIdle
    BY <1>2 DEF GoIdle
  <1>3. CASE Appear(peak)
    BY <1>3 DEF Appear, Enter, StateChangesTo
  <1>4. CASE Cross(peak)
    BY <1>4 DEF Cross, Enter, StateChangesTo
  <1>5. ASSUME NEW d \in 0 .. SendTime, Return(peak, d)
        PROVE  \/ state = 12 /\ peak = 1 /\ state' = 3
               \/ state = 21 /\ peak = 2 /\ state' = 3
    BY <1>5 DEF Return
  <1>6. ~Ignore(peak)
    BY DEF Ignore, Stay
  <1> QED
    BY <1>1, <1>2, <1>3, <1>4, <1>5, <1>6 DEF Iterate

(* An iteration that sees the windows in step. *)
LEMMA ScanInStep ==
  ASSUME ProgramInv, Scan, ~midway', ~Resets
  PROVE  /\ measured = Sensors /\ ~midway
         /\ Len(win[1]) = Len(win[2])
         /\ \A s \in Sensors : Recent(s) = Ages(win[s], 0)
  <1>1. measured = Sensors /\ ~midway
    BY ScanEffect DEF ProgramInv
  <1>2. Len(win[1]) = Len(win[2])
    BY <1>1 DEF ProgramInv, InStep
  <1> QED
    BY <1>1, <1>2 DEF Recent

(* What a gesture begins with after a complete one, or at the start, fell  *)
(* in state 0: leaving state 3 resets both queues (main.cpp:201-217).      *)
THEOREM BeginsAnew ==
  SystemSpec => BeginsOnNewFallAfterReset
  <1> DEFINE begins == state = 0 /\ state' \in {1, 2} /\ ~midway' /\ cleared
  <1>1. ASSUME ProgramInv, SystemNext, begins PROVE state' \in fell
    <2>1. state = 0 /\ state' # state /\ state' # 0 /\ ~Resets
      BY <1>1 DEF Resets
    <2>2. Scan
      <3>1. ~NextPeriod
        BY <2>1 DEF NextPeriod, Pass
      <3>2. \A s \in Sensors, x \in Distances : ~Measure(s, x)
        BY <2>1 DEF Measure, Update
      <3> QED
        BY <1>1, <3>1, <3>2 DEF SystemNext
    <2>3. PICK junk \in {-1, 0} : Iterate(PeakBack(Marks(1), Marks(2), junk))
      BY <2>2 DEF Scan
    <2>4. state' = PeakBack(getChanges(win[1]), getChanges(win[2]), junk)
      <3>1. ASSUME NEW peak, Iterate(peak) PROVE state' = peak
        BY <2>1, <3>1, Advances, SMT
      <3> QED
        BY <2>3, <3>1, Zenon DEF Marks
    <2>5. /\ win[1] \in Seq(Int) /\ win[2] \in Seq(Int)
          /\ Len(win[1]) = Len(win[2]) /\ Len(win[1]) <= W
      BY <1>1, <2>1, <2>2, ScanInStep, SeqOfInts DEF ProgramInv, Sampled, Sensors
    <2>6. (state' = 1 => Ages(win[1], 0) # {}) /\ (state' = 2 => Ages(win[2], 0) # {})
      BY <2>4, <2>5, PeakHasFall
    <2>7. state' \in Sensors /\ Recent(state') # {}
      <3>1. \A s \in Sensors : Recent(s) = Ages(win[s], 0)
        BY <1>1, <2>1, <2>2, ScanInStep
      <3> QED
        BY <1>1, <2>6, <3>1 DEF Sensors
    <2> QED
      BY <1>1, <2>7 DEF ProgramInv, Noticed
  <1>2. ProgramInv /\ [SystemNext]_allvars => [begins => state' \in fell]_allvars
    BY <1>1
  <1> QED
    BY <1>2, ProgramInvariant, PTL DEF SystemSpec, BeginsOnNewFallAfterReset

(* What the expected sensor has in its window from before the state last   *)
(* changed was passed over: the other sensor's distance fell after that,   *)
(* or, where sensor 1 wins the slot, in the same period.                   *)
Behind(e, o) ==
  \A a \in Recent(e) : \E b \in Recent(o) : b <= a /\ (e = 1 => b < a)

Passed ==
  ~midway /\ state \in {1, 2, 12, 21}
    => \A e, o \in Sensors : e = Expected(state) /\ o # e /\ e \notin fell => Behind(e, o)

GestureInv == ProgramInv /\ Passed

(* An iteration that sees the windows in step finds the newest fall.       *)
LEMMA ScanNewest ==
  ASSUME SharpDistances,
         ProgramInv, Scan, ~midway', ~Resets
  PROVE  \E peak \in 0 .. 2 :
           /\ Iterate(peak)
           /\ \/ peak = 0 /\ Recent(1) = {} /\ Recent(2) = {}
              \/ peak = 1 /\ \E a \in Recent(1) : \A b \in Recent(2) : a <= b
              \/ peak = 2 /\ \E a \in Recent(2) : \A b \in Recent(1) : a < b
  <1>1. /\ Len(win[1]) = Len(win[2])
        /\ Recent(1) = Ages(win[1], 0) /\ Recent(2) = Ages(win[2], 0)
    BY ScanInStep DEF Sensors
  <1>2. /\ win[1] \in Seq(Distances) /\ win[2] \in Seq(Distances) /\ Len(win[1]) <= W
    BY DEF ProgramInv, Sampled, Sensors
  <1>3. PICK junk \in {-1, 0} :
          Iterate(PeakBack(getChanges(win[1]), getChanges(win[2]), junk))
    BY DEF Scan, Marks
  <1> DEFINE p == PeakBack(getChanges(win[1]), getChanges(win[2]), junk)
  <1>4. \/ p = 0 /\ Recent(1) = {} /\ Recent(2) = {}
        \/ p = 1 /\ \E a \in Recent(1) : \A b \in Recent(2) : a <= b
        \/ p = 2 /\ \E a \in Recent(2) : \A b \in Recent(1) : a < b
    BY <1>1, <1>2, PeakIsNewest
  <1>5. Iterate(p)
    BY <1>3
  <1> HIDE DEF p
  <1>6. p \in 0 .. 2
    BY <1>4, SMT
  <1> QED
    BY <1>4, <1>5, <1>6

LEMMA AgesAreNumbers ==
  ASSUME NEW s, NEW a \in Recent(s)
  PROVE  a \in Nat
  BY SMT DEF Recent, Ages

LEMMA MeasurePasses ==
  ASSUME GestureInv,
         NEW s \in Sensors, NEW x \in Distances, Measure(s, x)
  PROVE  Passed'
  <1>1. /\ Recent(s)' = Recent(s) \union (IF NewestFalls(win'[s]) THEN {0} ELSE {})
        /\ Recent(3 - s)' = Recent(3 - s)
    BY MeasureEffect DEF GestureInv, ProgramInv
  <1>2. /\ midway' = midway /\ state' = state
        /\ fell' = IF NewestFalls(win'[s]) THEN fell \union {s} ELSE fell
    BY DEF Measure, Update
  <1>3. SUFFICES ASSUME NEW e \in Sensors, NEW o \in Sensors, o # e,
                        e = Expected(state),
                        ~midway, state \in {1, 2, 12, 21}, e \notin fell'
                 PROVE  Behind(e, o)'
    BY <1>2 DEF Passed, Expected
  <1>4. e \notin fell
    BY <1>2, <1>3
  <1>5. Behind(e, o)
    BY <1>3, <1>4 DEF GestureInv, Passed
  <1>6. Recent(e)' = Recent(e)
    <2>1. CASE s = e
      <3>1. ~NewestFalls(win'[s])
        BY <1>2, <1>3, <2>1
      <3> QED
        BY <1>1, <2>1, <3>1
    <2>2. CASE s # e
      <3>1. e = 3 - s
        BY <1>3, <2>2, SMT DEF Sensors
      <3> QED
        BY <1>1, <3>1
    <2> QED
      BY <2>1, <2>2
  <1>7. Recent(o) \subseteq Recent(o)'
    <2>1. CASE s = o
      BY <1>1, <2>1
    <2>2. CASE s # o
      <3>1. o = 3 - s
        BY <1>3, <2>2, SMT DEF Sensors
      <3> QED
        BY <1>1, <3>1
    <2> QED
      BY <2>1, <2>2
  <1> QED
    BY <1>5, <1>6, <1>7 DEF Behind

LEMMA PeriodPasses ==
  ASSUME GestureInv, NextPeriod
  PROVE  Passed'
  <1>1. \A s \in Sensors : Recent(s)' = {a \in 1 .. W - 2 : a - 1 \in Recent(s)}
    BY PeriodEffect DEF GestureInv, ProgramInv
  <1>2. state' = state /\ fell' = fell /\ midway' = midway
    BY DEF NextPeriod, Pass
  <1>3. SUFFICES ASSUME NEW e \in Sensors, NEW o \in Sensors, o # e,
                        e = Expected(state),
                        ~midway, state \in {1, 2, 12, 21}, e \notin fell
                 PROVE  Behind(e, o)'
    BY <1>2 DEF Passed, Expected
  <1>4. Behind(e, o)
    BY <1>3 DEF GestureInv, Passed
  <1>5. ASSUME NEW a \in Recent(e)'
        PROVE  \E b \in Recent(o)' : b <= a /\ (e = 1 => b < a)
    <2>1. a \in 1 .. W - 2 /\ a - 1 \in Recent(e)
      BY <1>1, <1>5
    <2>2. PICK b \in Recent(o) : b <= a - 1 /\ (e = 1 => b < a - 1)
      BY <1>4, <2>1 DEF Behind
    <2>3. b \in Nat
      BY <2>2, AgesAreNumbers
    <2>4. b + 1 \in 1 .. W - 2 /\ (b + 1) - 1 = b /\ b + 1 <= a /\ (e = 1 => b + 1 < a)
      BY <2>1, <2>2, <2>3, SMT
    <2>5. b + 1 \in Recent(o)'
      BY <1>1, <2>2, <2>4
    <2> QED
      BY <2>4, <2>5
  <1> QED
    BY <1>5 DEF Behind

LEMMA ScanPasses ==
  ASSUME SharpDistances, GestureInv, Scan
  PROVE  Passed'
  <1>1. /\ ~Resets => \A s \in Sensors : Recent(s)' = Recent(s)
        /\ midway' = (measured # Sensors \/ (midway /\ ~Resets))
        /\ fell' = IF state' = state THEN fell ELSE {}
    BY ScanEffect DEF GestureInv, ProgramInv
  <1>2. SUFFICES ASSUME NEW e \in Sensors, NEW o \in Sensors, o # e,
                        e = Expected(state'),
                        ~midway', state' \in {1, 2, 12, 21}, e \notin fell'
                 PROVE  Behind(e, o)'
    BY DEF Passed, Expected
  <1>3. ~Resets /\ state' # 0 /\ state' # 3
    BY <1>2, SMT DEF Resets
  <1>4. ~midway
    BY <1>1, <1>2, <1>3
  <1>5. CASE state' = state
    <2>1. Behind(e, o)
      BY <1>1, <1>2, <1>4, <1>5 DEF GestureInv, Passed
    <2> QED
      BY <1>1, <1>3, <1>5, <2>1 DEF Behind
  <1>6. CASE state' # state
    <2>1. PICK peak \in 0 .. 2 :
            /\ Iterate(peak)
            /\ \/ peak = 0 /\ Recent(1) = {} /\ Recent(2) = {}
               \/ peak = 1 /\ \E a \in Recent(1) : \A b \in Recent(2) : a <= b
               \/ peak = 2 /\ \E a \in Recent(2) : \A b \in Recent(1) : a < b
      BY <1>2, <1>3, ScanNewest DEF GestureInv
    <2>2. peak \in {1, 2} /\ o = peak /\ e = 3 - peak
      <3>1. \/ state = 0 /\ state' = peak
            \/ peak = 2 /\ state' = 12
            \/ peak = 1 /\ state' = 21
        BY <1>3, <1>6, <2>1, Advances, Zenon
      <3> QED
        BY <1>2, <3>1, SMT DEF Expected, Sensors
    <2>3. Recent(1)' = Recent(1) /\ Recent(2)' = Recent(2)
      BY <1>1, <1>3 DEF Sensors
    <2>4. CASE peak = 1
      <3>1. PICK b \in Recent(1) : \A a \in Recent(2) : b <= a
        BY <2>1, <2>4
      <3>2. e = 2 /\ o = 1
        BY <2>2, <2>4
      <3> QED
        BY <2>3, <3>1, <3>2 DEF Behind
    <2>5. CASE peak = 2
      <3>1. PICK b \in Recent(2) : \A a \in Recent(1) : b < a
        BY <2>1, <2>5
      <3>2. e = 1 /\ o = 2
        BY <2>2, <2>5
      <3>3. \A a \in Recent(1) : b <= a
        <4>1. b \in Nat
          BY <3>1, AgesAreNumbers
        <4>2. ASSUME NEW a \in Recent(1) PROVE b <= a
          <5>1. a \in Nat /\ b < a
            BY <3>1, AgesAreNumbers
          <5> QED
            BY <4>1, <5>1, SMT
        <4> QED
          BY <4>2
      <3> QED
        BY <2>3, <3>1, <3>2, <3>3 DEF Behind
    <2> QED
      BY <2>2, <2>4, <2>5
  <1> QED
    BY <1>5, <1>6

LEMMA GestureInvariant ==
  ASSUME SharpDistances
  PROVE  SystemSpec => []GestureInv
  <1>1. Init /\ SensingInit => GestureInv
    <2>1. Init => Passed
      BY SMT DEF Init, Passed
    <2> QED
      BY <2>1, ProgramInit DEF GestureInv
  <1>2. GestureInv /\ [SystemNext]_allvars => GestureInv'
    <2> SUFFICES ASSUME GestureInv, [SystemNext]_allvars PROVE GestureInv'
      OBVIOUS
    <2>1. ProgramInv'
      BY MeasureKeeps, PeriodKeeps, ScanKeeps, UnchangedKeeps DEF SystemNext, GestureInv
    <2>2. CASE UNCHANGED allvars
      <3>1. UNCHANGED <<win, measured, fell, midway, state>>
        BY <2>2 DEF allvars, vars, sensing
      <3>2. \A s : Recent(s)' = Recent(s)
        BY <3>1 DEF Recent
      <3>3. \A e, o \in Sensors : Behind(e, o)' <=> Behind(e, o)
        BY <3>2 DEF Behind
      <3> QED
        BY <2>1, <3>1, <3>3 DEF GestureInv, Passed, Expected
    <2> QED
      BY <2>1, <2>2, MeasurePasses, PeriodPasses, ScanPasses DEF SystemNext, GestureInv
  <1> QED
    BY <1>1, <1>2, PTL DEF SystemSpec

(* A gesture advances only on a detection made since its last one          *)
(* (main.cpp:189-253), when the objects come and go within a period: the   *)
(* run GestoTrackSlow shows what an object does that comes slowly.         *)
THEOREM AdvancesAnew ==
  ASSUME SharpDistances
  PROVE  SystemSpec => GestureAdvancesOnNewFall
  <1> DEFINE advances == state' \in {12, 21, 3} /\ state' # state /\ ~midway'
  <1>1. ASSUME GestureInv, SystemNext, advances PROVE Expected(state) \in fell
    <2>1. state' # state /\ state' # 0 /\ state' \in {12, 21, 3} /\ ~Resets
      BY <1>1, SMT DEF Resets
    <2>2. Scan
      <3>1. ~NextPeriod
        BY <2>1 DEF NextPeriod, Pass
      <3>2. \A s \in Sensors, x \in Distances : ~Measure(s, x)
        BY <2>1 DEF Measure, Update
      <3> QED
        BY <1>1, <3>1, <3>2 DEF SystemNext
    <2>3. PICK peak \in 0 .. 2 :
            /\ Iterate(peak)
            /\ \/ peak = 0 /\ Recent(1) = {} /\ Recent(2) = {}
               \/ peak = 1 /\ \E a \in Recent(1) : \A b \in Recent(2) : a <= b
               \/ peak = 2 /\ \E a \in Recent(2) : \A b \in Recent(1) : a < b
      BY <1>1, <2>1, <2>2, ScanNewest DEF GestureInv
    <2>4. \/ state = 0 /\ state' = peak
          \/ state \in {1, 21} /\ peak = 2
          \/ state \in {2, 12} /\ peak = 1
      BY <2>1, <2>3, Advances, Zenon
    <2>5. state \in {1, 2, 12, 21} /\ peak \in Sensors /\ peak = Expected(state)
      BY <2>1, <2>4, SMT DEF Expected, Sensors
    <2>6. SUFFICES ASSUME peak \notin fell PROVE FALSE
      BY <2>5
    <2>7. Behind(peak, 3 - peak)
      <3>1. ~midway
        BY <1>1, <2>1, <2>2, ScanInStep DEF GestureInv
      <3>2. 3 - peak \in Sensors /\ 3 - peak # peak
        BY <2>5, SMT DEF Sensors
      <3> QED
        BY <1>1, <2>5, <2>6, <3>1, <3>2 DEF GestureInv, Passed
    <2>8. CASE peak = 1
      <3>1. PICK a \in Recent(1) : \A b \in Recent(2) : a <= b
        BY <2>3, <2>8
      <3>2. PICK b \in Recent(2) : b < a
        BY <2>7, <2>8, <3>1 DEF Behind
      <3>3. a \in Nat /\ b \in Nat /\ a <= b
        BY <3>1, <3>2, AgesAreNumbers
      <3> QED
        BY <3>2, <3>3, SMT
    <2>9. CASE peak = 2
      <3>1. PICK a \in Recent(2) : \A b \in Recent(1) : a < b
        BY <2>3, <2>9
      <3>2. PICK b \in Recent(1) : b <= a
        BY <2>7, <2>9, <3>1 DEF Behind
      <3>3. a \in Nat /\ b \in Nat /\ a < b
        BY <3>1, <3>2, AgesAreNumbers
      <3> QED
        BY <3>2, <3>3, SMT
    <2> QED
      BY <2>5, <2>8, <2>9 DEF Sensors
  <1>2. GestureInv /\ [SystemNext]_allvars => [advances => Expected(state) \in fell]_allvars
    BY <1>1
  <1> QED
    BY <1>2, GestureInvariant, PTL DEF SystemSpec, GestureAdvancesOnNewFall

(* No detection is missed: the first iteration after the expected sensor   *)
(* alone fell advances the gesture.                                        *)
THEOREM AdvancesAtOnce ==
  ASSUME SharpDistances
  PROVE  SystemSpec => ExpectedFallAdvances
  <1> DEFINE advances ==
               LET e == Expected(state)
               IN  /\ Scan /\ ~midway'
                   /\ state \in {1, 2, 12, 21}
                   /\ ~Idle
                   /\ NewestFalls(win[e]) /\ ~NewestFalls(win[3 - e])
                   => state' # state
  <1>1. ASSUME ProgramInv PROVE advances
    <2> DEFINE e == Expected(state)
    <2>1. SUFFICES ASSUME Scan, ~midway', state \in {1, 2, 12, 21}, ~Idle,
                          NewestFalls(win[e]), ~NewestFalls(win[3 - e]), state' = state
                   PROVE  FALSE
      OBVIOUS
    <2>e. e \in Sensors /\ 3 - e \in Sensors
      BY SMT DEF Expected, Sensors
    <2>2. ~Resets
      BY <2>1, SMT DEF Resets
    <2>3. PICK peak \in 0 .. 2 :
            /\ Iterate(peak)
            /\ \/ peak = 0 /\ Recent(1) = {} /\ Recent(2) = {}
               \/ peak = 1 /\ \E a \in Recent(1) : \A b \in Recent(2) : a <= b
               \/ peak = 2 /\ \E a \in Recent(2) : \A b \in Recent(1) : a < b
      BY <1>1, <2>1, <2>2, ScanNewest
    <2>4. ASSUME NEW s \in Sensors PROVE 0 \in Recent(s) <=> NewestFalls(win[s])
      <3>1. Recent(s) = Ages(win[s], 0) /\ win[s] \in Seq(Int) /\ Len(win[s]) <= W
        BY <1>1, <2>1, <2>2, ScanInStep, SeqOfInts DEF ProgramInv, Sampled
      <3>2. ASSUME NEW q \in Seq(Int), Len(q) <= W
            PROVE  0 \in Ages(q, 0) <=> NewestFalls(q)
        <4>1. Len(q) \in Nat /\ Len(q) + 0 - 0 = Len(q)
          BY LenProperties, SMT
        <4>2. Len(q) > 1 => 0 \in 0 .. W - 2 /\ Len(q) \in 2 .. Len(q) /\ q # <<>>
          BY <3>2, <4>1, EmptySeq, SMT
        <4>3. 0 \in Ages(q, 0) <=> 0 \in 0 .. W - 2 /\ Len(q) \in 2 .. Len(q) /\ Falls(q, Len(q))
          BY <4>1 DEF Ages
        <4>4. Falls(q, Len(q)) => Len(q) > 1
          BY DEF Falls
        <4>5. Len(q) \in 2 .. Len(q) => Len(q) > 1
          BY <4>1, SMT
        <4> QED
          BY <4>2, <4>3, <4>4, <4>5 DEF NewestFalls
      <3> QED
        BY <3>1, <3>2
    <2>5. 0 \in Recent(e) /\ 0 \notin Recent(3 - e)
      BY <2>1, <2>e, <2>4
    <2>6. peak = e
      <3>1. CASE peak = 0
        BY <2>3, <2>5, <2>e, <3>1 DEF Sensors
      <3>2. CASE peak = 1 /\ e = 2
        <4>1. PICK a \in Recent(1) : a <= 0
          BY <2>3, <2>5, <3>2
        <4>2. a = 0
          BY <4>1, AgesAreNumbers, SMT
        <4> QED
          BY <2>5, <3>2, <4>1, <4>2
      <3>3. CASE peak = 2 /\ e = 1
        <4>1. PICK a \in Recent(2) : a < 0
          BY <2>3, <2>5, <3>3
        <4> QED
          BY <4>1, AgesAreNumbers, SMT
      <3> QED
        BY <2>e, <2>3, <3>1, <3>2, <3>3 DEF Sensors
    <2>7. ~LeaveFinal /\ ~Appear(peak)
      BY <2>1, SMT DEF LeaveFinal, Appear
    <2>8. ~GoIdle
      BY <2>1 DEF GoIdle
    <2>9. ~Cross(peak)
      BY <2>1, SMT DEF Cross, Enter, StateChangesTo
    <2>10. \A d \in 0 .. SendTime : ~Return(peak, d)
      BY <2>1, SMT DEF Return
    <2>11. ~Ignore(peak)
      BY <2>1, <2>6, SMT DEF Ignore, Expected
    <2> QED
      BY <2>3, <2>7, <2>8, <2>9, <2>10, <2>11 DEF Iterate
  <1>2. ProgramInv => [advances]_allvars
    BY <1>1
  <1> QED
    BY <1>2, ProgramInvariant, PTL DEF SystemSpec, ExpectedFallAdvances
=============================================================================
