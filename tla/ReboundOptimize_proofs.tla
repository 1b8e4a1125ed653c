----------------------- MODULE ReboundOptimize_proofs -----------------------
(***************************************************************************)
(* For every number of control points and samples, and every bound on the  *)
(* rounds: what the optimiser hands on is clear, and what it keeps between *)
(* calls does not act in the next; and what a rebound pushes are whole     *)
(* segments of collision, with none left out but behind the end of one.    *)
(*                                                                         *)
(* The walk for segments is a recursive function that refers to itself     *)
(* only further on, so it exists (WalkExists), and what it finds from a    *)
(* point on follows from what it finds behind it (SegmentsFound).  The     *)
(* scan of a row of samples goes the other way: Scanned says what its      *)
(* flags and its counter know after n samples, and each next one keeps it. *)
(***************************************************************************)
EXTENDS ReboundOptimize, SequenceTheorems, WellFoundedInduction, TLAPS

Pcs == {"idle", "init", "round", "solve", "refine"}
Stops == {"DONT_STOP", "STOP_FOR_ERROR", "STOP_FOR_REBOUND"}

TypeInv ==
  /\ pc \in Pcs /\ success \in BOOLEAN
  /\ force_stop_type_ \in Stops
  /\ iter_num_ \in Nat /\ restart_nums \in Nat /\ rebound_times \in Nat

\* The rounds are counted down: as many restarts and rebounds as are allowed,
\* and one more of each that ends the call.
RoundsBounded ==
  /\ restart_nums <= MaxRestarts /\ rebound_times <= MaxRebounds + 1
  /\ pc \in {"init", "round", "solve"} =>
       restart_nums < MaxRestarts /\ rebound_times <= MaxRebounds

\* Only a look at the present points makes a success, and every move of the
\* points takes it back.
SuccessHolds == success => pc \in {"idle", "refine"} /\ curve = "clear"

\* Outside the solver no evaluation counts; a first segmentation finds the
\* optimiser without planes.
StopIsFresh ==
  /\ iter_num_ > 0 => pc = "solve"
  /\ iter_num_ > 0 /\ earlyExit => NewCollisions(occupied, covered) # {}

PlanesAreFresh ==
  /\ pc = "init" /\ restart_nums = 0 => planes = {} /\ rebound_times = 0
  /\ pc = "round" /\ restart_nums = 0 /\ rebound_times = 0 =>
       planes \subseteq UNION {s[1] .. s[2] : s \in ToSet(segment_ids)}

IInv == TypeInv /\ RoundsBounded /\ SuccessHolds /\ StopIsFresh /\ PlanesAreFresh

\* The invariant holds before the first call.
LEMMA InitIInv == Init => IInv
<1> SUFFICES ASSUME Init PROVE IInv
  OBVIOUS
<1>1. TypeInv BY DEF Init, TypeInv, Pcs, Stops
<1>2. RoundsBounded BY OptimizeAssumption DEF OptimizeAssumption, Init, RoundsBounded
<1>3. SuccessHolds BY DEF Init, SuccessHolds
<1>4. StopIsFresh BY DEF Init, StopIsFresh
<1>5. PlanesAreFresh BY DEF Init, PlanesAreFresh
<1> QED BY <1>1, <1>2, <1>3, <1>4, <1>5 DEF IInv

\* Planes given by a segmentation are of its segments.
LEMMA PushAdds ==
  ASSUME NEW segments, Push(segments), planes = {}
  PROVE  planes' \subseteq UNION {s[1] .. s[2] : s \in ToSet(segments)}
BY DEF Push

\* Each stage of rebound_optimize keeps the invariant.
LEMMA NextIInv == IInv /\ [Next]_vars => IInv'
<1> SUFFICES ASSUME IInv, [Next]_vars PROVE IInv'
  OBVIOUS
<1> USE DEF IInv
<1>1. CASE initControlPoints
  <2> USE <1>1 DEF initControlPoints, pointVars, stopVars, countVars
  <2>1. TypeInv' BY DEF TypeInv, Pcs, Stops
  <2>2. RoundsBounded' BY DEF RoundsBounded
  <2>3. SuccessHolds' BY DEF SuccessHolds, TypeInv
  <2>4. StopIsFresh' BY DEF StopIsFresh
  <2>5. restart_nums = 0 => planes' \subseteq UNION {s[1] .. s[2] : s \in ToSet(segment_ids')}
    BY PushAdds DEF PlanesAreFresh
  <2>6. PlanesAreFresh' BY <2>5 DEF PlanesAreFresh
  <2> QED BY <2>1, <2>2, <2>3, <2>4, <2>6
<1>2. CASE reboundReplan
  <2> USE <1>2 DEF reboundReplan, stopVars
  <2>1. TypeInv' BY DEF TypeInv, Pcs, Stops
  <2>2. RoundsBounded' BY OptimizeAssumption DEF OptimizeAssumption, RoundsBounded
  <2>3. SuccessHolds' BY DEF SuccessHolds
  <2>4. StopIsFresh' BY DEF StopIsFresh, TypeInv
  <2>5. PlanesAreFresh' BY DEF PlanesAreFresh
  <2> QED BY <2>1, <2>2, <2>3, <2>4, <2>5
<1>3. CASE prepare
  <2> USE <1>3 DEF prepare, pointVars, stopVars, countVars
  <2>1. TypeInv' BY DEF TypeInv, Pcs, Stops
  <2>2. RoundsBounded' BY DEF RoundsBounded
  <2>3. SuccessHolds' BY DEF SuccessHolds
  <2>4. StopIsFresh' BY DEF StopIsFresh, TypeInv
  <2>5. PlanesAreFresh' BY DEF PlanesAreFresh
  <2> QED BY <2>1, <2>2, <2>3, <2>4, <2>5
<1>4. CASE costFunctionRebound
  <2>1. /\ pc = "solve" /\ pc' = "solve" /\ iter_num_' = iter_num_ + 1 /\ success' = success
        /\ restart_nums' = restart_nums /\ rebound_times' = rebound_times
    BY <1>4 DEF costFunctionRebound, countVars
  <2>2. /\ force_stop_type_' \in Stops
        /\ earlyExit' => NewCollisions(occupied', covered') # {}
    <3>1. CASE check_collision_and_rebound
      BY <3>1 DEF check_collision_and_rebound, earlyExit, Stops
    <3>2. CASE force_stop_type_' = "DONT_STOP"
      BY <3>2 DEF earlyExit, Stops
    <3> QED BY <1>4, <3>1, <3>2 DEF costFunctionRebound
  <2>3. TypeInv' BY <2>1, <2>2 DEF TypeInv, Pcs
  <2>4. RoundsBounded' BY <2>1 DEF RoundsBounded
  <2>5. SuccessHolds' BY <2>1 DEF SuccessHolds
  <2>6. (NewCollisions(occupied, covered))' = NewCollisions(occupied', covered')
    BY DEF NewCollisions
  <2>7. StopIsFresh' BY <2>1, <2>2, <2>6 DEF StopIsFresh
  <2>8. PlanesAreFresh' BY <2>1 DEF PlanesAreFresh
  <2> QED BY <2>3, <2>4, <2>5, <2>7, <2>8
<1>5. CASE Cancelled
  <2> USE <1>5 DEF Cancelled, SolverEnds, Return
  <2>1. TypeInv'
    <3>1. success' \in BOOLEAN BY Zenon DEF TypeInv
    <3>2. pc' \in Pcs /\ force_stop_type_' \in Stops /\ iter_num_' \in Nat
          /\ restart_nums' \in Nat /\ rebound_times' \in Nat
      BY DEF TypeInv, Pcs
    <3> QED BY <3>1, <3>2 DEF TypeInv
  <2>2. RoundsBounded'
    BY OptimizeAssumption DEF OptimizeAssumption, RoundsBounded, TypeInv
  <2>3. SuccessHolds' BY DEF SuccessHolds
  <2>4. StopIsFresh' BY DEF StopIsFresh
  <2>5. PlanesAreFresh' BY DEF PlanesAreFresh, TypeInv
  <2> QED BY <2>1, <2>2, <2>3, <2>4, <2>5
<1>6. CASE Converged
  <2> USE <1>6 DEF Converged, SolverEnds, Return
  <2>1. TypeInv'
    <3>1. success' \in BOOLEAN BY Zenon DEF TypeInv
    <3>2. pc' \in Pcs /\ force_stop_type_' \in Stops /\ iter_num_' \in Nat
          /\ restart_nums' \in Nat /\ rebound_times' \in Nat
      BY DEF TypeInv, Pcs
    <3> QED BY <3>1, <3>2 DEF TypeInv
  <2>2. RoundsBounded' BY OptimizeAssumption DEF OptimizeAssumption, RoundsBounded, TypeInv
  <2>3. SuccessHolds' BY Zenon DEF SuccessHolds
  <2>4. StopIsFresh' BY DEF StopIsFresh
  <2>5. PlanesAreFresh' BY DEF PlanesAreFresh, TypeInv
  <2> QED BY <2>1, <2>2, <2>3, <2>4, <2>5
<1>7. CASE SolverFailed
  <2> USE <1>7 DEF SolverFailed, SolverEnds, Return, countVars
  <2>1. TypeInv' BY DEF TypeInv, Pcs, Stops
  <2>2. RoundsBounded' BY DEF RoundsBounded
  <2>3. SuccessHolds' BY DEF SuccessHolds
  <2>4. StopIsFresh' BY DEF StopIsFresh
  <2>5. PlanesAreFresh' BY DEF PlanesAreFresh
  <2> QED BY <2>1, <2>2, <2>3, <2>4, <2>5
<1>8. CASE Feasible
  <2> USE <1>8 DEF Feasible, pointVars, stopVars, countVars
  <2>1. TypeInv' BY DEF TypeInv, Pcs, Stops
  <2>2. RoundsBounded' BY DEF RoundsBounded
  <2>3. SuccessHolds' BY DEF SuccessHolds
  <2>4. StopIsFresh' BY DEF StopIsFresh
  <2>5. PlanesAreFresh' BY DEF PlanesAreFresh
  <2> QED BY <2>1, <2>2, <2>3, <2>4, <2>5
<1>9. CASE BsplineOptimizeTrajRefine
  <2> USE <1>9 DEF BsplineOptimizeTrajRefine, stopVars, countVars
  <2>1. TypeInv'
    <3>1. success' \in BOOLEAN BY Zenon
    <3>2. pc' \in Pcs /\ force_stop_type_' \in Stops /\ iter_num_' \in Nat
          /\ restart_nums' \in Nat /\ rebound_times' \in Nat
      BY DEF TypeInv, Pcs
    <3> QED BY <3>1, <3>2 DEF TypeInv
  <2>2. RoundsBounded' BY DEF RoundsBounded
  <2>3. SuccessHolds' BY Zenon DEF SuccessHolds
  <2>4. StopIsFresh' BY DEF StopIsFresh
  <2>5. PlanesAreFresh' BY DEF PlanesAreFresh
  <2> QED BY <2>1, <2>2, <2>3, <2>4, <2>5
<1>10. CASE UNCHANGED vars
  <2> USE <1>10 DEF vars, pointVars, stopVars, countVars
  <2>1. TypeInv' BY DEF TypeInv, Pcs, Stops
  <2>2. RoundsBounded' BY DEF RoundsBounded
  <2>3. SuccessHolds' BY DEF SuccessHolds
  <2>4. StopIsFresh' BY DEF StopIsFresh, earlyExit, NewCollisions
  <2>5. PlanesAreFresh' BY DEF PlanesAreFresh
  <2> QED BY <2>1, <2>2, <2>3, <2>4, <2>5
<1> QED BY <1>1, <1>2, <1>3, <1>4, <1>5, <1>6, <1>7, <1>8, <1>9, <1>10 DEF Next, Step

\* The invariant holds throughout every sequence of calls.
LEMMA Inductive == Spec => []IInv
BY InitIInv, NextIInv, PTL DEF Spec

\* However many rounds it took and whatever the solver did with the points in
\* between, a trajectory handed on was looked at as it is and found clear.
THEOREM HandedOnClear == Spec => []SuccessIsClear
<1>1. IInv => SuccessIsClear BY DEF IInv, SuccessHolds, SuccessIsClear
<1> QED BY <1>1, Inductive, PTL

\* A stop that cancels the solver is one of the points last evaluated, and
\* until the first rebound or restart only segments of this call are pushed.
THEOREM CallsAreSeparate == Spec => []NothingStale
<1>1. IInv => NothingStale
  BY DEF IInv, StopIsFresh, PlanesAreFresh, NothingStale
<1> QED BY <1>1, Inductive, PTL

\* The two counters bound the rounds of every call.
THEOREM RoundsAreBounded == Spec => []RoundsBounded
<1>1. IInv => RoundsBounded BY DEF IInv
<1> QED BY <1>1, Inductive, PTL

-----------------------------------------------------------------------------
\* A set of naturals that is not empty has a least element (WFMin).
LEMMA LeastElement ==
  ASSUME NEW S \in SUBSET Nat, S # {}
  PROVE  Min(S) \in S /\ \A y \in S : Min(S) <= y
<1>1. \E x \in S : \A y \in S : ~(<<y, x>> \in OpToRel(<, Nat))
  <2> HIDE DEF OpToRel
  <2> QED BY NatLessThanWellFounded, WFMin
<1>2. \A x, y \in S : y < x => <<y, x>> \in OpToRel(<, Nat)
  BY DEF OpToRel
<1>3. PICK x \in S : \A y \in S : ~(y < x)
  BY <1>1, <1>2
<1>4. \E z \in S : \A y \in S : z <= y
  BY <1>3
<1> QED BY <1>4 DEF Min

\* One that is bounded has a greatest element, too.
LEMMA GreatestElement ==
  ASSUME NEW n \in Nat, NEW S \in SUBSET (0 .. n), S # {}
  PROVE  Max(S) \in S /\ \A y \in S : y <= Max(S)
<1> DEFINE T == {n - x : x \in S}
<1>1. T \in SUBSET Nat /\ T # {}
  <2>1. \A x \in S : x \in 0 .. n
    OBVIOUS
  <2>2. \A x \in S : n - x \in Nat
    BY <2>1
  <2>3. T \subseteq Nat
    BY <2>2
  <2> QED BY <2>3
<1>2. Min(T) \in T /\ \A y \in T : Min(T) <= y
  <2> HIDE DEF T
  <2> QED BY <1>1, LeastElement
<1>3. PICK x \in S : Min(T) = n - x
  BY <1>2
<1>4. \A y \in S : x >= y
  <2> SUFFICES ASSUME NEW y \in S PROVE x >= y
    OBVIOUS
  <2>1. n - y \in T
    OBVIOUS
  <2>2. n - x <= n - y
    BY <1>2, <1>3, <2>1
  <2> QED BY <2>2
<1> QED BY <1>4 DEF Max

\* What holds of a number up to n when it holds of all above holds of all of them.
LEMMA Downwards ==
  ASSUME NEW n \in Nat, NEW S,
         \A i \in 0 .. n : (\A j \in i + 1 .. n : j \in S) => i \in S
  PROVE  \A i \in 0 .. n : i \in S
<1> DEFINE T == (0 .. n) \ S
<1>1. SUFFICES ASSUME T # {} PROVE FALSE
  OBVIOUS
<1>2. Max(T) \in T /\ \A y \in T : y <= Max(T)
  BY <1>1, GreatestElement
<1>3. \A j \in Max(T) + 1 .. n : j \in S
  BY <1>2
<1> QED BY <1>2, <1>3

\* One more element in front of a sequence.
LEMMA Prepend ==
  ASSUME NEW X, NEW s \in X, NEW q \in Seq(X)
  PROVE  /\ <<s>> \o q \in Seq(X) /\ Len(<<s>> \o q) = Len(q) + 1 /\ Len(q) \in Nat
         /\ DOMAIN (<<s>> \o q) = 1 .. Len(q) + 1
         /\ (<<s>> \o q)[1] = s /\ \A k \in 1 .. Len(q) : (<<s>> \o q)[k + 1] = q[k]
<1>1. <<s>> \in Seq(X) /\ Len(<<s>>) = 1 /\ <<s>>[1] = s /\ Len(q) \in Nat
  OBVIOUS
<1>2. /\ <<s>> \o q \in Seq(X) /\ Len(<<s>> \o q) = 1 + Len(q)
      /\ \A i \in 1 .. 1 + Len(q) : (<<s>> \o q)[i] = IF i <= 1 THEN <<s>>[i] ELSE q[i - 1]
  BY <1>1, ConcatProperties
<1>3. DOMAIN (<<s>> \o q) = 1 .. Len(q) + 1
  BY <1>1, <1>2
<1>4. (<<s>> \o q)[1] = s
  BY <1>1, <1>2
<1>5. ASSUME NEW k \in 1 .. Len(q) PROVE (<<s>> \o q)[k + 1] = q[k]
  BY <1>1, <1>2
<1> QED BY <1>1, <1>2, <1>3, <1>4, <1>5
-----------------------------------------------------------------------------
Farthest == Cols - order_ - (Cols - 2 * order_) \div 3

\* The last point that is looked at is before the end.
LEMMA LastChecked ==
  /\ Farthest \in Nat /\ Farthest < Cols /\ order_ \in Nat /\ Cols \in Nat /\ order_ - 1 \in 0 .. Farthest
  /\ Checked = order_ - 1 .. Farthest /\ Max(Checked) = Farthest
<1>1. /\ Farthest \in Nat /\ Farthest < Cols /\ order_ \in Nat /\ Cols \in Nat /\ order_ - 1 \in 0 .. Farthest
      /\ order_ - 1 <= Farthest
  BY OptimizeAssumption DEF OptimizeAssumption, Farthest
<1>2. Checked = order_ - 1 .. Farthest
  BY DEF Checked, Farthest
<1> HIDE DEF Farthest
<1>3. Checked \in SUBSET (0 .. Farthest) /\ Farthest \in Checked
  BY <1>1, <1>2
<1>4. Max(Checked) \in Checked /\ Farthest <= Max(Checked)
  BY <1>1, <1>3, GreatestElement
<1>5. Max(Checked) = Farthest
  <2>1. ASSUME NEW m \in Checked, Farthest <= m PROVE m = Farthest
    <3>1. m \in order_ - 1 .. Farthest
      BY <1>2, <2>1
    <3> QED BY <1>1, <2>1, <3>1
  <2> QED BY <1>4, <2>1
<1> QED BY <1>1, <1>2, <1>5

\* The segment around a collision reaches to the next free points.
LEMMA SegmentReaches ==
  ASSUME NEW i \in 0 .. Farthest, NEW occ, i \in occ
  PROVE  LET s == SegmentAround(i, occ)
         IN  /\ s \in Nat \X Nat /\ s[1] \in 0 .. i /\ s[2] \in i + 1 .. Cols
             /\ \A j \in s[1] + 1 .. s[2] - 1 : j \in occ
             /\ s[1] # 0 => s[1] \notin occ
             /\ s[2] # Cols => s[2] \notin occ
             /\ \A j \in 0 .. i - 1 : j \notin occ => j <= s[1]
<1> DEFINE B == {0} \cup {j \in 0 .. i - 1 : j \notin occ}
           A == {Cols} \cup {j \in i + 1 .. Cols - 1 : j \notin occ}
           a == Max(B)
           b == Min(A)
<1>1. /\ Cols \in Nat /\ i \in Nat /\ i < Cols
  BY LastChecked
<1>2. a \in B /\ \A y \in B : y <= a
  <2>1. B \in SUBSET (0 .. i) /\ B # {}
    BY <1>1
  <2> HIDE DEF B
  <2> QED BY <1>1, <2>1, GreatestElement
<1>3. b \in A /\ \A y \in A : b <= y
  <2>1. A \in SUBSET Nat /\ A # {}
    BY <1>1
  <2> HIDE DEF A
  <2> QED BY <2>1, LeastElement
<1>4. SegmentAround(i, occ) = <<a, b>>
  BY DEF SegmentAround
<1> HIDE DEF a, b
<1>5. a \in 0 .. i /\ (a # 0 => a \notin occ) /\ \A j \in 0 .. i - 1 : j \notin occ => j <= a
  BY <1>1, <1>2
<1>6. b \in i + 1 .. Cols /\ (b # Cols => b \notin occ)
  BY <1>1, <1>3
<1>7. ASSUME NEW j \in a + 1 .. b - 1 PROVE j \in occ
  <2>1. CASE j < i
    BY <1>1, <1>5, <1>7, <2>1
  <2>2. CASE j > i
    BY <1>1, <1>3, <1>6, <1>7, <2>2
  <2> QED BY <1>1, <1>5, <1>6, <1>7, <2>1, <2>2
<1> QED BY <1>1, <1>4, <1>5, <1>6, <1>7
-----------------------------------------------------------------------------
\* One point of the walk for segments, and a walk from lo on.
WalkAt(g, i, occ, cov) ==
  IF i > Max(Checked) THEN <<>>
  ELSE IF i \notin NewCollisions(occ, cov) THEN g[i + 1]
  ELSE LET s == SegmentAround(i, occ) IN <<s>> \o g[s[2] + 2]
IsWalk(g, lo, occ, cov) == g = [i \in lo .. Cols + 2 |-> WalkAt(g, i, occ, cov)]

\* What is found from point i on: segments around new collisions, one behind
\* the other, and none of the collisions left out but those leapt over.
FoundFrom(q, i, occ, cov) ==
  /\ q \in Seq(Nat \X Nat)
  /\ \A k \in 1 .. Len(q) : \E j \in NewCollisions(occ, cov) : i <= j /\ q[k] = SegmentAround(j, occ)
  /\ \A k \in 1 .. Len(q) - 1 : q[k][2] <= q[k + 1][1]
  /\ \A c \in NewCollisions(occ, cov) : i <= c => \E k \in 1 .. Len(q) : c \in q[k][1] .. q[k][2] + 1

\* A collision that is looked at has a segment that ends behind it.
LEMMA WalkGoesOn ==
  ASSUME NEW occ, NEW cov, NEW i \in NewCollisions(occ, cov)
  PROVE  /\ i \in 0 .. Farthest /\ i \in occ
         /\ SegmentAround(i, occ)[2] + 2 \in i + 3 .. Cols + 2
<1>1. i \in 0 .. Farthest /\ i \in occ
  BY LastChecked DEF NewCollisions
<1>2. SegmentAround(i, occ)[2] \in i + 1 .. Cols
  BY <1>1, SegmentReaches
<1> QED BY <1>1, <1>2, LastChecked

\* A walk looks at itself only further on.
LEMMA WalkLooksAhead ==
  ASSUME NEW occ, NEW cov, NEW i \in 0 .. Cols + 2, NEW g, NEW h,
         \A j \in i + 1 .. Cols + 2 : g[j] = h[j]
  PROVE  WalkAt(g, i, occ, cov) = WalkAt(h, i, occ, cov)
<1>1. CASE i > Max(Checked)
  BY <1>1 DEF WalkAt
<1>2. CASE i <= Max(Checked) /\ i \notin NewCollisions(occ, cov)
  <2>1. i + 1 \in i + 1 .. Cols + 2
    BY <1>2, LastChecked
  <2> QED BY <1>2, <2>1, LastChecked DEF WalkAt
<1>3. CASE i <= Max(Checked) /\ i \in NewCollisions(occ, cov)
  <2>1. SegmentAround(i, occ)[2] + 2 \in i + 1 .. Cols + 2
    BY <1>3, WalkGoesOn, LastChecked
  <2> QED BY <1>3, <2>1, LastChecked DEF WalkAt
<1> QED BY <1>1, <1>2, <1>3, LastChecked

\* There is a walk over all points.
LEMMA WalkExists ==
  ASSUME NEW occ, NEW cov
  PROVE  \E g : IsWalk(g, 0, occ, cov)
<1> DEFINE n == Cols + 2
           S == {i \in 0 .. n : \E g : IsWalk(g, i, occ, cov)}
<1>1. n \in Nat /\ 0 \in 0 .. n
  BY LastChecked
<1>2. ASSUME NEW i \in 0 .. n, \A j \in i + 1 .. n : j \in S PROVE i \in S
  <2>1. PICK g : \A j \in i + 1 .. n : g[j] = WalkAt(g, j, occ, cov)
    <3>1. CASE i = n
      <4>1. i + 1 .. n = {}
        BY <1>1, <3>1
      <4> QED BY <4>1
    <3>2. CASE i < n
      <4>1. i + 1 \in i + 1 .. n
        BY <1>1, <3>2
      <4>2. PICK g : IsWalk(g, i + 1, occ, cov)
        BY <1>2, <4>1
      <4> QED BY <4>2 DEF IsWalk
    <3> QED BY <1>1, <3>1, <3>2
  <2> DEFINE h == [j \in i .. n |-> IF j = i THEN WalkAt(g, i, occ, cov) ELSE g[j]]
  <2>2. \A j \in i + 1 .. n : j \in i .. n /\ j # i /\ h[j] = g[j]
    BY <1>1
  <2>3. ASSUME NEW j \in i .. n PROVE h[j] = WalkAt(h, j, occ, cov)
    <3>1. j \in 0 .. Cols + 2 /\ \A m \in j + 1 .. Cols + 2 : m \in i + 1 .. n
      BY <1>1
    <3>2. \A m \in j + 1 .. Cols + 2 : g[m] = h[m]
      BY <2>2, <3>1
    <3>3. WalkAt(g, j, occ, cov) = WalkAt(h, j, occ, cov)
      <4> HIDE DEF h
      <4> QED BY <3>1, <3>2, WalkLooksAhead
    <3>4. h[j] = WalkAt(g, j, occ, cov)
      <4>1. CASE j = i
        BY <4>1
      <4>2. CASE j # i
        <5>1. j \in i + 1 .. n
          BY <1>1, <4>2
        <5> QED BY <2>1, <2>2, <5>1
      <4> QED BY <4>1, <4>2
    <3> QED BY <3>3, <3>4
  <2>4. h = [j \in i .. n |-> h[j]]
    OBVIOUS
  <2>5. IsWalk(h, i, occ, cov)
    <3> HIDE DEF h
    <3> QED BY <2>3, <2>4 DEF IsWalk
  <2> HIDE DEF h
  <2> QED BY <2>5
<1>3. 0 \in S
  <2> HIDE DEF S, n
  <2> QED BY <1>1, <1>2, Downwards
<1> QED BY <1>3

\* A segment in front of what is found two points behind it.
LEMMA FoundBefore ==
  ASSUME NEW occ, NEW cov, NEW i \in NewCollisions(occ, cov), NEW s, s = SegmentAround(i, occ),
         NEW q, FoundFrom(q, s[2] + 2, occ, cov), NEW p, p = <<s>> \o q
  PROVE  FoundFrom(p, i, occ, cov)
<1> DEFINE N == NewCollisions(occ, cov)
           m == Len(q)
<1>1. \A c \in N : c \in 0 .. Farthest /\ c \in occ
  BY WalkGoesOn
<1>2. /\ s \in Nat \X Nat /\ s[1] \in 0 .. i /\ s[2] \in i + 1 .. Cols
      /\ s[2] # Cols => s[2] \notin occ
  BY <1>1, SegmentReaches
<1>3. q \in Seq(Nat \X Nat)
  BY DEF FoundFrom
<1>4. /\ p \in Seq(Nat \X Nat) /\ Len(p) = m + 1 /\ m \in Nat
      /\ p[1] = s /\ \A k \in 1 .. m : p[k + 1] = q[k]
  <2> DEFINE X == Nat \X Nat
  <2>1. s \in X /\ q \in Seq(X)
    BY <1>2, <1>3
  <2> HIDE DEF X
  <2>2. /\ p \in Seq(X) /\ Len(p) = m + 1 /\ m \in Nat
        /\ p[1] = s /\ \A k \in 1 .. m : p[k + 1] = q[k]
    BY <2>1, Prepend
  <2> QED BY <2>2 DEF X
<1>5. /\ \A k \in 1 .. m : \E j \in N : s[2] + 2 <= j /\ q[k] = SegmentAround(j, occ)
      /\ \A k \in 1 .. m - 1 : q[k][2] <= q[k + 1][1]
      /\ \A c \in N : s[2] + 2 <= c => \E k \in 1 .. m : c \in q[k][1] .. q[k][2] + 1
  BY DEF FoundFrom
<1> HIDE DEF m
<1>6. ASSUME NEW k \in 1 .. m + 1 PROVE \E j \in N : i <= j /\ p[k] = SegmentAround(j, occ)
  <2>1. CASE k = 1
    BY <1>1, <1>4, <2>1
  <2>2. CASE k # 1
    <3>1. k - 1 \in 1 .. m /\ (k - 1) + 1 = k
      BY <1>4, <2>2
    <3>2. PICK j \in N : s[2] + 2 <= j /\ q[k - 1] = SegmentAround(j, occ)
      BY <1>5, <3>1
    <3>3. i <= j
      BY <1>1, <1>2, <3>2
    <3> QED BY <1>4, <3>1, <3>2, <3>3
  <2> QED BY <2>1, <2>2
<1>7. ASSUME NEW k \in 1 .. m PROVE p[k][2] <= p[k + 1][1]
  <2>1. p[k + 1] = q[k]
    BY <1>4
  <2>2. CASE k = 1
    <3>1. PICK j \in N : s[2] + 2 <= j /\ q[1] = SegmentAround(j, occ)
      BY <1>5, <2>2
    <3>2. j \in 0 .. Farthest /\ j \in occ
      BY <1>1
    <3>3. s[2] \in 0 .. j - 1 /\ s[2] # Cols
      BY <1>2, <3>1, <3>2, LastChecked
    <3>4. s[2] <= q[1][1]
      BY <1>2, <3>1, <3>2, <3>3, SegmentReaches
    <3> QED BY <1>4, <2>1, <2>2, <3>4
  <2>3. CASE k # 1
    <3>1. k - 1 \in 1 .. m - 1 /\ k - 1 \in 1 .. m /\ (k - 1) + 1 = k
      BY <1>4, <2>3
    <3>2. q[k - 1][2] <= q[(k - 1) + 1][1] /\ p[(k - 1) + 1] = q[k - 1]
      BY <1>4, <1>5, <3>1
    <3> QED BY <2>1, <3>1, <3>2
  <2> QED BY <2>2, <2>3
<1>8. ASSUME NEW c \in N, i <= c PROVE \E k \in 1 .. m + 1 : c \in p[k][1] .. p[k][2] + 1
  <2>1. CASE c <= s[2] + 1
    <3>1. 1 \in 1 .. m + 1 /\ c \in s[1] .. s[2] + 1
      BY <1>1, <1>2, <1>4, <1>8, <2>1
    <3> QED BY <1>4, <3>1
  <2>2. CASE c > s[2] + 1
    <3>1. s[2] + 2 <= c
      BY <1>1, <1>2, <2>2
    <3>2. PICK k \in 1 .. m : c \in q[k][1] .. q[k][2] + 1
      BY <1>5, <3>1
    <3>3. k + 1 \in 1 .. m + 1
      BY <1>4
    <3>4. p[k + 1] = q[k]
      BY <1>4
    <3> HIDE DEF N
    <3> QED BY <3>2, <3>3, <3>4
  <2>3. c <= s[2] + 1 \/ c > s[2] + 1
    <3>1. c \in Int /\ s[2] \in Int
      BY <1>1, <1>2, LastChecked
    <3> QED BY <3>1
  <2> QED BY <2>1, <2>2, <2>3
<1>9. (m + 1) - 1 = m
  BY <1>4
<1> QED BY <1>4, <1>6, <1>7, <1>8, <1>9 DEF FoundFrom

\* What the walk over all points finds.
LEMMA SegmentsFound ==
  ASSUME NEW occ, NEW cov
  PROVE  FoundFrom(CollisionSegments(occ, cov), order_ - 1, occ, cov)
<1> DEFINE from == CHOOSE g : IsWalk(g, 0, occ, cov)
           n == Cols + 2
           N == NewCollisions(occ, cov)
           S == {i \in 0 .. n : FoundFrom(from[i], i, occ, cov)}
<1>1. CollisionSegments(occ, cov) = from[order_ - 1]
  BY DEF CollisionSegments, IsWalk, WalkAt
<1>2. IsWalk(from, 0, occ, cov)
  BY WalkExists
<1> HIDE DEF from
<1>3. n \in Nat /\ order_ - 1 \in 0 .. n /\ Max(Checked) = Farthest /\ Farthest \in Nat /\ Farthest < n
  BY LastChecked
<1>4. \A i \in 0 .. n : from[i] = WalkAt(from, i, occ, cov)
  BY <1>2 DEF IsWalk
<1>5. \A c \in N : c \in 0 .. Farthest /\ c \in occ
  BY WalkGoesOn
<1>6. ASSUME NEW i \in 0 .. n, \A j \in i + 1 .. n : FoundFrom(from[j], j, occ, cov)
      PROVE  FoundFrom(from[i], i, occ, cov)
  <2>1. CASE i > Farthest
    <3>1. from[i] = <<>>
      BY <1>3, <1>4, <2>1 DEF WalkAt
    <3>2. \A c \in N : ~(i <= c)
      BY <1>3, <1>5, <2>1
    <3>3. <<>> \in Seq(Nat \X Nat) /\ Len(<<>>) = 0
      OBVIOUS
    <3> QED BY <3>1, <3>2, <3>3 DEF FoundFrom
  <2>2. CASE i <= Farthest /\ i \notin N
    <3>1. i + 1 \in i + 1 .. n /\ ~(i > Max(Checked))
      BY <1>3, <2>2
    <3>2. from[i] = from[i + 1]
      BY <1>4, <2>2, <3>1 DEF WalkAt
    <3>3. FoundFrom(from[i + 1], i + 1, occ, cov)
      BY <1>6, <3>1
    <3>4. \A c \in N : i <= c <=> i + 1 <= c
      BY <1>5, <2>2
    <3>5. \A c \in N : i + 1 <= c => i <= c
      BY <3>4
    <3> QED BY <3>2, <3>3, <3>4, <3>5 DEF FoundFrom
  <2>3. CASE i <= Farthest /\ i \in N
    <3> DEFINE s == SegmentAround(i, occ)
    <3>1. s[2] + 2 \in i + 1 .. n /\ ~(i > Max(Checked))
      <4>1. s[2] + 2 \in i + 3 .. n
        BY <2>3, WalkGoesOn
      <4> QED BY <1>3, <2>3, <4>1
    <3>2. from[i] = <<s>> \o from[s[2] + 2]
      BY <1>4, <2>3, <3>1 DEF WalkAt
    <3>3. FoundFrom(from[s[2] + 2], s[2] + 2, occ, cov)
      <4> HIDE DEF s, n
      <4> QED BY <1>6, <3>1
    <3> QED BY <2>3, <3>2, <3>3, FoundBefore
  <2> QED BY <1>3, <2>1, <2>2, <2>3
<1>7. \A i \in 0 .. n : i \in S
  <2>1. \A i \in 0 .. n : (\A j \in i + 1 .. n : j \in S) => i \in S
    BY <1>6
  <2> HIDE DEF S, n
  <2> QED BY <1>3, <2>1, Downwards
<1> QED BY <1>1, <1>3, <1>7

\* What a check that cancels the solver leaves behind.
LEMMA ReboundHeld ==
  ASSUME NEW occ, NEW cov, NEW segments, segments = CollisionSegments(occ, cov),
         \A s \in ToSet(segments) : s[2] # Cols
  PROVE  /\ \A s \in ToSet(segments) :
              /\ s[1] + 1 .. s[2] - 1 \subseteq occ /\ s[2] \notin occ
              /\ s[1] # 0 => s[1] \notin occ
         /\ \A k \in 1 .. Len(segments) - 1 : segments[k][2] <= segments[k + 1][1]
         /\ \A i \in NewCollisions(occ, cov) : \E s \in ToSet(segments) : i \in s[1] .. s[2] + 1
<1>1. FoundFrom(segments, order_ - 1, occ, cov)
  BY SegmentsFound
<1>2. segments \in Seq(Nat \X Nat) /\ DOMAIN segments = 1 .. Len(segments)
  BY <1>1 DEF FoundFrom
<1>3. \A s : s \in ToSet(segments) <=> \E k \in 1 .. Len(segments) : s = segments[k]
  BY <1>2 DEF ToSet
<1>4. ASSUME NEW s \in ToSet(segments)
      PROVE  /\ \A j \in s[1] + 1 .. s[2] - 1 : j \in occ
             /\ s[2] \notin occ /\ (s[1] # 0 => s[1] \notin occ)
  <2>1. PICK j \in NewCollisions(occ, cov) : s = SegmentAround(j, occ)
    <3>1. PICK k \in 1 .. Len(segments) : s = segments[k]
      BY <1>3
    <3> QED BY <1>1, <3>1 DEF FoundFrom
  <2>2. j \in 0 .. Farthest /\ j \in occ
    BY WalkGoesOn
  <2>3. s[2] # Cols
    OBVIOUS
  <2> QED BY <2>1, <2>2, <2>3, SegmentReaches
<1>5. \A i \in NewCollisions(occ, cov) : order_ - 1 <= i
  BY LastChecked DEF NewCollisions
<1>6. \A i \in NewCollisions(occ, cov) : \E s \in ToSet(segments) : i \in s[1] .. s[2] + 1
  BY <1>1, <1>3, <1>5 DEF FoundFrom
<1>7. \A k \in 1 .. Len(segments) - 1 : segments[k][2] <= segments[k + 1][1]
  BY <1>1 DEF FoundFrom
<1> QED BY <1>4, <1>6, <1>7

\* A rebound pushes the points of segments that do not overlap and reach from
\* free point to free point, and no new collision is lost but one the walk
\* leaps over: for every number of points, whatever is occupied or covered.
THEOREM ReboundsAreWhole == Spec => []ReboundsHoldCollisions
<1> DEFINE Inv == IInv /\ ReboundsHoldCollisions
<1>1. Init => Inv
  BY InitIInv DEF Init, ReboundsHoldCollisions
<1>2. Inv /\ [Next]_vars => Inv'
  <2> SUFFICES ASSUME Inv, [Next]_vars PROVE ReboundsHoldCollisions'
    BY NextIInv
  <2>1. IInv /\ IInv'
    BY NextIInv
  <2>2. CASE ~(pc' = "solve" /\ iter_num_' > 0 /\ force_stop_type_' = "STOP_FOR_REBOUND")
    BY <2>2 DEF ReboundsHoldCollisions
  <2>3. ASSUME iter_num_ = 0, iter_num_' = iter_num_ PROVE ReboundsHoldCollisions'
    BY <2>3 DEF ReboundsHoldCollisions
  <2>4. ASSUME pc # "solve" PROVE iter_num_ = 0
    BY <2>1, <2>4 DEF IInv, StopIsFresh, TypeInv
  <2>5. CASE initControlPoints
    BY <2>3, <2>4, <2>5 DEF initControlPoints
  <2>6. CASE reboundReplan
    BY <2>3, <2>4, <2>6 DEF reboundReplan
  <2>7. CASE prepare
    BY <2>3, <2>4, <2>7 DEF prepare
  <2>8. CASE costFunctionRebound
    <3>1. CASE force_stop_type_' = "STOP_FOR_REBOUND"
      <4>1. check_collision_and_rebound
        BY <2>8, <3>1 DEF costFunctionRebound
      <4>2. /\ segment_ids' = CollisionSegments(occupied', covered')
            /\ \A s \in ToSet(segment_ids') : s[2] # Cols
        BY <3>1, <4>1 DEF check_collision_and_rebound
      <4>3. (NewCollisions(occupied, covered))' = NewCollisions(occupied', covered')
        BY DEF NewCollisions
      <4>4. (ToSet(segment_ids))' = ToSet(segment_ids')
        BY DEF ToSet
      <4> QED BY <4>2, <4>3, <4>4, ReboundHeld DEF ReboundsHoldCollisions
    <3> QED BY <2>2, <3>1
  <2>9. CASE Cancelled \/ Converged \/ SolverFailed
    <3>1. iter_num_' = 0
      BY <2>9 DEF Cancelled, Converged, SolverFailed, SolverEnds
    <3> QED BY <3>1 DEF ReboundsHoldCollisions
  <2>10. CASE Feasible
    BY <2>3, <2>4, <2>10 DEF Feasible
  <2>11. CASE BsplineOptimizeTrajRefine
    BY <2>3, <2>4, <2>11 DEF BsplineOptimizeTrajRefine
  <2>12. CASE UNCHANGED vars
    BY <2>12 DEF vars, pointVars, stopVars, countVars, ReboundsHoldCollisions, NewCollisions, ToSet
  <2> QED BY <2>5, <2>6, <2>7, <2>8, <2>9, <2>10, <2>11, <2>12 DEF Next, Step
<1> QED BY <1>1, <1>2, PTL DEF Spec
-----------------------------------------------------------------------------
\* What holds of 0, and of n + 1 when it holds of n, holds of every natural.
LEMMA Induction ==
  ASSUME NEW S, 0 \in S, \A n \in Nat : n \in S => n + 1 \in S
  PROVE  \A n \in Nat : n \in S
<1> DEFINE T == {n \in Nat : n \notin S}
<1>1. SUFFICES ASSUME T # {} PROVE FALSE
  OBVIOUS
<1>2. \E x \in T : \A y \in T : ~(<<y, x>> \in OpToRel(<, Nat))
  <2> HIDE DEF OpToRel, T
  <2>1. T \subseteq Nat
    BY DEF T
  <2> QED
    BY <1>1, <2>1, NatLessThanWellFounded, WFMin
<1>3. \A x, y \in T : y < x => <<y, x>> \in OpToRel(<, Nat)
  BY DEF OpToRel
<1>4. PICK x \in T : \A y \in T : ~(y < x)
  BY <1>2, <1>3
<1>5. x # 0 /\ x - 1 \in Nat /\ x - 1 < x
  BY <1>4
<1>6. x - 1 \in S
  BY <1>4, <1>5
<1>7. x \in S
  BY <1>5, <1>6, (x - 1) + 1 = x
<1> QED
  BY <1>4, <1>7

\* A loop of n turns on states of S, and the states it runs through from x.
IsLoop(step, n, S) == step \in [S \X (1 .. n) -> S]
History(f, n, S, x, step) ==
  /\ f \in [0 .. n -> S] /\ f[0] = x
  /\ \A k \in 1 .. n : f[k] = step[<<f[k - 1], k>>]

\* Every loop has a history: a recursive function over its turns exists.
LEMMA Recursion ==
  ASSUME NEW n \in Nat, NEW S, NEW x \in S, NEW step, IsLoop(step, n, S)
  PROVE  \E f : History(f, n, S, x, step)
<1> USE DEF IsLoop
<1> DEFINE H(f, m) == /\ f \in [0 .. m -> S] /\ f[0] = x
                      /\ \A k \in 1 .. m : f[k] = step[<<f[k - 1], k>>]
           T == {m \in Nat : m <= n => \E f : H(f, m)}
<1>1. 0 \in T
  <2>1. H([k \in 0 .. 0 |-> x], 0)
    OBVIOUS
  <2> QED BY <2>1
<1>2. ASSUME NEW m \in Nat, m \in T PROVE m + 1 \in T
  <2>1. SUFFICES ASSUME m + 1 <= n PROVE \E f : H(f, m + 1)
    OBVIOUS
  <2>2. PICK f : H(f, m)
    BY <1>2, <2>1
  <2> DEFINE y == step[<<f[m], m + 1>>]
             g == [k \in 0 .. m + 1 |-> IF k = m + 1 THEN y ELSE f[k]]
  <2>3. f[m] \in S /\ y \in S
    BY <2>1, <2>2
  <2>4. g \in [0 .. m + 1 -> S] /\ g[0] = x
    BY <2>2, <2>3
  <2>5. ASSUME NEW k \in 1 .. m + 1 PROVE g[k] = step[<<g[k - 1], k>>]
    <3>1. k - 1 \in 0 .. m /\ g[k - 1] = f[k - 1]
      BY <2>5
    <3>2. CASE k = m + 1
      <4>1. k - 1 = m /\ g[k] = y
        BY <3>2
      <4>2. g[k - 1] = f[m]
        BY <3>1, <4>1
      <4> QED BY <3>2, <4>1, <4>2
    <3>3. CASE k # m + 1
      <4>1. k \in 1 .. m
        BY <3>3
      <4> QED BY <2>2, <3>1, <3>3, <4>1
    <3> QED BY <3>2, <3>3
  <2>6. H(g, m + 1)
    BY <2>4, <2>5
  <2> QED BY <2>6
<1>3. n \in T
  <2> HIDE DEF T
  <2> QED BY <1>1, <1>2, Induction
<1> QED BY <1>3 DEF History

\* The obstacles whose end n samples of a row have shown, and a list of them.
Done(row, n) == {o \in Obstacles(row) : o[2] + 4 <= n}
Listed(row, n, found) ==
  \E obstacle \in [1 .. Len(found) -> Done(row, n)] :
    /\ \A o \in Done(row, n) : \E k \in 1 .. Len(found) : obstacle[k] = o
    /\ \A k \in 1 .. Len(found) - 1 : obstacle[k][1] < obstacle[k + 1][1]
    /\ \A k \in 1 .. Len(found) :
         found[k] = << SpanOf(obstacle[k][1]) - 1, SpanOf(obstacle[k][2] + 1) >>

Accs == [same : Nat, last : BOOLEAN, in : Int, out : Int, start : BOOLEAN,
         end_maybe : BOOLEAN, found : Seq(Int \X Int)]

\* Between obstacles: enough free samples, or the beginning of the row.
Between(row, n, acc) ==
  /\ ~acc.start /\ ~acc.last /\ ~acc.end_maybe /\ acc.same > 2
  /\ \A m \in n - 3 .. n : m > 0 => ~row[m]

\* Within the obstacle that begins at h, none has begun or ended since; behind
\* its last occupied sample the free ones are counted.
Within(row, n, acc, h) ==
  /\ acc.start /\ h \in Heads(row) /\ h <= n /\ acc.in = SpanOf(h) - 1
  /\ \A g \in Heads(row) : g <= h \/ g > n
  /\ \A t \in Tails(row) : t + 4 <= n => t < h
  /\ acc.last => row[n] /\ ~acc.end_maybe
  /\ ~acc.last =>
       LET t == n - acc.same - 1
       IN  /\ acc.end_maybe /\ acc.same <= 2
           /\ h <= t /\ row[t] /\ \A m \in t + 1 .. n : ~row[m]
           /\ acc.out = SpanOf(t + 1)

Scanned(row, n, acc) ==
  /\ acc \in Accs
  /\ Between(row, n, acc) \/ \E h \in 1 .. n : Within(row, n, acc, h)
  /\ Listed(row, n, acc.found)

\* Heads and tails as the samples around them.
LEMMA HeadsAndTails ==
  ASSUME NEW row \in Seq(BOOLEAN)
  PROVE  /\ \A h : h \in Heads(row) <=>
              h \in 1 .. Len(row) /\ row[h] /\ \A m \in h - 4 .. h - 1 : m > 0 => ~row[m]
         /\ \A t : t \in Tails(row) <=>
              /\ t \in 1 .. Len(row) /\ row[t]
              /\ \A m \in t + 1 .. t + 4 : m <= Len(row) /\ ~row[m]
<1>1. \A h : h \in Heads(row) <=>
              h \in 1 .. Len(row) /\ row[h] /\ \A m \in h - 2 - 2 .. h - 1 : m > 0 => ~row[m]
  BY DEF Heads, ENOUGH_INTERVAL
<1>2. \A t : t \in Tails(row) <=>
              /\ t \in 1 .. Len(row) /\ row[t]
              /\ \A m \in t + 1 .. t + 2 + 2 : m <= Len(row) /\ ~row[m]
  BY DEF Tails, ENOUGH_INTERVAL
<1>3. \A h \in 1 .. Len(row) : h - 2 - 2 = h - 4 /\ h + 2 + 2 = h + 4
  OBVIOUS
<1> QED BY <1>1, <1>2, <1>3

\* The spans of the samples.
LEMMA Spans ==
  ASSUME NEW n \in Nat \ {0}
  PROVE  /\ SpanOf(n) \in Int
         /\ \A h \in 1 .. n : SpanOf(n) = order_ => SpanOf(h) = order_
<1> DEFINE s == PerSpan
<1>1. s \in Nat \ {0} /\ order_ \in Int
  BY OptimizeAssumption
<1>2. ASSUME NEW m \in Nat \ {0} PROVE (m - 1) \div s \in Nat
  <2>1. m - 1 \in Nat
    OBVIOUS
  <2> HIDE DEF s
  <2> QED BY <1>1, <2>1
<1>3. SpanOf(n) \in Int
  <2>1. (n - 1) \div s \in Nat
    BY <1>2
  <2> QED BY <1>1, <2>1 DEF SpanOf
<1>4. ASSUME NEW h \in 1 .. n, SpanOf(n) = order_ PROVE SpanOf(h) = order_
  <2> DEFINE x == n - 1  y == h - 1
  <2>1. x \in Nat /\ y \in Nat /\ y <= x
    OBVIOUS
  <2>2. x \div s = 0
    <3>1. (n - 1) \div s \in Nat
      BY <1>2
    <3> QED BY <1>1, <1>4, <3>1 DEF SpanOf
  <2> HIDE DEF x, y, s
  <2>3. x < s * ((x \div s) + 1)
    BY <1>1, <2>1
  <2>4. y < s
    BY <1>1, <2>1, <2>2, <2>3
  <2>5. y \div s = 0
    BY <1>1, <2>1, <2>4
  <2> QED BY <1>1, <2>5 DEF SpanOf, y, s
<1> QED BY <1>3, <1>4

\* What a sample makes of the flags and counters.
Sampled(acc, i, occ, v) ==
  LET changed == occ # acc.last
  IN  /\ v \in Accs /\ v.last = occ
      /\ v.same = IF changed THEN 0 ELSE acc.same + 1
      /\ changed /\ occ /\ (acc.same > 2 \/ i = order_) =>
           v.start /\ ~v.end_maybe /\ v.in = i - 1 /\ v.found = acc.found
      /\ changed /\ occ /\ ~(acc.same > 2 \/ i = order_) =>
           v.start = acc.start /\ ~v.end_maybe /\ v.in = acc.in /\ v.found = acc.found
      /\ changed /\ ~occ =>
           /\ v.start = acc.start /\ v.end_maybe /\ v.in = acc.in /\ v.found = acc.found
           /\ v.out = i
      /\ ~changed /\ ~(acc.end_maybe /\ acc.same + 1 > 2) =>
           /\ v.start = acc.start /\ v.end_maybe = acc.end_maybe /\ v.in = acc.in
           /\ v.found = acc.found /\ v.out = acc.out
      /\ ~changed /\ acc.end_maybe /\ acc.same + 1 > 2 /\ acc.start =>
           /\ ~v.start /\ ~v.end_maybe
           /\ v.found = Append(acc.found, <<acc.in, acc.out>>)

LEMMA SampleFields ==
  ASSUME NEW acc \in Accs, NEW i \in Int, NEW occ \in BOOLEAN
  PROVE  Sampled(acc, i, occ, Sample(acc, i, occ))
<1>1. /\ acc.same \in Nat /\ acc.last \in BOOLEAN /\ acc.in \in Int /\ acc.out \in Int
      /\ acc.start \in BOOLEAN /\ acc.end_maybe \in BOOLEAN /\ acc.found \in Seq(Int \X Int)
  BY DEF Accs
<1> DEFINE v == Sample(acc, i, occ)
           changed == occ # acc.last
           same == IF changed THEN 0 ELSE acc.same + 1
           begins == changed /\ occ /\ (acc.same > 2 \/ i = order_)
           out == IF changed /\ ~occ THEN i ELSE acc.out
           maybe == IF changed THEN ~occ ELSE acc.end_maybe
           ended == maybe /\ same > 2
           started == acc.start \/ begins
           in == IF begins THEN i - 1 ELSE acc.in
           whole == started /\ ended
<1>2. v = [same |-> same, last |-> occ, in |-> in, out |-> out,
           start |-> started /\ ~whole, end_maybe |-> maybe /\ ~ended,
           found |-> IF whole THEN Append(acc.found, <<in, out>>) ELSE acc.found]
  BY DEF Sample, ENOUGH_INTERVAL
<1>3. /\ v.same = same /\ v.last = occ /\ v.in = in /\ v.out = out
      /\ v.start = (started /\ ~whole) /\ v.end_maybe = (maybe /\ ~ended)
      /\ v.found = IF whole THEN Append(acc.found, <<in, out>>) ELSE acc.found
  <2> HIDE DEF v, same, in, out, started, whole, maybe, ended
  <2> QED BY <1>2
<1>4. same \in Nat /\ in \in Int /\ out \in Int
  BY <1>1
<1>5. v.found \in Seq(Int \X Int)
  <2> HIDE DEF v, in, out, whole
  <2>1. <<in, out>> \in Int \X Int
    BY <1>4
  <2> DEFINE X == Int \X Int
  <2> HIDE DEF X
  <2>2. Append(acc.found, <<in, out>>) \in Seq(X)
    <3>1. acc.found \in Seq(X) /\ <<in, out>> \in X
      BY <1>1, <2>1 DEF X
    <3> QED BY <3>1, AppendProperties
  <2> QED BY <1>1, <1>3, <2>2 DEF X
<1>6. v \in Accs
  <2> DEFINE st == (started /\ ~whole)
             em == (maybe /\ ~ended)
  <2>1. st \in BOOLEAN /\ em \in BOOLEAN
    OBVIOUS
  <2>2. v = [same |-> same, last |-> occ, in |-> in, out |-> out, start |-> st, end_maybe |-> em,
             found |-> v.found]
    <3> HIDE DEF v, same, in, out, started, whole, maybe, ended
    <3> QED BY <1>2, <1>3
  <2> HIDE DEF v, same, in, out, st, em
  <2> QED BY <1>4, <1>5, <2>1, <2>2 DEF Accs
<1> HIDE DEF v
<1>7. changed /\ occ /\ (acc.same > 2 \/ i = order_) =>
        v.start /\ ~v.end_maybe /\ v.in = i - 1 /\ v.found = acc.found
  BY <1>1, <1>3
<1>8. changed /\ occ /\ ~(acc.same > 2 \/ i = order_) =>
        v.start = acc.start /\ ~v.end_maybe /\ v.in = acc.in /\ v.found = acc.found
  BY <1>1, <1>3
<1>9. changed /\ ~occ =>
        /\ v.start = acc.start /\ v.end_maybe /\ v.in = acc.in /\ v.found = acc.found
        /\ v.out = i
  BY <1>1, <1>3
<1>10. ~changed /\ ~(acc.end_maybe /\ acc.same + 1 > 2) =>
         /\ v.start = acc.start /\ v.end_maybe = acc.end_maybe /\ v.in = acc.in
         /\ v.found = acc.found /\ v.out = acc.out
  BY <1>1, <1>3
<1>11. ~changed /\ acc.end_maybe /\ acc.same + 1 > 2 /\ acc.start =>
         /\ ~v.start /\ ~v.end_maybe
         /\ v.found = Append(acc.found, <<acc.in, acc.out>>)
  BY <1>1, <1>3
<1> HIDE DEF changed
<1>12. /\ v.last = occ /\ v.same = IF changed THEN 0 ELSE acc.same + 1
  BY <1>3
<1>13. Sampled(acc, i, occ, v)
  BY <1>6, <1>7, <1>8, <1>9, <1>10, <1>11, <1>12 DEF Sampled, changed
<1> QED BY <1>13 DEF v

\* The list of obstacles, and one more behind it.
LEMMA ListedAlike ==
  ASSUME NEW row, NEW n, NEW m, Done(row, n) = Done(row, m), NEW found, Listed(row, n, found)
  PROVE  Listed(row, m, found)
  BY DEF Listed

LEMMA ListedMore ==
  ASSUME NEW row, NEW n, NEW found \in Seq(Int \X Int), Listed(row, n, found),
         NEW m, NEW o, Done(row, m) = Done(row, n) \cup {o},
         \A p \in Done(row, n) : p[1] < o[1]
  PROVE  Listed(row, m, Append(found, << SpanOf(o[1]) - 1, SpanOf(o[2] + 1) >>))
<1> DEFINE e == << SpanOf(o[1]) - 1, SpanOf(o[2] + 1) >>
           new == Append(found, e)
           L == Len(found)
<1>1. PICK obstacle \in [1 .. L -> Done(row, n)] :
        /\ \A p \in Done(row, n) : \E k \in 1 .. L : obstacle[k] = p
        /\ \A k \in 1 .. L - 1 : obstacle[k][1] < obstacle[k + 1][1]
        /\ \A k \in 1 .. L :
             found[k] = << SpanOf(obstacle[k][1]) - 1, SpanOf(obstacle[k][2] + 1) >>
  BY DEF Listed
<1>2. L \in Nat /\ Len(new) = L + 1 /\ new[L + 1] = e /\ \A k \in 1 .. L : new[k] = found[k]
  OBVIOUS
<1> DEFINE g == [k \in 1 .. L + 1 |-> IF k = L + 1 THEN o ELSE obstacle[k]]
<1> HIDE DEF e, new, L
<1>3. /\ g[L + 1] = o /\ \A k \in 1 .. L : g[k] = obstacle[k] /\ g[k] \in Done(row, n)
      /\ \A k \in 1 .. L + 1 : k = L + 1 \/ k \in 1 .. L
  BY <1>1, <1>2
<1>4. g \in [1 .. L + 1 -> Done(row, m)]
  BY <1>1, <1>2
<1> HIDE DEF g
<1>5. \A p \in Done(row, m) : \E k \in 1 .. L + 1 : g[k] = p
  <2> TAKE p \in Done(row, m)
  <2>1. CASE p = o
    <3>1. L + 1 \in 1 .. L + 1
      BY <1>2
    <3> QED BY <1>3, <2>1, <3>1
  <2>2. CASE p \in Done(row, n)
    <3>1. PICK k \in 1 .. L : obstacle[k] = p
      BY <1>1, <2>2
    <3>2. k \in 1 .. L + 1
      BY <1>2
    <3> QED BY <1>3, <3>1, <3>2
  <2> QED BY <2>1, <2>2
<1>6. ASSUME NEW k \in 1 .. (L + 1) - 1 PROVE g[k][1] < g[k + 1][1]
  <2>1. k \in 1 .. L /\ (k = L \/ (k \in 1 .. L - 1 /\ k + 1 \in 1 .. L))
    BY <1>2
  <2>2. CASE k = L
    BY <1>3, <2>1, <2>2
  <2>3. CASE k # L
    BY <1>1, <1>3, <2>1, <2>3
  <2> QED BY <2>2, <2>3
<1>7. ASSUME NEW k \in 1 .. L + 1
      PROVE  new[k] = << SpanOf(g[k][1]) - 1, SpanOf(g[k][2] + 1) >>
  <2>1. CASE k = L + 1
    BY <1>2, <1>3, <2>1 DEF e
  <2>2. CASE k \in 1 .. L
    BY <1>1, <1>2, <1>3, <2>2
  <2> QED BY <1>3, <2>1, <2>2
<1>8. Listed(row, m, new)
  <2>1. g \in [1 .. Len(new) -> Done(row, m)]
    BY <1>2, <1>4
  <2>2. \A p \in Done(row, m) : \E k \in 1 .. Len(new) : g[k] = p
    BY <1>2, <1>5
  <2>3. \A k \in 1 .. Len(new) - 1 : g[k][1] < g[k + 1][1]
    BY <1>2, <1>6
  <2>4. \A k \in 1 .. Len(new) : new[k] = << SpanOf(g[k][1]) - 1, SpanOf(g[k][2] + 1) >>
    BY <1>2, <1>7
  <2> QED BY <2>1, <2>2, <2>3, <2>4 DEF Listed
<1> QED BY <1>8 DEF new, e

\* Only an end four samples back can be new among the obstacles done.
LEMMA NewlyDone ==
  ASSUME NEW row \in Seq(BOOLEAN), NEW n \in Nat, n + 1 <= Len(row)
  PROVE  /\ n - 3 \notin Tails(row) => Done(row, n + 1) = Done(row, n)
         /\ \A o \in Done(row, n + 1) : o \in Done(row, n) \/ o[2] = n - 3
         /\ Done(row, n) \subseteq Done(row, n + 1)
<1>1. \A o \in Obstacles(row) : o[1] \in Nat /\ o[2] \in Nat /\ o[2] \in Tails(row)
  BY DEF Obstacles, Heads, Tails
<1>2. \A o \in Obstacles(row) : o[2] + 4 <= n + 1 <=> (o[2] + 4 <= n \/ o[2] = n - 3)
  BY <1>1
<1>3. \A o : o \in Done(row, n + 1) <=> o \in Obstacles(row) /\ (o[2] + 4 <= n \/ o[2] = n - 3)
  BY <1>2 DEF Done
<1>4. \A o : o \in Done(row, n) <=> o \in Obstacles(row) /\ o[2] + 4 <= n
  BY DEF Done
<1> QED BY <1>1, <1>3, <1>4

\* A free sample between two obstacles.
LEMMA ScanFree ==
  ASSUME NEW row \in Seq(BOOLEAN), NEW n \in Nat, n + 1 <= Len(row), ~row[n + 1],
         NEW acc \in Accs, Between(row, n, acc), Listed(row, n, acc.found)
  PROVE  Scanned(row, n + 1, Sample(acc, SpanOf(n + 1), row[n + 1]))
<1> DEFINE v == Sample(acc, SpanOf(n + 1), row[n + 1])
<1>1. row[n + 1] \in BOOLEAN /\ SpanOf(n + 1) \in Int
  BY Spans
<1>2. acc.same \in Nat /\ ~acc.last /\ ~acc.start /\ ~acc.end_maybe /\ acc.same > 2
  BY DEF Between, Accs
<1>3. /\ v \in Accs /\ v.last = FALSE /\ v.same = acc.same + 1 /\ ~v.start
      /\ ~v.end_maybe /\ v.found = acc.found
  <2> DEFINE i == SpanOf(n + 1)  b == row[n + 1]
  <2>1. b = FALSE /\ acc.last = FALSE
    BY <1>1, <1>2 DEF Accs
  <2>2. Sampled(acc, i, b, v)
    BY <1>1, SampleFields
  <2> HIDE DEF i, b, v
  <2> QED BY <1>2, <2>1, <2>2 DEF Sampled
<1> HIDE DEF v
<1>4. Between(row, n + 1, v)
  <2>1. \A m \in (n + 1) - 3 .. n + 1 : m = n + 1 \/ m \in n - 3 .. n
    OBVIOUS
  <2>2. \A m \in (n + 1) - 3 .. n + 1 : m > 0 => ~row[m]
    BY <2>1 DEF Between
  <2> QED BY <1>2, <1>3, <2>2 DEF Between
<1>5. Done(row, n + 1) = Done(row, n)
  <2>1. n - 3 \notin Tails(row)
    <3>1. n - 3 \in n - 3 .. n
      OBVIOUS
    <3>2. n - 3 > 0 => ~row[n - 3]
      BY <3>1 DEF Between
    <3> QED BY <3>2, HeadsAndTails
  <2> QED BY <2>1, NewlyDone
<1>6. Listed(row, n + 1, v.found)
  BY <1>3, <1>5, ListedAlike
<1>7. Scanned(row, n + 1, v)
  BY <1>3, <1>4, <1>6 DEF Scanned
<1> QED BY <1>7 DEF v

\* The first occupied sample of an obstacle.
LEMMA ScanHead ==
  ASSUME NEW row \in Seq(BOOLEAN), NEW n \in Nat, n + 1 <= Len(row), row[n + 1],
         NEW acc \in Accs, Between(row, n, acc), Listed(row, n, acc.found)
  PROVE  Scanned(row, n + 1, Sample(acc, SpanOf(n + 1), row[n + 1]))
<1> DEFINE v == Sample(acc, SpanOf(n + 1), row[n + 1])
           h == n + 1
<1>1. row[n + 1] \in BOOLEAN /\ SpanOf(n + 1) \in Int
  BY Spans
<1>2. acc.same \in Nat /\ ~acc.last /\ ~acc.start /\ ~acc.end_maybe /\ acc.same > 2
  BY DEF Between, Accs
<1>3. /\ v \in Accs /\ v.last = TRUE /\ v.start /\ v.in = SpanOf(h) - 1
      /\ ~v.end_maybe /\ v.found = acc.found
  <2> DEFINE i == SpanOf(n + 1)  b == row[n + 1]
  <2>1. b = TRUE /\ acc.last = FALSE
    BY <1>1, <1>2 DEF Accs
  <2>2. Sampled(acc, i, b, v)
    BY <1>1, SampleFields
  <2> HIDE DEF i, b, v
  <2>3. /\ v \in Accs /\ v.last = TRUE /\ v.start /\ v.in = i - 1
        /\ ~v.end_maybe /\ v.found = acc.found
    BY <1>2, <2>1, <2>2 DEF Sampled
  <2> QED BY <2>3 DEF i
<1> HIDE DEF v
<1>4. h \in 1 .. n + 1 /\ h \in 1 .. Len(row)
  OBVIOUS
<1>5. h \in Heads(row)
  <2>1. \A m \in h - 4 .. h - 1 : m \in n - 3 .. n
    OBVIOUS
  <2>2. \A m \in h - 4 .. h - 1 : m > 0 => ~row[m]
    BY <2>1 DEF Between
  <2> QED BY <1>4, <2>2, HeadsAndTails
<1>6. \A g \in Heads(row) : g <= h \/ g > n + 1
  <2>1. \A g \in Heads(row) : g \in Nat
    BY DEF Heads
  <2> QED BY <2>1
<1>7. \A t \in Tails(row) : t + 4 <= n + 1 => t < h
  <2>1. \A t \in Tails(row) : t \in Nat
    BY DEF Tails
  <2> QED BY <2>1
<1>8. Within(row, n + 1, v, h)
  BY <1>3, <1>4, <1>5, <1>6, <1>7 DEF Within
<1>9. Done(row, n + 1) = Done(row, n)
  <2>1. n - 3 \notin Tails(row)
    <3>1. n - 3 \in n - 3 .. n
      OBVIOUS
    <3>2. n - 3 > 0 => ~row[n - 3]
      BY <3>1 DEF Between
    <3> QED BY <3>2, HeadsAndTails
  <2> QED BY <2>1, NewlyDone
<1>10. Listed(row, n + 1, v.found)
  BY <1>3, <1>9, ListedAlike
<1>11. Scanned(row, n + 1, v)
  BY <1>3, <1>4, <1>8, <1>10 DEF Scanned
<1> QED BY <1>11 DEF v

\* Heads and tails while an obstacle goes on: a sample with an occupied one
\* among the four before it is no head, one with such among the four behind it
\* no tail.
LEMMA NoHeadNoTail ==
  ASSUME NEW row \in Seq(BOOLEAN), NEW n \in Nat, n + 1 <= Len(row), NEW h \in 1 .. n,
         NEW t \in n - 2 .. n + 1, t > 0, row[t]
  PROVE  /\ \A g \in Heads(row) : g <= h \/ g > n => g <= h \/ g > n + 1 \/ g = n + 1
         /\ t <= n => n + 1 \notin Heads(row)
         /\ n - 3 \notin Tails(row)
         /\ (\A u \in Tails(row) : u + 4 <= n => u < h) =>
              \A u \in Tails(row) : u + 4 <= n + 1 => u < h
<1>1. /\ \A g \in Heads(row) : g \in Nat
      /\ \A u \in Tails(row) : u \in Nat
  BY DEF Heads, Tails
<1>2. t <= n => n + 1 \notin Heads(row)
  <2>1. t <= n => t \in (n + 1) - 4 .. (n + 1) - 1
    OBVIOUS
  <2> QED BY <2>1, HeadsAndTails
<1>3. n - 3 \notin Tails(row)
  <2>1. t \in (n - 3) + 1 .. (n - 3) + 4
    OBVIOUS
  <2> QED BY <2>1, HeadsAndTails
<1>4. \A u \in Tails(row) : u + 4 <= n + 1 => u + 4 <= n \/ u = n - 3
  BY <1>1
<1> QED BY <1>1, <1>2, <1>3, <1>4

\* While an obstacle goes on, and from gap to gap, nothing is done anew.
LEMMA ScanWithin ==
  ASSUME NEW row \in Seq(BOOLEAN), NEW n \in Nat, n + 1 <= Len(row),
         NEW acc \in Accs, Listed(row, n, acc.found), NEW h \in 1 .. n, Within(row, n, acc, h),
         row[n + 1] \/ acc.last \/ acc.same + 1 <= 2
  PROVE  Scanned(row, n + 1, Sample(acc, SpanOf(n + 1), row[n + 1]))
<1> DEFINE i == SpanOf(n + 1)
           b == row[n + 1]
           v == Sample(acc, i, b)
           t == IF b THEN n + 1 ELSE IF acc.last THEN n ELSE n - acc.same - 1
<1>1. i \in Int /\ b \in BOOLEAN
  BY Spans
<1>2. Sampled(acc, i, b, v)
  BY <1>1, SampleFields
<1>3. /\ acc.same \in Nat /\ acc.last \in BOOLEAN /\ acc.start
      /\ acc.in = SpanOf(h) - 1
      /\ acc.last => row[n] /\ ~acc.end_maybe
      /\ ~acc.last => /\ acc.end_maybe /\ acc.same <= 2 /\ h <= n - acc.same - 1
                      /\ row[n - acc.same - 1]
                      /\ \A m \in (n - acc.same - 1) + 1 .. n : ~row[m]
                      /\ acc.out = SpanOf((n - acc.same - 1) + 1)
  BY DEF Within, Accs
<1> HIDE DEF v
<1>4. /\ b \in {TRUE, FALSE} /\ acc.last \in {TRUE, FALSE}
      /\ b = TRUE /\ acc.last = FALSE => ~(acc.same > 2)
      /\ b = FALSE /\ acc.last = FALSE => acc.end_maybe = TRUE /\ ~(acc.same + 1 > 2)
      /\ acc.last = TRUE => acc.end_maybe = FALSE
      /\ acc.start = TRUE
  <2>1. acc.end_maybe \in BOOLEAN /\ acc.start \in BOOLEAN
    BY DEF Accs
  <2>2. b \/ acc.last \/ acc.same + 1 <= 2
    OBVIOUS
  <2> HIDE DEF b
  <2>3. acc.start = TRUE /\ (acc.last = TRUE => acc.end_maybe = FALSE)
    BY <1>3, <2>1
  <2>4. acc.last = FALSE => acc.end_maybe = TRUE /\ ~(acc.same > 2)
    BY <1>3, <2>1
  <2>5. b = FALSE /\ acc.last = FALSE => ~(acc.same + 1 > 2)
    BY <1>3, <2>2
  <2> QED BY <1>1, <1>3, <2>3, <2>4, <2>5
<1>5. v \in Accs /\ v.last = b /\ v.found = acc.found /\ v.start
  <2> HIDE DEF i, b
  <2> QED BY <1>2, <1>4 DEF Sampled
<1>6. v.in = SpanOf(h) - 1
  <2>1. i = order_ => SpanOf(h) = order_
    <3>1. h \in 1 .. n + 1 /\ n + 1 \in Nat \ {0}
      OBVIOUS
    <3> QED BY <3>1, Spans
  <2> HIDE DEF i, b
  <2>2. v.in = acc.in \/ (i = order_ /\ v.in = i - 1)
    BY <1>2, <1>4 DEF Sampled
  <2>3. acc.in = SpanOf(h) - 1
    BY <1>3
  <2> QED BY <2>1, <2>2, <2>3
<1>7. t \in n - 2 .. n + 1 /\ t > 0 /\ row[t] /\ h <= t
  <2>1. CASE b
    BY <2>1
  <2>2. CASE ~b /\ acc.last
    BY <1>3, <2>2
  <2>3. CASE ~b /\ ~acc.last
    <3>1. /\ acc.same \in Nat /\ acc.same + 1 <= 2 /\ t = n - acc.same - 1
          /\ h <= t /\ row[t]
      BY <1>3, <2>3
    <3> HIDE DEF t
    <3> QED BY <3>1
  <2> QED BY <1>1, <2>1, <2>2, <2>3
<1>8. /\ v.last => b /\ ~v.end_maybe
      /\ ~v.last => /\ v.end_maybe /\ v.same <= 2 /\ (n + 1) - v.same - 1 = t
                    /\ v.out = SpanOf(t + 1)
  <2>1. CASE b = TRUE
    <3> HIDE DEF i, b
    <3> QED BY <1>2, <1>4, <2>1 DEF Sampled
  <2>2. CASE b = FALSE /\ acc.last = TRUE
    <3>1. t = n /\ i = SpanOf(t + 1)
      BY <2>2
    <3> HIDE DEF i, b, t
    <3>2. v.end_maybe /\ v.same = 0 /\ v.out = i
      BY <1>2, <2>2 DEF Sampled
    <3> QED BY <1>5, <2>2, <3>1, <3>2
  <2>3. CASE b = FALSE /\ acc.last = FALSE
    <3>1. t = n - acc.same - 1
      BY <2>3
    <3>2. acc.out = SpanOf(t + 1)
      BY <1>3, <2>3, <3>1
    <3> HIDE DEF i, b, t
    <3>3. v.end_maybe = TRUE /\ v.same = acc.same + 1 /\ v.out = acc.out
      BY <1>2, <1>4, <2>3 DEF Sampled
    <3>4. acc.same \in Nat /\ ~(acc.same + 1 > 2)
      BY <1>3, <1>4, <2>3
    <3>5. v.same <= 2 /\ (n + 1) - v.same - 1 = t
      BY <3>1, <3>3, <3>4
    <3>6. v.end_maybe /\ v.out = SpanOf(t + 1) /\ ~v.last
      BY <1>5, <2>3, <3>2, <3>3
    <3> QED BY <3>5, <3>6
  <2> QED BY <1>4, <2>1, <2>2, <2>3
<1>9. ~b => \A m \in t + 1 .. n + 1 : ~row[m]
  <2> SUFFICES ASSUME ~b, NEW m \in t + 1 .. n + 1 PROVE ~row[m]
    OBVIOUS
  <2>1. CASE m = n + 1
    BY <2>1
  <2>2. CASE m # n + 1
    BY <1>3, <2>2
  <2> QED BY <2>1, <2>2
<1>10. n + 1 \notin Heads(row)
  <2>1. CASE b /\ acc.last
    BY <1>3, <2>1, NoHeadNoTail
  <2>2. CASE b /\ ~acc.last
    <3> DEFINE u == n - acc.same - 1
    <3>1. acc.same \in Nat /\ acc.same <= 2 /\ h <= u /\ row[u]
      BY <1>3, <2>2
    <3>2. u > 0 /\ u \in (n + 1) - 4 .. (n + 1) - 1
      BY <3>1
    <3> HIDE DEF u
    <3> QED BY <3>1, <3>2, HeadsAndTails
  <2>3. CASE ~b
    BY <2>3, HeadsAndTails
  <2> QED BY <1>1, <2>1, <2>2, <2>3
<1>11. /\ h \in Heads(row) /\ \A g \in Heads(row) : g <= h \/ g > n + 1
       /\ \A u \in Tails(row) : u + 4 <= n + 1 => u < h
       /\ n - 3 \notin Tails(row)
  <2>1. /\ h \in Heads(row) /\ \A g \in Heads(row) : g <= h \/ g > n
        /\ \A u \in Tails(row) : u + 4 <= n => u < h
    BY DEF Within
  <2> HIDE DEF t, b, v, i
  <2> QED BY <1>7, <1>10, <2>1, NoHeadNoTail
<1>12. h \in 1 .. n + 1 /\ h <= n + 1
  OBVIOUS
<1>13. Within(row, n + 1, v, h)
  <2>1. v.last \in BOOLEAN /\ v.last = row[n + 1]
    BY <1>1, <1>5
  <2> HIDE DEF v, t
  <2> QED BY <1>5, <1>6, <1>7, <1>8, <1>9, <1>11, <1>12, <2>1 DEF Within
<1>14. Listed(row, n + 1, v.found)
  <2>1. Done(row, n + 1) = Done(row, n)
    BY <1>11, NewlyDone
  <2> HIDE DEF v
  <2> QED BY <1>5, <2>1, ListedAlike
<1> HIDE DEF v
<1>15. Scanned(row, n + 1, v)
  BY <1>5, <1>12, <1>13, <1>14 DEF Scanned
<1> QED BY <1>15 DEF v

\* The fourth free sample behind an obstacle ends it.
LEMMA ScanTail ==
  ASSUME NEW row \in Seq(BOOLEAN), NEW n \in Nat, n + 1 <= Len(row), ~row[n + 1],
         NEW acc \in Accs, Listed(row, n, acc.found), NEW h \in 1 .. n, Within(row, n, acc, h),
         ~acc.last, acc.same + 1 > 2
  PROVE  Scanned(row, n + 1, Sample(acc, SpanOf(n + 1), row[n + 1]))
<1> DEFINE i == SpanOf(n + 1)
           b == row[n + 1]
           v == Sample(acc, i, b)
           t == n - 3
           o == <<h, t>>
<1>1. i \in Int /\ b \in BOOLEAN
  BY Spans
<1>2. Sampled(acc, i, b, v)
  BY <1>1, SampleFields
<1>3. /\ acc.same \in Nat /\ acc.last \in BOOLEAN /\ acc.start \in BOOLEAN
      /\ acc.end_maybe \in BOOLEAN /\ acc.found \in Seq(Int \X Int)
  BY DEF Accs
<1>4. /\ acc.start /\ acc.in = SpanOf(h) - 1 /\ acc.end_maybe /\ acc.same <= 2
      /\ h <= n - acc.same - 1 /\ row[n - acc.same - 1]
      /\ \A m \in (n - acc.same - 1) + 1 .. n : ~row[m]
      /\ acc.out = SpanOf((n - acc.same - 1) + 1)
  BY DEF Within
<1>5. acc.same = 2 /\ n - acc.same - 1 = t
  BY <1>3, <1>4
<1>6. /\ h <= t /\ t \in 1 .. Len(row) /\ row[t] /\ \A m \in t + 1 .. n : ~row[m]
      /\ acc.out = SpanOf(t + 1)
  BY <1>4, <1>5
<1>7. \A m \in t + 1 .. n + 1 : ~row[m]
  <2>1. \A m \in t + 1 .. n + 1 : m \in t + 1 .. n \/ m = n + 1
    OBVIOUS
  <2> QED BY <1>6, <2>1
<1>8. t \in Tails(row)
  <2>1. \A m \in t + 1 .. t + 4 : m <= Len(row) /\ m \in t + 1 .. n + 1
    OBVIOUS
  <2> QED BY <1>6, <1>7, <2>1, HeadsAndTails
<1>9. /\ v \in Accs /\ v.last = FALSE /\ v.same = 3 /\ ~v.start /\ ~v.end_maybe
      /\ v.found = Append(acc.found, << SpanOf(o[1]) - 1, SpanOf(o[2] + 1) >>)
  <2>1. b = FALSE /\ acc.last = FALSE
    BY <1>1, <1>3
  <2> HIDE DEF b, i, v, t
  <2>2. /\ v \in Accs /\ v.last = FALSE /\ v.same = acc.same + 1 /\ ~v.start /\ ~v.end_maybe
        /\ v.found = Append(acc.found, <<acc.in, acc.out>>)
    BY <1>2, <1>4, <2>1 DEF Sampled
  <2>3. acc.in = SpanOf(o[1]) - 1 /\ acc.out = SpanOf(o[2] + 1)
    BY <1>4, <1>6
  <2> QED BY <1>5, <2>2, <2>3
<1> HIDE DEF v, i, b
<1>10. Between(row, n + 1, v)
  <2>1. (n + 1) - 3 = t + 1
    OBVIOUS
  <2> QED BY <1>7, <1>9, <2>1 DEF Between
<1>11. /\ h \in Heads(row) /\ \A g \in Heads(row) : g <= h \/ g > n
       /\ \A u \in Tails(row) : u + 4 <= n => u < h
       /\ \A g \in Heads(row) : g \in Nat
       /\ \A u \in Tails(row) : u \in Nat
  BY DEF Within, Heads, Tails
<1>12. o \in Obstacles(row)
  <2>1. o[1] <= o[2] /\ \A g \in Heads(row) : g <= o[1] \/ g > o[2]
    BY <1>6, <1>11
  <2>2. o \in Heads(row) \X Tails(row)
    BY <1>8, <1>11
  <2> QED BY <2>1, <2>2 DEF Obstacles
<1>13. \A p \in Obstacles(row) :
         /\ p[1] \in Heads(row) /\ p[2] \in Tails(row) /\ p[1] <= p[2] /\ p = <<p[1], p[2]>>
         /\ \A g \in Heads(row) : g <= p[1] \/ g > p[2]
  BY DEF Obstacles
<1>14. \A p \in Obstacles(row) : p[2] = t => p = o
  <2> SUFFICES ASSUME NEW p \in Obstacles(row), p[2] = t PROVE p[1] = h
    BY <1>13
  <2>1. p[1] \in Nat /\ p[1] <= t /\ (p[1] <= h \/ p[1] > n) /\ (h <= p[1] \/ h > t)
    BY <1>11, <1>13
  <2> QED BY <1>6, <2>1
<1>15. Done(row, n + 1) = Done(row, n) \cup {o}
  <2>1. o \in Done(row, n + 1)
    BY <1>12 DEF Done
  <2>2. \A p \in Done(row, n + 1) : p \in Done(row, n) \/ p = o
    <3>1. \A p \in Done(row, n + 1) : p \in Obstacles(row) /\ (p \in Done(row, n) \/ p[2] = t)
      BY NewlyDone DEF Done
    <3> QED BY <1>14, <3>1
  <2>3. Done(row, n) \subseteq Done(row, n + 1)
    BY NewlyDone
  <2> QED BY <2>1, <2>2, <2>3
<1>16. \A p \in Done(row, n) : p[1] < o[1]
  <2> SUFFICES ASSUME NEW p \in Done(row, n) PROVE p[1] < h
    OBVIOUS
  <2>1. p \in Obstacles(row) /\ p[2] + 4 <= n
    BY DEF Done
  <2>2. p[1] \in Nat /\ p[2] \in Nat /\ p[1] <= p[2] /\ p[2] < h
    BY <1>11, <1>13, <2>1
  <2> QED BY <2>2
<1>17. Listed(row, n + 1, v.found)
  <2> HIDE DEF o
  <2> QED BY <1>3, <1>9, <1>15, <1>16, ListedMore
<1>18. Scanned(row, n + 1, v)
  BY <1>9, <1>10, <1>17 DEF Scanned
<1> QED BY <1>18 DEF v, i, b

\* The next sample, whatever it is.
LEMMA ScanStep ==
  ASSUME NEW row \in Seq(BOOLEAN), NEW n \in Nat, n + 1 <= Len(row),
         NEW acc, Scanned(row, n, acc)
  PROVE  Scanned(row, n + 1, Sample(acc, SpanOf(n + 1), row[n + 1]))
<1>1. acc \in Accs /\ Listed(row, n, acc.found)
  BY DEF Scanned
<1>2. CASE Between(row, n, acc)
  BY <1>1, <1>2, ScanFree, ScanHead
<1>3. ASSUME NEW h \in 1 .. n, Within(row, n, acc, h)
      PROVE  Scanned(row, n + 1, Sample(acc, SpanOf(n + 1), row[n + 1]))
  <2>1. CASE row[n + 1] \/ acc.last \/ acc.same + 1 <= 2
    BY <1>1, <1>3, <2>1, ScanWithin
  <2>2. CASE ~(row[n + 1] \/ acc.last \/ acc.same + 1 <= 2)
    <3>1. acc.same + 1 > 2
      BY <1>1, <2>2 DEF Accs
    <3> QED BY <1>1, <1>3, <2>2, <3>1, ScanTail
  <2> QED BY <2>1, <2>2
<1> QED BY <1>2, <1>3 DEF Scanned

\* Before the first sample nothing is found.
LEMMA ScanBegins ==
  ASSUME NEW row \in Seq(BOOLEAN)
  PROVE  Scanned(row, 0, NewScan)
<1>1. /\ NewScan.same = 3 /\ ~NewScan.last /\ ~NewScan.start /\ ~NewScan.end_maybe
      /\ NewScan.found = <<>>
  BY DEF NewScan, ENOUGH_INTERVAL
<1>2. NewScan \in Accs
  BY DEF NewScan, Accs, ENOUGH_INTERVAL
<1>3. Between(row, 0, NewScan)
  BY <1>1 DEF Between
<1>4. Done(row, 0) = {}
  <2>1. \A o \in Obstacles(row) : o[2] \in Nat /\ o[2] > 0
    BY DEF Obstacles, Tails
  <2> QED BY <2>1 DEF Done
<1>5. Listed(row, 0, <<>>)
  <2> DEFINE f == [k \in 1 .. 0 |-> <<0, 0>>]
  <2>1. Len(<<>>) = 0 /\ 1 .. 0 = {} /\ 1 .. 0 - 1 = {}
    OBVIOUS
  <2>2. f \in [1 .. Len(<<>>) -> Done(row, 0)]
    BY <1>4, <2>1
  <2> QED BY <1>4, <2>1, <2>2 DEF Listed
<1> QED BY <1>1, <1>2, <1>3, <1>5 DEF Scanned

\* The scan of a row as a function, and that there is one.
IsScan(f, row) ==
  f = [n \in 0 .. Len(row) |-> IF n = 0 THEN NewScan ELSE Sample(f[n - 1], SpanOf(n), row[n])]

LEMMA ScanExists ==
  ASSUME NEW row \in Seq(BOOLEAN)
  PROVE  \E f : IsScan(f, row)
<1> DEFINE N == Len(row)
           step == [q \in Accs \X (1 .. N) |-> Sample(q[1], SpanOf(q[2]), row[q[2]])]
<1>1. N \in Nat /\ NewScan \in Accs
  BY ScanBegins DEF Scanned
<1>2. ASSUME NEW acc \in Accs, NEW n \in 1 .. N PROVE Sample(acc, SpanOf(n), row[n]) \in Accs
  <2>1. row[n] \in BOOLEAN /\ SpanOf(n) \in Int
    BY Spans
  <2> QED BY <2>1, SampleFields DEF Sampled
<1>3. IsLoop(step, N, Accs)
  BY <1>2 DEF IsLoop
<1>4. PICK f : History(f, N, Accs, NewScan, step)
  <2> HIDE DEF step, N
  <2> QED BY <1>1, <1>3, Recursion
<1>5. ASSUME NEW n \in 1 .. N PROVE f[n] = Sample(f[n - 1], SpanOf(n), row[n])
  <2>1. n - 1 \in 0 .. N
    BY <1>1
  <2>2. f[n - 1] \in Accs /\ f[n] = step[<<f[n - 1], n>>]
    BY <1>4, <2>1 DEF History
  <2> QED BY <2>2
<1>6. f = [n \in 0 .. N |-> f[n]] /\ f[0] = NewScan
  BY <1>4 DEF History
<1>7. \A n \in 0 .. N : n = 0 \/ n \in 1 .. N
  BY <1>1
<1>8. \A n \in 0 .. N : f[n] = IF n = 0 THEN NewScan ELSE Sample(f[n - 1], SpanOf(n), row[n])
  BY <1>5, <1>6, <1>7
<1> QED BY <1>6, <1>8 DEF IsScan

\* At the end of the row all obstacles are found.
LEMMA ScanFinds ==
  ASSUME NEW row \in Seq(BOOLEAN)
  PROVE  Listed(row, Len(row), Segments(row))
<1> DEFINE scan == CHOOSE f : IsScan(f, row)
           N == Len(row)
           S == {n \in Nat : n <= N => Scanned(row, n, scan[n])}
<1>1. Segments(row) = scan[N].found
  BY DEF Segments, IsScan
<1>2. IsScan(scan, row)
  BY ScanExists
<1> HIDE DEF scan
<1>3. N \in Nat
  OBVIOUS
<1>4. \A n \in 0 .. N : scan[n] = IF n = 0 THEN NewScan ELSE Sample(scan[n - 1], SpanOf(n), row[n])
  BY <1>2 DEF IsScan
<1>5. 0 \in S
  BY <1>3, <1>4, ScanBegins
<1>6. ASSUME NEW n \in Nat, n \in S PROVE n + 1 \in S
  <2>1. SUFFICES ASSUME n + 1 <= N PROVE Scanned(row, n + 1, scan[n + 1])
    OBVIOUS
  <2>2. n + 1 \in 0 .. N /\ n + 1 # 0 /\ (n + 1) - 1 = n /\ n <= N
    BY <1>3, <2>1
  <2>3. scan[n + 1] = Sample(scan[n], SpanOf(n + 1), row[n + 1])
    BY <1>4, <2>2
  <2>4. Scanned(row, n, scan[n])
    BY <1>6, <2>2
  <2> QED BY <2>1, <2>3, <2>4, ScanStep
<1>7. N \in S
  <2> HIDE DEF S, N
  <2> QED BY <1>3, <1>5, <1>6, Induction
<1> QED BY <1>1, <1>3, <1>7 DEF Scanned

LEMMA AllDone ==
  ASSUME NEW row \in Seq(BOOLEAN)
  PROVE  Done(row, Len(row)) = Obstacles(row)
<1>1. ASSUME NEW o \in Obstacles(row) PROVE o[2] + 4 <= Len(row)
  <2>1. o[2] \in Tails(row)
    BY DEF Obstacles
  <2>2. o[2] \in Nat /\ \A m \in o[2] + 1 .. o[2] + 4 : m <= Len(row)
    BY <2>1, HeadsAndTails
  <2>3. o[2] + 4 \in o[2] + 1 .. o[2] + 4
    BY <2>2
  <2> QED BY <2>2, <2>3
<1> QED BY <1>1 DEF Done

\* From a first look along the points to the solver, what was read is still
\* there with its segments.
Segmented ==
  samples # <<>> => /\ pc = "round" /\ samples \in Seq(BOOLEAN)
                    /\ segment_ids = Segments(samples)

\* The obstacles in a row of samples, as long as it may be, are found in order
\* and each once, by one pass with three flags and a counter.
THEOREM ObstaclesAreFound == Spec => []SegmentsAsMeant
<1> DEFINE Inv == IInv /\ Segmented
<1>1. Init => Inv
  BY InitIInv DEF Init, Segmented
<1>2. Inv /\ [Next]_vars => Inv'
  <2> SUFFICES ASSUME Inv, [Next]_vars PROVE Segmented'
    BY NextIInv
  <2>1. ASSUME samples' = <<>> PROVE Segmented'
    BY <2>1 DEF Segmented
  <2>2. ASSUME pc # "round", samples' = samples PROVE Segmented'
    BY <2>1, <2>2 DEF Segmented
  <2>3. CASE initControlPoints
    <3>1. restart_nums \in 0 .. MaxRestarts - 1
      <4>1. MaxRestarts \in Nat
        BY OptimizeAssumption
      <4> QED BY <2>3, <4>1 DEF initControlPoints, IInv, TypeInv, RoundsBounded
    <3>2. samples' \in Seq(BOOLEAN)
      BY <2>3, <3>1, OptimizeAssumption DEF initControlPoints
    <3>3. pc' = "round" /\ segment_ids' = Segments(samples')
      BY <2>3 DEF initControlPoints
    <3>4. (Segments(samples))' = Segments(samples')
      BY DEF Segments
    <3> QED BY <3>2, <3>3, <3>4 DEF Segmented
  <2>4. CASE prepare
    BY <2>1, <2>4 DEF prepare
  <2>5. CASE reboundReplan
    BY <2>2, <2>5 DEF reboundReplan
  <2>6. CASE costFunctionRebound
    BY <2>2, <2>6 DEF costFunctionRebound
  <2>7. CASE Cancelled \/ Converged \/ SolverFailed
    BY <2>2, <2>7 DEF Cancelled, Converged, SolverFailed, SolverEnds
  <2>8. CASE Feasible \/ BsplineOptimizeTrajRefine
    BY <2>2, <2>8 DEF Feasible, BsplineOptimizeTrajRefine
  <2>9. CASE UNCHANGED vars
    BY <2>9 DEF vars, Segmented
  <2> QED BY <2>3, <2>4, <2>5, <2>6, <2>7, <2>8, <2>9 DEF Next, Step
<1>3. Inv => SegmentsAsMeant
  <2> SUFFICES ASSUME samples \in Seq(BOOLEAN), segment_ids = Segments(samples)
               PROVE  SegmentsAsMeant
    BY DEF Segmented, SegmentsAsMeant
  <2>1. Listed(samples, Len(samples), segment_ids)
    BY ScanFinds
  <2>2. Done(samples, Len(samples)) = Obstacles(samples)
    BY AllDone
  <2> QED BY <2>1, <2>2 DEF Listed, SegmentsAsMeant
<1> QED BY <1>1, <1>2, <1>3, PTL DEF Spec
=============================================================================
