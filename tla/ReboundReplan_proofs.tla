------------------------ MODULE ReboundReplan_proofs ------------------------
(***************************************************************************)
(* Theorems about ReboundReplan, for every geometry and all durations: the *)
(* flags and counters of its loops, and, from the middle on, the loop that *)
(* takes points along the previous trajectory, turn by turn.               *)
(***************************************************************************)
EXTENDS ReboundReplan, Integers, WellFoundedInduction, TLAPS

\* A polynomial longer than one sampling step is sampled at least once.
LEMMA PolySampled ==
  ASSUME NEW l \in Nat, 2 * l > StepLength
  PROVE  PolySamples(l) \in Nat \ {0}
<1> DEFINE x == 2 * l - 1  s == StepLength
<1>1. x \in Nat /\ s \in Nat \ {0} /\ x >= s
  BY ReplanAssumption
<1>2. (x \div s) \in Int /\ s * (x \div s) <= x /\ x < s * ((x \div s) + 1)
  BY <1>1
<1>3. x \div s >= 1
  <2> SUFFICES ASSUME x \div s <= 0 PROVE FALSE
    BY <1>2
  <2>1. s * ((x \div s) + 1) <= s
    <3> DEFINE q == x \div s
    <3>1. q \in Int /\ q + 1 <= 1
      BY <1>2
    <3> HIDE DEF q
    <3>2. s * (q + 1) <= s
      BY <1>1, <3>1
    <3> QED
      BY <3>2 DEF q
  <2> QED
    BY <2>1, <1>1, <1>2
<1>4. ~(2 * l <= StepLength)
  BY ReplanAssumption
<1>5. PolySamples(l) = x \div s
  BY <1>4 DEF PolySamples
<1> HIDE DEF x, s
<1> QED
  BY <1>2, <1>3, <1>5

\* In any case the number of samples is a natural number.
LEMMA PolySamplesNat ==
  ASSUME NEW l \in Nat PROVE PolySamples(l) \in Nat
<1>1. CASE 2 * l > StepLength
  BY <1>1, PolySampled
<1>2. CASE 2 * l <= StepLength
  BY <1>2 DEF PolySamples
<1> QED
  BY <1>1, <1>2, ReplanAssumption

\* While the previous trajectory runs, at least one sample of it remains.
LEMMA SomethingRemains ==
  ASSUME local_data_ \in [duration : Nat, elapsed : Nat],
         local_data_.elapsed <= local_data_.duration
  PROVE  Remaining \in Nat \ {0}
<1> DEFINE x == local_data_.duration - local_data_.elapsed
<1>1. x \in Nat /\ Ts \in Nat \ {0}
  BY ReplanAssumption
<1> HIDE DEF x
<1>2. x \div Ts \in Nat
  BY <1>1
<1> QED
  BY <1>2 DEF Remaining, x

-----------------------------------------------------------------------------

\* The order for a polynomial never outlives the round of the loop it is for.
THEOREM ForceIsConsumed == Spec => []ForceConsumed
<1>1. Init => ForceConsumed
  BY DEF Init, ForceConsumed
<1>2. ForceConsumed /\ [Next]_vars => ForceConsumed'
  <2> SUFFICES ASSUME ForceConsumed, [Next]_vars PROVE ForceConsumed'
    OBVIOUS
  <2> USE DEF ForceConsumed
  <2>1. CASE goal_callback \/ ExecTraj \/ StartPlanning \/ Clock
    BY <2>1 DEF goal_callback, ExecTraj, StartPlanning, Clock, staticVars
  <2>2. CASE callReboundReplan \/ Failed \/ Optimise
    BY <2>2 DEF callReboundReplan, Failed, Optimise, staticVars
  <2>3. CASE InitPath
    BY <2>3 DEF InitPath, staticVars
  <2>4. CASE PolyPath \/ WarmPath
    BY <2>4 DEF PolyPath, WarmPath, staticVars
  <2>5. CASE ResamplePath
    BY <2>5 DEF ResamplePath
  <2>6. CASE UNCHANGED vars
    BY <2>6 DEF vars, staticVars
  <2> QED
    BY <2>1, <2>2, <2>3, <2>4, <2>5, <2>6 DEF Next, reboundReplan
<1> QED
  BY <1>1, <1>2, PTL DEF Spec

-----------------------------------------------------------------------------

\* The trajectory's clock stays within its duration, and from the test for a
\* close goal to the end of the initial path the target is not close.
RunningOK ==
  /\ local_data_ \in [duration : Nat, elapsed : Nat]
  /\ local_data_.elapsed <= local_data_.duration

FarOK == pc \in {"INIT", "POLY", "WARM", "RESAMPLE"} => dist \in Nat /\ dist >= TooClose

IInv == RunningOK /\ FarOK /\ ReadsInBounds

\* The warm start builds a segment for every pair of points, and at least one.
LEMMA WarmPathInBounds ==
  ASSUME RunningOK, FarOK, WarmPath, StepLength < 2 * TooClose
  PROVE  Len(lens') > 0 /\ segment_points' = Len(lens') + 1
<1>1. Remaining \in Nat \ {0}
  BY SomethingRemains DEF RunningOK
<1>2. dist \in Nat /\ dist >= TooClose
  BY DEF WarmPath, FarOK
<1>3. PICK old \in Seqs(OldLengths, Remaining - 1), last \in 0..LargestOf(Dists) :
        /\ Remaining = 1 => last = dist
        /\ \E new \in Seqs(PolyLengths, PolySamples(last)) : lens' = old \o new
        /\ segment_points' = Remaining + PolySamples(last)
  BY <1>1 DEF WarmPath
<1>4. PICK new \in Seqs(PolyLengths, PolySamples(last)) : lens' = old \o new
  BY <1>3
<1>5. PolySamples(last) \in Nat
  BY PolySamplesNat
<1>6. Remaining = 1 => PolySamples(last) >= 1
  <2> SUFFICES ASSUME Remaining = 1 PROVE PolySamples(last) >= 1
    OBVIOUS
  <2>1. last = dist
    BY <1>3
  <2>2. 2 * last > StepLength
    BY <2>1, <1>2, ReplanAssumption
  <2> QED
    BY <2>2, PolySampled, <1>5
<1> DEFINE L == OldLengths \cup PolyLengths
<1>7. old \in Seq(L) /\ Len(old) = Remaining - 1
  BY <1>1 DEF Seqs
<1>8. new \in Seq(L) /\ Len(new) = PolySamples(last)
  BY <1>5 DEF Seqs
<1>9. Len(lens') = Remaining - 1 + PolySamples(last)
  <2> HIDE DEF L
  <2>1. Len(old \o new) = Len(old) + Len(new)
    BY <1>7, <1>8
  <2> QED
    BY <2>1, <1>4, <1>7, <1>8
<1> QED
  BY <1>1, <1>3, <1>5, <1>6, <1>9

\* As long as replanning succeeds while the trajectory runs, and a sampling step
\* is shorter than twice the distance that counts as close, no index of the warm
\* start leaves its vectors.
THEOREM WarmStartInBounds ==
  ASSUME Timely, StepLength < 2 * TooClose
  PROVE  Spec => []ReadsInBounds
<1>1. Init => IInv
  BY DEF Init, IInv, RunningOK, FarOK, ReadsInBounds
<1>2. IInv /\ [Next]_vars => IInv'
  <2> SUFFICES ASSUME RunningOK, FarOK, ReadsInBounds, [Next]_vars
               PROVE  RunningOK' /\ FarOK' /\ ReadsInBounds'
    BY DEF IInv
  <2>1. CASE goal_callback \/ ExecTraj \/ StartPlanning
    BY <2>1 DEF goal_callback, ExecTraj, StartPlanning, pathVars, RunningOK, FarOK, ReadsInBounds
  <2>2. CASE callReboundReplan
    <3>1. RunningOK' /\ ReadsInBounds'
      BY <2>2 DEF callReboundReplan, RunningOK, ReadsInBounds
    <3>2. FarOK'
      BY <2>2, ReplanAssumption DEF callReboundReplan, FarOK
    <3> QED
      BY <3>1, <3>2
  <2>3. CASE Failed
    BY <2>3 DEF Failed, RunningOK, FarOK, ReadsInBounds
  <2>4. CASE InitPath
    BY <2>4 DEF InitPath, RunningOK, FarOK, ReadsInBounds
  <2>5. CASE PolyPath
    <3>1. pc = "POLY" /\ pc' \in {"POLY", "OPTIMISE"} /\ UNCHANGED <<local_data_, dist>>
      BY <2>5 DEF PolyPath
    <3> QED
      BY <3>1 DEF RunningOK, FarOK, ReadsInBounds
  <2>6. CASE WarmPath
    <3>1. Len(lens') > 0 /\ segment_points' = Len(lens') + 1
      BY <2>6, WarmPathInBounds
    <3>2. pc = "WARM" /\ pc' = "RESAMPLE" /\ UNCHANGED <<local_data_, dist>>
      BY <2>6 DEF WarmPath
    <3> QED
      BY <3>1, <3>2 DEF RunningOK, FarOK, ReadsInBounds
  <2>7. CASE ResamplePath
    <3>1. pc = "RESAMPLE" /\ UNCHANGED <<local_data_, dist>>
      BY <2>7 DEF ResamplePath
    <3>2. \/ pc' = "RESAMPLE" /\ UNCHANGED <<lens, segment_points>>
          \/ pc' \in {"INIT", "OPTIMISE"}
      BY <2>7 DEF ResamplePath
    <3> QED
      BY <3>1, <3>2 DEF RunningOK, FarOK, ReadsInBounds
  <2>8. CASE Optimise
    <3>1. RunningOK'
      <4>1. CASE UNCHANGED local_data_
        BY <4>1 DEF RunningOK
      <4>2. CASE \E d \in Durations : local_data_' = [duration |-> d, elapsed |-> 0]
        BY <4>2, ReplanAssumption DEF RunningOK
      <4> QED
        BY <2>8, <4>1, <4>2 DEF Optimise
    <3>2. pc' \in {"FAILED", "IDLE"}
      BY <2>8 DEF Optimise
    <3> QED
      BY <3>1, <3>2 DEF FarOK, ReadsInBounds
  <2>9. CASE Clock
    <3>1. RunningOK'
      <4>1. local_data_.elapsed < local_data_.duration
        BY <2>9 DEF Clock, RunningOK
      <4>2. local_data_' = [local_data_ EXCEPT !.elapsed = @ + 1]
        BY <2>9 DEF Clock
      <4> QED
        BY <4>1, <4>2 DEF RunningOK
    <3>2. UNCHANGED <<pc, dist, lens, segment_points>>
      BY <2>9 DEF Clock, pathVars
    <3> QED
      BY <3>1, <3>2 DEF FarOK, ReadsInBounds
  <2>10. CASE UNCHANGED vars
    BY <2>10 DEF vars, pathVars, RunningOK, FarOK, ReadsInBounds
  <2> QED
    BY <2>1, <2>2, <2>3, <2>4, <2>5, <2>6, <2>7, <2>8, <2>9, <2>10 DEF Next, reboundReplan
<1>3. IInv => ReadsInBounds
  BY DEF IInv
<1> QED
  BY <1>1, <1>2, <1>3, PTL DEF Spec

-----------------------------------------------------------------------------

\* The head of the loop has taken the derivatives of a discarded path back
\* before a path adds its own.
BegunAnew == pc \in {"POLY", "WARM", "RESAMPLE"} => derivatives = 0

\* What is handed to the spline fit is of one path, however often it was begun
\* anew: points enough and four derivatives (planner_manager.cpp:78).
THEOREM FitIsReady == Spec => []ReadyToFit
<1> DEFINE FitInv == BegunAnew /\ ReadyToFit
<1>1. Init => FitInv
  BY DEF Init, BegunAnew, ReadyToFit
<1>2. FitInv /\ [Next]_vars => FitInv'
  <2> SUFFICES ASSUME BegunAnew, ReadyToFit, [Next]_vars PROVE BegunAnew' /\ ReadyToFit'
    OBVIOUS
  <2> USE DEF BegunAnew, ReadyToFit
  <2>1. CASE goal_callback \/ ExecTraj \/ StartPlanning \/ Clock
    BY <2>1 DEF goal_callback, ExecTraj, StartPlanning, Clock, pathVars
  <2>2. CASE callReboundReplan
    BY <2>2 DEF callReboundReplan
  <2>3. CASE Failed
    BY <2>3 DEF Failed
  <2>4. CASE InitPath
    BY <2>4 DEF InitPath
  <2>5. CASE PolyPath
    <3>1. \/ pc' = "POLY" /\ derivatives' = derivatives
          \/ ~(points' < 7) /\ derivatives' = derivatives + 4 /\ pc' = "OPTIMISE"
      BY <2>5 DEF PolyPath
    <3> QED
      BY <2>5, <3>1 DEF PolyPath
  <2>6. CASE WarmPath
    BY <2>6 DEF WarmPath
  <2>7. CASE ResamplePath
    <3>1. \/ pc' = "RESAMPLE" /\ derivatives' = derivatives
          \/ ~(points' < 7) /\ derivatives' = derivatives + 4 /\ pc' \in {"INIT", "OPTIMISE"}
      BY <2>7 DEF ResamplePath
    <3> QED
      BY <2>7, <3>1 DEF ResamplePath
  <2>8. CASE Optimise
    BY <2>8 DEF Optimise
  <2>9. CASE UNCHANGED vars
    BY <2>9 DEF vars, pathVars
  <2> QED
    BY <2>1, <2>2, <2>3, <2>4, <2>5, <2>6, <2>7, <2>8, <2>9 DEF Next, reboundReplan
<1>3. FitInv => ReadyToFit
  OBVIOUS
<1> QED
  BY <1>1, <1>2, <1>3, PTL DEF Spec

-----------------------------------------------------------------------------
\* What holds of 0, and of n + 1 when it holds of n, holds of every natural.
LEMMA Induction ==
  ASSUME NEW S, 0 \in S, \A n \in Nat : n \in S => n + 1 \in S
  PROVE  \A n \in Nat : n \in S
<1> DEFINE T == {n \in Nat : n \notin S}
<1>1. SUFFICES ASSUME T # {} PROVE FALSE
  OBVIOUS
<1>2. \E x \in T : \A y \in T : ~(<<y, x>> \in OpToRel(<, Nat))
  <2> HIDE DEF OpToRel, T
  <2>1. T \subseteq Nat
    BY DEF T
  <2> QED
    BY <1>1, <2>1, NatLessThanWellFounded, WFMin
<1>3. \A x, y \in T : y < x => <<y, x>> \in OpToRel(<, Nat)
  BY DEF OpToRel
<1>4. PICK x \in T : \A y \in T : ~(y < x)
  BY <1>2, <1>3
<1>5. x # 0 /\ x - 1 \in Nat /\ x - 1 < x
  BY <1>4
<1>6. x - 1 \in S
  BY <1>4, <1>5
<1>7. x \in S
  BY <1>5, <1>6, (x - 1) + 1 = x
<1> QED
  BY <1>4, <1>7

\* A loop of n turns on states of S, and the states it runs through from x.
IsLoop(step, n, S) == step \in [S \X (1 .. n) -> S]
History(f, n, S, x, step) ==
  /\ f \in [0 .. n -> S] /\ f[0] = x
  /\ \A k \in 1 .. n : f[k] = step[<<f[k - 1], k>>]

\* Every loop has a history: the recursive functions of the warm start exist.
LEMMA Recursion ==
  ASSUME NEW n \in Nat, NEW S, NEW x \in S, NEW step, IsLoop(step, n, S)
  PROVE  \E f : History(f, n, S, x, step)
<1> USE DEF IsLoop
<1> DEFINE H(f, m) == /\ f \in [0 .. m -> S] /\ f[0] = x
                      /\ \A k \in 1 .. m : f[k] = step[<<f[k - 1], k>>]
           T == {m \in Nat : m <= n => \E f : H(f, m)}
<1>1. 0 \in T
  <2>1. H([k \in 0 .. 0 |-> x], 0)
    OBVIOUS
  <2> QED BY <2>1
<1>2. ASSUME NEW m \in Nat, m \in T PROVE m + 1 \in T
  <2>1. SUFFICES ASSUME m + 1 <= n PROVE \E f : H(f, m + 1)
    OBVIOUS
  <2>2. PICK f : H(f, m)
    BY <1>2, <2>1
  <2> DEFINE y == step[<<f[m], m + 1>>]
             g == [k \in 0 .. m + 1 |-> IF k = m + 1 THEN y ELSE f[k]]
  <2>3. f[m] \in S /\ y \in S
    BY <2>1, <2>2
  <2>4. g \in [0 .. m + 1 -> S] /\ g[0] = x
    BY <2>2, <2>3
  <2>5. ASSUME NEW k \in 1 .. m + 1 PROVE g[k] = step[<<g[k - 1], k>>]
    <3>1. k - 1 \in 0 .. m /\ g[k - 1] = f[k - 1]
      BY <2>5
    <3>2. CASE k = m + 1
      <4>1. k - 1 = m /\ g[k] = y
        BY <3>2
      <4>2. g[k - 1] = f[m]
        BY <3>1, <4>1
      <4> QED BY <3>2, <4>1, <4>2
    <3>3. CASE k # m + 1
      <4>1. k \in 1 .. m
        BY <3>3
      <4> QED BY <2>2, <3>1, <3>3, <4>1
    <3> QED BY <3>2, <3>3
  <2>6. H(g, m + 1)
    BY <2>4, <2>5
  <2> QED BY <2>6
<1>3. n \in T
  <2> HIDE DEF T
  <2> QED BY <1>1, <1>2, Induction
<1> QED BY <1>3 DEF History

\* A power of a positive number is positive.
LEMMA PowerPositive ==
  ASSUME NEW b \in Nat \ {0}, NEW n \in Nat
  PROVE  Power(b, n) \in Nat \ {0}
<1> DEFINE P == Nat \ {0}
           step == [q \in P \X (1 .. n) |-> b * q[1]]
           IsPower(f) == f = [k \in 0 .. n |-> IF k = 0 THEN 1 ELSE b * f[k - 1]]
           p == CHOOSE f : IsPower(f)
<1>1. \A a \in P : b * a \in P
  OBVIOUS
<1>2. IsLoop(step, n, P)
  <2>1. \A q \in P \X (1 .. n) : b * q[1] \in P
    <3> HIDE DEF P
    <3> QED BY <1>1
  <2> HIDE DEF P
  <2> QED BY <2>1 DEF IsLoop
<1>3. PICK f : History(f, n, P, 1, step)
  <2>1. 1 \in P
    OBVIOUS
  <2> HIDE DEF P, step
  <2> QED BY <1>2, <2>1, Recursion
<1>4. IsPower(f)
  <2>1. f = [k \in 0 .. n |-> f[k]] /\ f[0] = 1
    BY <1>3 DEF History
  <2>2. ASSUME NEW k \in 1 .. n PROVE f[k] = b * f[k - 1]
    <3>1. k - 1 \in 0 .. n
      OBVIOUS
    <3>2. f[k - 1] \in P /\ f[k] = step[<<f[k - 1], k>>]
      BY <1>3, <3>1 DEF History
    <3> HIDE DEF P
    <3> QED BY <3>2
  <2>3. \A k \in 0 .. n : f[k] = IF k = 0 THEN 1 ELSE b * f[k - 1]
    BY <2>1, <2>2
  <2> QED BY <2>1, <2>3
<1>5. IsPower(p)
  <2> HIDE DEF IsPower
  <2> QED BY <1>4
<1>6. \A k \in Nat : k \in {m \in Nat : m <= n => p[m] \in P}
  <2> DEFINE T == {m \in Nat : m <= n => p[m] \in P}
  <2> HIDE DEF p
  <2>1. 0 \in T
    BY <1>5
  <2>2. ASSUME NEW m \in Nat, m \in T PROVE m + 1 \in T
    <3>1. SUFFICES ASSUME m + 1 <= n PROVE p[m + 1] \in P
      OBVIOUS
    <3>2. p[m] \in P
      BY <2>2, <3>1
    <3>3. m + 1 \in 0 .. n /\ m + 1 # 0 /\ (m + 1) - 1 = m
      BY <3>1
    <3>4. p[m + 1] = b * p[m]
      BY <1>5, <3>3
    <3> QED BY <1>1, <3>2, <3>4
  <2> HIDE DEF T
  <2>3. \A k \in Nat : k \in T
    BY <2>1, <2>2, Induction
  <2> QED BY <2>3 DEF T
<1>7. Power(b, n) = p[n]
  BY DEF Power
<1> HIDE DEF p
<1> QED BY <1>6, <1>7

\* The arc begins at 0 and grows by the length of each segment.
LEMMA ArcGrows ==
  ASSUME NEW ls \in Seq(Nat)
  PROVE  /\ ArcLength(ls) \in [0 .. Len(ls) -> Nat] /\ ArcLength(ls)[0] = 0
         /\ \A j \in 1 .. Len(ls) : ArcLength(ls)[j] = ArcLength(ls)[j - 1] + ls[j]
<1> DEFINE n == Len(ls)
           step == [q \in Nat \X (1 .. n) |-> q[1] + ls[q[2]]]
           IsArc(f) == f = [id \in 0 .. n |-> IF id = 0 THEN 0 ELSE f[id - 1] + ls[id]]
           arc == CHOOSE f : IsArc(f)
<1>1. n \in Nat /\ \A j \in 1 .. n : ls[j] \in Nat
  OBVIOUS
<1>2. IsLoop(step, n, Nat)
  BY <1>1 DEF IsLoop
<1>3. PICK f : History(f, n, Nat, 0, step)
  <2> HIDE DEF n, step
  <2> QED BY <1>1, <1>2, Recursion
<1>4. \A k \in 1 .. n : f[k - 1] \in Nat /\ f[k] = f[k - 1] + ls[k]
  <2> TAKE k \in 1 .. n
  <2>1. k - 1 \in 0 .. n
    BY <1>1
  <2>2. f[k - 1] \in Nat /\ f[k] = step[<<f[k - 1], k>>]
    BY <1>3, <2>1 DEF History
  <2> QED BY <2>2
<1>5. IsArc(f)
  <2>1. f = [k \in 0 .. n |-> f[k]] /\ f[0] = 0
    BY <1>3 DEF History
  <2>2. \A k \in 0 .. n : f[k] = IF k = 0 THEN 0 ELSE f[k - 1] + ls[k]
    <3> HIDE DEF n
    <3>1. \A k \in 0 .. n : k = 0 \/ k \in 1 .. n
      BY <1>1
    <3> QED BY <1>4, <2>1, <3>1
  <2> QED BY <2>1, <2>2
<1>6. IsArc(arc)
  <2> HIDE DEF IsArc
  <2> QED BY <1>5
<1>7. ArcLength(ls) = arc
  BY DEF ArcLength
<1> HIDE DEF arc
<1>8. arc[0] = 0 /\ \A j \in 1 .. n : arc[j] = arc[j - 1] + ls[j]
  BY <1>1, <1>6
<1>9. \A k \in Nat : k \in {m \in Nat : m <= n => arc[m] \in Nat}
  <2> DEFINE T == {m \in Nat : m <= n => arc[m] \in Nat}
  <2>1. 0 \in T
    BY <1>8
  <2>2. ASSUME NEW m \in Nat, m \in T PROVE m + 1 \in T
    <3>1. SUFFICES ASSUME m + 1 <= n PROVE arc[m + 1] \in Nat
      OBVIOUS
    <3>2. arc[m] \in Nat
      BY <1>1, <2>2, <3>1
    <3>3. m + 1 \in 1 .. n /\ (m + 1) - 1 = m
      BY <1>1, <3>1
    <3>4. arc[m + 1] = arc[m] + ls[m + 1]
      BY <1>8, <3>3
    <3> QED BY <1>1, <3>2, <3>3, <3>4
  <2> HIDE DEF T
  <2>3. \A k \in Nat : k \in T
    BY <2>1, <2>2, Induction
  <2> QED BY <2>3 DEF T
<1>10. arc \in [0 .. n -> Nat]
  <2>1. \A k \in 0 .. n : arc[k] \in Nat
    BY <1>1, <1>9
  <2> QED BY <1>6, <2>1
<1> QED BY <1>7, <1>8, <1>10
-----------------------------------------------------------------------------
\* The lengths along the arc rise from 0.
Rising(A, L) ==
  /\ A \in [0 .. L -> Nat] /\ A[0] = 0
  /\ \A j \in 1 .. L : A[j - 1] <= A[j]

\* No point of the arc lies beyond its end.
LEMMA EndIsFarthest ==
  ASSUME NEW L \in Nat, NEW A, Rising(A, L), NEW j \in 0 .. L
  PROVE  A[j] <= A[L]
<1> DEFINE T == {m \in Nat : m <= L => A[L - m] <= A[L]}
<1>1. \A m \in 0 .. L : A[m] \in Nat
  BY DEF Rising
<1>2. 0 \in T
  BY <1>1
<1>3. ASSUME NEW m \in Nat, m \in T PROVE m + 1 \in T
  <2>1. SUFFICES ASSUME m + 1 <= L PROVE A[L - (m + 1)] <= A[L]
    OBVIOUS
  <2>2. /\ L - m \in 1 .. L /\ (L - m) - 1 = L - (m + 1)
        /\ L - (m + 1) \in 0 .. L /\ L - m \in 0 .. L
    BY <2>1
  <2>3. A[L - (m + 1)] <= A[L - m]
    BY <2>2 DEF Rising
  <2>4. A[L - m] <= A[L]
    BY <1>3, <2>1
  <2>5. A[L - (m + 1)] \in Nat /\ A[L - m] \in Nat /\ A[L] \in Nat
    BY <1>1, <2>2
  <2> QED BY <2>3, <2>4, <2>5
<1>4. L - j \in T
  <2> HIDE DEF T
  <2> QED BY <1>2, <1>3, Induction
<1>5. L - j <= L /\ L - (L - j) = j
  OBVIOUS
<1> QED BY <1>4, <1>5

\* The loop of the walk: its states, a turn, and the turns it may take.
Walks == [id : Nat, taken : Seq(Nat)]
Start == [id |-> 0, taken |-> <<>>]
Turn(A, L, s) ==
  [w \in Walks |->
    LET sample_length == Len(w.taken) * s
    IN  IF w.id >= L \/ sample_length > A[L] THEN w
        ELSE IF A[w.id] <= sample_length /\ sample_length < A[w.id + 1]
        THEN [w EXCEPT !.taken = Append(@, w.id)]
        ELSE [w EXCEPT !.id = @ + 1]]
Turns(A, L, s) == L + A[L] \div s + 1

\* After n turns: the points taken lie on their segments, the present segment
\* does not begin beyond the next one, and each turn has taken a point or
\* passed a segment unless the loop has ended.
Ended(A, L, s, w) == w.id >= L \/ Len(w.taken) * s > A[L]
OnSegments(A, L, s, taken) ==
  /\ \A j \in 1 .. Len(taken) :
       /\ taken[j] \in 0 .. L - 1
       /\ A[taken[j]] <= (j - 1) * s /\ (j - 1) * s < A[taken[j] + 1]
  /\ Len(taken) > 0 => (Len(taken) - 1) * s < A[L]
Walking(A, L, s, w, n) ==
  /\ w \in Walks /\ w.id <= L
  /\ OnSegments(A, L, s, w.taken)
  /\ A[w.id] <= Len(w.taken) * s
  /\ Ended(A, L, s, w) \/ w.id + Len(w.taken) = n

\* One point more, at the next multiple of the step.
LEMMA OneMore ==
  ASSUME NEW s \in Nat, NEW n \in Nat
  PROVE  /\ n * s \in Nat /\ ((n + 1) - 1) * s = n * s /\ n * s <= (n + 1) * s
         /\ (n + 1) * s \in Nat
  OBVIOUS

\* A turn of the loop.
LEMMA TurnGoesOn ==
  ASSUME NEW L \in Nat, NEW A, Rising(A, L), NEW s \in Nat \ {0},
         NEW n \in Nat, NEW w, Walking(A, L, s, w, n)
  PROVE  Walking(A, L, s, Turn(A, L, s)[w], n + 1)
<1> DEFINE t == w.taken
           m == Len(t)
           v == Turn(A, L, s)[w]
<1>1. /\ w \in Walks /\ w.id \in 0 .. L /\ t \in Seq(Nat) /\ m \in Nat
      /\ w = [id |-> w.id, taken |-> t]
  BY DEF Walking, Walks
<1>2. A[L] \in Nat /\ \A j \in 0 .. L : A[j] \in Nat /\ A[j] <= A[L]
  <2>1. L \in 0 .. L /\ \A j \in 0 .. L : A[j] \in Nat
    BY DEF Rising
  <2> QED BY <2>1, EndIsFarthest
<1>3. /\ OnSegments(A, L, s, t) /\ A[w.id] <= m * s
      /\ Ended(A, L, s, w) \/ w.id + m = n
  BY DEF Walking
<1>4. CASE Ended(A, L, s, w)
  <2>1. v = w
    BY <1>1, <1>4 DEF Turn, Ended
  <2> QED BY <1>4, <2>1 DEF Walking
<1>5. CASE ~Ended(A, L, s, w) /\ A[w.id] <= m * s /\ m * s < A[w.id + 1]
  <2>1. w.id \in 0 .. L - 1 /\ w.id + 1 \in 0 .. L
    BY <1>1, <1>5 DEF Ended
  <2>2. v = [id |-> w.id, taken |-> Append(t, w.id)]
    BY <1>1, <1>5 DEF Turn, Ended
  <2> DEFINE u == Append(t, w.id)
  <2>3. /\ u \in Seq(Nat) /\ Len(u) = m + 1 /\ u[m + 1] = w.id
        /\ \A j \in 1 .. m : u[j] = t[j]
    BY <1>1
  <2>4. v \in Walks /\ v.id = w.id /\ v.taken = u
    BY <1>1, <2>2, <2>3 DEF Walks
  <2> HIDE DEF u, v
  <2>5. /\ m * s \in Nat /\ ((m + 1) - 1) * s = m * s /\ m * s <= (m + 1) * s
        /\ (m + 1) * s \in Nat
    BY <1>1, OneMore
  <2>6. OnSegments(A, L, s, u)
    <3>1. ASSUME NEW j \in 1 .. Len(u)
          PROVE  /\ u[j] \in 0 .. L - 1
                 /\ A[u[j]] <= (j - 1) * s /\ (j - 1) * s < A[u[j] + 1]
      <4>1. CASE j = m + 1
        BY <1>5, <2>1, <2>3, <2>5, <4>1
      <4>2. CASE j # m + 1
        <5>1. j \in 1 .. m
          BY <1>1, <2>3, <4>2
        <5> QED BY <1>3, <2>3, <5>1 DEF OnSegments
      <4> QED BY <4>1, <4>2
    <3>2. (Len(u) - 1) * s < A[L]
      <4> DEFINE r == m * s
      <4>1. r \in Nat /\ r < A[w.id + 1] /\ A[w.id + 1] <= A[L]
            /\ A[w.id + 1] \in Nat /\ A[L] \in Nat
        BY <1>2, <1>5, <2>1, <2>5
      <4>2. (Len(u) - 1) * s = r
        BY <2>3, <2>5
      <4> HIDE DEF r
      <4> QED BY <4>1, <4>2
    <3> QED BY <3>1, <3>2 DEF OnSegments
  <2>7. A[v.id] <= Len(v.taken) * s
    <3> DEFINE r == m * s  q == (m + 1) * s
    <3>1. r \in Nat /\ q \in Nat /\ r <= q /\ A[w.id] \in Nat /\ A[w.id] <= r
      BY <1>1, <1>2, <1>3, <2>5
    <3>2. Len(v.taken) * s = q
      BY <2>3, <2>4
    <3> HIDE DEF r, q
    <3> QED BY <2>4, <3>1, <3>2
  <2>8. v.id + Len(v.taken) = n + 1
    <3>1. w.id + m = n
      BY <1>3, <1>5
    <3>2. v.id = w.id /\ Len(v.taken) = m + 1
      BY <2>3, <2>4
    <3> HIDE DEF m
    <3> QED BY <1>1, <3>1, <3>2
  <2>9. v.id <= L /\ OnSegments(A, L, s, v.taken)
    BY <2>1, <2>4, <2>6
  <2>10. Walking(A, L, s, v, n + 1)
    BY <2>4, <2>7, <2>8, <2>9 DEF Walking
  <2> QED BY <2>10 DEF v
<1>6. CASE ~Ended(A, L, s, w) /\ ~(A[w.id] <= m * s /\ m * s < A[w.id + 1])
  <2>1. w.id \in 0 .. L - 1 /\ w.id + 1 \in 0 .. L
    BY <1>1, <1>6 DEF Ended
  <2>2. v = [id |-> w.id + 1, taken |-> t]
    BY <1>1, <1>6 DEF Turn, Ended
  <2>3. v \in Walks /\ v.id = w.id + 1 /\ v.taken = t
    BY <1>1, <2>2 DEF Walks
  <2> HIDE DEF v
  <2>4. A[v.id] <= Len(v.taken) * s
    <3>1. m * s \in Nat
      BY <1>1, OneMore
    <3> HIDE DEF m
    <3>2. A[w.id + 1] <= m * s
      BY <1>2, <1>3, <1>6, <2>1, <3>1
    <3> QED BY <2>3, <3>2 DEF m
  <2>5. v.id + Len(v.taken) = n + 1
    <3>1. w.id + m = n
      BY <1>3, <1>6
    <3>2. v.id = w.id + 1 /\ Len(v.taken) = m
      BY <2>3
    <3> HIDE DEF m
    <3> QED BY <1>1, <3>1, <3>2
  <2>6. v.id <= L /\ OnSegments(A, L, s, v.taken)
    BY <1>3, <2>1, <2>3
  <2>7. Walking(A, L, s, v, n + 1)
    BY <2>3, <2>4, <2>5, <2>6 DEF Walking
  <2> QED BY <2>7 DEF v
<1> QED BY <1>3, <1>4, <1>5, <1>6

\* The least number of steps that covers a length.
LEMMA StepsToCover ==
  ASSUME NEW a \in Nat, NEW s \in Nat \ {0}, NEW m \in Nat,
         a <= m * s, m > 0 => (m - 1) * s < a
  PROVE  CeilDiv(a, s) = m
<1> DEFINE x == a + s - 1
           q == x \div s
<1>1. x \in Nat /\ q \in Int /\ s * q <= x /\ x < s * (q + 1)
  OBVIOUS
<1>2. m * s <= x /\ x < (m + 1) * s
  <2>1. (m + 1) * s = m * s + s /\ m * s \in Nat
    OBVIOUS
  <2>2. m * s <= x
    <3>1. CASE m = 0
      BY <1>1, <3>1
    <3>2. CASE m > 0
      <4>1. m * s = (m - 1) * s + s /\ (m - 1) * s \in Nat
        BY <3>2
      <4> DEFINE r == (m - 1) * s
      <4>2. r \in Nat /\ r < a /\ m * s = r + s
        BY <3>2, <4>1
      <4> HIDE DEF r
      <4> QED BY <4>2
    <3> QED BY <3>1, <3>2
  <2> DEFINE r == m * s
  <2>3. r \in Nat /\ a <= r /\ (m + 1) * s = r + s
    BY <2>1
  <2> HIDE DEF r
  <2>4. x < (m + 1) * s
    BY <2>3
  <2> QED BY <2>2, <2>4
<1> HIDE DEF x, q
<1>3. ~(q < m)
  <2> SUFFICES ASSUME q + 1 <= m PROVE FALSE
    BY <1>1
  <2>1. s * (q + 1) <= m * s
    BY <1>1
  <2> DEFINE y == s * (q + 1)  z == m * s
  <2>2. x \in Nat /\ y \in Int /\ z \in Int /\ x < y /\ y <= z /\ z <= x
    BY <1>1, <1>2, <2>1
  <2> HIDE DEF y, z
  <2> QED BY <2>2
<1>4. ~(m < q)
  <2> SUFFICES ASSUME m + 1 <= q PROVE FALSE
    BY <1>1
  <2>1. (m + 1) * s <= s * q
    BY <1>1
  <2> DEFINE y == s * q  z == (m + 1) * s
  <2>2. x \in Nat /\ y \in Int /\ z \in Int /\ x < z /\ z <= y /\ y <= x
    BY <1>1, <1>2, <2>1
  <2> HIDE DEF y, z
  <2> QED BY <2>2
<1>5. q = m
  BY <1>1, <1>3, <1>4
<1> QED BY <1>5 DEF CeilDiv, q, x

\* The loop ends within its turns, and then a point has been taken at each step
\* short of the end of the arc.
LEMMA WalkTakesAll ==
  ASSUME NEW L \in Nat, NEW A, Rising(A, L), NEW s \in Nat \ {0},
         NEW w, Walking(A, L, s, w, Turns(A, L, s))
  PROVE  OnSegments(A, L, s, w.taken) /\ Len(w.taken) = CeilDiv(A[L], s)
<1> DEFINE m == Len(w.taken)
<1>1. /\ w.id \in 0 .. L /\ m \in Nat /\ OnSegments(A, L, s, w.taken) /\ A[w.id] <= m * s
      /\ Ended(A, L, s, w) \/ w.id + m = Turns(A, L, s)
  BY DEF Walking, Walks
<1>2. A[L] \in Nat
  BY DEF Rising
<1> DEFINE q == A[L] \div s
<1>3. q \in Nat /\ A[L] < (q + 1) * s
  <2> DEFINE a == A[L]
  <2>1. a \in Nat
    BY <1>2
  <2> HIDE DEF a
  <2>2. (a \div s) \in Nat /\ a < s * ((a \div s) + 1)
    BY <2>1
  <2>3. s * ((a \div s) + 1) = ((a \div s) + 1) * s
    BY <2>2
  <2> QED BY <2>2, <2>3 DEF a
<1>4. Ended(A, L, s, w)
  <2> SUFFICES ASSUME w.id < L, m * s <= A[L], w.id + m = L + q + 1
               PROVE  FALSE
    <3>1. m * s \in Nat
      BY <1>1
    <3> HIDE DEF m, q
    <3> QED BY <1>1, <1>2, <3>1 DEF Ended, Turns, m, q
  <2> HIDE DEF m, q
  <2>1. q + 1 <= m
    BY <1>1, <1>3
  <2>2. (q + 1) * s <= m * s
    BY <1>1, <1>3, <2>1
  <2> DEFINE y == (q + 1) * s  z == m * s
  <2>3. y \in Nat /\ z \in Nat /\ A[L] < y /\ y <= z /\ z <= A[L]
    BY <1>1, <1>3, <2>2
  <2> HIDE DEF y, z
  <2> QED BY <1>2, <2>3
<1>5. A[L] <= m * s
  <2>1. m * s \in Nat
    BY <1>1
  <2> HIDE DEF m
  <2>2. CASE w.id >= L
    BY <1>1, <2>2
  <2>3. CASE m * s > A[L]
    BY <1>2, <2>1, <2>3
  <2> QED BY <1>4, <2>2, <2>3 DEF Ended, m
<1>6. m > 0 => (m - 1) * s < A[L]
  BY <1>1 DEF OnSegments
<1> HIDE DEF m
<1>7. m = CeilDiv(A[L], s)
  BY <1>1, <1>2, <1>5, <1>6, StepsToCover
<1> QED BY <1>1, <1>7 DEF m

\* A turn leads from one state of the loop to another.
LEMMA TurnType ==
  ASSUME NEW A, NEW L, NEW s
  PROVE  Turn(A, L, s) \in [Walks -> Walks]
<1> SUFFICES ASSUME NEW w \in Walks PROVE Turn(A, L, s)[w] \in Walks
  BY DEF Turn
<1>1. PICK i \in Nat, x \in Seq(Nat) : w = [id |-> i, taken |-> x]
  BY DEF Walks
<1> DEFINE u == [id |-> i, taken |-> Append(x, i)]
           v == [id |-> i + 1, taken |-> x]
<1>2. /\ w.id = i /\ w.taken = x
      /\ [w EXCEPT !.taken = Append(x, i)] = u /\ [w EXCEPT !.id = i + 1] = v
  <2>1. w.id = i /\ w.taken = x
    BY <1>1
  <2>2. \A y : [[id |-> i, taken |-> x] EXCEPT !.taken = y] = [id |-> i, taken |-> y]
    OBVIOUS
  <2>3. \A y : [[id |-> i, taken |-> x] EXCEPT !.id = y] = [id |-> y, taken |-> x]
    OBVIOUS
  <2>4. [w EXCEPT !.taken = Append(x, i)] = u
    BY <1>1, <2>2
  <2>5. [w EXCEPT !.id = i + 1] = v
    BY <1>1, <2>3
  <2> QED BY <2>1, <2>4, <2>5
<1>3. Turn(A, L, s)[w] \in {w, u, v}
  BY <1>2 DEF Turn
<1>4. Append(x, i) \in Seq(Nat) /\ i + 1 \in Nat
  OBVIOUS
<1>5. u \in Walks /\ v \in Walks
  BY <1>4 DEF Walks
<1> QED BY <1>3, <1>5

\* The loop from its start to its last turn.
LEMMA WalkIsWalking ==
  ASSUME NEW L \in Nat, NEW A, Rising(A, L), NEW s \in Nat \ {0}, NEW walk,
         walk = CHOOSE f : f = [n \in 0 .. Turns(A, L, s) |->
                                  IF n = 0 THEN Start ELSE Turn(A, L, s)[f[n - 1]]]
  PROVE  Walking(A, L, s, walk[Turns(A, L, s)], Turns(A, L, s))
<1> DEFINE N == Turns(A, L, s)
           turn == Turn(A, L, s)
           step == [q \in Walks \X (1 .. N) |-> turn[q[1]]]
           IsWalk(f) == f = [n \in 0 .. N |-> IF n = 0 THEN Start ELSE turn[f[n - 1]]]
<1>1. N \in Nat
  <2>1. A[L] \in Nat
    BY DEF Rising
  <2>2. A[L] \div s \in Nat
    BY <2>1
  <2> QED BY <2>2 DEF Turns
<1>2. turn \in [Walks -> Walks] /\ Start \in Walks
  <2>1. Start \in Walks
    BY DEF Start, Walks
  <2> QED BY <2>1, TurnType
<1> HIDE DEF N, turn
<1>3. IsLoop(step, N, Walks)
  BY <1>2 DEF IsLoop
<1>4. PICK f : History(f, N, Walks, Start, step)
  <2> HIDE DEF step
  <2> QED BY <1>1, <1>2, <1>3, Recursion
<1>5. ASSUME NEW k \in 1 .. N PROVE f[k] = turn[f[k - 1]]
  <2>1. k - 1 \in 0 .. N
    BY <1>1
  <2>2. f[k - 1] \in Walks /\ f[k] = step[<<f[k - 1], k>>]
    BY <1>4, <2>1 DEF History
  <2> QED BY <2>2
<1>6. IsWalk(f)
  <2>1. f = [k \in 0 .. N |-> f[k]] /\ f[0] = Start
    BY <1>4 DEF History
  <2>2. \A k \in 0 .. N : k = 0 \/ k \in 1 .. N
    BY <1>1
  <2>3. \A k \in 0 .. N : f[k] = IF k = 0 THEN Start ELSE turn[f[k - 1]]
    BY <1>5, <2>1, <2>2
  <2> QED BY <2>1, <2>3
<1>7. IsWalk(walk)
  <2>1. walk = CHOOSE g : IsWalk(g)
    BY DEF N, turn
  <2> HIDE DEF IsWalk
  <2> QED BY <1>6, <2>1
<1> DEFINE T == {k \in Nat : k <= N => Walking(A, L, s, walk[k], k)}
<1>8. 0 \in T
  <2>1. walk[0] = Start
    <3>1. 0 \in 0 .. N
      BY <1>1
    <3> QED BY <1>7, <3>1
  <2>2. Start.id = 0 /\ Start.taken = <<>> /\ Len(Start.taken) = 0 /\ Start \in Walks
    BY <1>2 DEF Start
  <2>3. OnSegments(A, L, s, Start.taken)
    BY <2>2 DEF OnSegments
  <2>4. A[Start.id] <= Len(Start.taken) * s /\ Start.id + Len(Start.taken) = 0
    BY <2>2 DEF Rising
  <2>5. Walking(A, L, s, Start, 0)
    BY <2>2, <2>3, <2>4 DEF Walking
  <2> QED BY <2>1, <2>5
<1>9. ASSUME NEW k \in Nat, k \in T PROVE k + 1 \in T
  <2>1. SUFFICES ASSUME k + 1 <= N PROVE Walking(A, L, s, walk[k + 1], k + 1)
    OBVIOUS
  <2>2. k + 1 \in 0 .. N /\ k + 1 # 0 /\ (k + 1) - 1 = k
    BY <1>1, <2>1
  <2>3. walk[k + 1] = turn[walk[k]]
    BY <1>7, <2>2
  <2>4. Walking(A, L, s, walk[k], k)
    BY <1>1, <1>9, <2>1
  <2>5. Walking(A, L, s, turn[walk[k]], k + 1)
    BY <2>4, TurnGoesOn DEF turn
  <2> QED BY <2>3, <2>5
<1>10. N \in T
  <2> HIDE DEF T
  <2> QED BY <1>1, <1>8, <1>9, Induction
<1> QED BY <1>1, <1>10 DEF N

\* The resampling loop, for any lengths and any step.
LEMMA ResampledIsEven ==
  ASSUME NEW ls \in Seq(Nat), NEW k \in Nat
  PROVE  LET A == [id \in 0 .. Len(ls) |-> ArcLength(ls)[id] * Power(3, k)]
             s == CtrlDist * Power(2, k)
         IN  /\ OnSegments(A, Len(ls), s, Resampled(ls, k))
             /\ Len(Resampled(ls, k)) = CeilDiv(A[Len(ls)], s)
<1> DEFINE L == Len(ls)
           A == [id \in 0 .. Len(ls) |-> ArcLength(ls)[id] * Power(3, k)]
           s == CtrlDist * Power(2, k)
           walk == CHOOSE f : f = [n \in 0 .. Turns(A, L, s) |->
                                     IF n = 0 THEN Start ELSE Turn(A, L, s)[f[n - 1]]]
<1>1. L \in Nat
  OBVIOUS
<1>2. s \in Nat \ {0}
  <2> DEFINE p == Power(2, k)
  <2>1. p \in Nat \ {0}
    BY PowerPositive
  <2> HIDE DEF p
  <2>2. CtrlDist \in Nat \ {0}
    BY ReplanAssumption
  <2>3. CtrlDist * p \in Nat /\ CtrlDist * p # 0
    BY <2>1, <2>2
  <2> QED BY <2>3 DEF p
<1>3. Rising(A, L)
  <2> DEFINE c == Power(3, k)
             arc == ArcLength(ls)
  <2>1. c \in Nat
    BY PowerPositive
  <2>2. /\ arc \in [0 .. L -> Nat] /\ arc[0] = 0
        /\ \A j \in 1 .. L : ls[j] \in Nat /\ arc[j] = arc[j - 1] + ls[j]
    BY ArcGrows
  <2>3. A = [id \in 0 .. L |-> arc[id] * c]
    OBVIOUS
  <2> HIDE DEF c, arc, A, L
  <2>4. A \in [0 .. L -> Nat]
    <3>1. \A j \in 0 .. L : arc[j] * c \in Nat
      BY <2>1, <2>2
    <3> QED BY <2>3, <3>1
  <2>5. A[0] = 0
    BY <1>1, <2>1, <2>2, <2>3
  <2>6. ASSUME NEW j \in 1 .. L PROVE A[j - 1] <= A[j]
    <3>1. j - 1 \in 0 .. L /\ j \in 0 .. L
      BY <1>1
    <3>2. A[j - 1] = arc[j - 1] * c /\ A[j] = (arc[j - 1] + ls[j]) * c
      BY <2>2, <2>3, <3>1
    <3> DEFINE a == arc[j - 1]
               d == ls[j]
    <3>3. a \in Nat /\ d \in Nat
      BY <2>2, <3>1
    <3> HIDE DEF a, d
    <3>4. a * c <= (a + d) * c
      BY <2>1, <3>3
    <3> QED BY <3>2, <3>4 DEF a, d
  <2> QED BY <2>4, <2>5, <2>6 DEF Rising
<1>4. Resampled(ls, k) = walk[Turns(A, L, s)].taken
  BY DEF Resampled, Turn, Turns, Walks, Start
<1> HIDE DEF A, s, L
<1>5. Walking(A, L, s, walk[Turns(A, L, s)], Turns(A, L, s))
  <2> DEFINE w == walk
  <2>1. w = CHOOSE f : f = [n \in 0 .. Turns(A, L, s) |->
                              IF n = 0 THEN Start ELSE Turn(A, L, s)[f[n - 1]]]
    OBVIOUS
  <2> HIDE DEF w
  <2>2. Walking(A, L, s, w[Turns(A, L, s)], Turns(A, L, s))
    BY <1>1, <1>2, <1>3, <2>1, WalkIsWalking
  <2> QED BY <2>2 DEF w
<1> HIDE DEF walk
<1>6. /\ OnSegments(A, L, s, walk[Turns(A, L, s)].taken)
      /\ Len(walk[Turns(A, L, s)].taken) = CeilDiv(A[L], s)
  BY <1>1, <1>2, <1>3, <1>5, WalkTakesAll
<1> QED BY <1>4, <1>6 DEF A, s, L
-----------------------------------------------------------------------------
\* What the resampling loop works on: lengths, and how often the step shrank.
LengthsOK ==
  /\ local_data_ \in [duration : Nat, elapsed : Nat]
  /\ lens \in Seq(Nat) /\ shrinks \in Nat

\* A tuple of lengths is a sequence of them.
LEMMA TupleIsSeq ==
  ASSUME NEW n \in Nat, NEW S, S \subseteq Nat, NEW f \in Seqs(S, n)
  PROVE  f \in Seq(Nat)
<1>1. f \in [1 .. n -> Nat]
  BY DEF Seqs
<1> QED BY <1>1

\* The warm start measures lengths, whatever is left of the old trajectory.
LEMMA WarmPathMeasures ==
  ASSUME LengthsOK, WarmPath
  PROVE  lens' \in Seq(Nat)
<1>1. \A last \in Nat : PolySamples(last) \in Nat
  BY PolySamplesNat
<1>2. OldLengths \subseteq Nat /\ PolyLengths \cup {0} \subseteq Nat
  BY ReplanAssumption
<1>3. Remaining \in Nat
  <2>1. CASE local_data_.elapsed <= local_data_.duration
    BY <2>1, SomethingRemains DEF LengthsOK
  <2>2. CASE ~(local_data_.elapsed <= local_data_.duration)
    BY <2>2 DEF LengthsOK, Remaining
  <2> QED BY <2>1, <2>2
<1>4. CASE Remaining > 0
  <2>1. PICK old \in Seqs(OldLengths, Remaining - 1), last \in 0..LargestOf(Dists) :
          \E new \in Seqs(PolyLengths, PolySamples(last)) : lens' = old \o new
    BY <1>4 DEF WarmPath
  <2>2. PICK new \in Seqs(PolyLengths, PolySamples(last)) : lens' = old \o new
    BY <2>1
  <2>3. old \in Seq(Nat)
    <3>1. Remaining - 1 \in Nat
      BY <1>3, <1>4
    <3> QED BY <1>2, <2>1, <3>1, TupleIsSeq
  <2>4. new \in Seq(Nat)
    <3>1. PolySamples(last) \in Nat
      BY <1>1
    <3>2. PolyLengths \subseteq Nat
      BY <1>2
    <3> QED BY <2>2, <3>1, <3>2, TupleIsSeq
  <2> QED BY <2>2, <2>3, <2>4
<1>5. CASE ~(Remaining > 0)
  <2>1. PICK last \in 0..LargestOf(Dists) : lens' \in Seqs(PolyLengths \cup {0}, PolySamples(last))
    BY <1>5 DEF WarmPath
  <2>2. PolySamples(last) \in Nat
    BY <1>1
  <2> QED BY <1>2, <2>1, <2>2, TupleIsSeq
<1> QED BY <1>4, <1>5

\* Every step keeps the types.
LEMMA LengthsStep == ASSUME LengthsOK, [Next]_vars PROVE LengthsOK'
<1> USE DEF LengthsOK
<1>1. CASE goal_callback \/ ExecTraj \/ StartPlanning
  BY <1>1 DEF goal_callback, ExecTraj, StartPlanning, pathVars
<1>2. CASE callReboundReplan
  BY <1>2 DEF callReboundReplan, pathVars
<1>3. CASE Failed
  BY <1>3 DEF Failed, NoPath
<1>4. CASE InitPath
  BY <1>4 DEF InitPath
<1>5. CASE PolyPath
  <2>1. UNCHANGED <<local_data_, lens>> /\ (Shrink \/ UNCHANGED shrinks)
    BY <1>5 DEF PolyPath
  <2> QED BY <2>1 DEF Shrink
<1>6. CASE WarmPath
  <2>1. UNCHANGED <<local_data_, shrinks>>
    BY <1>6 DEF WarmPath
  <2> QED BY <1>6, <2>1, WarmPathMeasures
<1>7. CASE ResamplePath
  <2>1. /\ UNCHANGED local_data_ /\ lens' \in {lens, <<>>}
        /\ Shrink \/ UNCHANGED shrinks
    BY <1>7 DEF ResamplePath
  <2>2. shrinks' \in Nat
    BY <2>1 DEF Shrink
  <2>3. <<>> \in Seq(Nat)
    OBVIOUS
  <2>4. lens' \in Seq(Nat)
    BY <2>1, <2>3
  <2> QED BY <2>1, <2>2, <2>4
<1>8. CASE Optimise
  <2>1. CASE UNCHANGED <<local_data_, pathVars>>
    BY <2>1 DEF pathVars
  <2>2. CASE NoPath /\ \E d \in Durations : local_data_' = [duration |-> d, elapsed |-> 0]
    BY <2>2, ReplanAssumption DEF NoPath
  <2> QED BY <1>8, <2>1, <2>2 DEF Optimise
<1>9. CASE Clock
  <2>1. local_data_' = [local_data_ EXCEPT !.elapsed = @ + 1] /\ UNCHANGED <<lens, shrinks>>
    BY <1>9 DEF Clock, pathVars
  <2> QED BY <2>1
<1>10. CASE UNCHANGED vars
  BY <1>10 DEF vars, pathVars
<1> QED
  BY <1>1, <1>2, <1>3, <1>4, <1>5, <1>6, <1>7, <1>8, <1>9, <1>10 DEF Next, reboundReplan

\* The points of the warm start lie one step apart from the start of the arc to
\* its end, each on the segment it is interpolated from: for every path, with
\* segments of no length in it, and every step the loop comes to
\* (planner_manager.cpp:181).
THEOREM PointsAreEven == Spec => []SamplesEven
<1>1. Init => LengthsOK
  BY DEF Init, LengthsOK
<1>2. LengthsOK => SamplesEven
  <2> SUFFICES ASSUME LengthsOK PROVE SamplesEven
    OBVIOUS
  <2> DEFINE A == [id \in 0 .. Len(lens) |-> ArcLength(lens)[id] * Power(3, shrinks)]
             s == CtrlDist * Power(2, shrinks)
             taken == Resampled(lens, shrinks)
  <2>1. OnSegments(A, Len(lens), s, taken) /\ Len(taken) = CeilDiv(A[Len(lens)], s)
    BY ResampledIsEven DEF LengthsOK
  <2> HIDE DEF A, s, taken
  <2>2. /\ Len(taken) = CeilDiv(A[Len(lens)], s)
        /\ \A i \in 1 .. Len(taken) :
             A[taken[i]] <= (i - 1) * s /\ (i - 1) * s < A[taken[i] + 1]
    BY <2>1 DEF OnSegments
  <2> QED BY <2>2 DEF SamplesEven, A, s, taken
<1>3. LengthsOK /\ [Next]_vars => LengthsOK'
  BY LengthsStep
<1> QED
  BY <1>1, <1>2, <1>3, PTL DEF Spec
=============================================================================
