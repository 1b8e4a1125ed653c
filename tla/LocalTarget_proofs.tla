------------------------- MODULE LocalTarget_proofs -------------------------
(***************************************************************************)
(* What getLocalTarget hands to the planner, for every line, path and      *)
(* threshold.                                                              *)
(*                                                                         *)
(* The target is that of the present goal at every plan, and no goal is    *)
(* given up before it is reached, because the progress getLocalTarget      *)
(* remembers never gets out of reach (Astray): Chain, the inductive        *)
(* invariant, says where progress, robot, trajectory and goal can be with  *)
(* respect to each other in each state of the machine.  It needs straight  *)
(* paths and the margins of ThresholdsApart.  That a duration is a whole   *)
(* number of steps (exact) is excluded by assumption; the run              *)
(* local_target_exact shows what it leads to.                              *)
(***************************************************************************)
EXTENDS LocalTarget, WellFoundedInduction, TLAPS

\* A set of naturals that is not empty has a least element (WFMin).
LEMMA LeastNatural ==
  ASSUME NEW S, S \subseteq Nat, S # {}
  PROVE  \E x \in S : \A y \in S : x <= y
<1>1. \E x \in S : \A y \in S : ~(<<y, x>> \in OpToRel(<, Nat))
  <2> HIDE DEF OpToRel
  <2> QED
    BY NatLessThanWellFounded, WFMin
<1>2. \A x, y \in S : y < x => <<y, x>> \in OpToRel(<, Nat)
  BY DEF OpToRel
<1>3. PICK x \in S : \A y \in S : ~(y < x)
  BY <1>1, <1>2
<1>4. \A y \in S : x <= y
  BY <1>3
<1> QED
  BY <1>4

\* Min of FiniteSetsExt is that element.
LEMMA MinOfNaturals ==
  ASSUME NEW S, S \subseteq Nat, S # {}
  PROVE  Min(S) \in S /\ \A y \in S : Min(S) <= y
BY LeastNatural DEF Min

\* A distance is a natural number of half cells.
LEMMA DistIsNatural ==
  ASSUME NEW a \in Int, NEW b \in Int
  PROVE  Dist(a, b) \in Nat
BY DEF Dist

\* What the type invariant says of the path and the progress.
LEMMA PathTyped ==
  ASSUME TypeOK
  PROVE  /\ path \in Seq(Line) /\ last_progress_time_ \in 1..Len(path)
         /\ Len(path) \in Nat /\ last_progress_time_ \in Nat
         /\ \A i \in 1..Len(path) : path[i] \in Line
<1>1. path \in Seq(Line) /\ last_progress_time_ \in 1..Len(path)
  BY DEF TypeOK
<1> QED
  BY <1>1

\* The sample taken at the horizon exists and is one of the path.
LEMMA HorizonSample ==
  ASSUME TypeOK, NEW s \in Line, BeyondHorizon(s) # {}
  PROVE  /\ Min(BeyondHorizon(s)) \in BeyondHorizon(s)
         /\ Min(BeyondHorizon(s)) \in last_progress_time_..Len(path)
<1>1. last_progress_time_ \in Nat /\ Len(path) \in Nat
  BY PathTyped
<1>2. BeyondHorizon(s) \subseteq last_progress_time_..Len(path)
  BY DEF BeyondHorizon
<1>3. BeyondHorizon(s) \subseteq Nat
  BY <1>1, <1>2
<1> QED
  BY <1>2, <1>3, MinOfNaturals

\* The nearest of the samples from the progress to k is one of them, and none is nearer.
LEMMA NearestSample ==
  ASSUME TypeOK, NEW s \in Line, NEW k \in last_progress_time_..Len(path)
  PROVE  /\ Nearest(k, s) \in last_progress_time_..k
         /\ \A j \in last_progress_time_..k : Dist(path[Nearest(k, s)], s) <= Dist(path[j], s)
<1> DEFINE I == last_progress_time_..k
           d(i) == Dist(path[i], s)
           D == {d(i) : i \in I}
           N == {i \in I : \A j \in I : d(i) <= d(j)}
<1>1. last_progress_time_ \in 1..Len(path) /\ Len(path) \in Nat /\ k \in Nat
  BY PathTyped
<1>2. \A i \in I : path[i] \in Int /\ i \in Nat
  <2>1. \A i \in I : i \in 1..Len(path) /\ i \in Nat
    BY <1>1
  <2>2. Line \subseteq Int
    BY LocalTargetAssumption
  <2> QED
    BY <2>1, <2>2, PathTyped
<1>3. \A i \in I : d(i) \in Nat
  BY <1>2, DistIsNatural, LocalTargetAssumption
<1>4. last_progress_time_ \in I
  BY <1>1
<1> HIDE DEF d
<1>5. PICK m \in D : \A y \in D : m <= y
  BY <1>3, <1>4, LeastNatural
<1>6. N # {}
  BY <1>5
<1>7. N \subseteq Nat
  BY <1>2
<1>8. Min(N) \in N
  BY <1>6, <1>7, MinOfNaturals
<1>9. Nearest(k, s) = Min(N)
  BY DEF Nearest, d
<1> QED
  BY <1>8, <1>9 DEF d

\* What getLocalTarget writes has its type.
LEMMA TargetTyped ==
  ASSUME TypeOK, NEW s \in Line
  PROVE  TargetFrom(s) \in Line /\ ProgressFrom(s) \in 1..Len(path)
<1>1. last_progress_time_ \in 1..Len(path) /\ Len(path) \in Nat
  BY PathTyped
<1>2. TargetFrom(s) \in Line
  <2>1. CASE BeyondHorizon(s) = {}
    BY <2>1 DEF TargetFrom, TypeOK
  <2>2. CASE BeyondHorizon(s) # {}
    <3>1. path[Min(BeyondHorizon(s))] \in Line
      <4>1. Min(BeyondHorizon(s)) \in 1..Len(path)
        BY <1>1, <2>2, HorizonSample
      <4> QED
        BY <4>1, PathTyped
    <3> QED
      BY <3>1, <2>2 DEF TargetFrom, TypeOK
  <2> QED
    BY <2>1, <2>2
<1>3. ProgressFrom(s) \in 1..Len(path)
  <2>1. CASE Astray(s) \/ BeyondHorizon(s) = {}
    BY <1>1, <2>1 DEF ProgressFrom
  <2>2. CASE ~(Astray(s) \/ BeyondHorizon(s) = {})
    <3>1. Min(BeyondHorizon(s)) \in last_progress_time_..Len(path)
      BY <2>2, HorizonSample
    <3>2. Nearest(Min(BeyondHorizon(s)), s) \in last_progress_time_..Min(BeyondHorizon(s))
      BY <3>1, NearestSample
    <3>3. ProgressFrom(s) = Nearest(Min(BeyondHorizon(s)), s)
      BY <2>2 DEF ProgressFrom
    <3> QED
      BY <1>1, <3>1, <3>2, <3>3
  <2> QED
    BY <2>1, <2>2
<1> QED
  BY <1>2, <1>3

\* A plan from s, found or not, leaves getLocalTarget's variables with their
\* types and raises no goal (callReboundReplan).
LEMMA PlanTyped ==
  ASSUME TypeOK, NEW s \in Line, callReboundReplan(s)
  PROVE  /\ have_target_' \in BOOLEAN /\ have_new_target_' \in BOOLEAN /\ end_pt_' \in Line
         /\ path' \in Seq(Line) /\ exact' \in BOOLEAN /\ last_progress_time_' \in 1..Len(path')
         /\ start_pt_' \in Line /\ local_target_pt_' \in Line
         /\ local_target_vel_' \in {"rest", "along the path"}
<1>1. TargetFrom(s) \in Line /\ ProgressFrom(s) \in 1..Len(path)
  BY TargetTyped
<1>2. /\ start_pt_' = s /\ local_target_pt_' = TargetFrom(s)
      /\ last_progress_time_' = ProgressFrom(s) /\ path' = path /\ exact' = exact
      /\ have_new_target_' = FALSE /\ have_target_' = have_target_ /\ end_pt_' = end_pt_
  BY DEF callReboundReplan, getLocalTarget
<1>3. local_target_vel_' \in {"rest", "along the path"}
  BY DEF callReboundReplan, getLocalTarget, TypeOK
<1> QED
  BY <1>1, <1>2, <1>3 DEF TypeOK
-----------------------------------------------------------------------------
(* The type invariant.                                                     *)

\* A plan that succeeds starts where the robot then is.
LEMMA FoundTyped ==
  ASSUME TypeOK, NEW s \in Line, NEW new_state, PlanFound(s, new_state),
         new_state \in {"ADJUST_POSE", "EXEC_TRAJ"}
  PROVE  TypeOK'
<1>1. callReboundReplan(s)
  BY DEF PlanFound
<1>2. TargetFrom(s) \in Line
  BY TargetTyped
<1>3. local_data_' \in [start : Line, end : Line] /\ pos' \in Line
  BY <1>2 DEF PlanFound
<1>4. late' \in 0..Patience
  BY LocalTargetAssumption DEF PlanFound
<1>5. exec_state_' \in {"WAIT_TARGET", "GEN_NEW_TRAJ", "ADJUST_POSE", "EXEC_TRAJ", "REPLAN_TRAJ"}
  BY DEF PlanFound
<1> QED
  BY <1>1, <1>3, <1>4, <1>5, PlanTyped DEF TypeOK

\* A plan that fails moves nothing but the target.
LEMMA FailedTyped ==
  ASSUME TypeOK, NEW s \in Line, PlanFailed(s)
  PROVE  TypeOK'
<1>1. callReboundReplan(s)
  BY DEF PlanFailed
<1>2. UNCHANGED <<exec_state_, local_data_, pos, late>>
  BY DEF PlanFailed
<1> QED
  BY <1>1, <1>2, PlanTyped DEF TypeOK

\* A goal brings a path of its own and the progress back to its start.
LEMMA GoalTyped ==
  ASSUME TypeOK, NEW g \in Goals, goal_callback(g)
  PROVE  TypeOK'
<1>1. g \in Line
  BY LocalTargetAssumption
<1>2. path' \in Seq(Line) /\ path' # <<>>
  <2>1. PICK o \in Line : path' \in Paths(o, g)
    BY DEF goal_callback, Odom
  <2> QED
    BY <1>1, <2>1, LocalTargetAssumption
<1>3. last_progress_time_' \in 1..Len(path')
  BY <1>2 DEF goal_callback
<1>4. exact' \in BOOLEAN
  BY LocalTargetAssumption DEF goal_callback
<1>5. exec_state_' \in {"WAIT_TARGET", "GEN_NEW_TRAJ", "ADJUST_POSE", "EXEC_TRAJ", "REPLAN_TRAJ"}
  BY DEF goal_callback, TypeOK
<1>6. have_target_' \in BOOLEAN /\ have_new_target_' \in BOOLEAN /\ end_pt_' \in Line
  BY <1>1 DEF goal_callback
<1>7. UNCHANGED <<start_pt_, local_target_pt_, local_target_vel_, local_data_, pos, late>>
  BY DEF goal_callback, targetVars
<1> QED
  BY <1>2, <1>3, <1>4, <1>5, <1>6, <1>7 DEF TypeOK

\* Driving stays on the line: it ends where the local trajectory does.
LEMMA DriveTyped ==
  ASSUME TypeOK, Drive
  PROVE  TypeOK'
<1>1. pos \in Int /\ local_data_.end \in Int /\ pos \in Line /\ local_data_.end \in Line
      /\ pos # local_data_.end
  BY LocalTargetAssumption DEF TypeOK, Drive, RanOut
<1>2. pos' \in pos..local_data_.end \/ pos' \in local_data_.end..pos
  BY <1>1 DEF Drive
<1>3. pos' \in Line
  BY <1>1, <1>2, LocalTargetAssumption
<1>4. late' \in 0..Patience
  <2>1. late \in 0..Patience /\ Patience \in Nat
    BY LocalTargetAssumption DEF TypeOK
  <2>2. late' = late \/ (late < Patience /\ late' = late + 1)
    BY DEF Drive
  <2> QED
    BY <2>1, <2>2
<1>5. UNCHANGED <<exec_state_, have_target_, have_new_target_, end_pt_, path, exact,
                  last_progress_time_, start_pt_, local_target_pt_, local_target_vel_, local_data_>>
  BY DEF Drive, flagVars, globalVars, targetVars
<1> QED
  BY <1>3, <1>4, <1>5 DEF TypeOK

\* Every variable keeps its type, whatever the goals and paths.
THEOREM TargetTypeCorrect == Spec => []TypeOK
<1>1. Init => TypeOK
  <2> SUFFICES ASSUME Init
               PROVE  TypeOK
    OBVIOUS
  <2>1. Home \in Line /\ Patience \in Nat
    BY LocalTargetAssumption
  <2>2. path \in Seq(Line) /\ last_progress_time_ \in 1..Len(path)
    BY <2>1 DEF Init
  <2>3. local_data_ \in [start : Line, end : Line] /\ pos \in Line /\ late \in 0..Patience
    BY <2>1 DEF Init
  <2>4. /\ have_target_ \in BOOLEAN /\ have_new_target_ \in BOOLEAN /\ end_pt_ \in Line
        /\ exact \in BOOLEAN /\ start_pt_ \in Line /\ local_target_pt_ \in Line
    BY <2>1 DEF Init
  <2>5. /\ exec_state_ \in {"WAIT_TARGET", "GEN_NEW_TRAJ", "ADJUST_POSE", "EXEC_TRAJ", "REPLAN_TRAJ"}
        /\ local_target_vel_ \in {"rest", "along the path"}
    BY DEF Init
  <2> QED
    BY <2>2, <2>3, <2>4, <2>5 DEF TypeOK
<1>2. TypeOK /\ [Next]_vars => TypeOK'
  <2> SUFFICES ASSUME TypeOK, [Next]_vars
               PROVE  TypeOK'
    OBVIOUS
  <2>1. \A o \in Odom : o \in Line
    BY DEF Odom
  <2>2. pos \in Line
    BY DEF TypeOK
  <2>3. ASSUME NEW g \in Goals, goal_callback(g)
        PROVE  TypeOK'
    BY <2>3, GoalTyped
  <2>4. CASE GenFound
    BY <2>1, <2>4, FoundTyped DEF GenFound
  <2>5. CASE GenFailed
    BY <2>1, <2>5, FailedTyped DEF GenFailed
  <2>6. CASE AdjustRelease
    BY <2>6 DEF AdjustRelease, TypeOK, flagVars, globalVars, targetVars
  <2>7. CASE ExecFinish
    BY <2>7 DEF ExecFinish, TypeOK, globalVars, targetVars
  <2>8. CASE ExecReplan
    BY <2>8 DEF ExecReplan, TypeOK, flagVars, globalVars, targetVars
  <2>9. CASE ReplanFound
    BY <2>2, <2>9, FoundTyped DEF ReplanFound
  <2>10. CASE ReplanFailed
    BY <2>2, <2>10, FailedTyped DEF ReplanFailed
  <2>11. CASE Drive
    BY <2>11, DriveTyped
  <2>12. CASE UNCHANGED vars
    BY <2>12 DEF vars, TypeOK, flagVars, globalVars, targetVars
  <2> QED
    BY <2>3, <2>4, <2>5, <2>6, <2>7, <2>8, <2>9, <2>10, <2>11, <2>12 DEF Next, execFSMCallback
<1> QED
  BY <1>1, <1>2, PTL DEF Spec

-----------------------------------------------------------------------------
(* The target.                                                             *)

NoExact == ExactDurations = {FALSE}

\* Every step asks for a target, or leaves what the target depends on alone,
\* unless a goal comes or one is finished.
Quiet ==
  /\ UNCHANGED <<end_pt_, path, exact, last_progress_time_, start_pt_, local_target_pt_>>
  /\ have_target_' => have_target_ /\ have_new_target_' = have_new_target_

Planning(s) ==
  /\ \/ exec_state_ = "GEN_NEW_TRAJ" /\ s \in Odom
     \/ exec_state_ = "REPLAN_TRAJ" /\ s = pos
  /\ callReboundReplan(s)

\* The kinds of steps getLocalTarget's properties tell apart.
LEMMA StepKinds ==
  ASSUME TypeOK, [Next]_vars
  PROVE  Quiet \/ (\E s \in Line : Planning(s)) \/ (\E g \in Goals : goal_callback(g))
<1>1. \A o \in Odom : o \in Line
  BY DEF Odom
<1>2. pos \in Line
  BY DEF TypeOK
<1>3. CASE GenFound \/ GenFailed
  BY <1>1, <1>3 DEF GenFound, GenFailed, PlanFound, PlanFailed, Planning
<1>4. CASE ReplanFound \/ ReplanFailed
  BY <1>2, <1>4 DEF ReplanFound, ReplanFailed, PlanFound, PlanFailed, Planning
<1>5. CASE AdjustRelease \/ ExecReplan \/ Drive
  BY <1>5 DEF AdjustRelease, ExecReplan, Drive, Quiet, flagVars, globalVars, targetVars
<1>6. CASE ExecFinish
  BY <1>6 DEF ExecFinish, Quiet, globalVars, targetVars
<1>7. CASE UNCHANGED vars
  BY <1>7 DEF vars, Quiet, flagVars, globalVars, targetVars
<1> QED
  BY <1>3, <1>4, <1>5, <1>6, <1>7 DEF Next, execFSMCallback

\* exact is never set where no duration is a whole number of steps.
LEMMA NeverExact ==
  ASSUME NoExact
  PROVE  Spec => [](exact = FALSE)
<1>1. Init => exact = FALSE
  BY DEF Init
<1>2. TypeOK /\ exact = FALSE /\ [Next]_vars => (exact = FALSE)'
  BY StepKinds DEF NoExact, Quiet, Planning, callReboundReplan, getLocalTarget, goal_callback
<1> QED
  BY <1>1, <1>2, TargetTypeCorrect, PTL DEF Spec

\* TargetOfGoal: while the progress is in reach, the target planned to is that
\* of the present goal, also after any number of goals and failed plans.
LEMMA TargetWhileInReach ==
  ASSUME NoExact
  PROVE  Spec /\ []NeverAstray => []TargetOfGoal
<1>1. Init => TargetOfGoal
  BY DEF Init, TargetOfGoal
<1>2. TypeOK /\ exact = FALSE /\ NeverAstray /\ TargetOfGoal /\ [Next]_vars => TargetOfGoal'
  <2> SUFFICES ASSUME TypeOK, exact = FALSE, NeverAstray, TargetOfGoal, [Next]_vars
               PROVE  TargetOfGoal'
    OBVIOUS
  <2>1. CASE Quiet
    BY <2>1 DEF Quiet, TargetOfGoal
  <2>2. ASSUME NEW g \in Goals, goal_callback(g)
        PROVE  TargetOfGoal'
    BY <2>2 DEF goal_callback, TargetOfGoal
  <2>3. ASSUME NEW s \in Line, Planning(s)
        PROVE  TargetOfGoal'
    <3>1. ~Astray(s)
      BY <2>3 DEF NeverAstray, Planning
    <3>2. /\ start_pt_' = s /\ local_target_pt_' = TargetFrom(s)
          /\ path' = path /\ end_pt_' = end_pt_
      BY <2>3 DEF Planning, callReboundReplan, getLocalTarget
    <3>3. CASE BeyondHorizon(s) = {}
      <4>1. TargetFrom(s) = end_pt_
        BY <3>1, <3>3 DEF TargetFrom
      <4> QED
        BY <3>2, <4>1 DEF TargetOfGoal
    <3>4. CASE BeyondHorizon(s) # {}
      <4> DEFINE k == Min(BeyondHorizon(s))
      <4>1. k \in BeyondHorizon(s) /\ k \in last_progress_time_..Len(path)
        BY <3>4, HorizonSample
      <4>2. k \in DOMAIN path
        BY <4>1, PathTyped
      <4>3. Dist(path[k], s) >= planning_horizen_
        BY <4>1 DEF BeyondHorizon
      <4>4. TargetFrom(s) = path[k]
        BY <3>1, <3>4 DEF TargetFrom
      <4> HIDE DEF k
      <4> QED
        BY <3>2, <4>2, <4>3, <4>4 DEF TargetOfGoal, Dist
    <3> QED
      BY <3>3, <3>4
  <2> QED
    BY <2>1, <2>2, <2>3, StepKinds
<1> QED
  BY <1>1, <1>2, TargetTypeCorrect, NeverExact, PTL DEF Spec

\* LastGlobalPoint: when no sample ahead is a horizon away, the plan goes to
\* the goal, even where the progress is out of reach (which is itself a sample
\* a horizon away).
THEOREM LastPointIsTheGoal ==
  ASSUME NoExact
  PROVE  Spec => []LastGlobalPoint
<1>1. Init => LastGlobalPoint
  BY DEF Init, LastGlobalPoint
<1>2. TypeOK /\ exact = FALSE /\ LastGlobalPoint /\ [Next]_vars => LastGlobalPoint'
  <2> SUFFICES ASSUME TypeOK, exact = FALSE, LastGlobalPoint, [Next]_vars
               PROVE  LastGlobalPoint'
    OBVIOUS
  <2>1. CASE Quiet
    BY <2>1 DEF Quiet, LastGlobalPoint, BeyondHorizon, Dist
  <2>2. ASSUME NEW g \in Goals, goal_callback(g)
        PROVE  LastGlobalPoint'
    BY <2>2 DEF goal_callback, LastGlobalPoint
  <2>3. ASSUME NEW s \in Line, Planning(s)
        PROVE  LastGlobalPoint'
    <3>1. /\ start_pt_' = s /\ local_target_pt_' = TargetFrom(s)
          /\ last_progress_time_' = ProgressFrom(s) /\ path' = path /\ end_pt_' = end_pt_
      BY <2>3 DEF Planning, callReboundReplan, getLocalTarget
    <3>2. ASSUME NEW k \in ProgressFrom(s)..Len(path), Dist(path[k], s) >= planning_horizen_
          PROVE  LastGlobalPoint'
      <4>1. BeyondHorizon(start_pt_)' # {}
        BY <3>1, <3>2 DEF BeyondHorizon, Dist
      <4> QED
        BY <4>1 DEF LastGlobalPoint
    <3>3. CASE Astray(s)
      <4>1. ProgressFrom(s) = last_progress_time_
        BY <3>3 DEF ProgressFrom
      <4>2. Dist(path[last_progress_time_], s) \in Nat
        BY PathTyped, DistIsNatural, LocalTargetAssumption
      <4>3. Dist(path[last_progress_time_], s) >= planning_horizen_
        BY <3>3, <4>2, LocalTargetAssumption DEF Astray
      <4>4. last_progress_time_ \in ProgressFrom(s)..Len(path)
        BY <4>1, PathTyped
      <4> QED
        BY <3>2, <4>3, <4>4
    <3>4. CASE ~Astray(s) /\ BeyondHorizon(s) # {}
      <4> DEFINE k == Min(BeyondHorizon(s))
      <4>1. k \in BeyondHorizon(s) /\ k \in last_progress_time_..Len(path)
        BY <3>4, HorizonSample
      <4>2. ProgressFrom(s) = Nearest(k, s)
        BY <3>4 DEF ProgressFrom
      <4>3. Nearest(k, s) \in last_progress_time_..k
        BY <4>1, NearestSample
      <4>4. Dist(path[k], s) >= planning_horizen_
        BY <4>1 DEF BeyondHorizon
      <4> HIDE DEF k
      <4>5. k \in ProgressFrom(s)..Len(path)
        BY <4>1, <4>2, <4>3, PathTyped
      <4> QED
        BY <3>2, <4>4, <4>5
    <3>5. CASE ~Astray(s) /\ BeyondHorizon(s) = {}
      <4>1. TargetFrom(s) = end_pt_
        BY <3>5 DEF TargetFrom
      <4> QED
        BY <3>1, <4>1 DEF LastGlobalPoint
    <3> QED
      BY <3>3, <3>4, <3>5
  <2> QED
    BY <2>1, <2>2, <2>3, StepKinds
<1> QED
  BY <1>1, <1>2, TargetTypeCorrect, NeverExact, PTL DEF Spec
-----------------------------------------------------------------------------
(* The progress.  Distances in cells, and the paths and thresholds they    *)
(* are measured by.                                                        *)

\* The thresholds in cells.
Horizon == CellsOf(planning_horizen_)
Due == CellsOf(replan_thresh_)
Near == CellsOf(no_replan_thresh_)
Off == Lag \div 2

\* The cells between a and b.
Gap(a, b) == IF a <= b THEN b - a ELSE a - b
Between(x, a, b) == (a <= x /\ x <= b) \/ (b <= x /\ x <= a)

Margins ==
  /\ {Horizon, Due, Near, Off, Patience} \subseteq Nat
  /\ Horizon > 0 /\ Due + 2 * Near + Off + Patience <= Horizon
  /\ Due + Off + 2 * Patience <= Near /\ 2 * Off + Patience <= Near

\* The margins between them, and what the tests of the code say in cells.
LEMMA Units ==
  ASSUME ThresholdsApart
  PROVE  /\ Margins
         /\ \A a, b \in Int :
              /\ Gap(a, b) \in Nat /\ Dist(a, b) = 2 * Gap(a, b)
              /\ Dist(a, b) >= planning_horizen_ <=> Gap(a, b) >= Horizon
              /\ Dist(a, b) >= replan_thresh_ <=> Gap(a, b) >= Due
              /\ Dist(a, b) >= no_replan_thresh_ <=> Gap(a, b) >= Near
              /\ Dist(a, b) <= Lag <=> Gap(a, b) <= Off
              /\ Gap(a, b) < Horizon => ~(Dist(a, b) > planning_horizen_)
<1>1. /\ planning_horizen_ \in Nat /\ replan_thresh_ \in Nat /\ no_replan_thresh_ \in Nat
      /\ Lag \in Nat /\ Patience \in Nat
  BY LocalTargetAssumption
<1>2. \A n \in Nat : CellsOf(n) \in Nat /\ \A d \in Nat : 2 * d >= n <=> d >= CellsOf(n)
  BY DEF CellsOf
<1>3. Off \in Nat /\ \A d \in Nat : 2 * d <= Lag <=> d <= Off
  BY <1>1 DEF Off
<1>4. Horizon \in Nat /\ Due \in Nat /\ Near \in Nat
  BY <1>1, <1>2 DEF Horizon, Due, Near
<1>5. Horizon > 0
  BY <1>1 DEF Horizon, CellsOf, ThresholdsApart
<1>6. Margins
  BY <1>1, <1>3, <1>4, <1>5 DEF Margins, ThresholdsApart, Horizon, Due, Near, Off
<1>7. ASSUME NEW a \in Int, NEW b \in Int
      PROVE  /\ Gap(a, b) \in Nat /\ Dist(a, b) = 2 * Gap(a, b)
             /\ Dist(a, b) >= planning_horizen_ <=> Gap(a, b) >= Horizon
             /\ Dist(a, b) >= replan_thresh_ <=> Gap(a, b) >= Due
             /\ Dist(a, b) >= no_replan_thresh_ <=> Gap(a, b) >= Near
             /\ Dist(a, b) <= Lag <=> Gap(a, b) <= Off
             /\ Gap(a, b) < Horizon => ~(Dist(a, b) > planning_horizen_)
  <2>1. Gap(a, b) \in Nat /\ Dist(a, b) = 2 * Gap(a, b)
    BY DEF Gap, Dist
  <2> DEFINE d == Gap(a, b)
  <2>2. d \in Nat
    BY <2>1
  <2> HIDE DEF d
  <2>3. /\ 2 * d >= planning_horizen_ <=> d >= Horizon
        /\ 2 * d >= replan_thresh_ <=> d >= Due
        /\ 2 * d >= no_replan_thresh_ <=> d >= Near
    BY <1>1, <1>2, <2>2 DEF Horizon, Due, Near
  <2>4. 2 * d <= Lag <=> d <= Off
    BY <1>3, <2>2
  <2>5. d < Horizon => ~(2 * d > planning_horizen_)
    BY <1>1, <1>4, <2>2, <2>3
  <2> QED BY <2>1, <2>2, <2>3, <2>4, <2>5 DEF d
<1> QED BY <1>6, <1>7

\* The samples from a to b are a cell apart at most.
Unbroken(w, a, b) ==
  /\ a \in Nat /\ b \in Nat /\ a <= b
  /\ \A i \in a .. b : w[i] \in Int
  /\ \A i \in a + 1 .. b : w[i] <= w[i - 1] + 1 /\ w[i - 1] <= w[i] + 1

\* They leave out no cell: the first that is not before s, as seen from a, is
\* at s.
LEMMA NoneSkipped ==
  ASSUME NEW w, NEW a, NEW b, Unbroken(w, a, b), NEW s \in Int, Between(s, w[a], w[b])
  PROVE  \E i \in a .. b : w[i] = s
<1> USE DEF Unbroken
<1>1. a \in a .. b /\ b \in a .. b /\ w[a] \in Int /\ w[b] \in Int
  OBVIOUS
<1>2. ASSUME NEW i \in a .. b, i # a
      PROVE  /\ i - 1 \in a .. b /\ i - 1 < i /\ w[i - 1] \in Int /\ w[i] \in Int
             /\ w[i] <= w[i - 1] + 1 /\ w[i - 1] <= w[i] + 1
  <2>1. i - 1 \in a .. b /\ i - 1 < i /\ i \in a + 1 .. b
    BY <1>2
  <2> QED BY <2>1
<1>3. CASE w[a] = s
  BY <1>1, <1>3
<1>4. CASE w[a] < s /\ s <= w[b]
  <2> DEFINE A == {j \in a .. b : s <= w[j]}
  <2>1. A \subseteq Nat /\ b \in A
    BY <1>1, <1>4
  <2>2. PICK i \in A : \A j \in A : i <= j
    <3> HIDE DEF A
    <3> QED BY <2>1, LeastNatural
  <2>3. i \in a .. b /\ i \in Int /\ s <= w[i]
    BY <2>2
  <2>4. i # a
    BY <1>1, <1>4, <2>3
  <2>5. /\ i - 1 \in a .. b /\ i - 1 < i /\ w[i - 1] \in Int /\ w[i] \in Int
        /\ w[i] <= w[i - 1] + 1 /\ w[i - 1] <= w[i] + 1
    BY <1>2, <2>3, <2>4
  <2>6. ~(i <= i - 1)
    BY <2>3
  <2>7. i - 1 \notin A
    BY <2>2, <2>6
  <2>8. ~(s <= w[i - 1])
    BY <2>5, <2>7
  <2>9. w[i] = s
    BY <2>3, <2>5, <2>8
  <2> QED BY <2>3, <2>9
<1>5. CASE w[a] > s /\ s >= w[b]
  <2> DEFINE A == {j \in a .. b : s >= w[j]}
  <2>1. A \subseteq Nat /\ b \in A
    BY <1>1, <1>5
  <2>2. PICK i \in A : \A j \in A : i <= j
    <3> HIDE DEF A
    <3> QED BY <2>1, LeastNatural
  <2>3. i \in a .. b /\ i \in Int /\ s >= w[i]
    BY <2>2
  <2>4. i # a
    BY <1>1, <1>5, <2>3
  <2>5. /\ i - 1 \in a .. b /\ i - 1 < i /\ w[i - 1] \in Int /\ w[i] \in Int
        /\ w[i] <= w[i - 1] + 1 /\ w[i - 1] <= w[i] + 1
    BY <1>2, <2>3, <2>4
  <2>6. ~(i <= i - 1)
    BY <2>3
  <2>7. i - 1 \notin A
    BY <2>2, <2>6
  <2>8. ~(s >= w[i - 1])
    BY <2>5, <2>7
  <2>9. w[i] = s
    BY <2>3, <2>5, <2>8
  <2> QED BY <2>3, <2>9
<1> QED BY <1>1, <1>3, <1>4, <1>5 DEF Between

\* The cell of the progress remembered.
Reached == path[last_progress_time_]

\* What a straight path says of the samples from the progress on.
LEMMA SamplesAhead ==
  ASSUME TypeOK, Straight(path), path[Len(path)] = end_pt_
  PROVE  /\ last_progress_time_ \in Nat /\ Len(path) \in Nat /\ last_progress_time_ <= Len(path)
         /\ \A i \in last_progress_time_ .. Len(path) : path[i] \in Int
         /\ \A i \in last_progress_time_ + 1 .. Len(path) :
              path[i] <= path[i - 1] + 1 /\ path[i - 1] <= path[i] + 1
         /\ \A i, j \in last_progress_time_ .. Len(path) :
              i <= j => Between(path[i], Reached, path[j]) /\ Between(path[j], path[i], end_pt_)
<1> DEFINE a == last_progress_time_
           n == Len(path)
<1>1. a \in Nat /\ n \in Nat /\ a <= n /\ a >= 1
  BY PathTyped
<1>2. \A i \in 1 .. n : path[i] \in Int
  BY PathTyped, LocalTargetAssumption
<1> HIDE DEF a, n
<1>3. \A i \in a .. n : i \in 1 .. n
  BY <1>1
<1>4. ASSUME NEW i \in a + 1 .. n PROVE path[i] <= path[i - 1] + 1 /\ path[i - 1] <= path[i] + 1
  <2>1. i - 1 \in 1 .. (n - 1) /\ i - 1 \in 1 .. n /\ i \in 1 .. n /\ (i - 1) + 1 = i
    BY <1>1
  <2>2. path[i] \in Int /\ path[i - 1] \in Int
    BY <1>2, <2>1
  <2>3. Dist(path[i - 1], path[(i - 1) + 1]) <= 2
    BY <2>1 DEF Straight, n
  <2> QED BY <2>1, <2>2, <2>3 DEF Dist
<1>5. ASSUME NEW i \in a .. n, NEW j \in a .. n, i <= j
      PROVE  Between(path[i], path[a], path[j]) /\ Between(path[j], path[i], path[n])
  <2>1. a \in 1 .. n /\ n \in 1 .. n /\ i \in 1 .. n /\ j \in 1 .. n /\ a <= i /\ i <= j /\ j <= n
    BY <1>1, <1>3, <1>5
  <2>2. CASE \A x, y \in 1 .. n : x <= y => path[x] <= path[y]
    <3>1. path[a] <= path[i] /\ path[i] <= path[j] /\ path[j] <= path[n]
      BY <2>1, <2>2
    <3>2. path[a] \in Int /\ path[i] \in Int /\ path[j] \in Int /\ path[n] \in Int
      BY <1>2, <2>1
    <3> QED BY <3>1, <3>2 DEF Between
  <2>3. CASE \A x, y \in 1 .. n : x <= y => path[x] >= path[y]
    <3>1. path[a] >= path[i] /\ path[i] >= path[j] /\ path[j] >= path[n]
      BY <2>1, <2>3
    <3>2. path[a] \in Int /\ path[i] \in Int /\ path[j] \in Int /\ path[n] \in Int
      BY <1>2, <2>1
    <3> QED BY <3>1, <3>2 DEF Between
  <2> QED BY <2>2, <2>3 DEF Straight, n
<1> QED BY <1>1, <1>2, <1>3, <1>4, <1>5 DEF Reached, a, n

\* Of the cells from a to k on the way to n, k is beyond H from s and a is
\* not, and m is as near as a, and at s if s is among them.
Passing(H, a, k, m, n, s) ==
  /\ {a, k, m, n, s} \subseteq Int /\ H \in Nat
  /\ Gap(k, s) >= H /\ Gap(a, s) < H /\ Gap(m, s) <= Gap(a, s)
  /\ Between(m, a, k) /\ Between(k, a, n) /\ Between(m, a, n) /\ (Between(s, a, k) => m = s)

\* Then k and m are ahead of s.
LEMMA AheadOf ==
  ASSUME NEW H, NEW a, NEW k, NEW m, NEW n, NEW s, Passing(H, a, k, m, n, s)
  PROVE  Between(k, s, n) /\ Between(m, s, n) /\ m \in {a, s}
<1>1. Between(s, a, k) \/ (Between(a, s, k) /\ m = a)
  BY DEF Passing, Gap, Between
<1> QED BY <1>1 DEF Passing, Gap, Between

\* Within a horizon of the progress, either all that is left of the path is
\* near and the plan goes to the goal; or it goes a horizon ahead, and the
\* progress comes up to s unless it is ahead of s already.
LEMMA TargetAhead ==
  ASSUME TypeOK, ThresholdsApart, Straight(path), path[Len(path)] = end_pt_, exact = FALSE,
         NEW s \in Line, Gap(Reached, s) < Horizon
  PROVE  \/ /\ BeyondHorizon(s) = {}
            /\ TargetFrom(s) = end_pt_ /\ ProgressFrom(s) = last_progress_time_
            /\ Gap(end_pt_, s) < Horizon
         \/ /\ BeyondHorizon(s) # {}
            /\ TargetFrom(s) \in Int /\ Gap(s, TargetFrom(s)) >= Horizon
            /\ Between(TargetFrom(s), s, end_pt_)
            /\ Between(path[ProgressFrom(s)], s, end_pt_)
            /\ path[ProgressFrom(s)] \in {Reached, s}
<1> DEFINE a == last_progress_time_
           n == Len(path)
<1>1. /\ a \in Nat /\ n \in Nat /\ a <= n /\ a \in a .. n /\ n \in a .. n
      /\ \A i \in a .. n : path[i] \in Int
      /\ \A i \in a + 1 .. n : path[i] <= path[i - 1] + 1 /\ path[i - 1] <= path[i] + 1
      /\ \A i, j \in a .. n : i <= j => Between(path[i], path[a], path[j]) /\ Between(path[j], path[i], path[n])
  BY SamplesAhead DEF Reached
<1>2. s \in Int /\ path[a] \in Int /\ path[n] \in Int /\ path[n] = end_pt_ /\ path[a] = Reached
  BY <1>1, LocalTargetAssumption DEF Reached
<1>3. ~Astray(s)
  BY <1>2, Units DEF Astray
<1>4. \A k \in a .. n : k \in BeyondHorizon(s) <=> Gap(path[k], s) >= Horizon
  BY <1>1, <1>2, Units DEF BeyondHorizon
<1>5. Horizon \in Nat
  BY Units DEF Margins
<1> HIDE DEF a, n
<1>6. CASE BeyondHorizon(s) = {}
  <2>1. TargetFrom(s) = end_pt_ /\ ProgressFrom(s) = a
    BY <1>3, <1>6 DEF TargetFrom, ProgressFrom, a
  <2>2. ~(Gap(path[n], s) >= Horizon)
    BY <1>1, <1>4, <1>6
  <2>3. Gap(path[n], s) < Horizon
    BY <1>2, <1>5, <2>2 DEF Gap
  <2> QED BY <1>2, <1>6, <2>1, <2>3 DEF a
<1>7. CASE BeyondHorizon(s) # {}
  <2> DEFINE k == Min(BeyondHorizon(s))
             m == Nearest(k, s)
  <2>1. k \in BeyondHorizon(s) /\ k \in a .. n
    BY <1>7, HorizonSample DEF a, n
  <2>2. m \in a .. k /\ \A j \in a .. k : Dist(path[m], s) <= Dist(path[j], s)
    BY <2>1, NearestSample DEF a, n
  <2>3. TargetFrom(s) = path[k] /\ ProgressFrom(s) = m
    BY <1>3, <1>7 DEF TargetFrom, ProgressFrom
  <2> HIDE DEF k, m
  <2>4. /\ m \in a .. n /\ a \in a .. k /\ m <= k /\ a <= m /\ k <= n /\ k \in Nat
        /\ path[k] \in Int /\ path[m] \in Int
    BY <1>1, <2>1, <2>2
  <2>5. Gap(path[k], s) >= Horizon /\ Gap(path[a], s) < Horizon
    BY <1>2, <1>4, <2>1
  <2>6. Between(path[m], path[a], path[k]) /\ Between(path[k], path[a], path[n]) /\ Between(path[m], path[a], path[n])
    BY <1>1, <2>1, <2>4
  <2>7. Gap(path[m], s) <= Gap(path[a], s)
    <3>1. Dist(path[m], s) <= Dist(path[a], s)
      BY <2>2, <2>4
    <3>2. /\ Dist(path[m], s) = 2 * Gap(path[m], s) /\ Gap(path[m], s) \in Nat
          /\ Dist(path[a], s) = 2 * Gap(path[a], s) /\ Gap(path[a], s) \in Nat
      BY <1>2, <2>4, Units
    <3> QED BY <3>1, <3>2
  <2>8. Between(s, path[a], path[k]) => path[m] = s
    <3> SUFFICES ASSUME Between(s, path[a], path[k]) PROVE path[m] = s
      OBVIOUS
    <3>1. \A i \in a .. k : path[i] \in Int
      BY <1>1, <2>4
    <3>2. \A i \in a + 1 .. k : path[i] <= path[i - 1] + 1 /\ path[i - 1] <= path[i] + 1
      BY <1>1, <2>4
    <3>3. a <= k
      BY <1>1, <2>4
    <3>4. PICK i \in a .. k : path[i] = s
      <4>1. Unbroken(path, a, k)
        BY <1>1, <2>4, <3>1, <3>2, <3>3 DEF Unbroken
      <4> QED BY <1>2, <4>1, NoneSkipped
    <3>5. Dist(path[m], s) <= Dist(s, s)
      BY <2>2, <3>4
    <3> QED BY <1>2, <2>4, <3>5 DEF Dist
  <2>10. Between(path[k], s, path[n]) /\ Between(path[m], s, path[n]) /\ path[m] \in {path[a], s}
    <3>1. Passing(Horizon, path[a], path[k], path[m], path[n], s)
      BY <1>2, <1>5, <2>4, <2>5, <2>6, <2>7, <2>8 DEF Passing
    <3> QED BY <3>1, AheadOf
  <2>11. Gap(s, path[k]) = Gap(path[k], s)
    BY <1>2, <2>4 DEF Gap
  <2> QED BY <1>2, <1>7, <2>3, <2>4, <2>5, <2>10, <2>11
<1> QED BY <1>6, <1>7
-----------------------------------------------------------------------------
(* Where the robot can be, at x, on a local trajectory from S to E that was *)
(* planned for the goal G, with the progress at q and t cells driven since  *)
(* a replan was due.                                                        *)

\* The trajectory ends a horizon ahead, on the way to the goal: a replan is due
\* long before.
OnTheWay(q, S, E, G, x, t) ==
  /\ Gap(S, E) >= Horizon /\ Between(E, S, G) /\ Between(x, S, E) /\ Between(q, S, G)
  /\ Gap(q, S) < Horizon \/ Between(q, S, x)
  /\ Gap(S, x) <= Due + t

\* It ends at the goal.
LastLeg(q, S, E, G, x) ==
  /\ E = G /\ Between(x, S, G)
  /\ Gap(q, S) < Horizon /\ Gap(G, S) < Horizon
  /\ Gap(q, G) < Horizon + 2 * Off \/ Gap(q, G) < Horizon + Due + Off + Patience

\* It was planned for the goal before: the present one came during the turn.
OldLeg(q, S, E, G, x) ==
  /\ Gap(q, S) <= Off /\ Between(x, S, E)
  /\ \/ Gap(S, x) <= Due
     \/ Gap(x, G) <= Near /\ Gap(S, G) < Due + Near

\* A replan for a goal that came meanwhile is under way.
Lagging(q, G, x, t) ==
  \/ Gap(q, x) <= Off + Due + t
  \/ Gap(q, x) < Off + Due + 2 * Near + t /\ Gap(q, G) < Horizon

Replanning(q, S, E, G, x, t) ==
  \/ OnTheWay(q, S, E, G, x, t)
  \/ LastLeg(q, S, E, G, x) /\ Gap(x, G) + t >= Near
  \/ Lagging(q, G, x, t)

\* While a replan is tried the progress is within the horizon, and so near the
\* goal, should the goal be within the horizon, that it stays there.
LEMMA ReplanInReach ==
  ASSUME Margins, NEW q \in Int, NEW S \in Int, NEW E \in Int, NEW G \in Int, NEW x \in Int,
         NEW t \in 0 .. Patience, Replanning(q, S, E, G, x, t)
  PROVE  /\ Gap(q, x) < Horizon
         /\ Gap(x, G) < Horizon =>
              Gap(q, G) < Horizon + 2 * Off \/ Gap(q, G) < Horizon + Due + Off + Patience
<1> USE DEF Margins, Gap, Between
<1>1. CASE OnTheWay(q, S, E, G, x, t)
  BY <1>1 DEF OnTheWay
<1>2. CASE LastLeg(q, S, E, G, x) /\ Gap(x, G) + t >= Near
  BY <1>2 DEF LastLeg
<1>3. CASE Lagging(q, G, x, t)
  BY <1>3 DEF Lagging
<1> QED BY <1>1, <1>2, <1>3 DEF Replanning

\* Driving on while no replan is due.
LEMMA DrivenOn ==
  ASSUME Margins, NEW q \in Int, NEW S \in Int, NEW E \in Int, NEW G \in Int, NEW x \in Int,
         x # E, Gap(S, x) < Due \/ Gap(x, G) < Near, NEW y, y = IF x < E THEN x + 1 ELSE x - 1
  PROVE  /\ OnTheWay(q, S, E, G, x, 0) => OnTheWay(q, S, E, G, y, 0)
         /\ LastLeg(q, S, E, G, x) => LastLeg(q, S, E, G, y)
         /\ OldLeg(q, S, E, G, x) => OldLeg(q, S, E, G, y)
<1> USE DEF Margins, Gap, Between
<1>1. ASSUME OnTheWay(q, S, E, G, x, 0) PROVE OnTheWay(q, S, E, G, y, 0)
  BY <1>1 DEF OnTheWay
<1>2. ASSUME LastLeg(q, S, E, G, x) PROVE LastLeg(q, S, E, G, y)
  BY <1>2 DEF LastLeg
<1>3. ASSUME OldLeg(q, S, E, G, x) PROVE OldLeg(q, S, E, G, y)
  BY <1>3 DEF OldLeg
<1> QED BY <1>1, <1>2, <1>3

\* Driving on while a replan fails.
LEMMA DrivenLate ==
  ASSUME Margins, NEW q \in Int, NEW S \in Int, NEW E \in Int, NEW G \in Int, NEW x \in Int,
         NEW t \in Nat, Replanning(q, S, E, G, x, t), x # E, NEW y, y = IF x < E THEN x + 1 ELSE x - 1
  PROVE  Replanning(q, S, E, G, y, t + 1)
<1> USE DEF Margins, Gap, Between
<1>1. CASE OnTheWay(q, S, E, G, x, t)
  <2>1. OnTheWay(q, S, E, G, y, t + 1)
    BY <1>1 DEF OnTheWay
  <2> QED BY <2>1 DEF Replanning
<1>2. CASE LastLeg(q, S, E, G, x) /\ Gap(x, G) + t >= Near
  <2>1. LastLeg(q, S, E, G, y) /\ Gap(y, G) + (t + 1) >= Near
    BY <1>2 DEF LastLeg
  <2> QED BY <2>1 DEF Replanning
<1>3. CASE Lagging(q, G, x, t)
  <2>1. Lagging(q, G, y, t + 1)
    BY <1>3 DEF Lagging
  <2> QED BY <2>1 DEF Replanning
<1> QED BY <1>1, <1>2, <1>3 DEF Replanning

\* A replan is due.
LEMMA DueNow ==
  ASSUME Margins, NEW q \in Int, NEW S \in Int, NEW E \in Int, NEW G \in Int, NEW x \in Int,
         Gap(S, x) >= Due, Gap(x, G) >= Near,
         OnTheWay(q, S, E, G, x, 0) \/ LastLeg(q, S, E, G, x) \/ OldLeg(q, S, E, G, x)
  PROVE  Replanning(q, S, E, G, x, 0)
<1> USE DEF Margins, Gap, Between
<1>1. CASE OldLeg(q, S, E, G, x)
  <2>1. Lagging(q, G, x, 0)
    BY <1>1 DEF OldLeg, Lagging
  <2> QED BY <2>1 DEF Replanning
<1> QED BY <1>1 DEF Replanning

\* The progress comes up to the robot, or waits for it.
Approaching(p, q, S, E, G, x, t) ==
  /\ {q, S, E, G, x} \subseteq Int /\ t \in Nat
  /\ OnTheWay(q, S, E, G, x, t) \/ Lagging(q, G, x, t)
  /\ p \in {q, x} /\ Between(p, x, G)

LEMMA ComesUp ==
  ASSUME Margins, NEW p, NEW q, NEW S, NEW E, NEW G, NEW x, NEW t, Approaching(p, q, S, E, G, x, t)
  PROVE  Replanning(p, S, E, G, x, t)
<1> USE DEF Margins, Gap, Between, Approaching
<1>1. CASE OnTheWay(q, S, E, G, x, t)
  <2>1. OnTheWay(p, S, E, G, x, t)
    BY <1>1 DEF OnTheWay
  <2> QED BY <2>1 DEF Replanning
<1>2. CASE Lagging(q, G, x, t)
  <2>1. Lagging(p, G, x, t)
    BY <1>2 DEF Lagging
  <2> QED BY <2>1 DEF Replanning
<1> QED BY <1>1, <1>2

\* The cells Chain speaks of.
LEMMA CellsTyped ==
  ASSUME TypeOK
  PROVE  /\ Reached \in Int /\ pos \in Int /\ end_pt_ \in Int
         /\ local_data_.start \in Int /\ local_data_.end \in Int
         /\ late \in 0 .. Patience /\ late \in Nat /\ Patience \in Nat
<1>1. Line \subseteq Int /\ Patience \in Nat
  BY LocalTargetAssumption
<1>2. /\ pos \in Line /\ end_pt_ \in Line /\ late \in 0 .. Patience
      /\ local_data_.start \in Line /\ local_data_.end \in Line
  BY DEF TypeOK
<1>3. Reached \in Line
  BY PathTyped DEF Reached
<1>4. late \in Nat
  BY <1>1, <1>2
<1> QED BY <1>1, <1>2, <1>3, <1>4

\* What a plan from s sets out on, from a progress within the horizon.
LEMMA PlannedLeg ==
  ASSUME TypeOK, ThresholdsApart, Straight(path), path[Len(path)] = end_pt_, exact = FALSE,
         NEW s \in Line, Gap(Reached, s) < Horizon,
         Gap(s, end_pt_) < Horizon =>
           \/ Gap(Reached, end_pt_) < Horizon + 2 * Off
           \/ Gap(Reached, end_pt_) < Horizon + Due + Off + Patience
  PROVE  \/ OnTheWay(path[ProgressFrom(s)], s, TargetFrom(s), end_pt_, s, 0)
         \/ LastLeg(path[ProgressFrom(s)], s, TargetFrom(s), end_pt_, s)
<1> DEFINE q == Reached
           p == path[ProgressFrom(s)]
           T == TargetFrom(s)
           G == end_pt_
<1>1. q \in Int /\ s \in Int /\ G \in Int /\ Margins
  BY CellsTyped, Units, LocalTargetAssumption
<1>2. \/ T = G /\ p = q /\ Gap(G, s) < Horizon
      \/ /\ T \in Int /\ Gap(s, T) >= Horizon
         /\ Between(T, s, G) /\ Between(p, s, G) /\ p \in {q, s}
  BY TargetAhead DEF Reached
<1>3. /\ Gap(q, s) < Horizon
      /\ Gap(s, G) < Horizon => Gap(q, G) < Horizon + 2 * Off \/ Gap(q, G) < Horizon + Due + Off + Patience
  OBVIOUS
<1>4. /\ Horizon \in Nat /\ Off \in Nat /\ Due \in Nat /\ Patience \in Nat /\ Horizon > 0
      /\ Gap(s, s) = 0
  BY <1>1 DEF Margins, Gap
<1> HIDE DEF q, p, T, G
<1>5. CASE T = G /\ p = q /\ Gap(G, s) < Horizon
  <2>1. Gap(s, G) < Horizon
    BY <1>1, <1>4, <1>5 DEF Gap
  <2>2. LastLeg(p, s, T, G, s)
    BY <1>1, <1>3, <1>4, <1>5, <2>1 DEF LastLeg, Between
  <2> QED BY <2>2 DEF p, T, G
<1>6. CASE /\ T \in Int /\ Gap(s, T) >= Horizon
           /\ Between(T, s, G) /\ Between(p, s, G) /\ p \in {q, s}
  <2>1. Between(s, s, T)
    BY <1>1, <1>6 DEF Between
  <2>2. Gap(p, s) < Horizon
    BY <1>3, <1>4, <1>6
  <2>3. OnTheWay(p, s, T, G, s, 0)
    BY <1>4, <1>6, <2>1, <2>2 DEF OnTheWay
  <2> QED BY <2>3 DEF p, T, G
<1> QED
  BY <1>2, <1>5, <1>6

\* What an attempt that fails makes of the progress: it waits, or, where the
\* goal is a horizon away, it comes up to s.
LEMMA PlannedProgress ==
  ASSUME TypeOK, ThresholdsApart, Straight(path), path[Len(path)] = end_pt_, exact = FALSE,
         NEW s \in Line, Gap(Reached, s) < Horizon
  PROVE  \/ path[ProgressFrom(s)] = Reached
         \/ /\ path[ProgressFrom(s)] \in {Reached, s} /\ Between(path[ProgressFrom(s)], s, end_pt_)
            /\ Gap(s, end_pt_) >= Horizon
<1>1. Reached \in Int /\ s \in Int /\ end_pt_ \in Int /\ Margins
  BY CellsTyped, Units, LocalTargetAssumption
<1>2. CASE BeyondHorizon(s) = {}
  BY <1>2, TargetAhead DEF Reached
<1>3. CASE BeyondHorizon(s) # {}
  <2> DEFINE T == TargetFrom(s)
  <2>1. /\ T \in Int /\ Gap(s, T) >= Horizon /\ Between(T, s, end_pt_)
        /\ path[ProgressFrom(s)] \in {Reached, s} /\ Between(path[ProgressFrom(s)], s, end_pt_)
    BY <1>3, TargetAhead
  <2> HIDE DEF T
  <2>2. Gap(s, end_pt_) >= Horizon
    <3>1. Horizon \in Nat /\ Horizon > 0
      BY <1>1 DEF Margins
    <3> QED BY <1>1, <2>1, <3>1 DEF Gap, Between
  <2> QED BY <2>1, <2>2
<1> QED BY <1>2, <1>3

\* The inductive invariant: where the progress and the robot are when the
\* target is asked for, and on what kind of trajectory the robot is.
OnLeg ==
  LET S == local_data_.start
      E == local_data_.end IN
  \/ OnTheWay(Reached, S, E, end_pt_, pos, 0)
  \/ LastLeg(Reached, S, E, end_pt_, pos)
  \/ have_new_target_ /\ OldLeg(Reached, S, E, end_pt_, pos)

Chain ==
  /\ Straight(path) /\ path[Len(path)] = end_pt_
  /\ exec_state_ # "REPLAN_TRAJ" => late = 0
  /\ exec_state_ = "GEN_NEW_TRAJ" => Gap(Reached, pos) <= Off
  /\ exec_state_ = "ADJUST_POSE" => pos = local_data_.start
  /\ exec_state_ \in {"ADJUST_POSE", "EXEC_TRAJ"} => OnLeg
  /\ exec_state_ = "REPLAN_TRAJ" =>
       Replanning(Reached, local_data_.start, local_data_.end, end_pt_, pos, late)

\* Wherever the target is asked for, the progress is within the horizon.
LEMMA AskedInReach ==
  ASSUME TypeOK, ThresholdsApart, Chain, NEW s \in Line,
         \/ exec_state_ = "GEN_NEW_TRAJ" /\ s \in Odom
         \/ exec_state_ = "REPLAN_TRAJ" /\ s = pos
  PROVE  /\ Gap(Reached, s) < Horizon
         /\ Gap(s, end_pt_) < Horizon =>
              \/ Gap(Reached, end_pt_) < Horizon + 2 * Off
              \/ Gap(Reached, end_pt_) < Horizon + Due + Off + Patience
<1>1. Margins /\ s \in Int
  BY Units, LocalTargetAssumption
<1>2. CASE exec_state_ = "GEN_NEW_TRAJ" /\ s \in Odom
  <2>1. Dist(s, pos) <= Lag
    BY <1>2 DEF Odom
  <2>2. Gap(s, pos) <= Off
    BY <1>1, <2>1, CellsTyped, Units
  <2>3. Gap(Reached, pos) <= Off
    BY <1>2 DEF Chain
  <2>4. Gap(Reached, s) <= 2 * Off
    BY <1>1, <2>2, <2>3, CellsTyped DEF Margins, Gap
  <2> QED BY <1>1, <2>4, CellsTyped DEF Margins, Gap
<1>3. CASE exec_state_ = "REPLAN_TRAJ" /\ s = pos
  <2>1. Replanning(Reached, local_data_.start, local_data_.end, end_pt_, pos, late)
    BY <1>3 DEF Chain
  <2> QED BY <1>1, <1>3, <2>1, CellsTyped, ReplanInReach
<1> QED BY <1>2, <1>3

\* NeverAstray is what Chain says of the places where the target is asked for.
LEMMA ChainInReach ==
  ASSUME TypeOK, ThresholdsApart, Chain
  PROVE  NeverAstray
<1>1. ASSUME NEW s \in Line, Gap(Reached, s) < Horizon PROVE ~Astray(s)
  <2>1. s \in Int
    BY LocalTargetAssumption
  <2> QED BY <1>1, <2>1, CellsTyped, Units DEF Astray, Reached
<1>2. ASSUME exec_state_ = "GEN_NEW_TRAJ", NEW o \in Odom PROVE ~Astray(o)
  BY <1>1, <1>2, AskedInReach DEF Odom
<1>3. ASSUME exec_state_ = "REPLAN_TRAJ" PROVE ~Astray(pos)
  <2>1. pos \in Line
    BY DEF TypeOK
  <2> QED BY <1>1, <1>3, <2>1, AskedInReach
<1> QED BY <1>2, <1>3 DEF NeverAstray

\* A plan from s within reach of the progress: the robot is at the start of a
\* new trajectory.
LEMMA FoundChain ==
  ASSUME TypeOK, ThresholdsApart, exact = FALSE, Chain, NEW s \in Line,
         NEW new_state \in {"ADJUST_POSE", "EXEC_TRAJ"}, PlanFound(s, new_state),
         \/ exec_state_ = "GEN_NEW_TRAJ" /\ s \in Odom
         \/ exec_state_ = "REPLAN_TRAJ" /\ s = pos
  PROVE  Chain'
<1>1. /\ path' = path /\ last_progress_time_' = ProgressFrom(s) /\ end_pt_' = end_pt_
      /\ local_data_' = [start |-> s, end |-> TargetFrom(s)] /\ pos' = s /\ late' = 0
      /\ exec_state_' = new_state
  BY DEF PlanFound, callReboundReplan, getLocalTarget
<1>2. Straight(path) /\ path[Len(path)] = end_pt_
  BY DEF Chain
<1>3. \/ OnTheWay(path[ProgressFrom(s)], s, TargetFrom(s), end_pt_, s, 0)
      \/ LastLeg(path[ProgressFrom(s)], s, TargetFrom(s), end_pt_, s)
  BY <1>2, AskedInReach, PlannedLeg
<1>4. OnLeg'
  BY <1>1, <1>3 DEF OnLeg, Reached
<1> QED BY <1>1, <1>2, <1>4 DEF Chain

\* A plan that fails from where the robot starts: the progress stays by it.
LEMMA GenFailedChain ==
  ASSUME TypeOK, ThresholdsApart, exact = FALSE, Chain, GenFailed
  PROVE  Chain'
<1>1. PICK o \in Odom : PlanFailed(o)
  BY DEF GenFailed
<1>2. /\ exec_state_ = "GEN_NEW_TRAJ" /\ exec_state_' = "GEN_NEW_TRAJ" /\ path' = path
      /\ last_progress_time_' = ProgressFrom(o) /\ end_pt_' = end_pt_ /\ pos' = pos /\ late' = late
  BY <1>1 DEF GenFailed, PlanFailed, callReboundReplan, getLocalTarget
<1>3. o \in Line /\ Dist(o, pos) <= Lag
  BY DEF Odom
<1>4. o \in Int
  BY <1>3, LocalTargetAssumption
<1>5. Gap(o, pos) <= Off
  BY <1>3, <1>4, CellsTyped, Units
<1>6. Straight(path) /\ path[Len(path)] = end_pt_ /\ Gap(Reached, pos) <= Off /\ late = 0
  BY <1>2 DEF Chain
<1>7. Gap(Reached, o) < Horizon
  BY <1>2, <1>3, AskedInReach
<1>8. path[ProgressFrom(o)] \in {Reached, o}
  BY <1>3, <1>6, <1>7, PlannedProgress
<1>9. Gap(path[ProgressFrom(o)], pos) <= Off
  BY <1>5, <1>6, <1>8
<1> QED BY <1>2, <1>6, <1>9 DEF Chain, Reached

\* A replan that fails under way: the progress comes up to the robot, unless
\* it waits.
LEMMA ReplanFailedChain ==
  ASSUME TypeOK, ThresholdsApart, exact = FALSE, Chain, ReplanFailed
  PROVE  Chain'
<1> DEFINE S == local_data_.start
           E == local_data_.end
           G == end_pt_
           p == path[ProgressFrom(pos)]
<1>1. /\ exec_state_ = "REPLAN_TRAJ" /\ exec_state_' = "REPLAN_TRAJ" /\ path' = path
      /\ last_progress_time_' = ProgressFrom(pos) /\ end_pt_' = end_pt_ /\ pos' = pos /\ late' = late
      /\ local_data_' = local_data_
  BY DEF ReplanFailed, PlanFailed, callReboundReplan, getLocalTarget
<1>2. /\ Straight(path) /\ path[Len(path)] = end_pt_
      /\ Replanning(Reached, S, E, G, pos, late)
  BY <1>1 DEF Chain
<1>3. pos \in Line /\ Margins
  BY Units DEF TypeOK
<1>4. Gap(Reached, pos) < Horizon
  BY <1>1, <1>3, AskedInReach
<1>5. \/ p = Reached
      \/ p \in {Reached, pos} /\ Between(p, pos, G) /\ Gap(pos, G) >= Horizon
  BY <1>2, <1>3, <1>4, PlannedProgress
<1>6. Replanning(p, S, E, G, pos, late)
  <2>1. CASE p = Reached
    BY <1>2, <2>1
  <2>2. CASE p \in {Reached, pos} /\ Between(p, pos, G) /\ Gap(pos, G) >= Horizon
    <3>1. Reached \in Int /\ S \in Int /\ E \in Int /\ G \in Int /\ pos \in Int /\ late \in Nat
      BY CellsTyped
    <3>2. Horizon \in Nat
      BY <1>3 DEF Margins
    <3>3. ~LastLeg(Reached, S, E, G, pos)
      <4> HIDE DEF S, E, G, p
      <4> QED BY <2>2, <3>1, <3>2 DEF LastLeg, Between, Gap
    <3>4. OnTheWay(Reached, S, E, G, pos, late) \/ Lagging(Reached, G, pos, late)
      BY <1>2, <3>3 DEF Replanning
    <3> HIDE DEF S, E, G, p
    <3>5. Approaching(p, Reached, S, E, G, pos, late)
      BY <2>2, <3>1, <3>4 DEF Approaching
    <3> QED BY <1>3, <3>5, ComesUp
  <2> QED BY <1>5, <2>1, <2>2
<1> QED BY <1>1, <1>2, <1>6 DEF Chain, Reached

\* A goal: its path starts where odometry says.
LEMMA GoalChain ==
  ASSUME TypeOK, StraightPaths, ThresholdsApart, Chain, NEW g \in Goals, goal_callback(g)
  PROVE  Chain'
<1>1. PICK o \in Odom : path' \in Paths(o, g)
  BY DEF goal_callback
<1>2. /\ end_pt_' = g /\ have_new_target_' = TRUE /\ last_progress_time_' = 1
      /\ local_data_' = local_data_ /\ pos' = pos /\ late' = late
      /\ exec_state_' = CASE exec_state_ = "WAIT_TARGET" -> "GEN_NEW_TRAJ"
                          [] exec_state_ = "EXEC_TRAJ" -> "REPLAN_TRAJ"
                          [] OTHER -> exec_state_
  BY DEF goal_callback
<1>3. o \in Line /\ Dist(o, pos) <= Lag /\ g \in Line /\ o \in Int /\ g \in Int
  BY LocalTargetAssumption DEF Odom
<1>4. Straight(path') /\ path'[1] = o /\ path'[Len(path')] = g
  BY <1>1, <1>3 DEF StraightPaths
<1>5. Reached' = o
  BY <1>2, <1>4 DEF Reached
<1>6. Gap(o, pos) <= Off
  BY <1>3, CellsTyped, Units
<1>7. /\ Margins /\ pos \in Int /\ late \in Nat /\ local_data_.start \in Int /\ local_data_.end \in Int
  BY CellsTyped, Units
<1>8. exec_state_' # "REPLAN_TRAJ" => late' = 0
  BY <1>2 DEF Chain, TypeOK
<1>9. exec_state_' = "GEN_NEW_TRAJ" => Gap(o, pos) <= Off
  BY <1>6
<1>10. exec_state_' = "ADJUST_POSE" => exec_state_ = "ADJUST_POSE" /\ pos' = local_data_'.start
  BY <1>2 DEF Chain, TypeOK
<1>11. exec_state_' # "EXEC_TRAJ"
  BY <1>2 DEF TypeOK
<1>12. exec_state_' = "ADJUST_POSE" => OldLeg(o, local_data_.start, local_data_.end, g, pos)
  <2> SUFFICES ASSUME pos = local_data_.start
               PROVE  OldLeg(o, local_data_.start, local_data_.end, g, pos)
    BY <1>2, <1>10
  <2>1. Gap(pos, pos) = 0 /\ Between(pos, pos, local_data_.end) /\ Due \in Nat
    BY <1>7 DEF Gap, Between, Margins
  <2> QED BY <1>6, <2>1 DEF OldLeg
<1>13. Replanning(o, local_data_.start, local_data_.end, g, pos, late)
  <2>1. Gap(o, pos) \in Nat /\ Off \in Nat /\ Due \in Nat
    BY <1>3, <1>7, Units DEF Margins
  <2>2. Gap(o, pos) <= Off + Due + late
    BY <1>6, <1>7, <2>1
  <2> QED BY <2>2 DEF Replanning, Lagging
<1>14. exec_state_' \in {"ADJUST_POSE", "EXEC_TRAJ"} => OnLeg'
  BY <1>2, <1>5, <1>11, <1>12 DEF OnLeg
<1> QED BY <1>2, <1>4, <1>5, <1>8, <1>9, <1>10, <1>13, <1>14 DEF Chain

\* A cell driven while the trajectory is supervised.
LEMMA SupervisedChain ==
  ASSUME TypeOK, ThresholdsApart, Chain, Drive, exec_state_ = "EXEC_TRAJ"
  PROVE  Chain'
<1> DEFINE S == local_data_.start
           E == local_data_.end
           G == end_pt_
           q == Reached
           y == IF pos < E THEN pos + 1 ELSE pos - 1
<1>1. /\ UNCHANGED <<exec_state_, have_new_target_, end_pt_, path, last_progress_time_, local_data_, late>>
      /\ pos' = y /\ pos # E /\ ~ReplanDue
  BY DEF Drive, RanOut, flagVars, globalVars
<1>2. q \in Int /\ S \in Int /\ E \in Int /\ G \in Int /\ pos \in Int /\ Margins
  BY CellsTyped, Units
<1>3. Gap(S, pos) < Due \/ Gap(pos, G) < Near
  <2>1. ~(Dist(G, pos) >= no_replan_thresh_ /\ Dist(S, pos) >= replan_thresh_)
    BY <1>1 DEF ReplanDue, RanOut
  <2>2. ~(Gap(G, pos) >= Near /\ Gap(S, pos) >= Due)
    BY <1>2, <2>1, Units
  <2>3. Near \in Nat /\ Due \in Nat /\ Gap(G, pos) = Gap(pos, G) /\ Gap(pos, G) \in Nat /\ Gap(S, pos) \in Nat
    BY <1>2 DEF Margins, Gap
  <2> QED BY <2>2, <2>3
<1>4. y = IF pos < E THEN pos + 1 ELSE pos - 1
  OBVIOUS
<1>5. OnLeg
  BY DEF Chain
<1> HIDE DEF y
<1>6. y \in Int
  BY <1>2, <1>4
<1>7. /\ OnTheWay(q, S, E, G, pos, 0) => OnTheWay(q, S, E, G, y, 0)
      /\ LastLeg(q, S, E, G, pos) => LastLeg(q, S, E, G, y)
      /\ OldLeg(q, S, E, G, pos) => OldLeg(q, S, E, G, y)
  <2> HIDE DEF q, S, E, G
  <2> QED BY <1>1, <1>2, <1>3, <1>4, DrivenOn
<1>8. OnLeg'
  BY <1>1, <1>5, <1>7 DEF OnLeg, Reached
<1>9. Straight(path) /\ path[Len(path)] = end_pt_ /\ late = 0
  BY DEF Chain
<1> QED BY <1>1, <1>8, <1>9 DEF Chain

\* A cell driven while a replan fails.
LEMMA UnsupervisedChain ==
  ASSUME TypeOK, ThresholdsApart, Chain, Drive, exec_state_ = "REPLAN_TRAJ"
  PROVE  Chain'
<1> DEFINE S == local_data_.start
           E == local_data_.end
           G == end_pt_
           q == Reached
           y == IF pos < E THEN pos + 1 ELSE pos - 1
<1>1. /\ UNCHANGED <<exec_state_, end_pt_, path, last_progress_time_, local_data_>>
      /\ pos' = y /\ pos # E /\ late' = late + 1
  BY DEF Drive, RanOut, flagVars, globalVars
<1>2. q \in Int /\ S \in Int /\ E \in Int /\ G \in Int /\ pos \in Int /\ late \in Nat /\ Margins
  BY CellsTyped, Units
<1>3. Replanning(q, S, E, G, pos, late)
  BY DEF Chain
<1>4. y = IF pos < E THEN pos + 1 ELSE pos - 1
  OBVIOUS
<1> HIDE DEF y
<1>5. Replanning(q, S, E, G, y, late + 1)
  <2> HIDE DEF q, S, E, G
  <2> QED BY <1>1, <1>2, <1>3, <1>4, DrivenLate
<1>6. Straight(path) /\ path[Len(path)] = end_pt_
  BY DEF Chain
<1> QED BY <1>1, <1>5, <1>6 DEF Chain, Reached

\* A replan becomes due.
LEMMA DueChain ==
  ASSUME TypeOK, ThresholdsApart, Chain, ExecReplan
  PROVE  Chain'
<1> DEFINE S == local_data_.start
           E == local_data_.end
           G == end_pt_
           q == Reached
<1>1. /\ UNCHANGED <<end_pt_, path, last_progress_time_, local_data_, pos, late>>
      /\ exec_state_ = "EXEC_TRAJ" /\ exec_state_' = "REPLAN_TRAJ"
  BY DEF ExecReplan, flagVars, globalVars
<1>2. q \in Int /\ S \in Int /\ E \in Int /\ G \in Int /\ pos \in Int /\ Margins
  BY CellsTyped, Units
<1>3. Gap(S, pos) >= Due /\ Gap(pos, G) >= Near
  <2>1. Dist(G, pos) >= no_replan_thresh_ /\ Dist(S, pos) >= replan_thresh_
    BY DEF ExecReplan, ReplanDue
  <2>2. Gap(G, pos) >= Near /\ Gap(S, pos) >= Due
    BY <1>2, <2>1, Units
  <2>3. Gap(G, pos) = Gap(pos, G)
    BY <1>2 DEF Gap
  <2> QED BY <2>2, <2>3
<1>4. OnTheWay(q, S, E, G, pos, 0) \/ LastLeg(q, S, E, G, pos) \/ OldLeg(q, S, E, G, pos)
  BY <1>1 DEF Chain, OnLeg
<1>5. Replanning(q, S, E, G, pos, 0)
  <2> HIDE DEF q, S, E, G
  <2> QED BY <1>2, <1>3, <1>4, DueNow
<1>6. Straight(path) /\ path[Len(path)] = end_pt_ /\ late = 0
  BY <1>1 DEF Chain
<1> QED BY <1>1, <1>5, <1>6 DEF Chain, Reached

\* Chain is inductive.
LEMMA ChainHeld ==
  ASSUME NoExact, StraightPaths, ThresholdsApart
  PROVE  Spec => []Chain
<1>1. Init => Chain
  <2> SUFFICES ASSUME Init PROVE Chain
    OBVIOUS
  <2>1. path = <<Home>> /\ Len(path) = 1 /\ end_pt_ = Home /\ late = 0 /\ exec_state_ = "WAIT_TARGET"
    BY DEF Init
  <2>2. Home \in Int
    BY LocalTargetAssumption
  <2>3. Straight(path)
    BY <2>1, <2>2 DEF Straight
  <2> QED BY <2>1, <2>3 DEF Chain
<1>2. TypeOK /\ exact = FALSE /\ Chain /\ [Next]_vars => Chain'
  <2> SUFFICES ASSUME TypeOK, exact = FALSE, Chain, [Next]_vars PROVE Chain'
    OBVIOUS
  <2>1. ASSUME NEW g \in Goals, goal_callback(g) PROVE Chain'
    BY <2>1, GoalChain
  <2>2. CASE GenFound
    <3>1. PICK o \in Odom, next \in {"ADJUST_POSE", "EXEC_TRAJ"} : PlanFound(o, next)
      BY <2>2 DEF GenFound
    <3>2. o \in Line /\ exec_state_ = "GEN_NEW_TRAJ"
      BY <2>2 DEF GenFound, Odom
    <3> QED BY <3>1, <3>2, FoundChain
  <2>3. CASE GenFailed
    BY <2>3, GenFailedChain
  <2>4. CASE AdjustRelease
    BY <2>4 DEF AdjustRelease, Chain, OnLeg, Reached, flagVars, globalVars
  <2>5. CASE ExecFinish
    BY <2>5 DEF ExecFinish, Chain, globalVars
  <2>6. CASE ExecReplan
    BY <2>6, DueChain
  <2>7. CASE ReplanFound
    <3>1. pos \in Line /\ exec_state_ = "REPLAN_TRAJ" /\ PlanFound(pos, "EXEC_TRAJ")
      BY <2>7 DEF ReplanFound, TypeOK
    <3> QED BY <3>1, FoundChain
  <2>8. CASE ReplanFailed
    BY <2>8, ReplanFailedChain
  <2>9. CASE Drive
    BY <2>9, SupervisedChain, UnsupervisedChain DEF Drive
  <2>10. CASE UNCHANGED vars
    BY <2>10 DEF vars, Chain, OnLeg, Reached, flagVars, globalVars
  <2> QED
    BY <2>1, <2>2, <2>3, <2>4, <2>5, <2>6, <2>7, <2>8, <2>9, <2>10 DEF Next, execFSMCallback
<1> QED
  BY <1>1, <1>2, TargetTypeCorrect, NeverExact, PTL DEF Spec

\* NeverAstray: whatever goals come and however often a replan fails, the
\* progress getLocalTarget remembers is within the horizon whenever it is
\* asked, if the paths are straight and the thresholds leave their margins.
THEOREM ProgressInReach ==
  ASSUME NoExact, StraightPaths, ThresholdsApart
  PROVE  Spec => []NeverAstray
<1>1. TypeOK /\ Chain => NeverAstray
  BY ChainInReach
<1> QED
  BY <1>1, TargetTypeCorrect, ChainHeld, PTL

\* FinishedAtGoal: a trajectory is driven to its end only if it ends at the
\* goal it was planned for, so no goal is given up halfway.
THEOREM GoalsGivenUpWhereTheyLie ==
  ASSUME NoExact, StraightPaths, ThresholdsApart
  PROVE  Spec => FinishedAtGoal
<1> DEFINE Given == have_target_ /\ ~have_target_' => pos = end_pt_ \/ have_new_target_
<1>1. TypeOK /\ Chain /\ [Next]_vars => Given
  <2> SUFFICES ASSUME TypeOK, Chain, [Next]_vars, have_target_, ~have_target_', ~have_new_target_
               PROVE  pos = end_pt_
    OBVIOUS
  <2>1. ExecFinish
    <3>1. ASSUME NEW s \in Line, Planning(s) PROVE FALSE
      BY <3>1 DEF Planning, callReboundReplan
    <3>2. ASSUME NEW g \in Goals, goal_callback(g) PROVE FALSE
      BY <3>2 DEF goal_callback
    <3>3. \A o \in Odom : o \in Line
      BY DEF Odom
    <3>4. pos \in Line
      BY DEF TypeOK
    <3>5. ~GenFound /\ ~GenFailed /\ ~ReplanFound /\ ~ReplanFailed
      BY <3>1, <3>3, <3>4 DEF GenFound, GenFailed, ReplanFound, ReplanFailed, PlanFound, PlanFailed, Planning
    <3>6. ~AdjustRelease /\ ~ExecReplan /\ ~Drive /\ ~(UNCHANGED vars)
      BY DEF AdjustRelease, ExecReplan, Drive, vars, flagVars
    <3> QED BY <3>2, <3>5, <3>6 DEF Next, execFSMCallback
  <2>2. pos = local_data_.end /\ OnLeg
    BY <2>1 DEF ExecFinish, RanOut, Chain
  <2>3. ~OnTheWay(Reached, local_data_.start, local_data_.end, end_pt_, pos, 0)
    <3>1. /\ Due \in Nat /\ Near \in Nat /\ Off \in Nat /\ Patience \in Nat /\ Horizon \in Nat
          /\ Horizon > 0 /\ Due + 2 * Near + Off + Patience <= Horizon /\ Due + Off + 2 * Patience <= Near
      BY Units DEF Margins
    <3>2. Due < Horizon
      BY <3>1
    <3>3. Gap(local_data_.start, pos) \in Nat
      BY CellsTyped, Units
    <3> QED BY <2>2, <3>1, <3>2, <3>3 DEF OnTheWay
  <2> QED BY <2>2, <2>3 DEF OnLeg, LastLeg
<1>2. TypeOK /\ Chain /\ [Next]_vars => [Given]_vars
  BY <1>1
<1> QED
  BY <1>2, TargetTypeCorrect, ChainHeld, PTL DEF Spec, FinishedAtGoal

\* TargetOfGoal: the target planned to is that of the present goal, also after
\* any number of goals and failed plans.
THEOREM TargetIsOfGoal ==
  ASSUME NoExact, StraightPaths, ThresholdsApart
  PROVE  Spec => []TargetOfGoal
BY ProgressInReach, TargetWhileInReach, PTL
=============================================================================
