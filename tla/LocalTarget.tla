---------------------------- MODULE LocalTarget ----------------------------
(***************************************************************************)
(* Where the planner plans to: getLocalTarget over the global trajectory,  *)
(* the progress it remembers, and the tests of EXEC_TRAJ that decide when  *)
(* it is asked again.                                                      *)
(*                                                                         *)
(* Positions are cells of a line.  The global trajectory is the sequence   *)
(* of its samples, one for each t_step of getLocalTarget, so a time of the *)
(* code is an index here and last_progress_time_ the index it was reached  *)
(* with.  Whether the duration is a whole number of steps is a choice of   *)
(* its own, exact.  The robot is where its local trajectory puts it, and   *)
(* odometry reports it up to Lag away.  The final alignment is part of     *)
(* WAIT_TARGET; the turn before a trajectory is ADJUST_POSE.               *)
(***************************************************************************)
EXTENDS Integers, Sequences, FiniteSetsExt

CONSTANTS
  Line,               \* the cells
  Goals,              \* the goals a user may send
  Home,               \* where the robot starts
  Paths(_, _),        \* the global trajectories planGlobalTraj may give between two cells
  ExactDurations,     \* the values exact may have
  planning_horizen_, replan_thresh_, no_replan_thresh_,
  Close,              \* 0.2 m: a nearer target is refused
  BrakeDistance,      \* max_vel^2 / (2 max_acc)
  Lag,
  Patience            \* the cells the robot moves at most while a replan fails

\* Distances count half cells: a threshold that is odd lies between two cells.
Dist(a, b) == 2 * (IF a <= b THEN b - a ELSE a - b)

ASSUME LocalTargetAssumption ==
  /\ Line \subseteq Int /\ Goals \subseteq Line /\ Home \in Line
  /\ \A a, b \in Line : a..b \subseteq Line
  /\ \A a, b \in Line : Paths(a, b) \subseteq Seq(Line) \ {<<>>}
  /\ ExactDurations \subseteq BOOLEAN
  /\ planning_horizen_ \in Nat /\ replan_thresh_ \in Nat /\ no_replan_thresh_ \in Nat
  /\ Close \in Nat /\ BrakeDistance \in Nat /\ Lag \in Nat /\ Patience \in Nat

VARIABLES
  exec_state_, have_target_, have_new_target_, end_pt_,
  path, exact, last_progress_time_,  \* global_data_
  start_pt_, local_target_pt_, local_target_vel_,
  local_data_,                       \* start_pos_ and the end of the local trajectory
  pos,                               \* where the local trajectory puts the robot
  late                               \* cells moved since a replan was due

globalVars == <<path, exact, last_progress_time_>>
targetVars == <<start_pt_, local_target_pt_, local_target_vel_>>
flagVars == <<have_target_, have_new_target_, end_pt_>>
vars == <<exec_state_, flagVars, globalVars, targetVars, local_data_, pos, late>>

TypeOK ==
  /\ exec_state_ \in {"WAIT_TARGET", "GEN_NEW_TRAJ", "ADJUST_POSE", "EXEC_TRAJ", "REPLAN_TRAJ"}
  /\ have_target_ \in BOOLEAN /\ have_new_target_ \in BOOLEAN /\ end_pt_ \in Line
  /\ path \in Seq(Line) /\ exact \in BOOLEAN /\ last_progress_time_ \in 1..Len(path)
  /\ start_pt_ \in Line /\ local_target_pt_ \in Line
  /\ local_target_vel_ \in {"rest", "along the path"}
  /\ local_data_ \in [start : Line, end : Line] /\ pos \in Line /\ late \in 0..Patience

\* what odometry may say of a robot at pos
Odom == {o \in Line : Dist(o, pos) <= Lag}

\* local_target_pt_ is written by nobody before the first getLocalTarget.  The
\* path of one cell stands for a global trajectory that was never planned.
Init ==
  /\ exec_state_ = "WAIT_TARGET"
  /\ have_target_ = FALSE /\ have_new_target_ \in BOOLEAN /\ end_pt_ = Home
  /\ path = <<Home>> /\ exact = FALSE /\ last_progress_time_ = 1
  /\ start_pt_ = Home /\ local_target_pt_ \in Line /\ local_target_vel_ = "rest"
  /\ local_data_ = [start |-> Home, end |-> Home]
  /\ pos = Home /\ late = 0

-----------------------------------------------------------------------------
(* getLocalTarget.                                                         *)

\* of the samples from the progress to k, the first that is nearest to s
Nearest(k, s) ==
  Min({i \in last_progress_time_..k :
         \A j \in last_progress_time_..k : Dist(path[i], s) <= Dist(path[j], s)})

\* the samples ahead that are a horizon or more away from s
BeyondHorizon(s) ==
  {k \in last_progress_time_..Len(path) : Dist(path[k], s) >= planning_horizen_}

\* "last_progress_time_ ERROR"
Astray(s) == Dist(path[last_progress_time_], s) > planning_horizen_

\* Mutant: the loop stops at the horizon without taking the sample.
TargetFrom_Untaken(s) ==
  IF Astray(s) \/ exact \/ BeyondHorizon(s) # {} THEN local_target_pt_ ELSE end_pt_

\* Mutant: nobody handles a loop that has run out.
TargetFrom_NoLast(s) ==
  IF Astray(s) \/ BeyondHorizon(s) = {} THEN local_target_pt_
                                       ELSE path[Min(BeyondHorizon(s))]

\* The sample at the horizon; or, when the loop has run out, the goal if t is
\* beyond the duration, and what was there before if t is exactly at it.
TargetFrom(s) ==
  CASE Astray(s) -> local_target_pt_
    [] ~Astray(s) /\ BeyondHorizon(s) # {} -> path[Min(BeyondHorizon(s))]
    [] OTHER -> IF exact THEN local_target_pt_ ELSE end_pt_

\* Mutant: the time of the target, not of the nearest sample, is remembered.
ProgressFrom_Ahead(s) ==
  IF Astray(s) \/ BeyondHorizon(s) = {} THEN last_progress_time_ ELSE Min(BeyondHorizon(s))

\* The progress moves with a target at the horizon, and only then.
ProgressFrom(s) ==
  IF Astray(s) \/ BeyondHorizon(s) = {} THEN last_progress_time_
                                       ELSE Nearest(Min(BeyondHorizon(s)), s)

getLocalTarget(s) ==
  /\ start_pt_' = s
  /\ local_target_pt_' = TargetFrom(s)
  /\ last_progress_time_' = ProgressFrom(s)
  /\ local_target_vel_' = CASE Astray(s) -> local_target_vel_
                            [] ~Astray(s) /\ Dist(end_pt_, TargetFrom(s)) < BrakeDistance -> "rest"
                            [] OTHER -> "along the path"
  /\ UNCHANGED <<path, exact>>

-----------------------------------------------------------------------------
(* The callbacks.                                                          *)

\* A goal is taken in any state; only WAIT_TARGET and EXEC_TRAJ react at once.
goal_callback(g) ==
  /\ end_pt_' = g /\ have_target_' = TRUE /\ have_new_target_' = TRUE
  /\ \E o \in Odom : path' \in Paths(o, g)
  /\ exact' \in ExactDurations
  /\ last_progress_time_' = 1
  /\ exec_state_' = CASE exec_state_ = "WAIT_TARGET" -> "GEN_NEW_TRAJ"
                      [] exec_state_ = "EXEC_TRAJ" -> "REPLAN_TRAJ"
                      [] OTHER -> exec_state_
  /\ UNCHANGED <<targetVars, local_data_, pos, late>>

\* callReboundReplan from s; a target close to s is refused, any other plan
\* may fail as well.
callReboundReplan(s) ==
  /\ getLocalTarget(s)
  /\ have_new_target_' = FALSE
  /\ UNCHANGED <<have_target_, end_pt_>>

PlanFailed(s) ==
  /\ callReboundReplan(s)
  /\ UNCHANGED <<exec_state_, local_data_, pos, late>>

PlanFound(s, new_state) ==
  /\ callReboundReplan(s)
  /\ Dist(s, TargetFrom(s)) >= Close
  /\ local_data_' = [start |-> s, end |-> TargetFrom(s)]
  /\ pos' = s /\ late' = 0
  /\ exec_state_' = new_state

\* From rest the plan starts where odometry says; the heading decides whether
\* the robot turns first.
GenFound ==
  /\ exec_state_ = "GEN_NEW_TRAJ"
  /\ \E o \in Odom, next \in {"ADJUST_POSE", "EXEC_TRAJ"} : PlanFound(o, next)

GenFailed == exec_state_ = "GEN_NEW_TRAJ" /\ \E o \in Odom : PlanFailed(o)

\* planFromCurrentTraj starts where the local trajectory is now, or ended.
ReplanFound == exec_state_ = "REPLAN_TRAJ" /\ PlanFound(pos, "EXEC_TRAJ")

ReplanFailed == exec_state_ = "REPLAN_TRAJ" /\ PlanFailed(pos)

AdjustRelease ==
  /\ exec_state_ = "ADJUST_POSE" /\ exec_state_' = "EXEC_TRAJ"
  /\ UNCHANGED <<flagVars, globalVars, targetVars, local_data_, pos, late>>

RanOut == pos = local_data_.end

ExecFinish ==
  /\ exec_state_ = "EXEC_TRAJ" /\ RanOut
  /\ have_target_' = FALSE
  /\ exec_state_' = "WAIT_TARGET"
  /\ UNCHANGED <<have_new_target_, end_pt_, globalVars, targetVars, local_data_, pos, late>>

\* Mutant: the goal counts as near as soon as it is within the horizon.
ReplanDue_Horizon ==
  /\ ~RanOut
  /\ Dist(end_pt_, pos) >= planning_horizen_
  /\ Dist(local_data_.start, pos) >= replan_thresh_

\* Neither near the goal nor near the start of the trajectory.
ReplanDue ==
  /\ ~RanOut
  /\ Dist(end_pt_, pos) >= no_replan_thresh_
  /\ Dist(local_data_.start, pos) >= replan_thresh_

ExecReplan ==
  /\ exec_state_ = "EXEC_TRAJ" /\ ReplanDue
  /\ exec_state_' = "REPLAN_TRAJ"
  /\ UNCHANGED <<flagVars, globalVars, targetVars, local_data_, pos, late>>

execFSMCallback ==
  \/ GenFound \/ GenFailed \/ AdjustRelease
  \/ ExecFinish \/ ExecReplan \/ ReplanFound \/ ReplanFailed

\* The robot drives on along the trajectory while the node supervises it or
\* tries to replan.  The timer ticks many times per cell, so in EXEC_TRAJ each
\* cell is seen before the next.
Drive ==
  /\ ~RanOut
  /\ \/ exec_state_ = "EXEC_TRAJ" /\ ~ReplanDue /\ UNCHANGED late
     \/ exec_state_ = "REPLAN_TRAJ" /\ late < Patience /\ late' = late + 1
  /\ pos' = IF pos < local_data_.end THEN pos + 1 ELSE pos - 1
  /\ UNCHANGED <<exec_state_, flagVars, globalVars, targetVars, local_data_>>

Next == (\E g \in Goals : goal_callback(g)) \/ execFSMCallback \/ Drive

Spec == Init /\ [][Next]_vars

\* An attempt that is not refused outright.
Plannable ==
  \/ exec_state_ = "GEN_NEW_TRAJ" /\ \E o \in Odom : Dist(o, TargetFrom(o)) >= Close
  \/ exec_state_ = "REPLAN_TRAJ" /\ Dist(pos, TargetFrom(pos)) >= Close

\* The timer runs for ever, the base follows the trajectory, and a plan that is
\* tried again and again is found at last unless it is refused: the last is
\* strong fairness of PlanFound, with ENABLED written as Plannable.
Fairness ==
  /\ WF_vars(AdjustRelease) /\ WF_vars(ExecFinish) /\ WF_vars(ExecReplan)
  /\ WF_vars(Drive)
  /\ <>[]~Plannable \/ []<><<GenFound \/ ReplanFound>>_vars

FairSpec == Spec /\ Fairness

-----------------------------------------------------------------------------
(* What the properties need of the paths and the thresholds.               *)

\* A path runs from one end to the other without a turn, its samples a cell
\* apart at most: planGlobalTraj between two points of a line, sampled by t_step.
Straight(w) ==
  /\ \/ \A i, j \in 1..Len(w) : i <= j => w[i] <= w[j]
     \/ \A i, j \in 1..Len(w) : i <= j => w[i] >= w[j]
  /\ \A i \in 1..(Len(w) - 1) : Dist(w[i], w[i + 1]) <= 2
StraightPaths ==
  \A a, b \in Line : \A w \in Paths(a, b) : Straight(w) /\ w[1] = a /\ w[Len(w)] = b

\* the least number of cells that is a distance of n or more
CellsOf(n) == (n + 1) \div 2

\* The horizon reaches over a trajectory that passes a goal it does not know of
\* yet, and no replan begins so near the goal that the robot, going on while it
\* fails, would leave the progress behind.
ThresholdsApart ==
  LET due == CellsOf(replan_thresh_)
      near == CellsOf(no_replan_thresh_)
      off == Lag \div 2 IN
  /\ planning_horizen_ > 0
  /\ due + 2 * near + off + Patience <= CellsOf(planning_horizen_)
  /\ due + off + 2 * Patience <= near
  /\ 2 * off + Patience <= near

-----------------------------------------------------------------------------
(* Properties.                                                             *)

\* The target planned to belongs to the current goal: it is the goal itself or
\* a point of the trajectory towards it, a horizon away.  An early return of
\* getLocalTarget would leave the target of the goal before.
TargetOfGoal ==
  have_target_ /\ ~have_new_target_ =>
    \/ local_target_pt_ = end_pt_
    \/ \E k \in DOMAIN path : /\ path[k] = local_target_pt_
                              /\ Dist(path[k], start_pt_) >= planning_horizen_

\* "Last global point": when all that is left of the global trajectory is
\* within the horizon, the plan goes to the goal.
LastGlobalPoint ==
  have_target_ /\ ~have_new_target_ /\ BeyondHorizon(start_pt_) = {}
    => local_target_pt_ = end_pt_

\* "last_progress_time_ ERROR" never happens: if replans succeed in time, the
\* robot never gets a horizon away from the progress remembered, although that
\* is not touched any more once the goal is within the horizon.  It would be
\* the end: the target stays where it is, and the robot soon stands on it.
NeverAstray ==
  /\ exec_state_ = "GEN_NEW_TRAJ" => \A o \in Odom : ~Astray(o)
  /\ exec_state_ = "REPLAN_TRAJ" => ~Astray(pos)

\* A goal is given up only where it lies, unless it came during the turn and
\* was not planned for yet: a chain of local trajectories never ends halfway.
FinishedAtGoal ==
  [][have_target_ /\ ~have_target_' => pos = end_pt_ \/ have_new_target_]_vars

\* Every goal is reached or replaced, or dropped in the way just excluded.
GoalReached ==
  \A g \in Goals :
    have_target_ /\ end_pt_ = g ~> pos = g \/ end_pt_ # g \/ ~have_target_
=============================================================================
