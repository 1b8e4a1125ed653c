----------------------------- MODULE ReplanFSM -----------------------------
(***************************************************************************)
(* EGOReplanFSM, the state machine of ego_planner_node.                    *)
(*                                                                         *)
(* The node is spun by one thread, so every callback is one atomic action: *)
(* goal_callback, odometryCallback and the 10 ms execFSMCallback.  The     *)
(* planner is an outcome (a trajectory towards end_pt_ or a failure), a    *)
(* trajectory is its id, the goal it was planned for, its duration and the *)
(* time since its start_time_.  Clock lets time pass between callbacks.    *)
(*                                                                         *)
(* safety_timer_ is never created (its line is commented out), so no       *)
(* behaviour of the program reaches EMERGENCY_STOP or runs                 *)
(* checkCollisionCallback; neither is in this module.                      *)
(***************************************************************************)
EXTENDS YawAngles

CONSTANTS
  Goals,          \* the goals a user may send
  NoGoal,         \* end_pt_ before the first goal
  Durations,      \* the durations a planned trajectory may have
  Settle,         \* kAdjustPoseSettleSeconds
  IdSpan,         \* traj_id_ counts modulo IdSpan; only equality is used
  FlightTypes,    \* the values target_type_ may be given
  Slip            \* TRUE: odometry may report any heading at any time

ASSUME FSMAssumption ==
  /\ Goals # {} /\ NoGoal \notin Goals
  /\ Durations # {} /\ Durations \subseteq Nat \ {0}
  /\ Settle \in Nat \ {0}
  /\ IdSpan \in Nat \ {0, 1}
  /\ FlightTypes \subseteq {"MANUAL_TARGET", "PRESET_TARGET"}
  /\ Slip \in BOOLEAN

VARIABLES
  target_type_,   \* fsm/flight_type, read once
  exec_state_, continously_called_times_,
  trigger_, have_odom_, have_target_, have_new_target_, is_target_receive,
  end_pt_,        \* the goal the planner plans towards
  yaw, rawYaw,    \* heading corrected for dir, and as reported
  yaw_start, dir,
  adjustPoseWaiting, waited,  \* the settle flag, and the time since adjustPoseWaitStartNs
  finalYawAlignActive,
  local_data_,    \* the planner manager's current trajectory
  bspline,        \* the last trajectory published, which traj_server executes
  is_adjust_pose, \* the last value published on /is_adjust_yaw
  cmd_vel,        \* sign of the last angular.z this node published on /cmd_vel
  rest,           \* history: time since this node last commanded a rotation
  still           \* history: time since neither a rotation nor a running
                  \* trajectory has been commanding the base

goalVars == <<trigger_, have_target_, have_new_target_, is_target_receive, end_pt_>>
poseVars == <<have_odom_, yaw, rawYaw, dir>>
alignVars == <<adjustPoseWaiting, waited, finalYawAlignActive>>
outVars == <<bspline, is_adjust_pose, cmd_vel>>
histVars == <<rest, still>>
vars == <<target_type_, exec_state_, continously_called_times_, goalVars, poseVars, yaw_start,
          alignVars, local_data_, outVars, histVars>>

FSM_EXEC_STATE ==
  {"INIT", "WAIT_TARGET", "ADJUST_POSE", "GEN_NEW_TRAJ", "REPLAN_TRAJ", "EXEC_TRAJ"}

\* id 0 and duration 0: nothing planned, or nothing published, yet
Traj == [id: 0..IdSpan, goal: Goals \cup {NoGoal},
         duration: Durations \cup {0}, elapsed: Nat]
NoTraj == [id |-> 0, goal |-> NoGoal, duration |-> 0, elapsed |-> 0]

\* within 1e-2 s of the end, the tick of the state machine
Over(traj) == traj.elapsed = traj.duration
NextId(id) == (id % IdSpan) + 1
Min2(a, b) == IF a <= b THEN a ELSE b

FlagsOK ==
  /\ trigger_ \in BOOLEAN /\ have_odom_ \in BOOLEAN
  /\ have_target_ \in BOOLEAN /\ have_new_target_ \in BOOLEAN
  /\ is_target_receive \in BOOLEAN
  /\ adjustPoseWaiting \in BOOLEAN /\ finalYawAlignActive \in BOOLEAN

DataOK ==
  /\ target_type_ \in FlightTypes
  /\ exec_state_ \in FSM_EXEC_STATE
  /\ continously_called_times_ \in 0..2
  /\ end_pt_ \in Goals \cup {NoGoal}
  /\ yaw \in Yaw /\ rawYaw \in Yaw /\ yaw_start \in Yaw
  /\ dir \in {"POSITIVE", "NEGATIVE"}
  /\ waited \in 0..Settle /\ rest \in 0..Settle /\ still \in 0..Settle
  /\ local_data_ \in Traj /\ bspline \in Traj
  /\ is_adjust_pose \in {0, 1} /\ cmd_vel \in {-1, 0, 1}

TypeOK == FlagsOK /\ DataOK

(***************************************************************************)
(* init().  trigger_ and have_new_target_ are never initialised.  With     *)
(* preset waypoints init() waits for odometry, plans the global trajectory *)
(* and enters GEN_NEW_TRAJ without ever setting trigger_.                  *)
(***************************************************************************)
Init ==
  /\ target_type_ \in FlightTypes
  /\ trigger_ \in BOOLEAN /\ is_target_receive = FALSE
  /\ yaw \in Yaw /\ yaw_start = 0 /\ dir = "POSITIVE"
  /\ adjustPoseWaiting = FALSE /\ waited = 0 /\ finalYawAlignActive = FALSE
  /\ local_data_ = NoTraj /\ bspline = NoTraj
  /\ is_adjust_pose = 0 /\ cmd_vel = 0
  /\ rest = Settle /\ still = Settle
  /\ \/ /\ target_type_ = "MANUAL_TARGET"
        /\ exec_state_ = "INIT" /\ continously_called_times_ = 0
        /\ have_odom_ = FALSE /\ rawYaw = 0
        /\ have_target_ = FALSE /\ have_new_target_ \in BOOLEAN
        /\ end_pt_ = NoGoal
     \/ /\ target_type_ = "PRESET_TARGET"
        /\ exec_state_ = "GEN_NEW_TRAJ" /\ continously_called_times_ = 1
        /\ have_odom_ = TRUE /\ rawYaw = yaw
        /\ have_target_ = TRUE /\ have_new_target_ = TRUE
        /\ end_pt_ \in Goals

-----------------------------------------------------------------------------
(* Helpers of the handlers.                                                *)

\* Mutant: the transition forgets to restart the settle wait.
changeFSMExecState_KeepsWait(new_state, finalAlign) ==
  /\ exec_state_' = new_state
  /\ continously_called_times_' = IF new_state = exec_state_ THEN 2 ELSE 1
  /\ finalYawAlignActive' = (finalAlign /\ new_state = "ADJUST_POSE")
  /\ UNCHANGED <<adjustPoseWaiting, waited>>

\* finalAlign is the flag's value at the call.  The count of consecutive
\* calls matters only as "one" or "more than one".
changeFSMExecState(new_state, finalAlign) ==
  /\ exec_state_' = new_state
  /\ IF new_state = exec_state_
     THEN /\ continously_called_times_' = Min2(continously_called_times_ + 1, 2)
          /\ UNCHANGED alignVars
     ELSE /\ continously_called_times_' = 1
          /\ adjustPoseWaiting' = FALSE /\ waited' = 0
          /\ finalYawAlignActive' = (finalAlign /\ new_state = "ADJUST_POSE")

stayInState == UNCHANGED <<exec_state_, continously_called_times_>>

changeDirection == dir' = IF dir = "POSITIVE" THEN "NEGATIVE" ELSE "POSITIVE"

\* Mutant: the robot reverses already beyond a quarter turn.
ReverseIfBehind_Quarter(error) ==
  IF Abs(error) > yaw_error_max THEN yaw' = Flip(yaw) /\ changeDirection
                                ELSE UNCHANGED <<yaw, dir>>

\* Beyond half a turn even after wrapping, the robot would drive backwards.
ReverseIfBehind(error) ==
  IF Abs(error) > PI THEN yaw' = Flip(yaw) /\ changeDirection
                     ELSE UNCHANGED <<yaw, dir>>

\* updateTrajInfo on a trajectory planned towards the current end_pt_; where on
\* the way there it ends (local_target_pt_) is in LocalTarget
PlannedTraj(d) == [id |-> NextId(local_data_.id), goal |-> end_pt_,
                   duration |-> d, elapsed |-> 0]

\* publishBspline restarts the clock of the trajectory it publishes
publishBspline(traj) ==
  /\ local_data_' = [traj EXCEPT !.elapsed = 0]
  /\ bspline' = [traj EXCEPT !.elapsed = 0]

\* /is_adjust_yaw and /cmd_vel as this handler leaves them, and the histories
Command(adjust, w) ==
  /\ is_adjust_pose' = adjust
  /\ cmd_vel' = w
  /\ rest' = IF w = 0 THEN rest ELSE 0
  /\ still' = IF w = 0 /\ Over(bspline') THEN still ELSE 0

SameCommand == Command(is_adjust_pose, cmd_vel)

-----------------------------------------------------------------------------
(* The callback of a goal.                                                 *)

\* Mutant: the goal counts as new only where it changes the state.
goal_callback_Selective(g) ==
  /\ target_type_ = "MANUAL_TARGET"
  /\ end_pt_' = g /\ trigger_' = TRUE /\ have_target_' = TRUE
  /\ LET next == CASE exec_state_ = "WAIT_TARGET" -> "GEN_NEW_TRAJ"
                   [] exec_state_ = "EXEC_TRAJ" -> "REPLAN_TRAJ"
                   [] OTHER -> exec_state_
     IN IF next # exec_state_
        THEN /\ changeFSMExecState(next, finalYawAlignActive)
             /\ is_target_receive' = TRUE /\ have_new_target_' = TRUE
        ELSE stayInState /\ UNCHANGED <<alignVars, is_target_receive, have_new_target_>>
  /\ UNCHANGED <<target_type_, poseVars, yaw_start, local_data_, outVars, histVars>>

\* planGlobalTraj always succeeds: a goal makes two waypoints.
goal_callback(g) ==
  /\ target_type_ = "MANUAL_TARGET"
  /\ end_pt_' = g /\ trigger_' = TRUE
  /\ have_target_' = TRUE /\ have_new_target_' = TRUE
  /\ LET next == CASE exec_state_ = "WAIT_TARGET" -> "GEN_NEW_TRAJ"
                   [] exec_state_ = "EXEC_TRAJ" -> "REPLAN_TRAJ"
                   [] OTHER -> exec_state_
     IN IF next # exec_state_
        THEN /\ changeFSMExecState(next, finalYawAlignActive)
             /\ is_target_receive' = TRUE
        ELSE stayInState /\ UNCHANGED <<alignVars, is_target_receive>>
  /\ UNCHANGED <<target_type_, poseVars, yaw_start, local_data_, outVars, histVars>>

-----------------------------------------------------------------------------
(* execFSMCallback, one action per case of the switch.  The early returns  *)
(* that change nothing are stuttering steps.                               *)

ExecInit ==
  /\ exec_state_ = "INIT" /\ have_odom_ /\ trigger_
  /\ changeFSMExecState("WAIT_TARGET", finalYawAlignActive)
  /\ UNCHANGED <<target_type_, goalVars, poseVars, yaw_start, local_data_, outVars, histVars>>

\* Mutant: only a goal received in WAIT_TARGET or EXEC_TRAJ is acted on.
ExecWaitTarget_OnReceipt ==
  /\ exec_state_ = "WAIT_TARGET" /\ have_target_ /\ is_target_receive
  /\ changeFSMExecState("GEN_NEW_TRAJ", finalYawAlignActive)
  /\ UNCHANGED <<target_type_, goalVars, poseVars, yaw_start, local_data_, outVars, histVars>>

ExecWaitTarget ==
  /\ exec_state_ = "WAIT_TARGET" /\ have_target_
  /\ changeFSMExecState("GEN_NEW_TRAJ", finalYawAlignActive)
  /\ UNCHANGED <<target_type_, goalVars, poseVars, yaw_start, local_data_, outVars, histVars>>

AdjustError == IF finalYawAlignActive
               THEN calculateYawError(rawYaw, 0)
               ELSE calculateYawError(yaw, yaw_start)
Deadzone == IF finalYawAlignActive THEN FinalDeadzone ELSE yaw_error_max
Aligned == Abs(AdjustError) <= Deadzone

AdjustRotate ==
  /\ exec_state_ = "ADJUST_POSE" /\ ~Aligned
  /\ adjustPoseWaiting' = FALSE /\ waited' = 0
  /\ stayInState
  /\ UNCHANGED <<target_type_, finalYawAlignActive, goalVars, poseVars, yaw_start,
                 local_data_, bspline>>
  /\ Command(1, Sign(AdjustError))

\* Mutant: every aligned tick restarts the settle wait.
AdjustHold_Restarts ==
  /\ exec_state_ = "ADJUST_POSE" /\ Aligned
  /\ ~(adjustPoseWaiting /\ waited = Settle)
  /\ adjustPoseWaiting' = TRUE /\ waited' = 0
  /\ stayInState
  /\ UNCHANGED <<target_type_, finalYawAlignActive, goalVars, poseVars, yaw_start,
                 local_data_, bspline>>
  /\ Command(1, 0)

AdjustHold ==
  /\ exec_state_ = "ADJUST_POSE" /\ Aligned
  /\ ~(adjustPoseWaiting /\ waited = Settle)
  /\ adjustPoseWaiting' = TRUE
  /\ waited' = IF adjustPoseWaiting THEN waited ELSE 0
  /\ stayInState
  /\ UNCHANGED <<target_type_, finalYawAlignActive, goalVars, poseVars, yaw_start,
                 local_data_, bspline>>
  /\ Command(1, 0)

\* Mutant: the trajectory starts, and was never sent to traj_server.
AdjustRelease_Unpublished ==
  /\ exec_state_ = "ADJUST_POSE" /\ Aligned
  /\ adjustPoseWaiting /\ waited = Settle
  /\ changeFSMExecState(IF finalYawAlignActive THEN "WAIT_TARGET" ELSE "EXEC_TRAJ", FALSE)
  /\ UNCHANGED <<target_type_, goalVars, poseVars, yaw_start, local_data_, bspline>>
  /\ Command(0, 0)

\* Mutant: the claim on /cmd_vel is not released.
AdjustRelease_KeepsClaim ==
  /\ exec_state_ = "ADJUST_POSE" /\ Aligned
  /\ adjustPoseWaiting /\ waited = Settle
  /\ IF finalYawAlignActive
     THEN /\ changeFSMExecState("WAIT_TARGET", finalYawAlignActive)
          /\ UNCHANGED <<local_data_, bspline>>
     ELSE /\ changeFSMExecState("EXEC_TRAJ", finalYawAlignActive)
          /\ publishBspline(local_data_)
  /\ UNCHANGED <<target_type_, goalVars, poseVars, yaw_start>>
  /\ Command(1, 0)

\* Mutant: the aligned robot starts at once, without settling.
AdjustRelease_AtOnce ==
  /\ exec_state_ = "ADJUST_POSE" /\ Aligned
  /\ IF finalYawAlignActive
     THEN /\ changeFSMExecState("WAIT_TARGET", finalYawAlignActive)
          /\ UNCHANGED <<local_data_, bspline>>
     ELSE /\ changeFSMExecState("EXEC_TRAJ", finalYawAlignActive)
          /\ publishBspline(local_data_)
  /\ UNCHANGED <<target_type_, goalVars, poseVars, yaw_start>>
  /\ Command(0, 0)

AdjustRelease ==
  /\ exec_state_ = "ADJUST_POSE" /\ Aligned
  /\ adjustPoseWaiting /\ waited = Settle
  /\ IF finalYawAlignActive
     THEN /\ changeFSMExecState("WAIT_TARGET", finalYawAlignActive)
          /\ UNCHANGED <<local_data_, bspline>>
     ELSE /\ changeFSMExecState("EXEC_TRAJ", finalYawAlignActive)
          /\ publishBspline(local_data_)
  /\ UNCHANGED <<target_type_, goalVars, poseVars, yaw_start>>
  /\ Command(0, 0)

\* callReboundReplan fails: nothing of local_data_ has been touched
GenFail ==
  /\ exec_state_ = "GEN_NEW_TRAJ"
  /\ have_new_target_' = FALSE
  /\ changeFSMExecState("GEN_NEW_TRAJ", finalYawAlignActive)
  /\ UNCHANGED <<target_type_, trigger_, have_target_, is_target_receive, end_pt_,
                 poseVars, yaw_start, local_data_, outVars, histVars>>

\* s is the heading of the new trajectory at its start, d its duration
GenSuccess(d, s) ==
  LET error == Wrap(s - yaw) IN
  /\ exec_state_ = "GEN_NEW_TRAJ"
  /\ have_new_target_' = FALSE
  /\ yaw_start' = s
  /\ ReverseIfBehind(error)
  /\ IF Abs(IF Abs(error) > PI THEN s - yaw' ELSE error) > yaw_error_max
     THEN /\ changeFSMExecState("ADJUST_POSE", FALSE)
          /\ is_target_receive' = FALSE
          /\ local_data_' = PlannedTraj(d)
          /\ UNCHANGED bspline
     ELSE /\ changeFSMExecState("EXEC_TRAJ", finalYawAlignActive)
          /\ publishBspline(PlannedTraj(d))
          /\ UNCHANGED is_target_receive
  /\ UNCHANGED <<target_type_, trigger_, have_target_, end_pt_, have_odom_, rawYaw>>
  /\ SameCommand

\* planFromCurrentTraj up to its three planning attempts; g is the bearing of
\* the goal.  Headings are compared with it only for a goal just received.
planFromCurrentTraj(g) ==
  /\ exec_state_ = "REPLAN_TRAJ"
  /\ IF is_target_receive THEN ReverseIfBehind(Wrap(g - yaw))
                          ELSE UNCHANGED <<yaw, dir>>
  /\ is_target_receive' = FALSE /\ have_new_target_' = FALSE
  /\ UNCHANGED <<target_type_, trigger_, have_target_, end_pt_, have_odom_, rawYaw>>

ReplanFail(g) ==
  /\ planFromCurrentTraj(g)
  /\ yaw_start' = g
  /\ changeFSMExecState("REPLAN_TRAJ", finalYawAlignActive)
  /\ UNCHANGED <<local_data_, outVars, histVars>>

ReplanSuccess(g, d, s) ==
  /\ planFromCurrentTraj(g)
  /\ yaw_start' = s
  /\ publishBspline(PlannedTraj(d))
  /\ changeFSMExecState("EXEC_TRAJ", finalYawAlignActive)
  /\ SameCommand

\* Mutant: a trajectory is finished before it has run out.
ExecFinish_Early ==
  /\ exec_state_ = "EXEC_TRAJ"
  /\ have_target_' = FALSE
  /\ IF dir = "NEGATIVE" THEN changeDirection ELSE UNCHANGED dir
  /\ yaw_start' = 0
  /\ changeFSMExecState("ADJUST_POSE", TRUE)
  /\ UNCHANGED <<target_type_, trigger_, have_new_target_, is_target_receive, end_pt_,
                 have_odom_, yaw, rawYaw, local_data_, bspline>>
  /\ Command(1, cmd_vel)

\* Mutant: finishing leaves the target standing.
ExecFinish_KeepsTarget ==
  /\ exec_state_ = "EXEC_TRAJ" /\ Over(local_data_)
  /\ IF dir = "NEGATIVE" THEN changeDirection ELSE UNCHANGED dir
  /\ yaw_start' = 0
  /\ changeFSMExecState("ADJUST_POSE", TRUE)
  /\ UNCHANGED <<target_type_, goalVars, have_odom_, yaw, rawYaw, local_data_, bspline>>
  /\ Command(1, cmd_vel)

ExecFinish ==
  /\ exec_state_ = "EXEC_TRAJ" /\ Over(local_data_)
  /\ have_target_' = FALSE
  /\ IF dir = "NEGATIVE" THEN changeDirection ELSE UNCHANGED dir
  /\ yaw_start' = 0
  /\ changeFSMExecState("ADJUST_POSE", TRUE)
  /\ UNCHANGED <<target_type_, trigger_, have_new_target_, is_target_receive, end_pt_,
                 have_odom_, yaw, rawYaw, local_data_, bspline>>
  /\ Command(1, cmd_vel)

\* neither near end_pt_ nor near the start of the trajectory
ExecReplan ==
  /\ exec_state_ = "EXEC_TRAJ" /\ ~Over(local_data_)
  /\ changeFSMExecState("REPLAN_TRAJ", finalYawAlignActive)
  /\ UNCHANGED <<target_type_, goalVars, poseVars, yaw_start, local_data_, outVars, histVars>>

Planned ==
  \E d \in Durations, s \in Yaw : GenSuccess(d, s) \/ \E g \in Yaw : ReplanSuccess(g, d, s)

execFSMCallback ==
  \/ ExecInit \/ ExecWaitTarget
  \/ AdjustRotate \/ AdjustHold \/ AdjustRelease
  \/ GenFail \/ (\E g \in Yaw : ReplanFail(g)) \/ Planned
  \/ ExecFinish \/ ExecReplan

-----------------------------------------------------------------------------
(* The environment: the base reports its heading, and time passes.         *)

\* One unit of rotation as commanded.  The timer runs every 10 ms and the base
\* turns at most 0.5 rad/s, so a tick sees each heading before the next.
Turned ==
  LET turn == rawYaw + cmd_vel IN
  IF exec_state_ = "ADJUST_POSE" /\ ~Aligned /\ cmd_vel = Sign(AdjustError)
  THEN IF turn > PI THEN turn - 2 * PI ELSE IF turn < -PI THEN turn + 2 * PI ELSE turn
  ELSE rawYaw

\* Without slip a heading changes only by a commanded rotation, or by driving.
Reported == IF Slip \/ ~have_odom_ \/ ~Over(bspline) THEN Yaw ELSE {Turned}

odometryCallback(r) ==
  /\ r \in Reported
  /\ rawYaw' = r
  /\ yaw' = IF dir = "NEGATIVE" THEN Flip(r) ELSE r
  /\ have_odom_' = TRUE
  /\ UNCHANGED <<target_type_, exec_state_, continously_called_times_, goalVars, dir,
                 yaw_start, alignVars, local_data_, outVars, histVars>>

Aged(traj) == [traj EXCEPT !.elapsed = Min2(@ + 1, traj.duration)]

Clock ==
  /\ local_data_' = Aged(local_data_)
  /\ bspline' = Aged(bspline)
  /\ waited' = IF adjustPoseWaiting THEN Min2(waited + 1, Settle) ELSE waited
  /\ rest' = IF cmd_vel = 0 THEN Min2(rest + 1, Settle) ELSE rest
  /\ still' = IF cmd_vel = 0 /\ Over(bspline) THEN Min2(still + 1, Settle) ELSE still
  /\ UNCHANGED <<target_type_, exec_state_, continously_called_times_, goalVars, poseVars,
                 yaw_start, adjustPoseWaiting, finalYawAlignActive, is_adjust_pose, cmd_vel>>

Next ==
  \/ \E g \in Goals : goal_callback(g)
  \/ \E r \in Yaw : odometryCallback(r)
  \/ execFSMCallback
  \/ Clock

Spec == Init /\ [][Next]_vars

(***************************************************************************)
(* The executor runs the timer and the odometry callback for ever and time *)
(* passes.  That a plan is found again and again is an assumption on the   *)
(* world: the goal stays reachable and is not within 0.2 m of the robot,   *)
(* where reboundReplan always refuses.                                     *)
(***************************************************************************)
Fairness ==
  /\ WF_vars(execFSMCallback)
  /\ WF_vars(\E r \in Yaw : odometryCallback(r))
  /\ WF_vars(Clock)
  /\ SF_vars(Planned)

FairSpec == Spec /\ Fairness

-----------------------------------------------------------------------------
(* Properties.                                                             *)

Driving == ~Over(bspline)

\* While the node supervises a trajectory (EXEC_TRAJ, REPLAN_TRAJ), that
\* trajectory is the one traj_server was last sent, and both started it at the
\* same moment: progress, near-end and finish tests speak of the real motion.
ServerInStep == exec_state_ \in {"EXEC_TRAJ", "REPLAN_TRAJ"} => bspline = local_data_

\* Outside those two states the published trajectory has run out: the robot is
\* never driven while the node waits, plans from rest or turns in place, even
\* in the window where /is_adjust_yaw has not yet silenced traj_server.
DrivesOnlyWhileExecuting ==
  exec_state_ \notin {"EXEC_TRAJ", "REPLAN_TRAJ"} => ~Driving

\* The claim on /cmd_vel (/is_adjust_yaw = 1) never outlives ADJUST_POSE; a
\* claim left behind would keep traj_server silent for ever.
OwnershipReleased == is_adjust_pose = 1 => exec_state_ = "ADJUST_POSE"

\* The reversing branches are never taken: a wrapped heading error is at most
\* half a turn, so dir stays POSITIVE and headings are used as reported.
ForwardOnly == dir = "POSITIVE" /\ (have_odom_ => yaw = rawYaw)

\* have_new_target_ is an exact record of a goal not yet planned for: with the
\* flag down and no attempt failing, the trajectory held is the one towards the
\* current end_pt_.
GoalTracked ==
  exec_state_ \notin {"GEN_NEW_TRAJ", "REPLAN_TRAJ"} /\ ~have_new_target_
    => local_data_.goal = end_pt_

\* The claim on /cmd_vel is given up only after a full settling time in which
\* neither a rotation nor a running trajectory commanded the base, whichever
\* way ADJUST_POSE was entered and however often the heading drifted off.
SettledBeforeRelease == [][is_adjust_pose = 1 /\ is_adjust_pose' = 0 => still = Settle]_vars

\* The node keeps the motion contract: turning and driving exclude each other
\* and a settling time separates a turn from the next drive.
Contract == INSTANCE MotionContract WITH turning <- cmd_vel # 0, driving <- Driving
KeepsContract == Contract!MotionSpec

\* The node is a PlannerPort: what the nodes that listen rely on.
Phase == CASE exec_state_ = "ADJUST_POSE" -> "ADJUST"
           [] exec_state_ \in {"EXEC_TRAJ", "REPLAN_TRAJ"} -> "EXEC"
           [] OTHER -> "REST"
Port == INSTANCE PlannerPort
          WITH phase <- Phase, claim <- is_adjust_pose, turning <- cmd_vel # 0,
               left <- bspline.duration - bspline.elapsed
ImplementsPort == Port!PortSpec

\* Preset waypoints are driven once: finishing clears have_target_ and nobody
\* sets it again, so the node never leaves WAIT_TARGET.
PresetRunsOnce ==
  [][target_type_ = "PRESET_TARGET" /\ exec_state_ = "WAIT_TARGET"
       => exec_state_' = "WAIT_TARGET"]_vars

\* The trajectory the node turns for or executes is towards another goal than
\* the last one: that one arrived during the turn, and nothing acts on it before
\* a replan.  If the trajectory ends first, have_target_ is cleared with it.
Overtaken ==
  /\ local_data_.goal # end_pt_
  /\ exec_state_ = "EXEC_TRAJ" \/ (exec_state_ = "ADJUST_POSE" /\ ~finalYawAlignActive)

\* A goal is driven to or replaced: traj_server is sent a trajectory planned
\* towards this goal, also if it arrives during the final alignment or while
\* planning fails.  Left out is one that arrives while the robot turns towards
\* the trajectory of another goal, unless a replan comes to see it in time.
GoalLeadsToExecution ==
  \A g \in Goals :
    have_target_ /\ end_pt_ = g /\ ~Overtaken
      ~> (exec_state_ = "EXEC_TRAJ" /\ bspline.goal = g) \/ end_pt_ # g

\* Turning in place ends: the heading converges and the settling time elapses.
AlignmentEnds == exec_state_ = "ADJUST_POSE" ~> exec_state_ # "ADJUST_POSE"

-----------------------------------------------------------------------------
(* The inductive strengthening of the invariants above.                    *)

\* No trajectory is older than its duration.
AgesBounded ==
  /\ local_data_.elapsed <= local_data_.duration
  /\ bspline.elapsed <= bspline.duration

\* The flags of an alignment are up only during it, and a rotation is
\* commanded only during it.
AlignFlagsScoped ==
  exec_state_ # "ADJUST_POSE" =>
    /\ ~adjustPoseWaiting /\ ~finalYawAlignActive
    /\ cmd_vel = 0 /\ rest = Settle

\* The settle wait is never longer than the time the base has been at rest
\* under a claim: waiting counts only silence.
WaitIsSilence ==
  adjustPoseWaiting => /\ cmd_vel = 0 /\ is_adjust_pose = 1
                       /\ waited <= rest /\ waited <= still

\* Leaving INIT takes odometry.
OdometryBeforeStart == exec_state_ # "INIT" => have_odom_

IInv ==
  /\ TypeOK /\ AgesBounded
  /\ ServerInStep /\ DrivesOnlyWhileExecuting /\ OwnershipReleased
  /\ ForwardOnly /\ GoalTracked
  /\ AlignFlagsScoped /\ WaitIsSilence /\ OdometryBeforeStart
=============================================================================
