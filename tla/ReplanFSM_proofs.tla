-------------------------- MODULE ReplanFSM_proofs --------------------------
(* Proofs about ReplanFSM, for every value of its constants.               *)
EXTENDS ReplanFSM, TLAPS

-----------------------------------------------------------------------------
(* Facts about the helpers.                                                *)

\* A wrapped heading error is at most half a turn.
LEMMA WrapBound ==
  ASSUME NEW y \in Yaw, NEW z \in Yaw
  PROVE  Wrap(y - z) \in Int /\ Abs(Wrap(y - z)) <= PI
BY AngleAssumption DEF Yaw, Wrap, Abs, Sign

\* The reversing branch of the handlers is dead code.
LEMMA NeverReverses ==
  ASSUME NEW y \in Yaw, yaw \in Yaw, ReverseIfBehind(Wrap(y - yaw))
  PROVE  yaw' = yaw /\ dir' = dir
<1>1. Wrap(y - yaw) \in Int /\ Abs(Wrap(y - yaw)) <= PI
  BY WrapBound
<1>2. Abs(Wrap(y - yaw)) \in Int
  BY <1>1 DEF Abs
<1>3. ~(Abs(Wrap(y - yaw)) > PI)
  BY <1>1, <1>2, AngleAssumption
<1> QED
  BY <1>3 DEF ReverseIfBehind

\* Ids stay within the modulus and are never 0 again.
LEMMA NextIdType ==
  ASSUME NEW id \in 0..IdSpan
  PROVE  NextId(id) \in 1..IdSpan
BY FSMAssumption DEF NextId

\* A freshly planned trajectory is a trajectory of age 0 for the current goal.
LEMMA PlannedType ==
  ASSUME TypeOK, NEW d \in Durations
  PROVE  /\ PlannedTraj(d) \in Traj
         /\ PlannedTraj(d).elapsed = 0
         /\ PlannedTraj(d).duration = d /\ d \in Nat \ {0}
         /\ PlannedTraj(d).goal = end_pt_
<1>1. NextId(local_data_.id) \in 1..IdSpan
  BY NextIdType DEF TypeOK, DataOK, Traj
<1> QED
  BY <1>1, FSMAssumption DEF PlannedTraj, Traj, TypeOK, DataOK

\* Ageing keeps a trajectory's identity and does not take it past its end.
LEMMA AgedType ==
  ASSUME NEW t \in Traj, t.elapsed <= t.duration
  PROVE  /\ Aged(t) \in Traj
         /\ Aged(t).goal = t.goal /\ Aged(t).duration = t.duration
         /\ Aged(t).elapsed <= t.duration
         /\ Over(t) => Over(Aged(t))
BY FSMAssumption DEF Aged, Traj, Over, Min2

-----------------------------------------------------------------------------
(* The inductive invariant.                                                *)

\* init() establishes the invariant.
LEMMA InitIInv == Init => IInv
<1> SUFFICES ASSUME Init PROVE IInv
  OBVIOUS
<1>1. NoTraj \in Traj /\ NoTraj.elapsed = NoTraj.duration /\ NoTraj.goal = NoGoal
  BY FSMAssumption DEF NoTraj, Traj
<1>2. 0 \in Yaw /\ 0 \in 0..Settle /\ Settle \in 0..Settle
  BY AngleAssumption, FSMAssumption DEF Yaw
<1>3. TypeOK
  <2>1. FlagsOK
    BY DEF Init, FlagsOK
  <2>2. DataOK
    BY <1>1, <1>2 DEF Init, DataOK, FSM_EXEC_STATE
  <2> QED
    BY <2>1, <2>2 DEF TypeOK
<1>4. AgesBounded /\ ServerInStep /\ DrivesOnlyWhileExecuting
  BY <1>1 DEF Init, AgesBounded, ServerInStep, DrivesOnlyWhileExecuting, Driving, Over, Traj
<1>5. /\ OwnershipReleased /\ ForwardOnly /\ GoalTracked
      /\ AlignFlagsScoped /\ WaitIsSilence /\ OdometryBeforeStart
  BY <1>1 DEF Init, OwnershipReleased, ForwardOnly, GoalTracked, AlignFlagsScoped,
              WaitIsSilence, OdometryBeforeStart
<1> QED
  BY <1>3, <1>4, <1>5 DEF IInv

\* Time passing keeps the invariant: both trajectories age alike.
LEMMA ClockIInv == IInv /\ Clock => IInv'
<1> SUFFICES ASSUME IInv, Clock PROVE IInv'
  OBVIOUS
<1> USE DEF IInv
<1>0. Settle \in Nat /\ waited \in Nat /\ rest \in Nat /\ still \in Nat
  BY FSMAssumption DEF TypeOK, DataOK
<1>1. /\ local_data_' = Aged(local_data_) /\ bspline' = Aged(bspline)
      /\ local_data_' \in Traj /\ bspline' \in Traj
      /\ local_data_'.goal = local_data_.goal
      /\ local_data_'.elapsed <= local_data_'.duration
      /\ bspline'.elapsed <= bspline'.duration
      /\ Over(bspline) => Over(bspline')
  BY AgedType DEF Clock, AgesBounded, TypeOK, DataOK
<1>2. TypeOK'
  <2>1. FlagsOK'
    BY DEF TypeOK, FlagsOK, Clock, goalVars, poseVars
  <2>2. DataOK'
    BY <1>0, <1>1 DEF TypeOK, DataOK, Clock, Min2, goalVars, poseVars
  <2> QED
    BY <2>1, <2>2 DEF TypeOK
<1>3. AgesBounded'
  BY <1>1 DEF AgesBounded
<1>4. /\ ServerInStep' /\ DrivesOnlyWhileExecuting' /\ OwnershipReleased'
      /\ ForwardOnly' /\ GoalTracked' /\ OdometryBeforeStart'
  BY <1>1 DEF ServerInStep, DrivesOnlyWhileExecuting, Driving, OwnershipReleased,
              ForwardOnly, GoalTracked, OdometryBeforeStart, Clock, goalVars, poseVars
<1>5. AlignFlagsScoped'
  BY <1>0 DEF AlignFlagsScoped, Clock, Min2
<1>6. adjustPoseWaiting => exec_state_ = "ADJUST_POSE" /\ Over(bspline)
  BY DEF AlignFlagsScoped, DrivesOnlyWhileExecuting, Driving
<1>7. WaitIsSilence'
  BY <1>0, <1>6 DEF WaitIsSilence, Clock, Min2
<1> QED
  BY <1>2, <1>3, <1>4, <1>5, <1>7

\* A goal keeps the invariant in every state (goal_callback).
LEMMA GoalIInv == ASSUME NEW g \in Goals PROVE IInv /\ goal_callback(g) => IInv'
<1> SUFFICES ASSUME IInv, goal_callback(g) PROVE IInv'
  OBVIOUS
<1> USE DEF IInv
<1>1. /\ UNCHANGED <<target_type_, poseVars, yaw_start, local_data_, outVars, histVars>>
      /\ end_pt_' = g /\ trigger_' = TRUE /\ have_target_' = TRUE /\ have_new_target_' = TRUE
  BY DEF goal_callback
<1>2. \/ /\ exec_state_ \in {"WAIT_TARGET", "EXEC_TRAJ"}
         /\ exec_state_' = IF exec_state_ = "WAIT_TARGET" THEN "GEN_NEW_TRAJ" ELSE "REPLAN_TRAJ"
         /\ continously_called_times_' = 1 /\ is_target_receive' = TRUE
         /\ adjustPoseWaiting' = FALSE /\ waited' = 0 /\ finalYawAlignActive' = FALSE
      \/ /\ exec_state_' = exec_state_
         /\ UNCHANGED <<continously_called_times_, is_target_receive, alignVars>>
  BY DEF goal_callback, changeFSMExecState, stayInState
<1>3. TypeOK'
  <2>1. FlagsOK'
    BY <1>1, <1>2 DEF TypeOK, FlagsOK, poseVars, alignVars
  <2>2. DataOK'
    BY <1>1, <1>2, FSMAssumption
       DEF TypeOK, DataOK, FSM_EXEC_STATE, poseVars, alignVars, outVars, histVars
  <2> QED
    BY <2>1, <2>2 DEF TypeOK
<1>4. /\ AgesBounded' /\ ServerInStep' /\ DrivesOnlyWhileExecuting' /\ OwnershipReleased'
      /\ ForwardOnly' /\ GoalTracked' /\ OdometryBeforeStart'
  BY <1>1, <1>2 DEF AgesBounded, ServerInStep, DrivesOnlyWhileExecuting, Driving, Over,
     OwnershipReleased, ForwardOnly, GoalTracked, OdometryBeforeStart, poseVars, outVars
<1>5. AlignFlagsScoped' /\ WaitIsSilence'
  BY <1>1, <1>2 DEF AlignFlagsScoped, WaitIsSilence, alignVars, outVars, histVars
<1> QED
  BY <1>3, <1>4, <1>5

\* Odometry keeps the invariant (odometryCallback).
LEMMA OdometryIInv == ASSUME NEW r \in Yaw PROVE IInv /\ odometryCallback(r) => IInv'
BY DEF IInv, TypeOK, FlagsOK, DataOK, AgesBounded, ServerInStep, DrivesOnlyWhileExecuting, Driving, Over,
       OwnershipReleased, ForwardOnly, GoalTracked, AlignFlagsScoped, WaitIsSilence,
       OdometryBeforeStart, odometryCallback, goalVars, alignVars, outVars, histVars

\* The two steps that only move the state on.
LEMMA WakeIInv == IInv /\ (ExecInit \/ ExecWaitTarget \/ ExecReplan) => IInv'
<1> SUFFICES ASSUME IInv, ExecInit \/ ExecWaitTarget \/ ExecReplan PROVE IInv'
  OBVIOUS
<1> USE DEF IInv
<1>1. /\ UNCHANGED <<target_type_, goalVars, poseVars, yaw_start, local_data_, outVars, histVars>>
      /\ continously_called_times_' = 1
      /\ adjustPoseWaiting' = FALSE /\ waited' = 0 /\ finalYawAlignActive' = FALSE
      /\ \/ exec_state_ = "INIT" /\ exec_state_' = "WAIT_TARGET" /\ have_odom_
         \/ exec_state_ = "WAIT_TARGET" /\ exec_state_' = "GEN_NEW_TRAJ"
         \/ exec_state_ = "EXEC_TRAJ" /\ exec_state_' = "REPLAN_TRAJ"
  BY DEF ExecInit, ExecWaitTarget, ExecReplan, changeFSMExecState
<1>2. FlagsOK'
  BY <1>1 DEF TypeOK, FlagsOK, goalVars, poseVars
<1>3. DataOK'
  BY <1>1, FSMAssumption DEF TypeOK, DataOK, FSM_EXEC_STATE, goalVars, poseVars, outVars, histVars
<1>4. /\ AgesBounded' /\ ServerInStep' /\ DrivesOnlyWhileExecuting' /\ OwnershipReleased'
      /\ ForwardOnly' /\ GoalTracked' /\ OdometryBeforeStart' /\ AlignFlagsScoped' /\ WaitIsSilence'
  BY <1>1 DEF AgesBounded, ServerInStep, DrivesOnlyWhileExecuting, Driving, Over,
     OwnershipReleased, ForwardOnly, GoalTracked, OdometryBeforeStart, AlignFlagsScoped,
     WaitIsSilence, goalVars, poseVars, outVars, histVars
<1> QED
  BY <1>2, <1>3, <1>4 DEF TypeOK

\* A tick that rotates keeps the invariant.
LEMMA AdjustRotateIInv == IInv /\ AdjustRotate => IInv'
<1> SUFFICES ASSUME IInv, AdjustRotate PROVE IInv'
  OBVIOUS
<1> USE DEF IInv
<1>1. /\ exec_state_ = "ADJUST_POSE" /\ adjustPoseWaiting' = FALSE /\ waited' = 0
      /\ UNCHANGED <<target_type_, exec_state_, continously_called_times_, finalYawAlignActive,
                     goalVars, poseVars, yaw_start, local_data_, bspline>>
      /\ is_adjust_pose' = 1 /\ cmd_vel' \in {-1, 0, 1}
      /\ rest' \in {rest, 0} /\ still' \in {still, 0}
  BY DEF AdjustRotate, Command, Sign, stayInState
<1>2. FlagsOK'
  BY <1>1 DEF TypeOK, FlagsOK, goalVars, poseVars
<1>3. DataOK'
  BY <1>1, FSMAssumption DEF TypeOK, DataOK, goalVars, poseVars
<1>4. /\ AgesBounded' /\ ServerInStep' /\ DrivesOnlyWhileExecuting' /\ OwnershipReleased'
      /\ ForwardOnly' /\ GoalTracked' /\ OdometryBeforeStart' /\ AlignFlagsScoped' /\ WaitIsSilence'
  BY <1>1 DEF AgesBounded, ServerInStep, DrivesOnlyWhileExecuting, Driving, Over,
     OwnershipReleased, ForwardOnly, GoalTracked, OdometryBeforeStart, AlignFlagsScoped,
     WaitIsSilence, goalVars, poseVars
<1> QED
  BY <1>2, <1>3, <1>4 DEF TypeOK

\* A tick that waits for the base to settle keeps the invariant.
LEMMA AdjustHoldIInv == IInv /\ AdjustHold => IInv'
<1> SUFFICES ASSUME IInv, AdjustHold PROVE IInv'
  OBVIOUS
<1> USE DEF IInv
<1>1. Over(bspline)
  BY DEF AdjustHold, DrivesOnlyWhileExecuting, Driving
<1>2. /\ exec_state_ = "ADJUST_POSE" /\ adjustPoseWaiting' = TRUE
      /\ waited' = IF adjustPoseWaiting THEN waited ELSE 0
      /\ UNCHANGED <<target_type_, exec_state_, continously_called_times_, finalYawAlignActive,
                     goalVars, poseVars, yaw_start, local_data_, bspline>>
      /\ is_adjust_pose' = 1 /\ cmd_vel' = 0
      /\ rest' = rest /\ still' = still
  BY <1>1 DEF AdjustHold, Command, stayInState, Over
<1>3. FlagsOK'
  BY <1>2 DEF TypeOK, FlagsOK, goalVars, poseVars
<1>4. DataOK'
  BY <1>2, FSMAssumption DEF TypeOK, DataOK, goalVars, poseVars
<1>5. /\ AgesBounded' /\ ServerInStep' /\ DrivesOnlyWhileExecuting' /\ OwnershipReleased'
      /\ ForwardOnly' /\ GoalTracked' /\ OdometryBeforeStart' /\ AlignFlagsScoped'
  BY <1>2 DEF AgesBounded, ServerInStep, DrivesOnlyWhileExecuting, Driving, Over,
     OwnershipReleased, ForwardOnly, GoalTracked, OdometryBeforeStart, AlignFlagsScoped,
     goalVars, poseVars
<1>6. WaitIsSilence'
  BY <1>2, FSMAssumption DEF WaitIsSilence, TypeOK, DataOK
<1> QED
  BY <1>3, <1>4, <1>5, <1>6 DEF TypeOK

\* What a release does: the wait is complete, and so is the silence.
LEMMA ReleaseFacts ==
  ASSUME IInv, AdjustRelease
  PROVE  /\ exec_state_ = "ADJUST_POSE" /\ Over(bspline)
         /\ cmd_vel = 0 /\ rest = Settle /\ still = Settle /\ is_adjust_pose = 1
BY FSMAssumption DEF IInv, TypeOK, DataOK, AdjustRelease, WaitIsSilence,
   DrivesOnlyWhileExecuting, Driving

\* The tick that gives the claim back keeps the invariant.
LEMMA AdjustReleaseIInv == IInv /\ AdjustRelease => IInv'
<1> SUFFICES ASSUME IInv, AdjustRelease PROVE IInv'
  OBVIOUS
<1> USE DEF IInv
<1>1. /\ exec_state_ = "ADJUST_POSE" /\ Over(bspline)
      /\ cmd_vel = 0 /\ rest = Settle /\ still = Settle
  BY ReleaseFacts
<1>2. /\ UNCHANGED <<target_type_, goalVars, poseVars, yaw_start>>
      /\ is_adjust_pose' = 0 /\ cmd_vel' = 0 /\ rest' = Settle /\ still' \in {Settle, 0}
      /\ continously_called_times_' = 1
      /\ adjustPoseWaiting' = FALSE /\ waited' = 0 /\ finalYawAlignActive' = FALSE
  BY <1>1 DEF AdjustRelease, Command, changeFSMExecState
<1>3. \/ exec_state_' = "WAIT_TARGET" /\ UNCHANGED <<local_data_, bspline>>
      \/ /\ exec_state_' = "EXEC_TRAJ"
         /\ local_data_' = [local_data_ EXCEPT !.elapsed = 0]
         /\ bspline' = [local_data_ EXCEPT !.elapsed = 0]
  BY DEF AdjustRelease, changeFSMExecState, publishBspline
<1>4. /\ local_data_' \in Traj /\ bspline' \in Traj /\ local_data_'.goal = local_data_.goal
      /\ AgesBounded'
  BY <1>3, FSMAssumption DEF TypeOK, DataOK, Traj, AgesBounded
<1>5. FlagsOK'
  BY <1>2 DEF TypeOK, FlagsOK, goalVars, poseVars
<1>6. DataOK'
  BY <1>2, <1>3, <1>4, FSMAssumption DEF TypeOK, DataOK, goalVars, poseVars, FSM_EXEC_STATE
<1>7. /\ ServerInStep' /\ DrivesOnlyWhileExecuting' /\ OwnershipReleased'
      /\ ForwardOnly' /\ GoalTracked' /\ OdometryBeforeStart' /\ AlignFlagsScoped' /\ WaitIsSilence'
  BY <1>1, <1>2, <1>3, <1>4 DEF ServerInStep, DrivesOnlyWhileExecuting, Driving, Over,
     OwnershipReleased, ForwardOnly, GoalTracked, OdometryBeforeStart, AlignFlagsScoped,
     WaitIsSilence, goalVars, poseVars
<1> QED
  BY <1>4, <1>5, <1>6, <1>7 DEF TypeOK

\* A failed attempt leaves the trajectory and every message as they were.
LEMMA PlanFailIInv ==
  ASSUME NEW g \in Yaw
  PROVE  IInv /\ (GenFail \/ ReplanFail(g)) => IInv'
<1> SUFFICES ASSUME IInv, GenFail \/ ReplanFail(g) PROVE IInv'
  OBVIOUS
<1> USE DEF IInv
<1>0. ReplanFail(g) => yaw' = yaw /\ dir' = dir
  BY NeverReverses DEF ReplanFail, planFromCurrentTraj, TypeOK, DataOK
<1>1. /\ exec_state_' = exec_state_ /\ exec_state_ \in {"GEN_NEW_TRAJ", "REPLAN_TRAJ"}
      /\ continously_called_times_' = Min2(continously_called_times_ + 1, 2)
      /\ have_new_target_' = FALSE /\ is_target_receive' \in {is_target_receive, FALSE}
      /\ yaw_start' \in {yaw_start, g}
      /\ UNCHANGED <<target_type_, trigger_, have_target_, end_pt_, poseVars, alignVars, local_data_,
                     outVars, histVars>>
  BY <1>0 DEF GenFail, ReplanFail, planFromCurrentTraj, changeFSMExecState, poseVars
<1>2. FlagsOK'
  BY <1>1 DEF TypeOK, FlagsOK, poseVars, alignVars
<1>3. DataOK'
  BY <1>1, FSMAssumption
     DEF TypeOK, DataOK, Min2, FSM_EXEC_STATE, poseVars, alignVars, outVars, histVars
<1>4. /\ AgesBounded' /\ ServerInStep' /\ DrivesOnlyWhileExecuting' /\ OwnershipReleased'
      /\ ForwardOnly' /\ GoalTracked' /\ OdometryBeforeStart' /\ AlignFlagsScoped' /\ WaitIsSilence'
  BY <1>1 DEF AgesBounded, ServerInStep, DrivesOnlyWhileExecuting, Driving, Over,
     OwnershipReleased, ForwardOnly, GoalTracked, OdometryBeforeStart, AlignFlagsScoped,
     WaitIsSilence, poseVars, alignVars, outVars, histVars
<1> QED
  BY <1>2, <1>3, <1>4 DEF TypeOK

\* A plan found: it is published and executed at once, or held back until the
\* robot has been aligned with it.
LEMMA PlannedIInv ==
  ASSUME NEW d \in Durations, NEW s \in Yaw, NEW g \in Yaw
  PROVE  IInv /\ (GenSuccess(d, s) \/ ReplanSuccess(g, d, s)) => IInv'
<1> SUFFICES ASSUME IInv, GenSuccess(d, s) \/ ReplanSuccess(g, d, s) PROVE IInv'
  OBVIOUS
<1> USE DEF IInv
<1>1. /\ exec_state_ \in {"GEN_NEW_TRAJ", "REPLAN_TRAJ"}
      /\ have_new_target_' = FALSE /\ is_target_receive' \in {is_target_receive, FALSE}
      /\ yaw_start' = s
      /\ UNCHANGED <<target_type_, trigger_, have_target_, end_pt_, have_odom_, rawYaw>>
      /\ continously_called_times_' = 1
      /\ adjustPoseWaiting' = FALSE /\ waited' = 0 /\ finalYawAlignActive' = FALSE
  BY DEF GenSuccess, ReplanSuccess, planFromCurrentTraj, changeFSMExecState, AlignFlagsScoped
<1>2. UNCHANGED <<yaw, dir>>
  BY NeverReverses DEF GenSuccess, ReplanSuccess, planFromCurrentTraj, TypeOK, DataOK
<1>3. cmd_vel = 0 /\ rest = Settle /\ is_adjust_pose = 0
  BY <1>1, FSMAssumption DEF AlignFlagsScoped, OwnershipReleased, TypeOK, DataOK
<1>4. is_adjust_pose' = 0 /\ cmd_vel' = 0 /\ rest' = Settle /\ still' \in {still, 0}
  BY <1>3 DEF GenSuccess, ReplanSuccess, SameCommand, Command
<1> DEFINE planned == [PlannedTraj(d) EXCEPT !.elapsed = 0]
<1>5. \/ /\ exec_state_' = "EXEC_TRAJ"
         /\ local_data_' = planned /\ bspline' = planned
      \/ /\ exec_state_ = "GEN_NEW_TRAJ" /\ exec_state_' = "ADJUST_POSE"
         /\ local_data_' = PlannedTraj(d) /\ bspline' = bspline
  BY DEF GenSuccess, ReplanSuccess, changeFSMExecState, publishBspline
<1>6. /\ PlannedTraj(d) \in Traj /\ planned \in Traj
      /\ PlannedTraj(d).goal = end_pt_ /\ planned.goal = end_pt_
      /\ PlannedTraj(d).elapsed = 0 /\ planned.elapsed = 0
      /\ PlannedTraj(d).duration \in Nat /\ planned.duration \in Nat
  BY PlannedType DEF Traj
<1>7. FlagsOK'
  BY <1>1 DEF TypeOK, FlagsOK
<1>8. DataOK'
  BY <1>1, <1>2, <1>4, <1>5, <1>6, FSMAssumption DEF TypeOK, DataOK, FSM_EXEC_STATE
<1>9. AgesBounded' /\ ServerInStep' /\ GoalTracked'
  <2> HIDE DEF planned
  <2>1. AgesBounded'
    BY <1>5, <1>6 DEF AgesBounded
  <2>2. ServerInStep'
    BY <1>5 DEF ServerInStep
  <2>3. GoalTracked'
    BY <1>1, <1>5, <1>6 DEF GoalTracked
  <2> QED
    BY <2>1, <2>2, <2>3
<1>10. /\ DrivesOnlyWhileExecuting' /\ OwnershipReleased' /\ ForwardOnly'
       /\ OdometryBeforeStart' /\ AlignFlagsScoped' /\ WaitIsSilence'
  BY <1>1, <1>2, <1>4, <1>5 DEF DrivesOnlyWhileExecuting, Driving, Over, OwnershipReleased,
     ForwardOnly, OdometryBeforeStart, AlignFlagsScoped, WaitIsSilence
<1> QED
  BY <1>7, <1>8, <1>9, <1>10 DEF TypeOK

\* Finishing a trajectory keeps the invariant.
LEMMA ExecFinishIInv == IInv /\ ExecFinish => IInv'
<1> SUFFICES ASSUME IInv, ExecFinish PROVE IInv'
  OBVIOUS
<1> USE DEF IInv
<1>1. Over(bspline) /\ cmd_vel = 0 /\ rest = Settle /\ dir = "POSITIVE"
  BY DEF ExecFinish, ServerInStep, AlignFlagsScoped, ForwardOnly
<1>2. /\ exec_state_ = "EXEC_TRAJ" /\ exec_state_' = "ADJUST_POSE"
      /\ have_target_' = FALSE /\ yaw_start' = 0
      /\ continously_called_times_' = 1
      /\ adjustPoseWaiting' = FALSE /\ waited' = 0 /\ finalYawAlignActive' = TRUE
      /\ UNCHANGED <<target_type_, trigger_, have_new_target_, is_target_receive, end_pt_,
                     have_odom_, yaw, rawYaw, dir, local_data_, bspline>>
      /\ is_adjust_pose' = 1 /\ cmd_vel' = 0 /\ rest' = rest /\ still' = still
  BY <1>1 DEF ExecFinish, Command, changeFSMExecState, Over
<1>3. FlagsOK'
  BY <1>2 DEF TypeOK, FlagsOK
<1>4. 0 \in Yaw /\ 0 \in 0..Settle
  BY AngleAssumption, FSMAssumption DEF Yaw
<1>5. DataOK'
  BY <1>2, <1>4 DEF TypeOK, DataOK, FSM_EXEC_STATE
<1>6. /\ AgesBounded' /\ ServerInStep' /\ DrivesOnlyWhileExecuting' /\ OwnershipReleased'
      /\ ForwardOnly' /\ GoalTracked' /\ OdometryBeforeStart' /\ AlignFlagsScoped' /\ WaitIsSilence'
  BY <1>1, <1>2 DEF AgesBounded, ServerInStep, DrivesOnlyWhileExecuting, Driving, Over,
     OwnershipReleased, ForwardOnly, GoalTracked, OdometryBeforeStart, AlignFlagsScoped,
     WaitIsSilence
<1> QED
  BY <1>3, <1>5, <1>6 DEF TypeOK

\* A stuttering step keeps the invariant.
LEMMA StutterIInv == IInv /\ UNCHANGED vars => IInv'
BY DEF vars, goalVars, poseVars, alignVars, outVars, histVars, IInv, TypeOK, FlagsOK, DataOK,
       AgesBounded, ServerInStep, DrivesOnlyWhileExecuting, Driving, Over, OwnershipReleased,
       ForwardOnly, GoalTracked, OdometryBeforeStart, AlignFlagsScoped, WaitIsSilence

\* Every action, and stuttering, keeps the invariant.
LEMMA NextIInv == IInv /\ [Next]_vars => IInv'
<1> SUFFICES ASSUME IInv, [Next]_vars PROVE IInv'
  OBVIOUS
<1>1. CASE \E g \in Goals : goal_callback(g)
  BY <1>1, GoalIInv
<1>2. CASE \E r \in Yaw : odometryCallback(r)
  BY <1>2, OdometryIInv
<1>3. CASE execFSMCallback
  <2>1. CASE ExecInit \/ ExecWaitTarget \/ ExecReplan
    BY <2>1, WakeIInv
  <2>2. CASE AdjustRotate
    BY <2>2, AdjustRotateIInv
  <2>3. CASE AdjustHold
    BY <2>3, AdjustHoldIInv
  <2>4. CASE AdjustRelease
    BY <2>4, AdjustReleaseIInv
  <2>5. CASE GenFail \/ \E g \in Yaw : ReplanFail(g)
    <3>1. 0 \in Yaw
      BY AngleAssumption DEF Yaw
    <3> QED
      BY <2>5, <3>1, PlanFailIInv
  <2>6. CASE Planned
    <3>1. 0 \in Yaw
      BY AngleAssumption DEF Yaw
    <3> QED
      BY <2>6, <3>1, PlannedIInv DEF Planned
  <2>7. CASE ExecFinish
    BY <2>7, ExecFinishIInv
  <2> QED
    BY <1>3, <2>1, <2>2, <2>3, <2>4, <2>5, <2>6, <2>7 DEF execFSMCallback
<1>4. CASE Clock
  BY <1>4, ClockIInv
<1>5. CASE UNCHANGED vars
  BY <1>5, StutterIInv
<1> QED
  BY <1>1, <1>2, <1>3, <1>4, <1>5 DEF Next

\* The invariant holds in every behaviour.
LEMMA Inductive == Spec => []IInv
BY InitIInv, NextIInv, PTL DEF Spec

-----------------------------------------------------------------------------
(* The theorems.                                                           *)

\* Every variable of the state machine keeps its type.
THEOREM TypeCorrect == Spec => []TypeOK
<1>1. IInv => TypeOK
  BY DEF IInv
<1> QED
  BY <1>1, Inductive, PTL

\* While the node supervises a trajectory, traj_server runs the same one, from
\* the same start time.
THEOREM SupervisesTheRealMotion == Spec => []ServerInStep
<1>1. IInv => ServerInStep
  BY DEF IInv
<1> QED
  BY <1>1, Inductive, PTL

\* No trajectory is running while the node waits, plans from rest or turns.
THEOREM NeverDrivenElsewhere == Spec => []DrivesOnlyWhileExecuting
<1>1. IInv => DrivesOnlyWhileExecuting
  BY DEF IInv
<1> QED
  BY <1>1, Inductive, PTL

\* The claim on /cmd_vel is up only during ADJUST_POSE.
THEOREM ClaimIsScoped == Spec => []OwnershipReleased
<1>1. IInv => OwnershipReleased
  BY DEF IInv
<1> QED
  BY <1>1, Inductive, PTL

\* The robot is never told to drive backwards, whatever the headings are.
THEOREM NeverBackwards == Spec => []ForwardOnly
<1>1. IInv => ForwardOnly
  BY DEF IInv
<1> QED
  BY <1>1, Inductive, PTL

\* have_new_target_ records exactly the goals not yet planned for.
THEOREM GoalRecordExact == Spec => []GoalTracked
<1>1. IInv => GoalTracked
  BY DEF IInv
<1> QED
  BY <1>1, Inductive, PTL

-----------------------------------------------------------------------------
(* The claim is given up only in AdjustRelease, after a full silence.      *)

\* No other step publishes 0 on /is_adjust_yaw.
LEMMA OnlyReleaseDropsClaim ==
  ASSUME [Next]_vars, ~AdjustRelease
  PROVE  is_adjust_pose' \in {is_adjust_pose, 1}
<1>1. CASE (\E g \in Goals : goal_callback(g)) \/ (\E r \in Yaw : odometryCallback(r)) \/ Clock
  BY <1>1 DEF goal_callback, odometryCallback, Clock, outVars
<1>2. CASE execFSMCallback
  BY <1>2 DEF execFSMCallback, ExecInit, ExecWaitTarget, AdjustRotate, AdjustHold, GenFail,
              ReplanFail, Planned, GenSuccess, ReplanSuccess, ExecFinish, ExecReplan,
              SameCommand, Command, outVars
<1>3. CASE UNCHANGED vars
  BY <1>3 DEF vars, outVars
<1> QED
  BY <1>1, <1>2, <1>3 DEF Next

\* The claim on /cmd_vel is given up only after a whole settling time in which
\* nothing commanded the base.
THEOREM ReleaseIsSettled == Spec => SettledBeforeRelease
<1>1. IInv /\ [Next]_vars => [is_adjust_pose = 1 /\ is_adjust_pose' = 0 => still = Settle]_vars
  <2> SUFFICES ASSUME IInv, [Next]_vars, is_adjust_pose = 1 /\ is_adjust_pose' = 0
               PROVE  still = Settle
    OBVIOUS
  <2>1. AdjustRelease
    BY OnlyReleaseDropsClaim
  <2> QED
    BY <2>1, ReleaseFacts
<1> QED
  BY <1>1, Inductive, PTL DEF Spec, SettledBeforeRelease

-----------------------------------------------------------------------------
(* The motion contract is implemented.                                     *)

\* The node starts at rest.
LEMMA ContractInit == Init => Contract!MotionInit
BY DEF Init, Contract!MotionInit, Driving, Over, NoTraj

\* Steps that neither command the base nor change the published trajectory.
LEMMA ContractQuiet ==
  ASSUME UNCHANGED <<bspline, cmd_vel, rest>>
  PROVE  UNCHANGED Contract!motionVars
BY DEF Contract!motionVars, Driving, Over

\* A drive begins from rest, or a running drive is replaced.
LEMMA ContractDrive ==
  ASSUME IInv, cmd_vel = 0, cmd_vel' = 0, rest = Settle, rest' = rest
  PROVE  [Contract!MotionNext]_(Contract!motionVars)
<1>0. Driving \in BOOLEAN /\ Driving' \in BOOLEAN
  BY DEF Driving, Over
<1>1. CASE Driving' = Driving
  BY <1>1 DEF Contract!motionVars
<1>2. CASE Driving' # Driving /\ Driving'
  BY <1>0, <1>2 DEF Contract!MotionNext, Contract!Drive
<1>3. CASE Driving' # Driving /\ ~Driving'
  <2>1. ~(rest < Settle)
    BY FSMAssumption
  <2> QED
    BY <1>0, <1>3, <2>1 DEF Contract!MotionNext, Contract!Pass
<1> QED
  BY <1>1, <1>2, <1>3

\* Every step turns, drives, passes time at rest, or is none of the contract's.
LEMMA ContractStep == IInv /\ [Next]_vars => [Contract!MotionNext]_(Contract!motionVars)
<1> SUFFICES ASSUME IInv, [Next]_vars PROVE [Contract!MotionNext]_(Contract!motionVars)
  OBVIOUS
<1>1. CASE \/ \E g \in Goals : goal_callback(g)
           \/ \E r \in Yaw : odometryCallback(r)
           \/ ExecInit \/ ExecWaitTarget \/ ExecReplan \/ GenFail
           \/ \E g \in Yaw : ReplanFail(g)
           \/ UNCHANGED vars
  <2>1. UNCHANGED <<bspline, cmd_vel, rest>>
    BY <1>1 DEF goal_callback, odometryCallback, ExecInit, ExecWaitTarget, ExecReplan,
                GenFail, ReplanFail, outVars, histVars, vars
  <2> QED
    BY <2>1, ContractQuiet
<1>2. CASE AdjustRotate
  <2>1. ~Driving /\ Driving' = Driving
    BY <1>2 DEF IInv, AdjustRotate, DrivesOnlyWhileExecuting, Driving, Over
  <2>2. \/ cmd_vel' = 0 /\ rest' = rest
        \/ cmd_vel' # 0 /\ rest' = 0
    BY <1>2 DEF AdjustRotate, Command
  <2> QED
    BY <2>1, <2>2 DEF Contract!MotionNext, Contract!Turn, Contract!EndTurn
<1>3. CASE AdjustHold
  <2>1. Driving' = Driving /\ cmd_vel' = 0 /\ rest' = rest
    BY <1>3 DEF AdjustHold, Command, Driving, Over
  <2> QED
    BY <2>1 DEF Contract!MotionNext, Contract!EndTurn
<1>4. CASE AdjustRelease
  <2>1. cmd_vel = 0 /\ rest = Settle /\ cmd_vel' = 0 /\ rest' = rest
    BY <1>4, ReleaseFacts DEF AdjustRelease, Command
  <2> QED
    BY <2>1, ContractDrive
<1>5. CASE Planned \/ ExecFinish
  <2>1. exec_state_ # "ADJUST_POSE"
    BY <1>5 DEF Planned, GenSuccess, ReplanSuccess, planFromCurrentTraj, ExecFinish
  <2>2. cmd_vel = 0 /\ rest = Settle
    BY <2>1 DEF IInv, AlignFlagsScoped
  <2>3. cmd_vel' = 0 /\ rest' = rest
    BY <1>5, <2>2 DEF Planned, GenSuccess, ReplanSuccess, ExecFinish, SameCommand, Command
  <2> QED
    BY <2>2, <2>3, ContractDrive
<1>6. CASE Clock
  <2>1. Over(bspline) => Over(bspline')
    BY <1>6, AgedType DEF Clock, IInv, AgesBounded, TypeOK, DataOK
  <2>2. rest' \in IF cmd_vel = 0 /\ rest < Settle THEN {rest + 1} ELSE {rest}
    BY <1>6, FSMAssumption DEF Clock, Min2, IInv, TypeOK, DataOK
  <2>3. UNCHANGED cmd_vel
    BY <1>6 DEF Clock
  <2>4. Driving' \in {Driving, FALSE}
    BY <2>1 DEF Driving
  <2> QED
    BY <2>2, <2>3, <2>4 DEF Contract!MotionNext, Contract!Pass
<1> QED
  BY <1>1, <1>2, <1>3, <1>4, <1>5, <1>6 DEF Next, execFSMCallback

\* The planner node keeps the motion contract, for every settling time, every
\* set of durations and every heading the world may report.
THEOREM ContractKept == Spec => KeepsContract
BY ContractInit, ContractStep, Inductive, PTL DEF Spec, KeepsContract, Contract!MotionSpec
-----------------------------------------------------------------------------
(* The port the other nodes rely on is implemented.                        *)

\* There is a planned trajectory to turn for, to execute and to replan.
PlanHeld ==
  exec_state_ \in {"ADJUST_POSE", "EXEC_TRAJ", "REPLAN_TRAJ"} => local_data_.duration \in Durations

\* A trajectory keeps its other fields when its clock is restarted.
LEMMA Restarted ==
  ASSUME NEW t \in Traj, t.duration \in Durations
  PROVE  /\ [t EXCEPT !.elapsed = 0].duration = t.duration
         /\ [t EXCEPT !.elapsed = 0].elapsed = 0
         /\ ~Over([t EXCEPT !.elapsed = 0])
BY FSMAssumption DEF Traj, Over

\* What a plan found does: it is held back for a turn, or published and begun.
LEMMA PlannedFacts ==
  ASSUME IInv, NEW d \in Durations, NEW s \in Yaw, NEW g \in Yaw,
         GenSuccess(d, s) \/ ReplanSuccess(g, d, s)
  PROVE  /\ is_adjust_pose' = is_adjust_pose /\ cmd_vel = 0 /\ cmd_vel' = 0
         /\ local_data_'.duration = d
         /\ \/ /\ exec_state_ = "GEN_NEW_TRAJ" /\ exec_state_' = "ADJUST_POSE"
               /\ UNCHANGED <<bspline, still>>
            \/ /\ exec_state_ \in {"GEN_NEW_TRAJ", "REPLAN_TRAJ"} /\ exec_state_' = "EXEC_TRAJ"
               /\ bspline'.duration = d /\ bspline'.elapsed = 0 /\ still' = 0
<1> USE DEF IInv
<1>1. exec_state_ \in {"GEN_NEW_TRAJ", "REPLAN_TRAJ"} /\ cmd_vel = 0
  BY DEF GenSuccess, ReplanSuccess, planFromCurrentTraj, AlignFlagsScoped
<1>2. /\ is_adjust_pose' = is_adjust_pose /\ cmd_vel' = 0
      /\ still' = IF Over(bspline') THEN still ELSE 0
  BY <1>1 DEF GenSuccess, ReplanSuccess, SameCommand, Command
<1> DEFINE planned == [PlannedTraj(d) EXCEPT !.elapsed = 0]
<1>3. \/ /\ exec_state_' = "EXEC_TRAJ"
         /\ local_data_' = planned /\ bspline' = planned
      \/ /\ exec_state_ = "GEN_NEW_TRAJ" /\ exec_state_' = "ADJUST_POSE"
         /\ local_data_' = PlannedTraj(d) /\ bspline' = bspline
  BY DEF GenSuccess, ReplanSuccess, changeFSMExecState, publishBspline
<1>4. PlannedTraj(d) \in Traj /\ PlannedTraj(d).duration = d
  BY PlannedType
<1>5. planned.duration = d /\ planned.elapsed = 0 /\ ~Over(planned)
  BY <1>4, Restarted
<1>6. CASE exec_state_' = "EXEC_TRAJ"
  <2>1. local_data_' = planned /\ bspline' = planned
    BY <1>3, <1>6
  <2> HIDE DEF planned
  <2> QED
    BY <1>1, <1>2, <1>5, <1>6, <2>1
<1>7. CASE exec_state_' # "EXEC_TRAJ"
  <2>1. /\ exec_state_ = "GEN_NEW_TRAJ" /\ exec_state_' = "ADJUST_POSE"
        /\ local_data_' = PlannedTraj(d) /\ bspline' = bspline
    BY <1>3, <1>7
  <2>2. Over(bspline')
    BY <2>1 DEF DrivesOnlyWhileExecuting, Driving
  <2> QED
    BY <1>1, <1>2, <1>4, <2>1, <2>2
<1> QED
  BY <1>6, <1>7

\* Every step keeps a planned trajectory where one is needed.
LEMMA PlanHeldStep == IInv /\ PlanHeld /\ [Next]_vars => PlanHeld'
<1> SUFFICES ASSUME IInv, PlanHeld, [Next]_vars PROVE PlanHeld'
  OBVIOUS
<1> USE DEF PlanHeld
<1>1. CASE \/ \E g \in Goals : goal_callback(g)
           \/ \E r \in Yaw : odometryCallback(r)
           \/ ExecInit \/ ExecWaitTarget \/ ExecReplan \/ GenFail
           \/ \E g \in Yaw : ReplanFail(g)
           \/ AdjustRotate \/ AdjustHold \/ ExecFinish \/ UNCHANGED vars
  <2>1. UNCHANGED local_data_
    BY <1>1 DEF goal_callback, odometryCallback, ExecInit, ExecWaitTarget, ExecReplan, GenFail,
                ReplanFail, AdjustRotate, AdjustHold, ExecFinish, vars
  <2>2. \/ exec_state_' = exec_state_
        \/ exec_state_' \in {"WAIT_TARGET", "GEN_NEW_TRAJ"}
        \/ exec_state_ = "EXEC_TRAJ"
    BY <1>1 DEF goal_callback, odometryCallback, ExecInit, ExecWaitTarget, ExecReplan, GenFail,
                ReplanFail, planFromCurrentTraj, AdjustRotate, AdjustHold, ExecFinish,
                changeFSMExecState, stayInState, vars
  <2> QED
    BY <2>1, <2>2
<1>2. CASE AdjustRelease
  <2>1. local_data_ \in Traj /\ local_data_.duration \in Durations
    BY <1>2 DEF AdjustRelease, IInv, TypeOK, DataOK
  <2>2. local_data_' \in {local_data_, [local_data_ EXCEPT !.elapsed = 0]}
    BY <1>2 DEF AdjustRelease, publishBspline
  <2> QED
    BY <2>1, <2>2, Restarted
<1>3. CASE Planned
  <2>1. PICK d \in Durations, s \in Yaw, g \in Yaw : GenSuccess(d, s) \/ ReplanSuccess(g, d, s)
    BY <1>3 DEF Planned
  <2> QED
    BY <2>1, PlannedFacts
<1>4. CASE Clock
  <2>1. local_data_'.duration = local_data_.duration
    BY <1>4, AgedType DEF Clock, IInv, AgesBounded, TypeOK, DataOK
  <2> QED
    BY <1>4, <2>1 DEF Clock
<1> QED
  BY <1>1, <1>2, <1>3, <1>4 DEF Next, execFSMCallback

\* The node starts as the port does: at rest, without a claim.
LEMMA PortInitial == Init => PlanHeld /\ Port!PortInit
BY DEF Init, PlanHeld, NoTraj, Phase, Port!PortInit

\* Every step of the state machine is one of the port, or a stutter.
LEMMA PortStep == IInv /\ PlanHeld /\ [Next]_vars => [Port!PortNext]_(Port!portVars)
<1> SUFFICES ASSUME IInv, PlanHeld, [Next]_vars PROVE [Port!PortNext]_(Port!portVars)
  OBVIOUS
<1>1. CASE \/ \E g \in Goals : goal_callback(g)
           \/ \E r \in Yaw : odometryCallback(r)
           \/ ExecInit \/ ExecWaitTarget \/ ExecReplan \/ GenFail
           \/ \E g \in Yaw : ReplanFail(g)
           \/ UNCHANGED vars
  <2>1. UNCHANGED <<bspline, is_adjust_pose, cmd_vel, still>>
    BY <1>1 DEF goal_callback, odometryCallback, ExecInit, ExecWaitTarget, ExecReplan,
                GenFail, ReplanFail, outVars, histVars, vars
  <2>2. UNCHANGED Phase
    BY <1>1 DEF goal_callback, odometryCallback, ExecInit, ExecWaitTarget, ExecReplan, GenFail,
                ReplanFail, planFromCurrentTraj, changeFSMExecState, stayInState, Phase, vars
  <2> QED
    BY <2>1, <2>2 DEF Port!portVars
<1>2. CASE AdjustRotate \/ AdjustHold
  <2>1. exec_state_ = "ADJUST_POSE" /\ exec_state_' = "ADJUST_POSE" /\ UNCHANGED bspline
    BY <1>2 DEF AdjustRotate, AdjustHold, stayInState
  <2>2. Over(bspline')
    BY <2>1 DEF IInv, DrivesOnlyWhileExecuting, Driving
  <2>3. is_adjust_pose' = 1 /\ still' = IF cmd_vel' = 0 THEN still ELSE 0
    BY <1>2, <2>2 DEF AdjustRotate, AdjustHold, Command
  <2>4. Phase = "ADJUST" /\ Phase' = "ADJUST"
    BY <2>1 DEF Phase
  <2>5. CASE cmd_vel' = 0
    <3>1. Port!Hold
      BY <2>1, <2>3, <2>4, <2>5 DEF Port!Hold
    <3> QED
      BY <3>1 DEF Port!PortNext
  <2>6. CASE cmd_vel' # 0
    <3>1. Port!Rotate
      BY <2>1, <2>3, <2>4, <2>6 DEF Port!Rotate
    <3> QED
      BY <3>1 DEF Port!PortNext
  <2> QED
    BY <2>5, <2>6
<1>3. CASE AdjustRelease
  <2>1. /\ exec_state_ = "ADJUST_POSE" /\ Over(bspline)
        /\ cmd_vel = 0 /\ still = Settle /\ is_adjust_pose = 1
    BY <1>3, ReleaseFacts
  <2>2. /\ is_adjust_pose' = 0 /\ cmd_vel' = 0
        /\ still' = IF Over(bspline') THEN still ELSE 0
    BY <1>3 DEF AdjustRelease, Command
  <2>3. CASE finalYawAlignActive
    <3>1. exec_state_' = "WAIT_TARGET" /\ UNCHANGED bspline
      BY <1>3, <2>3 DEF AdjustRelease, changeFSMExecState
    <3>2. Phase = "ADJUST" /\ Phase' = "REST"
      BY <2>1, <3>1 DEF Phase
    <3>3. Port!Release
      BY <2>1, <2>2, <3>1, <3>2 DEF Port!Release
    <3> QED
      BY <3>3 DEF Port!PortNext
  <2>4. CASE ~finalYawAlignActive
    <3>1. exec_state_' = "EXEC_TRAJ" /\ bspline' = [local_data_ EXCEPT !.elapsed = 0]
      BY <1>3, <2>4 DEF AdjustRelease, changeFSMExecState, publishBspline
    <3>2. Phase = "ADJUST" /\ Phase' = "EXEC"
      BY <2>1, <3>1 DEF Phase
    <3>3. local_data_ \in Traj /\ local_data_.duration \in Durations
      BY <2>1 DEF IInv, TypeOK, DataOK, PlanHeld
    <3>4. bspline'.duration \in Durations /\ bspline'.elapsed = 0 /\ still' = 0
      BY <2>2, <3>1, <3>3, Restarted
    <3>5. (bspline.duration - bspline.elapsed)' \in Durations
      <4>1. bspline'.duration \in Nat
        BY <3>4, FSMAssumption
      <4>2. bspline'.duration - bspline'.elapsed = bspline'.duration
        BY <3>4, <4>1
      <4> QED
        BY <3>4, <4>2
    <3>6. Port!Release
      BY <2>1, <2>2, <3>2, <3>4, <3>5 DEF Port!Release
    <3> QED
      BY <3>6 DEF Port!PortNext
  <2> QED
    BY <2>3, <2>4
<1>4. CASE Planned
  <2>1. PICK d \in Durations, s \in Yaw, g \in Yaw : GenSuccess(d, s) \/ ReplanSuccess(g, d, s)
    BY <1>4 DEF Planned
  <2>2. is_adjust_pose' = is_adjust_pose /\ cmd_vel = 0 /\ cmd_vel' = 0
    BY <2>1, PlannedFacts
  <2>3. CASE exec_state_ = "GEN_NEW_TRAJ" /\ exec_state_' = "ADJUST_POSE"
             /\ UNCHANGED <<bspline, still>>
    <3>1. Phase = "REST" /\ Phase' = "ADJUST"
      BY <2>3 DEF Phase
    <3>2. Port!BeginAdjust
      BY <2>2, <2>3, <3>1 DEF Port!BeginAdjust
    <3> QED
      BY <3>2 DEF Port!PortNext
  <2>4. CASE /\ exec_state_ \in {"GEN_NEW_TRAJ", "REPLAN_TRAJ"} /\ exec_state_' = "EXEC_TRAJ"
             /\ bspline'.duration = d /\ bspline'.elapsed = 0 /\ still' = 0
    <3>1. Phase \in {"REST", "EXEC"} /\ Phase' = "EXEC"
      BY <2>4 DEF Phase
    <3>2. (bspline.duration - bspline.elapsed)' = d
      BY <2>4, FSMAssumption
    <3>3. Port!Execute(d)
      BY <2>2, <2>4, <3>1, <3>2 DEF Port!Execute
    <3> QED
      BY <3>3 DEF Port!PortNext
  <2> QED
    BY <2>1, <2>3, <2>4, PlannedFacts
<1>5. CASE ExecFinish
  <2>1. /\ exec_state_ = "EXEC_TRAJ" /\ exec_state_' = "ADJUST_POSE" /\ UNCHANGED bspline
        /\ Over(local_data_)
    BY <1>5 DEF ExecFinish, changeFSMExecState
  <2>2. bspline = local_data_ /\ cmd_vel = 0
    BY <2>1 DEF IInv, ServerInStep, AlignFlagsScoped
  <2>3. is_adjust_pose' = 1 /\ cmd_vel' = 0 /\ still' = still
    BY <1>5, <2>1, <2>2 DEF ExecFinish, Command
  <2>4. bspline.duration - bspline.elapsed = 0
    BY <2>1, <2>2, FSMAssumption DEF Over, IInv, TypeOK, DataOK, Traj
  <2>5. Phase = "EXEC" /\ Phase' = "ADJUST"
    BY <2>1 DEF Phase
  <2>6. Port!Finish
    BY <2>1, <2>2, <2>3, <2>4, <2>5 DEF Port!Finish
  <2> QED
    BY <2>6 DEF Port!PortNext
<1>6. CASE Clock
  <2>0. bspline \in Traj /\ bspline.elapsed <= bspline.duration
    BY DEF IInv, AgesBounded, TypeOK, DataOK
  <2>1. bspline.duration \in Nat /\ bspline.elapsed \in Nat
    <3>1. bspline.duration \in Durations \cup {0} /\ bspline.elapsed \in Nat
      BY <2>0 DEF Traj
    <3>2. \A d \in Durations : d \in Nat
      BY FSMAssumption
    <3>3. \A d \in Durations \cup {0} : d \in Nat
      BY <3>2
    <3> QED
      BY <3>1, <3>3, Zenon
  <2> DEFINE left == bspline.duration - bspline.elapsed
  <2>2. left' = IF left > 0 THEN left - 1 ELSE 0
    <3>1. bspline'.duration = bspline.duration
          /\ bspline'.elapsed = Min2(bspline.elapsed + 1, bspline.duration)
      BY <1>6, <2>0 DEF Clock, Aged, Traj
    <3> QED
      BY <2>0, <2>1, <3>1 DEF Min2
  <2>3. Over(bspline) <=> left = 0
    BY <2>0, <2>1 DEF Over
  <2>4. still' = IF cmd_vel = 0 /\ left = 0 /\ still < Settle THEN still + 1 ELSE still
    <3>1. still \in 0..Settle
      BY DEF IInv, TypeOK, DataOK
    <3>2. still' = IF cmd_vel = 0 /\ left = 0 THEN Min2(still + 1, Settle) ELSE still
      BY <1>6, <2>3 DEF Clock
    <3> QED
      BY <3>1, <3>2, FSMAssumption DEF Min2
  <2>5. UNCHANGED <<Phase, is_adjust_pose, cmd_vel>>
    BY <1>6 DEF Clock, Phase
  <2>6. Port!PassTime
    BY <2>2, <2>4, <2>5 DEF Port!PassTime
  <2> QED
    BY <2>6 DEF Port!PortNext
<1> QED
  BY <1>1, <1>2, <1>3, <1>4, <1>5, <1>6 DEF Next, execFSMCallback

\* The state machine is a PlannerPort, whatever the goals, headings, durations
\* and settling times: what is shown of a node behind the port holds of it.
THEOREM PortImplemented == Spec => ImplementsPort
<1>1. Init => IInv /\ PlanHeld /\ Port!PortInit
  BY InitIInv, PortInitial
<1>2. IInv /\ PlanHeld /\ [Next]_vars => IInv' /\ PlanHeld' /\ [Port!PortNext]_(Port!portVars)
  BY NextIInv, PlanHeldStep, PortStep
<1> QED
  BY <1>1, <1>2, PTL DEF Spec, ImplementsPort, Port!PortSpec

-----------------------------------------------------------------------------
\* The kind of mission is read once.
LEMMA FlightTypeKept == [Next]_vars => target_type_' = target_type_
BY DEF Next, goal_callback, odometryCallback, Clock, execFSMCallback, ExecInit, ExecWaitTarget,
       AdjustRotate, AdjustHold, AdjustRelease, GenFail, ReplanFail, planFromCurrentTraj,
       Planned, GenSuccess, ReplanSuccess, ExecFinish, ExecReplan, vars

\* With preset waypoints the node starts planning, and the target is cleared
\* before it aligns for good and waits.
PresetHeld ==
  target_type_ = "PRESET_TARGET" =>
    /\ exec_state_ # "INIT"
    /\ exec_state_ = "WAIT_TARGET" => ~have_target_
    /\ finalYawAlignActive => ~have_target_

\* PresetRunsOnce: the mission is driven once, whatever the odometry reports
\* and however often a plan fails.
THEOREM PresetIsDrivenOnce == Spec => PresetRunsOnce
<1>0. [Next]_vars => target_type_' = target_type_
  BY FlightTypeKept
<1>1. Init => PresetHeld
  BY DEF Init, PresetHeld
<1>2. PresetHeld /\ [Next]_vars => PresetHeld'
  <2> SUFFICES ASSUME PresetHeld, [Next]_vars, target_type_ = "PRESET_TARGET"
               PROVE  PresetHeld'
    BY <1>0 DEF PresetHeld
  <2> USE DEF PresetHeld
  <2>1. \A g \in Goals : ~goal_callback(g)
    BY DEF goal_callback
  <2>2. ASSUME NEW r \in Yaw, odometryCallback(r) PROVE PresetHeld'
    BY <2>2 DEF odometryCallback, goalVars, alignVars
  <2>3. CASE ExecInit \/ ExecWaitTarget
    BY <2>3 DEF ExecInit, ExecWaitTarget
  <2>4. CASE AdjustRotate \/ AdjustHold
    BY <2>4 DEF AdjustRotate, AdjustHold, stayInState, goalVars
  <2>5. CASE AdjustRelease
    <3>1. UNCHANGED goalVars
      BY <2>5 DEF AdjustRelease
    <3>2. /\ exec_state_' = IF finalYawAlignActive THEN "WAIT_TARGET" ELSE "EXEC_TRAJ"
          /\ finalYawAlignActive' = FALSE
      BY <2>5 DEF AdjustRelease, changeFSMExecState
    <3> QED BY <3>1, <3>2 DEF goalVars
  <2>6. CASE GenFail
    BY <2>6 DEF GenFail, changeFSMExecState, alignVars
  <2>7. ASSUME NEW g \in Yaw, ReplanFail(g) PROVE PresetHeld'
    BY <2>7 DEF ReplanFail, planFromCurrentTraj, changeFSMExecState, alignVars
  <2>8. ASSUME NEW d \in Durations, NEW s \in Yaw, GenSuccess(d, s) PROVE PresetHeld'
    <3>1. /\ exec_state_' \in {"ADJUST_POSE", "EXEC_TRAJ"} /\ finalYawAlignActive' = FALSE
      BY <2>8 DEF GenSuccess, changeFSMExecState
    <3> QED BY <3>1
  <2>9. ASSUME NEW g \in Yaw, NEW d \in Durations, NEW s \in Yaw, ReplanSuccess(g, d, s) PROVE PresetHeld'
    <3>1. exec_state_' = "EXEC_TRAJ" /\ finalYawAlignActive' = FALSE
      BY <2>9 DEF ReplanSuccess, planFromCurrentTraj, changeFSMExecState
    <3> QED BY <3>1
  <2>10. CASE ExecFinish
    <3>1. exec_state_' = "ADJUST_POSE" /\ have_target_' = FALSE
      BY <2>10 DEF ExecFinish, changeFSMExecState
    <3> QED BY <3>1
  <2>11. CASE ExecReplan
    <3>1. exec_state_' = "REPLAN_TRAJ" /\ finalYawAlignActive' = FALSE
      BY <2>11 DEF ExecReplan, changeFSMExecState
    <3> QED BY <3>1
  <2>12. CASE Clock
    BY <2>12 DEF Clock, goalVars
  <2>13. CASE UNCHANGED vars
    BY <2>13 DEF vars, goalVars, alignVars
  <2> QED
    BY <2>1, <2>2, <2>3, <2>4, <2>5, <2>6, <2>7, <2>8, <2>9, <2>10, <2>11, <2>12, <2>13
       DEF Next, execFSMCallback, Planned
<1>3. PresetHeld /\ [Next]_vars => [target_type_ = "PRESET_TARGET" /\ exec_state_ = "WAIT_TARGET"
                                     => exec_state_' = "WAIT_TARGET"]_vars
  <2> SUFFICES ASSUME PresetHeld, [Next]_vars,
                      target_type_ = "PRESET_TARGET", exec_state_ = "WAIT_TARGET"
               PROVE  exec_state_' = "WAIT_TARGET"
    OBVIOUS
  <2>1. \A g \in Goals : ~goal_callback(g)
    BY DEF goal_callback
  <2>2. ~execFSMCallback
    BY DEF PresetHeld, execFSMCallback, Planned, ExecInit, ExecWaitTarget, AdjustRotate, AdjustHold,
           AdjustRelease, GenFail, ReplanFail, planFromCurrentTraj, GenSuccess, ReplanSuccess,
           ExecFinish, ExecReplan
  <2> QED BY <2>1, <2>2 DEF Next, odometryCallback, Clock, vars
<1> QED
  BY <1>1, <1>2, <1>3, PTL DEF Spec, PresetRunsOnce
=============================================================================
