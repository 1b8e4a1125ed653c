---------------------------- MODULE CommandStack ----------------------------
(***************************************************************************)
(* The nodes that command the base, and the topics between them: the       *)
(* planner (PlannerPort), traj_server, SafetyStopGuard and CmdVelBridge.   *)
(*                                                                         *)
(* Each node is spun by one thread and each handler is one action.  A      *)
(* topic is a queue per subscriber that keeps the newest Depth messages;   *)
(* topics are independent of each other, so a later message of one may     *)
(* overtake an earlier one of another.  Time advances by Tick, which waits *)
(* until every timer has fired and every message has been received: the    *)
(* unit of time is the 30 ms period of traj_server, in which the planner's *)
(* 10 ms timer fires once to PlannerRate times.                            *)
(***************************************************************************)
EXTENDS PlannerPort, Integers, Sequences

CONSTANTS
  Depth,               \* queue depth of the subscriptions
  Timeout, Period,     \* the guard's watchdog
  PlannerRate,         \* ticks of the planner in one of traj_server
  stop_on_start_, arm_after_first_cmd_, SelfWatch,
  Drive,               \* the linear speed the MPC asks for
  Spin,                \* the angular speed the planner asks for
  max_abs_linear_x_, max_abs_angular_z_   \* the bridge's limits

ASSUME StackAssumption ==
  /\ Durations # {} /\ Durations \subseteq Nat \ {0}
  /\ Settle \in Nat \ {0} /\ Depth \in Nat \ {0}
  /\ Timeout \in Nat /\ Period \in Nat \ {0} /\ PlannerRate \in Nat \ {0}
  /\ stop_on_start_ \in BOOLEAN /\ arm_after_first_cmd_ \in BOOLEAN /\ SelfWatch \in BOOLEAN
  /\ {Drive, Spin, max_abs_linear_x_, max_abs_angular_z_} \subseteq Nat \ {0}

VARIABLES
  \* messages under way
  bspline_q, adjust_q, emergency_q,   \* to traj_server
  cmd_q,                              \* /cmd_vel to the bridge
  pending,                            \* /cmd_vel to the guard, which only counts them
  \* traj_server
  receive_traj_, traj_left, is_adjust_pose, stop_command,
  spoke,        \* history: the last step of traj_server published on /cmd_vel
  \* the guard
  manual_stop_, emergency_stop_latched_, has_received_cmd_, stop_active_,
  cmd_age, due, emergency,
  base,
  \* how often the timers have fired in this unit of time
  plannerTicks, serverTicks,
  stopped       \* history: time the user's stop has held without a replan

topicVars == <<bspline_q, adjust_q, emergency_q, cmd_q, pending>>
serverVars == <<receive_traj_, traj_left, is_adjust_pose, stop_command>>
guardVars == <<manual_stop_, emergency_stop_latched_, has_received_cmd_, stop_active_,
               cmd_age, due, emergency>>
tickVars == <<plannerTicks, serverTicks>>
vars == <<portVars, topicVars, serverVars, spoke, guardVars, base, tickVars, stopped>>

Guard == INSTANCE SafetyStopGuard
           WITH held <- 0, sinceStop <- 0, silence <- 0, Punctual <- TRUE

Cmd(x, z) == [linear |-> x, angular |-> z]
Zero == Cmd(0, 0)

\* a queue that keeps the newest Depth messages
Push(q, msgs) ==
  LET all == q \o msgs IN SubSeq(all, (IF Len(all) > Depth THEN Len(all) - Depth ELSE 0) + 1, Len(all))
Waiting(q) == Len(q) > 0

\* the unit in which the user stops, the one in which the guard tells traj_server,
\* and the one in which zero is the only command left
StopHorizon == 3
Longest == CHOOSE d \in Durations : \A e \in Durations : e <= d

Init ==
  /\ PortInit
  /\ bspline_q = <<>> /\ adjust_q = <<>> /\ emergency_q = <<>> /\ cmd_q = <<>>
  /\ receive_traj_ = FALSE /\ traj_left = 0
  /\ is_adjust_pose = 0 /\ stop_command = 0 /\ spoke = FALSE
  /\ Guard!GuardInit
  /\ base = Zero /\ plannerTicks = 0 /\ serverTicks = 0 /\ stopped = 0

-----------------------------------------------------------------------------
(* Publishing on /cmd_vel reaches the bridge and the guard.                *)

PublishCmds(cmds) ==
  /\ cmd_q' = Push(cmd_q, cmds)
  /\ pending' = Guard!Min2(pending + Len(cmds), Depth)

(* The planner node: what each step publishes, in the code's order.        *)

PlannerSends(cmds, claims, trajs, stops) ==
  /\ PublishCmds(cmds)
  /\ adjust_q' = Push(adjust_q, claims)
  /\ bspline_q' = Push(bspline_q, trajs)
  /\ emergency_q' = Push(emergency_q, stops)
  /\ stopped' = IF stops = <<>> THEN stopped ELSE 0
  /\ plannerTicks < PlannerRate /\ plannerTicks' = plannerTicks + 1
  /\ spoke' = FALSE
  /\ UNCHANGED <<serverTicks, serverVars, guardVars, base>>

\* a tick of the state machine that only waits, or plans and fails
PlannerIdle ==
  /\ phase # "ADJUST"
  /\ PlannerSends(<<>>, <<>>, <<>>, <<>>)
  /\ UNCHANGED portVars

\* a successful replan also releases traj_server from a stop
PlannerExecute ==
  \E d \in Durations :
    /\ Execute(d)
    /\ PlannerSends(<<>>, <<>>, <<d>>, IF phase = "EXEC" THEN <<0>> ELSE <<>>)

PlannerBeginAdjust == BeginAdjust /\ PlannerSends(<<>>, <<>>, <<>>, <<>>)

PlannerRotate ==
  \E w \in {Spin, -Spin} : Rotate /\ PlannerSends(<<Cmd(0, w)>>, <<1>>, <<>>, <<>>)

PlannerHold == Hold /\ PlannerSends(<<Zero>>, <<1>>, <<>>, <<>>)

PlannerRelease ==
  /\ Release
  /\ PlannerSends(<<Zero>>, <<1, 0>>, IF phase' = "EXEC" THEN <<left'>> ELSE <<>>, <<>>)

PlannerFinish == Finish /\ PlannerSends(<<>>, <<1>>, <<>>, <<>>)

Planner ==
  \/ PlannerIdle \/ PlannerExecute \/ PlannerBeginAdjust
  \/ PlannerRotate \/ PlannerHold \/ PlannerRelease \/ PlannerFinish

-----------------------------------------------------------------------------
(* traj_server.                                                            *)

ServerKeeps == UNCHANGED <<portVars, guardVars, base, stopped>>

\* Mutant: a new trajectory is not taken while one is running.
bsplineCallback_FirstWins ==
  /\ Waiting(bspline_q)
  /\ traj_left' = IF traj_left > 0 THEN traj_left ELSE Head(bspline_q)
  /\ receive_traj_' = TRUE
  /\ bspline_q' = Tail(bspline_q) /\ spoke' = FALSE
  /\ UNCHANGED <<is_adjust_pose, stop_command, adjust_q, emergency_q, cmd_q, pending, tickVars>>
  /\ ServerKeeps

bsplineCallback ==
  /\ Waiting(bspline_q)
  /\ traj_left' = Head(bspline_q) /\ receive_traj_' = TRUE
  /\ bspline_q' = Tail(bspline_q) /\ spoke' = FALSE
  /\ UNCHANGED <<is_adjust_pose, stop_command, adjust_q, emergency_q, cmd_q, pending, tickVars>>
  /\ ServerKeeps

adjust_yaw_Callback ==
  /\ Waiting(adjust_q)
  /\ is_adjust_pose' = Head(adjust_q)
  /\ adjust_q' = Tail(adjust_q) /\ spoke' = FALSE
  /\ UNCHANGED <<receive_traj_, traj_left, stop_command, bspline_q, emergency_q, cmd_q,
                 pending, tickVars>>
  /\ ServerKeeps

\* Mutant: a stop once received is kept.
stopCallback_Latches ==
  /\ Waiting(emergency_q)
  /\ stop_command' = IF Head(emergency_q) = 1 THEN 1 ELSE stop_command
  /\ emergency_q' = Tail(emergency_q) /\ spoke' = FALSE
  /\ UNCHANGED <<receive_traj_, traj_left, is_adjust_pose, bspline_q, adjust_q, cmd_q,
                 pending, tickVars>>
  /\ ServerKeeps

stopCallback ==
  /\ Waiting(emergency_q)
  /\ stop_command' = Head(emergency_q)
  /\ emergency_q' = Tail(emergency_q) /\ spoke' = FALSE
  /\ UNCHANGED <<receive_traj_, traj_left, is_adjust_pose, bspline_q, adjust_q, cmd_q,
                 pending, tickVars>>
  /\ ServerKeeps

\* Mutant: tracking goes on beyond the end of the trajectory.
ServerCmds_Endless ==
  IF stop_command = 1 THEN <<Zero>>
  ELSE IF is_adjust_pose = 1 \/ ~receive_traj_ THEN <<>> ELSE <<Cmd(Drive, 0)>>

\* A stop is obeyed first; under the planner's claim, or before the first
\* trajectory, nothing is published; at the end zero is published twice.
\* The start lies in the past, so "invalid time" does not occur.
ServerCmds ==
  IF stop_command = 1 THEN <<Zero>>
  ELSE IF is_adjust_pose = 1 \/ ~receive_traj_ THEN <<>>
  ELSE IF traj_left > 0 THEN <<Cmd(Drive, 0)>> ELSE <<Zero, Zero>>

cmdCallback ==
  /\ serverTicks = 0 /\ serverTicks' = 1
  /\ PublishCmds(ServerCmds)
  /\ spoke' = (ServerCmds # <<>>)
  /\ UNCHANGED <<serverVars, bspline_q, adjust_q, emergency_q, plannerTicks>>
  /\ ServerKeeps

Server == bsplineCallback \/ adjust_yaw_Callback \/ stopCallback \/ cmdCallback

-----------------------------------------------------------------------------
(* The guard, whose stop also goes straight to the base, and the bridge.   *)

GuardKeeps == UNCHANGED <<portVars, serverVars, bspline_q, adjust_q, tickVars>> /\ spoke' = FALSE

GuardSends(stops) == emergency_q' = Push(emergency_q, stops)

GuardCmd ==
  /\ Guard!cmdCallback
  /\ GuardSends(IF stop_active_ /\ ~manual_stop_ THEN <<0>> ELSE <<>>)
  /\ UNCHANGED <<cmd_q, base, stopped>>
  /\ GuardKeeps

\* the user presses or releases the stop
GuardManual(data) ==
  /\ data # manual_stop_
  /\ Guard!manualStopCallback(data)
  /\ GuardSends(IF data THEN <<>> ELSE <<0>>)
  /\ stopped' = 0
  /\ UNCHANGED <<cmd_q, base>>
  /\ GuardKeeps

\* Mutant: traj_server is told of a stop once.
GuardTimer_TellsOnce ==
  /\ Guard!timerCallback
  /\ IF Guard!StopCondition
     THEN /\ GuardSends(IF stop_active_ THEN <<>> ELSE <<1>>) /\ base' = Zero
          /\ cmd_q' = IF SelfWatch THEN Push(cmd_q, <<Zero>>) ELSE cmd_q
     ELSE /\ GuardSends(IF stop_active_ THEN <<0>> ELSE <<>>)
          /\ UNCHANGED <<cmd_q, base>>
  /\ UNCHANGED stopped
  /\ GuardKeeps

GuardTimer ==
  /\ Guard!timerCallback
  /\ IF Guard!StopCondition
     THEN /\ GuardSends(<<1>>) /\ base' = Zero
          /\ cmd_q' = IF SelfWatch THEN Push(cmd_q, <<Zero>>) ELSE cmd_q
     ELSE /\ GuardSends(IF stop_active_ THEN <<0>> ELSE <<>>)
          /\ UNCHANGED <<cmd_q, base>>
  /\ UNCHANGED stopped
  /\ GuardKeeps

GuardNode == GuardCmd \/ (\E data \in BOOLEAN : GuardManual(data)) \/ GuardTimer

saturate(value, max_abs) ==
  IF value > max_abs THEN max_abs ELSE IF value < -max_abs THEN -max_abs ELSE value

BridgeCmd ==
  /\ Waiting(cmd_q) /\ cmd_q' = Tail(cmd_q)
  /\ base' = Cmd(saturate(Head(cmd_q).linear, max_abs_linear_x_),
                 saturate(Head(cmd_q).angular, max_abs_angular_z_))
  /\ spoke' = FALSE
  /\ UNCHANGED <<portVars, bspline_q, adjust_q, emergency_q, pending, serverVars, guardVars,
                 tickVars, stopped>>

-----------------------------------------------------------------------------

Delivered == ~Waiting(bspline_q) /\ ~Waiting(adjust_q) /\ ~Waiting(emergency_q)
             /\ ~Waiting(cmd_q) /\ pending = 0

Tick ==
  /\ Delivered /\ plannerTicks > 0 /\ serverTicks = 1 /\ due > 0
  /\ PassTime
  /\ traj_left' = IF traj_left > 0 THEN traj_left - 1 ELSE 0
  /\ cmd_age' = Guard!Older(cmd_age) /\ due' = due - 1
  /\ stopped' = IF manual_stop_ THEN Guard!Min2(stopped + 1, StopHorizon) ELSE 0
  /\ plannerTicks' = 0 /\ serverTicks' = 0 /\ spoke' = FALSE
  /\ UNCHANGED <<topicVars, receive_traj_, is_adjust_pose, stop_command, manual_stop_,
                 emergency_stop_latched_, has_received_cmd_, stop_active_, emergency, base>>

Next == Planner \/ Server \/ GuardNode \/ BridgeCmd \/ Tick

Spec == Init /\ [][Next]_vars

\* Every node keeps running and time passes.
FairSpec ==
  Spec /\ WF_vars(Planner) /\ WF_vars(Server) /\ WF_vars(GuardCmd) /\ WF_vars(GuardTimer)
       /\ WF_vars(BridgeCmd) /\ SF_vars(Tick)

-----------------------------------------------------------------------------
(* Properties.                                                             *)

\* traj_server executes the planner's trajectory with the planner's clock,
\* once what was published has arrived, through replans and stops.
OneTrajectory ==
  phase = "EXEC" /\ ~Waiting(bspline_q) => receive_traj_ /\ traj_left = left

\* With no command under way, the base is not driven once the planner turns it,
\* and stands still while the planner rests: the last word on /cmd_vel is never
\* a stale tracking command, even while the claim is still on its way to
\* traj_server.
NoStaleDrive ==
  ~Waiting(cmd_q) =>
    /\ phase = "ADJUST" /\ turning => base.linear = 0
    /\ phase = "REST" => base = Zero

\* A manual stop is in force within three units of time: unless the planner
\* replans, which releases traj_server, the robot does not drive.
ManualStopInForce == stopped >= StopHorizon => base.linear = 0

\* "During yaw-adjust phase, ownership of /cmd_vel belongs to ego_planner_node.
\* traj_server must stay silent" (traj_server.cpp:259).
SilentDuringAdjust == spoke => is_adjust_pose = 0

\* A stop told to traj_server is taken back unless the user holds it, although
\* under it nobody may be publishing but traj_server itself.
StopReleased == stop_command = 1 ~> stop_command = 0 \/ manual_stop_
=============================================================================
