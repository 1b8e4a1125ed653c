------------------------ MODULE CommandStack_proofs ------------------------
(***************************************************************************)
(* Who moves the base when, for every queue depth, set of durations, rate  *)
(* and speed: traj_server follows the trajectory of the planner, no stale  *)
(* command moves the base, and a manual stop is obeyed.                    *)
(***************************************************************************)
EXTENDS CommandStack, SequenceTheorems, TLAPS

\* What was said last on a topic: the newest message under way, or what the
\* subscriber made of the last one.
Last(q, heard) == IF q = <<>> THEN heard ELSE q[Len(q)]

-----------------------------------------------------------------------------
(* Queues.                                                                 *)

\* A queue keeps the newest messages, at most Depth of them.
LEMMA PushKeeps ==
  ASSUME NEW S, NEW q \in Seq(S), NEW m \in Seq(S)
  PROVE  /\ Push(q, m) \in Seq(S) /\ Len(Push(q, m)) <= Depth
         /\ m # <<>> => /\ Push(q, m) # <<>>
                        /\ \A heard : Last(Push(q, m), heard) = m[Len(m)]
<1> DEFINE all == q \o m
           cut == IF Len(all) > Depth THEN Len(all) - Depth ELSE 0
<1>1. Depth \in Nat \ {0}
  BY StackAssumption
<1>2. all \in Seq(S) /\ Len(all) = Len(q) + Len(m) /\ Len(all) \in Nat
  BY ConcatProperties
<1>3. cut \in Nat /\ cut <= Len(all) /\ Len(all) - cut <= Depth
      /\ (Len(all) > 0 => cut < Len(all))
  BY <1>1, <1>2
<1>4. Push(q, m) = SubSeq(all, cut + 1, Len(all))
  BY DEF Push
<1> HIDE DEF cut
<1>5. /\ SubSeq(all, cut + 1, Len(all)) \in Seq(S)
      /\ Len(SubSeq(all, cut + 1, Len(all))) = Len(all) - cut
      /\ \A i \in 1 .. Len(all) - cut : SubSeq(all, cut + 1, Len(all))[i] = all[cut + i]
  <2> HIDE DEF all
  <2> QED
    BY <1>2, <1>3
<1>6. m # <<>> => Len(m) \in Nat \ {0} /\ all[Len(all)] = m[Len(m)]
  <2> SUFFICES ASSUME m # <<>> PROVE Len(m) \in Nat \ {0} /\ all[Len(all)] = m[Len(m)]
    OBVIOUS
  <2>1. Len(m) \in Nat \ {0} /\ Len(q) \in Nat
    BY EmptySeq
  <2>2. (q \o m)[Len(q) + Len(m)] = m[Len(m)]
    BY <2>1
  <2> QED
    BY <1>2, <2>1, <2>2
<1>7. ASSUME m # <<>>, NEW heard PROVE Push(q, m) # <<>> /\ Last(Push(q, m), heard) = m[Len(m)]
  <2> DEFINE n == Len(all) - cut
  <2>0. Len(q) \in Nat
    OBVIOUS
  <2>1. n \in Nat \ {0}
    BY <1>2, <1>3, <1>6, <1>7, <2>0
  <2>2. Push(q, m)[n] = all[Len(all)] /\ Len(Push(q, m)) = n
    <3> HIDE DEF all
    <3>1. cut + n = Len(all)
      BY <1>2, <1>3
    <3> QED
      BY <1>4, <1>5, <2>1, <3>1
  <2>3. Push(q, m) # <<>>
    BY <2>1, <2>2
  <2> QED
    BY <1>6, <1>7, <2>2, <2>3 DEF Last
<1>8. m # <<>> => Push(q, m) # <<>>
  BY <1>7
<1> QED
  BY <1>3, <1>4, <1>5, <1>7, <1>8

\* Publishing nothing changes nothing.
LEMMA PushNothing ==
  ASSUME NEW S, NEW q \in Seq(S), Len(q) <= Depth
  PROVE  Push(q, <<>>) = q
<1>1. q \o <<>> = q
  OBVIOUS
<1>2. ~(Len(q) > Depth) /\ Len(q) \in Nat
  BY StackAssumption
<1>3. SubSeq(q, 0 + 1, Len(q)) = q
  BY <1>2
<1> QED
  BY <1>1, <1>2, <1>3 DEF Push

\* A message published is the last word.
LEMMA PushOne ==
  ASSUME NEW S, NEW q \in Seq(S), NEW x \in S
  PROVE  /\ Push(q, <<x>>) \in Seq(S) /\ Len(Push(q, <<x>>)) <= Depth
         /\ Push(q, <<x>>) # <<>>
         /\ \A heard : Last(Push(q, <<x>>), heard) = x
<1>1. <<x>> \in Seq(S) /\ <<x>> # <<>> /\ Len(<<x>>) = 1 /\ <<x>>[1] = x
  OBVIOUS
<1> QED
  BY <1>1, PushKeeps

\* Receiving a message leaves the rest, and the last word, as they are.
LEMMA ReceiveOne ==
  ASSUME NEW S, NEW q \in Seq(S), Waiting(q)
  PROVE  /\ Head(q) \in S /\ Tail(q) \in Seq(S)
         /\ Len(q) <= Depth => Len(Tail(q)) <= Depth
         /\ \A heard : Last(q, heard) = Last(Tail(q), Head(q))
         /\ \A heard : Tail(q) # <<>> => Last(Tail(q), heard) = Last(q, heard)
         /\ Tail(q) = <<>> => \A heard : Last(q, heard) = Head(q)
<1>1. Len(q) \in Nat \ {0} /\ q # <<>>
  BY DEF Waiting
<1>2. Head(q) = q[1] /\ Head(q) \in S /\ Tail(q) \in Seq(S) /\ Len(Tail(q)) = Len(q) - 1
  BY <1>1, HeadTailProperties
<1>3. Tail(q) = <<>> => Len(q) = 1
  <2>1. Tail(q) = <<>> => Len(Tail(q)) = 0
    BY <1>2, EmptySeq
  <2> QED
    BY <1>1, <1>2, <2>1
<1>4. Tail(q) # <<>> => Tail(q)[Len(Tail(q))] = q[Len(q)]
  <2> SUFFICES ASSUME Tail(q) # <<>> PROVE Tail(q)[Len(Tail(q))] = q[Len(q)]
    OBVIOUS
  <2>1. Len(Tail(q)) \in Nat \ {0}
    BY <1>2, EmptySeq
  <2> QED
    BY <1>1, <1>2, <2>1, HeadTailProperties
<1>5. Len(q) <= Depth => Len(Tail(q)) <= Depth
  BY <1>1, <1>2, StackAssumption
<1> QED
  BY <1>1, <1>2, <1>3, <1>4, <1>5 DEF Last

-----------------------------------------------------------------------------
(* The invariant.                                                          *)

Commands == [linear : Int, angular : Int]
Still == [linear : {0}, angular : Int]

\* the last word on /cmd_vel, the base's included
Eff == Last(cmd_q, base)

PortTyped == phase \in {"REST", "ADJUST", "EXEC"} /\ left \in Nat /\ traj_left \in Nat
TrajTyped == bspline_q \in Seq(Durations) /\ Len(bspline_q) <= Depth
StopTyped == emergency_q \in Seq({0, 1}) /\ Len(emergency_q) <= Depth /\ stop_command \in {0, 1}
CmdTyped == cmd_q \in Seq(Commands) /\ Len(cmd_q) <= Depth /\ base \in Commands
ClockTyped == due \in 0..Period /\ stopped \in 0..StopHorizon
Typed == PortTyped /\ TrajTyped /\ StopTyped /\ CmdTyped /\ ClockTyped

\* The trajectory last published is the one the planner executes, under way or
\* taken up; outside execution none is under way or left to run.
Tracked ==
  /\ phase = "EXEC" => IF bspline_q = <<>> THEN receive_traj_ /\ traj_left = left
                                          ELSE bspline_q[Len(bspline_q)] = left
  /\ phase # "EXEC" => bspline_q = <<>> /\ traj_left = 0 /\ left = 0

\* The last word on /cmd_vel is never a tracking command of an execution that is over.
NotStale ==
  /\ phase # "ADJUST" => ~turning
  /\ phase = "ADJUST" /\ turning => Eff.linear = 0
  /\ phase = "REST" => Eff = Zero

\* A stop held for one unit is told to traj_server, for two is the only thing it
\* hears and does, for three is all that reaches the base.
Obeyed ==
  /\ stopped >= 1 => manual_stop_
  /\ stopped >= 1 /\ due > 0 => Last(emergency_q, stop_command) = 1
  /\ stopped >= 2 => stop_command = 1 /\ emergency_q \in Seq({1}) /\ cmd_q \in Seq(Still)
  /\ stopped >= 2 /\ serverTicks = 1 => Eff.linear = 0
  /\ stopped >= 3 => base.linear = 0

-----------------------------------------------------------------------------
(* What the nodes publish.                                                 *)

\* The constants, one fact at a time.
LEMMA Durable == Durations \subseteq Nat \ {0}
BY StackAssumption

LEMMA Speeds == Drive \in Int /\ Spin \in Int /\ max_abs_linear_x_ \in Nat \ {0}
                /\ max_abs_angular_z_ \in Nat \ {0}
BY StackAssumption

LEMMA Sizes == Depth \in Nat \ {0} /\ Period \in Nat \ {0}
BY StackAssumption

\* The planner node never drives: what it publishes turns the robot or holds it,
\* and the only thing it tells traj_server of stops is that they are over.
LEMMA PlannerShape ==
  ASSUME Planner
  PROVE  \E cmds \in Seq(Still), claims \in Seq({0, 1}), trajs \in Seq(Durations),
            stops \in Seq({0}) : PlannerSends(cmds, claims, trajs, stops)
<1>1. <<>> \in Seq(Still) /\ <<>> \in Seq({0, 1}) /\ <<>> \in Seq(Durations) /\ <<>> \in Seq({0})
      /\ <<0>> \in Seq({0}) /\ <<1>> \in Seq({0, 1}) /\ <<1, 0>> \in Seq({0, 1})
  OBVIOUS
<1>2. \A w \in Int : <<Cmd(0, w)>> \in Seq(Still)
  <2>1. \A w \in Int : Cmd(0, w) \in Still
    BY DEF Cmd, Still
  <2> QED
    BY <2>1
<1>3. \A d \in Durations : <<d>> \in Seq(Durations)
  OBVIOUS
<1>4. <<Zero>> \in Seq(Still)
  BY <1>2 DEF Zero
<1>5. CASE PlannerIdle
  BY <1>1, <1>5 DEF PlannerIdle
<1>6. CASE PlannerExecute
  <2>1. PICK d \in Durations :
          PlannerSends(<<>>, <<>>, <<d>>, IF phase = "EXEC" THEN <<0>> ELSE <<>>)
    BY <1>6 DEF PlannerExecute
  <2>2. (IF phase = "EXEC" THEN <<0>> ELSE <<>>) \in Seq({0})
    BY <1>1
  <2> QED
    BY <1>1, <1>3, <2>1, <2>2
<1>7. CASE PlannerBeginAdjust
  BY <1>1, <1>7 DEF PlannerBeginAdjust
<1>8. CASE PlannerRotate
  <2>1. PICK w \in {Spin, -Spin} : PlannerSends(<<Cmd(0, w)>>, <<1>>, <<>>, <<>>)
    BY <1>8 DEF PlannerRotate
  <2>2. w \in Int
    BY Speeds
  <2> QED
    BY <1>1, <1>2, <2>1, <2>2
<1>9. CASE PlannerHold
  BY <1>1, <1>4, <1>9 DEF PlannerHold
<1>10. CASE PlannerRelease
  <2>1. phase' = "EXEC" => left' \in Durations
    BY <1>10 DEF PlannerRelease, Release
  <2>2. (IF phase' = "EXEC" THEN <<left'>> ELSE <<>>) \in Seq(Durations)
    BY <1>1, <1>3, <2>1
  <2> QED
    BY <1>1, <1>4, <1>10, <2>2 DEF PlannerRelease
<1>11. CASE PlannerFinish
  BY <1>1, <1>11 DEF PlannerFinish
<1> QED
  BY <1>5, <1>6, <1>7, <1>8, <1>9, <1>10, <1>11 DEF Planner

\* Outside an execution, and under a stop, traj_server never drives.
LEMMA ServerShape ==
  ASSUME PortTyped
  PROVE  /\ ServerCmds \in Seq(Commands)
         /\ stop_command = 1 => ServerCmds = <<Zero>>
         /\ traj_left = 0 => ServerCmds \in {<<>>, <<Zero>>, <<Zero, Zero>>}
<1>1. Zero \in Commands /\ Cmd(Drive, 0) \in Commands
  BY Speeds DEF Zero, Cmd, Commands
<1>2. ServerCmds \in {<<>>, <<Zero>>, <<Zero, Zero>>, <<Cmd(Drive, 0)>>}
  BY DEF ServerCmds
<1>3. ServerCmds \in Seq(Commands)
  <2>1. \A c \in Commands : <<c>> \in Seq(Commands) /\ <<c, c>> \in Seq(Commands)
    OBVIOUS
  <2>2. <<>> \in Seq(Commands) /\ <<Zero>> \in Seq(Commands) /\ <<Zero, Zero>> \in Seq(Commands)
        /\ <<Cmd(Drive, 0)>> \in Seq(Commands)
    BY <1>1, <2>1
  <2> QED
    BY <1>2, <2>2
<1>4. traj_left = 0 => ServerCmds \in {<<>>, <<Zero>>, <<Zero, Zero>>}
  BY DEF ServerCmds
<1>5. stop_command = 1 => ServerCmds = <<Zero>>
  BY DEF ServerCmds
<1> QED
  BY <1>3, <1>4, <1>5

\* What the bridge makes of a command: bounded, and still if the command is.
LEMMA Saturated ==
  ASSUME NEW c \in Commands
  PROVE  LET b == Cmd(saturate(c.linear, max_abs_linear_x_), saturate(c.angular, max_abs_angular_z_))
         IN b \in Commands /\ (c.linear = 0 => b.linear = 0) /\ (c = Zero => b = Zero)
<1>1. \A v \in Int, m \in Nat \ {0} : saturate(v, m) \in Int /\ saturate(0, m) = 0
  BY DEF saturate
<1>2. c.linear \in Int /\ c.angular \in Int
  BY DEF Commands
<1>3. Zero.linear = 0 /\ Zero.angular = 0
  BY DEF Zero, Cmd
<1> QED
  BY <1>1, <1>2, <1>3, Speeds DEF Commands, Cmd, Zero

\* A sequence over a set is one over any larger set.
LEMMA SeqUp ==
  ASSUME NEW S, NEW B, S \subseteq B, NEW q \in Seq(S)
  PROVE  q \in Seq(B)
<1>1. Len(q) \in Nat /\ q \in [1 .. Len(q) -> S]
  BY LenProperties
<1>2. q \in [1 .. Len(q) -> B]
  BY <1>1
<1> QED
  BY <1>1, <1>2, SeqDef

-----------------------------------------------------------------------------
(* Types.                                                                  *)

\* The state of the planner and the clock of traj_server keep their types.
LEMMA PortStep == ASSUME PortTyped, TrajTyped, [Next]_vars PROVE PortTyped'
<1> USE DEF PortTyped
<1>1. CASE Planner
  <2>1. phase' \in {"REST", "ADJUST", "EXEC"} /\ left' \in Nat
    BY <1>1, Durable DEF Planner, PlannerIdle, PlannerExecute, PlannerBeginAdjust, PlannerRotate,
       PlannerHold, PlannerRelease, PlannerFinish, Execute, BeginAdjust, Rotate, Hold, Release,
       Finish, portVars
  <2>2. traj_left' = traj_left
    BY <1>1, PlannerShape DEF PlannerSends, serverVars
  <2> QED
    BY <2>1, <2>2
<1>2. CASE bsplineCallback
  <2>1. Head(bspline_q) \in Durations
    BY <1>2, ReceiveOne DEF bsplineCallback, TrajTyped
  <2> QED
    BY <1>2, <2>1, Durable DEF bsplineCallback, ServerKeeps, portVars
<1>3. CASE adjust_yaw_Callback \/ stopCallback \/ cmdCallback
  BY <1>3 DEF adjust_yaw_Callback, stopCallback, cmdCallback, ServerKeeps, serverVars, portVars
<1>4. CASE GuardNode
  BY <1>4 DEF GuardNode, GuardCmd, GuardManual, GuardTimer, GuardKeeps, serverVars, portVars
<1>5. CASE BridgeCmd
  BY <1>5 DEF BridgeCmd, serverVars, portVars
<1>6. CASE Tick
  BY <1>6 DEF Tick, PassTime
<1>7. CASE UNCHANGED vars
  BY <1>7 DEF vars, serverVars, portVars
<1> QED
  BY <1>1, <1>2, <1>3, <1>4, <1>5, <1>6, <1>7 DEF Next, Server

\* So does the queue of trajectories.
LEMMA TrajStep == ASSUME TrajTyped, [Next]_vars PROVE TrajTyped'
<1> USE DEF TrajTyped
<1>1. CASE Planner
  <2>1. PICK trajs \in Seq(Durations) : bspline_q' = Push(bspline_q, trajs)
    BY <1>1, PlannerShape DEF PlannerSends
  <2> QED
    BY <2>1, PushKeeps
<1>2. CASE bsplineCallback
  BY <1>2, ReceiveOne DEF bsplineCallback
<1>3. CASE adjust_yaw_Callback \/ stopCallback \/ cmdCallback
  BY <1>3 DEF adjust_yaw_Callback, stopCallback, cmdCallback
<1>4. CASE GuardNode
  BY <1>4 DEF GuardNode, GuardCmd, GuardManual, GuardTimer, GuardKeeps
<1>5. CASE BridgeCmd \/ Tick \/ UNCHANGED vars
  BY <1>5 DEF BridgeCmd, Tick, vars, topicVars
<1> QED
  BY <1>1, <1>2, <1>3, <1>4, <1>5 DEF Next, Server

\* And what traj_server knows, or is about to be told, of stops.
LEMMA StopStep == ASSUME StopTyped, [Next]_vars PROVE StopTyped'
<1> USE DEF StopTyped
<1>1. <<>> \in Seq({0, 1}) /\ <<0>> \in Seq({0, 1}) /\ <<1>> \in Seq({0, 1})
  OBVIOUS
<1>2. CASE Planner
  <2>1. PICK stops \in Seq({0}) : emergency_q' = Push(emergency_q, stops)
    BY <1>2, PlannerShape DEF PlannerSends
  <2>2. stops \in Seq({0, 1})
    BY SeqUp
  <2>3. stop_command' = stop_command
    BY <1>2, PlannerShape DEF PlannerSends, serverVars
  <2>4. Push(emergency_q, stops) \in Seq({0, 1}) /\ Len(Push(emergency_q, stops)) <= Depth
    BY <2>2, PushKeeps
  <2> QED
    BY <2>1, <2>3, <2>4
<1>3. CASE stopCallback
  <2>1. /\ Head(emergency_q) \in {0, 1} /\ Tail(emergency_q) \in Seq({0, 1})
        /\ Len(Tail(emergency_q)) <= Depth
    BY <1>3, ReceiveOne DEF stopCallback
  <2> QED
    BY <1>3, <2>1 DEF stopCallback
<1>4. CASE bsplineCallback \/ adjust_yaw_Callback \/ cmdCallback
  BY <1>4 DEF bsplineCallback, adjust_yaw_Callback, cmdCallback, serverVars
<1>5. CASE GuardNode
  <2>1. \E stops \in {<<>>, <<0>>, <<1>>} : emergency_q' = Push(emergency_q, stops)
    BY <1>5 DEF GuardNode, GuardCmd, GuardManual, GuardTimer, GuardSends
  <2>2. stop_command' = stop_command
    BY <1>5 DEF GuardNode, GuardCmd, GuardManual, GuardTimer, GuardKeeps, serverVars
  <2>3. \A stops \in {<<>>, <<0>>, <<1>>} :
          Push(emergency_q, stops) \in Seq({0, 1}) /\ Len(Push(emergency_q, stops)) <= Depth
    BY <1>1, PushKeeps
  <2> QED
    BY <2>1, <2>2, <2>3
<1>6. CASE BridgeCmd \/ Tick \/ UNCHANGED vars
  BY <1>6 DEF BridgeCmd, Tick, vars, topicVars, serverVars
<1> QED
  BY <1>2, <1>3, <1>4, <1>5, <1>6 DEF Next, Server

\* And the commands of the base.
LEMMA CmdStep == ASSUME PortTyped, CmdTyped, [Next]_vars PROVE CmdTyped'
<1> USE DEF CmdTyped
<1>1. Zero \in Commands /\ Still \subseteq Commands
  BY DEF Zero, Cmd, Commands, Still
<1>2. CASE Planner
  <2>1. PICK cmds \in Seq(Still) : cmd_q' = Push(cmd_q, cmds)
    BY <1>2, PlannerShape DEF PlannerSends, PublishCmds
  <2>2. cmds \in Seq(Commands)
    BY <1>1, SeqUp
  <2>3. base' = base
    BY <1>2, PlannerShape DEF PlannerSends
  <2>4. Push(cmd_q, cmds) \in Seq(Commands) /\ Len(Push(cmd_q, cmds)) <= Depth
    BY <2>2, PushKeeps
  <2> QED
    BY <2>1, <2>3, <2>4
<1>3. CASE cmdCallback
  <2>1. Push(cmd_q, ServerCmds) \in Seq(Commands) /\ Len(Push(cmd_q, ServerCmds)) <= Depth
    BY ServerShape, PushKeeps
  <2> QED
    BY <1>3, <2>1 DEF cmdCallback, PublishCmds, ServerKeeps
<1>4. CASE bsplineCallback \/ adjust_yaw_Callback \/ stopCallback
  BY <1>4 DEF bsplineCallback, adjust_yaw_Callback, stopCallback, ServerKeeps
<1>5. CASE GuardCmd \/ \E data \in BOOLEAN : GuardManual(data)
  BY <1>5 DEF GuardCmd, GuardManual
<1>6. CASE GuardTimer
  <2>1. Push(cmd_q, <<Zero>>) \in Seq(Commands) /\ Len(Push(cmd_q, <<Zero>>)) <= Depth
    BY <1>1, PushOne
  <2>2. cmd_q' \in {cmd_q, Push(cmd_q, <<Zero>>)} /\ base' \in {base, Zero}
    BY <1>6 DEF GuardTimer
  <2> QED
    BY <1>1, <2>1, <2>2
<1>7. CASE BridgeCmd
  <2>1. /\ Head(cmd_q) \in Commands /\ Tail(cmd_q) \in Seq(Commands)
        /\ Len(Tail(cmd_q)) <= Depth
    BY <1>7, ReceiveOne DEF BridgeCmd
  <2>2. base' \in Commands
    BY <1>7, <2>1, Saturated DEF BridgeCmd
  <2> QED
    BY <1>7, <2>1, <2>2 DEF BridgeCmd
<1>8. CASE Tick \/ UNCHANGED vars
  BY <1>8 DEF Tick, vars, topicVars
<1> QED
  BY <1>2, <1>3, <1>4, <1>5, <1>6, <1>7, <1>8 DEF Next, Server, GuardNode

\* And the clocks.
LEMMA ClockStep == ASSUME ClockTyped, [Next]_vars PROVE ClockTyped'
<1> USE Sizes DEF ClockTyped, StopHorizon
<1>1. CASE Planner
  <2>1. stopped' \in {stopped, 0} /\ due' = due
    <3>1. PICK stops : stopped' = IF stops = <<>> THEN stopped ELSE 0
      BY <1>1, PlannerShape DEF PlannerSends
    <3>2. due' = due
      BY <1>1, PlannerShape DEF PlannerSends, guardVars
    <3> QED
      BY <3>1, <3>2
  <2> QED
    BY <2>1
<1>2. CASE Server
  BY <1>2 DEF Server, bsplineCallback, adjust_yaw_Callback, stopCallback, cmdCallback,
     ServerKeeps, guardVars
<1>3. CASE GuardNode
  BY <1>3 DEF GuardNode, GuardCmd, GuardManual, GuardTimer, Guard!cmdCallback,
     Guard!manualStopCallback, Guard!timerCallback
<1>4. CASE BridgeCmd \/ UNCHANGED vars
  BY <1>4 DEF BridgeCmd, vars, guardVars
<1>5. CASE Tick
  BY <1>5 DEF Tick, Guard!Min2
<1> QED
  BY <1>1, <1>2, <1>3, <1>4, <1>5 DEF Next

\* What every node and topic holds has its type.
LEMMA TypedStep == ASSUME Typed, [Next]_vars PROVE Typed'
BY PortStep, TrajStep, StopStep, CmdStep, ClockStep DEF Typed

-----------------------------------------------------------------------------
(* One trajectory.                                                         *)

\* A queue is empty when nothing waits in it.
LEMMA Unheard == ASSUME NEW S, NEW q \in Seq(S) PROVE Waiting(q) <=> q # <<>>
BY EmptySeq DEF Waiting

\* A step of the planner that publishes no trajectory leaves that topic alone.
LEMMA QuietPlanner ==
  ASSUME TrajTyped,
         \/ PlannerIdle \/ PlannerBeginAdjust \/ PlannerRotate \/ PlannerHold \/ PlannerFinish
         \/ PlannerRelease /\ phase' # "EXEC"
  PROVE  bspline_q' = bspline_q
<1>1. bspline_q' = Push(bspline_q, <<>>)
  BY DEF PlannerIdle, PlannerBeginAdjust, PlannerRotate, PlannerHold, PlannerFinish,
     PlannerRelease, PlannerSends
<1> QED
  BY <1>1, PushNothing DEF TrajTyped

\* A step that publishes one makes it the last.
LEMMA PlannerPublishes ==
  ASSUME TrajTyped, PlannerExecute \/ (PlannerRelease /\ phase' = "EXEC")
  PROVE  bspline_q' # <<>> /\ bspline_q'[Len(bspline_q')] = left' /\ phase' = "EXEC"
<1>1. PICK d \in Durations : bspline_q' = Push(bspline_q, <<d>>) /\ left' = d /\ phase' = "EXEC"
  BY DEF PlannerExecute, PlannerRelease, PlannerSends, Execute, Release
<1>2. Push(bspline_q, <<d>>) # <<>> /\ Last(Push(bspline_q, <<d>>), 0) = d
  BY PushOne DEF TrajTyped
<1> QED
  BY <1>1, <1>2 DEF Last

LEMMA TrackedStep == ASSUME Typed, Tracked, [Next]_vars PROVE Tracked'
<1>0. TrajTyped /\ PortTyped
  BY DEF Typed
<1>1. ASSUME Planner PROVE receive_traj_' = receive_traj_ /\ traj_left' = traj_left
  BY <1>1, PlannerShape DEF PlannerSends, serverVars
<1>2. CASE PlannerIdle
  BY <1>0, <1>1, <1>2, QuietPlanner DEF Tracked, PlannerIdle, portVars, Planner
<1>3. CASE PlannerBeginAdjust
  BY <1>0, <1>1, <1>3, QuietPlanner DEF Tracked, PlannerBeginAdjust, BeginAdjust, Planner
<1>4. CASE PlannerRotate
  BY <1>0, <1>1, <1>4, QuietPlanner DEF Tracked, PlannerRotate, Rotate, Planner
<1>5. CASE PlannerHold
  BY <1>0, <1>1, <1>5, QuietPlanner DEF Tracked, PlannerHold, Hold, Planner
<1>6. CASE PlannerFinish
  <2>1. phase = "EXEC" /\ left = 0 /\ phase' = "ADJUST" /\ left' = 0
    BY <1>6 DEF PlannerFinish, Finish
  <2>2. bspline_q = <<>>
    <3>1. bspline_q # <<>> => bspline_q[Len(bspline_q)] \in Durations
      <4>1. bspline_q # <<>> => Len(bspline_q) \in Nat \ {0} /\ bspline_q \in Seq(Durations)
        BY <1>0, EmptySeq DEF TrajTyped
      <4> QED
        BY <4>1
    <3>2. bspline_q # <<>> => bspline_q[Len(bspline_q)] = 0
      BY <2>1 DEF Tracked
    <3> QED
      BY <3>1, <3>2, Durable
  <2>3. traj_left = 0
    BY <2>1, <2>2 DEF Tracked
  <2> QED
    BY <1>0, <1>1, <1>6, <2>1, <2>2, <2>3, QuietPlanner DEF Tracked, Planner
<1>7. CASE PlannerExecute
  <2>1. bspline_q' # <<>> /\ bspline_q'[Len(bspline_q')] = left' /\ phase' = "EXEC"
    <3>1. PlannerExecute \/ (PlannerRelease /\ phase' = "EXEC")
      BY <1>7
    <3> QED
      BY <1>0, <3>1, PlannerPublishes
  <2> QED
    BY <2>1 DEF Tracked
<1>8. CASE PlannerRelease
  <2>1. CASE phase' = "EXEC"
    BY <1>0, <1>8, <2>1, PlannerPublishes DEF Tracked
  <2>2. CASE phase' # "EXEC"
    BY <1>0, <1>1, <1>8, <2>2, QuietPlanner DEF Tracked, PlannerRelease, Release, Planner
  <2> QED
    BY <2>1, <2>2
<1>9. CASE bsplineCallback
  <2>1. /\ Waiting(bspline_q) /\ bspline_q' = Tail(bspline_q) /\ traj_left' = Head(bspline_q)
        /\ receive_traj_' = TRUE /\ phase' = phase /\ left' = left
    BY <1>9 DEF bsplineCallback, ServerKeeps, portVars
  <2>2. bspline_q # <<>>
    BY <1>0, <2>1, Unheard DEF TrajTyped
  <2>3. phase = "EXEC" /\ bspline_q[Len(bspline_q)] = left
    BY <2>2 DEF Tracked
  <2>4. /\ bspline_q' # <<>> => bspline_q'[Len(bspline_q')] = left
        /\ bspline_q' = <<>> => traj_left' = left
    <3>1. /\ Tail(bspline_q) # <<>> => Last(Tail(bspline_q), 0) = Last(bspline_q, 0)
          /\ Tail(bspline_q) = <<>> => Last(bspline_q, 0) = Head(bspline_q)
      BY <1>0, <2>1, ReceiveOne DEF TrajTyped
    <3> QED
      BY <2>1, <2>2, <2>3, <3>1 DEF Last
  <2> QED
    BY <2>1, <2>3, <2>4 DEF Tracked
<1>10. CASE adjust_yaw_Callback \/ stopCallback \/ cmdCallback
  BY <1>10 DEF Tracked, adjust_yaw_Callback, stopCallback, cmdCallback, ServerKeeps, portVars,
     serverVars
<1>11. CASE GuardNode
  BY <1>11 DEF Tracked, GuardNode, GuardCmd, GuardManual, GuardTimer, GuardKeeps, portVars,
     serverVars
<1>12. CASE BridgeCmd \/ UNCHANGED vars
  BY <1>12 DEF Tracked, BridgeCmd, vars, topicVars, portVars, serverVars
<1>13. CASE Tick
  <2>1. bspline_q = <<>>
    BY <1>0, <1>13, Unheard DEF Tick, Delivered, TrajTyped
  <2>2. /\ bspline_q' = bspline_q /\ phase' = phase /\ receive_traj_' = receive_traj_
        /\ left' = (IF left > 0 THEN left - 1 ELSE 0)
        /\ traj_left' = (IF traj_left > 0 THEN traj_left - 1 ELSE 0)
    BY <1>13 DEF Tick, PassTime, topicVars
  <2> QED
    BY <2>1, <2>2 DEF Tracked
<1> QED
  BY <1>2, <1>3, <1>4, <1>5, <1>6, <1>7, <1>8, <1>9, <1>10, <1>11, <1>12, <1>13
     DEF Next, Planner, Server

-----------------------------------------------------------------------------
(* No stale command.                                                       *)

\* What is published becomes the last word.
LEMMA LastWord ==
  ASSUME CmdTyped, NEW cmds \in Seq(Commands), cmd_q' = Push(cmd_q, cmds), base' = base
  PROVE  Eff' = IF cmds = <<>> THEN Eff ELSE cmds[Len(cmds)]
<1>1. CASE cmds = <<>>
  <2>1. cmd_q' = cmd_q
    BY <1>1, PushNothing DEF CmdTyped
  <2> QED
    BY <1>1, <2>1 DEF Eff
<1>2. CASE cmds # <<>>
  <2>1. \A heard : Last(Push(cmd_q, cmds), heard) = cmds[Len(cmds)]
    BY <1>2, PushKeeps DEF CmdTyped
  <2>2. Eff' = Last(Push(cmd_q, cmds), base)
    BY DEF Eff
  <2> QED
    BY <1>2, <2>1, <2>2
<1> QED
  BY <1>1, <1>2

\* While traj_server has nothing to track, or is stopped, no step makes a robot
\* that was told to stand still drive, and only the planner makes it turn.
LEMMA StaysStill ==
  ASSUME Typed, [Next]_vars, traj_left = 0 \/ stop_command = 1
  PROVE  /\ Eff.linear = 0 => Eff'.linear = 0
         /\ ~Planner => (Eff = Zero => Eff' = Zero)
<1>0. CmdTyped /\ PortTyped
  BY DEF Typed
<1>1. Zero.linear = 0 /\ Zero \in Commands /\ Still \subseteq Commands
  BY DEF Zero, Cmd, Commands, Still
<1>2. CASE Planner
  <2>1. PICK cmds \in Seq(Still) : cmd_q' = Push(cmd_q, cmds)
    BY <1>2, PlannerShape DEF PlannerSends, PublishCmds
  <2>2. cmds \in Seq(Commands)
    BY <1>1, SeqUp
  <2>3. base' = base
    BY <1>2, PlannerShape DEF PlannerSends
  <2>4. Eff' = IF cmds = <<>> THEN Eff ELSE cmds[Len(cmds)]
    BY <1>0, <2>1, <2>2, <2>3, LastWord
  <2>5. cmds # <<>> => cmds[Len(cmds)].linear = 0
    <3>1. cmds # <<>> => Len(cmds) \in Nat \ {0}
      BY EmptySeq
    <3>2. cmds # <<>> => cmds[Len(cmds)] \in Still
      BY <3>1
    <3> QED
      BY <3>2 DEF Still
  <2> QED
    BY <1>2, <2>4, <2>5
<1>3. CASE cmdCallback
  <2>1. cmd_q' = Push(cmd_q, ServerCmds) /\ base' = base
    BY <1>3 DEF cmdCallback, PublishCmds, ServerKeeps
  <2>2. ServerCmds \in Seq(Commands) /\ ServerCmds \in {<<>>, <<Zero>>, <<Zero, Zero>>}
    BY <1>0, ServerShape
  <2>3. Eff' = IF ServerCmds = <<>> THEN Eff ELSE ServerCmds[Len(ServerCmds)]
    BY <1>0, <2>1, <2>2, LastWord
  <2>4. ServerCmds # <<>> => ServerCmds[Len(ServerCmds)] = Zero
    BY <2>2
  <2>5. Eff' = Eff \/ Eff' = Zero
    BY <2>3, <2>4
  <2> QED
    BY <1>1, <2>5
<1>4. CASE GuardTimer
  <2>1. cmd_q' \in {cmd_q, Push(cmd_q, <<Zero>>)} /\ base' \in {base, Zero}
    BY <1>4 DEF GuardTimer
  <2>2. cmd_q' = Push(cmd_q, <<Zero>>) => Eff' = Zero
    BY <1>0, <1>1, PushOne DEF Eff, CmdTyped
  <2>3. cmd_q' = cmd_q => Eff' = Eff \/ Eff' = Zero
    BY <2>1 DEF Eff, Last
  <2>4. Eff' = Eff \/ Eff' = Zero
    BY <2>1, <2>2, <2>3
  <2> QED
    BY <1>1, <2>4
<1>5. CASE BridgeCmd
  <2>1. cmd_q' = Tail(cmd_q) /\ Waiting(cmd_q)
    BY <1>5 DEF BridgeCmd
  <2>2. /\ Head(cmd_q) \in Commands
        /\ Tail(cmd_q) # <<>> => \A heard, new : Last(Tail(cmd_q), new) = Last(cmd_q, heard)
        /\ Tail(cmd_q) = <<>> => \A heard : Last(cmd_q, heard) = Head(cmd_q)
    <3>1. cmd_q \in Seq(Commands)
      BY <1>0 DEF CmdTyped
    <3>2. \A heard : Last(cmd_q, heard) = Last(Tail(cmd_q), Head(cmd_q))
      BY <2>1, <3>1, ReceiveOne
    <3>3. Tail(cmd_q) # <<>> => \A new : Last(Tail(cmd_q), new) = Last(Tail(cmd_q), Head(cmd_q))
      BY DEF Last
    <3>4. Tail(cmd_q) = <<>> => Last(Tail(cmd_q), Head(cmd_q)) = Head(cmd_q)
      BY DEF Last
    <3>5. Head(cmd_q) \in Commands
      BY <2>1, <3>1, ReceiveOne
    <3> QED
      BY <3>2, <3>3, <3>4, <3>5
  <2>3. /\ base'.linear = 0 \/ Head(cmd_q).linear # 0
        /\ base' = Zero \/ Head(cmd_q) # Zero
    BY <1>5, <2>2, Saturated DEF BridgeCmd
  <2>4. CASE Tail(cmd_q) # <<>>
    <3>1. Eff' = Eff
      BY <2>1, <2>2, <2>4 DEF Eff
    <3> QED
      BY <3>1
  <2>5. CASE Tail(cmd_q) = <<>>
    <3>1. Eff' = base' /\ Eff = Head(cmd_q)
      BY <2>1, <2>2, <2>5 DEF Eff, Last
    <3> QED
      BY <2>3, <3>1
  <2> QED
    BY <2>4, <2>5
<1>6. ASSUME cmd_q' = cmd_q, base' = base PROVE Eff' = Eff
  BY <1>6 DEF Eff
<1>7. CASE bsplineCallback \/ adjust_yaw_Callback \/ stopCallback
  BY <1>6, <1>7 DEF bsplineCallback, adjust_yaw_Callback, stopCallback, ServerKeeps
<1>8. CASE GuardCmd \/ \E data \in BOOLEAN : GuardManual(data)
  BY <1>6, <1>8 DEF GuardCmd, GuardManual
<1>9. CASE Tick \/ UNCHANGED vars
  BY <1>6, <1>9 DEF Tick, vars, topicVars
<1> QED
  BY <1>2, <1>3, <1>4, <1>5, <1>7, <1>8, <1>9 DEF Next, Server, GuardNode

LEMMA NotStaleStep == ASSUME Typed, Tracked, NotStale, [Next]_vars PROVE NotStale'
<1>0. CmdTyped /\ PortTyped
  BY DEF Typed
<1>1. CASE ~Planner
  <2>1. phase' = phase /\ turning' = turning
    BY <1>1 DEF Next, Server, GuardNode, bsplineCallback, adjust_yaw_Callback, stopCallback,
       cmdCallback, ServerKeeps, GuardCmd, GuardManual, GuardTimer, GuardKeeps, BridgeCmd, Tick,
       PassTime, vars, portVars
  <2>2. phase # "EXEC" => traj_left = 0
    BY DEF Tracked
  <2>3. phase # "EXEC" => (Eff.linear = 0 => Eff'.linear = 0) /\ (Eff = Zero => Eff' = Zero)
    BY <1>1, <2>2, StaysStill
  <2> QED
    BY <2>1, <2>3 DEF NotStale
<1>2. Zero \in Commands /\ Zero.linear = 0
  BY DEF Zero, Cmd, Commands
<1>3. ASSUME NEW c \in Commands, PublishCmds(<<c>>), base' = base PROVE Eff' = c
  BY <1>0, <1>3, PushOne DEF PublishCmds, CmdTyped, Eff
<1>4. ASSUME Planner PROVE base' = base
  BY <1>4, PlannerShape DEF PlannerSends
<1>5. CASE PlannerIdle
  <2>1. cmd_q' = cmd_q /\ base' = base
    BY <1>0, <1>5, PushNothing DEF PlannerIdle, PlannerSends, PublishCmds, CmdTyped
  <2>2. Eff' = Eff
    BY <2>1 DEF Eff
  <2> QED
    BY <1>5, <2>2 DEF NotStale, PlannerIdle, portVars
<1>6. CASE PlannerExecute
  <2>1. phase' = "EXEC" /\ turning' = turning /\ phase # "ADJUST"
    BY <1>6 DEF PlannerExecute, Execute
  <2> QED
    BY <2>1 DEF NotStale
<1>7. CASE PlannerBeginAdjust
  <2>1. phase' = "ADJUST" /\ turning' = turning /\ phase = "REST"
    BY <1>7 DEF PlannerBeginAdjust, BeginAdjust
  <2> QED
    BY <2>1 DEF NotStale
<1>8. CASE PlannerRotate
  <2>1. PICK w \in {Spin, -Spin} : PublishCmds(<<Cmd(0, w)>>) /\ phase' = "ADJUST"
    BY <1>8 DEF PlannerRotate, PlannerSends, Rotate
  <2>2. Cmd(0, w) \in Commands /\ Cmd(0, w).linear = 0
    BY Speeds DEF Cmd, Commands
  <2>3. Eff'.linear = 0
    BY <1>3, <1>4, <1>8, <2>1, <2>2 DEF Planner
  <2> QED
    BY <2>1, <2>3 DEF NotStale
<1>9. CASE PlannerHold
  <2>1. phase' = "ADJUST" /\ turning' = FALSE
    BY <1>9 DEF PlannerHold, Hold
  <2> QED
    BY <2>1 DEF NotStale
<1>10. CASE PlannerRelease
  <2>1. ~turning /\ turning' = turning /\ phase' \in {"REST", "EXEC"} /\ PublishCmds(<<Zero>>)
    BY <1>10 DEF PlannerRelease, Release, PlannerSends
  <2>2. Eff' = Zero
    BY <1>2, <1>3, <1>4, <1>10, <2>1 DEF Planner
  <2> QED
    BY <2>1, <2>2 DEF NotStale
<1>11. CASE PlannerFinish
  <2>1. phase = "EXEC" /\ phase' = "ADJUST" /\ turning' = turning
    BY <1>11 DEF PlannerFinish, Finish
  <2> QED
    BY <2>1 DEF NotStale
<1> QED
  BY <1>1, <1>5, <1>6, <1>7, <1>8, <1>9, <1>10, <1>11 DEF Planner

-----------------------------------------------------------------------------
(* A manual stop.                                                          *)

\* The steps that leave the stop, its clock and the words about it alone.
LEMMA ObeyedElsewhere ==
  ASSUME Typed, Obeyed, [Next]_vars,
         UNCHANGED <<emergency_q, stop_command, cmd_q, base, serverTicks, stopped, due, manual_stop_>>
  PROVE  Obeyed'
<1>1. Eff' = Eff
  BY DEF Eff
<1> QED
  BY <1>1 DEF Obeyed

\* The watchdog's period is one unit, as with the 30 Hz of the launch file.
LEMMA ObeyedStep == ASSUME Period = 1, Typed, Obeyed, [Next]_vars PROVE Obeyed'
<1>0. StopTyped /\ CmdTyped /\ PortTyped /\ ClockTyped
  BY DEF Typed
<1>1. stopped >= 2 => stop_command = 1 /\ (Eff.linear = 0 => Eff'.linear = 0)
  BY StaysStill DEF Obeyed
<1>2. Zero \in Still /\ Zero \in Commands /\ Zero.linear = 0
  BY DEF Zero, Cmd, Still, Commands
<1>3. CASE Planner
  <2>1. PICK cmds \in Seq(Still), stops \in Seq({0}) :
          /\ cmd_q' = Push(cmd_q, cmds) /\ emergency_q' = Push(emergency_q, stops)
          /\ stopped' = IF stops = <<>> THEN stopped ELSE 0
    BY <1>3, PlannerShape DEF PlannerSends, PublishCmds
  <2>2. UNCHANGED <<stop_command, base, serverTicks, due, manual_stop_>>
    BY <1>3, PlannerShape DEF PlannerSends, serverVars, guardVars
  <2>3. CASE stops # <<>>
    BY <2>1, <2>3 DEF Obeyed
  <2>4. CASE stops = <<>>
    <3>1. stopped' = stopped /\ emergency_q' = emergency_q
      BY <1>0, <2>1, <2>4, PushNothing DEF StopTyped
    <3>2. cmd_q \in Seq(Still) => cmd_q' \in Seq(Still)
      BY <2>1, PushKeeps
    <3> QED
      BY <1>1, <2>2, <3>1, <3>2 DEF Obeyed
  <2> QED
    BY <2>3, <2>4
<1>4. CASE bsplineCallback \/ adjust_yaw_Callback
  BY <1>4, ObeyedElsewhere DEF bsplineCallback, adjust_yaw_Callback, ServerKeeps, guardVars, tickVars
<1>5. CASE stopCallback
  <2>1. /\ emergency_q' = Tail(emergency_q) /\ stop_command' = Head(emergency_q)
        /\ UNCHANGED <<cmd_q, base, serverTicks, stopped, due, manual_stop_>>
        /\ Waiting(emergency_q)
    BY <1>5 DEF stopCallback, ServerKeeps, guardVars, tickVars
  <2>2. Last(emergency_q', stop_command') = Last(emergency_q, stop_command)
    BY <1>0, <2>1, ReceiveOne DEF StopTyped
  <2>3. emergency_q \in Seq({1}) => emergency_q' \in Seq({1}) /\ stop_command' = 1
    <3>1. emergency_q \in Seq({1}) => Head(emergency_q) \in {1} /\ Tail(emergency_q) \in Seq({1})
      BY <2>1, ReceiveOne
    <3> QED
      BY <2>1, <3>1
  <2>4. Eff' = Eff
    BY <2>1 DEF Eff
  <2> QED
    BY <2>1, <2>2, <2>3, <2>4 DEF Obeyed
<1>6. CASE cmdCallback
  <2>1. /\ cmd_q' = Push(cmd_q, ServerCmds)
        /\ UNCHANGED <<emergency_q, stop_command, base, stopped, due, manual_stop_>>
    BY <1>6 DEF cmdCallback, PublishCmds, ServerKeeps, serverVars, guardVars
  <2>2. stopped >= 2 => ServerCmds = <<Zero>>
    BY <1>0, ServerShape DEF Obeyed
  <2>3. stopped >= 2 => cmd_q' \in Seq(Still)
    BY <1>2, <2>1, <2>2, PushOne DEF Obeyed
  <2>4. stopped >= 2 => Eff' = Zero
    BY <1>0, <1>2, <2>1, <2>2, PushOne DEF Eff, CmdTyped
  <2> QED
    BY <1>2, <2>1, <2>3, <2>4 DEF Obeyed
<1>7. CASE GuardCmd
  <2>1. /\ UNCHANGED <<stop_command, cmd_q, base, serverTicks, stopped, due, manual_stop_>>
        /\ emergency_q' = Push(emergency_q, IF stop_active_ /\ ~manual_stop_ THEN <<0>> ELSE <<>>)
    BY <1>7 DEF GuardCmd, GuardSends, GuardKeeps, Guard!cmdCallback, serverVars, tickVars
  <2>2. CASE stopped >= 1
    <3>1. emergency_q' = Push(emergency_q, <<>>)
      BY <2>1, <2>2 DEF Obeyed
    <3>2. emergency_q' = emergency_q
      BY <1>0, <3>1, PushNothing DEF StopTyped
    <3> QED
      BY <2>1, <3>2, ObeyedElsewhere
  <2>3. CASE ~(stopped >= 1)
    <3>1. ~(stopped' >= 1) /\ ~(stopped' >= 2) /\ ~(stopped' >= 3)
      BY <1>0, <2>1, <2>3 DEF ClockTyped, StopHorizon
    <3> QED
      BY <3>1 DEF Obeyed
  <2> QED
    BY <2>2, <2>3
<1>8. CASE \E data \in BOOLEAN : GuardManual(data)
  <2>1. stopped' = 0
    BY <1>8 DEF GuardManual
  <2> QED
    BY <2>1 DEF Obeyed
<1>9. CASE GuardTimer
  <2>1. UNCHANGED <<stop_command, serverTicks, stopped, manual_stop_>>
    BY <1>9 DEF GuardTimer, GuardKeeps, Guard!timerCallback, serverVars, tickVars
  <2>2. CASE stopped >= 1
    <3>1. /\ emergency_q' = Push(emergency_q, <<1>>) /\ base' = Zero
          /\ cmd_q' = cmd_q \/ cmd_q' = Push(cmd_q, <<Zero>>)
      BY <1>9, <2>2 DEF GuardTimer, GuardSends, Guard!StopCondition, Obeyed
    <3>2. Last(emergency_q', stop_command') = 1
      BY <1>0, <3>1, PushOne DEF StopTyped
    <3>3. emergency_q \in Seq({1}) => emergency_q' \in Seq({1})
      BY <3>1, PushOne
    <3>4. cmd_q \in Seq(Still) => cmd_q' \in Seq(Still)
      BY <1>2, <3>1, PushOne
    <3>5. base'.linear = 0
      BY <1>2, <3>1
    <3> QED
      BY <1>1, <2>1, <3>2, <3>3, <3>4, <3>5 DEF Obeyed
  <2>3. CASE ~(stopped >= 1)
    <3>1. ~(stopped' >= 1) /\ ~(stopped' >= 2) /\ ~(stopped' >= 3)
      BY <1>0, <2>1, <2>3 DEF ClockTyped, StopHorizon
    <3> QED
      BY <3>1 DEF Obeyed
  <2> QED
    BY <2>2, <2>3
<1>10. CASE BridgeCmd
  <2>1. /\ UNCHANGED <<emergency_q, stop_command, serverTicks, stopped, due, manual_stop_>>
        /\ cmd_q' = Tail(cmd_q) /\ Waiting(cmd_q)
    BY <1>10 DEF BridgeCmd, serverVars, guardVars, tickVars
  <2>2. cmd_q \in Seq(Still) => cmd_q' \in Seq(Still) /\ Head(cmd_q) \in Still
    BY <2>1, ReceiveOne
  <2>3. Head(cmd_q) \in Commands
    BY <1>0, <2>1, ReceiveOne DEF CmdTyped
  <2>4. Head(cmd_q) \in Still => base'.linear = 0
    BY <1>10, <2>3, Saturated DEF BridgeCmd, Still
  <2>5. stopped >= 3 => base'.linear = 0
    BY <1>0, <2>2, <2>4 DEF Obeyed, ClockTyped, StopHorizon
  <2> QED
    BY <1>1, <2>1, <2>2, <2>5 DEF Obeyed
<1>11. CASE Tick
  <2>1. /\ UNCHANGED <<emergency_q, stop_command, cmd_q, base, manual_stop_>>
        /\ ~Waiting(emergency_q) /\ ~Waiting(cmd_q) /\ serverTicks = 1 /\ due > 0
        /\ due' = due - 1 /\ serverTicks' = 0
        /\ stopped' = IF manual_stop_ THEN Guard!Min2(stopped + 1, StopHorizon) ELSE 0
    BY <1>11 DEF Tick, Delivered, topicVars
  <2>2. due' = 0
    BY <1>0, <2>1 DEF ClockTyped
  <2>3. emergency_q = <<>> /\ cmd_q = <<>>
    BY <1>0, <2>1, Unheard DEF StopTyped, CmdTyped
  <2>4. emergency_q' \in Seq({1}) /\ cmd_q' \in Seq(Still)
    BY <2>1, <2>3
  <2>5. (stopped' >= 1 => manual_stop_) /\ (stopped' >= 2 => stopped >= 1)
        /\ (stopped' >= 3 => stopped >= 2)
    BY <1>0, <2>1 DEF Guard!Min2, ClockTyped, StopHorizon
  <2>6. stopped' >= 2 => stop_command' = 1
    BY <2>1, <2>3, <2>5 DEF Obeyed, Last
  <2>7. stopped' >= 3 => base'.linear = 0
    <3>1. Eff = base
      BY <2>3 DEF Eff, Last
    <3> QED
      BY <2>1, <2>5, <3>1 DEF Obeyed
  <2> QED
    BY <2>1, <2>2, <2>4, <2>5, <2>6, <2>7 DEF Obeyed
<1>12. CASE UNCHANGED vars
  BY <1>12, ObeyedElsewhere DEF vars, topicVars, serverVars, guardVars, tickVars
<1> QED
  BY <1>3, <1>4, <1>5, <1>6, <1>7, <1>8, <1>9, <1>10, <1>11, <1>12 DEF Next, Server, GuardNode

-----------------------------------------------------------------------------
(* The theorems.                                                           *)

\* Nothing is under way at first, and the robot stands still.
LEMMA AtFirst == ASSUME Init PROVE Typed /\ Tracked /\ NotStale /\ Obeyed
<1>1. /\ bspline_q = <<>> /\ emergency_q = <<>> /\ cmd_q = <<>> /\ base = Zero
      /\ traj_left = 0 /\ stop_command = 0 /\ stopped = 0 /\ due = Period
      /\ phase = "REST" /\ left = 0 /\ turning = FALSE
  BY DEF Init, PortInit, Guard!GuardInit
<1>2. Zero \in Commands
  BY DEF Zero, Cmd, Commands
<1>3. Len(<<>>) = 0
  OBVIOUS
<1>4. Typed
  BY <1>1, <1>2, <1>3, Sizes
     DEF Typed, PortTyped, TrajTyped, StopTyped, CmdTyped, ClockTyped, StopHorizon
<1>5. Eff = Zero
  BY <1>1 DEF Eff, Last
<1> QED
  BY <1>1, <1>4, <1>5 DEF Tracked, NotStale, Obeyed

\* What is said, tracked and driven fits together in every reachable state.
LEMMA FollowsPlanner == Spec => [](Typed /\ Tracked /\ NotStale)
<1>1. Init => Typed /\ Tracked /\ NotStale
  BY AtFirst
<1>2. Typed /\ Tracked /\ NotStale /\ [Next]_vars => (Typed /\ Tracked /\ NotStale)'
  BY TypedStep, TrackedStep, NotStaleStep
<1> QED
  BY <1>1, <1>2, PTL DEF Spec

\* traj_server follows the planner's trajectory with the planner's clock, whatever
\* the depth of the queues, the durations and the rates: no replan or stop between
\* them leaves it on an older one (bsplineCallback, cmdCallback, publishing in EXEC_TRAJ).
THEOREM FollowsOneTrajectory == Spec => []OneTrajectory
<1>1. Typed /\ Tracked => OneTrajectory
  <2>1. Typed => (Waiting(bspline_q) <=> bspline_q # <<>>)
    BY Unheard DEF Typed, TrajTyped
  <2> QED
    BY <2>1 DEF Tracked, OneTrajectory
<1> QED
  BY <1>1, FollowsPlanner, PTL

\* No tracking command of an execution that is over is the last to reach the base,
\* whatever overtakes what on its way (finalAdjustPose, cmdCallback, the bridge).
THEOREM NeverStaleDrive == Spec => []NoStaleDrive
<1>1. Typed /\ NotStale => NoStaleDrive
  <2>1. Typed /\ ~Waiting(cmd_q) => Eff = base
    BY Unheard DEF Typed, CmdTyped, Eff, Last
  <2> QED
    BY <2>1 DEF NotStale, NoStaleDrive
<1> QED
  BY <1>1, FollowsPlanner, PTL

\* Three units of time after the user stopped, no command drives the base, unless
\* the planner replanned meanwhile, whatever the queues hold and whoever publishes
\* (timerCallback of the guard, stopCallback and cmdCallback of traj_server).
THEOREM StopComesIntoForce == ASSUME Period = 1 PROVE Spec => []ManualStopInForce
<1>1. Init => Typed /\ Obeyed
  BY AtFirst
<1>2. Typed /\ Obeyed /\ [Next]_vars => (Typed /\ Obeyed)'
  BY TypedStep, ObeyedStep
<1>3. Obeyed => ManualStopInForce
  BY DEF Obeyed, ManualStopInForce, StopHorizon
<1> QED
  BY <1>1, <1>2, <1>3, PTL DEF Spec
=============================================================================
