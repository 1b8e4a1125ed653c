# Verification of the ego_ws planning stack

This directory holds TLA+ models of the planning stack of `ego_ws` (an
EGO-Planner derivative for a ground robot), the TLC configurations that check
them on small instances, and TLAPS proofs of the properties that hold for every
instance. `PROJECT.json` lists the runs, the mutants that show each property can
fail, the source lines behind each definition, the hazards and the theorems.

## The system

A goal (`/way_point`) or a list of preset waypoints is turned into motion by
several ROS 2 nodes, each spun by one thread, talking over topics:

```
 goal, /odom_map --> ego_planner_node --/planning/bspline--> traj_server
                      |  ReplanFSM     --/is_adjust_yaw----->     |
                      |  planner       --/emergency_stop---->     |
                      |  grid map, A*                             |
                      +--/cmd_vel (turn in place)--+   /cmd_vel (MPC)
                                                   v        v
     /safety_stop --> SafetyStopGuard <--------- /cmd_vel --+--> CmdVelBridge --/cmd_vel1--> base
                        | /cmd_vel (zero), /cmd_vel1 (zero), /emergency_stop
```

| Component | State it keeps | Operations | Interacts with |
|---|---|---|---|
| **ReplanFSM** `plan_manage/src/ego_replan_fsm.cpp` | the state (`INIT` .. `EXEC_TRAJ`), target flags, heading and direction, the settle flag and its clock | goal and odometry callbacks, a 10 ms timer that runs one state's handler | calls the planner; publishes trajectories, the claim `/is_adjust_yaw` on `/cmd_vel`, rotations, `/emergency_stop` 0 |
| **EGOPlannerManager** `planner_manager.cpp` | the current local trajectory and the global one, a count of failures, three flags kept between calls | `reboundReplan` (initial path or warm start, optimise, refine), `planGlobalTraj` | calls optimiser and A*; read by ReplanFSM |
| **BsplineOptimizer** `bspline_optimizer.cpp` | control points, base points and directions, `force_stop_type_` | `initControlPoints`, the rebound and refine loops | calls A* and LBFGS, reads the grid map |
| **AStar** `dyn_a_star.cpp` | a pool of nodes stamped with the search round, an open queue | `AstarSearch`, `getPath` | reads the grid map |
| **GridMap** `grid_map.cpp`, **RayCaster** `raycast.cpp` | occupancy and inflation buffers, hit and miss counters, update flags | cloud, odometry and depth callbacks, update and publish timers | read by the optimiser and A* |
| **UniformBspline** | control points, knots | evaluation, feasibility test, time lengthening | used by planner and traj_server |
| **traj_server** `traj_server.cpp` | the last trajectory, claim, stop command, direction | five subscriptions and a 30 ms timer that publishes on `/cmd_vel` | executes what ReplanFSM publishes |
| **SafetyStopGuard** `safety_stop_guard_node.cpp` | manual stop, stop active, latch, time of the last command | command and manual-stop callbacks, a 30 Hz timer | watches `/cmd_vel`, stops the base and traj_server |
| **CmdVelBridge** `cmd_vel_bridge_node.cpp` | none | clamps `/cmd_vel` onto `/cmd_vel1` | feeds the base |
| MPC, polynomial trajectories, solvers, visualisation | numerical or output only | | |
| patchwork, qpOASES, fake_sensor | vendored or test aids | | |

What is hard here: every node is single-threaded, so handlers are atomic, but the
nodes interleave, share `/cmd_vel` (three publishers) and `/emergency_stop` (two
publishers), and rely on timing (a settling time, the end of a trajectory, a
watchdog) rather than acknowledgements. A goal may arrive in any state. Planning
may fail at any attempt. `PROJECT.json` lists each hazard at its line.

What makes each component correct:

- **ReplanFSM** supervises exactly the motion it commanded; the robot is turned
  only at rest and driven only after settling; the claim on `/cmd_vel` is always
  released; a goal is eventually driven to or replaced, except where the code
  loses it (see below).
- **SafetyStopGuard**: silence is answered by a stop within a bound, a manual stop
  holds until released whatever is received, a released stop is taken back.
- **traj_server / bridge**: the claim is respected, a finished trajectory leaves the
  base commanded to zero.
- **getLocalTarget** (ReplanFSM over the global trajectory): the target planned to
  belongs to the present goal, the progress remembered stays in reach, and a
  chain of local trajectories ends at the goal.
- **EGOPlannerManager**: loops end; the warm start uses only points that exist; what
  is handed to the spline fit is complete and of one path.
- **BsplineOptimizer**: every call returns; a trajectory handed on was looked at at
  the points it has; no stop or plane of an earlier call acts in a later one.
- **AStar**: a returned path is connected, free and loop-free; a failed search means
  that there is no path; stale stamps never leak between searches.
- **GridMap / RayCaster**: an obstacle both clouds have shown blocks its column;
  only voxels rays have crossed open one; a ray ends at its end.

## Modules

| Module | Models |
|---|---|
| `YawAngles` | heading arithmetic: wrapping, error, reversal |
| `ReplanFSM` | the state machine, with its outputs and the passage of time |
| `MotionContract` | the abstract promise of the node: turning and driving exclude each other, a settling time lies between |
| `PlannerPort` | the planner as the other nodes see it; `ReplanFSM` implements it, `CommandStack` composes it |
| `SafetyStopGuard` | the guard alone, in discrete time |
| `CommandStack` | planner port, traj_server, guard and bridge over bounded topics, and the base |
| `LocalTarget` | the state machine with positions: `getLocalTarget`, its progress along the global trajectory, the distance tests of `EXEC_TRAJ` |
| `ReboundReplan` | `reboundReplan` with its loops and static flags, and the attempts of a tick |
| `ReboundOptimize` | the optimiser: segments of collision, rebounds, restarts, refinement |
| `BestFirst` | the abstract promise of a graph search: a sound tree, and a cut when it fails |
| `PriorityQueue` | the binary heap of `std::priority_queue`, whose order may be disturbed from outside |
| `AStar` | the search on its recycled pool; it implements `BestFirst` |
| `RayCaster` | the voxels between a point and the camera |
| `OccupancyMap` | `GridMap`: two clouds, the rounds of rays, the projections onto columns |
| `MC*` | the model-checking instance of each, with the inputs TLC enumerates |
| `*_proofs` | theorems about `ReplanFSM`, `SafetyStopGuard`, `CommandStack`, `LocalTarget`, `ReboundReplan`, `ReboundOptimize`, `AStar` (with `BestFirst`) and `OccupancyMap` (with `RayCaster`) |

`CommandStack` takes the guard from `SafetyStopGuard` by `INSTANCE` with its
history variables fixed, and the planner from `PlannerPort` by `EXTENDS`; the
refinement `ImplementsPort` (run `fsm`, theorem `PortImplemented`) connects
that port with the state machine, so what `CommandStack` shows of the port's behaviours covers the state
machine's. `OccupancyMap` EXTENDS `RayCaster`, `AStar` EXTENDS `PriorityQueue`.

`ReplanFSM`, `LocalTarget` and `ReboundReplan` look at the same node from three
sides. In `ReplanFSM` a plan is an outcome, in `LocalTarget` it is an outcome with
two ends, in `ReboundReplan` it is computed and only the optimiser is an outcome;
`ReboundOptimize` and `AStar` open that.

### ReplanFSM

Variables carry the names of the fields. Each callback is one action:
`goal_callback`, `odometryCallback`, and one action per case of the `switch` in
`execFSMCallback`; the case `ADJUST_POSE` is split into its three outcomes
(rotate, hold, release). Early returns that change nothing are stuttering steps.
`changeFSMExecState` resets the settle flag exactly when the state changes, as
the code does.

Abstractions, and why they keep the properties' meaning:

- *Planning* is its result: failure (nothing stored) or a trajectory towards
  `end_pt_` with some duration and initial heading. Any outcome is possible at
  any attempt; this includes all failures of the optimiser.
- *Time* advances in units by `Clock`, between callbacks. A trajectory is over
  when its age reaches its duration; the code's finish test fires up to 10 ms
  (one tick) before, a difference below the model's unit.
- *Headings* are integers in `-YawMax..YawMax`. The code's `PI` is the literal
  3.1415926, slightly less than what `atan2` can return, so `YawMax` may exceed
  `PI`; the runs use `YawMax = PI + 1`, which makes the rim cases happen.
- *Uninitialised fields*: `trigger_` and `have_new_target_` start with either value.
- `safety_timer_` is never created (`ego_replan_fsm.cpp:94` is commented out), so
  `EMERGENCY_STOP` and `checkCollisionCallback` are unreachable and not modelled.

The central invariants are `ServerInStep` (the supervised trajectory is the
published one, started at the same time), `DrivesOnlyWhileExecuting` (nothing
published is still running in any other state), `GoalTracked` and `ForwardOnly`;
`OwnershipReleased` (the claim never outlives `ADJUST_POSE`) is proved and follows
from `ImplementsPort` in the run. The action property `SettledBeforeRelease` says
that the claim is given up only after a full settling time of rest, and
`KeepsContract` that the node implements `MotionContract`.

`GoalLeadsToExecution` is about each goal on its own: traj_server is sent a
trajectory planned towards this goal, or another goal replaces it. It leaves out
one case, `Overtaken`: a goal that arrives while the robot turns towards the
trajectory of another goal (the first `ADJUST_POSE`). `goal_callback` overwrites
`end_pt_` there and changes no state, so only a replan sees the new goal; if the old
trajectory ends without one, `ego_replan_fsm.cpp:679` clears `have_target_` and the
new goal is lost. That is what the code does. Goals that arrive during the
execution, the final alignment or a plan that fails are within the property.
In this module a plan goes to `end_pt_`; that it is cut at the horizon
(`local_target_pt_`) is `LocalTarget`'s subject.

Fairness (`FairSpec`): the executor runs the timer and the odometry callback for
ever (weak fairness), time passes (weak), and planning succeeds infinitely often
if it is attempted infinitely often (strong fairness of `Planned`). The last is an
assumption on the world: a reachable goal further than 0.2 m away. `Slip = FALSE`
in `fsm`: a heading changes only by a commanded rotation or while a trajectory is
driven. The proofs let it slip. Whether goals come from the user or are preset is
chosen in `Init` (`target_type_`, a parameter of the code) and never changes.

### SafetyStopGuard

One action per callback (`cmdCallback`, `manualStopCallback`, `timerCallback`),
with `publishStop`, `clearStopState` and `publishEmergency` as the code's helper
functions. `Commander` is any other node publishing on the watched topic, `Clock`
the passage of time. `cmd_age` is `now() - last_cmd_time_`, counted up to
`Horizon`, beyond which no test distinguishes it.

The launch file makes `watch_topic` and `stop_cmd_topic` the same topic. The guard
then hears its own stop as a command (`SelfWatch`): the watchdog is fed and the stop
state cleared, until the timeout has passed again. So in silence the stop is told
and taken back in turn, and what holds is the weaker `SilenceIsStopped`: zero
velocities reach the base at intervals no longer than timeout and period.

A release by the user publishes 0 and clears the latch, but leaves `stop_active_` to
the next tick or command: `LatchTruthful` is therefore an implication, not an equivalence,
between a told stop and an active one.

Fairness: callbacks that are due run (weak), time passes (strong, because callbacks
may always intervene), and the node keeps up with its queue (`KeepsUp`), which a
few messages per period from fixed-rate publishers justify.
`Punctual` restricts the run to schedules in which due callbacks run before time
advances; the proofs of `GuardTypeCorrect`, `LatchIsTruthful` and `ManualStopIsKept`
do without.

### CommandStack

A topic is one bounded queue per subscriber that keeps the newest messages; topics
do not order each other. One `Tick` is the 30 ms period of traj_server's timer and
waits until every timer has fired and every message has been received; within it
all interleavings of the handlers occur, and the planner's 10 ms timer fires once to
`PlannerRate` times. The base obeys the last command the bridge has saturated,
or a stop the guard sends it directly. The MPC is any drive command (`Drive`),
the planner's rotation is `Spin`, both beyond the limits of the bridge so that the
saturation matters.

What the runs show, and what they do not: `OneTrajectory` and `NoStaleDrive`
(no tracking command is under way or in force once the planner turns, or once
everything is at rest) hold through every order of claim, trajectory and stop.
A manual stop
ends *driving* within three units (`ManualStopInForce`), but

- it does not end a rotation in place: `ADJUST_POSE` never looks at a stop, and the
  planner's rotations are published between the guard's zeros;
- a successful replan publishes 0 on `/emergency_stop` and so releases traj_server until
  the guard's next tick; the history variable `stopped` restarts there.

`stack_claim` shows a divergence between code and comment: `traj_server` tests the
stop before the claim, so under a stop it publishes (zero velocities) on `/cmd_vel`
while the comment at `traj_server.cpp:259` requires silence.

### LocalTarget

The state machine once more, with positions: cells of a line. The global trajectory
is the sequence of its samples, one per `t_step` of `getLocalTarget`, so that
`last_progress_time_` is an index. `exact` says whether the duration is a whole
number of steps. Distances count half cells, so that an odd threshold lies between
two cells. The final alignment is folded into `WAIT_TARGET`, the turn before a
trajectory is `ADJUST_POSE`; the cells a robot drives while a replan keeps failing
are bounded by `Patience`, the error of odometry by `Lag`. `MCLocalTarget` gives the
paths: the first and the last segment of `planGlobalTraj` take double time, so their
samples are half a cell apart.

The properties are about a chain of local trajectories: the target planned to is of
the present goal (`TargetOfGoal`), the progress remembered never ends up a horizon
away (`NeverAstray`: the code prints "last_progress_time_ ERROR" and keeps the old
target), a goal is given up only where it lies (`FinishedAtGoal`), and every goal is
reached or replaced (`GoalReached`). What decides them are three margins
(`ThresholdsApart`), in cells, with `off` for what odometry may lag behind:

    replan_thresh_ + off + 2 * Patience                      <=  no_replan_thresh_
    2 * off + Patience                                       <=  no_replan_thresh_
    replan_thresh_ + 2 * no_replan_thresh_ + off + Patience  <=  planning_horizen_

Under them and `StraightPaths` (a global trajectory goes from its start to the goal
without turning back, its samples at most a cell apart) the first three properties are
proved for every line; the run's instance meets them (`Geometry` in `MCLocalTarget`).
Just outside, with a `no_replan_thresh_` of 2 cells or a `Patience` of 2, TLC finds the
progress out of reach. With the deployed 1.5 m, 2.0 m and 10.5 m the first margin asks
that `off + 2 * Patience` is at most half a metre: if a replan close to the goal keeps
failing while the robot drives further than a quarter of a metre, the progress may come
out of reach, after which the target is not renewed and the robot ends where it was
going.
`FinishedAtGoal` leaves out one goal: one that arrives while the robot turns for a
trajectory that is then finished without a replan is dropped by the code
(`have_target_` is cleared at its end), which `have_new_target_` still shows.

`local_target_exact` finds that `getLocalTarget` misses the last point when the
duration is a whole number of steps. That happens: with `max_vel` 0.4 and a horizon
of 10.5 m a step is 1.3125 s, and a first goal 1.05 m away (or 0.525, or 2.1 m) lasts
exactly 8 steps.

Fairness: the timer's steps and the drive are weakly fair; plans that are attempted
for ever are found at last unless they are refused outright for being nearer than
0.2 m. The last is strong fairness of a found plan, with `Plannable` for its ENABLED.

Not in the model: local trajectories that leave the line, the waypoints of
`planGlobalTrajWaypoints`, and the overshoot of a quintic.

### ReboundReplan

`reboundReplan` as steps: the test for a close goal, the head of the outer loop, the
polynomial path, the warm start over the previous trajectory, the resampling loop,
optimisation. The whole call is one callback, so no other handler runs between the
steps, but `Clock` does: the time at which the warm start asks for the remainder is
later than the time at which the call began. Around it, `StartPlanning` and `Failed`
model the three attempts of `planFromCurrentTraj` and the single one of `GEN_NEW_TRAJ`.

Geometry is an input. A distance to the target, the lengths of the segments between
samples and the durations of polynomials are drawn from small sets, constrained by
the triangle inequality; the walk of the resampling loop is taken turn by turn as the
code takes it, and exact (lengths scaled by 3^k stand for a step divided by 1.5^k);
`SamplesEven` compares its result with the arc length of the samples. Optimisation and refinement succeed or fail.
`continous_failures_count_` only scales a random offset and is left out.

`Timely` is an assumption: replanning succeeds while the previous trajectory still
runs. Nothing in the code ensures it; `replan_late` drops it and finds that with no
remainder the code does not take the branch it has for that case
(`planner_manager.cpp:174`), because `pseudo_arc_length` was given its first 0.0
before the loop; it then reads one element before `segment_point`.
`ReadsInBounds` needs a relation between three numbers of the code: a lone last
sample is prolonged only because the goal is at least 0.2 m away while a sampling step
covers 1.2 control point distances. With 0.1 m of the launch file this holds; from a third
of a metre on, `size() - 2` at line 190 would wrap.

Fairness of `replan_warm`: a callback that runs goes on running. The code's shrinking
loops have no bound; `MaxShrinks` caps the model's counter, and a loop at the cap stays
in it, so `CallReturns` also shows that the cap is never needed.

### ReboundOptimize

Control points are numbers; a position is abstracted to what the map says there, and
the base points and directions of a point to whether it has any (`planes`). One
action per stage of `rebound_optimize`: the look for segments (`initControlPoints`),
the preparation of a solver run, one evaluation of the cost with its check for new
collisions, the three ways a run ends, and the refinement. The solver, `lbfgs.hpp`,
is external. It asks `earlyExit` before each evaluation, so a stop asked for by the
evaluation with which the line search converges is never acted on: `Converged` does
not look at `force_stop_type_`. Its first evaluation does not move the points.

`Segments` is the code's pass over the samples, a recursive function with flags and a
counter. `SegmentsAsMeant` compares it with `Obstacles`, which says without state where
an obstacle begins and ends: the segments are those of the obstacles, each once and in
order. At least seven points are fitted, so the clause of line 102 about the last span
never decides anything, and `OptimizeAssumption` asks for points enough.
`ReboundsHoldCollisions` states what the walk of `check_collision_and_rebound` leaves
for a later evaluation: a collision right behind a segment's end.
`MINIMUM_PERCENT` is 0, so the bounds it computes do nothing. Behind the last restart
the code looks for segments once more, for nothing; that look is left out.
It is assumed that no A* path passes within 1e-5 of a control point, and that each
point's plane separates the ends of the path: then `intersection_point` is always
written. Which segments get base points is left open, which includes every outcome
of `AStar`.

Fairness: a call runs to its end on its thread. A solver run is bounded
(`MaxEvaluations`); that the real one ends is not shown.

### AStar and BestFirst

A node of the pool carries what the last search to touch it left; `Visit` is the loop
body, with the comparison of round stamps. `PriorityQueue` is the heap itself, because
the code lowers the cost of nodes inside the queue without restoring its order: the
run does reach queues out of order. `BestFirst` says what survives: a search on fresh
nodes that may take *any* open node. `ImplementsBestFirst` shows that stale stamps and
the disordered queue stay within it. Following `cameFrom` back from the end is a loop of
its own (`retrievePath`, one turn a step).

What is not claimed: paths need not be shortest. On pools from 7 x 6 on, paths up to a
fifth longer than the shortest occur, because closed nodes are not reopened.
`Coord2Index` truncates towards zero, and so does the model's. Requests lie along an
axis or a diagonal. The limit of 50 ms is `"late"`, possible after any expanded node.
A request whose two ends coincide inside an obstacle would push them apart along a
zero vector for ever; callers do not make it, and the model's requests exclude it.
Fairness: both loops keep turning.

### OccupancyMap and RayCaster

`/grid_map/cloud` fills the inflated buffer and sets the local bounds; the
segmentation cloud marks its own obstacles and projects what lies in those bounds
onto the columns the planner asks. In `EXPLORATION` a timer casts rays. Log odds are
known or not: a round leaves every voxel it cached at or above the clamp. A round is
split into the steps of its loops, but the node has one thread and nothing runs in
between. Points and cameras lie in the map (`InMap`) and within the ray length; the
map's origin is on a voxel boundary (deployed, a tenth of a voxel below).

What the code does and the model keeps:

- `z <= camera_pos_(2) + 1.3` compares a level with metres: with the deployed camera
  only the two lowest levels count. A column needs two marks there in `PLANNING`, so
  `LowObstaclesBlock` asks that the bounds reach over both.
- The last row, column and level of the bounds are never processed, which at the
  edge of the map leaves its last ones out for good.
- An empty cloud, or one before odometry, replaces the points to cast before it is
  rejected; a pending round then casts those. The properties speak of whatever
  points were cast, so none of them notices.
- `EXPLORATION` may open a column that holds a mark below the local bounds.
  No property claims otherwise.
- The number of a round is a `char` that is never reset: it counts modulo
  `CharSpan`, 256 in the code, and voxels are made with -1, which is `CharSpan - 1`
  (`Untouched`). `rounds`, a history variable, counts the rounds there have been.
  `PointsLinked` holds in the rounds before the number reaches `Untouched`, and says
  so; `map_wrap` shows with the code's 256 values that it fails in round 255. The
  other properties do not depend on the number. A cloud per 100 ms brings that
  round within half a minute, and again every 256 rounds.

`RayCaster` counts half voxels and compares fractions exactly. The code's doubles
round: a start a few units in the last place off a boundary could let an axis pass
its end, and `step` would not stop. The model and its theorem are about the exact
traversal.

## Runs

| Run | Question | Bounds |
|---|---|---|
| `fsm` | the state machine under goals at any moment and any heading, or a preset mission: safety, contract and port, each goal driven to or replaced, every alignment ended, a preset mission driven once | two goals, manual or preset, durations of 2, half a turn = 2 units, heading up to 3, settling time 2 |
| `guard` | silence is answered in time, a manual stop takes effect and holds, a released one is taken back | timeout 3, period 2, queue 2, watching its own topic, punctual, stop on start |
| `stack` | the composed nodes: one trajectory, no stale command, the manual stop, and a stop taken back unless the user holds it | queues of 2, durations 1 and 2, timeout 1, one planner tick per unit |
| `stack_claim` | *(violation)* traj_server stays silent during the adjust phase | the same, 2 planner ticks |
| `local_target` | a chain of local trajectories ends at the goal of the moment | 16 cells, goals near and far, horizon 10.5 cells, replan 1, no replan 4, lag 1, patience 1 |
| `local_target_exact` | *(violation)* a plan with the rest within the horizon goes to the goal | the same, durations may be whole numbers of steps |
| `replan_warm` | the warm start and what is handed to the spline fit; every call returns | at most 4 samples left, 4 polynomial segments, lengths of 3 kinds |
| `replan_late` | *(violation)* an empty remainder fails the call | the same, not timely |
| `astar` | two searches on one pool: paths, failures, ends, and the abstract search | 7 x 5 nodes, 3 maps, then any map of 8 cells, 3 requests |
| `rebound` | segments, rebounds, restarts; every call returns | 9 control points, 12 samples, 3 restarts, 2 rebounds, 5 evaluations |
| `map` | what the clouds and rays leave in the map | 4 x 2 x 4 voxels, 3 points, 2 cameras, 2 rounds of 4 values, up to 2 clouds before each round, 2 segmentations, of up to 2 points each |
| `map_wrap` | *(violation)* stamps only speed up: points are linked in every round | a row of 4 voxels, 256 rounds of 256 values, a cloud before each |

Two goals suffice to tell the current from an overwritten one, a duration of two to
have a replan halfway, and half a turn of 2 units with dead
zones 1 and 0 gives headings inside both, between them and behind the robot.
Trajectory ids count modulo 2: only "same as the last one" is ever asked. A timeout
between one and two periods makes a stop, its echo and the next stop overlap in
every way within a few periods. Queues of two let a message be overtaken and be
dropped. In `ReboundReplan` the durations leave zero to four samples, and the
distances lie at, below and above 0.2 m. In `LocalTarget` a goal lies beyond the
horizon, within it, and on the robot. A second search is enough to meet what a first
one left; it is the second whose map is free. In `rebound` the fifth evaluation is the
first that checks for collisions, twelve samples hold two obstacles and a gap of the
critical length, and the rows read at restarts change at most three times (the first
look has all rows). The code allows 20 rebounds; they repeat the same round. In `map`
a second cloud has other bounds than the marks of the first, and a second round meets
the stamps of the first; with 4 values for its number, both are rounds `PointsLinked`
speaks of.

Deadlock is checked in every run but `astar`, whose behaviours end with the bound on
searches.

## Proofs

Each proof module extends the module it is about; TLC evaluates every assumption in
a run. `PROJECT.json` lists the theorems.

`ReplanFSM_proofs` proves, for every set of goals, every set of durations, every
settling time and every angle scale allowed by the assumptions, that each
invariant of `fsm` and `OwnershipReleased` hold, that `SettledBeforeRelease`
holds, that `ReplanFSM` refines `MotionContract` and `PlannerPort`, and that a preset
mission is driven once (`PresetRunsOnce`, from `PresetHeld`), whichever of the two the
node is set to. None of the invariants is
inductive alone. `IInv` adds: no trajectory is older than its duration
(`AgesBounded`), the flags of an alignment and a commanded rotation exist only in
`ADJUST_POSE` (`AlignFlagsScoped`), the settle wait never exceeds the observed rest
(`WaitIsSilence`), and leaving `INIT` takes odometry (`OdometryBeforeStart`). Each
action has a lemma that it preserves `IInv`; `WrapBound` and `NeverReverses` carry
the angle arithmetic: a wrapped error is at most half a turn, so the reversing
branch is dead. `SettledBeforeRelease` follows from `WaitIsSilence` at the only
action that releases the claim. `PortImplemented` needs `PlanHeld` in addition: a
planned trajectory exists wherever one is turned for, executed or replanned, so the
port's durations are real ones. The assumptions are `AngleAssumption` (a heading
exceeds the literal half turn by at most another half) and `FSMAssumption`
(non-empty goals and durations, positive settling time).

`SafetyStopGuard_proofs` proves, for every timeout, period, queue depth and wiring
(`GuardAssumption`), the type invariant, `LatchTruthful` (what traj_server was told)
and `ManualStopHolds`, and for punctual schedules `StopsRepeat` (a stop condition is
answered every period) and `SilenceIsStopped`. `StopsRepeat` rests on an invariant
that ties the age of a stop condition to the timer: since the last tick no more than
`Period - due` has passed, and a tick under the condition publishes.
`SilenceIsStopped` needs in addition that an echo of the guard's own stop, which
refreshes the watchdog, is no older than the stop that caused it.

`CommandStack_proofs` proves `OneTrajectory` and `NoStaleDrive` for every queue depth,
set of durations, rate and speed (`StackAssumption`), and `ManualStopInForce` for a
watchdog period of one unit (30 Hz, as launched). The argument is about the last word
on a topic (`Last`): the newest message under way or, with none, what the subscriber
made of the last one. Receiving keeps the last word and publishing replaces it, so
queues drop out of the rest: the last word on the trajectory is the planner's
(`Tracked`), the last word on `/cmd_vel` is no tracking command outside an execution
(`NotStale`), and a stop held for one unit is the last word to traj_server, for two
the only one, for three all that reaches the base (`Obeyed`). With `PortImplemented`
they hold of any planner that behaves as `ReplanFSM`.

`ReboundReplan_proofs` proves `ForceConsumed` without further assumptions, and
`ReadsInBounds` for every geometry if replanning is timely and a sampling step is
shorter than twice the distance that counts as close, and `ReadyToFit` (`FitIsReady`): no
loop leaves its points behind for the next fit (`BegunAnew`). The inductive invariant adds
that the clock stays within the duration and that the target is not close after
the test (`FarOK`); the arithmetic is in `PolySampled`: a polynomial longer than
one step is sampled. `PointsAreEven` proves `SamplesEven` for every number of samples
and all lengths. Its loop invariant `Walking` says after n turns that each point taken
lies on the segment its distance along the samples falls into, and that each turn has
taken a point or passed a segment; `TurnGoesOn` keeps it, and `WalkTakesAll` shows that
the loop leaves out no point.

`LocalTarget_proofs` proves the type invariant for every line and every set of paths,
and, if no duration is a whole number of steps (`NoExact`), `LastGlobalPoint`. With
`StraightPaths` and `ThresholdsApart` it proves `NeverAstray`, `FinishedAtGoal` and
`TargetOfGoal`. `Chain` is the inductive invariant: it bounds, in each state, how far the
progress, the robot and the two ends of the trajectory lie from each other and from the
goal, separately for a trajectory to a point of the path (`OnTheWay`), one to the goal
(`LastLeg`), one of a goal since replaced (`OldLeg`), and while replans fail
(`Replanning`). `TargetAhead` is the lemma about `getLocalTarget`: its target lies a
horizon ahead on the way to the goal, or is the goal. `LeastNatural` gives `Min` its
meaning from `WFMin`.

`ReboundOptimize_proofs` proves, for any number of control points, samples, restarts
and rebounds, `SuccessIsClear`, `NothingStale` and `RoundsBounded`, the safety half of
termination: each counter has one end, and no branch gives it back. The invariant
says that only a look at the present points makes a success (`SuccessHolds`), that a
stop is asked for by the points last evaluated (`StopIsFresh`), and that until the
first collision of a call only planes of its own segments exist (`PlanesAreFresh`).
`ReboundsAreWhole` proves `ReboundsHoldCollisions`: the walk over the points looks at
itself only further on, so what it finds from a point (`FoundFrom`) follows by induction
downwards from what it finds behind it. `ObstaclesAreFound` proves `SegmentsAsMeant` by
induction upwards: `Scanned` says what the flags and the counter know after n samples,
whether they stand between obstacles (`Between`) or within one (`Within`), how far back
its last occupied sample lies, and that exactly the obstacles whose end has been seen are
listed. What a sample can do to them is one lemma each: `ScanFree`, `ScanHead`,
`ScanWithin`, `ScanTail`.

`AStar_proofs` begins with `BestFirst`, for every grid, cost and map (`IsGrid`): the
parents form a sound tree (`TreeSound`) and a failed search leaves a cut (`NoneMeansCut`).
The invariant adds the frontier: a free neighbour of a closed node is known. Then it
proves of `AStar`, for every pool, map and number of searches, `PathIsReal`,
`NoPathMeansNone` and the refinement `ImplementsBestFirst`. Of the heap it needs only that
its operations move elements, and neither lose nor double one (`PushKeeps`, `PopKeeps`);
so a disturbed order does not matter. `SearchInv` says that no stamp is of a later search
(`Ages`), that the queue holds the open nodes of this one, each once (`Queued`), that each
node hangs on a closed one, at a higher cost (`Tree`), that no free neighbour of an
expanded node was passed over (`Cut`), and how far the path is retrieved (`Walk`).
`NeighbourLoop` takes the eight visits of an expansion together.

`OccupancyMap_proofs` proves of `RayCaster`, for every two positions and any number of
rays, that none passes its end (`NoRayPastItsEnd`). The invariant ties the fraction of an
axis to the voxels left: its numerator is the first one plus twice the voxels stepped, so
an axis that has ended is beyond 1 while every other is at most 1, and the least is never
one that has ended. For every map, every cloud and any number of rounds, those after
the round number has wrapped included, the module proves the same of the rays of a round
(`NoCastPastItsEnd`, from `KindsInductive`), `FreeMeansCrossed` (from `OpenInv`), and `LowObstaclesBlock` if obstacles are inflated at all
(`inf_step > 0`; without it the bounds of a cloud leave out its last voxels). `LowInv`
says that the bounds cover each point of the last cloud, with a voxel to spare
(`Covered`). `PointsAreLinked` is proved for every width of the number and the rounds its
claim is bounded to: there the number is the count of rounds, no stamp is ahead of it
and untouched voxels never carry it (`Stamps`). `RoundInv` follows the ray in hand: what is cached is linked to the camera or
to the ray, and what was traversed is linked to the camera or lies behind the ray, which
therefore never meets it (`OnRay`).

Some of these rest on what a recursive function computes: `Segments`, `Resampled`, the
loops of the heap and of an expansion. Two lemmas make that possible: what holds of 0 and
goes on from n to n + 1 holds of every natural (`Induction`, from the well-foundedness of
`Nat`), and a function whose every value is determined by the one before exists
(`Recursion`), so that its recursive equation may be used. Each module that needs them
states them.

Every safety invariant, action property and refinement that a passing run checks is
proved. Model-checked only is liveness, which this prover cannot establish under
fairness: `GoalLeadsToExecution`, `AlignmentEnds`, `ManualStopTakesEffect`,
`StopTakenBack`, `StopReleased`, `CallReturns`, `GoalReached`, `SearchEnds` and
`OptimizerReturns`. TLC also evaluates the assumptions on the constants at the values of
the runs.

## Disagreements found

1. `replan_late`: a replan with an empty remainder does not fail as
   `planner_manager.cpp:174` says, but reads out of bounds at 170.
2. `stack_claim`: traj_server publishes during the adjust phase, against its comment.
3. `local_target_exact`: "Last global point" is missed at an exact duration.
4. `map_wrap`: the buffers "for speeding up raycasting" (`grid_map.h:130`) change what is
   cast once the 8-bit round number equals what untouched voxels or an earlier round carry.

## Not modelled

- **qpOASES**, **patchwork** and `lbfgs.hpp` are vendored or third-party; qpOASES
  alone is more than half of the lines of the implementation, so the share of it
  these modules describe stays small.
- **MPC**, **PolynomialTraj**, **UniformBspline**, the cost functions and the gradient
  descent solver are arithmetic on reals without control state. Where their result
  decides control (durations, numbers of points, feasibility), it is an input.
- **EMERGENCY_STOP**, `checkCollisionCallback` and `waypointCallback`: their timer
  and subscription are commented out.
- **The depth image path** of GridMap is never subscribed to; the terrain
  heights are written for a display only. Points outside the map and rays
  cut at `max_ray_length_` are left out.
- **PlanningVisualization**, publishing of maps, **fake_sensor**, and the launch files,
  which were read for wiring and values.

What a continuation could add: bounds between the old
and the new buffer of `OccupancyMap`; knots and time lengthening of `UniformBspline` against a reference.
