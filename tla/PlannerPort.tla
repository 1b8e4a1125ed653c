---------------------------- MODULE PlannerPort ----------------------------
(***************************************************************************)
(* What the rest of the stack sees of the planner node: whether it rests,  *)
(* turns the robot in place or has a trajectory executed, its claim on     *)
(* /cmd_vel, the rotation it commands and how long the trajectory it last  *)
(* published still runs.  ReplanFSM implements it; CommandStack composes   *)
(* it with the nodes that listen.                                          *)
(***************************************************************************)
EXTENDS Naturals

CONSTANTS
  Durations,   \* durations of trajectories
  Settle       \* kAdjustPoseSettleSeconds

VARIABLES
  phase,       \* "REST", "ADJUST" or "EXEC"
  claim,       \* the last /is_adjust_yaw
  turning,     \* the last /cmd_vel of the node was a rotation
  left,        \* what remains of the published trajectory
  still        \* time since neither a rotation nor a trajectory moved the base

portVars == <<phase, claim, turning, left, still>>

PortInit ==
  /\ phase = "REST" /\ claim = 0 /\ turning = FALSE
  /\ left = 0 /\ still = Settle

\* A trajectory of duration d begins, from rest or in place of the running one.
Execute(d) ==
  /\ phase \in {"REST", "EXEC"}
  /\ phase' = "EXEC" /\ left' = d /\ still' = 0
  /\ UNCHANGED <<claim, turning>>

\* A trajectory is planned whose heading the robot must first be turned to.
BeginAdjust ==
  /\ phase = "REST" /\ phase' = "ADJUST"
  /\ UNCHANGED <<claim, turning, left, still>>

Rotate ==
  /\ phase = "ADJUST"
  /\ claim' = 1 /\ turning' = TRUE /\ still' = 0
  /\ UNCHANGED <<phase, left>>

Hold ==
  /\ phase = "ADJUST"
  /\ claim' = 1 /\ turning' = FALSE
  /\ UNCHANGED <<phase, left, still>>

\* After the final alignment the node rests, after the first one it executes.
Release ==
  /\ phase = "ADJUST" /\ still = Settle /\ ~turning
  /\ claim' = 0
  /\ \/ phase' = "REST" /\ UNCHANGED <<left, still>>
     \/ phase' = "EXEC" /\ left' \in Durations /\ still' = 0
  /\ UNCHANGED turning

Finish ==
  /\ phase = "EXEC" /\ left = 0
  /\ phase' = "ADJUST" /\ claim' = 1
  /\ UNCHANGED <<turning, left, still>>

PassTime ==
  /\ left' = IF left > 0 THEN left - 1 ELSE 0
  /\ still' = IF ~turning /\ left = 0 /\ still < Settle THEN still + 1 ELSE still
  /\ UNCHANGED <<phase, claim, turning>>

PortNext ==
  \/ \E d \in Durations : Execute(d)
  \/ BeginAdjust \/ Rotate \/ Hold \/ Release \/ Finish \/ PassTime

PortSpec == PortInit /\ [][PortNext]_portVars
=============================================================================
