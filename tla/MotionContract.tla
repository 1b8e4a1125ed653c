--------------------------- MODULE MotionContract ---------------------------
(***************************************************************************)
(* What the planner node promises about the base's motion: it is either    *)
(* turned in place or driven along a trajectory, never both, and a drive   *)
(* begins only once no turn has been commanded for a settling time         *)
(* (kAdjustPoseSettleSeconds).  ReplanFSM implements it.                   *)
(***************************************************************************)
EXTENDS Naturals

CONSTANT Settle

VARIABLES turning, driving, rest

motionVars == <<turning, driving, rest>>

MotionInit == turning = FALSE /\ driving = FALSE /\ rest = Settle

Turn == ~driving /\ turning' = TRUE /\ rest' = 0 /\ UNCHANGED driving

EndTurn == turning' = FALSE /\ UNCHANGED <<driving, rest>>

Drive == ~turning /\ rest = Settle /\ driving' = TRUE /\ UNCHANGED <<turning, rest>>

\* Time passes; a trajectory may run out, a robot at rest rests longer.
Pass ==
  /\ driving' \in {driving, FALSE}
  /\ rest' \in IF ~turning /\ rest < Settle THEN {rest + 1} ELSE {rest}
  /\ UNCHANGED turning

MotionNext == Turn \/ EndTurn \/ Drive \/ Pass

MotionSpec == MotionInit /\ [][MotionNext]_motionVars
=============================================================================
