--------------------------- MODULE MCReboundReplan ---------------------------
(***************************************************************************)
(* ReboundReplan for TLC.  A unit of length is 2 cm: TooClose = 10 is      *)
(* 0.2 m, CtrlDist = 5 is control_points_distance = 0.1, and in ts the     *)
(* robot covers 1.2 control point distances.  At ten shrinks a step is a   *)
(* fiftieth of what it was, less than a sixth of any path.                 *)
(***************************************************************************)
EXTENDS ReboundReplan
=============================================================================
