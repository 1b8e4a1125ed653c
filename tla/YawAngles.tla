----------------------------- MODULE YawAngles -----------------------------
(***************************************************************************)
(* The heading arithmetic of ego_replan_fsm.cpp on an integer scale.  The  *)
(* code writes PI as the literal 3.1415926, which is a little less than    *)
(* the largest value atan2 and getRPY return; YawMax is that larger value, *)
(* so headings range over -YawMax..YawMax while the wrap uses PI.          *)
(***************************************************************************)
EXTENDS Integers

CONSTANTS
  PI,             \* half a turn, in the model's angle unit (line 6)
  YawMax,         \* the largest heading atan2 and getRPY return
  yaw_error_max,  \* the dead zone of the first alignment, a quarter turn (line 7)
  FinalDeadzone   \* kFinalYawAlignDeadzone, 10 degrees (line 14)

ASSUME AngleAssumption ==
  /\ PI \in Nat \ {0}
  /\ YawMax \in Nat
  /\ PI <= YawMax
  /\ 2 * YawMax <= 3 * PI
  /\ yaw_error_max \in 0..PI
  /\ FinalDeadzone \in 0..PI

Yaw == -YawMax..YawMax

Abs(x) == IF x < 0 THEN -x ELSE x
Sign(x) == IF x < 0 THEN -1 ELSE IF x > 0 THEN 1 ELSE 0

\* error - error/abs(error)*2*PI, applied only beyond half a turn
Wrap(error) == IF Abs(error) > PI THEN error - Sign(error) * 2 * PI ELSE error

calculateYawError(yaw_cur, yaw_target) == Wrap(yaw_target - yaw_cur)

\* the heading of the robot's tail; a heading of exactly zero is left as it is
Flip(y) == IF y > 0 THEN y - PI ELSE IF y < 0 THEN y + PI ELSE y
=============================================================================
