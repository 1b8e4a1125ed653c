------------------------- MODULE MCSafetyStopGuard -------------------------
(***************************************************************************)
(* SafetyStopGuard for TLC.  In the launch file the timeout is twelve      *)
(* timer periods; the configurations use a timeout between one and two     *)
(* periods, so that a stop, its echo and the next stop interleave in every *)
(* way within a few periods.                                               *)
(***************************************************************************)
EXTENDS SafetyStopGuard
=============================================================================
