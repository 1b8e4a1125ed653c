--------------------------- MODULE MCCommandStack ---------------------------
(***************************************************************************)
(* CommandStack for TLC: queues of two, trajectories of one and two units, *)
(* a watchdog of two units, and speeds beyond the bridge's limits.         *)
(***************************************************************************)
EXTENDS CommandStack
=============================================================================
