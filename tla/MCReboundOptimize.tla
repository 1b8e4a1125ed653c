------------------------- MODULE MCReboundOptimize -------------------------
(***************************************************************************)
(* ReboundOptimize for TLC: nine control points, three of which move, and  *)
(* twelve samples, enough for two obstacles and the gap between them.  The *)
(* ends are free, or the robot or its target is in an obstacle, with all   *)
(* of its points or with some.                                             *)
(***************************************************************************)
EXTENDS ReboundOptimize

MCStarts == {{}, {0, 1, 2}, {2}}
AllRows == [1 .. 12 -> BOOLEAN]
Changes(row) == Cardinality({n \in 1 .. 11 : row[n] # row[n + 1]})
MCRows == [n \in 0 .. 2 |-> IF n = 0 THEN AllRows ELSE {row \in AllRows : Changes(row) <= 3}]
MCEnds == {{}, {6, 7, 8}}
=============================================================================
