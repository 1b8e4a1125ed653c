--------------------------- MODULE MCLocalTarget ---------------------------
(***************************************************************************)
(* LocalTarget for TLC.  planGlobalTraj doubles the time of the first and  *)
(* the last segment: a sample of the global trajectory is half a cell from *)
(* the next on a number of cells at both ends, and one cell in between.    *)
(***************************************************************************)
EXTENDS LocalTarget

CONSTANTS Length, SlowEnds

MCLine == 0..Length

\* the cell of sample i on a path over m cells, h of them slow at each end
CellOf(i, m, h) ==
  LET samples == m + 2 * h IN
  IF i <= 2 * h THEN (i - 1) \div 2
  ELSE IF i > samples - 2 * h THEN m - 1 - (samples - i) \div 2
  ELSE i - h - 1

Sampled(from, to, slow) ==
  LET m == Dist(from, to) \div 2 + 1
      h == Min({slow, m \div 2}) IN
  [i \in 1..(m + 2 * h) |-> IF from <= to THEN from + CellOf(i, m, h) ELSE from - CellOf(i, m, h)]

MCPaths(from, to) == {Sampled(from, to, slow) : slow \in SlowEnds}

ASSUME Geometry == StraightPaths /\ ThresholdsApart
=============================================================================
