----------------------------- MODULE RayCaster -----------------------------
(***************************************************************************)
(* RayCaster: the voxels between a point and the camera.                   *)
(*                                                                         *)
(* Positions count half voxels, so a coordinate is on the boundary of two  *)
(* voxels or in the middle of one.  tMax of an axis is a fraction with     *)
(* 2 * span as its denominator, of which the ray keeps the numerator:      *)
(* tDelta adds 2 to it.  An axis without a span has an infinite tMax.      *)
(* The arithmetic is exact; the code's is double.                          *)
(***************************************************************************)
EXTENDS Integers

Axes == {"x", "y", "z"}

Positions == [Axes -> Int]

VARIABLE ray   \* at, end, span, dir, tMax, each by axis

Ray == [at : Positions, end : Positions, span : [Axes -> Nat],
        dir : [Axes -> {-1, 0, 1}], tMax : Positions]

posToIndex(pos) == [a \in Axes |-> pos[a] \div 2]

signum(n) == IF n = 0 THEN 0 ELSE IF n < 0 THEN -1 ELSE 1

\* the half voxels from s to the first boundary in the direction of ds, where
\* a position on a boundary has a whole voxel to go
intbound(s, ds) == 2 - ((IF ds < 0 THEN -s ELSE s) % 2)

RayFrom(start, end) ==
  LET d == [a \in Axes |-> posToIndex(end)[a] - posToIndex(start)[a]] IN
  [at   |-> posToIndex(start),
   end  |-> posToIndex(end),
   span |-> [a \in Axes |-> IF d[a] < 0 THEN -d[a] ELSE d[a]],
   dir  |-> [a \in Axes |-> signum(d[a])],
   tMax |-> [a \in Axes |-> intbound(start[a], d[a])]]

setInput(start, end) == ray' = RayFrom(start, end)

\* Mutant: the later boundary is crossed first.
Sooner_Later(a, b) ==
  ray.span[a] # 0 /\ (ray.span[b] = 0 \/ ray.tMax[a] * ray.span[b] > ray.tMax[b] * ray.span[a])

\* tMax of a is less than that of b
Sooner(a, b) ==
  ray.span[a] # 0 /\ (ray.span[b] = 0 \/ ray.tMax[a] * ray.span[b] < ray.tMax[b] * ray.span[a])

NextAxis ==
  CASE Sooner("x", "y") /\ Sooner("x", "z") -> "x"
    [] ~Sooner("x", "y") /\ Sooner("y", "z") -> "y"
    [] OTHER -> "z"

Arrived == ray.at = ray.end

step ==
  /\ ~Arrived
  /\ LET a == NextAxis IN
     ray' = [ray EXCEPT !.at[a] = @ + ray.dir[a], !.tMax[a] = @ + 2]

\* A ray caster alone, for rays between any two positions.
RayInit == \E start, end \in Positions : ray = RayFrom(start, end)
RayNext == step \/ \E start, end \in Positions : setInput(start, end)
RaySpec == RayInit /\ [][RayNext]_ray

-----------------------------------------------------------------------------
(* Properties.                                                             *)

\* the voxels a ray has still to cross on an axis
Left(a) == (ray.end[a] - ray.at[a]) * ray.dir[a]

\* No axis steps beyond the end voxel.  step looks for the end voxel alone: a
\* ray past it would go on for ever, out of the map.
NeverPast == \A a \in Axes : 0 <= Left(a) /\ Left(a) <= ray.span[a]
=============================================================================
