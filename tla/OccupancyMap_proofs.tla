------------------------ MODULE OccupancyMap_proofs ------------------------
(***************************************************************************)
(* What the occupancy map promises, for every map and every ray.           *)
(*                                                                         *)
(* Rays.  A ray between any two positions passes its end voxel on no axis: *)
(* an axis has been stepped span - Left times, each time adding 2 to the   *)
(* numerator of tMax, which began with 1 or 2.  So an axis at its end has  *)
(* a tMax beyond 1, and one with voxels left has a tMax of 1 at most: the  *)
(* axis stepped is never one at its end.                                   *)
(*                                                                         *)
(* Free space.  A voxel turns free only in the buffer, while an update is  *)
(* flushed, and what is flushed as a miss was crossed by a ray.            *)
(*                                                                         *)
(* Low obstacles.  The bounds of a cloud cover every voxel one of its      *)
(* points inflates, so a cloud's low points are blocked by the time the    *)
(* callback returns, and nothing clears them before the next one.          *)
(*                                                                         *)
(* Rounds.  A ray moves between neighbouring voxels and ends either at the *)
(* camera or in a voxel an earlier ray of the round has traversed.  What   *)
(* was traversed is linked to the camera, or lies behind the ray that is   *)
(* being cast and so is never met by it.                                   *)
(***************************************************************************)
EXTENDS OccupancyMap, FiniteSetTheorems, SequenceTheorems, WellFoundedInduction, TLAPS

AxisOK(a) ==
  /\ 0 <= Left(a) /\ Left(a) <= ray.span[a]
  /\ ray.span[a] = 0 => ray.at[a] = ray.end[a]
  /\ ray.span[a] # 0 => /\ ray.dir[a] # 0
                        /\ ray.tMax[a] \in {1 + 2 * (ray.span[a] - Left(a)),
                                            2 + 2 * (ray.span[a] - Left(a))}

RayInv == ray \in Ray /\ \A a \in Axes : AxisOK(a)

\* intbound is one half voxel or two, whatever its arguments (raycast.cpp).
LEMMA Fractions ==
  ASSUME NEW s \in Int, NEW ds \in Int
  PROVE  intbound(s, ds) \in {1, 2}
<1>1. s % 2 \in {0, 1} /\ (-s) % 2 \in {0, 1}
  OBVIOUS
<1> QED
  BY <1>1 DEF intbound

\* A ray just set up satisfies the invariant (RayCaster::setInput).
LEMMA SetUp ==
  ASSUME NEW start \in Positions, NEW end \in Positions, ray = RayFrom(start, end)
  PROVE  RayInv
<1> DEFINE d(a) == posToIndex(end)[a] - posToIndex(start)[a]
<1>1. \A a \in Axes : /\ posToIndex(start)[a] \in Int /\ posToIndex(end)[a] \in Int
                      /\ start[a] \in Int /\ d(a) \in Int
  BY DEF Positions, posToIndex
<1>2. \A a \in Axes : signum(d(a)) \in {-1, 0, 1}
  BY <1>1 DEF signum
<1>3. \A a \in Axes : intbound(start[a], d(a)) \in {1, 2}
  BY <1>1, Fractions
<1>4. ray \in Ray
  <2>1. ray.at \in Positions /\ ray.end \in Positions
    BY <1>1 DEF RayFrom, Positions, posToIndex
  <2>2. ray.span \in [Axes -> Nat]
    BY <1>1 DEF RayFrom
  <2>3. ray.dir \in [Axes -> {-1, 0, 1}]
    BY <1>2 DEF RayFrom
  <2>4. ray.tMax \in Positions
    BY <1>3 DEF RayFrom, Positions
  <2> QED
    BY <2>1, <2>2, <2>3, <2>4 DEF Ray, RayFrom
<1>5. ASSUME NEW a \in Axes
      PROVE  AxisOK(a)
  <2>1. /\ ray.at[a] = posToIndex(start)[a] /\ ray.end[a] = posToIndex(end)[a]
        /\ ray.span[a] = IF d(a) < 0 THEN -d(a) ELSE d(a)
        /\ ray.dir[a] = signum(d(a)) /\ ray.tMax[a] = intbound(start[a], d(a))
    BY DEF RayFrom, posToIndex
  <2>2. Left(a) = ray.span[a]
    BY <1>1, <2>1 DEF Left, signum
  <2>3. ray.span[a] \in Nat /\ ray.at[a] \in Int /\ ray.end[a] \in Int
    BY <1>1, <2>1
  <2>4. ray.span[a] = 0 => ray.at[a] = ray.end[a]
    BY <1>1, <2>1
  <2>5. ray.span[a] # 0 => ray.dir[a] # 0
    BY <1>1, <2>1 DEF signum
  <2>6. ray.tMax[a] \in {1, 2}
    BY <1>3, <2>1
  <2> QED
    BY <2>2, <2>3, <2>4, <2>5, <2>6 DEF AxisOK
<1> QED
  BY <1>4, <1>5 DEF RayInv

\* The same of a ray caster set up again.
LEMMA SetUpAgain ==
  ASSUME NEW start \in Positions, NEW end \in Positions
  PROVE  (ray = RayFrom(start, end))' => RayInv'
<1>1. ray = RayFrom(start, end) => RayInv
  BY SetUp
<1> QED
  BY <1>1, PTL

\* An axis at its end is crossed later than one that has voxels left.
LEMMA EndedLater ==
  ASSUME RayInv, NEW a \in Axes, NEW b \in Axes, Left(a) = 0, 0 < Left(b)
  PROVE  Sooner(b, a) /\ ~Sooner(a, b)
<1> DEFINE m == ray.span[a]
           n == ray.span[b]
           s == ray.tMax[a]
           t == ray.tMax[b]
<1>1. m \in Nat /\ n \in Nat /\ s \in Int /\ t \in Int /\ Left(b) \in Int
  BY DEF RayInv, Ray, Positions, Left
<1>2. n # 0 /\ t <= 2 * n
  BY <1>1 DEF RayInv, AxisOK
<1>3. CASE m = 0
  BY <1>2, <1>3 DEF Sooner
<1>4. CASE m # 0
  <2>1. 1 + 2 * m <= s
    BY <1>1, <1>4 DEF RayInv, AxisOK
  <2> HIDE DEF m, n, s, t
  <2>2. t * m <= 2 * n * m
    BY <1>1, <1>2
  <2>3. (1 + 2 * m) * n <= s * n
    BY <1>1, <2>1
  <2>4. (1 + 2 * m) * n = n + 2 * n * m
    BY <1>1
  <2>5. t * m \in Int /\ s * n \in Int /\ 2 * n * m \in Int /\ (1 + 2 * m) * n \in Int /\ n > 0
    BY <1>1, <1>2
  <2>6. t * m < s * n
    BY <1>1, <2>2, <2>3, <2>4, <2>5
  <2>7. t * m < s * n /\ ~(s * n < t * m)
    BY <2>5, <2>6
  <2> QED
    BY <1>2, <1>4, <2>7 DEF Sooner, m, n, s, t
<1> QED
  BY <1>3, <1>4

\* The axis step chooses has voxels left (RayCaster::step).
LEMMA RightAxis ==
  ASSUME RayInv, ~Arrived
  PROVE  NextAxis \in Axes /\ 0 < Left(NextAxis)
<1>1. \A a \in Axes : Left(a) \in Int /\ 0 <= Left(a)
  <2> SUFFICES ASSUME NEW a \in Axes
               PROVE  Left(a) \in Int /\ 0 <= Left(a)
    OBVIOUS
  <2>1. ray.at[a] \in Int /\ ray.end[a] \in Int /\ ray.dir[a] \in {-1, 0, 1}
    BY DEF RayInv, Ray, Positions
  <2>2. Left(a) \in Int
    BY <2>1 DEF Left
  <2> QED
    BY <2>2 DEF RayInv, AxisOK
<1>2. PICK b \in Axes : ray.at[b] # ray.end[b]
  BY DEF Arrived, RayInv, Ray, Positions
<1>3. 0 < Left(b)
  <2>1. ray.dir[b] \in {-1, 1} /\ ray.at[b] \in Int /\ ray.end[b] \in Int
    BY <1>2 DEF RayInv, AxisOK, Ray, Positions
  <2>2. Left(b) # 0
    BY <1>2, <2>1 DEF Left
  <2> QED
    BY <1>1, <2>2
<1>4. NextAxis \in Axes
  BY DEF NextAxis, Axes
<1>5. ASSUME Left(NextAxis) = 0
      PROVE  FALSE
  <2>1. \A a, c \in Axes : Left(a) = 0 /\ 0 < Left(c) => Sooner(c, a) /\ ~Sooner(a, c)
    BY EndedLater
  <2>2. ASSUME NEW a \in Axes
        PROVE  Left(a) = 0 \/ 0 < Left(a)
    <3> HIDE DEF Left
    <3> QED
      BY <1>1
  <2> HIDE DEF Sooner
  <2>3. "x" \in Axes /\ "y" \in Axes /\ "z" \in Axes
    BY DEF Axes
  <2>4. b = "x" \/ b = "y" \/ b = "z"
    BY DEF Axes
  <2>5. b # NextAxis
    BY <1>1, <1>3, <1>5
  <2>6. CASE NextAxis = "x"
    BY <1>3, <1>5, <2>1, <2>3, <2>4, <2>5, <2>6 DEF NextAxis
  <2>7. CASE NextAxis = "y"
    BY <1>3, <1>5, <2>1, <2>3, <2>4, <2>5, <2>7 DEF NextAxis
  <2>8. CASE NextAxis = "z"
    BY <1>3, <1>5, <2>1, <2>2, <2>3, <2>4, <2>5, <2>8 DEF NextAxis
  <2> QED
    BY <1>4, <2>6, <2>7, <2>8 DEF Axes
<1> QED
  BY <1>1, <1>4, <1>5

\* A step keeps the invariant.
LEMMA StepKeeps ==
  ASSUME RayInv, step
  PROVE  RayInv'
<1> DEFINE c == NextAxis
<1>1. c \in Axes /\ 0 < Left(c)
  BY RightAxis DEF step
<1>2. ray' = [ray EXCEPT !.at[c] = @ + ray.dir[c], !.tMax[c] = @ + 2]
  BY DEF step
<1> HIDE DEF c
<1>3. ray \in Ray
  BY DEF RayInv
<1>4. /\ ray'.end = ray.end /\ ray'.span = ray.span /\ ray'.dir = ray.dir
      /\ ray'.at = [ray.at EXCEPT ![c] = @ + ray.dir[c]]
      /\ ray'.tMax = [ray.tMax EXCEPT ![c] = @ + 2]
  BY <1>2, <1>3 DEF Ray
<1>5. ray' \in Ray
  <2>1. ray'.at \in Positions
    BY <1>1, <1>3, <1>4 DEF Ray, Positions
  <2>2. ray'.tMax \in Positions
    BY <1>1, <1>3, <1>4 DEF Ray, Positions
  <2>3. /\ ray' = [at |-> ray'.at, end |-> ray.end, span |-> ray.span, dir |-> ray.dir,
                   tMax |-> ray'.tMax]
    BY <1>2, <1>3 DEF Ray
  <2> QED
    BY <1>3, <2>1, <2>2, <2>3 DEF Ray
<1>6. ASSUME NEW a \in Axes
      PROVE  AxisOK(a)'
  <2>1. /\ ray.at[a] \in Int /\ ray.end[a] \in Int /\ ray.span[a] \in Nat
        /\ ray.dir[a] \in {-1, 0, 1} /\ ray.tMax[a] \in Int
    BY <1>3 DEF Ray, Positions
  <2>2. AxisOK(a)
    BY DEF RayInv
  <2>3. CASE a # c
    <3>1. ray'.at[a] = ray.at[a] /\ ray'.tMax[a] = ray.tMax[a]
      BY <1>1, <1>3, <1>4, <2>3 DEF Ray, Positions
    <3> QED
      BY <1>4, <2>2, <3>1 DEF AxisOK, Left
  <2>4. CASE a = c
    <3>1. ray'.at[a] = ray.at[a] + ray.dir[a] /\ ray'.tMax[a] = ray.tMax[a] + 2
      BY <1>1, <1>3, <1>4, <2>4 DEF Ray, Positions
    <3>2. ray.dir[a] # 0
      BY <1>1, <2>1, <2>4 DEF Left
    <3>3. Left(a)' = Left(a) - 1
      BY <1>4, <2>1, <3>1, <3>2 DEF Left
    <3>4. Left(a) \in Int /\ 0 < Left(a) /\ Left(a) <= ray.span[a] /\ ray.span[a] # 0
      BY <1>1, <2>1, <2>2, <2>4 DEF Left, AxisOK
    <3> QED
      BY <1>4, <2>1, <2>2, <3>1, <3>2, <3>3, <3>4 DEF AxisOK
  <2> QED
    BY <2>3, <2>4
<1> QED
  BY <1>5, <1>6 DEF RayInv

\* NeverPast for every two positions, in a ray caster used again and again: no
\* axis steps beyond the end voxel, which is all that RayCaster::step looks for.
THEOREM NoRayPastItsEnd == RaySpec => []NeverPast
<1>1. RayInit => RayInv
  BY SetUp DEF RayInit
<1>2. RayInv /\ [RayNext]_ray => RayInv'
  <2> SUFFICES ASSUME RayInv, [RayNext]_ray
               PROVE  RayInv'
    OBVIOUS
  <2>1. CASE step
    BY <2>1, StepKeeps
  <2>2. ASSUME NEW start \in Positions, NEW end \in Positions, setInput(start, end)
        PROVE  RayInv'
    <3>1. (ray = RayFrom(start, end))'
      BY <2>2 DEF setInput, RayFrom, posToIndex, signum, intbound
    <3> QED
      BY <3>1, SetUpAgain
  <2>3. CASE UNCHANGED ray
    BY <2>3 DEF RayInv, AxisOK, Left
  <2> QED
    BY <2>1, <2>2, <2>3 DEF RayNext
<1>3. RayInv => NeverPast
  BY DEF RayInv, AxisOK, NeverPast
<1> QED
  BY <1>1, <1>2, <1>3, PTL DEF RaySpec
-----------------------------------------------------------------------------
\* The voxels of the map are the cells within its size on every axis.
LEMMA VoxelIsCell ==
  ASSUME NEW v
  PROVE  v \in Voxels <=> v \in Positions /\ \A a \in Axes : v[a] \in 0..(map_voxel_num_[a] - 1)
<1>1. \A a \in Axes : map_voxel_num_[a] \in Nat \ {0}
  BY MapAssumption
<1>2. ASSUME v \in Voxels PROVE v \in Positions /\ \A a \in Axes : v[a] \in 0..(map_voxel_num_[a] - 1)
  BY <1>1, <1>2 DEF Voxels, Positions, Axes
<1>3. ASSUME v \in Positions, \A a \in Axes : v[a] \in 0..(map_voxel_num_[a] - 1)
      PROVE  v \in Voxels
  BY <1>1, <1>3 DEF Voxels, Positions, Axes
<1> QED BY <1>2, <1>3

LEMMA VoxelAtIs ==
  ASSUME NEW v \in Voxels
  PROVE  /\ v = VoxelAt(ColumnOf(v), v.z) /\ v.x = v["x"] /\ v.y = v["y"] /\ v.z = v["z"]
         /\ ColumnOf(v) \in Columns
  BY DEF Voxels, VoxelAt, ColumnOf, Columns

LEMMA ColumnAt ==
  ASSUME NEW c \in Columns, NEW z
  PROVE  ColumnOf(VoxelAt(c, z)) = c
  BY DEF Columns, VoxelAt, ColumnOf

-----------------------------------------------------------------------------
\* A voxel is known only in a column some ray has crossed.
Opened == \A v \in known : \E w \in crossed : ColumnOf(w) = ColumnOf(v)

OpenInv == Opened /\ FreeMeansCrossed

\* A round makes known what it has cached, which its rays have crossed.
LEMMA UpdateOpens ==
  ASSUME OpenInv, UpdateCached
  PROVE  OpenInv'
<1>1. /\ known' = known \cup cache /\ crossed' = crossed \cup cache
      /\ map_type_' = map_type_ /\ blocked' = blocked
  BY DEF UpdateCached, sensorVars
<1>2. Opened'
  BY <1>1 DEF OpenInv, Opened
<1>3. FreeMeansCrossed'
  BY <1>1 DEF OpenInv, FreeMeansCrossed
<1> QED BY <1>2, <1>3 DEF OpenInv

\* A gap that is filled lies under a known voxel of its own column.
LEMMA FilterOpens ==
  ASSUME OpenInv, fliterLocalMap
  PROVE  OpenInv'
<1>1. /\ known' = known \cup Filled /\ crossed' = crossed
      /\ map_type_' = map_type_ /\ blocked' = blocked
  BY DEF fliterLocalMap, histVars
<1>2. ASSUME NEW v \in Filled PROVE \E w \in crossed : ColumnOf(w) = ColumnOf(v)
  <2>1. v \in Voxels /\ VoxelAt(ColumnOf(v), v.z + 1) \in known
    BY <1>2 DEF Filled, KnownFree
  <2>2. ColumnOf(VoxelAt(ColumnOf(v), v.z + 1)) = ColumnOf(v)
    BY <2>1, VoxelAtIs, ColumnAt
  <2> QED BY <2>1, <2>2 DEF OpenInv, Opened
<1>3. Opened'
  BY <1>1, <1>2 DEF OpenInv, Opened
<1>4. FreeMeansCrossed'
  BY <1>1 DEF OpenInv, FreeMeansCrossed
<1> QED BY <1>3, <1>4 DEF OpenInv

\* A column is opened for its free voxels (cloudSegmentationCallback_EXPLORATION).
LEMMA SegmentationOpens ==
  ASSUME OpenInv, NEW cloud, cloudSegmentationCallback(cloud)
  PROVE  OpenInv'
<1>1. known' = known /\ crossed' = crossed /\ map_type_' = map_type_
  BY DEF cloudSegmentationCallback
<1>2. Opened'
  BY <1>1 DEF OpenInv, Opened
<1>3. ASSUME map_type_ = "EXPLORATION", NEW c \in Columns \ blocked'
      PROVE  \E v \in crossed : ColumnOf(v) = c
  <2>1. CASE c \notin blocked
    BY <1>3, <2>1 DEF OpenInv, FreeMeansCrossed
  <2>2. CASE c \in blocked
    <3>1. PICK marked : ProjectExploration(marked)
      BY <1>3 DEF cloudSegmentationCallback
    <3> DEFINE freeLevels == {z \in LocalLevels : KnownFree(VoxelAt(c, z))}
    <3>2. Cardinality(freeLevels) > 1
      BY <1>3, <2>2, <3>1 DEF ProjectExploration
    <3>3. freeLevels # {}
      <4> HIDE DEF freeLevels
      <4> QED BY <3>2, FS_EmptySet
    <3>4. PICK z \in LocalLevels : VoxelAt(c, z) \in known
      BY <3>3 DEF KnownFree
    <3>5. ColumnOf(VoxelAt(c, z)) = c
      BY ColumnAt
    <3> QED BY <3>4, <3>5 DEF OpenInv, Opened
  <2> QED BY <2>1, <2>2
<1>4. FreeMeansCrossed'
  BY <1>1, <1>3 DEF FreeMeansCrossed
<1> QED BY <1>2, <1>4 DEF OpenInv

\* Only columns rays have been through are ever opened: whatever the map, the
\* clouds, the camera and their order, and however many gaps are filled.
THEOREM OnlyCrossedIsFree == Spec => []FreeMeansCrossed
<1>1. Init => OpenInv
  BY DEF Init, OpenInv, Opened, FreeMeansCrossed
<1>2. OpenInv /\ [Next]_vars => OpenInv'
  <2> SUFFICES ASSUME OpenInv, [Next]_vars PROVE OpenInv'
    OBVIOUS
  <2>1. ASSUME UNCHANGED <<map_type_, blocked, known, crossed>> PROVE OpenInv'
    BY <2>1 DEF OpenInv, Opened, FreeMeansCrossed
  <2>2. ASSUME NEW c \in Cameras, odomCallback(c) PROVE OpenInv'
    BY <2>1, <2>2 DEF odomCallback, bufferVars, histVars
  <2>3. ASSUME NEW cloud \in Clouds, cloudCallback(cloud) PROVE OpenInv'
    BY <2>1, <2>3 DEF cloudCallback
  <2>4. ASSUME NEW cloud \in Clouds, cloudSegmentationCallback(cloud) PROVE OpenInv'
    BY <2>4, SegmentationOpens
  <2>5. CASE BeginRound
    BY <2>1, <2>5 DEF BeginRound, sensorVars, bufferVars, histVars
  <2>6. CASE CastPoint
    BY <2>1, <2>6 DEF CastPoint, sensorVars, bufferVars, histVars
  <2>7. CASE WalkRay
    BY <2>1, <2>7 DEF WalkRay, sensorVars, bufferVars, histVars
  <2>8. CASE UNCHANGED vars
    BY <2>1, <2>8 DEF vars, sensorVars, bufferVars, histVars
  <2> QED BY <2>2, <2>3, <2>4, <2>5, <2>6, <2>7, <2>8, UpdateOpens, FilterOpens
             DEF Next, updateOccupancyCallback
<1>3. OpenInv => FreeMeansCrossed
  BY DEF OpenInv
<1> QED BY <1>1, <1>2, <1>3, PTL DEF Spec
-----------------------------------------------------------------------------
\* What holds of 0, and of n + 1 when it holds of n, holds of every natural.
LEMMA Induction ==
  ASSUME NEW S, 0 \in S, \A n \in Nat : n \in S => n + 1 \in S
  PROVE  \A n \in Nat : n \in S
<1> DEFINE T == {n \in Nat : n \notin S}
<1>1. SUFFICES ASSUME T # {} PROVE FALSE
  OBVIOUS
<1>2. \E x \in T : \A y \in T : ~(<<y, x>> \in OpToRel(<, Nat))
  <2> HIDE DEF OpToRel, T
  <2>1. T \subseteq Nat
    BY DEF T
  <2> QED
    BY <1>1, <2>1, NatLessThanWellFounded, WFMin
<1>3. \A x, y \in T : y < x => <<y, x>> \in OpToRel(<, Nat)
  BY DEF OpToRel
<1>4. PICK x \in T : \A y \in T : ~(y < x)
  BY <1>2, <1>3
<1>5. x # 0 /\ x - 1 \in Nat /\ x - 1 < x
  BY <1>4
<1>6. x - 1 \in S
  BY <1>4, <1>5
<1>7. x \in S
  BY <1>5, <1>6, (x - 1) + 1 = x
<1> QED
  BY <1>4, <1>7

\* A finite set of integers that is not empty has a least and a greatest element.
LEMMA Extremes ==
  ASSUME NEW S \in SUBSET Int, IsFiniteSet(S), S # {}
  PROVE  /\ Min(S) \in S /\ \A y \in S : Min(S) <= y
         /\ Max(S) \in S /\ \A y \in S : y <= Max(S)
<1> DEFINE Ends(A) == /\ \E x \in A : \A y \in A : x <= y
                      /\ \E x \in A : \A y \in A : x >= y
           T == {n \in Nat : \A A \in SUBSET Int :
                   IsFiniteSet(A) /\ Cardinality(A) = n + 1 => Ends(A)}
<1>1. 0 \in T
  <2> SUFFICES ASSUME NEW A \in SUBSET Int, IsFiniteSet(A), Cardinality(A) = 1 PROVE Ends(A)
    OBVIOUS
  <2>1. PICK x : A = {x}
    BY FS_Singleton
  <2> QED BY <2>1
<1>2. ASSUME NEW n \in Nat, n \in T PROVE n + 1 \in T
  <2> SUFFICES ASSUME NEW A \in SUBSET Int, IsFiniteSet(A), Cardinality(A) = (n + 1) + 1
               PROVE  Ends(A)
    OBVIOUS
  <2>1. PICK x : x \in A
    BY FS_EmptySet
  <2>2. IsFiniteSet(A \ {x}) /\ Cardinality(A \ {x}) = n + 1 /\ A \ {x} \in SUBSET Int
    BY <2>1, FS_RemoveElement
  <2>3. Ends(A \ {x})
    <3> HIDE DEF Ends
    <3> QED BY <1>2, <2>2
  <2>4. PICK l \in A \ {x} : \A y \in A \ {x} : l <= y
    BY <2>3
  <2>5. PICK g \in A \ {x} : \A y \in A \ {x} : g >= y
    BY <2>3
  <2>6. \E z \in A : \A y \in A : z <= y
    <3>1. CASE x <= l
      BY <2>1, <2>4, <3>1
    <3>2. CASE ~(x <= l)
      BY <2>1, <2>4, <3>2
    <3> QED BY <3>1, <3>2
  <2>7. \E z \in A : \A y \in A : z >= y
    <3>1. CASE x >= g
      BY <2>1, <2>5, <3>1
    <3>2. CASE ~(x >= g)
      BY <2>1, <2>5, <3>2
    <3> QED BY <3>1, <3>2
  <2> QED BY <2>6, <2>7
<1>3. \A n \in Nat : n \in T
  <2> HIDE DEF T
  <2> QED BY <1>1, <1>2, Induction
<1>4. Ends(S)
  <2>1. Cardinality(S) \in Nat \ {0}
    BY FS_CardinalityType, FS_EmptySet
  <2>2. Cardinality(S) - 1 \in T /\ (Cardinality(S) - 1) + 1 = Cardinality(S)
    BY <1>3, <2>1
  <2> HIDE DEF Ends
  <2> QED BY <2>2
<1> QED BY <1>4 DEF Min, Max

\* The image of a finite set is finite.
LEMMA FiniteImage ==
  ASSUME NEW S, IsFiniteSet(S), NEW f
  PROVE  IsFiniteSet({f[x] : x \in S})
<1> DEFINE T == {f[x] : x \in S}
           g == [x \in S |-> f[x]]
<1>1. g \in Surjection(S, T)
  BY DEF Surjection
<1> QED BY <1>1, FS_Surjection

\* boundIndex cuts an index to the map.
LEMMA BoundClamps ==
  ASSUME NEW a \in Axes, NEW n \in Int
  PROVE  Bound(n, a) = IF n < 0 THEN 0
                       ELSE IF n > map_voxel_num_[a] - 1 THEN map_voxel_num_[a] - 1 ELSE n
<1> DEFINE m == map_voxel_num_[a] - 1
           low == Min({n, m})
<1>1. m \in Nat
  BY MapAssumption
<1> HIDE DEF m
<1>2. \A x, y \in Int : IsFiniteSet({x, y})
  <2> SUFFICES ASSUME NEW x \in Int, NEW y \in Int PROVE IsFiniteSet({x, y})
    OBVIOUS
  <2>1. {x, y} = {x} \cup {y} /\ IsFiniteSet({x})
    BY FS_Singleton
  <2>2. IsFiniteSet({x} \cup {y})
    BY <2>1, FS_AddElement
  <2> QED BY <2>1, <2>2
<1>3. low \in {n, m} /\ low <= n /\ low <= m
  <2>1. {n, m} \in SUBSET Int /\ {n, m} # {} /\ IsFiniteSet({n, m})
    BY <1>1, <1>2
  <2> QED BY <2>1, Extremes
<1> HIDE DEF low
<1>4. low \in Int
  BY <1>1, <1>3
<1>5. Max({low, 0}) \in {low, 0} /\ low <= Max({low, 0}) /\ 0 <= Max({low, 0})
  <2>1. {low, 0} \in SUBSET Int /\ {low, 0} # {} /\ IsFiniteSet({low, 0})
    BY <1>2, <1>4
  <2> QED BY <2>1, Extremes
<1>6. Bound(n, a) = Max({low, 0})
  BY DEF Bound, low, m
<1>7. Bound(n, a) = IF n < 0 THEN 0 ELSE IF n > m THEN m ELSE n
  BY <1>1, <1>3, <1>4, <1>5, <1>6
<1> QED BY <1>7 DEF m

\* The points of a cloud within the update range lie in the map and are finitely many.
LEMMA RangeIsFinite ==
  ASSUME NEW cloud \in Clouds
  PROVE  InRange(cloud) \subseteq InMap /\ IsFiniteSet(InRange(cloud))
<1>1. cloud \in Seq(InMap)
  BY MapAssumption
<1>2. DOMAIN cloud = 1 .. Len(cloud) /\ Len(cloud) \in Nat /\ \A i \in 1 .. Len(cloud) : cloud[i] \in InMap
  BY <1>1, LenProperties, ElementOfSeq
<1>3. IsFiniteSet({cloud[i] : i \in DOMAIN cloud})
  <2>1. IsFiniteSet(DOMAIN cloud)
    BY <1>2, FS_Interval
  <2> QED BY <2>1, FiniteImage
<1>4. InRange(cloud) \subseteq {cloud[i] : i \in DOMAIN cloud}
  BY DEF InRange
<1> QED BY <1>2, <1>3, <1>4, FS_Subset

\* The bounds of a cloud reach over the inflation of each of its points, as
\* far as the map does (cloudCallback).
LEMMA BoundsCover ==
  ASSUME camera_pos_ \in InMap, NEW points, points \subseteq InMap, IsFiniteSet(points),
         NEW p \in points, NEW a \in Axes, NEW inf \in Nat
  PROVE  LET margin == Around(inf)
             b == BoundsOf(points, margin)
             v == posToIndex(p)
         IN  /\ v[a] \in 0 .. map_voxel_num_[a] - 1
             /\ b.min[a] \in 0 .. map_voxel_num_[a] - 1 /\ b.max[a] \in 0 .. map_voxel_num_[a] - 1
             /\ b.min[a] <= v[a]
             /\ margin[a] > 0 /\ v[a] < map_voxel_num_[a] - 1 => v[a] < b.max[a]
<1> DEFINE margin == Around(inf)
           m == map_voxel_num_[a]
           k == margin[a]
           Least == Min({q[a] - 2 * k : q \in points} \cup {camera_pos_[a]})
           Most == Max({q[a] + 2 * k : q \in points} \cup {camera_pos_[a]})
<1>1. k \in Nat /\ m \in Nat \ {0}
  BY MapAssumption DEF Around
<1>2. /\ \A q \in InMap : q[a] \in 0 .. 2 * m - 1 /\ posToIndex(q)[a] = q[a] \div 2
      /\ camera_pos_[a] \in Int /\ p[a] \in 0 .. 2 * m - 1
  <2>1. \A q \in InMap : q[a] \in 0 .. 2 * m - 1 /\ posToIndex(q)[a] = q[a] \div 2
    BY DEF InMap, posToIndex
  <2> QED BY <1>1, <2>1
<1> HIDE DEF margin, k
<1>3. Least \in Int /\ Least <= p[a] - 2 * k
  <2> DEFINE f == [q \in points |-> q[a] - 2 * k]
             S == {f[q] : q \in points} \cup {camera_pos_[a]}
  <2>1. S = {q[a] - 2 * k : q \in points} \cup {camera_pos_[a]}
    OBVIOUS
  <2>2. S \in SUBSET Int
    BY <1>1, <1>2
  <2>3. IsFiniteSet(S)
    <3>1. IsFiniteSet({f[q] : q \in points})
      <4> HIDE DEF f
      <4> QED BY FiniteImage
    <3> HIDE DEF f
    <3> QED BY <3>1, FS_AddElement
  <2>4. p[a] - 2 * k \in S
    BY <2>1
  <2> HIDE DEF f, S
  <2>5. Min(S) \in S /\ Min(S) <= p[a] - 2 * k
    BY <2>2, <2>3, <2>4, Extremes
  <2> QED BY <2>1, <2>2, <2>5
<1>4. Most \in Int /\ p[a] + 2 * k <= Most
  <2> DEFINE f == [q \in points |-> q[a] + 2 * k]
             S == {f[q] : q \in points} \cup {camera_pos_[a]}
  <2>1. S = {q[a] + 2 * k : q \in points} \cup {camera_pos_[a]}
    OBVIOUS
  <2>2. S \in SUBSET Int
    BY <1>1, <1>2
  <2>3. IsFiniteSet(S)
    <3>1. IsFiniteSet({f[q] : q \in points})
      <4> HIDE DEF f
      <4> QED BY FiniteImage
    <3> HIDE DEF f
    <3> QED BY <3>1, FS_AddElement
  <2>4. p[a] + 2 * k \in S
    BY <2>1
  <2> HIDE DEF f, S
  <2>5. Max(S) \in S /\ p[a] + 2 * k <= Max(S)
    BY <2>2, <2>3, <2>4, Extremes
  <2> QED BY <2>1, <2>2, <2>5
<1>5. /\ BoundsOf(points, margin).min[a] = Bound(Least \div 2, a)
      /\ BoundsOf(points, margin).max[a] = Bound(Most \div 2, a)
  BY DEF BoundsOf, k
<1> HIDE DEF Least, Most
<1>6. Least \div 2 \in Int /\ Most \div 2 \in Int
  BY <1>3, <1>4
<1>7. /\ BoundsOf(points, margin).min[a] =
           IF Least \div 2 < 0 THEN 0 ELSE IF Least \div 2 > m - 1 THEN m - 1 ELSE Least \div 2
      /\ BoundsOf(points, margin).max[a] =
           IF Most \div 2 < 0 THEN 0 ELSE IF Most \div 2 > m - 1 THEN m - 1 ELSE Most \div 2
  BY <1>5, <1>6, BoundClamps
<1>8. Least \div 2 <= p[a] \div 2 /\ (p[a] \div 2) + k <= Most \div 2
  BY <1>1, <1>2, <1>3, <1>4
<1>9. posToIndex(p)[a] = p[a] \div 2 /\ p[a] \div 2 \in 0 .. m - 1
  BY <1>1, <1>2
<1> HIDE DEF m
<1>10. /\ BoundsOf(points, margin).min[a] \in 0 .. m - 1
       /\ BoundsOf(points, margin).max[a] \in 0 .. m - 1
  BY <1>1, <1>6, <1>7
<1>11. BoundsOf(points, margin).min[a] <= p[a] \div 2
  BY <1>1, <1>6, <1>7, <1>8, <1>9
<1>12. k > 0 /\ p[a] \div 2 < m - 1 => p[a] \div 2 < BoundsOf(points, margin).max[a]
  BY <1>1, <1>6, <1>7, <1>8, <1>9
<1> QED BY <1>9, <1>10, <1>11, <1>12 DEF m, k, margin

\* The local bounds are those of the last cloud until a round has cast its rays.
Covered ==
  /\ camera_pos_ \in InMap /\ inflated \subseteq InMap
  /\ \A p \in inflated : \A a \in Axes :
       /\ local_bound_.min[a] \in 0 .. map_voxel_num_[a] - 1
       /\ local_bound_.max[a] \in 0 .. map_voxel_num_[a] - 1
       /\ local_bound_.min[a] <= posToIndex(p)[a]
       /\ Around(inf_step)[a] > 0 /\ posToIndex(p)[a] < map_voxel_num_[a] - 1 =>
            posToIndex(p)[a] < local_bound_.max[a]

LowInv == Covered /\ LowObstaclesBlock

\* A new cloud brings bounds that cover it.
LEMMA CloudCovers ==
  ASSUME LowInv, NEW cloud \in Clouds, cloudCallback(cloud)
  PROVE  LowInv'
<1>1. camera_pos_' = camera_pos_ /\ map_type_' = map_type_ /\ reported' = reported /\ blocked' = blocked
  BY DEF cloudCallback
<1>2. LowObstaclesBlock'
  BY <1>1 DEF LowInv, LowObstaclesBlock
<1>3. CASE has_odom_ /\ cloud # <<>>
  <2>1. inflated' = InRange(cloud) /\ local_bound_' = BoundsOf(InRange(cloud), Around(inf_step))
    BY <1>3 DEF cloudCallback
  <2>2. InRange(cloud) \subseteq InMap /\ IsFiniteSet(InRange(cloud)) /\ camera_pos_ \in InMap /\ inf_step \in Nat
    BY RangeIsFinite, MapAssumption DEF LowInv, Covered
  <2>3. ASSUME NEW p \in InRange(cloud), NEW a \in Axes
        PROVE  /\ local_bound_'.min[a] \in 0 .. map_voxel_num_[a] - 1
               /\ local_bound_'.max[a] \in 0 .. map_voxel_num_[a] - 1
               /\ local_bound_'.min[a] <= posToIndex(p)[a]
               /\ Around(inf_step)[a] > 0 /\ posToIndex(p)[a] < map_voxel_num_[a] - 1 =>
                    posToIndex(p)[a] < local_bound_'.max[a]
    BY <2>1, <2>2, BoundsCover
  <2> QED BY <1>1, <1>2, <2>1, <2>2, <2>3 DEF LowInv, Covered
<1>4. CASE ~(has_odom_ /\ cloud # <<>>)
  <2>1. inflated' = inflated /\ local_bound_' = local_bound_
    BY <1>4 DEF cloudCallback
  <2> QED BY <1>1, <1>2, <2>1 DEF LowInv, Covered
<1> QED BY <1>3, <1>4

\* A low obstacle that both clouds show marks two levels of its column, and the
\* loops over the bounds of the other cloud come by (cloudSegmentationCallback_PLANNING).
LEMMA LowIsMarked ==
  ASSUME inf_step > 0, LowInv, NEW cloud \in Clouds, cloudSegmentationCallback(cloud),
         map_type_ = "PLANNING", {0, 1} \subseteq LocalLevels, NEW p \in InRange(cloud) \cap inflated,
         posToIndex(p)["z"] <= 1,
         \A a \in {"x", "y"} : posToIndex(p)[a] < map_voxel_num_[a] - 1
  PROVE  ColumnOf(posToIndex(p)) \in blocked'
<1> DEFINE v == posToIndex(p)
           c == ColumnOf(v)
           at(z) == VoxelAt(c, z)
           marked == segmentation \cup InflationOf(InRange(cloud), Around(inf_step))
<1>1. /\ inf_step \in Nat /\ HalfVoxel \in Nat /\ \A a \in Axes : map_voxel_num_[a] \in Nat \ {0}
  BY MapAssumption
<1>2. /\ \A a \in Axes : v[a] \in 0 .. map_voxel_num_[a] - 1
      /\ camera_pos_["z"] \in Nat
  <2>1. p \in InMap /\ camera_pos_ \in InMap
    BY DEF LowInv, Covered
  <2>2. \A a \in Axes : p[a] \in 0 .. 2 * map_voxel_num_[a] - 1 /\ v[a] = p[a] \div 2
    BY <2>1 DEF InMap, posToIndex
  <2>3. "z" \in Axes
    BY DEF Axes
  <2> QED BY <1>1, <2>1, <2>2, <2>3 DEF InMap
<1>3. /\ \A a \in Axes : /\ local_bound_.min[a] \in 0 .. map_voxel_num_[a] - 1
                         /\ local_bound_.max[a] \in 0 .. map_voxel_num_[a] - 1
                         /\ local_bound_.min[a] <= v[a]
      /\ \A a \in {"x", "y"} : v[a] < local_bound_.max[a]
  <2>1. \A a \in {"x", "y"} : a \in Axes /\ Around(inf_step)[a] > 0
    BY DEF Axes, Around
  <2> QED BY <2>1 DEF LowInv, Covered
<1> HIDE DEF v
<1>4. 1 <= map_voxel_num_["z"] - 1
  <2>1. 1 < local_bound_.max["z"] /\ "z" \in Axes
    BY <1>3 DEF LocalLevels, Axes
  <2> QED BY <1>1, <1>3, <2>1
<1>5. c = <<v["x"], v["y"]>> /\ c[1] = v["x"] /\ c[2] = v["y"]
  BY DEF ColumnOf
<1>6. ASSUME NEW z \in {0, 1} PROVE at(z) \in Inflation(p, Around(inf_step))
  <2>1. at(z) = [x |-> v["x"], y |-> v["y"], z |-> z]
    BY <1>5 DEF VoxelAt
  <2>2. at(z) \in Voxels
    <3>1. z \in 0 .. map_voxel_num_["z"] - 1
      BY <1>1, <1>4 DEF Axes
    <3> QED BY <1>2, <2>1, <3>1 DEF Voxels, Axes
  <2>3. at(z)["x"] = v["x"] /\ at(z)["y"] = v["y"] /\ at(z)["z"] = z
    BY <2>1
  <2>4. Abs(at(z)["x"] - v["x"]) <= inf_step /\ Abs(at(z)["y"] - v["y"]) <= inf_step
    BY <1>1, <1>2, <2>3 DEF Abs, Axes
  <2>5. Abs(at(z)["z"] - v["z"]) <= 1
    BY <1>2, <2>3 DEF Abs, Axes, v
  <2>6. \A a \in Axes : Abs(at(z)[a] - v[a]) <= Around(inf_step)[a]
    <3> HIDE DEF at
    <3> QED BY <2>4, <2>5 DEF Axes, Around
  <2> HIDE DEF at
  <2> QED BY <2>2, <2>6 DEF Inflation, v
<1>7. c \in LocalColumns
  <2>1. c \in Columns
    <3>1. at(0) \in Voxels /\ <<at(0).x, at(0).y>> = c
      BY <1>5, <1>6 DEF Inflation, VoxelAt
    <3> QED BY <3>1 DEF Columns
  <2> HIDE DEF c
  <2> QED BY <1>3, <1>5, <2>1 DEF LocalColumns, Axes
<1>8. ASSUME NEW z \in {0, 1} PROVE z \in MarkedLevels(marked, c, 1300)
  <2>1. at(z) \in marked
    <3> HIDE DEF at
    <3> QED BY <1>6 DEF InflationOf
  <2>2. BelowHeight(z, 1300)
    <3>1. camera_pos_["z"] * HalfVoxel \in Nat
      BY <1>1, <1>2
    <3> QED BY <3>1 DEF BelowHeight
  <2> HIDE DEF c, marked
  <2> QED BY <2>1, <2>2 DEF MarkedLevels
<1>9. Cardinality(MarkedLevels(marked, c, 1300)) >= 2
  <2> HIDE DEF marked, c
  <2>1. IsFiniteSet(LocalLevels)
    <3>1. local_bound_.min["z"] \in Int /\ local_bound_.max["z"] - 1 \in Int
      BY <1>1, <1>3 DEF Axes
    <3> QED BY <3>1, FS_Interval DEF LocalLevels
  <2>2. IsFiniteSet(MarkedLevels(marked, c, 1300))
    <3>1. MarkedLevels(marked, c, 1300) \in SUBSET LocalLevels
      BY DEF MarkedLevels
    <3> HIDE DEF MarkedLevels
    <3> QED BY <2>1, <3>1, FS_Subset
  <2>3. 0 .. 1 \in SUBSET MarkedLevels(marked, c, 1300) /\ Cardinality(0 .. 1) = 2
    <3>1. Cardinality(0 .. 1) = 2
      <4>1. 0 \in Int /\ 1 \in Int
        OBVIOUS
      <4>2. Cardinality(0 .. 1) = IF 0 > 1 THEN 0 ELSE 1 - 0 + 1
        BY <4>1, FS_Interval, Zenon
      <4> QED BY <4>2
    <3>2. \A z \in 0 .. 1 : z \in {0, 1}
      OBVIOUS
    <3> QED BY <1>8, <3>1, <3>2
  <2>4. Cardinality(0 .. 1) <= Cardinality(MarkedLevels(marked, c, 1300))
    BY <2>2, <2>3, FS_Subset
  <2>5. Cardinality(MarkedLevels(marked, c, 1300)) \in Nat
    BY <2>2, FS_CardinalityType
  <2> QED BY <2>3, <2>4, <2>5
<1>10. ProjectPlanning(marked)
  BY DEF cloudSegmentationCallback
<1> HIDE DEF c, marked
<1>11. c \in blocked'
  BY <1>7, <1>9, <1>10 DEF ProjectPlanning
<1> QED BY <1>11 DEF c, v

\* Every low obstacle both clouds have shown blocks its column, whatever the
\* size of the map, the clouds and the camera, as long as obstacles are
\* inflated at all (grid_map/obstacles_inflation): without it the far end of
\* the loops over the bounds leaves out the outermost obstacle.
THEOREM LowObstaclesAreBlocked == ASSUME inf_step > 0 PROVE Spec => []LowObstaclesBlock
<1>1. Init => LowInv
  <2> SUFFICES ASSUME Init PROVE LowInv
    OBVIOUS
  <2>1. camera_pos_ = Nowhere /\ inflated = {} /\ reported = {}
    BY DEF Init
  <2>2. Nowhere \in InMap
    <3>1. \A a \in Axes : map_voxel_num_[a] \in Nat \ {0}
      BY MapAssumption
    <3> QED BY <3>1 DEF Nowhere, InMap, Positions
  <2> QED BY <2>1, <2>2 DEF LowInv, Covered, LowObstaclesBlock
<1>2. LowInv /\ [Next]_vars => LowInv'
  <2> SUFFICES ASSUME LowInv, [Next]_vars PROVE LowInv'
    OBVIOUS
  <2>1. ASSUME UNCHANGED <<map_type_, blocked, reported>> PROVE LowObstaclesBlock'
    BY <2>1 DEF LowInv, LowObstaclesBlock
  <2>2. ASSUME UNCHANGED <<camera_pos_, local_bound_, inflated>> PROVE Covered'
    BY <2>2 DEF LowInv, Covered
  <2>3. ASSUME NEW c \in Cameras, odomCallback(c) PROVE LowInv'
    <3>1. camera_pos_' \in InMap /\ inflated' = inflated /\ local_bound_' = local_bound_
      BY <2>3, MapAssumption DEF odomCallback, histVars
    <3>2. Covered'
      BY <3>1 DEF LowInv, Covered
    <3> QED BY <2>1, <2>3, <3>2 DEF odomCallback, bufferVars, histVars, LowInv
  <2>4. ASSUME NEW cloud \in Clouds, cloudCallback(cloud) PROVE LowInv'
    BY <2>4, CloudCovers
  <2>5. ASSUME NEW cloud \in Clouds, cloudSegmentationCallback(cloud) PROVE LowInv'
    <3>1. Covered' /\ map_type_' = map_type_
      BY <2>2, <2>5 DEF cloudSegmentationCallback
    <3>2. LowObstaclesBlock'
      <4> SUFFICES ASSUME map_type_ = "PLANNING", NEW p \in reported', posToIndex(p)["z"] <= 1,
                          \A a \in {"x", "y"} : posToIndex(p)[a] < map_voxel_num_[a] - 1
                   PROVE  ColumnOf(posToIndex(p)) \in blocked'
        BY <3>1 DEF LowObstaclesBlock
      <4>1. blocked \subseteq blocked'
        BY <2>5 DEF cloudSegmentationCallback, ProjectPlanning
      <4>2. CASE p \in reported
        BY <4>1, <4>2 DEF LowInv, LowObstaclesBlock
      <4>3. CASE p \notin reported
        <5>1. {0, 1} \subseteq LocalLevels /\ p \in InRange(cloud) \cap inflated
          BY <2>5, <4>3 DEF cloudSegmentationCallback
        <5> QED BY <2>5, <5>1, LowIsMarked
      <4> QED BY <4>2, <4>3
    <3> QED BY <3>1, <3>2 DEF LowInv
  <2>6. CASE BeginRound
    BY <2>1, <2>2, <2>6 DEF BeginRound, sensorVars, bufferVars, histVars, LowInv
  <2>7. CASE CastPoint
    BY <2>1, <2>2, <2>7 DEF CastPoint, sensorVars, bufferVars, histVars, LowInv
  <2>8. CASE WalkRay
    BY <2>1, <2>2, <2>8 DEF WalkRay, sensorVars, bufferVars, histVars, LowInv
  <2>9. CASE UpdateCached
    <3>1. inflated' = {} /\ camera_pos_' = camera_pos_
      BY <2>9 DEF UpdateCached, sensorVars
    <3>2. Covered'
      BY <3>1 DEF LowInv, Covered
    <3> QED BY <2>1, <2>9, <3>2 DEF UpdateCached, sensorVars, LowInv
  <2>10. CASE fliterLocalMap
    BY <2>1, <2>2, <2>10 DEF fliterLocalMap, histVars, LowInv
  <2>11. CASE UNCHANGED vars
    BY <2>1, <2>2, <2>11 DEF vars, sensorVars, bufferVars, histVars, LowInv
  <2> QED BY <2>3, <2>4, <2>5, <2>6, <2>7, <2>8, <2>9, <2>10, <2>11
             DEF Next, updateOccupancyCallback
<1>3. LowInv => LowObstaclesBlock
  BY DEF LowInv
<1> QED BY <1>1, <1>2, <1>3, PTL DEF Spec

-----------------------------------------------------------------------------
\* A set that no step between neighbours leaves for W.
Spread(S, W) == \A u \in S : \A w \in W : Neighbours(u, w) => w \in S

\* What is linked to A through W lies in every such set around A.
LinkedFrom(A, v, W) == \A S : A \subseteq S /\ Spread(S, W) => v \in S

\* The first n iterates of f, a function of states, from x.
IsTurn(f, S) == f \in [S -> S]
Iterated(g, n, S, x, f) ==
  g \in [0 .. n -> S] /\ g[0] = x /\ \A k \in 1 .. n : g[k] = f[g[k - 1]]

\* They exist.
LEMMA Iterates ==
  ASSUME NEW n \in Nat, NEW S, NEW x \in S, NEW f, IsTurn(f, S)
  PROVE  \E g : Iterated(g, n, S, x, f)
<1> USE DEF IsTurn
<1> DEFINE H(g, m) == g \in [0 .. m -> S] /\ g[0] = x /\ \A k \in 1 .. m : g[k] = f[g[k - 1]]
           T == {m \in Nat : \E g : H(g, m)}
<1>1. 0 \in T
  <2>1. H([k \in 0 .. 0 |-> x], 0)
    OBVIOUS
  <2> QED BY <2>1
<1>2. ASSUME NEW m \in Nat, m \in T PROVE m + 1 \in T
  <2>1. PICK g : H(g, m)
    BY <1>2
  <2> DEFINE h == [k \in 0 .. m + 1 |-> IF k = m + 1 THEN f[g[m]] ELSE g[k]]
  <2>2. m \in 0 .. m /\ g[m] \in S
    BY <2>1
  <2>3. \A k \in 0 .. m + 1 : k = m + 1 \/ k \in 0 .. m
    OBVIOUS
  <2>4. h \in [0 .. m + 1 -> S]
    BY <2>1, <2>2, <2>3
  <2>5. h[0] = x
    BY <2>1
  <2>6. ASSUME NEW k \in 1 .. m + 1 PROVE h[k] = f[h[k - 1]]
    <3>1. CASE k = m + 1
      BY <2>1, <2>2, <3>1
    <3>2. CASE k # m + 1
      <4>1. k \in 1 .. m /\ k - 1 \in 0 .. m
        BY <3>2
      <4> QED BY <2>1, <4>1
    <3> QED BY <3>1, <3>2
  <2>7. H(h, m + 1)
    BY <2>4, <2>5, <2>6
  <2> HIDE DEF H, h
  <2> QED BY <2>7
<1>3. n \in T
  <2> HIDE DEF T
  <2> QED BY <1>1, <1>2, Induction
<1> QED BY <1>3 DEF Iterated

\* LinkedTo, grown one step at a time, ends as a set no step leaves: each time
\* it grows by a voxel at least, or not at all from then on.
LEMMA LinkedIsSpread ==
  ASSUME IsFiniteSet(swept), NEW v
  PROVE  v \in LinkedTo(v) /\ Spread(LinkedTo(v), swept)
<1> DEFINE n == Cardinality(swept)
           U == {v} \cup swept
           More(A) == A \cup {w \in swept : \E u \in A : Neighbours(u, w)}
           f == [A \in SUBSET U |-> More(A)]
           IsGrow(g) == g = [k \in 0 .. n |-> IF k = 0 THEN {v}
                               ELSE LET near == g[k - 1]
                                    IN  near \cup {w \in swept : \E u \in near : Neighbours(u, w)}]
           grow == CHOOSE g : IsGrow(g)
<1>1. n \in Nat /\ IsFiniteSet(U) /\ Cardinality(U) \in Nat /\ Cardinality(U) <= n + 1
  <2>1. n \in Nat
    BY FS_CardinalityType
  <2>2. U = swept \cup {v}
    OBVIOUS
  <2>3. IsFiniteSet(swept \cup {v}) /\ Cardinality(swept \cup {v}) = IF v \in swept THEN n ELSE n + 1
    BY FS_AddElement
  <2> HIDE DEF U, n
  <2> QED BY <2>1, <2>2, <2>3
<1>2. LinkedTo(v) = grow[n]
  BY DEF LinkedTo
<1>3. f \in [SUBSET U -> SUBSET U] /\ {v} \in SUBSET U
  OBVIOUS
<1>4. \E g : IsGrow(g)
  <2>1. PICK g \in [0 .. n -> SUBSET U] : g[0] = {v} /\ \A k \in 1 .. n : g[k] = f[g[k - 1]]
    <3> DEFINE P == SUBSET U
               x == {v}
    <3>1. n \in Nat /\ x \in P /\ IsTurn(f, P)
      BY <1>1, <1>3 DEF IsTurn
    <3> HIDE DEF f, P, x, n
    <3>2. \E g : Iterated(g, n, P, x, f)
      BY <3>1, Iterates
    <3> QED BY <3>2 DEF Iterated, P, x
  <2>2. ASSUME NEW k \in 0 .. n, k # 0 PROVE g[k] = More(g[k - 1])
    <3>1. k \in 1 .. n /\ g[k - 1] \in SUBSET U
      <4> HIDE DEF U, n
      <4> QED BY <1>1, <2>1, <2>2
    <3> HIDE DEF More, U, n
    <3> QED BY <2>1, <3>1
  <2>3. g = [k \in 0 .. n |-> IF k = 0 THEN {v} ELSE More(g[k - 1])]
    <3> HIDE DEF More, U, n, f
    <3> QED BY <2>1, <2>2
  <2> QED BY <2>3
<1>5. IsGrow(grow)
  <2> HIDE DEF IsGrow
  <2> QED BY <1>4
<1> HIDE DEF grow
<1>6. grow[0] = {v} /\ \A k \in 1 .. n : grow[k] = More(grow[k - 1])
  <2>1. 0 \in 0 .. n /\ \A k \in 1 .. n : k \in 0 .. n /\ k # 0
    BY <1>1
  <2> HIDE DEF n
  <2> QED BY <1>5, <2>1
<1> DEFINE Good(k) == /\ grow[k] \subseteq U /\ v \in grow[k]
                      /\ Spread(grow[k], swept) \/ Cardinality(grow[k]) >= k + 1
           T == {k \in Nat : k <= n => Good(k)}
<1>7. 0 \in T
  <2>1. Cardinality({v}) = 1
    BY FS_Singleton
  <2> HIDE DEF n
  <2> QED BY <1>6, <2>1
<1>8. ASSUME NEW k \in Nat, k \in T PROVE k + 1 \in T
  <2>1. SUFFICES ASSUME k + 1 <= n PROVE Good(k + 1)
    OBVIOUS
  <2>2. Good(k)
    BY <1>1, <1>8, <2>1
  <2>3. grow[k + 1] = More(grow[k])
    <3>1. k + 1 \in 1 .. n /\ (k + 1) - 1 = k
      BY <1>1, <2>1
    <3> HIDE DEF n, More
    <3> QED BY <1>6, <3>1
  <2>4. grow[k + 1] \subseteq U /\ v \in grow[k + 1] /\ grow[k] \subseteq grow[k + 1]
    BY <2>2, <2>3
  <2>5. CASE Spread(grow[k], swept)
    <3>1. grow[k + 1] = grow[k]
      BY <2>3, <2>5 DEF Spread
    <3> QED BY <2>4, <2>5, <3>1
  <2>6. CASE ~Spread(grow[k], swept)
    <3>1. PICK w \in grow[k + 1] : w \notin grow[k]
      BY <2>3, <2>6 DEF Spread
    <3>2. Cardinality(grow[k]) >= k + 1 /\ IsFiniteSet(grow[k]) /\ IsFiniteSet(grow[k + 1])
          /\ Cardinality(grow[k]) \in Nat /\ Cardinality(grow[k + 1]) \in Nat
      <4>1. grow[k] \in SUBSET U /\ grow[k + 1] \in SUBSET U
        BY <2>2, <2>4
      <4> HIDE DEF U
      <4>2. IsFiniteSet(grow[k]) /\ IsFiniteSet(grow[k + 1])
        BY <1>1, <4>1, FS_Subset
      <4> QED BY <2>2, <2>6, <4>2, FS_CardinalityType
    <3>3. grow[k] \cup {w} \in SUBSET grow[k + 1]
      BY <2>4, <3>1
    <3>4. Cardinality(grow[k] \cup {w}) = Cardinality(grow[k]) + 1
      BY <3>1, <3>2, FS_AddElement
    <3>5. Cardinality(grow[k] \cup {w}) <= Cardinality(grow[k + 1])
      BY <3>2, <3>3, FS_Subset
    <3>6. Cardinality(grow[k + 1]) >= (k + 1) + 1
      BY <3>2, <3>4, <3>5
    <3> QED BY <2>4, <3>6
  <2> QED BY <2>5, <2>6
<1>9. Good(n)
  <2>1. n \in T
    <3> HIDE DEF T, n
    <3> QED BY <1>1, <1>7, <1>8, Induction
  <2> HIDE DEF Good, n
  <2> QED BY <1>1, <2>1
<1>10. Spread(grow[n], swept)
  <2>1. CASE Cardinality(grow[n]) >= n + 1
    <3>1. grow[n] \in SUBSET U /\ Cardinality(grow[n]) <= Cardinality(U)
      <4>1. grow[n] \in SUBSET U
        BY <1>9
      <4> HIDE DEF U, n
      <4> QED BY <1>1, <4>1, FS_Subset
    <3>2. Cardinality(U) = Cardinality(grow[n])
      <4>1. Cardinality(grow[n]) \in Nat
        <5> HIDE DEF U, n
        <5>1. IsFiniteSet(grow[n])
          BY <1>1, <3>1, FS_Subset
        <5> QED BY <5>1, FS_CardinalityType
      <4> HIDE DEF U, n
      <4> QED BY <1>1, <2>1, <3>1, <4>1
    <3>3. U = grow[n]
      <4> HIDE DEF U, n
      <4> QED BY <1>1, <3>1, <3>2, FS_Subset
    <3> QED BY <3>3 DEF Spread
  <2> QED BY <1>9, <2>1
<1> QED BY <1>2, <1>9, <1>10
-----------------------------------------------------------------------------
\* A ray stays between its ends, which lie in the map.
RayInMap ==
  \A a \in Axes : /\ ray.end[a] \in 0 .. map_voxel_num_[a] - 1
                  /\ ray.end[a] - ray.span[a] * ray.dir[a] \in 0 .. map_voxel_num_[a] - 1

\* The voxel has been left behind by the ray on some axis.
Behind(v) == \E a \in Axes : (ray.end[a] - v[a]) * ray.dir[a] > Left(a)

LEMMA AtIsVoxel ==
  ASSUME RayInv, RayInMap
  PROVE  ray.at \in Voxels /\ ~Behind(ray.at)
<1>1. \A a \in Axes : /\ ray.at[a] \in Int /\ ray.end[a] \in Int /\ ray.span[a] \in Nat
                      /\ ray.dir[a] \in {-1, 0, 1} /\ map_voxel_num_[a] \in Nat \ {0}
  BY MapAssumption DEF RayInv, Ray, Positions
<1>2. ASSUME NEW a \in Axes PROVE ray.at[a] \in 0 .. map_voxel_num_[a] - 1
  <2>1. /\ 0 <= Left(a) /\ Left(a) <= ray.span[a]
        /\ ray.dir[a] = 0 => ray.at[a] = ray.end[a]
        /\ ray.end[a] \in 0 .. map_voxel_num_[a] - 1
        /\ ray.end[a] - ray.span[a] * ray.dir[a] \in 0 .. map_voxel_num_[a] - 1
    BY <1>1 DEF RayInv, AxisOK, RayInMap
  <2>2. CASE ray.dir[a] = 0
    BY <2>1, <2>2
  <2>3. CASE ray.dir[a] = 1
    <3>1. Left(a) = ray.end[a] - ray.at[a] /\ ray.span[a] * ray.dir[a] = ray.span[a]
      BY <1>1, <2>3 DEF Left
    <3> HIDE DEF Left
    <3> QED BY <1>1, <2>1, <3>1
  <2>4. CASE ray.dir[a] = -1
    <3>1. Left(a) = ray.at[a] - ray.end[a] /\ ray.span[a] * ray.dir[a] = -ray.span[a]
      BY <1>1, <2>4 DEF Left
    <3> HIDE DEF Left
    <3> QED BY <1>1, <2>1, <3>1
  <2> QED BY <1>1, <2>2, <2>3, <2>4
<1>3. ray.at \in Voxels
  <2>1. ray.at \in Positions
    BY DEF RayInv, Ray
  <2> QED BY <1>2, <2>1, VoxelIsCell
<1>4. ~Behind(ray.at)
  <2> SUFFICES ASSUME NEW a \in Axes PROVE ~((ray.end[a] - ray.at[a]) * ray.dir[a] > Left(a))
    BY DEF Behind
  <2> QED BY <1>1 DEF Left
<1> QED BY <1>3, <1>4

\* A step goes to a neighbour and leaves its voxel, and all those left before, behind.
LEMMA StepMoves ==
  ASSUME RayInv, RayInMap, step
  PROVE  /\ RayInv' /\ RayInMap' /\ ray'.end = ray.end
         /\ Neighbours(ray'.at, ray.at)
         /\ \A v \in Voxels : v = ray.at \/ Behind(v) => Behind(v)'
<1>1. PICK c \in Axes : c = NextAxis /\ 0 < Left(c)
  BY RightAxis DEF step
<1>2. ray' = [ray EXCEPT !.at[c] = @ + ray.dir[c], !.tMax[c] = @ + 2]
  BY <1>1 DEF step
<1>3. ray \in Ray /\ RayInv'
  BY StepKeeps DEF RayInv
<1>4. /\ ray'.end = ray.end /\ ray'.span = ray.span /\ ray'.dir = ray.dir
      /\ ray'.at = [ray.at EXCEPT ![c] = @ + ray.dir[c]]
  BY <1>2, <1>3 DEF Ray
<1>5. \A a \in Axes : /\ ray.at[a] \in Int /\ ray.end[a] \in Int /\ ray.dir[a] \in {-1, 0, 1}
  BY <1>3 DEF Ray, Positions
<1>6. /\ ray'.at[c] = ray.at[c] + ray.dir[c]
      /\ \A a \in Axes : a # c => ray'.at[a] = ray.at[a]
  BY <1>1, <1>3, <1>4 DEF Ray, Positions
<1>7. ray.dir[c] \in {-1, 1}
  BY <1>1, <1>5 DEF Left
<1>8. \A a \in Axes : Left(a)' = (IF a = c THEN Left(a) - 1 ELSE Left(a)) /\ Left(a) \in Int
  BY <1>1, <1>4, <1>5, <1>6, <1>7 DEF Left
<1>9. Neighbours(ray'.at, ray.at)
  <2>1. Abs(ray'.at[c] - ray.at[c]) = 1
    BY <1>1, <1>5, <1>6, <1>7 DEF Abs
  <2> QED BY <1>1, <1>6, <2>1 DEF Neighbours
<1>10. ASSUME NEW v \in Voxels, Behind(v) PROVE Behind(v)'
  <2>1. PICK a \in Axes : (ray.end[a] - v[a]) * ray.dir[a] > Left(a)
    BY <1>10 DEF Behind
  <2>2. v[a] \in Int
    BY VoxelIsCell DEF Positions
  <2>3. (ray.end[a] - v[a]) * ray.dir[a] \in Int
    BY <1>5, <2>2
  <2>4. (ray.end[a] - v[a]) * ray.dir[a] > Left(a)'
    <3> HIDE DEF Left
    <3> QED BY <1>8, <2>1, <2>3
  <2> QED BY <1>4, <2>4 DEF Behind
<1>11. ASSUME NEW v \in Voxels, v = ray.at PROVE Behind(v)'
  <2>1. (ray.end[c] - v[c]) * ray.dir[c] = Left(c)
    BY <1>11 DEF Left
  <2>2. (ray'.end[c] - v[c]) * ray'.dir[c] > Left(c)'
    BY <1>1, <1>4, <1>8, <2>1
  <2> QED BY <1>1, <2>2 DEF Behind
<1>12. RayInMap'
  BY <1>4 DEF RayInMap
<1> QED BY <1>3, <1>4, <1>9, <1>10, <1>11, <1>12

\* A place in the map lies in a voxel of it.
LEMMA PlaceInMap ==
  ASSUME NEW s \in InMap
  PROVE  /\ posToIndex(s) \in Voxels
         /\ \A a \in Axes : posToIndex(s)[a] \in 0 .. map_voxel_num_[a] - 1
<1>1. ASSUME NEW a \in Axes
      PROVE  posToIndex(s)[a] \in 0 .. map_voxel_num_[a] - 1 /\ posToIndex(s)[a] \in Int
  <2>1. map_voxel_num_[a] \in Nat \ {0}
    BY MapAssumption
  <2>2. s[a] \in 0 .. 2 * map_voxel_num_[a] - 1
    BY DEF InMap
  <2>3. posToIndex(s)[a] = s[a] \div 2
    BY DEF posToIndex
  <2> QED BY <2>1, <2>2, <2>3
<1>2. posToIndex(s) \in Positions
  <2>1. posToIndex(s) = [a \in Axes |-> posToIndex(s)[a]]
    BY DEF posToIndex
  <2> QED BY <1>1, <2>1 DEF Positions
<1> QED BY <1>1, <1>2, VoxelIsCell

\* A ray set up between two places of the map (RayCaster::setInput).
LEMMA CastFresh ==
  ASSUME NEW s \in InMap, NEW e \in InMap, ray' = RayFrom(s, e)
  PROVE  /\ RayInv' /\ RayInMap' /\ ray'.at = posToIndex(s) /\ ray'.end = posToIndex(e)
<1>1. s \in Positions /\ e \in Positions
  BY DEF InMap
<1>2. RayInv'
  <2>1. (ray = RayFrom(s, e))'
    BY DEF RayFrom, posToIndex, signum, intbound
  <2> QED BY <1>1, <2>1, SetUpAgain
<1>3. \A a \in Axes : /\ posToIndex(s)[a] \in 0 .. map_voxel_num_[a] - 1
                      /\ posToIndex(e)[a] \in 0 .. map_voxel_num_[a] - 1
                      /\ map_voxel_num_[a] \in Nat
  BY PlaceInMap, MapAssumption
<1>4. ray'.at = posToIndex(s) /\ ray'.end = posToIndex(e)
  BY DEF RayFrom
<1>5. RayInMap'
  <2> SUFFICES ASSUME NEW a \in Axes
               PROVE  /\ ray'.end[a] \in 0 .. map_voxel_num_[a] - 1
                      /\ ray'.end[a] - ray'.span[a] * ray'.dir[a] \in 0 .. map_voxel_num_[a] - 1
    BY DEF RayInMap
  <2> DEFINE d == posToIndex(e)[a] - posToIndex(s)[a]
  <2>1. ray'.span[a] = (IF d < 0 THEN -d ELSE d) /\ ray'.dir[a] = signum(d)
    BY DEF RayFrom
  <2>2. d \in Int
    BY <1>3
  <2> HIDE DEF d
  <2>3. ray'.span[a] * ray'.dir[a] = d
    BY <2>1, <2>2 DEF signum
  <2>4. posToIndex(e)[a] - d = posToIndex(s)[a]
    BY <1>3 DEF d
  <2> QED BY <1>3, <1>4, <2>3, <2>4
<1> QED BY <1>2, <1>4, <1>5

Cam == posToIndex(camera_pos_)

\* The numbers a char takes.
Chars == 0 .. CharSpan - 1

Kinds ==
  /\ camera_pos_ \in InMap /\ lidar_proj_points_ \in Seq(InMap)
  /\ pc \in {"idle", "points", "ray", "filter"}
  /\ point \in Nat \ {0} /\ raycast_num_ \in Chars /\ rounds \in Nat
  /\ flag_rayend_ \in [Voxels -> Chars] /\ flag_traverse_ \in [Voxels -> Chars]
  /\ cache \subseteq Voxels /\ IsFiniteSet(cache) /\ IsFiniteSet(swept)
  /\ RayInv /\ RayInMap

\* Rays are cast in EXPLORATION, for a cloud that came with odometry.
Phases ==
  /\ map_type_ = "PLANNING" => pc = "idle" /\ swept = {}
  /\ is_pcl_update \/ swept # {} => has_odom_
  /\ pc # "idle" => is_pcl_update

\* Before the wrap the number counts the rounds, no stamp but that of untouched
\* voxels is of a later one, and what bears this round's stamp is cached.
Stamps ==
  /\ raycast_num_ = rounds
  /\ \A v \in Voxels : /\ flag_rayend_[v] <= raycast_num_ \/ flag_rayend_[v] = Untouched
                       /\ flag_traverse_[v] <= raycast_num_ \/ flag_traverse_[v] = Untouched
  /\ pc \in {"points", "ray"} =>
       \A v \in Voxels : flag_rayend_[v] = raycast_num_ \/ flag_traverse_[v] = raycast_num_
                         => v \in cache

\* Between two rays everything cached is linked to the camera.
BetweenRays ==
  pc = "points" =>
    /\ point <= Len(lidar_proj_points_) + 1
    /\ \A i \in 1 .. point - 1 : posToIndex(lidar_proj_points_[i]) \in cache
    /\ \A v \in cache : LinkedFrom({Cam}, v, cache)

\* On the way of a ray everything cached is linked to the camera or the ray,
\* and what was traversed is linked to the camera or lies behind.
OnRay ==
  pc = "ray" =>
    /\ point <= Len(lidar_proj_points_) /\ ray.end = Cam
    /\ \A i \in 1 .. point : posToIndex(lidar_proj_points_[i]) \in cache
    /\ \A v \in cache : LinkedFrom({Cam, ray.at}, v, cache)
    /\ \A v \in Voxels : flag_traverse_[v] = raycast_num_ =>
         LinkedFrom({Cam}, v, cache) \/ Behind(v)

\* What the last round has swept, until there is something new to cast.
SweepLinked ==
  pc = "filter" \/ (pc = "idle" /\ ~is_pcl_update /\ swept # {}) =>
    /\ \A i \in 1 .. Len(lidar_proj_points_) : posToIndex(lidar_proj_points_[i]) \in swept
    /\ \A v \in swept : LinkedFrom({posToIndex(castFrom)}, v, swept)

\* Kinds and Phases hold of every round, the rest of those before the wrap.
RoundInv == Kinds /\ Phases /\ Stamps /\ BetweenRays /\ OnRay /\ SweepLinked

BeforeWrap == rounds < CharSpan - 1

-----------------------------------------------------------------------------
(* What holds of every round, also when its number has wrapped.            *)

\* The next number is one that a char takes.
LEMMA NumberIsChar ==
  ASSUME NEW n \in Chars
  PROVE  (n + 1) % CharSpan \in Chars
BY MapAssumption DEF Chars

\* A ray that is not touched stays as it was.
LEMMA SameRay ==
  ASSUME RayInv, RayInMap, ray' = ray
  PROVE  RayInv' /\ RayInMap'
BY DEF RayInv, AxisOK, Left, RayInMap

\* The next point is cached, and the ray begins and ends in the map.
LEMMA CastKinds ==
  ASSUME Kinds, CastPoint
  PROVE  Kinds'
<1> DEFINE p == lidar_proj_points_[point]
<1>1. /\ pc = "points" /\ point <= Len(lidar_proj_points_)
      /\ camera_pos_' = camera_pos_ /\ lidar_proj_points_' = lidar_proj_points_
      /\ raycast_num_' = raycast_num_ /\ flag_traverse_' = flag_traverse_
      /\ swept' = swept /\ rounds' = rounds
  BY DEF CastPoint, sensorVars, histVars, countVars
<1>2. point \in 1 .. Len(lidar_proj_points_)
  BY <1>1 DEF Kinds
<1>3. PICK s \in InMap : s = p
  BY <1>2, ElementOfSeq DEF Kinds
<1>4. PICK v : v = posToIndex(s)
  OBVIOUS
<1>5. v \in Voxels
  BY <1>4, PlaceInMap
<1>6. cache' \subseteq Voxels /\ IsFiniteSet(cache')
  <2>1. cache' = cache \cup {v}
    BY <1>3, <1>4 DEF CastPoint
  <2> QED BY <1>5, <2>1, FS_AddElement DEF Kinds
<1>7. CASE flag_rayend_[v] = raycast_num_
  <2>1. point' = point + 1 /\ pc' = "points" /\ flag_rayend_' = flag_rayend_ /\ ray' = ray
    BY <1>1, <1>3, <1>4, <1>7 DEF CastPoint
  <2>2. RayInv' /\ RayInMap'
    BY <2>1, SameRay DEF Kinds
  <2> QED BY <1>1, <1>6, <2>1, <2>2 DEF Kinds
<1>8. CASE flag_rayend_[v] # raycast_num_
  <2>1. /\ flag_rayend_' = [flag_rayend_ EXCEPT ![v] = raycast_num_]
        /\ ray' = RayFrom(s, camera_pos_) /\ pc' = "ray" /\ point' = point
    BY <1>3, <1>4, <1>8 DEF CastPoint, setInput
  <2>2. RayInv' /\ RayInMap'
    <3>1. PICK e \in InMap : e = camera_pos_
      BY DEF Kinds
    <3> QED BY <2>1, <3>1, CastFresh
  <2> QED BY <1>1, <1>5, <1>6, <2>1, <2>2 DEF Kinds
<1> QED BY <1>7, <1>8

\* A ray goes on within the map.
LEMMA WalkKinds ==
  ASSUME Kinds, WalkRay
  PROVE  Kinds'
<1>1. /\ pc' \in {"points", "ray"} /\ camera_pos_' = camera_pos_
      /\ lidar_proj_points_' = lidar_proj_points_ /\ raycast_num_' = raycast_num_
      /\ flag_rayend_' = flag_rayend_ /\ swept' = swept /\ rounds' = rounds
      /\ point' = IF pc' = "points" THEN point + 1 ELSE point
  <2>1. pc' \in {"points", "ray"}
    BY DEF WalkRay
  <2> QED BY <2>1 DEF WalkRay, sensorVars, histVars, countVars
<1>2. PICK v \in Voxels : v = ray.at
  BY AtIsVoxel DEF Kinds
<1>3. point' \in Nat \ {0}
  BY <1>1 DEF Kinds
<1>4. CASE Arrived
  <2>1. cache' = cache /\ ray' = ray /\ flag_traverse_' = flag_traverse_
    BY <1>4 DEF WalkRay
  <2>2. RayInv' /\ RayInMap'
    BY <2>1, SameRay DEF Kinds
  <2> QED BY <1>1, <1>3, <2>1, <2>2 DEF Kinds
<1>5. CASE ~Arrived
  <2>1. /\ step /\ cache' = cache \cup {v}
        /\ flag_traverse_' = [flag_traverse_ EXCEPT ![v] = raycast_num_]
    BY <1>2, <1>5 DEF WalkRay
  <2>2. RayInv' /\ RayInMap'
    BY <2>1, StepMoves DEF Kinds
  <2>3. cache' \subseteq Voxels /\ IsFiniteSet(cache')
    BY <2>1, FS_AddElement DEF Kinds
  <2> QED BY <1>1, <1>3, <2>1, <2>2, <2>3 DEF Kinds
<1> QED BY <1>4, <1>5

\* A round begins with the next number.
LEMMA BeginKinds ==
  ASSUME Kinds, BeginRound
  PROVE  Kinds'
<1>1. /\ pc' = "points" /\ point' = 1 /\ cache' = {} /\ rounds' = rounds + 1
      /\ raycast_num_' = (raycast_num_ + 1) % CharSpan
      /\ camera_pos_' = camera_pos_ /\ lidar_proj_points_' = lidar_proj_points_
      /\ flag_rayend_' = flag_rayend_ /\ flag_traverse_' = flag_traverse_
      /\ swept' = swept /\ ray' = ray
  BY DEF BeginRound, NextRound, sensorVars, histVars
<1>2. RayInv' /\ RayInMap' /\ raycast_num_' \in Chars
  BY <1>1, SameRay, NumberIsChar DEF Kinds
<1> QED BY <1>1, <1>2, FS_EmptySet DEF Kinds

\* After the last point the ray is that of a new caster.
LEMMA SweepKinds ==
  ASSUME Kinds, UpdateCached
  PROVE  Kinds'
<1>1. /\ pc' = "filter" /\ point' = 1 /\ cache' = {} /\ swept' = cache
      /\ camera_pos_' = camera_pos_ /\ lidar_proj_points_' = lidar_proj_points_
      /\ raycast_num_' = raycast_num_ /\ rounds' = rounds
      /\ flag_rayend_' = flag_rayend_ /\ flag_traverse_' = flag_traverse_
      /\ ray' = RayFrom(Nowhere, Nowhere)
  BY DEF UpdateCached, sensorVars, stampVars, countVars
<1>2. Nowhere \in InMap
  <2>1. \A a \in Axes : map_voxel_num_[a] \in Nat \ {0}
    BY MapAssumption
  <2> QED BY <2>1 DEF Nowhere, InMap, Positions
<1>3. RayInv' /\ RayInMap'
  BY <1>1, <1>2, CastFresh
<1> QED BY <1>1, <1>3, FS_EmptySet DEF Kinds

\* What happens between two rounds touches neither.
LEMMA QuietKinds ==
  ASSUME Kinds, camera_pos_' \in InMap, lidar_proj_points_' \in Seq(InMap), pc' \in {pc, "idle"},
         UNCHANGED <<raycast_num_, flag_rayend_, flag_traverse_, rounds, swept, point, cache, ray>>
  PROVE  Kinds'
<1>1. RayInv' /\ RayInMap'
  BY SameRay DEF Kinds
<1> QED BY <1>1 DEF Kinds

\* The numbers, the ray and the points of every round are what they should be.
LEMMA KindsInductive == Spec => []Kinds
<1>1. Init => Kinds
  <2> SUFFICES ASSUME Init PROVE Kinds
    OBVIOUS
  <2>1. /\ camera_pos_ = Nowhere /\ lidar_proj_points_ = <<>> /\ pc = "idle"
        /\ point = 1 /\ cache = {} /\ swept = {} /\ raycast_num_ = 0 /\ rounds = 0
        /\ flag_rayend_ = [v \in Voxels |-> Untouched]
        /\ flag_traverse_ = [v \in Voxels |-> Untouched]
        /\ ray = RayFrom(Nowhere, Nowhere)
    BY DEF Init
  <2>2. Nowhere \in InMap /\ Nowhere \in Positions
    <3>1. \A a \in Axes : map_voxel_num_[a] \in Nat \ {0}
      BY MapAssumption
    <3> QED BY <3>1 DEF Nowhere, InMap, Positions
  <2>3. RayInv
    BY <2>1, <2>2, SetUp
  <2>4. RayInMap
    <3> SUFFICES ASSUME NEW a \in Axes
                 PROVE  /\ ray.end[a] \in 0 .. map_voxel_num_[a] - 1
                        /\ ray.end[a] - ray.span[a] * ray.dir[a] \in 0 .. map_voxel_num_[a] - 1
      BY DEF RayInMap
    <3>1. posToIndex(Nowhere)[a] = 0 /\ map_voxel_num_[a] \in Nat \ {0}
      BY MapAssumption DEF posToIndex, Nowhere
    <3>2. ray.end[a] = 0 /\ ray.span[a] = 0 /\ ray.dir[a] = 0
      BY <2>1, <3>1 DEF RayFrom, signum
    <3> QED BY <3>1, <3>2
  <2>5. 0 \in Chars /\ Untouched \in Chars
    BY MapAssumption DEF Chars, Untouched
  <2> QED BY <2>1, <2>2, <2>3, <2>4, <2>5, FS_EmptySet DEF Kinds
<1>2. Kinds /\ [Next]_vars => Kinds'
  <2> SUFFICES ASSUME Kinds, [Next]_vars PROVE Kinds'
    OBVIOUS
  <2>1. camera_pos_ \in InMap /\ lidar_proj_points_ \in Seq(InMap)
    BY DEF Kinds
  <2>2. ASSUME NEW c \in Cameras, odomCallback(c) PROVE Kinds'
    BY <2>1, <2>2, MapAssumption, QuietKinds
       DEF odomCallback, sensorVars, stampVars, roundVars, countVars, histVars
  <2>3. ASSUME NEW cloud \in Clouds, cloudCallback(cloud) PROVE Kinds'
    BY <2>1, <2>3, MapAssumption, QuietKinds DEF cloudCallback, stampVars, roundVars
  <2>4. ASSUME NEW cloud \in Clouds, cloudSegmentationCallback(cloud) PROVE Kinds'
    BY <2>1, <2>4, MapAssumption, QuietKinds
       DEF cloudSegmentationCallback, stampVars, roundVars
  <2>5. CASE fliterLocalMap
    BY <2>1, <2>5, QuietKinds DEF fliterLocalMap, stampVars, countVars, histVars
  <2>6. CASE UNCHANGED vars
    BY <2>1, <2>6, QuietKinds DEF vars, sensorVars, stampVars, roundVars, countVars, histVars
  <2> QED BY <2>2, <2>3, <2>4, <2>5, <2>6, BeginKinds, CastKinds, WalkKinds, SweepKinds
             DEF Next, updateOccupancyCallback
<1> QED BY <1>1, <1>2, PTL DEF Spec

-----------------------------------------------------------------------------
(* What holds of the rounds before the wrap.                               *)

\* What is linked stays linked when more is cached.
LEMMA LinkedMore ==
  ASSUME NEW A, NEW v, NEW W, NEW X, W \subseteq X, LinkedFrom(A, v, W)
  PROVE  LinkedFrom(A, v, X)
BY DEF LinkedFrom, Spread

\* The next point is cached; a ray is cast from it unless one was in this round.
LEMMA CastStep ==
  ASSUME RoundInv, CastPoint
  PROVE  RoundInv'
<1> DEFINE p == lidar_proj_points_[point]
<1>1. /\ pc = "points" /\ point <= Len(lidar_proj_points_)
      /\ map_type_' = map_type_ /\ has_odom_' = has_odom_ /\ camera_pos_' = camera_pos_
      /\ lidar_proj_points_' = lidar_proj_points_ /\ is_pcl_update' = is_pcl_update
      /\ raycast_num_' = raycast_num_ /\ flag_traverse_' = flag_traverse_ /\ rounds' = rounds
      /\ swept' = swept /\ castFrom' = castFrom
  BY DEF CastPoint, sensorVars, histVars, countVars
<1>2. Kinds /\ point \in 1 .. Len(lidar_proj_points_) /\ Len(lidar_proj_points_) \in Nat
  BY <1>1 DEF RoundInv, Kinds
<1>3. PICK s \in InMap : s = p
  BY <1>2, ElementOfSeq DEF Kinds
<1>4. PICK v : v = posToIndex(s)
  OBVIOUS
<1>5. v \in Voxels
  BY <1>4, PlaceInMap
<1>6. cache' = cache \cup {v}
  BY <1>3, <1>4 DEF CastPoint
<1>7. cache' \subseteq Voxels /\ IsFiniteSet(cache')
  BY <1>2, <1>5, <1>6, FS_AddElement DEF Kinds
<1>8. Phases' /\ SweepLinked'
  <2>1. pc' \in {"points", "ray"}
    BY <1>1 DEF CastPoint
  <2> QED BY <1>1, <2>1 DEF RoundInv, Phases, SweepLinked
<1>9. CASE flag_rayend_[v] = raycast_num_
  <2>1. point' = point + 1 /\ pc' = "points" /\ flag_rayend_' = flag_rayend_ /\ ray' = ray
    BY <1>1, <1>3, <1>4, <1>9 DEF CastPoint
  <2>2. v \in cache /\ cache' = cache
    BY <1>1, <1>5, <1>6, <1>9 DEF RoundInv, Stamps
  <2>3. Kinds'
    BY <1>2, CastKinds
  <2>4. Stamps'
    BY <1>1, <2>1, <2>2 DEF RoundInv, Stamps
  <2>5. BetweenRays'
    <3>1. \A i \in 1 .. point : posToIndex(lidar_proj_points_[i]) \in cache
      <4>1. \A i \in 1 .. point : i = point \/ i \in 1 .. point - 1
        BY <1>2
      <4> QED BY <1>1, <1>3, <1>4, <2>2, <4>1 DEF RoundInv, BetweenRays
    <3>2. Cam' = Cam /\ point' - 1 = point /\ point' <= Len(lidar_proj_points_) + 1
      BY <1>1, <1>2, <2>1 DEF Cam
    <3> QED BY <1>1, <2>2, <3>1, <3>2 DEF RoundInv, BetweenRays
  <2> QED BY <1>8, <2>1, <2>3, <2>4, <2>5 DEF RoundInv, OnRay
<1>10. CASE flag_rayend_[v] # raycast_num_
  <2>1. /\ flag_rayend_' = [flag_rayend_ EXCEPT ![v] = raycast_num_]
        /\ ray' = RayFrom(s, camera_pos_) /\ pc' = "ray" /\ point' = point
    BY <1>3, <1>4, <1>10 DEF CastPoint, setInput
  <2>2. RayInv' /\ RayInMap' /\ ray'.at = v /\ ray'.end = Cam'
    <3>1. PICK e \in InMap : e = camera_pos_
      BY <1>2 DEF Kinds
    <3>2. RayInv' /\ RayInMap' /\ ray'.at = posToIndex(s) /\ ray'.end = posToIndex(e)
      BY <2>1, <3>1, CastFresh
    <3> QED BY <1>1, <1>4, <3>1, <3>2 DEF Cam
  <2>3. Kinds'
    BY <1>2, CastKinds
  <2>4. Stamps'
    <3>1. \A w \in Voxels : flag_rayend_'[w] = IF w = v THEN raycast_num_ ELSE flag_rayend_[w]
      BY <1>2, <1>5, <2>1 DEF Kinds
    <3> QED BY <1>1, <1>2, <1>6, <2>1, <3>1 DEF RoundInv, Stamps, Kinds
  <2>5. OnRay'
    <3>1. \A i \in 1 .. point : posToIndex(lidar_proj_points_[i]) \in cache'
      <4>1. \A i \in 1 .. point : i = point \/ i \in 1 .. point - 1
        BY <1>2
      <4> QED BY <1>1, <1>3, <1>4, <1>6, <4>1 DEF RoundInv, BetweenRays
    <3>2. ASSUME NEW w \in cache' PROVE LinkedFrom({Cam, v}, w, cache')
      <4>1. CASE w = v
        BY <4>1 DEF LinkedFrom
      <4>2. CASE w # v
        <5>1. LinkedFrom({Cam}, w, cache)
          BY <1>1, <1>6, <3>2, <4>2 DEF RoundInv, BetweenRays
        <5>2. LinkedFrom({Cam}, w, cache')
          BY <1>6, <5>1, LinkedMore
        <5> QED BY <5>2 DEF LinkedFrom
      <4> QED BY <4>1, <4>2
    <3>3. ASSUME NEW w \in Voxels, flag_traverse_[w] = raycast_num_
          PROVE  LinkedFrom({Cam}, w, cache')
      <4>1. w \in cache
        BY <1>1, <3>3 DEF RoundInv, Stamps
      <4>2. LinkedFrom({Cam}, w, cache)
        BY <1>1, <4>1 DEF RoundInv, BetweenRays
      <4> QED BY <1>6, <4>2, LinkedMore
    <3>4. Cam' = Cam
      BY <1>1 DEF Cam
    <3> QED BY <1>1, <2>1, <2>2, <3>1, <3>2, <3>3, <3>4 DEF OnRay
  <2> QED BY <1>8, <2>1, <2>3, <2>4, <2>5 DEF RoundInv, BetweenRays
<1> QED BY <1>9, <1>10

\* A ray goes on, arrives at the camera, or ends where another has passed,
\* which is linked to the camera already: it is not behind the ray.
LEMMA WalkStep ==
  ASSUME RoundInv, WalkRay
  PROVE  RoundInv'
<1>1. /\ pc = "ray" /\ pc' \in {"points", "ray"} /\ map_type_' = map_type_ /\ has_odom_' = has_odom_
      /\ camera_pos_' = camera_pos_ /\ lidar_proj_points_' = lidar_proj_points_
      /\ is_pcl_update' = is_pcl_update /\ raycast_num_' = raycast_num_
      /\ flag_rayend_' = flag_rayend_ /\ swept' = swept /\ castFrom' = castFrom /\ rounds' = rounds
      /\ point' = IF pc' = "points" THEN point + 1 ELSE point
  <2>1. pc' \in {"points", "ray"}
    BY DEF WalkRay
  <2> QED BY <2>1 DEF WalkRay, sensorVars, histVars, countVars
<1>2. /\ Kinds /\ Len(lidar_proj_points_) \in Nat /\ point \in Nat \ {0}
      /\ point <= Len(lidar_proj_points_)
  BY <1>1 DEF RoundInv, Kinds, OnRay
<1>3. Phases' /\ SweepLinked'
  BY <1>1 DEF RoundInv, Phases, SweepLinked
<1>4. PICK v \in Voxels : v = ray.at /\ ~Behind(v)
  BY <1>2, AtIsVoxel DEF Kinds
<1>5. Cam' = Cam /\ ray.end = Cam
  BY <1>1 DEF Cam, RoundInv, OnRay
<1>6. /\ \A i \in 1 .. point : posToIndex(lidar_proj_points_[i]) \in cache
      /\ \A w \in cache : LinkedFrom({Cam, v}, w, cache)
      /\ \A w \in Voxels : flag_traverse_[w] = raycast_num_ => LinkedFrom({Cam}, w, cache) \/ Behind(w)
  BY <1>1, <1>4 DEF RoundInv, OnRay
\* What ends a ray: all that was cached is linked to the camera.
<1>7. ASSUME pc' = "points", \A i \in 1 .. point : posToIndex(lidar_proj_points_[i]) \in cache',
             \A w \in cache' : LinkedFrom({Cam}, w, cache')
      PROVE  BetweenRays' /\ OnRay' /\ point' \in Nat \ {0}
  <2>1. point' = point + 1 /\ point' - 1 = point /\ point' <= Len(lidar_proj_points_) + 1
    BY <1>1, <1>2, <1>7
  <2>2. OnRay'
    BY <1>7 DEF OnRay
  <2>3. \A i \in 1 .. point' - 1 : posToIndex(lidar_proj_points_'[i]) \in cache'
    <3>1. 1 .. point' - 1 = 1 .. point
      BY <2>1
    <3> QED BY <1>1, <1>7, <3>1
  <2>4. BetweenRays'
    BY <1>1, <1>5, <1>7, <2>1, <2>3 DEF BetweenRays
  <2>5. point' \in Nat \ {0}
    BY <1>2, <2>1
  <2> QED BY <2>2, <2>4, <2>5
<1>8. CASE Arrived
  <2>1. cache' = cache /\ ray' = ray /\ flag_traverse_' = flag_traverse_ /\ pc' = "points"
    BY <1>8 DEF WalkRay
  <2>2. v = Cam
    BY <1>4, <1>5, <1>8 DEF Arrived
  <2>3. BetweenRays' /\ OnRay' /\ point' \in Nat \ {0}
    <3>1. \A w \in cache : LinkedFrom({Cam}, w, cache)
      BY <1>6, <2>2 DEF LinkedFrom
    <3> QED BY <1>6, <1>7, <2>1, <3>1
  <2>4. Kinds'
    BY <1>2, WalkKinds
  <2>5. Stamps'
    BY <1>1, <2>1 DEF RoundInv, Stamps
  <2> QED BY <1>3, <2>3, <2>4, <2>5 DEF RoundInv
<1>9. CASE ~Arrived
  <2>1. /\ step /\ cache' = cache \cup {v}
        /\ flag_traverse_' = [flag_traverse_ EXCEPT ![v] = raycast_num_]
        /\ pc' = IF flag_traverse_[v] = raycast_num_ THEN "points" ELSE "ray"
    BY <1>4, <1>9 DEF WalkRay
  <2>2. /\ RayInv' /\ RayInMap' /\ ray'.end = ray.end /\ Neighbours(ray'.at, v)
        /\ \A w \in Voxels : w = v \/ Behind(w) => Behind(w)'
    BY <1>2, <1>4, <2>1, StepMoves DEF Kinds
  <2>3. cache' \subseteq Voxels /\ IsFiniteSet(cache')
    BY <1>2, <2>1, FS_AddElement DEF Kinds
  <2>4. \A w \in Voxels : flag_traverse_'[w] = IF w = v THEN raycast_num_ ELSE flag_traverse_[w]
    BY <1>2, <2>1 DEF Kinds
  <2>5. Stamps'
    BY <1>1, <1>2, <2>1, <2>4 DEF RoundInv, Stamps, Kinds
  <2>6. \A i \in 1 .. point : posToIndex(lidar_proj_points_[i]) \in cache'
    BY <1>6, <2>1
  <2>7. /\ point' \in Nat \ {0} /\ flag_traverse_' \in [Voxels -> Chars]
    BY <1>1, <1>2, <2>1 DEF Kinds
  <2>8. Kinds'
    BY <1>2, WalkKinds
  <2>9. CASE flag_traverse_[v] = raycast_num_
    <3>1. LinkedFrom({Cam}, v, cache) /\ pc' = "points"
      BY <1>4, <1>6, <2>1, <2>9
    <3>2. v \in cache
      BY <1>1, <2>9 DEF RoundInv, Stamps
    <3>3. ASSUME NEW w \in cache' PROVE LinkedFrom({Cam}, w, cache')
      <4>1. LinkedFrom({Cam, v}, w, cache) /\ cache' = cache
        BY <1>6, <2>1, <3>2, <3>3
      <4> QED BY <3>1, <4>1 DEF LinkedFrom
    <3>4. BetweenRays' /\ OnRay'
      BY <1>7, <2>6, <3>1, <3>3
    <3> QED BY <1>3, <2>5, <2>8, <3>4 DEF RoundInv
  <2>10. CASE flag_traverse_[v] # raycast_num_
    <3>1. pc' = "ray" /\ point' = point
      BY <1>1, <2>1, <2>10
    <3>2. ASSUME NEW w \in cache' PROVE LinkedFrom({Cam, ray'.at}, w, cache')
      <4>1. LinkedFrom({Cam, ray'.at}, v, cache')
        BY <2>1, <2>2 DEF LinkedFrom, Spread
      <4>2. CASE w = v
        BY <4>1, <4>2
      <4>3. CASE w # v
        <5>1. LinkedFrom({Cam, v}, w, cache)
          BY <1>6, <2>1, <3>2, <4>3
        <5>2. LinkedFrom({Cam, v}, w, cache')
          BY <2>1, <5>1, LinkedMore
        <5> QED BY <4>1, <5>2 DEF LinkedFrom
      <4> QED BY <4>2, <4>3
    <3>3. ASSUME NEW w \in Voxels, flag_traverse_'[w] = raycast_num_
          PROVE  LinkedFrom({Cam}, w, cache') \/ Behind(w)'
      <4>1. CASE w = v
        BY <2>2, <4>1
      <4>2. CASE w # v
        <5>1. LinkedFrom({Cam}, w, cache) \/ Behind(w)
          BY <1>6, <2>4, <3>3, <4>2
        <5>2. LinkedFrom({Cam}, w, cache) => LinkedFrom({Cam}, w, cache')
          BY <2>1, LinkedMore
        <5> QED BY <2>2, <5>1, <5>2
      <4> QED BY <4>1, <4>2
    <3>4. OnRay'
      BY <1>1, <1>2, <1>5, <2>2, <2>6, <3>1, <3>2, <3>3 DEF OnRay
    <3> QED BY <1>3, <2>5, <2>8, <3>1, <3>4 DEF RoundInv, BetweenRays
  <2> QED BY <2>9, <2>10
<1> QED BY <1>8, <1>9

\* After the last point what was cached is what the round has swept.
LEMMA SweepStep ==
  ASSUME RoundInv, UpdateCached
  PROVE  RoundInv'
<1>1. /\ pc = "points" /\ point > Len(lidar_proj_points_) /\ pc' = "filter" /\ point' = 1
      /\ map_type_' = map_type_ /\ has_odom_' = has_odom_ /\ camera_pos_' = camera_pos_
      /\ lidar_proj_points_' = lidar_proj_points_ /\ is_pcl_update' = is_pcl_update
      /\ raycast_num_' = raycast_num_ /\ flag_rayend_' = flag_rayend_ /\ rounds' = rounds
      /\ flag_traverse_' = flag_traverse_ /\ swept' = cache /\ castFrom' = camera_pos_
      /\ cache' = {} /\ ray' = RayFrom(Nowhere, Nowhere)
  BY DEF UpdateCached, sensorVars, stampVars, countVars
<1>2. Kinds'
  BY SweepKinds DEF RoundInv
<1>3. Phases'
  BY <1>1 DEF RoundInv, Phases
<1>4. Stamps'
  BY <1>1 DEF RoundInv, Stamps
<1>5. SweepLinked'
  <2>1. point \in Nat /\ Len(lidar_proj_points_) \in Nat /\ point - 1 = Len(lidar_proj_points_)
    <3>1. point \in Nat /\ Len(lidar_proj_points_) \in Nat
      BY DEF RoundInv, Kinds
    <3> QED BY <1>1, <3>1 DEF RoundInv, BetweenRays
  <2> QED BY <1>1, <2>1 DEF RoundInv, BetweenRays, SweepLinked, Cam
<1> QED BY <1>1, <1>2, <1>3, <1>4, <1>5 DEF RoundInv, BetweenRays, OnRay

\* The steps between rounds, which leave the stamps and what was swept.
LEMMA BetweenRounds ==
  ASSUME RoundInv, pc \in {"idle", "filter"}, pc' = "idle",
         camera_pos_' \in InMap, lidar_proj_points_' \in Seq(InMap), map_type_' = map_type_,
         is_pcl_update' \/ has_odom_ => has_odom_',
         ~is_pcl_update' /\ swept # {} =>
           /\ lidar_proj_points_' \in {lidar_proj_points_, <<>>}
           /\ pc = "filter" \/ ~is_pcl_update,
         UNCHANGED <<stampVars, rounds, swept, castFrom, point, cache, ray>>
  PROVE  RoundInv'
<1>1. /\ raycast_num_' = raycast_num_ /\ flag_rayend_' = flag_rayend_ /\ flag_traverse_' = flag_traverse_
      /\ swept' = swept /\ castFrom' = castFrom /\ point' = point /\ cache' = cache /\ ray' = ray
      /\ rounds' = rounds
  BY DEF stampVars
<1>2. Kinds'
  BY <1>1, QuietKinds DEF RoundInv
<1>3. Phases'
  BY <1>1 DEF RoundInv, Phases
<1>4. Stamps'
  BY <1>1 DEF RoundInv, Stamps
<1>5. SweepLinked'
  <2> SUFFICES ASSUME ~is_pcl_update', swept # {}
               PROVE  /\ \A i \in 1 .. Len(lidar_proj_points_') : posToIndex(lidar_proj_points_'[i]) \in swept
                      /\ \A v \in swept : LinkedFrom({posToIndex(castFrom)}, v, swept)
    BY <1>1 DEF SweepLinked
  <2>1. /\ \A i \in 1 .. Len(lidar_proj_points_) : posToIndex(lidar_proj_points_[i]) \in swept
        /\ \A v \in swept : LinkedFrom({posToIndex(castFrom)}, v, swept)
    BY DEF RoundInv, SweepLinked
  <2>2. Len(<<>>) = 0 /\ 1 .. 0 = {}
    OBVIOUS
  <2> QED BY <2>1, <2>2
<1> QED BY <1>2, <1>3, <1>4, <1>5 DEF RoundInv, BetweenRays, OnRay

\* A round before the wrap begins with a number no voxel bears.
LEMMA BeginRoundStep ==
  ASSUME RoundInv, BeginRound, BeforeWrap'
  PROVE  RoundInv'
<1>1. /\ map_type_ = "EXPLORATION" /\ is_pcl_update /\ pc' = "points" /\ point' = 1 /\ cache' = {}
      /\ raycast_num_' = (raycast_num_ + 1) % CharSpan /\ rounds' = rounds + 1
      /\ map_type_' = map_type_ /\ has_odom_' = has_odom_ /\ camera_pos_' = camera_pos_
      /\ lidar_proj_points_' = lidar_proj_points_ /\ is_pcl_update' = is_pcl_update
      /\ flag_rayend_' = flag_rayend_ /\ flag_traverse_' = flag_traverse_
      /\ swept' = swept /\ castFrom' = castFrom /\ ray' = ray
  BY DEF BeginRound, NextRound, sensorVars, histVars
<1>2. Kinds'
  BY BeginKinds DEF RoundInv
<1>3. Phases'
  BY <1>1 DEF RoundInv, Phases
<1>4. Stamps'
  <2>1. /\ raycast_num_ \in Chars /\ rounds \in Nat /\ raycast_num_ = rounds
        /\ \A v \in Voxels : /\ flag_rayend_[v] \in Chars /\ flag_traverse_[v] \in Chars
                             /\ flag_rayend_[v] <= rounds \/ flag_rayend_[v] = Untouched
                             /\ flag_traverse_[v] <= rounds \/ flag_traverse_[v] = Untouched
    BY DEF RoundInv, Kinds, Stamps
  <2>2. rounds + 1 < CharSpan - 1 /\ CharSpan \in Nat
    BY <1>1, MapAssumption DEF BeforeWrap
  <2>3. raycast_num_' = rounds'
    BY <1>1, <2>1, <2>2
  <2>4. \A v \in Voxels : /\ flag_rayend_[v] <= rounds + 1 \/ flag_rayend_[v] = Untouched
                          /\ flag_traverse_[v] <= rounds + 1 \/ flag_traverse_[v] = Untouched
                          /\ flag_rayend_[v] # rounds + 1 /\ flag_traverse_[v] # rounds + 1
    BY <2>1, <2>2 DEF Chars, Untouched
  <2> QED BY <1>1, <2>3, <2>4 DEF Stamps
<1>5. BetweenRays'
  <2>1. Len(lidar_proj_points_) \in Nat /\ 1 .. 1 - 1 = {}
    BY DEF RoundInv, Kinds
  <2> QED BY <1>1, <2>1 DEF BetweenRays
<1> QED BY <1>1, <1>2, <1>3, <1>4, <1>5 DEF RoundInv, OnRay, SweepLinked

\* The invariant of the rounds before the wrap.
LEMMA RoundsInductive == Spec => [](BeforeWrap => RoundInv)
<1>1. Init /\ Kinds => RoundInv
  <2> SUFFICES ASSUME Init, Kinds PROVE RoundInv
    OBVIOUS
  <2>1. /\ is_pcl_update = FALSE /\ pc = "idle" /\ swept = {} /\ raycast_num_ = 0 /\ rounds = 0
        /\ flag_rayend_ = [v \in Voxels |-> Untouched]
        /\ flag_traverse_ = [v \in Voxels |-> Untouched]
    BY DEF Init
  <2> QED BY <2>1 DEF RoundInv, Phases, Stamps, BetweenRays, OnRay, SweepLinked
<1>2. Kinds /\ (BeforeWrap => RoundInv) /\ [Next]_vars => (BeforeWrap' => RoundInv')
  <2> SUFFICES ASSUME Kinds, BeforeWrap => RoundInv, [Next]_vars, BeforeWrap' PROVE RoundInv'
    OBVIOUS
  <2>0. RoundInv
    <3>1. rounds' \in {rounds, rounds + 1}
      BY DEF Next, odomCallback, cloudCallback, cloudSegmentationCallback, updateOccupancyCallback,
             BeginRound, CastPoint, WalkRay, UpdateCached, fliterLocalMap, vars, countVars
    <3> QED BY <3>1, MapAssumption DEF BeforeWrap, Kinds
  <2>1. camera_pos_ \in InMap /\ lidar_proj_points_ \in Seq(InMap)
        /\ (is_pcl_update \/ swept # {} => has_odom_)
    BY <2>0 DEF RoundInv, Kinds, Phases
  <2>2. ASSUME NEW c \in Cameras, odomCallback(c) PROVE RoundInv'
    <3>1. /\ pc = "idle" /\ camera_pos_' \in InMap /\ lidar_proj_points_' = lidar_proj_points_
          /\ map_type_' = map_type_ /\ is_pcl_update' = is_pcl_update /\ has_odom_'
          /\ pc' = pc /\ UNCHANGED <<stampVars, rounds, swept, castFrom, point, cache, ray>>
      BY <2>2, MapAssumption DEF odomCallback, Idle, roundVars, countVars, histVars
    <3> QED BY <2>0, <2>1, <3>1, BetweenRounds
  <2>3. ASSUME NEW cloud \in Clouds, cloudCallback(cloud) PROVE RoundInv'
    <3>1. /\ pc = "idle" /\ camera_pos_' = camera_pos_ /\ lidar_proj_points_' = cloud
          /\ cloud \in Seq(InMap) /\ map_type_' = map_type_ /\ has_odom_' = has_odom_
          /\ pc' = pc /\ UNCHANGED <<stampVars, rounds, swept, castFrom, point, cache, ray>>
      BY <2>3, MapAssumption DEF cloudCallback, Idle, roundVars
    <3>2. IF has_odom_ /\ cloud # <<>> THEN is_pcl_update' = TRUE ELSE is_pcl_update' = is_pcl_update
      BY <2>3 DEF cloudCallback
    <3> QED BY <2>0, <2>1, <3>1, <3>2, BetweenRounds
  <2>4. ASSUME NEW cloud \in Clouds, cloudSegmentationCallback(cloud) PROVE RoundInv'
    <3>1. /\ pc = "idle" /\ camera_pos_' = camera_pos_ /\ lidar_proj_points_' \in {cloud, lidar_proj_points_}
          /\ cloud \in Seq(InMap) /\ map_type_' = map_type_ /\ has_odom_' = has_odom_
          /\ is_pcl_update' = is_pcl_update
          /\ pc' = pc /\ UNCHANGED <<stampVars, rounds, swept, castFrom, point, cache, ray>>
      BY <2>4, MapAssumption DEF cloudSegmentationCallback, Idle, roundVars
    <3>2. swept # {} => lidar_proj_points_' = lidar_proj_points_
      BY <2>0, <2>4 DEF cloudSegmentationCallback, RoundInv, Phases
    <3> QED BY <2>0, <2>1, <3>1, <3>2, BetweenRounds
  <2>5. CASE fliterLocalMap
    <3>1. /\ pc = "filter" /\ pc' = "idle" /\ camera_pos_' = camera_pos_
          /\ lidar_proj_points_' = lidar_proj_points_ /\ map_type_' = map_type_ /\ has_odom_' = has_odom_
          /\ is_pcl_update' = FALSE /\ UNCHANGED <<stampVars, rounds, swept, castFrom, point, cache, ray>>
      BY <2>5 DEF fliterLocalMap, countVars, histVars
    <3> QED BY <2>0, <2>1, <3>1, BetweenRounds
  <2>6. CASE UNCHANGED vars
    <3>1. UNCHANGED <<map_type_, has_odom_, camera_pos_, lidar_proj_points_, is_pcl_update, rounds,
                      raycast_num_, flag_rayend_, flag_traverse_, pc, point, cache, ray, swept, castFrom>>
      BY <2>6 DEF vars, sensorVars, stampVars, roundVars, countVars, histVars
    <3>2. Kinds'
      BY <2>1, <3>1, QuietKinds
    <3>3. Phases' /\ Stamps' /\ SweepLinked'
      BY <2>0, <3>1 DEF RoundInv, Phases, Stamps, SweepLinked
    <3>4. BetweenRays'
      BY <2>0, <3>1 DEF RoundInv, BetweenRays, Cam
    <3>5. OnRay'
      BY <2>0, <3>1 DEF RoundInv, OnRay, Cam, Behind, Left
    <3> QED BY <3>2, <3>3, <3>4, <3>5 DEF RoundInv
  <2> QED BY <2>0, <2>2, <2>3, <2>4, <2>5, <2>6, BeginRoundStep, CastStep, WalkStep, SweepStep
             DEF Next, updateOccupancyCallback
<1> QED BY <1>1, <1>2, KindsInductive, PTL DEF Spec

\* In each of the first CharSpan - 2 rounds every point is linked to the camera
\* by voxels of that round, on every map and for every cloud: wherever a ray is
\* given up, the one that passed there before has gone on to the camera
\* (raycastProcess).  The bound is part of the claim, and the run map_wrap shows
\* that it cannot be left out.
THEOREM PointsAreLinked == Spec => []PointsLinked
<1>1. (BeforeWrap => RoundInv) => PointsLinked
  <2> SUFFICES ASSUME RoundInv, Idle, ~is_pcl_update, swept # {},
                      NEW i \in DOMAIN lidar_proj_points_
               PROVE  posToIndex(lidar_proj_points_[i]) \in LinkedTo(posToIndex(castFrom))
    BY DEF PointsLinked, Linked, BeforeWrap
  <2> DEFINE v == posToIndex(lidar_proj_points_[i])
             c == posToIndex(castFrom)
  <2>1. v \in swept /\ LinkedFrom({c}, v, swept)
    <3>1. i \in 1 .. Len(lidar_proj_points_)
      BY DEF RoundInv, Kinds
    <3> QED BY <3>1 DEF RoundInv, SweepLinked, Idle
  <2>2. c \in LinkedTo(c) /\ Spread(LinkedTo(c), swept)
    BY LinkedIsSpread DEF RoundInv, Kinds
  <2> HIDE DEF c, v
  <2>3. v \in LinkedTo(c)
    BY <2>1, <2>2 DEF LinkedFrom
  <2> QED BY <2>3 DEF c, v
<1> QED BY <1>1, RoundsInductive, PTL

\* No ray the map casts passes its end, in any round.
THEOREM NoCastPastItsEnd == Spec => []NeverPast
<1>1. Kinds => NeverPast
  BY DEF Kinds, RayInv, AxisOK, NeverPast
<1> QED BY <1>1, KindsInductive, PTL
=============================================================================
