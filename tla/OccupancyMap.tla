---------------------------- MODULE OccupancyMap ----------------------------
(***************************************************************************)
(* GridMap: what the planner knows of the obstacles around it.             *)
(*                                                                         *)
(* Two clouds arrive on topics of their own.  /grid_map/cloud fills the    *)
(* inflated buffer and sets the local bounds; the segmentation cloud marks *)
(* its obstacles and projects what lies within those bounds, which are of  *)
(* another cloud, onto the columns of the map the planner asks.  In        *)
(* EXPLORATION a timer casts rays from the points of the last cloud to the *)
(* camera, and columns with free voxels are opened.                        *)
(*                                                                         *)
(* The log odds of a voxel are abstracted to known or not: every voxel a   *)
(* round has cached is at or above clamp_min_log_ after it.  The node has  *)
(* one thread; a round is split into the steps of its loops, and nothing   *)
(* else runs in between.  Points lie in the map and within                 *)
(* max_ray_length_, and the camera is in the map, whose origin is on a     *)
(* boundary of voxels at height 0.                                         *)
(***************************************************************************)
EXTENDS RayCaster, Sequences, FiniteSetsExt

CONSTANTS
  map_voxel_num_,        \* the voxels on each axis
  Clouds,                \* the clouds a sensor may send: sequences of positions
  Cameras,               \* where odometry may place the camera
  local_update_range_,   \* half voxels on each axis
  inf_step, inf_step_2d, \* voxels an obstacle is inflated by, in x and y
  HalfVoxel,             \* in millimetres
  MapTypes,              \* the values map_type_ may be given
  Garbage,               \* bounds nobody has written yet, cut to the map
  CharSpan,              \* the values a char takes
  MaxRounds,             \* bounds: how many rounds of rays are cast,
  MaxClouds,             \* how many clouds come before the next of them,
  MaxSegmentations       \* and how many of the segmentation come

InMap == {p \in Positions : \A a \in Axes : p[a] \in 0..(2 * map_voxel_num_[a] - 1)}

ASSUME MapAssumption ==
  /\ map_voxel_num_ \in [Axes -> Nat \ {0}] /\ local_update_range_ \in [Axes -> Nat]
  /\ Cameras \subseteq InMap /\ Clouds \subseteq Seq(InMap)
  /\ inf_step \in Nat /\ inf_step_2d \in Nat /\ HalfVoxel \in Nat
  /\ MapTypes \subseteq {"PLANNING", "EXPLORATION"}
  /\ CharSpan \in Nat \ {0, 1}

Voxels == [x : 0..(map_voxel_num_["x"] - 1), y : 0..(map_voxel_num_["y"] - 1),
           z : 0..(map_voxel_num_["z"] - 1)]
Columns == {<<v.x, v.y>> : v \in Voxels}
ColumnOf(v) == <<v["x"], v["y"]>>

VARIABLES
  map_type_, has_odom_, camera_pos_,
  lidar_proj_points_, is_pcl_update, occ_need_update_,
  local_bound_,                        \* min and max, by axis
  inflate, segmentation,               \* the voxels set in the two buffers
  blocked,                             \* the columns set in occupancy_buffer_inflate_2d_
  known,                               \* the voxels that are not isUnknown
  raycast_num_, flag_rayend_, flag_traverse_, \* chars, of which only equality is asked
  pc, point, box, cache,               \* where a round is: its point, box and cache_voxel_
  clouds, segmentations,               \* how many were received
  rounds,                              \* history: how many were begun
  inflated,                            \* history: the points the bounds are of
  reported,                            \* history: points both clouds have shown
  crossed,                             \* history: voxels some round has cached
  swept, castFrom                      \* history: those of the last one, and its camera

sensorVars == <<map_type_, has_odom_, camera_pos_, lidar_proj_points_, is_pcl_update, occ_need_update_>>
bufferVars == <<inflate, segmentation, blocked, known>>
stampVars == <<raycast_num_, flag_rayend_, flag_traverse_>>
roundVars == <<pc, point, box, cache, ray>>
countVars == <<clouds, segmentations, rounds>>
histVars == <<inflated, reported, crossed, swept, castFrom>>
vars == <<sensorVars, local_bound_, bufferVars, stampVars, roundVars, countVars, histVars>>

Nowhere == [a \in Axes |-> 0]

\* what the stamps are made with: -1, as a char
Untouched == CharSpan - 1

Init ==
  /\ map_type_ \in MapTypes
  /\ has_odom_ = FALSE /\ camera_pos_ = Nowhere
  /\ lidar_proj_points_ = <<>> /\ is_pcl_update = FALSE /\ occ_need_update_ = FALSE
  /\ local_bound_ \in Garbage
  /\ inflate = {} /\ segmentation = {} /\ known = {}
  /\ blocked = IF map_type_ = "EXPLORATION" THEN Columns ELSE {}
  /\ raycast_num_ = 0
  /\ flag_rayend_ = [v \in Voxels |-> Untouched]
  /\ flag_traverse_ = [v \in Voxels |-> Untouched]
  /\ pc = "idle" /\ point = 1 /\ box = {} /\ cache = {} /\ ray = RayFrom(Nowhere, Nowhere)
  /\ clouds = 0 /\ segmentations = 0 /\ rounds = 0
  /\ inflated = {} /\ reported = {} /\ crossed = {} /\ swept = {} /\ castFrom = Nowhere

-----------------------------------------------------------------------------
(* Helpers of the callbacks.                                               *)

Abs(n) == IF n < 0 THEN -n ELSE n

\* what an obstacle is inflated by on each axis; step_z is 1 in every callback
Around(n) == [a \in Axes |-> IF a = "z" THEN 1 ELSE n]

\* the points of a cloud in the update range
InRange(cloud) ==
  {p \in {cloud[i] : i \in DOMAIN cloud} :
     \A a \in Axes : Abs(p[a] - camera_pos_[a]) < local_update_range_[a]}

\* the voxels the inflated point sets, those outside the map left out
Inflation(p, margin) ==
  {v \in Voxels : \A a \in Axes : Abs(v[a] - posToIndex(p)[a]) <= margin[a]}

InflationOf(points, margin) == UNION {Inflation(p, margin) : p \in points}

\* boundIndex on one axis
Bound(n, a) == Max({Min({n, map_voxel_num_[a] - 1}), 0})

\* Mutant: the bounds are those of the points, not of their inflation.
BoundsOf_Thin(points, margin) ==
  [min |-> [a \in Axes |-> Bound(Min({p[a] : p \in points \cup {camera_pos_}}) \div 2, a)],
   max |-> [a \in Axes |-> Bound(Max({p[a] : p \in points \cup {camera_pos_}}) \div 2, a)]]

\* the bounds of points, margin voxels wider for all of them but the camera
BoundsOf(points, margin) ==
  [min |-> [a \in Axes |->
     Bound(Min({p[a] - 2 * margin[a] : p \in points} \cup {camera_pos_[a]}) \div 2, a)],
   max |-> [a \in Axes |->
     Bound(Max({p[a] + 2 * margin[a] : p \in points} \cup {camera_pos_[a]}) \div 2, a)]]

\* The loops over local_bound_ leave its upper end out on every axis.
LocalColumns ==
  {c \in Columns : /\ local_bound_.min["x"] <= c[1] /\ c[1] < local_bound_.max["x"]
                   /\ local_bound_.min["y"] <= c[2] /\ c[2] < local_bound_.max["y"]}
LocalLevels == local_bound_.min["z"]..(local_bound_.max["z"] - 1)

VoxelAt(c, z) == [x |-> c[1], y |-> c[2], z |-> z]

\* a level is compared with a height: the index z with the metres of the camera
BelowHeight(z, margin) == 1000 * z <= camera_pos_["z"] * HalfVoxel + margin

MarkedLevels(marked, c, margin) ==
  {z \in LocalLevels : VoxelAt(c, z) \in marked /\ BelowHeight(z, margin)}

\* Mutant: what is not known to be occupied is free.
KnownFree_Unknown(v) == v \notin inflate

KnownFree(v) == v \in known /\ v \notin inflate

Idle == pc = "idle"

-----------------------------------------------------------------------------
(* The subscriptions.                                                      *)

\* has_first_depth_ stays FALSE: no depth image is subscribed to.
odomCallback(c) ==
  /\ Idle
  /\ camera_pos_' = c /\ has_odom_' = TRUE
  /\ UNCHANGED <<map_type_, lidar_proj_points_, is_pcl_update, occ_need_update_,
                 local_bound_, bufferVars, stampVars, roundVars, countVars, histVars>>

\* The points to cast are replaced before the cloud is looked at: one that
\* comes without odometry or has no points still takes their place.
cloudCallback(cloud) ==
  /\ Idle /\ clouds < MaxClouds
  /\ clouds' = clouds + 1
  /\ lidar_proj_points_' = cloud
  /\ IF has_odom_ /\ cloud # <<>>
     THEN /\ is_pcl_update' = TRUE /\ occ_need_update_' = TRUE
          /\ inflated' = InRange(cloud)
          /\ inflate' = inflate \cup InflationOf(InRange(cloud), Around(inf_step))
          /\ local_bound_' = BoundsOf(InRange(cloud), Around(inf_step))
     ELSE UNCHANGED <<is_pcl_update, occ_need_update_, inflated, inflate, local_bound_>>
  /\ UNCHANGED <<map_type_, has_odom_, camera_pos_, segmentation, blocked, known,
                 stampVars, roundVars, segmentations, rounds, reported, crossed, swept, castFrom>>

\* Two marked voxels below 1.3 m over the camera block a column, for good.
ProjectPlanning(marked) ==
  blocked' = blocked \cup {c \in LocalColumns : Cardinality(MarkedLevels(marked, c, 1300)) >= 2}

\* One marked voxel below the camera blocks a column; one that has none and
\* more than one free voxel is opened.
ProjectExploration(marked) ==
  LET hit == {c \in LocalColumns : MarkedLevels(marked, c, 0) # {}}
      free == {c \in LocalColumns \ hit :
                 Cardinality({z \in LocalLevels : KnownFree(VoxelAt(c, z))}) > 1} IN
  blocked' = (blocked \cup hit) \ free

cloudSegmentationCallback(cloud) ==
  /\ Idle /\ segmentations < MaxSegmentations
  /\ has_odom_ /\ cloud # <<>>
  /\ segmentations' = segmentations + 1
  /\ LET n == IF map_type_ = "PLANNING" THEN inf_step ELSE inf_step_2d
      marked == segmentation \cup InflationOf(InRange(cloud), Around(n)) IN
     /\ segmentation' = marked
     /\ \/ /\ map_type_ = "PLANNING" /\ ProjectPlanning(marked)
           /\ lidar_proj_points_' = cloud
        \/ /\ map_type_ = "EXPLORATION" /\ ProjectExploration(marked)
           /\ UNCHANGED lidar_proj_points_
  /\ reported' = IF {0, 1} \subseteq LocalLevels
                 THEN reported \cup (InRange(cloud) \cap inflated) ELSE reported
  /\ UNCHANGED <<map_type_, has_odom_, camera_pos_, is_pcl_update, occ_need_update_,
                 local_bound_, inflate, known, stampVars, roundVars, clouds, rounds,
                 inflated, crossed, swept, castFrom>>

-----------------------------------------------------------------------------
(* updateOccupancyCallback, a timer of EXPLORATION: raycastProcess, then   *)
(* fliterLocalMap.                                                         *)

\* Mutant: the rounds are not numbered, so stamps never go stale.
NextRound_Same == raycast_num_' = raycast_num_

\* The number wraps, and is reset nowhere.
NextRound == raycast_num_' = (raycast_num_ + 1) % CharSpan

BeginRound ==
  /\ Idle /\ map_type_ = "EXPLORATION"
  /\ occ_need_update_ /\ is_pcl_update
  /\ rounds < MaxRounds /\ rounds' = rounds + 1 /\ clouds' = 0
  /\ NextRound
  /\ pc' = "points" /\ point' = 1 /\ box' = {} /\ cache' = {}
  /\ UNCHANGED <<sensorVars, local_bound_, bufferVars, flag_rayend_, flag_traverse_, ray,
                 segmentations, histVars>>

\* The end of a ray is cached before the stamp of its voxel is looked at.
CastPoint ==
  LET p == lidar_proj_points_[point]
      v == posToIndex(p) IN
  /\ pc = "points" /\ point <= Len(lidar_proj_points_)
  /\ cache' = cache \cup {v}
  /\ box' = box \cup {p}
  /\ IF flag_rayend_[v] = raycast_num_
     THEN point' = point + 1 /\ UNCHANGED <<pc, flag_rayend_, ray>>
     ELSE /\ flag_rayend_' = [flag_rayend_ EXCEPT ![v] = raycast_num_]
          /\ setInput(p, camera_pos_)
          /\ pc' = "ray" /\ UNCHANGED point
  /\ UNCHANGED <<sensorVars, local_bound_, bufferVars, raycast_num_, flag_traverse_,
                 countVars, histVars>>

\* A ray ends at the camera's voxel, or at one another ray of this round has
\* traversed: that one has gone on from there.
WalkRay ==
  LET v == ray.at IN
  /\ pc = "ray"
  /\ IF Arrived
     THEN UNCHANGED <<cache, ray, flag_traverse_>> /\ pc' = "points"
     ELSE /\ step
          /\ cache' = cache \cup {v}
          /\ flag_traverse_' = [flag_traverse_ EXCEPT ![v] = raycast_num_]
          /\ pc' = IF flag_traverse_[v] = raycast_num_ THEN "points" ELSE "ray"
  /\ point' = IF pc' = "points" THEN point + 1 ELSE point
  /\ UNCHANGED <<sensorVars, local_bound_, bufferVars, raycast_num_, flag_rayend_, box,
                 countVars, histVars>>

\* The bounds become those of the points and the camera, and everything cached
\* becomes known; an inflated voxel of the local map may still be occupied.
UpdateCached ==
  /\ pc = "points" /\ point > Len(lidar_proj_points_)
  /\ local_bound_' = BoundsOf(box, [a \in Axes |-> 0])
  /\ known' = known \cup cache
  /\ crossed' = crossed \cup cache
  /\ swept' = cache /\ castFrom' = camera_pos_
  /\ cache' = {} /\ box' = {} /\ point' = 1 /\ ray' = RayFrom(Nowhere, Nowhere)
  /\ pc' = "filter"
  /\ inflated' = {}
  /\ UNCHANGED <<sensorVars, inflate, segmentation, blocked, stampVars,
                 countVars, reported>>

\* The unknown voxels under a free one that are over a free one or below the
\* camera.  One filled earlier in the scan lies under a known one: it is never
\* what the next gap is over.
Filled ==
  {v \in Voxels : /\ ColumnOf(v) \in LocalColumns
                  /\ local_bound_.min["z"] < v.z /\ v.z + 1 < local_bound_.max["z"]
                  /\ v \notin known /\ KnownFree(VoxelAt(ColumnOf(v), v.z + 1))
                  /\ \/ KnownFree(VoxelAt(ColumnOf(v), v.z - 1))
                     \/ 2 * v.z - 1 < camera_pos_["z"]}

fliterLocalMap ==
  /\ pc = "filter"
  /\ known' = known \cup Filled
  /\ is_pcl_update' = FALSE /\ occ_need_update_' = FALSE
  /\ pc' = "idle"
  /\ UNCHANGED <<map_type_, has_odom_, camera_pos_, lidar_proj_points_, local_bound_, inflate,
                 segmentation, blocked, stampVars, point, box, cache, ray, countVars, histVars>>

updateOccupancyCallback == BeginRound \/ CastPoint \/ WalkRay \/ UpdateCached \/ fliterLocalMap

Next ==
  \/ \E c \in Cameras : odomCallback(c)
  \/ \E cloud \in Clouds : cloudCallback(cloud) \/ cloudSegmentationCallback(cloud)
  \/ updateOccupancyCallback

Spec == Init /\ [][Next]_vars

-----------------------------------------------------------------------------
(* Properties.                                                             *)

\* An obstacle both clouds have shown blocks its column for the planner, if it
\* lies low, the bounds reach over the two lowest levels, and the column is not
\* at the far edge of the map, where no loop ever comes.  The bounds are of one
\* cloud, the marks of the other, and the camera may have moved in between.
LowObstaclesBlock ==
  map_type_ = "PLANNING" =>
    \A p \in reported :
      LET v == posToIndex(p) IN
      v["z"] <= 1 /\ (\A a \in {"x", "y"} : v[a] < map_voxel_num_[a] - 1)
      => ColumnOf(v) \in blocked

Neighbours(v, w) == \E a \in Axes : Abs(v[a] - w[a]) = 1 /\ \A b \in Axes \ {a} : v[b] = w[b]

\* what can be reached from v through the voxels swept
LinkedTo(v) ==
  LET grow[n \in 0..Cardinality(swept)] ==
        IF n = 0 THEN {v}
        ELSE LET near == grow[n - 1] IN
             near \cup {w \in swept : \E u \in near : Neighbours(u, w)} IN
  grow[Cardinality(swept)]

Linked ==
  Idle /\ ~is_pcl_update /\ swept # {} =>
    {posToIndex(lidar_proj_points_[i]) : i \in DOMAIN lidar_proj_points_}
      \subseteq LinkedTo(posToIndex(castFrom))

\* After a round every point is linked to the camera by voxels of that round,
\* although a ray is given up where another has passed and where a point has
\* been cast before: the stamps it trusts are of the same round. So it is while
\* the number of the round is that of no earlier one and not that of untouched
\* voxels: for the first CharSpan - 2 rounds.
PointsLinked == rounds < CharSpan - 1 => Linked

\* The stamps only speed up raycasting: they never decide how far rays reach.
StampsOnlySpeedUp == Linked

\* Only what rays have crossed is opened: filling the gaps between free voxels
\* never opens a column no ray has been through.
FreeMeansCrossed ==
  map_type_ = "EXPLORATION" =>
    \A c \in Columns \ blocked : \E v \in crossed : ColumnOf(v) = c
=============================================================================
