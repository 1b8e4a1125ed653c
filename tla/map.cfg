SPECIFICATION Spec
CONSTANTS
  map_voxel_num_ <- Size
  Clouds <- SomeClouds
  Cameras <- Sensors
  local_update_range_ <- Range2
  inf_step = 1
  inf_step_2d = 0
  HalfVoxel = 50
  MapTypes = {"PLANNING", "EXPLORATION"}
  Garbage <- Unwritten
  CharSpan = 4
  MaxRounds = 2
  MaxClouds = 2
  MaxSegmentations = 2
INVARIANTS
  LowObstaclesBlock
  PointsLinked
  FreeMeansCrossed
  NeverPast
