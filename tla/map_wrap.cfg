SPECIFICATION Spec
CONSTANTS
  map_voxel_num_ <- RowSize
  Clouds <- RowClouds
  Cameras <- RowSensors
  local_update_range_ <- Range2
  inf_step = 1
  inf_step_2d = 0
  HalfVoxel = 50
  MapTypes = {"EXPLORATION"}
  Garbage <- RowUnwritten
  CharSpan = 256
  MaxRounds = 256
  MaxClouds = 1
  MaxSegmentations = 0
INVARIANTS
  StampsOnlySpeedUp
