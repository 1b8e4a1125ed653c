SPECIFICATION FairSpec
CONSTANTS
  Durations = {1, 2}
  Settle = 1
  Depth = 2
  Timeout = 1
  Period = 1
  PlannerRate = 1
  stop_on_start_ = FALSE
  arm_after_first_cmd_ = TRUE
  SelfWatch = TRUE
  Drive = 2
  Spin = 2
  max_abs_linear_x_ = 1
  max_abs_angular_z_ = 1
INVARIANTS
  OneTrajectory
  NoStaleDrive
  ManualStopInForce
PROPERTIES
  StopReleased
