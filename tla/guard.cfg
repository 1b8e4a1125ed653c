SPECIFICATION FairSpec
CONSTANTS
  Timeout = 3
  Period = 2
  Depth = 2
  stop_on_start_ = TRUE
  arm_after_first_cmd_ = TRUE
  SelfWatch = TRUE
  Punctual = TRUE
INVARIANTS
  SilenceIsStopped
PROPERTIES
  ManualStopHolds
  ManualStopTakesEffect
  StopTakenBack
