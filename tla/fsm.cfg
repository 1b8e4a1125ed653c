SPECIFICATION FairSpec
CONSTANTS
  PI = 2
  YawMax = 3
  yaw_error_max = 1
  FinalDeadzone = 0
  Goals = {g1, g2}
  NoGoal = NoGoal
  Durations = {2}
  Settle = 2
  IdSpan = 2
  FlightTypes = {"MANUAL_TARGET", "PRESET_TARGET"}
  Slip = FALSE
INVARIANTS
  ServerInStep
  DrivesOnlyWhileExecuting
  GoalTracked
  ForwardOnly
PROPERTIES
  SettledBeforeRelease
  KeepsContract
  ImplementsPort
  PresetRunsOnce
  GoalLeadsToExecution
  AlignmentEnds
