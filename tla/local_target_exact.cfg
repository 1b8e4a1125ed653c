SPECIFICATION Spec
CONSTANTS
  Length = 15
  SlowEnds = {1, 3}
  Line <- MCLine
  Goals = {3, 15}
  Home = 0
  Paths <- MCPaths
  ExactDurations = {FALSE, TRUE}
  planning_horizen_ = 21
  replan_thresh_ = 2
  no_replan_thresh_ = 8
  Close = 1
  BrakeDistance = 4
  Lag = 2
  Patience = 1
INVARIANTS
  LastGlobalPoint
