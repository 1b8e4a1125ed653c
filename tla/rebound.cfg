SPECIFICATION FairSpec
CONSTANTS
  order_ = 3
  Cols = 9
  PerSpan = 4
  Rows <- MCRows
  Starts <- MCStarts
  Ends <- MCEnds
  MaxRestarts = 3
  MaxRebounds = 2
  MaxEvaluations = 5
INVARIANTS
  SegmentsAsMeant
  ReboundsHoldCollisions
  NothingStale
  SuccessIsClear
PROPERTIES
  OptimizerReturns
