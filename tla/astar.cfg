SPECIFICATION FairSpec
CONSTANTS
  PoolX = 7
  PoolY = 5
  Requests <- MCRequests
  Maps <- MCMaps
  MaxRounds = 2
  NoNode = NoNode
CHECK_DEADLOCK FALSE
INVARIANTS
  PathIsReal
  NoPathMeansNone
PROPERTIES
  SearchEnds
  ImplementsBestFirst
