SPECIFICATION Spec
CONSTANTS
  Durations = {3, 6}
  Ts = 2
  StepLength = 6
  CtrlDist = 5
  TooClose = 10
  Dists = {0, 3, 9, 10, 13}
  OldLengths = {0, 3, 6}
  PolyLengths = {1, 6}
  PolyTimes = {2, 5, 9}
  TooLong = 8
  MaxTooFar = 2
  MaxShrinks = 10
  Timely = FALSE
PROPERTIES
  EmptyRemainderFails
