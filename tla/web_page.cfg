CONSTANTS
  h1 = h1  h2 = h2  p1 = p1  p2 = p2
  NoJob = NoJob  NoResult = NoResult
  Job <- TwoJobs
  Position <- TwoPositions
  StopAttempts = 2
  MaxFaults = 1
SPECIFICATION FairSpec
INVARIANTS ShownIsOfPosition
PROPERTIES NoJobLeft RestartIsSerial StopEnds FollowsPosition ModeSettles
