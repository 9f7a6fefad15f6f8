SPECIFICATION FairSpec
CONSTANTS
  Page = {p1, p2}
  Slot = {1, 2, 3}
  Free = Free
  HoldFor = 5
  Retry = 1
  Latency = 2
  CheckEvery = 2
  AskFor = 1
  CloseAfter = 5
  StartupChecks = 6
  MaxOpens = 2
  MaxLost = 1
PROPERTIES OpenPageIsServed ServerStops
