SPECIFICATION FairSpec
CONSTANTS
  c1 = c1
  c2 = c2
  j1 = j1
  j2 = j2
  j3 = j3
  NoCaller = NoCaller
  NoJob = NoJob
  Caller <- OneCaller
  Handle <- OneJob
  IdSpace = 3
  MaxRunning = 1
  MaxDepth = 1
  Lease = 1
  Retention = 1
  MaxTime = 2
  Ops <- AllOps
  Kinds <- Both
INVARIANTS
  VersionCountsEvents
  StopKeepsLastDepth
  FollowerHasLatest
PROPERTIES
  RetentionHonoured
  ImplementsJobBoard
  ToldJobEnds
  CallsReturn
