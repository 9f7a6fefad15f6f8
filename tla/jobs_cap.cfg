SPECIFICATION Spec
CONSTANTS
  c1 = c1
  c2 = c2
  j1 = j1
  j2 = j2
  j3 = j3
  NoCaller = NoCaller
  NoJob = NoJob
  Caller <- TwoCallers
  Handle <- ThreeJobs
  IdSpace = 4
  MaxRunning = 2
  MaxDepth = 0
  Lease = 1
  Retention = 0
  MaxTime = 0
  Ops <- OnlyStart
  Kinds <- Finite
SYMMETRY Symmetry3
INVARIANTS
  AtMostMaxExecuting
  ThreadOwnedOnce
  JoinsOnlyCompleted
