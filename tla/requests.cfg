SPECIFICATION FairSpec
CONSTANTS
  c1 = c1  c2 = c2  JsonType = JsonType  OtherType = OtherType
  Conn <- Clients
  Workload <- AllWork
  Chunk = 5
  MaxHeader = 8
  MaxBody = 4
  AnalysisSlots = 1
  DispatchReplies <- RequestReplies
  IsAnalysis <- AnalysisRequest
  PositionOf <- RequestPosition
  LimitsOf <- RequestLimits
  MaxDepth = 2
  MaxItems = 5
  MaxValues = 14
  MaxString = 4
  MaxNumber = 5
  MaxOutput = 200
  MaxUnsigned = 65535
  MaxExponent = 3
  BoardSize = 2
  WinLength = 2
  MaxInt = 32767
INVARIANTS ReplyIsToRequest SlotsAreHeld BodiesAreUnderstood
PROPERTIES LeavingEndsAnalysis
