CONSTANTS
  NoOne = NoOne  main = main  other = other  k1 = k1  k2 = k2
  Controller <- OneController
  Conn <- TwoConns
  MaxConnections = 1
  MaxStarts = 2
  HandlerStops = TRUE
SPECIFICATION FairSpec
INVARIANTS StartedServes SlotsAreConnections
PROPERTIES QuietAfterStop LoopsEnd HandlerReturns
