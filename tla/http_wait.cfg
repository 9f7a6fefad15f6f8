CONSTANTS
  NoOne = NoOne  main = main  other = other  k1 = k1  k2 = k2
  Controller <- TwoControllers
  Conn <- OneConn
  MaxConnections = 1
  MaxStarts = 1
  HandlerStops = FALSE
SPECIFICATION FairSpec
PROPERTY WaitEnds
