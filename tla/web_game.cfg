CONSTANTS
  Width = 3
  WinLength = 2
  Renju = TRUE
  Initial = 1
  Increment = 1
  MaxChecks = 2
SPECIFICATION FairSpec
INVARIANTS ClocksAreKept MovesAreChosen
PROPERTIES EngineMoves
