CONSTANTS
  Cell <- Cells
  Line <- Rows
  LineLength = 4
  Start <- Starts
  MaxDepth = 4
  MatePlies = 7
  Budget <- Budgets
  MaxPly = 5
  TableLimit = 15
  Mate = 1000
  Threshold = 900
SPECIFICATION Spec
INVARIANTS ScoreIsMinimax TableIsSound ProofsHold MateScoresHold LineIsPlayable
