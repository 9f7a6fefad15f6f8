SPECIFICATION Spec
CONSTANTS
  Size = 8
  Settings <- AllSettings
  MaxWhite = 1
CHECK_DEADLOCK FALSE
INVARIANTS ForbiddenIsRenju WinsAgree
