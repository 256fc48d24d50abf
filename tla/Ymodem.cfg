SPECIFICATION LineSpec
CONSTANTS MaxBlocks = 3 Retry = 3 MaxLineFaults = 3
INVARIANTS
  ExactCopy
  NoSkip
PROPERTIES
  SendReturns
CHECK_DEADLOCK FALSE
