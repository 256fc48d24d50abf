SPECIFICATION FairSpec
CONSTANTS
  MaxScans = 3
  MaxActs = 1
INVARIANTS
  ParsesOwnOutput
PROPERTIES
  ScanReported
CHECK_DEADLOCK FALSE
