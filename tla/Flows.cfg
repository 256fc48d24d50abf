SPECIFICATION FairSpec
CONSTANTS
  MaxScans = 2
  MaxReads = 2
  MaxVisits = 2
INVARIANTS
  WrittenIsRead
  OneJob
  ScreenFits
PROPERTIES
  BusyEnds
CHECK_DEADLOCK FALSE
