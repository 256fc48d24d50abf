SPECIFICATION FairSimSpec
CONSTANTS
  MaxSims = 2
INVARIANTS
  BusyHasTask
PROPERTIES
  LFComesBack
  LoadingEnds
CHECK_DEADLOCK FALSE
