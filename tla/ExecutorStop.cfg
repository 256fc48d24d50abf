CONSTANTS
  Threads = {t1}
  Timeouts = {"finite", "never"}
  StopModes = {"wait", "nowait"}
  MaxReworks = 2
  ReworkMax = 2
  MaxCalls = 2
SPECIFICATION FairSpec
INVARIANTS
  InterruptedOutputDropped
  ReworksCapped
PROPERTIES
  StopIsComplete
  StopEndsAttempts
  TimedTaskEnds
  StopReturnsEventually
CHECK_DEADLOCK FALSE
