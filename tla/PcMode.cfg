SPECIFICATION Spec
CONSTANTS MaxSessions = 2 MaxFaults = 2
INVARIANTS
  OneSideWrites
  RunningMeansBridged
PROPERTIES
  RescueComesBack
  KeysComeBack
CHECK_DEADLOCK FALSE
