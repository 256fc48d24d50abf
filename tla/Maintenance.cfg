SPECIFICATION Spec
CONSTANTS MaxCuts = 2 MaxFaults = 2
INVARIANTS
  StagedWhole
PROPERTIES
  InstallEnds
  WizardReturns
CHECK_DEADLOCK FALSE
