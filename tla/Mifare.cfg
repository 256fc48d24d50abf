SPECIFICATION Spec
CONSTANTS Cards = {c1, c2} N = 2 MaxJobs = 2 MaxFaults = 1
SYMMETRY Symmetry
INVARIANTS
  ReadIsExact
  WriteIsCopy
  WriteWorks
  KeysOpen
  EraseIsWhole
CHECK_DEADLOCK FALSE
