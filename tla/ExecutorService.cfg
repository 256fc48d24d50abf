SPECIFICATION Spec
CONSTANTS
  Threads = {t1, t2}
  Timeouts = {"finite"}
  StopModes = {"wait", "nowait"}
  MaxReworks = 1
  ReworkMax = 1
  MaxCalls = 2
PROPERTIES
  ImplementsService
SYMMETRY Symmetric
VIEW Present
CHECK_DEADLOCK FALSE
