CONSTANTS
  MaxActs = 3
  MaxKeys = 2
  Kinds = {"page", "scan", "dialog", "host", "pc"}
SPECIFICATION Spec
VIEW Present
INVARIANT TopIsCurrent
CHECK_DEADLOCK FALSE
