SPECIFICATION Spec
CONSTANTS
  MaxStabs = 6
  MaxAddr = 3
INVARIANTS LineIsRight
CHECK_DEADLOCK FALSE
