SPECIFICATION Spec
CONSTANTS
  Proc = {a, b, c}
  idleproc = idle
  NULL = NULL
  HALF = 5
  Priority = {2}
PROPERTIES PicksMinimum
CHECK_DEADLOCK FALSE
