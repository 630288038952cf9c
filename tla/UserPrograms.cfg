SPECIFICATION UserSpec
CONSTANTS
  MAX_PROCESS = 8
  Yields = 1
  max_child = 2
  DEPTH = 1
PROPERTIES
  ProgramsPass
  ProgramsEnd
CHECK_DEADLOCK FALSE
