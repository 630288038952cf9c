SPECIFICATION TableSpec
CONSTANTS
  MAX_PID = 7
  MAX_PROCESS = 6
  Buckets = {{1, 3, 5}, {2, 4, 6}}
INVARIANTS PidsUnique TableExact
PROPERTY PidFound
