SPECIFICATION HomeworkSpec
CONSTANTS
  Customer = {p1, p2}
  Clerk = {c1, c2, c3}
  Nobody = Nobody
  MaxProducts = 4
  Process = {p1, p2, p3}
  Resource = {1, 2}
  RESOURCE <- Total
  numInodes = 5
  numData = 3
  maxUsed = 32
  Name = {a, b}
  Letter = {x}
  NoData = NoData
  NumProcs = 3
  MaxCode = 2
  NumJobs = 3
  MaxLen = 4
  Quantum = {0, 2, 3}
  MemorySize = 8
  NALLOC = 5
  Limit = 16
  Lengths = {2, 3, 6}
  Page = {1, 2, 3, 4}
  window = 3
  MaxHistory = 7
  Worker = {t1, t2, t3}
  idleproc = idleproc
  Turns = 2
  MAX_PROCESS = 4
INVARIANTS EnoughAwake Verdict TreeExact TakesTurns StatsExact MemoryExact ThreadsExact
PROPERTIES StepsExact Ends
CHECK_DEADLOCK FALSE
