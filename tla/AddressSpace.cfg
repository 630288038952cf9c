SPECIFICATION Spec
CONSTANTS
  NFrame = 15
  NPage = 4
  PTPages = 3
  StackPages = 2
  StackReady = 1
  KSTACKPAGE = 2
  PerPage = 7
  NProc = 2
  Program <- MCProgram
  Value = {"bss", "text", "old", "new"}
  Written = {"new"}
  NamePage = {1}
INVARIANTS FramesExact AreasExact
PROPERTY KeepsPromise
CHECK_DEADLOCK FALSE
