SPECIFICATION LibsSpec
CONSTANTS
  Proc = {a, b, c}
  idleproc = idle
  HALF = 3
  Priority = {2, 3}
  NoProc = NoProc
  ClassHalf = 3
  ClassPriority = {2, 3}
  Node = {1, 2, 3, 4, 5, 6, 7}
  nil = nil
  treeroot = treeroot
  NodeKey <- K
  Width = 8
  Alphabet = {"%", "-", "0", "3", ".", "d", "x", "s", "e", "q"}
  MaxFormat = 3
  Num <- Numbers
  Str <- Texts
  BufferSize = {0, 1, 3}
  Cells = 4
  Char = {0, 1, 2}
  WORD = 2
  MaxStabs = 8
  MaxAddr = 5
  NFrame = 6
  NPTEENTRY = 2
  NPDEENTRY = 2
  NDir = 2
INVARIANTS RbExact TextExact BacktraceExact TablesExact TlbExact
PROPERTIES MinimumPicked EveryonePicked KeepsPromise
CHECK_DEADLOCK FALSE
