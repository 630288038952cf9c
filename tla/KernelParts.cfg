SPECIFICATION PartsSpec
CONSTANTS
  npage = 7
  Usable <- UsableBlocks
  NoPage = NoPage
  SLOB_UNIT = 2
  PAGE_SIZE = 8
  BIGBLOCK = 3
  NHeapPage = 3
  BlockSize = {2, 3, 4, 8, 9}
  Modifiers = {"lshift", "rshift", "rctl", "lalt", "del", "caps"}
  ModifierBytes = 3
  LetterKeys = {"a"}
  LetterBytes = 2
  CONSBUFSIZE = 3
  BUFSIZE = 3
  CRT_COLS = 2
  CRT_ROWS = 3
  Serial = {10, 127}
  MaxArrived = 4
  PAGE_NSECT = 3
  Slot = {0, 1}
  Content = {"x", "y"}
  MaxOps = 3
  SECTSIZE = 3
  MaxOffset = 6
  MaxSize = 4
  MaxDepth = 3
  Vpages = {0, 1, 2}
  memsz = 2
  TPAGES = 2
  NEntry = 2
  Directories = {"k", "u"}
  Tables <- PageTables
  KStack = 0
  Slots = 2
  Handlers = 2
INVARIANTS PagesExact ConsoleExact DevicesExact
PROPERTIES KeepsPromise HeapPromise
CHECK_DEADLOCK FALSE
