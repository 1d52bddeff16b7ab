\* six numbers and four processes besides idle; strides of three bits
CONSTANTS
  MAX_PID = 6
  MAX_PROCESS = 5
  Proc = {p1, p2, p3}
  idleproc = idleproc
  BigStride = 2
  Priorities = {2}
  MaxGap = 3
  MaxStride = 10
  MaxSleep = 4
  PAGE_SIZE = 10
  SLOB_UNIT = 2
  BIGBLOCK = 3
  HeapPages = 3
  Size = {1, 4, 7, 8, 11}
  SwapPages = 3
  SwapFrames = 2
  Byte = {0, 1}
  Space = {p, q}
  NFrames = 14
  UserPages = 3
  NPTEENTRY = 2
  Image = {{0}}
  Stack = {1, 2}
  Eager = {2}
  NPages = 4
  MaxRequest = 2
  NULL = NULL
SPECIFICATION PartsSpec
INVARIANTS
  Unique
  HeapExact
  RingExact
  SwapReadsBack
  FramesOnce
  PagesExact
PROPERTIES
  Ends
  EvictsLeastUsed
  SpacesImplement
  PagesImplement
  TimersImplement
  StrideImplements
CHECK_DEADLOCK FALSE
