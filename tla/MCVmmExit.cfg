\* one process, tables of two entries
CONSTANTS
  Proc = {p}
  NFrames = 14
  NPages = 3
  Byte = {0, 1}
  NPTEENTRY = 2
  Image = {{0}}
  Stack = {1, 2}
  Eager = {2}
SPECIFICATION Spec
INVARIANT Reclaimed
CHECK_DEADLOCK FALSE
