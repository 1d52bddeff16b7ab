SPECIFICATION Spec
CONSTANTS
  Proc = {a, b}
  First = a
  Fd <- MCFd
  Dir = {root, sub}
  Root = root
  File = {f}
  Value = {empty, v}
  Empty = empty
  NONE = NONE
  MaxLeak = 1
INVARIANTS CountsExact ClosedIsClean
PROPERTIES Implements
CHECK_DEADLOCK FALSE
