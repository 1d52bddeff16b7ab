\* one process, one descriptor
SPECIFICATION Spec
CONSTANTS
  Proc = {a}
  First = a
  Fd <- MCFd
  Dir = {root}
  Root = root
  File = {f}
  Value = {empty, v}
  Empty = empty
  NONE = NONE
  MaxLeak = 0
PROPERTY ReadersKeep
CHECK_DEADLOCK FALSE
