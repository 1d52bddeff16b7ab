\* a process may start or come back at any distance
CONSTANTS
  Proc = {p1, p2, p3}
  idleproc = idleproc
  BigStride = 4
  Priorities = {2, 8}
  MaxGap = 20
  MaxStride = 20
SPECIFICATION Spec
PROPERTY
  PicksMinimum
CHECK_DEADLOCK FALSE
