\* two processes, liveness: no symmetry
CONSTANTS
  Proc = {p1, p2}
  idleproc = idleproc
  initproc = initproc
  NULL = NULL
  MaxProcess = 4
  MaxTimeSlice = 1
  MaxSleep = 1
SPECIFICATION FairSpec
PROPERTIES
  OrphansReaped
  SleepersReturn
  InterruptedExit
