\* three processes beside idle and init, exhausted by MaxProcess = 5
CONSTANTS
  Proc = {p1, p2, p3}
  idleproc = idleproc
  initproc = initproc
  NULL = NULL
  MaxProcess = 5
  MaxTimeSlice = 1
  MaxSleep = 2
SPECIFICATION Spec
SYMMETRY ProcSymmetry
INVARIANTS
  RunQueueExact
  WaitStateExact
  NoLostChildWakeup
  TimerOwned
  FamilyTree
  NoAssertFails
