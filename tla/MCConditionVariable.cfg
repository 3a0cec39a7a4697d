CONSTANTS
  Fibers = {f1, f2, f3}
  NULL = NULL
  MaxReady = 2
SPECIFICATION CVSpec
SYMMETRY FiberSymmetry
INVARIANTS
  CVOwnsLock
  NoLostWakeup
CHECK_DEADLOCK FALSE
