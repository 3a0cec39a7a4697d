CONSTANTS
  Fibers = {f1, f2, f3}
  NULL = NULL
  MaxReady = 1
SPECIFICATION CVSpec
INVARIANT
  NoRecursiveAcquireDetected
CHECK_DEADLOCK FALSE
