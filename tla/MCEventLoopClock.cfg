SPECIFICATION Spec
CONSTANTS
  o1 = o1
  o2 = o2
  Ops = {o1, o2}
  Kinds <- MCKinds
  Duration <- MCDuration
  Milli = 2
  MaxAdvance = 1
  Interruptible = {o1}
  Racing = TRUE
INVARIANT PendingWhilePaused
CHECK_DEADLOCK FALSE
