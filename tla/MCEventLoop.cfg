SPECIFICATION Spec
CONSTANTS
  o1 = o1
  o2 = o2
  Ops = {o1, o2}
  Kinds <- MCKinds
  Duration <- MCDuration
  Milli = 2
  MaxAdvance = 1
  Interruptible = {o1}
  Racing = FALSE
INVARIANTS ContinuedOnce CallbackChecksHold NotEarly
CHECK_DEADLOCK FALSE
PROPERTIES InterruptedEnds TimerEnds
