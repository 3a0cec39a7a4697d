SPECIFICATION Spec
CONSTANTS
  MaxForks = 3
  Variants = {"ForkJoin"}
INVARIANT RemainingInterrupted
CHECK_DEADLOCK FALSE
