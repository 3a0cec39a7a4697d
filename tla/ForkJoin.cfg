SPECIFICATION Spec
CONSTANTS
  MaxForks = 3
  Variants = {"DoAll", "ForkJoin"}
INVARIANTS OutcomeOfAll
PROPERTIES FailurePropagates
CHECK_DEADLOCK FALSE
