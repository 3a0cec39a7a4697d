CONSTANTS
  Contexts = {c1}
  Concurrency = 1
  MaxSubmits = 2
  NULL = NULL
SPECIFICATION Spec
INVARIANT
  UsedContextsLive
CHECK_DEADLOCK FALSE
