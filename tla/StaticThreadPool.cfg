CONSTANTS
  Contexts = {c1, c2}
  Concurrency = 2
  MaxSubmits = 2
  NULL = NULL
SPECIFICATION FairSpec
INVARIANTS
  ResumedInOrder
  QueuedContextsLive
PROPERTIES
  SubmittedRuns
  ShutdownReturns
CHECK_DEADLOCK FALSE
