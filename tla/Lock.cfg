CONSTANTS
  Fibers = {f1, f2, f3}
  NULL = NULL
SPECIFICATION FairSpec
INVARIANTS
  MutualExclusion
  OwnerIsHolder
  ChecksHold
PROPERTIES
  ImplementsFifoLock
  QueuedAcquires
