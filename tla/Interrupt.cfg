CONSTANTS
  Handlers = {h1, h2, h3}
  Threads = {t1, t2}
  PIPELINE = PIPELINE
  PLACEHOLDER = PLACEHOLDER
  NULL = NULL
SPECIFICATION FairSpec
INVARIANTS
  InvokedOnce
  TriggerNotLost
PROPERTY
  InstalledUninstallReturns
CHECK_DEADLOCK FALSE
