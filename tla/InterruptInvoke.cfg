CONSTANTS
  Handlers = {h1, h2}
  Threads = {t1, t2}
  PIPELINE = PIPELINE
  PLACEHOLDER = PLACEHOLDER
  NULL = NULL
SPECIFICATION Spec
INVARIANT
  InvokeMovesOnce
CHECK_DEADLOCK FALSE
