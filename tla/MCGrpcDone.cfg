SPECIFICATION Spec
CONSTANTS
  c1 = c1
  c2 = c2
  Calls = {c1, c2}
  NumQueues = 2
  Keys <- MCKeys
  Accepts <- MCAccepts
  Invalid = {}
  Scenarios <- MCScenarios
  MaxResponses = 1
INVARIANT DoneFindsContext
CHECK_DEADLOCK FALSE
