SPECIFICATION Spec
CONSTANTS
  c1 = c1
  c2 = c2
  Calls = {c1, c2}
  NumQueues = 1
  Keys <- MCKeys
  Accepts <- MCAcceptsTwo
  Invalid = {}
  Scenarios <- MCScenarios
  MaxResponses = 1
CHECK_DEADLOCK FALSE
INVARIANT EndedServeIsDone
