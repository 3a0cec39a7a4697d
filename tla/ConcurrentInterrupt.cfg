CONSTANTS
  MaxElements = 2
  MaxYields = 1
SPECIFICATION Spec
INVARIANT
  BodyFindsCallback
CHECK_DEADLOCK FALSE
