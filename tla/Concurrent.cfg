CONSTANTS
  MaxElements = 2
  MaxYields = 2
SPECIFICATION FairSpec
INVARIANTS
  QuietAtTheEnd
  ValuesDelivered
  FirstRaisedReported
  ReusedFibersLeft
PROPERTIES
  DoneEnds
  RaisedIsReported
CHECK_DEADLOCK FALSE
