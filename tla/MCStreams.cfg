CONSTANTS
  Values = {0, 1, 2, 3}
  Pipelines <- AllPipelines
  MaxInt = 7
  MaxSize = 7
  MaxItems = 2
  Repeats = 6
SPECIFICATION StreamsSpec
INVARIANTS
  NoStreamLeftOpen
  Denotes
PROPERTIES
  AskedThenAnswered
  Terminates
CHECK_DEADLOCK FALSE
