CONSTANTS
  Values = {0, 1, 2, 3}
  Pipelines <- SmallPipelines
  MaxInt = 7
  MaxSize = 7
  MaxItems = 2
  Repeats = 6
SPECIFICATION StreamsSpec
INVARIANTS
  TakeLastHandlesFewer

CHECK_DEADLOCK FALSE
