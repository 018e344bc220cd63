SPECIFICATION Spec
CONSTANTS
  Scenarios <- MCLetIn
  Batch = 1
  Cap = 2
INVARIANT LetInForGood
CHECK_DEADLOCK FALSE
