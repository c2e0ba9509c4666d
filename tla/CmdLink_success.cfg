SPECIFICATION Spec
CONSTANTS
  N = 1
  Codes = {c1}
  MaxCalls = 2
INVARIANT SuccessMeansExecuted
CHECK_DEADLOCK FALSE
