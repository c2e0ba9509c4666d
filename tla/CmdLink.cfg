SPECIFICATION FairSpec
CONSTANTS
  N = 2
  Codes = {c1, c2}
  MaxCalls = 2
INVARIANTS CountedStays CopiesAreAnswers PatientCallsAreExact
PROPERTY EveryCallReturns
CHECK_DEADLOCK FALSE
