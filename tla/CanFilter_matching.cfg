SPECIFICATION FilterSpec
INVARIANT MatchingIsHeard
CHECK_DEADLOCK FALSE
