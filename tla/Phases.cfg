SPECIFICATION Spec
CONSTANTS
  Jobs = {j1, j2, j3}
  Permits = 2
  MinDelay = 1
  MaxRetries = 2
  MaxPages = 2
  HasLLM = TRUE
INVARIANT RateIsBounded
INVARIANT GivesUpLast
PROPERTY EveryJobEnds
CHECK_DEADLOCK FALSE
