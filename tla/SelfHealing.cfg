SPECIFICATION HealSpec
CONSTANTS
  Sessions = {s1, s2}
  Order <- OneField
  Others = {"other"}
  Semantic <- ItsName
  Structural <- AnotherField
  Retries = 2
  Keep = 1
  RetryLimit = 5
  EscalateAfter = 3
  TooMany = 3
  MaxBatches = 2
  MaxChanges = 1
  MaxRestarts = 1
INVARIANT CountsAreEarned
INVARIANT SubmitFollowsSuccess
CHECK_DEADLOCK FALSE
SYMMETRY Symmetry
