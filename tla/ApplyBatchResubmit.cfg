SPECIFICATION FairSpec
CONSTANTS
  Ids = {1, 2}
  AshbyIds = {}
  RepeatedIds = FALSE
  FilterResume = FALSE
  MaxSelected = 2
  MaxBatches = 1
  MaxUrls = 0
  MaxStops = 1
CHECK_DEADLOCK FALSE
PROPERTY ResumeSkipsApplied
