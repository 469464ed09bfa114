SPECIFICATION FairSpec
CONSTANTS
  Ids = {1, 2}
  AshbyIds = {2}
  RepeatedIds = FALSE
  FilterResume = FALSE
  MaxSelected = 2
  MaxBatches = 2
  MaxUrls = 1
  MaxStops = 2
CHECK_DEADLOCK FALSE
INVARIANT TypeOK
INVARIANT StoppedJobIsReleased
PROPERTY NoReapplication
PROPERTY ResumeSkipsFinished
PROPERTY NoPendingLeftBehind
PROPERTY SavedJobsAreRun
