SPECIFICATION FairSpec
CONSTANTS
  Modes <- MCModes
  Landings <- MCLandings
  AskLoops = 2
  Pages = 3
  SubmitTries = 2
  MaxEmpty = 1
  MaxLater = 1
  MaxActs = 1
INVARIANT CompleteUnlessTouched
INVARIANT SubmittedIsBacked
INVARIANT ReturnedIsRecorded
PROPERTY NothingAfterSkip
PROPERTY JobEnds
CHECK_DEADLOCK FALSE
