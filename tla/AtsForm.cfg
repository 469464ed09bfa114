CONSTANTS
  Resume <- MCResume
  Fallbacks <- MCFallbacks
  Handlers <- Supported
  Sites <- MCSites
  Starts <- MCStarts
  MaxMoves = 5
  MaxLate = 1
  MaxEdits = 1
  MaxOverlays = 1
SPECIFICATION Spec
 
INVARIANT NoSecondApplication
PROPERTY EeoIsLeftToTheUser
INVARIANT AnswersRepeatOnlyWhenSpent
CHECK_DEADLOCK FALSE
