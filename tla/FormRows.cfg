CONSTANTS
  Kinds = {"generic", "workday"}
  Resume <- MCResume
  Has <- MCHas
  Sites <- MCSites
  MaxMoves = 3
  MaxLate = 1
  MaxFails = 1
  MaxEdits = 1
SPECIFICATION Spec
INVARIANT RowsAreBounded
INVARIANT RowsAreOfOnePiece
PROPERTY NonDestructive
PROPERTY FillerEnds
CHECK_DEADLOCK FALSE
