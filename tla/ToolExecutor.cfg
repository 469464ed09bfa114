SPECIFICATION ToolSpec
CONSTANTS
  Text <- MCText
  Dropdowns <- MCDropdowns
  Questions <- MCQuestions
  Place <- MCPlace
  Alike <- MCAlike
  TitleScore <- MCTitleScore
  Layouts <- MCLayouts
  MaxActions = 3
  MaxPlans = 1
  MaxTouches = 1
PROPERTY FilledBeforeThePlanIsKept
PROPERTY AnswersItsQuestion
PROPERTY UploadIsThere
CHECK_DEADLOCK FALSE
