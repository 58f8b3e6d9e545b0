CONSTANTS
  Tools = {read, write, run}
  Automatic = {read, write}
  Delayed = {write}
  Output = output
  None = none
  MaxMessages = 4
  MaxTimers = 1
  MaxFlight = 2
SPECIFICATION ViewSpec
CHECK_DEADLOCK FALSE
INVARIANTS
  ViewTypeOK
  QuestionCanBeAnswered
  UserAnswersWhatHeSees
PROPERTIES
  KeepsProtocol
