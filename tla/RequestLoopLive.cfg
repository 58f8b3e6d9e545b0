CONSTANTS
  MaxBlocks = 4
  Tools = {"plain", "insert", "completion"}
  MistakeLimit = 1
  HasParent = TRUE
SPECIFICATION FairSpec
CHECK_DEADLOCK FALSE
PROPERTIES
  TurnEnds
