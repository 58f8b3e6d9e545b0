CONSTANTS
  MaxBlocks = 4
  Tools = {"plain", "completion"}
  MistakeLimit = 1
  HasParent = FALSE
SPECIFICATION FairSpec
CHECK_DEADLOCK FALSE
INVARIANT
  OneResultPerMessage
