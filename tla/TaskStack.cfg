CONSTANTS
  MaxClines = 4
  MaxHurried = 3
  MaxOps = 2
  Modes = {code, ask}
  DefaultMode = code
SPECIFICATION Spec
CHECK_DEADLOCK FALSE
INVARIANTS
  TypeOK
  LiveInStack
  OneRunner
  ResultReachesParent
  WaitIsAnswered
PROPERTIES
  ModeRestored
