CONSTANTS
  MaxClines = 3
  MaxHurried = 3
  MaxOps = 2
  Modes = {code, ask}
  DefaultMode = code
SPECIFICATION Spec
CHECK_DEADLOCK FALSE
INVARIANT
  RemovedTasksExit
