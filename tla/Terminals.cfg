CONSTANTS
  Tasks = {t1, t2}
  MaxTerminals = 2
  MaxCommands = 3
  MaxLosses = 1
SYMMETRY SameTasks
SPECIFICATION Spec
CHECK_DEADLOCK FALSE
INVARIANTS
  TypeOK
  BusyHasAReason
  EndWillBeHeard
  ExitIsOwn
PROPERTIES
  OutputIsKept
