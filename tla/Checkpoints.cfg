CONSTANTS
  Files = {f}
  MaxTasks = 3
  MaxCommits = 3
  MaxOps = 2
  MaxFailures = 1
SPECIFICATION Spec
CHECK_DEADLOCK FALSE
INVARIANTS
  TypeOK
  FromIsParent
  OneFirst
  DisabledByErrorOnly
PROPERTIES
  RestoreIsExact
