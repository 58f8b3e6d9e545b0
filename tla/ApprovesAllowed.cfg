CONSTANTS
  Tools = {write, run}
  Automatic = {write}
  Delayed = {write}
  Output = output
  None = none
  MaxMessages = 2
  MaxTimers = 2
  MaxFlight = 2
SPECIFICATION ViewSpec
CHECK_DEADLOCK FALSE
INVARIANT AutoApprovesOnlyAllowed
