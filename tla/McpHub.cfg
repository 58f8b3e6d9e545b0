CONSTANTS
  Servers = {a, b}
  Configs = {c1, c2}
  Absent = absent
  Invalid = invalid
  MaxConnections = 3
  MaxOps = 2
SYMMETRY SameServers
SPECIFICATION Spec
CHECK_DEADLOCK FALSE
INVARIANTS
  TypeOK
  NoProcessLeaks
  OneConnection
  ConnectedIsAlive
  DisconnectedIsDead
  ConnectingIsShown
  FollowsSettings
