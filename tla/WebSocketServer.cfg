SPECIFICATION FairSpec

CONSTANTS
  Clients = {c1, c2, c3}
  MaxConnections = 2
  Shutdowns = {m1, m2}

INVARIANTS
  ConnectionLimit
  SilentOwesPong

PROPERTIES
  HungClientsLeave
  StopEnds

CHECK_DEADLOCK FALSE
