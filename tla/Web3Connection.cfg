SPECIFICATION Web3FairSpec

CONSTANTS
  Primary = primary
  Backup = backup
  NoEndpoint = none
  MaxReconnectAttempts = 3
  Slots = {s1, s2, s3}
  MaxChanges = 3

INVARIANTS
  StatusIsTrue

PROPERTIES
  ReconnectEnds
  Settles

CHECK_DEADLOCK FALSE
