SPECIFICATION ClientFairSpec

CONSTANTS
  Sockets = {s1, s2, s3, s4}
  NoSocket = none
  MaxClientAttempts = 3
  MaxCalls = 5
  MaxFailures = 3

INVARIANTS
  OneLiveSocket
  NeverForgotten
  ShownState

PROPERTIES
  Reconnects

CHECK_DEADLOCK FALSE
