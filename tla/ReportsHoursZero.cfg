SPECIFICATION Spec
CONSTANTS
  Addresses = {"a", "b", "c"}
  Tokens = {"msq", "kwt"}
  AskedAddresses = {"a"}
  AskedTokens = {"msq"}
  None = None
  Limits = {1}
  LastTick = 2
  MaxRequests = 2
  Histories <- SmallHistories
  Endpoints = {"whales"}
INVARIANT HoursAreApplied
