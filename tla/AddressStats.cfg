SPECIFICATION Spec

CONSTANTS
  Addresses = {"a", "b"}
  Transfers <- MCTransfers
  Readers = {r1}
  None = none
  Threshold = 3
  FullVelocity = 2
  BotTransactions = 3
  WhalePercentile = 50
  Today = 3
  DormantDays = 2
  MaxListed = 1
  MaxBatch = 2
  MaxSaves = 4
  MaxOutages = 1

INVARIANTS
  RowsMatchTransfers
  CacheWasCommitted
  CacheLagsOneBatch
  RankingIsSound

CHECK_DEADLOCK FALSE
