SPECIFICATION FairSpec

CONSTANTS
  Tasks = {t1, t2}
  Events <- TransferEvents
  Tokens <- MCTokens
  TokenOrder <- MCTokenOrder
  GetLogs <- TransferAnswers
  MinBlock = 1
  MaxBlock = 3
  HeadLag = 1
  BatchSize = 2
  CatchUpBatchSize = 1
  CatchUpMaxGap = 5
  CatchUpMaxBlocks = 2
  MaxBlocksPerPoll = 2
  FastGap = 1
  DisableFallback = TRUE
  MaxRpcFailures = 1
  MaxDbFailures = 1
  MaxRestarts = 0
  MaxConnections = 2

PROPERTIES
  PollingReachesHead
  QueueDrains

CHECK_DEADLOCK FALSE
