SPECIFICATION Spec

CONSTANTS
  Tasks = {t1, t2}
  Events <- AllEvents
  Tokens <- MCTokens
  TokenOrder <- MCTokenOrder
  GetLogs <- AllAnswers
  MinBlock = 1
  MaxBlock = 3
  HeadLag = 0
  BatchSize = 2
  CatchUpBatchSize = 1
  CatchUpMaxGap = 1
  CatchUpMaxBlocks = 2
  MaxBlocksPerPoll = 2
  FastGap = 1
  DisableFallback = FALSE
  MaxRpcFailures = 2
  MaxDbFailures = 2
  MaxRestarts = 2
  MaxConnections = 3

SYMMETRY TaskSymmetry

CONSTRAINT FewFaults

INVARIANTS
  TypeOK
  NoSilentGap
  NoLossBelowResume
  CountedOnce

PROPERTY
  ImplementsLedger

CHECK_DEADLOCK FALSE
