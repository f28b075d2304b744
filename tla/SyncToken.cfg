SPECIFICATION FairSpec

CONSTANTS
  Transfers <- MCTransfers
  Tokens = {"a", "b"}
  TokenOrder <- MCTokenOrder
  Deployment <- MCDeployment
  MaxBlock = 4
  ChunkSize = 3
  MinRange = 1
  PageLimit = 2
  SaveSize = 1
  MaxRuns = 3
  MaxTimeouts = 2

INVARIANTS
  ImportIsWhole
  ResumeLosesOneBlock
  HandOverWithoutGap

PROPERTIES
  RunEnds

CHECK_DEADLOCK FALSE
