SPECIFICATION FairSpec
CONSTANTS
  N = 4
  Fork = 1
  Own = 2
  Batch = 2
  Dense = 0
  QueueCap = 4
  RateLimitMaxMsgs = 2
  BanThreshold = 1
  MaxOrphanBlocks = 1
  MaxBreaks = 1
INVARIANTS HandshakeInStep
PROPERTIES CatchesUp
CHECK_DEADLOCK FALSE
