SPECIFICATION FairSpec
CONSTANTS
  N = 3
  Fork = 0
  Own = 2
  Batch = 2
  Dense = 0
  QueueCap = 4
  RateLimitMaxMsgs = 9
  BanThreshold = 1
  MaxOrphanBlocks = 1
  MaxBreaks = 0
PROPERTIES CatchesUp
CHECK_DEADLOCK FALSE
