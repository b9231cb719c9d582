SPECIFICATION DeliverySpec
CONSTANTS
  Blocks <- TripleBlocks
  Genesis = "g"
  NoBlock = "none"
  Coins <- TripleBlocks
  Parent <- TripleTree
  Height <- MCHeight
  ChainWork <- MCWork
  Rank <- MCRank
  Path <- MCPath
  Creates <- MCCreates
  Spends <- TripleSpends
  UtxoAt <- MCUtxoAt
  HashOrder <- TripleOrder
  BadHeader = {"c2"}
  BadTx = {}
  HeavyBlocks = {}
  MaxOrphanBlocks = 2
  MaxReorgDepth = 0
  MayExpire = {}
  MayBeEarly = {}
  Faults = {}
  MaxCrashes = 1
INVARIANTS UtxoMatchesTip UndoAvailable ChainstateAtBest
PROPERTIES LockReleased Converges
CHECK_DEADLOCK FALSE
