SPECIFICATION Spec
CONSTANTS
  Blocks <- ForkBlocks
  Genesis = "g"
  NoBlock = "none"
  Coins <- ForkBlocks
  Parent <- ForkTree
  Height <- MCHeight
  ChainWork <- MCWork
  Rank <- MCRank
  Path <- MCPath
  Creates <- MCCreates
  Spends <- ForkSpends
  UtxoAt <- MCUtxoAt
  HashOrder <- ForkOrder
  BadHeader = {}
  BadTx = {"b3"}
  HeavyBlocks = {}
  MaxOrphanBlocks = 2
  MaxReorgDepth = 1
  MayExpire = {"a2"}
  MayBeEarly = {}
  Faults <- StoreOps
  MaxCrashes = 1
INVARIANTS DiskWalkable
CHECK_DEADLOCK FALSE
