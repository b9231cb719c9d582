SPECIFICATION Spec
CONSTANTS
  Blocks <- ForkBlocks
  Genesis = "g"
  NoBlock = "none"
  Coins <- ForkBlocks
  Parent <- ForkTree
  Height <- MCHeight
  ChainWork <- MCWork
  Rank <- MCRank
  Path <- MCPath
  Creates <- MCCreates
  Spends <- ForkSpends
  UtxoAt <- MCUtxoAt
  HashOrder <- ForkOrder
  BadHeader = {}
  BadTx = {}
  HeavyBlocks = {}
  MaxOrphanBlocks = 2
  MaxReorgDepth = 0
  MayExpire = {}
  MayBeEarly = {}
  Faults = {}
  MaxCrashes = 2
INVARIANTS UtxoMatchesTip
CHECK_DEADLOCK FALSE
