SPECIFICATION Spec
CONSTANTS
  Blocks <- WideBlocks
  Genesis = "g"
  NoBlock = "none"
  Coins <- WideBlocks
  Parent <- WideTree
  Height <- MCHeight
  ChainWork <- MCWork
  Rank <- MCRank
  Path <- MCPath
  Creates <- MCCreates
  Spends <- WideSpends
  UtxoAt <- MCUtxoAt
  HashOrder <- WideOrder
  BadHeader = {}
  BadTx = {}
  HeavyBlocks = {"b2"}
  MaxOrphanBlocks = 2
  MaxReorgDepth = 2
  MayExpire = {"a2"}
  MayBeEarly = {"a3"}
  Faults <- FaultsButTip
  MaxCrashes = 0
INVARIANTS TypeOK UtxoMatchesTip ActiveChainLinked BestKnown
PROPERTIES ImplementsActiveChain
CHECK_DEADLOCK FALSE
