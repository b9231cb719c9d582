SPECIFICATION Spec
CONSTANTS
  Blocks <- PoolBlocks
  Genesis = "g"
  NoBlock = "none"
  Coins <- MCCoins
  Parent <- PoolTree
  Height <- MCHeight
  ChainWork <- MCHeight
  Rank <- MCRank
  Path <- MCPath
  Creates <- MCCreates
  Spends <- MCSpends
  UtxoAt <- MCUtxoAt
  HashOrder <- PoolOrder
  BadHeader = {}
  BadTx = {"b2"}
  Txs <- PoolTxs
  TxIns <- PoolTxIns
  BadTxs = {}
  MatureAt <- PoolMature
  MaxMempoolSize = 2
  BlockTxs <- PoolBlockTxs
  Handlers = {"h1"}
  Submitted = {"b1"}
  LocalTxs = {"y"}
  MaxReorgDepth = 1
  MaxStarts = 1
INVARIANTS SpentIndexExact SeenIsStored ConfirmedStayOut
