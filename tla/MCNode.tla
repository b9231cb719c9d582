------------------------------- MODULE MCNode -------------------------------
(***************************************************************************)
(* Instances of Node for TLC.  A block's coinbase output has the block's   *)
(* name, the output of a transaction the transaction's.                    *)
(***************************************************************************)
EXTENDS Node

CONSTANT HashOrder  \* the blocks in the order of their hashes, a sequence

MCHeight[b \in Blocks] == IF b = Genesis THEN 0 ELSE MCHeight[Parent[b]] + 1

MCPath[b \in Blocks] ==
  [h \in 0..Height[b] |-> IF h = Height[b] THEN b ELSE MCPath[Parent[b]][h]]

MCUtxoAt[b \in Blocks] ==
  IF b = Genesis THEN Creates[b] ELSE (MCUtxoAt[Parent[b]] \ Spends[b]) \cup Creates[b]

MCRank == [b \in Blocks |-> CHOOSE i \in 1..Len(HashOrder) : HashOrder[i] = b]

MCCreates == [b \in Blocks |-> {b} \cup BlockTxs[b]]

MCSpends == [b \in Blocks |-> UNION {TxIns[t] : t \in BlockTxs[b]}]

MCCoins == Blocks \cup Txs

(* a1 and b1 spend g's output in different transactions.  a1 wins the tie   *)
(* with b1; b2, which beats every other block, does not connect: leaving a1 *)
(* for it fails, and leaving a2 is too deep when one block is the limit.    *)
PoolTree == [g |-> "none", a1 |-> "g", a2 |-> "a1", b1 |-> "g", b2 |-> "b1"]
PoolBlocks == DOMAIN PoolTree
PoolOrder == <<"g", "b2", "a1", "b1", "a2">>
PoolTxs == {"x", "y"}
PoolTxIns == [x |-> {"g"}, y |-> {"g"}]
PoolBlockTxs == [g |-> {}, a1 |-> {"x"}, a2 |-> {}, b1 |-> {"y"}, b2 |-> {}]
PoolMature == [c \in MCCoins |-> 0]
=============================================================================
