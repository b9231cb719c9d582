----------------------------- MODULE BlockTree -----------------------------
(***************************************************************************)
(* The blocks a fairchain node may ever be handed, as a fixed tree.        *)
(*                                                                         *)
(* A block is a value of the set Blocks; what the chain manager reads of   *)
(* it is given by functions on that set: the parent its header names, the  *)
(* position of its hash in the byte order of hashes, the coins its         *)
(* transactions spend and create, and the outcomes of the checks that      *)
(* depend on the block and its ancestors only.  Everything the code        *)
(* computes by walking PrevBlock links (height, cumulative work, ancestor  *)
(* at a height, the UTXO set after replaying a chain from genesis) is a    *)
(* function constrained by its recurrence along Parent.                    *)
(***************************************************************************)
EXTENDS Integers

CONSTANTS
  Blocks,      \* every block that exists
  Genesis,     \* params.GenesisBlock
  NoBlock,     \* stands for the absence of a block
  Coins,       \* transaction outputs (outpoints)
  Parent,      \* Parent[b]: the block b.Header.PrevBlock names
  Height,      \* Height[b]: distance from genesis
  ChainWork,   \* ChainWork[b]: work of b and all its ancestors
  Rank,        \* Rank[b]: position of b's hash in the order of bytes.Compare
  Path,        \* Path[b][h]: the ancestor of b at height h, b included
  Creates,     \* Creates[b]: outputs of b's transactions
  Spends,      \* Spends[b]: outputs consumed by b's transactions
  UtxoAt,      \* UtxoAt[b]: the outputs unspent after replaying Path[b]
  BadHeader,   \* blocks that fail ValidateHeader/-Timestamp/ValidateBlock
  BadTx        \* blocks with a transaction no UTXO set makes valid

(* Shape of the tree. *)
ASSUME TreeAssumption ==
  /\ Genesis \in Blocks
  /\ NoBlock \notin Blocks
  /\ Parent \in [Blocks -> Blocks \cup {NoBlock}]
  /\ Parent[Genesis] = NoBlock
  /\ \A b \in Blocks \ {Genesis} : Parent[b] \in Blocks
  /\ BadHeader \subseteq Blocks
  /\ BadTx \subseteq Blocks

(* Heights start at 0 and grow by one along Parent. *)
ASSUME HeightAssumption ==
  /\ Height \in [Blocks -> Nat]
  /\ Height[Genesis] = 0
  /\ \A b \in Blocks \ {Genesis} : Height[b] = Height[Parent[b]] + 1

(* The ancestors of a block, indexed by height: what a walk along PrevBlock *)
(* from b to genesis meets.                                                  *)
ASSUME PathAssumption ==
  \A b \in Blocks :
    /\ Path[b] \in [0..Height[b] -> Blocks]
    /\ Path[b][Height[b]] = b
    /\ \A h \in 1..Height[b] : /\ Path[b][h] # Genesis
                               /\ Parent[Path[b][h]] = Path[b][h - 1]
    /\ \A h \in 0..Height[b] :
         /\ Height[Path[b][h]] = h
         /\ \A g \in 0..h : Path[Path[b][h]][g] = Path[b][g]

(* Every block adds work (CalcWork is positive for every valid target), so  *)
(* a block has more work than its ancestors.  Two blocks never have the     *)
(* same hash.                                                               *)
ASSUME WorkAssumption ==
  /\ ChainWork \in [Blocks -> Nat]
  /\ \A b \in Blocks : \A h \in 0..Height[b] - 1 : ChainWork[Path[b][h]] < ChainWork[b]
  /\ Rank \in [Blocks -> Nat]
  /\ \A a, b \in Blocks : Rank[a] = Rank[b] => a = b

(* The outcome of replaying a chain block by block, as rebuildUtxoSet does. *)
ASSUME UtxoAssumption ==
  /\ Creates \in [Blocks -> SUBSET Coins]
  /\ Spends \in [Blocks -> SUBSET Coins]
  /\ UtxoAt \in [Blocks -> SUBSET Coins]
  /\ UtxoAt[Genesis] = Creates[Genesis]
  /\ \A b \in Blocks \ {Genesis} :
       UtxoAt[b] = (UtxoAt[Parent[b]] \ Spends[b]) \cup Creates[b]

(***************************************************************************)
(* Block b passes ValidateTransactionInputs on top of its own parent:      *)
(* everything it spends is unspent there, and no rule that looks at the    *)
(* transactions alone (scripts, values, maturity, subsidy) fails.          *)
(***************************************************************************)
Connects(b) == b \notin BadTx /\ Spends[b] \subseteq UtxoAt[Parent[b]]

(***************************************************************************)
(* Transaction identifiers are fresh along a chain: a coinbase commits to  *)
(* its height (validateCoinbaseScriptSig), and any other transaction       *)
(* commits to inputs that are gone once it is connected.                   *)
(***************************************************************************)
ASSUME FreshAssumption ==
  \A b \in Blocks \ {Genesis} :
    Connects(b) => Creates[b] \cap (UtxoAt[Parent[b]] \cup Spends[b]) = {}

(* Every block of the chain that ends in b connects to the one before it. *)
ValidPath(b) == \A h \in 1..Height[b] : Connects(Path[b][h])

(***************************************************************************)
(* The chain ending in a is preferred to the one ending in b: more work,   *)
(* or the same work and the lower hash.                                    *)
(***************************************************************************)
Better(a, b) ==
  \/ ChainWork[a] > ChainWork[b]
  \/ ChainWork[a] = ChainWork[b] /\ Rank[a] < Rank[b]
=============================================================================
