------------------------------ MODULE MCTrees ------------------------------
(***************************************************************************)
(* Block trees on which TLC checks Chain and Delivery.  A tree is a        *)
(* function from block names to parent names; a block creates one coin,    *)
(* which has its name.                                                     *)
(***************************************************************************)
EXTENDS BlockTree, Sequences

CONSTANTS
  HashOrder,  \* the blocks in the order of their hashes, a sequence
  HeavyBlocks \* blocks with twice the work of the others

(* What walking a tree computes. *)
MCHeight[b \in Blocks] == IF b = Genesis THEN 0 ELSE MCHeight[Parent[b]] + 1

MCWork[b \in Blocks] ==
  (IF b = Genesis THEN 0 ELSE MCWork[Parent[b]]) + (IF b \in HeavyBlocks THEN 2 ELSE 1)

MCPath[b \in Blocks] ==
  [h \in 0..Height[b] |-> IF h = Height[b] THEN b ELSE MCPath[Parent[b]][h]]

MCUtxoAt[b \in Blocks] ==
  IF b = Genesis THEN Creates[b] ELSE (MCUtxoAt[Parent[b]] \ Spends[b]) \cup Creates[b]

MCRank == [b \in Blocks |-> CHOOSE i \in 1..Len(HashOrder) : HashOrder[i] = b]

MCCreates == [b \in Blocks |-> {b}]

(* Two branches, a1-a2 and b1-b2-b3.  The b's have the lower hashes, so b1  *)
(* wins a tie with a1 and b2 one with a2.  Both branches spend g's coin.    *)
ForkTree == [g |-> "none", a1 |-> "g", a2 |-> "a1", b1 |-> "g", b2 |-> "b1", b3 |-> "b2"]
ForkBlocks == DOMAIN ForkTree
ForkOrder == <<"g", "b1", "b2", "b3", "a1", "a2">>
ForkSpends == [g |-> {}, a1 |-> {"g"}, a2 |-> {"a1"}, b1 |-> {"g"}, b2 |-> {"b1"}, b3 |-> {}]

(* Two branches of equal length, and c2, a second child of b1. *)
TripleTree == [g |-> "none", a1 |-> "g", a2 |-> "a1", a3 |-> "a2", b1 |-> "g", b2 |-> "b1",
               b3 |-> "b2", c2 |-> "b1"]
TripleBlocks == DOMAIN TripleTree
TripleOrder == <<"g", "b3", "b2", "b1", "c2", "a1", "a2", "a3">>
TripleSpends == [g |-> {}, a1 |-> {"g"}, a2 |-> {"a1"}, a3 |-> {}, b1 |-> {"g"},
                 b2 |-> {"b1"}, b3 |-> {}, c2 |-> {"b1"}]

(* Three branches at two forks.  d3 spends a coin that only a2 creates, so  *)
(* it does not connect on its own branch; b2 is heavy in the runs.          *)
WideTree == [g |-> "none", a1 |-> "g", a2 |-> "a1", a3 |-> "a2", b1 |-> "g", b2 |-> "b1",
             c2 |-> "a1", d3 |-> "c2", d4 |-> "d3"]
WideBlocks == DOMAIN WideTree
WideOrder == <<"g", "d4", "d3", "b2", "b1", "a2", "c2", "a1", "a3">>
WideSpends == [g |-> {}, a1 |-> {"g"}, a2 |-> {"a1"}, a3 |-> {}, b1 |-> {"g"}, b2 |-> {"b1"},
               c2 |-> {"a1"}, d3 |-> {"a2"}, d4 |-> {}]
=============================================================================
