------------------------------- MODULE MCStore -------------------------------
(***************************************************************************)
(* An instance of Store for TLC: a legacy chain of two blocks, the genesis *)
(* block without undo data, and a block c on genesis that only the node    *)
(* has.  Files hold one or two blocks.                                     *)
(***************************************************************************)
EXTENDS Store

MCBlocks == {"g", "a", "c"}
MCLegacy == <<"g", "a">>
MCParent == [a |-> "g", c |-> "g"]
MCSize == [g |-> 1, a |-> 2, c |-> 1]
MCUndoSize == [g |-> 0, a |-> 1, c |-> 1]
MCWork == [g |-> 1, a |-> 2, c |-> 1]
=============================================================================
