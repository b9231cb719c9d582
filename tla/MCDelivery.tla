----------------------------- MODULE MCDelivery -----------------------------
(***************************************************************************)
(* Delivery on the trees of MCTrees.                                       *)
(***************************************************************************)
EXTENDS Delivery, MCTrees
=============================================================================
