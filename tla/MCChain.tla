------------------------------ MODULE MCChain ------------------------------
(***************************************************************************)
(* Chain on the trees of MCTrees.                                          *)
(***************************************************************************)
EXTENDS Chain, MCTrees

(* Every store operation but PutChainTip may fail. *)
FaultsButTip == StoreOps \ {"PutChainTip"}
=============================================================================
