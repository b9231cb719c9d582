------------------------------ MODULE Delivery ------------------------------
(***************************************************************************)
(* The chain manager and the peers that send it blocks: what of the blocks *)
(* handleBlock lets through, and where the node settles.                   *)
(*                                                                         *)
(* handleBlock drops a block whose hash is in the seen set.  It marks any  *)
(* other before ProcessBlock, and takes the mark back when ProcessBlock    *)
(* returns an error, unless the block was kept as a side chain.  An orphan *)
(* is such an error.  The set outlives a reorganisation: a block that      *)
(* reorg untracks keeps its mark.  (The goroutines in between are in Node, *)
(* the eviction from a full set is in SeenSet.)                            *)
(***************************************************************************)
EXTENDS Chain

(* Store errors are Chain's subject. *)
ASSUME DeliveryAssumption == Faults = {}

VARIABLE seen  \* the connection manager's seenBlocks

nodeVars == <<vars, seen>>

InitNode == Init /\ seen = {}

(* Mutant: an orphan keeps its mark. *)
MutDeliver(b) ==
  /\ b \notin seen
  /\ \/ AddOrphan(b) \/ StartExtend(b, "process") \/ StartReorg(b, "process")
     \/ ReorgTooDeep(b, "process") \/ StoreSide(b, "process")
  /\ seen' = seen \cup {b}

(* handleBlock. *)
Deliver(b) ==
  /\ b \notin seen
  /\ \/ AddOrphan(b) /\ UNCHANGED seen
     \/ /\ \/ StartExtend(b, "process") \/ StartReorg(b, "process")
           \/ ReorgTooDeep(b, "process") \/ StoreSide(b, "process")
        /\ seen' = seen \cup {b}

(* submitblock does not look at the set. *)
Submit(b) == ProcessBlock(b) /\ UNCHANGED seen

(* A call of ProcessBlock that ends with the block still in hand returns an *)
(* error: every other ends in processOrphans.                               *)
Fails == caller = "process" /\ cur # NoBlock /\ pc' = "idle"

Work == NodeStep /\ seen' = IF Fails THEN seen \ {cur} ELSE seen

Stop == Crash /\ seen' = {}

NextNode == (\E b \in Blocks : Deliver(b) \/ Submit(b)) \/ Work \/ Stop

(* A call that has started goes on, and peers keep offering every block the *)
(* node does not track: a block that handleBlock would let through again    *)
(* and again comes in the end.                                              *)
DeliverySpec ==
  /\ InitNode /\ [][NextNode]_nodeVars
  /\ WF_nodeVars(Work)
  /\ \A b \in Blocks : SF_nodeVars(Deliver(b))

-----------------------------------------------------------------------------
(* b heads a chain that the node can accept. *)
Acceptable(b) == ValidPath(b) /\ \A h \in 0..Height[b] : Path[b][h] \notin BadHeader

(* No block of b's chain was stored and marked, and then untracked by a     *)
(* reorg: handleBlock would drop it.                                        *)
Takes(b) == \A h \in 0..Height[b] : Path[b][h] \in seen \cap HaveData => Path[b][h] \in known

(* A node that does not crash settles on a chain that no acceptable chain   *)
(* beats, whatever the order of delivery and whatever the orphan pool       *)
(* evicts, but for chains with a block that stays marked as seen after a    *)
(* reorg has untracked it: peers offer that one in vain.                    *)
Converges ==
  [](crashes = 0) =>
    \A b \in Blocks :
      Acceptable(b) /\ <>[](Unlocked => Takes(b)) => <>[](Unlocked => ~Better(b, tipHash))
=============================================================================
