----------------------------- MODULE NodeProofs -----------------------------
(***************************************************************************)
(* Proofs about Node and the Mempool in it, for every tree of blocks,      *)
(* every set of transactions, any number of peers and any reorganisation   *)
(* limit.                                                                  *)
(***************************************************************************)
EXTENDS NodeChainProofs

-----------------------------------------------------------------------------
(* The inductive invariant of the marks.  A goroutine that is to relay a    *)
(* block has a stored one, so has the one whose call of ProcessBlock holds  *)
(* the lock, and a mark is of a stored block or of one that a peer's        *)
(* goroutine is busy with: neither the miner nor submitblock marks a block  *)
(* that is not stored.                                                      *)

Places == {"idle", "process", "unsee", "remove", "height", "relay", "header", "txs", "mine"}

InHands == {blk[t] : t \in {u \in Handlers : pc[u] # "idle"}}

SeenInv ==
  /\ pc \in [Threads -> Places] /\ blk \in [Threads -> Blocks \cup {NoBlock}]
  /\ lock # "free" => lock \in Threads /\ pc[lock] = "process" /\ blk[lock] \in stored
  /\ \A t \in Threads : pc[t] \in {"remove", "height", "relay"} => blk[t] \in stored
  /\ seenBlocks \subseteq stored \cup InHands

(* Goroutine t goes on, and leaves its block where it returns. *)
LEMMA GotoFacts ==
  ASSUME SeenInv, NEW t \in Threads, NEW where \in Places, Goto(t, where)
  PROVE  /\ pc' \in [Threads -> Places] /\ blk' \in [Threads -> Blocks \cup {NoBlock}]
         /\ pc'[t] = where /\ (where # "idle" => blk' = blk)
         /\ \A u \in Threads \ {t} : pc'[u] = pc[u] /\ blk'[u] = blk[u]
BY DEF SeenInv, Goto

(* A step of t with the marks it had, or fewer: what it drops is stored or  *)
(* its mark is gone.                                                        *)
LEMMA GotoInv ==
  ASSUME SeenInv, NEW t \in Threads, NEW where \in Places, Goto(t, where),
         stored \subseteq stored', seenBlocks' \subseteq seenBlocks,
         lock' = lock \/ lock' = "free", lock' # t,
         where \in {"remove", "height", "relay"} => blk[t] \in stored,
         where = "idle" /\ t \in Handlers => blk[t] \in stored \/ blk[t] \notin seenBlocks'
  PROVE  SeenInv'
<1>1. /\ pc' \in [Threads -> Places] /\ blk' \in [Threads -> Blocks \cup {NoBlock}]
      /\ pc'[t] = where /\ (where # "idle" => blk' = blk)
      /\ \A u \in Threads \ {t} : pc'[u] = pc[u] /\ blk'[u] = blk[u]
  BY GotoFacts
<1>2. lock' # "free" => lock' \in Threads /\ pc'[lock'] = "process" /\ blk'[lock'] \in stored'
  BY <1>1 DEF SeenInv
<1>3. \A u \in Threads : pc'[u] \in {"remove", "height", "relay"} => blk'[u] \in stored'
  BY <1>1 DEF SeenInv
<1>4. ASSUME NEW b \in seenBlocks' PROVE b \in stored' \cup InHands'
  <2>1. CASE b \in stored
    BY <2>1
  <2>2. CASE b \notin stored
    <3>1. PICK u \in Handlers : pc[u] # "idle" /\ b = blk[u]
      BY <2>2 DEF SeenInv, InHands
    <3>2. u = t => where # "idle"
      BY <1>4, <2>2, <3>1
    <3>3. u \in Threads /\ blk'[u] = b /\ pc'[u] # "idle"
      BY <1>1, <3>1, <3>2 DEF Threads
    <3> QED BY <3>1, <3>3 DEF InHands
  <2> QED BY <2>1, <2>2
<1> QED BY <1>1, <1>2, <1>3, <1>4 DEF SeenInv

(* Where a goroutine goes on after ProcessBlock returned. *)
LEMMA AfterType ==
  ASSUME NEW t, NEW result
  PROVE  /\ After(t, result) \in Places
         /\ After(t, result) \notin {"height", "relay"}
         /\ After(t, result) = "remove" => result = "accepted"
         /\ After(t, result) = "idle" => t \notin Handlers \/ result # "failed"
BY DEF After, Places

(* The chain changes, the goroutines and the marks do not. *)
LEMMA QuietInv ==
  ASSUME SeenInv, stored \subseteq stored', UNCHANGED <<pc, blk, lock, seenBlocks>>
  PROVE  SeenInv'
BY DEF SeenInv, InHands

(* Where t is not inside ProcessBlock it does not hold the lock. *)
LEMMA NotLocked ==
  ASSUME SeenInv, NEW t \in Threads
  PROVE  t # "free" /\ (pc[t] # "process" => lock # t)
BY NodeAssumption DEF SeenInv, Threads

(* ProcessBlock refuses the block: the goroutine goes on to forget it. *)
LEMMA ProcessFailsInv ==
  ASSUME SeenInv, NEW t \in Threads, ProcessFails(t)
  PROVE  SeenInv'
<1>1. /\ Goto(t, After(t, "failed")) /\ stored' = stored /\ seenBlocks' = seenBlocks
      /\ lock' = lock /\ lock = "free"
  BY DEF ProcessFails, call, seen
<1>2. /\ After(t, "failed") \in Places \ {"remove", "height", "relay"}
      /\ After(t, "failed") = "idle" => t \notin Handlers
  BY AfterType
<1> QED BY <1>1, <1>2, NotLocked, GotoInv

(* ProcessBlock stores the block and takes the lock. *)
LEMMA ProcessStartsInv ==
  ASSUME SeenInv, NEW t \in Threads, ProcessStarts(t)
  PROVE  SeenInv'
<1>1. /\ pc[t] = "process" /\ lock' = t /\ stored' = stored \cup {blk[t]}
      /\ UNCHANGED <<pc, blk, seenBlocks>>
  BY DEF ProcessStarts, ExtendTip, StoreSide, StartReorg, thread, seen
<1> QED BY <1>1 DEF SeenInv, InHands

(* A step inside ProcessBlock, the return included. *)
LEMMA ChainStepInv ==
  ASSUME SeenInv, NEW t \in Threads, lock = t, ChainStep
  PROVE  SeenInv'
<1>1. pc[t] = "process" /\ blk[t] \in stored /\ t # "free"
  BY NotLocked DEF SeenInv
<1>2. CASE ReorgStep
  BY <1>2, QuietInv DEF ReorgStep, thread, seen
<1>3. CASE ReorgDone \/ NextParent
  BY <1>3, QuietInv DEF ReorgDone, NextParent, thread, seen
<1>4. CASE TakeOrphan
  <2>1. stored \subseteq stored'
    BY <1>4 DEF TakeOrphan, ExtendTip, StoreSide, StartReorg
  <2> QED BY <1>4, <2>1, QuietInv DEF TakeOrphan, thread, seen
<1>5. CASE ReorgFails
  <2>1. stored' = stored /\ seenBlocks' = seenBlocks
    BY <1>5 DEF ReorgFails, seen
  <2>2. CASE reorg.orphan
    BY <1>5, <2>1, <2>2, QuietInv DEF ReorgFails, thread
  <2>3. CASE ~reorg.orphan
    <3>1. lock' = "free" /\ Goto(t, After(t, "failed"))
      BY <1>5, <2>3 DEF ReorgFails
    <3>2. After(t, "failed") \in Places \ {"remove", "height", "relay"}
      BY AfterType
    <3> QED BY <1>1, <2>1, <3>1, <3>2, GotoInv
  <2> QED BY <2>2, <2>3
<1>6. CASE ProcessReturns
  <2>1. /\ lock' = "free" /\ Goto(t, After(t, outcome)) /\ stored' = stored
        /\ seenBlocks' = seenBlocks
    BY <1>6 DEF ProcessReturns, chain, seen
  <2>2. After(t, outcome) \in Places
    BY AfterType
  <2> QED BY <1>1, <2>1, <2>2, GotoInv
<1> QED BY <1>2, <1>3, <1>4, <1>5, <1>6 DEF ChainStep

(* Every step of a goroutine keeps the invariant of the seen blocks. *)
LEMMA ThreadInv ==
  ASSUME SeenInv, NEW t \in Threads, ThreadStep(t)
  PROVE  SeenInv'
<1> USE NotLocked
<1>1. CASE Forget(t)
  <2>1. /\ pc[t] = "unsee" /\ Goto(t, "idle") /\ seenBlocks' = seenBlocks \ {blk[t]}
        /\ stored' = stored /\ lock' = lock
    BY <1>1 DEF Forget, chain, call
  <2> QED BY <2>1, GotoInv DEF Places
<1>2. CASE RemoveConfirmed(t)
  <2>1. /\ pc[t] = "remove" /\ Goto(t, "height") /\ seenBlocks' = seenBlocks
        /\ stored' = stored /\ lock' = lock
    BY <1>2 DEF RemoveConfirmed, chain, call, seen
  <2>2. blk[t] \in stored
    BY <2>1 DEF SeenInv
  <2> QED BY <2>1, <2>2, GotoInv DEF Places
<1>3. CASE UpdateHeight(t)
  <2>1. /\ pc[t] = "height" /\ Goto(t, "relay") /\ seenBlocks' = seenBlocks
        /\ stored' = stored /\ lock' = lock
    BY <1>3 DEF UpdateHeight, chain, call, seen
  <2>2. blk[t] \in stored
    BY <2>1 DEF SeenInv
  <2> QED BY <2>1, <2>2, GotoInv DEF Places
<1>4. CASE Relay(t)
  <2>1. /\ pc[t] = "relay" /\ Goto(t, "idle") /\ seenBlocks' = seenBlocks \cup {blk[t]}
        /\ stored' = stored /\ lock' = lock
    BY <1>4 DEF Relay, chain, call
  <2>2. blk[t] \in stored /\ lock # t
    BY <2>1 DEF SeenInv
  <2>3. /\ pc' \in [Threads -> Places] /\ blk' \in [Threads -> Blocks \cup {NoBlock}]
        /\ pc'[t] = "idle" /\ \A u \in Threads \ {t} : pc'[u] = pc[u] /\ blk'[u] = blk[u]
    BY <2>1, GotoFacts DEF Places
  <2>4. ASSUME NEW b \in seenBlocks' PROVE b \in stored \cup InHands'
    <3>1. b \in stored \/ \E u \in Handlers : u # t /\ pc[u] # "idle" /\ b = blk[u]
      BY <2>1, <2>2 DEF SeenInv, InHands
    <3> QED BY <2>3, <3>1 DEF InHands, Threads
  <2> QED BY <2>1, <2>2, <2>3, <2>4 DEF SeenInv
<1> QED BY <1>1, <1>2, <1>3, <1>4, ProcessFailsInv, ProcessStartsInv, ChainStepInv DEF ThreadStep

(* The invariant of the seen blocks is inductive. *)
LEMMA SeenStep ==
  ASSUME SeenInv, [Next]_vars
  PROVE  SeenInv'
<1>1. CASE \E t \in Threads : ThreadStep(t)
  BY <1>1, ThreadInv
<1>2. CASE MinerStep
  <2>1. /\ UNCHANGED <<stored, lock, seenBlocks>> /\ pc["miner"] # "process"
        /\ \E to \in {"header", "txs", "mine", "process", "idle"} : pc' = [pc EXCEPT !["miner"] = to]
        /\ blk' = blk \/ \E b \in Blocks : blk' = [blk EXCEPT !["miner"] = b]
    BY <1>2 DEF MinerStep, ReadTip, ReadTipHeader, ReadTemplate, MineOther, Seal, Miner, chain, call,
       seen
  <2>2. "miner" \in Threads \ Handlers
    BY NodeAssumption DEF Threads
  <2>3. lock # "miner"
    BY <2>1, <2>2, NotLocked
  <2>4. pc' \in [Threads -> Places] /\ blk' \in [Threads -> Blocks \cup {NoBlock}]
    BY <2>1, Zenon DEF SeenInv, Places
  <2>5. \A u \in Threads \ {"miner"} : pc'[u] = pc[u] /\ blk'[u] = blk[u]
    BY <2>1 DEF SeenInv
  <2>6. pc'["miner"] \notin {"remove", "height", "relay"}
    BY <2>1, <2>2 DEF SeenInv
  <2>7. InHands' = InHands
    BY <2>2, <2>5 DEF InHands, Threads
  <2> QED BY <2>1, <2>3, <2>4, <2>5, <2>6, <2>7 DEF SeenInv
<1>3. CASE \E b \in Blocks \ {Genesis}, t \in Handlers : ReceiveBlock(t, b)
  <2>1. PICK b \in Blocks \ {Genesis}, t \in Handlers : ReceiveBlock(t, b)
    BY <1>3
  <2>2. /\ t \in Threads /\ pc[t] = "idle" /\ seenBlocks' = seenBlocks \cup {b} /\ stored' = stored
        /\ lock' = lock /\ pc' = [pc EXCEPT ![t] = "process"] /\ blk' = [blk EXCEPT ![t] = b]
    BY <2>1 DEF ReceiveBlock, Begin, Threads, chain, call
  <2>3. pc' \in [Threads -> Places] /\ blk' \in [Threads -> Blocks \cup {NoBlock}]
    BY <2>2 DEF SeenInv, Places
  <2>4. /\ pc'[t] = "process" /\ blk'[t] = b
        /\ \A u \in Threads \ {t} : pc'[u] = pc[u] /\ blk'[u] = blk[u]
    BY <2>2 DEF SeenInv
  <2>5. ASSUME NEW c \in seenBlocks' PROVE c \in stored \cup InHands'
    <3>1. c = b \/ c \in stored \/ \E u \in Handlers : u # t /\ pc[u] # "idle" /\ c = blk[u]
      BY <2>2 DEF SeenInv, InHands
    <3> QED BY <2>4, <3>1 DEF InHands, Threads
  <2> QED BY <2>2, <2>3, <2>4, <2>5, NotLocked DEF SeenInv
<1>4. CASE \E b \in Submitted : SubmitBlock(b)
  <2>1. PICK b \in Submitted : SubmitBlock(b)
    BY <1>4
  <2>2. "rpc" \in Threads \ Handlers /\ b \in Blocks
    BY NodeAssumption DEF Threads
  <2>3. /\ pc["rpc"] = "idle" /\ seenBlocks' = seenBlocks /\ stored' = stored /\ lock' = lock
        /\ pc' = [pc EXCEPT !["rpc"] = "process"] /\ blk' = [blk EXCEPT !["rpc"] = b]
    BY <2>1 DEF SubmitBlock, Begin, chain, call, seen
  <2>4. pc' \in [Threads -> Places] /\ blk' \in [Threads -> Blocks \cup {NoBlock}]
    BY <2>2, <2>3 DEF SeenInv, Places
  <2>5. /\ pc'["rpc"] = "process"
        /\ \A u \in Threads \ {"rpc"} : pc'[u] = pc[u] /\ blk'[u] = blk[u]
    BY <2>2, <2>3 DEF SeenInv
  <2>6. InHands' = InHands
    BY <2>2, <2>5 DEF InHands, Threads
  <2> QED BY <2>2, <2>3, <2>4, <2>5, <2>6, NotLocked DEF SeenInv
<1>5. CASE (\E t \in Txs \ LocalTxs : ReceiveTx(t)) \/ \E t \in LocalTxs : SubmitTx(t)
  BY <1>5, QuietInv DEF ReceiveTx, SubmitTx, chain, call, thread
<1>6. CASE Restart
  BY <1>6 DEF Restart, call, SeenInv, Places
<1>7. CASE UNCHANGED vars
  BY <1>7, QuietInv DEF vars, chain, call, thread, seen
<1> QED BY <1>1, <1>2, <1>3, <1>4, <1>5, <1>6, <1>7 DEF Next, Environment

(* A marked block is stored or in the hands of a goroutine: SeenIsStored    *)
(* holds in every state, for any number of peers.  handleBlock marks before *)
(* ProcessBlock and removes the mark on every error, and BroadcastBlock     *)
(* marks accepted blocks only.                                              *)
THEOREM SeenAlwaysStored == Spec => []SeenIsStored
<1>1. Init => SeenInv
  BY DEF Init, SeenInv, Places
<1>2. SeenInv => SeenIsStored
  BY DEF SeenInv, SeenIsStored, InHands, Threads
<1> QED BY <1>1, <1>2, SeenStep, PTL DEF Spec

-----------------------------------------------------------------------------
(* The steps together. *)

ConfirmedInv == SeenInv /\ BusyInv /\ TipInv /\ ClearedInv

Busy == {"process", "unsee", "remove", "height", "relay"}

(* Goroutine t goes on with the block it has. *)
LEMMA BusyGoto ==
  ASSUME SeenInv, BusyInv, NEW t \in Threads, pc[t] \in Busy, NEW where \in Places, Goto(t, where),
         orphans' \cup batch' \subseteq Blocks \ {Genesis}
  PROVE  BusyInv'
<1>1. /\ pc'[t] = where /\ (where # "idle" => blk' = blk)
      /\ \A u \in Threads \ {t} : pc'[u] = pc[u] /\ blk'[u] = blk[u]
  BY GotoFacts
<1> QED BY <1>1 DEF BusyInv, Busy

(* While no call holds the lock there is no reorganisation. *)
LEMMA FreeAtRest ==
  ASSUME TipInv, lock = "free"
  PROVE  reorg.block = NoBlock
BY DEF TipInv, Reorganising, Reorgs

(* processOrphans takes one of the orphans of the batch. *)
LEMMA FirstOfBatch ==
  ASSUME BusyInv, batch # {}
  PROVE  (CHOOSE x \in batch : \A y \in batch : Rank[x] <= Rank[y]) \in batch
<1> DEFINE T == {Rank[x] : x \in batch}
<1>1. T \subseteq Nat /\ T # {}
  BY WorkAssumption DEF BusyInv
<1> HIDE DEF T
<1>2. PICK n \in T : \A m \in T : n <= m
  BY <1>1, LeastElement, Zenon
<1>3. \E x \in batch : \A y \in batch : Rank[x] <= Rank[y]
  BY <1>2 DEF T
<1> QED BY <1>3

(* ProcessBlock begins. *)
LEMMA StartsConfirmed ==
  ASSUME ConfirmedInv, NEW t \in Threads, ProcessStarts(t)
  PROVE  BusyInv' /\ TipInv' /\ ClearedInv'
<1> DEFINE b == blk[t]
<1>1. /\ pc[t] = "process" /\ lock = "free" /\ lock' = t /\ t # "free"
      /\ UNCHANGED <<txs, orphans, batch, pc, blk, cleared>>
  BY NodeAssumption DEF ProcessStarts, Threads, pool, thread
<1>2. b \in Blocks \ {Genesis} /\ reorg.block = NoBlock
  BY <1>1, FreeAtRest DEF ConfirmedInv, BusyInv
<1>3. BusyInv'
  BY <1>1 DEF ConfirmedInv, BusyInv
<1>4. \/ ExtendTip(b) /\ reorg' = reorg
      \/ StoreSide(b) /\ reorg' = reorg
      \/ StartReorg(b, FALSE)
  BY Zenon DEF ProcessStarts
<1> HIDE DEF b
<1>5. CASE ExtendTip(b) /\ reorg' = reorg
  BY <1>1, <1>2, <1>3, <1>5, ExtendTipInv, ClearedExtend DEF ConfirmedInv
<1>6. CASE StoreSide(b) /\ reorg' = reorg
  <2>1. UNCHANGED <<tip, utxo>> /\ (view'.live => view.live)
    BY <1>6 DEF StoreSide, AbandonSet
  <2> QED BY <1>1, <1>2, <1>3, <1>6, <2>1, TipQuiet, ClearedQuiet DEF ConfirmedInv
<1>7. CASE StartReorg(b, FALSE)
  <2>1. UNCHANGED <<tip, view>>
    BY <1>7 DEF StartReorg
  <2> QED BY <1>1, <1>2, <1>3, <1>7, <2>1, StartReorgInv, ClearedStart, Zenon DEF ConfirmedInv
<1> QED BY <1>4, <1>5, <1>6, <1>7, Zenon

(* processOrphans tries an orphan. *)
LEMMA OrphanConfirmed ==
  ASSUME ConfirmedInv, TakeOrphan
  PROVE  BusyInv' /\ TipInv' /\ ClearedInv'
<1> DEFINE o == CHOOSE x \in batch : \A y \in batch : Rank[x] <= Rank[y]
<1>1. /\ lock # "free" /\ reorg.block = NoBlock /\ batch # {} /\ batch' = batch \ {o} /\ lock' = lock
      /\ UNCHANGED <<txs, orphans, pc, blk, cleared>>
  BY DEF TakeOrphan, InOrphans, pool, thread
<1>2. o \in Blocks \ {Genesis}
  BY <1>1, FirstOfBatch, Zenon DEF ConfirmedInv, BusyInv
<1>3. BusyInv'
  BY <1>1 DEF ConfirmedInv, BusyInv
<1>4. \/ ExtendTip(o) /\ reorg' = reorg
      \/ StoreSide(o) /\ reorg' = reorg
      \/ StartReorg(o, TRUE)
      \/ UNCHANGED <<tip, utxo, view, reorg>>
  BY Zenon DEF TakeOrphan
<1> HIDE DEF o
<1>5. CASE ExtendTip(o) /\ reorg' = reorg
  BY <1>1, <1>2, <1>3, <1>5, ExtendTipInv, ClearedExtend DEF ConfirmedInv
<1>6. CASE StoreSide(o) /\ reorg' = reorg
  <2>1. UNCHANGED <<tip, utxo>> /\ (view'.live => view.live)
    BY <1>6 DEF StoreSide, AbandonSet
  <2> QED BY <1>1, <1>3, <1>6, <2>1, TipQuiet, ClearedQuiet DEF ConfirmedInv
<1>7. CASE StartReorg(o, TRUE)
  <2>1. UNCHANGED <<tip, view>>
    BY <1>7 DEF StartReorg
  <2> QED BY <1>1, <1>2, <1>3, <1>7, <2>1, StartReorgInv, ClearedStart, Zenon DEF ConfirmedInv
<1>8. CASE UNCHANGED <<tip, utxo, view, reorg>>
  BY <1>1, <1>3, <1>8, TipQuiet, ClearedQuiet DEF ConfirmedInv
<1> QED BY <1>4, <1>5, <1>6, <1>7, <1>8, Zenon

(* A step of the call that holds the lock. *)
LEMMA ChainConfirmed ==
  ASSUME ConfirmedInv, NEW t \in Threads, lock = t, ChainStep
  PROVE  BusyInv' /\ TipInv' /\ ClearedInv'
<1>1. pc[t] = "process" /\ t # "free" /\ pc[t] \in Busy
      /\ orphans \cup batch \subseteq Blocks \ {Genesis}
  BY NodeAssumption DEF ConfirmedInv, SeenInv, BusyInv, Threads, Busy
<1>2. CASE ReorgStep
  <2>1. /\ UNCHANGED <<tip, txs, view, cleared, pc, blk, orphans, batch>>
        /\ reorg' = [reorg EXCEPT !.steps = Tail(@)]
    BY <1>2 DEF ReorgStep, pool, thread
  <2>2. reorg'.block = reorg.block
    BY <2>1 DEF ConfirmedInv, TipInv, Reorgs
  <2>3. BusyInv'
    BY <2>1 DEF ConfirmedInv, BusyInv
  <2> QED BY <1>2, <2>1, <2>2, <2>3, ReorgStepInv, ClearedQuiet DEF ConfirmedInv
<1>3. CASE ReorgDone
  <2>1. UNCHANGED <<pc, blk, orphans>> /\ batch' = {}
    BY <1>3 DEF ReorgDone, thread
  <2>2. BusyInv'
    BY <2>1 DEF ConfirmedInv, BusyInv
  <2> QED BY <1>3, <2>2, ReorgDoneInv, ClearedDone DEF ConfirmedInv
<1>4. CASE ReorgFails
  <2>1. TipInv' /\ ClearedInv'
    BY <1>4, ReorgFailsInv, ClearedFails DEF ConfirmedInv
  <2>2. UNCHANGED <<orphans, batch>> /\ (UNCHANGED <<pc, blk>> \/ Goto(t, After(t, "failed")))
    BY <1>4 DEF ReorgFails, thread
  <2>3. BusyInv'
    BY <1>1, <2>2, AfterType, BusyGoto DEF ConfirmedInv, BusyInv
  <2> QED BY <2>1, <2>3
<1>5. CASE NextParent
  <2>1. /\ UNCHANGED <<tip, utxo, reorg, lock, txs, view, cleared, pc, blk>>
        /\ orphans' \cup batch' \subseteq Blocks \ {Genesis}
    BY <1>1, <1>5 DEF NextParent, pool, thread
  <2>2. BusyInv'
    BY <2>1 DEF ConfirmedInv, BusyInv
  <2> QED BY <2>1, <2>2, TipQuiet, ClearedQuiet DEF ConfirmedInv
<1>6. CASE ProcessReturns
  <2>1. /\ UNCHANGED <<tip, utxo, reorg, txs, view, cleared, orphans, batch>>
        /\ reorg.block = NoBlock /\ Goto(t, After(t, outcome))
    BY <1>6 DEF ProcessReturns, InOrphans, pool, chain
  <2>2. BusyInv'
    BY <1>1, <2>1, AfterType, BusyGoto DEF ConfirmedInv
  <2> QED BY <2>1, <2>2, TipQuiet, ClearedQuiet DEF ConfirmedInv
<1> QED BY <1>2, <1>3, <1>4, <1>5, <1>6, OrphanConfirmed DEF ChainStep

(* A step of a goroutine. *)
LEMMA ThreadConfirmed ==
  ASSUME ConfirmedInv, NEW t \in Threads, ThreadStep(t)
  PROVE  BusyInv' /\ TipInv' /\ ClearedInv'
<1>1. orphans \cup batch \subseteq Blocks \ {Genesis}
  BY DEF ConfirmedInv, BusyInv
<1>2. CASE ProcessFails(t)
  <2>1. /\ UNCHANGED <<tip, utxo, reorg, lock, txs, view, cleared, batch>> /\ pc[t] = "process"
        /\ Goto(t, After(t, "failed")) /\ orphans' \subseteq orphans \cup {blk[t]}
    BY <1>2 DEF ProcessFails, pool, call
  <2>2. orphans' \cup batch' \subseteq Blocks \ {Genesis} /\ pc[t] \in Busy
    BY <1>1, <2>1, Zenon DEF ConfirmedInv, BusyInv, Busy
  <2>3. BusyInv'
    BY <2>1, <2>2, AfterType, BusyGoto DEF ConfirmedInv
  <2> QED BY <2>1, <2>3, TipQuiet, ClearedQuiet DEF ConfirmedInv
<1>3. CASE Forget(t) \/ UpdateHeight(t) \/ Relay(t)
  <2>1. /\ UNCHANGED <<tip, utxo, reorg, lock, txs, view, cleared, orphans, batch>> /\ pc[t] \in Busy
        /\ Goto(t, "idle") \/ Goto(t, "relay")
    BY <1>3 DEF Forget, UpdateHeight, SetTipHeight, Relay, pool, chain, call, Busy
  <2>2. BusyInv'
    BY <1>1, <2>1, BusyGoto DEF ConfirmedInv, Places
  <2> QED BY <2>1, <2>2, TipQuiet, ClearedQuiet DEF ConfirmedInv
<1>4. CASE RemoveConfirmed(t)
  <2>1. /\ UNCHANGED <<tip, utxo, reorg, lock, orphans, batch>> /\ pc[t] \in Busy /\ Goto(t, "height")
    BY <1>4 DEF RemoveConfirmed, chain, call, Busy
  <2>2. BusyInv'
    BY <1>1, <2>1, BusyGoto DEF ConfirmedInv, Places
  <2> QED BY <1>4, <2>1, <2>2, TipQuiet, ClearedRemove DEF ConfirmedInv
<1> QED BY <1>2, <1>3, <1>4, StartsConfirmed, ChainConfirmed DEF ThreadStep

(* Outside reorganisations. *)
LEMMA NoReorgFacts ==
  NoReorg \in Reorgs /\ NoReorg.block = NoBlock /\ NoReorg.steps = << >>
BY DEF NoReorg, Reorgs

(* A start that comes up with the UTXO set of a valid chain: what the chain *)
(* has confirmed cannot be spent, so LoadFromBytes does not take it.        *)
LEMMA RestartConfirmed ==
  ASSUME SeenInv, Restart, sound'
  PROVE  ConfirmedInv'
<1>1. /\ tip' = BootTip /\ utxo' = BootSet /\ reorg' = NoReorg /\ orphans' = {} /\ batch' = {}
      /\ pc' = [u \in Threads |-> "idle"] /\ cleared' = {b \in Blocks \ {Genesis} : OnActiveChain(b)'}
      /\ Load(dump', BootSet, Height[BootTip])
  BY Zenon DEF Restart, Reload
<1>2. PICK x \in Blocks : ValidPath(x) /\ BootTip = x /\ BootSet = UtxoAt[x]
  BY Zenon DEF Restart
<1>3. reorg' \in Reorgs /\ reorg'.block = NoBlock /\ reorg'.steps = << >>
  BY <1>1, NoReorgFacts, Zenon
<1>4. TipInv'
  BY <1>1, <1>2, <1>3, TreeAssumption, Zenon DEF TipInv
<1>5. BusyInv'
  BY <1>1 DEF BusyInv
<1>6. ASSUME NEW b \in cleared', NEW t \in BlockTxs[b] PROVE t \notin txs'
  <2>1. b \in Blocks \ {Genesis} /\ Height[b] <= Height[x] /\ Path[x][Height[b]] = b
    BY <1>1, <1>2 DEF OnActiveChain
  <2>2. Height[b] \in 1..Height[x]
    BY <2>1, PathOfChild, HeightAssumption
  <2>3. ~(TxIns[t] \subseteq UtxoAt[x])
    BY <1>2, <2>1, <2>2, ConfirmedNotSpendable
  <2> QED BY <1>1, <1>2, <2>3 DEF Load, ValidateSingleTransaction
<1>7. ClearedInv'
  BY <1>1, <1>6 DEF ClearedInv
<1> QED BY <1>4, <1>5, <1>7, SeenStep DEF ConfirmedInv, Next, Environment

(* Every other step keeps the invariant. *)
LEMMA ConfirmedStep ==
  ASSUME ConfirmedInv, [Next]_vars, ~Restart
  PROVE  ConfirmedInv'
<1>1. SeenInv'
  BY SeenStep DEF ConfirmedInv
<1>2. CASE \E t \in Threads : ThreadStep(t)
  BY <1>1, <1>2, ThreadConfirmed DEF ConfirmedInv
<1>3. CASE MinerStep
  <2>1. /\ UNCHANGED <<tip, utxo, reorg, lock, txs, view, cleared, orphans, batch>>
        /\ \/ blk' = blk /\ \E to \in {"header", "txs", "mine", "idle"} : pc' = [pc EXCEPT !["miner"] = to]
           \/ \E b \in Blocks \ {Genesis} : blk' = [blk EXCEPT !["miner"] = b]
                                           /\ pc' = [pc EXCEPT !["miner"] = "process"]
    BY <1>3 DEF MinerStep, ReadTip, ReadTipHeader, ReadTemplate, MineOther, Seal, Miner, pool, chain,
       call
  <2>2. BusyInv'
    BY <2>1 DEF ConfirmedInv, SeenInv, BusyInv
  <2> QED BY <1>1, <2>1, <2>2, TipQuiet, ClearedQuiet DEF ConfirmedInv
<1>4. CASE \/ \E b \in Blocks \ {Genesis}, t \in Handlers : ReceiveBlock(t, b)
           \/ \E b \in Submitted : SubmitBlock(b)
  <2>1. PICK b \in Blocks \ {Genesis}, t \in Threads : Begin(t, b)
    BY <1>4, NodeAssumption DEF ReceiveBlock, SubmitBlock, Threads
  <2>2. UNCHANGED <<tip, utxo, reorg, lock, txs, view, cleared, orphans, batch>>
    BY <1>4 DEF ReceiveBlock, SubmitBlock, pool, chain, call
  <2>3. BusyInv'
    BY <2>1, <2>2 DEF Begin, ConfirmedInv, SeenInv, BusyInv
  <2> QED BY <1>1, <2>2, <2>3, TipQuiet, ClearedQuiet DEF ConfirmedInv
<1>5. CASE \/ \E t \in Txs \ LocalTxs : ReceiveTx(t)
           \/ \E t \in LocalTxs : SubmitTx(t)
  <2>1. PICK t : AddTx(t, View) \/ UNCHANGED pool
    BY <1>5 DEF ReceiveTx, SubmitTx
  <2>2. UNCHANGED <<tip, utxo, reorg, lock, view, cleared, orphans, batch, pc, blk>>
    BY <1>5 DEF ReceiveTx, SubmitTx, chain, call, thread
  <2>3. BusyInv'
    BY <2>2 DEF ConfirmedInv, BusyInv
  <2> QED BY <1>1, <2>1, <2>2, <2>3, TipQuiet, ClearedQuiet, ClearedAddTx DEF ConfirmedInv, pool
<1>6. CASE UNCHANGED vars
  <2>1. UNCHANGED <<tip, utxo, reorg, lock, txs, view, cleared, orphans, batch, pc, blk>>
    BY <1>6 DEF vars, pool, chain, call, thread
  <2>2. BusyInv'
    BY <2>1 DEF ConfirmedInv, BusyInv
  <2> QED BY <1>1, <2>1, <2>2, TipQuiet, ClearedQuiet DEF ConfirmedInv
<1> QED BY <1>1, <1>2, <1>3, <1>4, <1>5, <1>6 DEF Next, Environment

(* Only a start tells whether the chain is sound. *)
LEMMA SoundStep ==
  ASSUME [Next]_vars, ~Restart
  PROVE  sound' = sound
<1>1. ASSUME NEW t \in Threads, ThreadStep(t) PROVE sound' = sound
  BY <1>1, Zenon DEF ThreadStep, ProcessFails, ProcessStarts, ChainStep, ReorgStep, ReorgDone, ReorgFails,
     NextParent, TakeOrphan, ProcessReturns, Forget, UpdateHeight, Relay, RemoveConfirmed, proc
<1>2. ASSUME MinerStep PROVE sound' = sound
  BY <1>2 DEF MinerStep, ReadTip, ReadTipHeader, ReadTemplate, MineOther, Seal, Miner, proc
<1>3. ASSUME Environment PROVE sound' = sound
  BY <1>3 DEF Environment, ReceiveBlock, SubmitBlock, ReceiveTx, SubmitTx, proc
<1> QED BY <1>1, <1>2, <1>3 DEF Next, vars, proc

(* Once RemoveTxs has taken out the transactions of a block, or the process *)
(* has started with the block on its chain, they stay out for as long as    *)
(* the block is on the active chain, the last start came up with the UTXO   *)
(* set of its tip and the mempool reads the chain's own set: mempool.dat    *)
(* does not bring them back, nor whoever offers them again, also where      *)
(* AddTx reads the set in the middle of a reorganisation: ConfirmedStayOut. *)
THEOREM ConfirmedAlwaysStayOut == Spec => []ConfirmedStayOut
<1> DEFINE SoundInv == SeenInv /\ (sound => ConfirmedInv)
<1>1. Init => SoundInv
  <2> SUFFICES ASSUME Init PROVE SeenInv /\ ConfirmedInv
    OBVIOUS
  <2>1. SeenInv /\ BusyInv /\ ClearedInv
    BY DEF Init, SeenInv, Places, BusyInv, ClearedInv
  <2>2. ValidPath(Genesis) /\ Genesis \in Blocks
    BY HeightAssumption, TreeAssumption DEF ValidPath
  <2>3. reorg \in Reorgs /\ reorg.block = NoBlock /\ reorg.steps = << >>
    BY NoReorgFacts DEF Init
  <2>4. TipInv
    BY <2>2, <2>3, TreeAssumption DEF Init, TipInv
  <2> QED BY <2>1, <2>4 DEF ConfirmedInv
<1>2. SoundInv => ConfirmedStayOut
  BY TreeAssumption, Zenon DEF ConfirmedInv, ClearedInv, Kept, ConfirmedStayOut
<1>3. SoundInv /\ [Next]_vars => SoundInv'
  <2> SUFFICES ASSUME SoundInv, [Next]_vars PROVE SoundInv'
    OBVIOUS
  <2>1. SeenInv'
    BY SeenStep
  <2>2. CASE Restart
    BY <2>1, <2>2, RestartConfirmed
  <2>3. CASE ~Restart
    BY <2>1, <2>3, ConfirmedStep, SoundStep
  <2> QED BY <2>2, <2>3
<1> QED BY <1>1, <1>2, <1>3, PTL DEF Spec

-----------------------------------------------------------------------------
(* The inductive invariant of the pool: its transactions and those of       *)
(* mempool.dat exist, and the index is exact.                               *)
PoolInv == txs \subseteq Txs /\ dump \subseteq Txs /\ SpentIndexExact

-----------------------------------------------------------------------------
(* The operations of the pool. *)

(* AddTx notices a conflict by the index alone, which is enough since the   *)
(* index is exact.                                                          *)
LEMMA AddTxInv ==
  ASSUME txs \subseteq Txs, SpentIndexExact, NEW t \in Txs, NEW set, AddTx(t, set)
  PROVE  txs' \subseteq Txs /\ SpentIndexExact'
<1>1. /\ txs' = txs \cup {t} /\ spentOutpoints' = spentOutpoints \cup (TxIns[t] \X {t})
      /\ \A c \in TxIns[t] : ~Spent(c)
  BY DEF AddTx, Admits
<1>2. TxIns[t] \subseteq Coins
  BY MempoolAssumption
<1>3. \A u \in txs : TxIns[t] \cap TxIns[u] = {}
  <2>1. SUFFICES ASSUME NEW u \in txs, NEW c \in TxIns[t] \cap TxIns[u] PROVE FALSE
    OBVIOUS
  <2>2. <<c, u>> \in spentOutpoints /\ u \in Txs
    BY <1>2 DEF SpentIndexExact
  <2> QED BY <1>1, <2>2 DEF Spent
<1>4. spentOutpoints' = {p \in Coins \X txs' : p[1] \in TxIns[p[2]]}
  BY <1>1, <1>2 DEF SpentIndexExact
<1>5. \A u, v \in txs' : u = v \/ TxIns[u] \cap TxIns[v] = {}
  BY <1>1, <1>3 DEF SpentIndexExact
<1> QED BY <1>1, <1>4, <1>5 DEF SpentIndexExact

(* RemoveTxs takes out entries by output; no other transaction has one of   *)
(* those outputs, so only the entries of the transactions that leave go.    *)
LEMMA RemoveTxsInv ==
  ASSUME txs \subseteq Txs, SpentIndexExact, NEW S, RemoveTxs(S)
  PROVE  txs' \subseteq Txs /\ SpentIndexExact'
<1>1. /\ txs' = txs \ S
      /\ spentOutpoints' = {p \in spentOutpoints : \A t \in S \cap txs : p[1] \notin TxIns[t]}
  BY DEF RemoveTxs
<1>2. ASSUME NEW p \in spentOutpoints'
      PROVE  p \in Coins \X txs' /\ p[1] \in TxIns[p[2]]
  <2>1. p \in Coins \X txs /\ p[1] \in TxIns[p[2]] /\ p[2] \notin S \cap txs
    BY <1>1 DEF SpentIndexExact
  <2> QED BY <1>1, <2>1
<1>3. ASSUME NEW p \in Coins \X txs', p[1] \in TxIns[p[2]]
      PROVE  p \in spentOutpoints'
  <2>1. p \in spentOutpoints /\ p[2] \in txs /\ p[2] \notin S
    BY <1>1, <1>3 DEF SpentIndexExact
  <2>2. ASSUME NEW t \in S \cap txs PROVE p[1] \notin TxIns[t]
    BY <1>3, <2>1 DEF SpentIndexExact
  <2> QED BY <1>1, <2>1, <2>2
<1>4. spentOutpoints' = {p \in Coins \X txs' : p[1] \in TxIns[p[2]]}
  BY <1>2, <1>3
<1>5. \A u, v \in txs' : u = v \/ TxIns[u] \cap TxIns[v] = {}
  BY <1>1 DEF SpentIndexExact
<1> QED BY <1>1, <1>4, <1>5 DEF SpentIndexExact

(* A start loads transactions that do not conflict, and indexes them. *)
LEMMA LoadInv ==
  ASSUME NEW file \in SUBSET Txs, NEW set, NEW h, Load(file, set, h)
  PROVE  txs' \subseteq Txs /\ SpentIndexExact'
<1>1. PICK S \in SUBSET file :
        /\ \A t, u \in S : t = u \/ TxIns[t] \cap TxIns[u] = {}
        /\ txs' = S
        /\ spentOutpoints' = UNION {TxIns[t] \X {t} : t \in S}
  BY DEF Load
<1>2. \A t \in S : TxIns[t] \subseteq Coins
  BY MempoolAssumption
<1>3. spentOutpoints' = {p \in Coins \X S : p[1] \in TxIns[p[2]]}
  BY <1>1, <1>2
<1> QED BY <1>1, <1>3 DEF SpentIndexExact

-----------------------------------------------------------------------------
(* A step that leaves the pool alone. *)
LEMMA SameSpentIndex ==
  ASSUME PoolInv, UNCHANGED <<txs, spentOutpoints, dump>>
  PROVE  PoolInv'
BY DEF PoolInv, SpentIndexExact

(* Every step of a goroutine keeps the pool invariant. *)
LEMMA ThreadPool ==
  ASSUME PoolInv, NEW t \in Threads, ThreadStep(t)
  PROVE  PoolInv'
<1>1. CASE ProcessFails(t) \/ ProcessStarts(t)
  BY <1>1, SameSpentIndex, Zenon DEF ProcessFails, ProcessStarts, pool, proc
<1>2. CASE ChainStep
  BY <1>2, SameSpentIndex, Zenon DEF ChainStep, ReorgStep, ReorgDone, ReorgFails, NextParent, TakeOrphan,
     ProcessReturns, pool, proc
<1>3. CASE Forget(t) \/ UpdateHeight(t) \/ Relay(t)
  BY <1>3, SameSpentIndex DEF Forget, UpdateHeight, SetTipHeight, Relay, pool, proc
<1>4. CASE RemoveConfirmed(t)
  BY <1>4, RemoveTxsInv DEF RemoveConfirmed, proc, PoolInv
<1> QED BY <1>1, <1>2, <1>3, <1>4 DEF ThreadStep

(* The pool invariant is inductive. *)
LEMMA PoolStep ==
  ASSUME PoolInv, [Next]_vars
  PROVE  PoolInv'
<1>1. CASE \E t \in Threads : ThreadStep(t)
  BY <1>1, ThreadPool
<1>2. CASE MinerStep
  BY <1>2, SameSpentIndex DEF MinerStep, ReadTip, ReadTipHeader, ReadTemplate, MineOther, Seal,
     Miner, pool, proc
<1>3. CASE Environment
  <2>1. CASE \E b \in Blocks \ {Genesis}, t \in Handlers : ReceiveBlock(t, b)
    BY <2>1, SameSpentIndex DEF ReceiveBlock, pool, proc
  <2>2. CASE \E b \in Submitted : SubmitBlock(b)
    BY <2>2, SameSpentIndex DEF SubmitBlock, pool, proc
  <2>3. CASE \E t \in Txs \ LocalTxs : ReceiveTx(t)
    <3>1. PICK t \in Txs \ LocalTxs : ReceiveTx(t)
      BY <2>3
    <3>2. dump' = dump /\ (AddTx(t, View) \/ UNCHANGED pool)
      BY <3>1 DEF ReceiveTx, proc
    <3> QED BY <3>2, AddTxInv, SameSpentIndex DEF PoolInv, pool
  <2>4. CASE \E t \in LocalTxs : SubmitTx(t)
    <3>1. PICK t \in LocalTxs : SubmitTx(t)
      BY <2>4
    <3>2. t \in Txs /\ dump' = dump /\ AddTx(t, View)
      BY <3>1, NodeAssumption DEF SubmitTx, proc
    <3> QED BY <3>2, AddTxInv DEF PoolInv
  <2>5. CASE Restart
    <3>1. dump' \in SUBSET Txs /\ Load(dump', BootSet, Height[BootTip])
      BY <2>5, Zenon DEF Restart, Reload, PoolInv
    <3> QED BY <3>1, LoadInv DEF PoolInv
  <2> QED BY <1>3, <2>1, <2>2, <2>3, <2>4, <2>5 DEF Environment
<1>4. CASE UNCHANGED vars
  BY <1>4, SameSpentIndex DEF vars, pool, proc
<1> QED BY <1>1, <1>2, <1>3, <1>4 DEF Next

(* The mempool's index of spent outpoints is always exactly what the pool's *)
(* transactions spend, and no two of them conflict: SpentIndexExact, for    *)
(* any interleaving of AddTx, RemoveTxs and restarts, and whatever UTXO set *)
(* AddTx happens to validate against.                                       *)
THEOREM SpentIndexAlwaysExact == Spec => []SpentIndexExact
<1>1. Init => PoolInv
  BY Zenon DEF Init, EmptyPool, PoolInv, SpentIndexExact
<1>2. PoolInv => SpentIndexExact
  BY DEF PoolInv
<1> QED BY <1>1, <1>2, PoolStep, PTL DEF Spec
=============================================================================
