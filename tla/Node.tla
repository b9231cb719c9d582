-------------------------------- MODULE Node --------------------------------
(***************************************************************************)
(* One node: the goroutines that hand blocks and transactions to the chain *)
(* manager and the mempool, and what they share.                           *)
(*                                                                         *)
(* A goroutine per peer runs handleBlock and handleTx; the miner's runs    *)
(* MineOne and the callback of cmd/node; an RPC goroutine runs             *)
(* submitblock.  A goroutine is at one point of its program; the steps     *)
(* between two accesses to shared state are one action.  ProcessBlock      *)
(* holds the chain's lock, and other goroutines wait for it, but the       *)
(* mempool reads the UTXO set without that lock: a reorganisation is split *)
(* at each change of the set.                                              *)
(*                                                                         *)
(* The chain manager is the one of Chain without store errors and without  *)
(* a crash inside a call.  The tip record is then the tip in memory; the   *)
(* chainstate database need not be at it, since a reorganisation that      *)
(* fails has flushed its rounds and restores memory only.                  *)
(***************************************************************************)
EXTENDS Mempool, Sequences

CONSTANTS
  BlockTxs,       \* BlockTxs[b]: the transactions of b, coinbase excepted
  Handlers,       \* the goroutines of peers
  Submitted,      \* the blocks that are handed to submitblock
  LocalTxs,       \* the transactions that come over RPC, not from a peer
  MaxReorgDepth,  \* params.MaxReorgDepth, 0 for no limit
  MaxStarts       \* bound on the number of restarts

Threads == Handlers \cup {"miner", "rpc"}

ASSUME NodeAssumption ==
  /\ BlockTxs \in [Blocks -> SUBSET Txs]
  /\ Handlers \cap {"miner", "rpc", "free"} = {}
  /\ Submitted \subseteq Blocks \ {Genesis} /\ LocalTxs \subseteq Txs
  /\ MaxReorgDepth \in Nat /\ MaxStarts \in Nat
  /\ \A b \in Blocks : \A t \in BlockTxs[b] : TxIns[t] \subseteq Spends[b]

(* No output is created twice along a chain: a coinbase commits to its      *)
(* height, and what any other transaction spends was created once.          *)
ASSUME CreatedOnceAssumption ==
  \A b \in Blocks :
    ValidPath(b) => \A h \in 0..Height[b] - 1 : Creates[b] \cap Creates[Path[b][h]] = {}

VARIABLES
  \* The chain manager.
  tip,       \* c.tipHash
  known,     \* the keys of c.heightByHash
  orphans,   \* c.orphans
  utxo,      \* the contents of c.utxoSet
  stored,    \* blocks with an index record
  undo,      \* blocks whose record has undo data
  coins,     \* the UTXOs of the chainstate database
  best,      \* its best-block record
  view,      \* the set the mempool was created with: live while it is c.utxoSet,
             \* otherwise its contents when the chain abandoned it
  \* The call of ProcessBlock that holds the lock.
  lock,      \* its goroutine, "free" when there is none
  reorg,     \* the reorganisation it is in
  outcome,   \* what it is going to return: "accepted" or "side"
  queue,     \* processOrphans: parents whose orphans are still to be tried
  batch,     \* processOrphans: orphans taken out of the pool
  \* The goroutines, and the connection manager's sets of seen hashes.
  pc,        \* pc[t]: where goroutine t is
  blk,       \* blk[t]: the block it is busy with
  template,  \* what the miner has read for its next block
  seenBlocks, seenTxs,
  \* The process.
  dump,      \* mempool.dat
  starts,    \* number of restarts
  sound,     \* history: the last start came up with the UTXO set of a valid chain
  cleared    \* history: blocks whose transactions RemoveTxs took out of the pool,
             \* or that a start found on the active chain, and that have been
             \* on it ever since

state  == <<coins, best>>
chain  == <<tip, known, orphans, utxo, stored, undo, state, view>>
call   == <<lock, reorg, outcome, queue, batch>>
thread == <<pc, blk, template>>
seen   == <<seenBlocks, seenTxs>>
proc   == <<dump, starts, sound>>
vars   == <<pool, chain, call, thread, seen, proc, cleared>>

Live == [live |-> TRUE, set |-> {}]
NoReorg == [block |-> NoBlock, steps |-> << >>, before |-> {}, orphan |-> FALSE]
NoTemplate == [parent |-> NoBlock, header |-> NoBlock, txs |-> {}]

OnActiveChain(b) == Height[b] <= Height[tip] /\ Path[tip][Height[b]] = b

(* What the mempool sees. *)
View == IF view.live THEN utxo ELSE view.set

Init ==
  /\ EmptyPool(0)
  /\ tip = Genesis /\ known = {Genesis} /\ stored = {Genesis} /\ orphans = {}
  /\ utxo = UtxoAt[Genesis] /\ view = Live
  /\ undo = {} /\ coins = UtxoAt[Genesis] /\ best = Genesis
  /\ lock = "free" /\ reorg = NoReorg /\ outcome = "side" /\ queue = << >> /\ batch = {}
  /\ pc = [t \in Threads |-> "idle"] /\ blk = [t \in Threads |-> NoBlock]
  /\ template = NoTemplate
  /\ seenBlocks = {} /\ seenTxs = {}
  /\ dump = {} /\ starts = 0 /\ sound = TRUE /\ cleared = {}

-----------------------------------------------------------------------------
(* The chain manager: one block, from the checks that its parent is known   *)
(* and its header valid.                                                    *)

TxInputsValid(b, set) == b \notin BadTx /\ Spends[b] \subseteq set

ConnectBlock(set, b) == (set \ Spends[b]) \cup Creates[b]

DisconnectBlock(set, b) == (set \ Creates[b]) \cup Spends[b]

(* What is flushed to the chainstate when b is connected or disconnected;   *)
(* set is the UTXO set with b connected.                                    *)
PersistConnect(db, set, b) == (db \cup (Creates[b] \cap set)) \ Spends[b]

PersistDisconnect(db, b) == (db \ Creates[b]) \cup Spends[b]

(* The height at which the chain of b leaves the active one. *)
ForkHeight(b) ==
  CHOOSE f \in 0..Height[b] - 1 :
    /\ f <= Height[tip] /\ Path[b][f] = Path[tip][f]
    /\ \A h \in f + 1..Height[b] - 1 : h > Height[tip] \/ Path[b][h] # Path[tip][h]

TooDeep(b) == MaxReorgDepth > 0 /\ Height[tip] - ForkHeight(b) > MaxReorgDepth

(* The old blocks from the tip down, then the new ones from the fork up. *)
ReorgSteps(b) ==
  LET f == ForkHeight(b)
      old == Height[tip] - f IN
  [i \in 1..old + Height[b] - f |->
     IF i <= old THEN [on |-> FALSE, block |-> Path[tip][Height[tip] - i + 1]]
                 ELSE [on |-> TRUE, block |-> Path[b][f + i - old]]]

(* restoreSnapshot makes a copy the chain's set; the mempool keeps the old. *)
AbandonSet == view' = IF view.live THEN [live |-> FALSE, set |-> utxo] ELSE view

ExtendTip(b) ==
  /\ Parent[b] = tip /\ TxInputsValid(b, utxo)
  /\ tip' = b /\ utxo' = ConnectBlock(utxo, b)
  /\ known' = known \cup {b} /\ stored' = stored \cup {b} /\ undo' = undo \cup {b}
  /\ coins' = PersistConnect(coins, utxo', b) /\ best' = b
  /\ UNCHANGED view

StoreSide(b) ==
  /\ Parent[b] # tip
  /\ \/ ~Better(b, tip) /\ UNCHANGED view
     \/ Better(b, tip) /\ TooDeep(b) /\ AbandonSet
  /\ known' = known \cup {b} /\ stored' = stored \cup {b}
  /\ UNCHANGED <<tip, utxo, undo, state>>

StartReorg(b, isOrphan) ==
  /\ Parent[b] # tip /\ Better(b, tip) /\ ~TooDeep(b)
  /\ reorg' = [block |-> b, steps |-> ReorgSteps(b), before |-> utxo, orphan |-> isOrphan]
  /\ stored' = stored \cup {b}
  /\ UNCHANGED <<tip, known, utxo, undo, state, view>>

-----------------------------------------------------------------------------
(* ProcessBlock, called by goroutine t. *)

(* Where a goroutine goes when ProcessBlock returns. *)
After(t, result) ==
  CASE t # "rpc" /\ result = "accepted"     -> "remove"
    [] t \in Handlers /\ result = "failed"  -> "unsee"
    [] OTHER                                -> "idle"

Goto(t, where) ==
  /\ pc' = [pc EXCEPT ![t] = where]
  /\ blk' = IF where = "idle" THEN [blk EXCEPT ![t] = NoBlock] ELSE blk
  /\ UNCHANGED template

(* Already tracked, orphan, invalid header, or invalid on top of the tip. *)
ProcessFails(t) ==
  LET b == blk[t] IN
  /\ pc[t] = "process" /\ lock = "free"
  /\ \/ b \in known \cup orphans /\ UNCHANGED orphans
     \/ b \notin known /\ Parent[b] \notin known /\ orphans' = orphans \cup {b}
     \/ /\ b \notin known \cup orphans /\ Parent[b] \in known
        /\ b \in BadHeader \/ (Parent[b] = tip /\ ~TxInputsValid(b, utxo))
        /\ UNCHANGED orphans
  /\ Goto(t, After(t, "failed"))
  /\ UNCHANGED <<pool, tip, known, utxo, stored, undo, state, view, call, seen, proc, cleared>>

ProcessStarts(t) ==
  LET b == blk[t] IN
  /\ pc[t] = "process" /\ lock = "free"
  /\ b \notin known \cup orphans /\ Parent[b] \in known /\ b \notin BadHeader
  /\ \/ ExtendTip(b) /\ outcome' = "accepted" /\ queue' = <<b>> /\ UNCHANGED reorg
     \/ StoreSide(b) /\ outcome' = "side" /\ queue' = <<b>> /\ UNCHANGED reorg
     \/ StartReorg(b, FALSE) /\ outcome' = "accepted" /\ UNCHANGED queue
  /\ lock' = t
  /\ UNCHANGED <<pool, orphans, batch, thread, seen, proc, cleared>>

(* A round of reorg can be taken: a new block connects, an old one has undo *)
(* data.                                                                    *)
CanStep(s) == IF s.on THEN TxInputsValid(s.block, utxo) ELSE s.block \in undo

(* One round of the loops of reorg: the set changes, and the chainstate.    *)
ReorgStep ==
  /\ reorg.steps # << >>
  /\ LET s == Head(reorg.steps) IN
       /\ CanStep(s)
       /\ IF s.on THEN /\ utxo' = ConnectBlock(utxo, s.block)
                       /\ coins' = PersistConnect(coins, utxo', s.block) /\ best' = s.block
                  ELSE /\ utxo' = DisconnectBlock(utxo, s.block)
                       /\ coins' = PersistDisconnect(coins, s.block) /\ best' = Parent[s.block]
  /\ reorg' = [reorg EXCEPT !.steps = Tail(@)]
  /\ UNCHANGED <<pool, tip, known, orphans, stored, undo, view, lock, outcome, queue, batch,
                 thread, seen, proc, cleared>>

(* reorg returns: the blocks of the old branch are no longer tracked, those *)
(* of the new one have undo data.                                           *)
ReorgDone ==
  /\ reorg.block # NoBlock /\ reorg.steps = << >>
  /\ LET b == reorg.block
         f == ForkHeight(b)
         old == {Path[tip][h] : h \in f + 1..Height[tip]}
         new == {Path[b][h] : h \in f + 1..Height[b]} IN
       /\ tip' = b
       /\ known' = (known \ old) \cup new /\ undo' = undo \cup new
       /\ queue' = <<b>> /\ batch' = {}
       /\ cleared' = cleared \ old
  /\ reorg' = NoReorg
  /\ UNCHANGED <<pool, orphans, utxo, stored, state, view, lock, outcome, thread, seen, proc>>

(* A new block does not connect, or an old one cannot be disconnected: the  *)
(* set is what it was, the chainstate is not.  The call fails, unless the   *)
(* reorganisation was to an orphan: processOrphans goes on.                 *)
ReorgFails ==
  /\ reorg.steps # << >> /\ ~CanStep(Head(reorg.steps))
  /\ utxo' = reorg.before /\ AbandonSet
  /\ reorg' = NoReorg
  /\ IF reorg.orphan
     THEN UNCHANGED <<lock, outcome, thread>>
     ELSE lock' = "free" /\ outcome' = "side" /\ Goto(lock, After(lock, "failed"))
  /\ UNCHANGED <<pool, tip, known, orphans, stored, undo, state, queue, batch, seen, proc,
                 cleared>>

(* The call is in processOrphans. *)
InOrphans == lock # "free" /\ reorg.block = NoBlock

NextParent ==
  /\ InOrphans /\ batch = {} /\ queue # << >>
  /\ batch' = {o \in orphans : Parent[o] = Head(queue)}
  /\ orphans' = orphans \ batch'
  /\ queue' = Tail(queue)
  /\ UNCHANGED <<pool, tip, known, utxo, stored, undo, state, view, lock, reorg, outcome,
                 thread, seen, proc, cleared>>

(* The next orphan in the order of the hashes: stored, or dropped when its  *)
(* parent is not tracked any more or it is not valid.                       *)
TakeOrphan ==
  /\ InOrphans /\ batch # {}
  /\ LET o == CHOOSE x \in batch : \A y \in batch : Rank[x] <= Rank[y]
         usable == Parent[o] \in known /\ o \notin BadHeader IN
       /\ batch' = batch \ {o}
       /\ \/ usable /\ (ExtendTip(o) \/ (StoreSide(o) /\ ~Better(o, tip)))
             /\ queue' = Append(queue, o) /\ UNCHANGED reorg
          \/ usable /\ StoreSide(o) /\ Better(o, tip) /\ UNCHANGED <<queue, reorg>>
          \/ usable /\ StartReorg(o, TRUE) /\ UNCHANGED queue
          \/ /\ ~usable \/ (Parent[o] = tip /\ ~TxInputsValid(o, utxo))
             /\ UNCHANGED <<tip, known, utxo, stored, undo, state, view, queue, reorg>>
  /\ UNCHANGED <<pool, orphans, lock, outcome, thread, seen, proc, cleared>>

ProcessReturns ==
  /\ InOrphans /\ batch = {} /\ queue = << >>
  /\ lock' = "free" /\ outcome' = "side"
  /\ Goto(lock, After(lock, outcome))
  /\ UNCHANGED <<pool, chain, reorg, queue, batch, seen, proc, cleared>>

ChainStep ==
  \/ ReorgStep \/ ReorgDone \/ ReorgFails
  \/ NextParent \/ TakeOrphan \/ ProcessReturns

-----------------------------------------------------------------------------
(* The goroutines around ProcessBlock. *)

Begin(t, b) == pc' = [pc EXCEPT ![t] = "process"] /\ blk' = [blk EXCEPT ![t] = b]

(* handleBlock: a block that was seen is skipped. *)
ReceiveBlock(t, b) ==
  /\ t \in Handlers /\ pc[t] = "idle" /\ b \notin seenBlocks
  /\ seenBlocks' = seenBlocks \cup {b}
  /\ Begin(t, b)
  /\ UNCHANGED <<pool, chain, call, template, seenTxs, proc, cleared>>

(* submitblock. *)
SubmitBlock(b) ==
  /\ pc["rpc"] = "idle"
  /\ Begin("rpc", b)
  /\ UNCHANGED <<pool, chain, call, template, seen, proc, cleared>>

(* Mutant: the mark stays. *)
MutForget(t) ==
  /\ pc[t] = "unsee"
  /\ Goto(t, "idle")
  /\ UNCHANGED <<pool, chain, call, seen, proc, cleared>>

(* handleBlock after an error that is not ErrSideChain. *)
Forget(t) ==
  /\ pc[t] = "unsee"
  /\ seenBlocks' = seenBlocks \ {blk[t]}
  /\ Goto(t, "idle")
  /\ UNCHANGED <<pool, chain, call, seenTxs, proc, cleared>>

(* handleBlock and the miner's callback after success. *)
RemoveConfirmed(t) ==
  /\ pc[t] = "remove"
  /\ RemoveTxs(BlockTxs[blk[t]])
  /\ cleared' = IF OnActiveChain(blk[t]) THEN cleared \cup {blk[t]} ELSE cleared
  /\ Goto(t, "height")
  /\ UNCHANGED <<chain, call, seen, proc>>

UpdateHeight(t) ==
  /\ pc[t] = "height"
  /\ SetTipHeight(Height[blk[t]])
  /\ Goto(t, "relay")
  /\ UNCHANGED <<chain, call, seen, proc, cleared>>

(* BroadcastBlock marks the block before it sends it. *)
Relay(t) ==
  /\ pc[t] = "relay"
  /\ seenBlocks' = seenBlocks \cup {blk[t]}
  /\ Goto(t, "idle")
  /\ UNCHANGED <<pool, chain, call, seenTxs, proc, cleared>>

-----------------------------------------------------------------------------
(* MineOne.  Tip, TipHeader and BlockTemplate are three calls. *)

Miner(from, to, tmpl) ==
  /\ pc["miner"] = from /\ pc' = [pc EXCEPT !["miner"] = to]
  /\ template' = tmpl
  /\ UNCHANGED <<pool, chain, call, seen, proc, cleared>>

ReadTip ==
  lock = "free" /\ Miner("idle", "header", [NoTemplate EXCEPT !.parent = tip]) /\ UNCHANGED blk

ReadTipHeader ==
  lock = "free" /\ Miner("header", "txs", [template EXCEPT !.header = tip]) /\ UNCHANGED blk

ReadTemplate == Miner("txs", "mine", [template EXCEPT !.txs = txs]) /\ UNCHANGED blk

(* A block with the template's parent and transactions is found. *)
Seal(b) ==
  /\ Parent[b] = template.parent /\ template.header = template.parent
  /\ BlockTxs[b] = template.txs
  /\ Miner("mine", "process", NoTemplate)
  /\ blk' = [blk EXCEPT !["miner"] = b]

(* The template mixes two tips, or the block found is not one of Blocks:    *)
(* the next round starts.                                                   *)
MineOther ==
  /\ \/ template.header # template.parent
     \/ \A b \in Blocks \ {Genesis} : Parent[b] # template.parent \/ BlockTxs[b] # template.txs
  /\ Miner("mine", "idle", NoTemplate)
  /\ UNCHANGED blk

-----------------------------------------------------------------------------
(* Transactions. *)

(* handleTx: the hash is marked as seen before the pool decides. *)
ReceiveTx(t) ==
  /\ t \notin seenTxs
  /\ seenTxs' = seenTxs \cup {t}
  /\ AddTx(t, View) \/ (~Admits(t, View) /\ UNCHANGED pool)
  /\ UNCHANGED <<chain, call, thread, seenBlocks, proc, cleared>>

(* sendrawtransaction and sendtoaddress: AddTx, then BroadcastTx. *)
SubmitTx(t) ==
  /\ AddTx(t, View)
  /\ seenTxs' = seenTxs \cup {t}
  /\ UNCHANGED <<chain, call, thread, seenBlocks, proc, cleared>>

-----------------------------------------------------------------------------
(* The process ends between two calls of ProcessBlock, after the shutdown   *)
(* sequence, which writes the pool if it is not empty, or without it.  The  *)
(* next one starts: Init tracks every block with an index record, and the   *)
(* pool is read back.                                                       *)

(* Init: a chainstate that is at the tip, or at a higher block, is loaded,  *)
(* and the tip follows it; otherwise the set is rebuilt from the blocks and *)
(* put into the chainstate, which loses nothing by it.                      *)
Ahead == best \in stored /\ Height[best] > Height[tip]

BootTip == IF Ahead THEN best ELSE tip

BootSet == IF best = tip \/ Ahead THEN coins ELSE UtxoAt[tip]

(* rebuildUtxoSet meets no missing output. *)
Replays(b) == \A h \in 1..Height[b] : Spends[Path[b][h]] \subseteq UtxoAt[Path[b][h - 1]]

(* Mutant: a transaction of the file is not validated again. *)
MutReload(file) ==
  /\ txs' = file
  /\ spentOutpoints' = UNION {TxIns[t] \X {t} : t \in file}
  /\ tipHeight' = Height[BootTip]

Reload(file) == Load(file, BootSet, Height[BootTip])

Restart ==
  /\ lock = "free" /\ starts < MaxStarts
  /\ best = tip \/ Ahead \/ Replays(tip)
  /\ starts' = starts + 1
  /\ dump' \in {dump, IF txs = {} THEN dump ELSE txs}
  /\ tip' = BootTip /\ utxo' = BootSet /\ known' = stored /\ orphans' = {} /\ view' = Live
  /\ best' = BootTip /\ coins' = coins \cup BootSet
  /\ lock' = "free" /\ reorg' = NoReorg /\ outcome' = "side" /\ queue' = << >> /\ batch' = {}
  /\ pc' = [t \in Threads |-> "idle"] /\ blk' = [t \in Threads |-> NoBlock]
  /\ template' = NoTemplate
  /\ seenBlocks' = {} /\ seenTxs' = {}
  /\ Reload(dump')
  /\ sound' = \E b \in Blocks : ValidPath(b) /\ BootTip = b /\ BootSet = UtxoAt[b]
  /\ cleared' = {b \in Blocks \ {Genesis} : OnActiveChain(b)'}
  /\ UNCHANGED <<stored, undo>>

-----------------------------------------------------------------------------
ThreadStep(t) ==
  \/ ProcessFails(t) \/ ProcessStarts(t)
  \/ lock = t /\ ChainStep
  \/ Forget(t) \/ RemoveConfirmed(t) \/ UpdateHeight(t) \/ Relay(t)

MinerStep ==
  \/ ReadTip \/ ReadTipHeader \/ ReadTemplate \/ MineOther
  \/ \E b \in Blocks \ {Genesis} : Seal(b)

Environment ==
  \/ \E b \in Blocks \ {Genesis}, t \in Handlers : ReceiveBlock(t, b)
  \/ \E b \in Submitted : SubmitBlock(b)
  \/ \E t \in Txs \ LocalTxs : ReceiveTx(t)
  \/ \E t \in LocalTxs : SubmitTx(t)
  \/ Restart

Next == (\E t \in Threads : ThreadStep(t)) \/ MinerStep \/ Environment

Spec == Init /\ [][Next]_vars

-----------------------------------------------------------------------------
(* A block that is marked as seen is in the hands of a goroutine or has an  *)
(* index record: no order of deliveries leaves a block that was refused, or *)
(* that waits for its parent, marked, so peers can send it again.           *)
SeenIsStored == seenBlocks \subseteq stored \cup {blk[t] : t \in Threads}

(* RemoveTxs took a block's transactions out of the pool, or the process    *)
(* started with the block on its active chain, and the block is still on    *)
(* it: its transactions do not come back, neither from a mempool.dat of an  *)
(* earlier run, nor from whichever goroutine offers them again, whatever    *)
(* reorganisation is going on above.  (As long as the mempool reads the     *)
(* chain's own set, see AbandonSet, and Init loaded the set of its tip,     *)
(* which after a failed reorganisation it may not: see ReorgFails.)         *)
ConfirmedStayOut ==
  sound /\ view.live /\ reorg.block = NoBlock => \A b \in cleared : BlockTxs[b] \cap txs = {}
=============================================================================
