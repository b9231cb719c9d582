------------------------------- MODULE Chain -------------------------------
(***************************************************************************)
(* The chain manager (internal/chain) with the stores it writes to         *)
(* (internal/store) and the UTXO set it maintains (internal/utxo).         *)
(*                                                                         *)
(* ProcessBlock and Init hold the chain's write lock from beginning to     *)
(* end, so their steps do not interleave with one another.  What can       *)
(* happen between two of their steps is the end of the process: a call is  *)
(* therefore split exactly at its writes to the three databases (block     *)
(* index, chain tip, chainstate), each of which is one synced LevelDB      *)
(* write, and Crash may follow any of them.  Memory is lost, the disk      *)
(* stays, and the next process starts with Init.                           *)
(*                                                                         *)
(* A write may also return an error.  Faults names the store operations    *)
(* that may; the actions named ...Fails follow the code's error paths.     *)
(***************************************************************************)
EXTENDS BlockTree, Sequences, FiniteSets

CONSTANTS
  MaxOrphanBlocks,  \* bound on the orphan pool
  MaxReorgDepth,    \* params.MaxReorgDepth, 0 for no limit
  MayExpire,        \* orphans that may grow older than OrphanExpiry
  MayBeEarly,       \* blocks whose timestamp may still be in the future
  Faults,           \* the store operations that may return an error
  MaxCrashes        \* bound on the number of crashes of a behaviour

StoreOps == {"WriteBlock", "WriteUndo", "PutBlockIndex", "FlushUtxoBatch", "PutChainTip"}

ASSUME ChainAssumption ==
  /\ MaxOrphanBlocks \in Nat \ {0}
  /\ MaxReorgDepth \in Nat
  /\ MayExpire \subseteq Blocks
  /\ MayBeEarly \subseteq Blocks
  /\ Faults \subseteq StoreOps
  /\ MaxCrashes \in Nat

VARIABLES
  \* The Chain struct: memory, guarded by its lock.
  tipHash,       \* the active tip
  hashByHeight,  \* the active chain, a map from heights to blocks
  known,         \* the keys of heightByHash: blocks of the main and side chains
  orphans,       \* the orphan pool
  utxoSet,       \* the in-memory UTXO set
  \* The disk.
  index,         \* block index: "absent", "data" or "undo" (data and undo data)
  diskTip,       \* the chain tip record
  coins,         \* the UTXOs of the chainstate database
  bestBlock,     \* the best-block record of the chainstate database
  \* The call in progress.
  pc,            \* the step it is at
  cur,           \* the block being connected or reorganised to
  caller,        \* "process" (ProcessBlock) or "orphan" (processOrphans)
  recStatus,     \* status of the index record built for cur: "data" or "undo"
  at,            \* reorg: the height the current loop is at
  fork,          \* reorg: forkParentHeight
  snapshot,      \* reorg: the state restoreSnapshot goes back to
  queue,         \* processOrphans: parents whose orphans are still to be tried
  toProcess,     \* processOrphans: orphans taken out of the pool
  crashes        \* number of crashes so far

memory == <<tipHash, hashByHeight, known, orphans, utxoSet>>
disk   == <<index, diskTip, coins, bestBlock>>
work   == <<cur, caller, recStatus, at, fork, snapshot>>
todo   == <<queue, toProcess>>
vars   == <<memory, disk, pc, work, todo, crashes>>

NoSnapshot == [tip |-> NoBlock, chain |-> << >>, known |-> {}, utxo |-> {}]

-----------------------------------------------------------------------------
(* The UTXO set. *)

(* utxo.Set.ConnectBlock, in memory. *)
ConnectBlock(set, b) == (set \ Spends[b]) \cup Creates[b]

(* Mutant: the undo data is not applied. *)
MutDisconnectBlock(set, b) == set \ Creates[b]

(* utxo.Set.DisconnectBlock, in memory: b's undo data lists what it spent. *)
DisconnectBlock(set, b) == (set \ Creates[b]) \cup Spends[b]

(* Mutant: spent outputs are not deleted from the database. *)
MutPersistConnect(db, set, b) == db \cup (Creates[b] \cap set)

(* persistUtxoChanges: the batch puts what b created and set still holds,  *)
(* then deletes what b spent.                                              *)
PersistConnect(db, set, b) == (db \cup (Creates[b] \cap set)) \ Spends[b]

(* persistUtxoDisconnect: the batch deletes what b created, then puts back *)
(* what its undo data lists.                                               *)
PersistDisconnect(db, b) == (db \ Creates[b]) \cup Spends[b]

(* consensus.ValidateTransactionInputs against a UTXO set. *)
TxInputsValid(b, set) == b \notin BadTx /\ Spends[b] \subseteq set

(* rebuildUtxoSet meets no missing output while it replays Path[b]. *)
Replays(b) == \A h \in 1..Height[b] : Spends[Path[b][h]] \subseteq UtxoAt[Path[b][h - 1]]

-----------------------------------------------------------------------------
(* Maps. *)

Put(f, k, v) == [x \in DOMAIN f \cup {k} |-> IF x = k THEN v ELSE f[x]]

Keep(f, S) == [x \in DOMAIN f \cap S |-> f[x]]

HaveData == {b \in Blocks : index[b] # "absent"}

(* The block is the main chain's at its height, and still tracked. *)
OnMainChain(b) ==
  /\ b \in known
  /\ Height[b] \in DOMAIN hashByHeight
  /\ hashByHeight[Height[b]] = b

(* reorg's walk from b towards genesis stops below height f + 1. *)
ForksAt(b, f) ==
  /\ f \in 0..Height[b] - 1
  /\ OnMainChain(Path[b][f])
  /\ \A g \in f + 1..Height[b] - 1 : ~OnMainChain(Path[b][g])

(* Mutant: the limit is off by one. *)
MutTooDeep(f) == MaxReorgDepth > 0 /\ Height[tipHash] - f > MaxReorgDepth + 1

TooDeep(f) == MaxReorgDepth > 0 /\ Height[tipHash] - f > MaxReorgDepth

-----------------------------------------------------------------------------
(* Init.  Each action ends in a write; an error of Init ends the process,   *)
(* which is a crash before that write.                                      *)

Init ==
  /\ tipHash = NoBlock /\ hashByHeight = << >> /\ known = {}
  /\ orphans = {} /\ utxoSet = {}
  /\ index = [b \in Blocks |-> "absent"] /\ diskTip = NoBlock
  /\ coins = {} /\ bestBlock = NoBlock
  /\ pc = "down" /\ cur = NoBlock /\ caller = "process" /\ recStatus = "data"
  /\ at = 0 /\ fork = 0 /\ snapshot = NoSnapshot
  /\ queue = << >> /\ toProcess = {} /\ crashes = 0

GenesisIndex ==
  /\ pc = "down" /\ diskTip = NoBlock
  /\ index' = [index EXCEPT ![Genesis] = "data"]
  /\ pc' = "genTip"
  /\ UNCHANGED <<memory, diskTip, coins, bestBlock, work, todo, crashes>>

GenesisTip ==
  /\ pc = "genTip"
  /\ diskTip' = Genesis
  /\ tipHash' = Genesis
  /\ known' = {Genesis}
  /\ hashByHeight' = Path[Genesis]
  /\ utxoSet' = UtxoAt[Genesis]
  /\ pc' = "genFlush"
  /\ UNCHANGED <<orphans, index, coins, bestBlock, work, todo, crashes>>

GenesisFlush ==
  /\ pc = "genFlush"
  /\ coins' = coins \cup utxoSet
  /\ bestBlock' = Genesis
  /\ pc' = "idle"
  /\ UNCHANGED <<memory, index, diskTip, work, todo, crashes>>

(* Init's walk from b to genesis finds every record. *)
Walkable(b) == \A h \in 0..Height[b] : index[Path[b][h]] # "absent"

(* The in-memory index Init builds before it looks at the chainstate. *)
Boot(tip) ==
  /\ pc = "down" /\ diskTip # NoBlock /\ Walkable(diskTip)
  /\ tipHash' = tip
  /\ hashByHeight' = Path[tip]
  /\ known' = HaveData
  /\ pc' = "idle"
  /\ UNCHANGED <<orphans, index, work, todo, crashes>>

(* Mutant: the chainstate is loaded without looking at its best block. *)
MutLoadChainstate ==
  /\ Boot(diskTip)
  /\ utxoSet' = coins
  /\ UNCHANGED <<diskTip, coins, bestBlock>>

LoadChainstate ==
  /\ bestBlock = diskTip
  /\ Boot(diskTip)
  /\ utxoSet' = coins
  /\ UNCHANGED <<diskTip, coins, bestBlock>>

(* The best block is one the index knows and is higher than the tip record. *)
ChainstateAhead ==
  /\ bestBlock \in HaveData
  /\ bestBlock # diskTip
  /\ Height[bestBlock] > Height[diskTip]

AdvanceTip ==
  /\ pc = "down" /\ diskTip # NoBlock
  /\ ChainstateAhead /\ Walkable(bestBlock)
  /\ Boot(bestBlock)
  /\ diskTip' = bestBlock
  /\ utxoSet' = coins
  /\ UNCHANGED <<coins, bestBlock>>

(* rebuildUtxoSet and flushUtxoSetToChainstate, which only puts. *)
Rebuild ==
  /\ pc = "down" /\ diskTip # NoBlock
  /\ bestBlock # diskTip /\ ~ChainstateAhead
  /\ Replays(diskTip)
  /\ Boot(diskTip)
  /\ utxoSet' = UtxoAt[diskTip]
  /\ coins' = coins \cup UtxoAt[diskTip]
  /\ bestBlock' = diskTip
  /\ UNCHANGED diskTip

(* The process ends: memory is gone, the disk is what it is. *)
Crash ==
  /\ pc # "down" /\ crashes < MaxCrashes
  /\ tipHash' = NoBlock /\ hashByHeight' = << >> /\ known' = {}
  /\ orphans' = {} /\ utxoSet' = {}
  /\ pc' = "down" /\ cur' = NoBlock /\ caller' = "process" /\ recStatus' = "data"
  /\ at' = 0 /\ fork' = 0 /\ snapshot' = NoSnapshot
  /\ queue' = << >> /\ toProcess' = {}
  /\ crashes' = crashes + 1
  /\ UNCHANGED disk

-----------------------------------------------------------------------------
(* ProcessBlock and processOrphans: what they have in common. *)

(* The call for b ends: processOrphans goes on with its next orphan,        *)
(* ProcessBlock returns to its caller.                                      *)
Finish(next) ==
  /\ pc' = next
  /\ cur' = NoBlock /\ caller' = "process" /\ recStatus' = "data"
  /\ at' = 0 /\ fork' = 0 /\ snapshot' = NoSnapshot

Resume(who) == IF who = "orphan" THEN "orphans" ELSE "idle"

(* processOrphans takes the orphans of one parent in the order of their     *)
(* hashes.                                                                  *)
NextOrphan(b) ==
  /\ pc = "orphans"
  /\ b \in toProcess
  /\ \A o \in toProcess : Rank[b] <= Rank[o]

(* The parent is tracked and its header can be read. *)
ParentUsable(b) == Parent[b] \in known /\ index[Parent[b]] # "absent"

(* who is about to handle b, which passes the checks on header and structure. *)
Handles(b, who) ==
  /\ \/ who = "process" /\ pc = "idle" /\ b \notin known \cup orphans
     \/ who = "orphan" /\ NextOrphan(b)
  /\ ParentUsable(b)
  /\ b \notin BadHeader

(* Mutant: of two chains with equal work the first seen stays. *)
MutBeatsTip(b) == ChainWork[b] > ChainWork[tipHash]

(* The fork choice: more work than the active chain, or equal work and a    *)
(* lower hash.                                                              *)
BeatsTip(b) == Better(b, tipHash)

(* PutBlockIndex of a record without undo data: ProcessBlock gives up when  *)
(* it fails, processOrphans ignores the error.                              *)
StoreRecord(b, who) ==
  \/ index' = [index EXCEPT ![b] = "data"]
  \/ who = "orphan" /\ "PutBlockIndex" \in Faults /\ UNCHANGED index

-----------------------------------------------------------------------------
(* The parent is unknown: the block goes to the orphan pool.  (One that     *)
(* misses its own proof-of-work target is rejected and is no step.)         *)

(* Mutant: a full pool does not evict. *)
MutAddOrphan(b) ==
  /\ pc = "idle" /\ b \notin known \cup orphans
  /\ Parent[b] \notin known
  /\ orphans' = orphans \cup {b}
  /\ UNCHANGED <<tipHash, hashByHeight, known, utxoSet, disk, pc, work, todo, crashes>>

AddOrphan(b) ==
  /\ pc = "idle" /\ b \notin known \cup orphans
  /\ Parent[b] \notin known
  /\ \E expired \in SUBSET (orphans \cap MayExpire) :
       LET young == orphans \ expired IN
       IF Cardinality(young) >= MaxOrphanBlocks
       THEN \E o \in young : orphans' = (young \ {o}) \cup {b}
       ELSE orphans' = young \cup {b}
  /\ UNCHANGED <<tipHash, hashByHeight, known, utxoSet, disk, pc, work, todo, crashes>>

-----------------------------------------------------------------------------
(* The parent is the tip: connect the block. *)

StartExtend(b, who) ==
  /\ Handles(b, who)
  /\ Parent[b] = tipHash
  /\ TxInputsValid(b, utxoSet)
  /\ utxoSet' = ConnectBlock(utxoSet, b)
  /\ \/ recStatus' = "undo"
     \/ recStatus' = "data" /\ who = "orphan" /\ "WriteUndo" \in Faults
  /\ pc' = "index" /\ cur' = b /\ caller' = who
  /\ toProcess' = toProcess \ {b}
  /\ UNCHANGED <<tipHash, hashByHeight, known, orphans, disk, at, fork, snapshot,
                 queue, crashes>>

(* ProcessBlock: WriteUndo returned an error, the connection is undone.    *)
(* (processOrphans goes on without undo data.)                            *)
ExtendUndoFails(b) ==
  /\ "WriteUndo" \in Faults
  /\ Handles(b, "process")
  /\ Parent[b] = tipHash
  /\ TxInputsValid(b, utxoSet)
  /\ utxoSet' = DisconnectBlock(ConnectBlock(utxoSet, b), b)
  /\ UNCHANGED <<tipHash, hashByHeight, known, orphans, disk, pc, work, todo, crashes>>

(* Mutant: the index record is not written. *)
MutExtendIndex ==
  /\ pc = "index"
  /\ pc' = "persist"
  /\ UNCHANGED <<memory, disk, work, todo, crashes>>

ExtendIndex ==
  /\ pc = "index"
  /\ index' = [index EXCEPT ![cur] = recStatus]
  /\ pc' = "persist"
  /\ UNCHANGED <<memory, diskTip, coins, bestBlock, work, todo, crashes>>

ExtendPersist ==
  /\ pc = "persist"
  /\ coins' = PersistConnect(coins, utxoSet, cur)
  /\ bestBlock' = cur
  /\ pc' = "tip"
  /\ UNCHANGED <<memory, index, diskTip, work, todo, crashes>>

(* extendChain, then processOrphans for the new block. *)
ExtendTip ==
  /\ pc = "tip"
  /\ diskTip' = cur
  /\ known' = known \cup {cur}
  /\ hashByHeight' = Put(hashByHeight, Height[cur], cur)
  /\ tipHash' = cur
  /\ queue' = Append(queue, cur)
  /\ Finish("orphans")
  /\ UNCHANGED <<orphans, utxoSet, index, coins, bestBlock, toProcess, crashes>>

(* The index or the chainstate cannot be written: the connection is undone. *)
ExtendFails ==
  /\ \/ pc = "index" /\ "PutBlockIndex" \in Faults
     \/ pc = "persist" /\ "FlushUtxoBatch" \in Faults
  /\ utxoSet' = DisconnectBlock(utxoSet, cur)
  /\ Finish(Resume(caller))
  /\ UNCHANGED <<tipHash, hashByHeight, known, orphans, disk, todo, crashes>>

(* extendChain fails: the error is returned and nothing is undone. *)
ExtendTipFails ==
  /\ pc = "tip" /\ "PutChainTip" \in Faults
  /\ Finish(Resume(caller))
  /\ UNCHANGED <<memory, disk, todo, crashes>>

-----------------------------------------------------------------------------
(* The block's chain beats the active one: reorg. *)

WantsReorg(b, who) ==
  /\ Handles(b, who)
  /\ Parent[b] # tipHash
  /\ BeatsTip(b)

(* processOrphans tracks the block before it calls reorg, ProcessBlock does *)
(* not.                                                                     *)
Tracked(b, who) == IF who = "orphan" THEN known \cup {b} ELSE known

(* The fork is too deep: the block is kept as a side chain.  ProcessBlock   *)
(* goes on to its orphans, processOrphans does not.                         *)
ReorgTooDeep(b, who) ==
  /\ WantsReorg(b, who)
  /\ StoreRecord(b, who) /\ index'[b] # "absent"
  /\ \E f \in 0..Height[b] - 1 : ForksAt(b, f) /\ TooDeep(f)
  /\ known' = known \cup {b}
  /\ queue' = IF who = "process" THEN Append(queue, b) ELSE queue
  /\ toProcess' = toProcess \ {b}
  /\ pc' = "orphans"
  /\ UNCHANGED <<tipHash, hashByHeight, orphans, utxoSet, diskTip, coins, bestBlock,
                 work, crashes>>

(* An orphan whose record could not be written cannot be loaded by reorg. *)
ReorgUnloadable(b) ==
  /\ WantsReorg(b, "orphan")
  /\ "PutBlockIndex" \in Faults /\ index[b] = "absent"
  /\ known' = known \ {b}
  /\ toProcess' = toProcess \ {b}
  /\ UNCHANGED <<tipHash, hashByHeight, orphans, utxoSet, disk, pc, work, queue, crashes>>

StartReorg(b, who) ==
  /\ WantsReorg(b, who)
  /\ StoreRecord(b, who) /\ index'[b] # "absent"
  /\ \E f \in 0..Height[b] - 1 : ForksAt(b, f) /\ ~TooDeep(f) /\ fork' = f
  /\ known' = Tracked(b, who)
  /\ snapshot' = [tip |-> tipHash, chain |-> hashByHeight, known |-> known',
                  utxo |-> utxoSet]
  /\ at' = Height[tipHash]
  /\ pc' = "disconnect" /\ cur' = b /\ caller' = who
  /\ toProcess' = toProcess \ {b}
  /\ UNCHANGED <<tipHash, hashByHeight, orphans, utxoSet, diskTip, coins, bestBlock,
                 recStatus, queue, crashes>>

(* One round of the loop over the old blocks, from the tip down. *)
Disconnect ==
  /\ pc = "disconnect" /\ at > fork
  /\ LET b == hashByHeight[at] IN
       /\ index[b] = "undo"
       /\ utxoSet' = DisconnectBlock(utxoSet, b)
       /\ coins' = PersistDisconnect(coins, b)
       /\ bestBlock' = Parent[b]
  /\ at' = at - 1
  /\ UNCHANGED <<tipHash, hashByHeight, known, orphans, index, diskTip, pc, cur, caller,
                 recStatus, fork, snapshot, todo, crashes>>

(* The old blocks above the fork leave both maps. *)
Unlink ==
  /\ pc = "disconnect" /\ at = fork
  /\ known' = known \ {hashByHeight[h] : h \in fork + 1..Height[tipHash]}
  /\ hashByHeight' = Keep(hashByHeight, 0..fork)
  /\ pc' = "connect" /\ at' = fork + 1
  /\ UNCHANGED <<tipHash, orphans, utxoSet, disk, cur, caller, recStatus, fork, snapshot,
                 todo, crashes>>

(* One round of the loop over the new blocks, from the fork up. *)
Connect ==
  /\ pc = "connect" /\ at <= Height[cur]
  /\ LET b == Path[cur][at] IN
       /\ TxInputsValid(b, utxoSet)
       /\ utxoSet' = ConnectBlock(utxoSet, b)
       /\ coins' = PersistConnect(coins, utxoSet', b)
       /\ bestBlock' = b
       /\ known' = known \cup {b}
       /\ hashByHeight' = Put(hashByHeight, at, b)
  /\ at' = at + 1
  /\ UNCHANGED <<tipHash, orphans, index, diskTip, pc, cur, caller, recStatus, fork,
                 snapshot, todo, crashes>>

ReorgTip ==
  /\ pc = "connect" /\ at = Height[cur] + 1
  /\ diskTip' = cur
  /\ tipHash' = cur
  /\ pc' = "undo" /\ at' = fork + 1
  /\ UNCHANGED <<hashByHeight, known, orphans, utxoSet, index, coins, bestBlock, cur,
                 caller, recStatus, fork, snapshot, todo, crashes>>

(* Mutant: reorg does not record the undo data it wrote. *)
MutReorgUndo ==
  /\ pc = "undo" /\ at <= Height[cur]
  /\ at' = at + 1
  /\ UNCHANGED <<memory, disk, pc, cur, caller, recStatus, fork, snapshot, todo, crashes>>

(* One round of the loop that writes undo data and its index record. *)
ReorgUndo ==
  /\ pc = "undo" /\ at <= Height[cur]
  /\ index' = [index EXCEPT ![Path[cur][at]] = "undo"]
  /\ at' = at + 1
  /\ UNCHANGED <<memory, diskTip, coins, bestBlock, pc, cur, caller, recStatus, fork,
                 snapshot, todo, crashes>>

(* reorg returns.  processOrphans starts over with the new tip: what it had *)
(* queued, and the siblings it had taken out of the pool, are dropped.      *)
ReorgDone ==
  /\ pc = "undo" /\ at = Height[cur] + 1
  /\ queue' = <<cur>>
  /\ toProcess' = {}
  /\ Finish("orphans")
  /\ UNCHANGED <<memory, disk, crashes>>

(* The step of reorg that is due returns an error. *)
ReorgStepFails ==
  \/ /\ pc = "disconnect" /\ at > fork
     /\ index[hashByHeight[at]] # "undo" \/ "FlushUtxoBatch" \in Faults
  \/ /\ pc = "connect" /\ at <= Height[cur]
     /\ ~TxInputsValid(Path[cur][at], utxoSet) \/ "FlushUtxoBatch" \in Faults
  \/ pc = "connect" /\ at = Height[cur] + 1 /\ "PutChainTip" \in Faults
  \/ pc = "undo" /\ at <= Height[cur] /\ Faults \cap {"WriteUndo", "PutBlockIndex"} # {}

(* Mutant: the map from heights is not restored. *)
MutReorgFails ==
  /\ ReorgStepFails
  /\ tipHash' = snapshot.tip
  /\ known' = IF caller = "orphan" THEN snapshot.known \ {cur} ELSE snapshot.known
  /\ utxoSet' = snapshot.utxo
  /\ Finish(Resume(caller))
  /\ UNCHANGED <<hashByHeight, orphans, disk, todo, crashes>>

(* restoreSnapshot puts memory back; the disk keeps what reorg wrote. *)
ReorgFails ==
  /\ ReorgStepFails
  /\ tipHash' = snapshot.tip
  /\ hashByHeight' = snapshot.chain
  /\ known' = IF caller = "orphan" THEN snapshot.known \ {cur} ELSE snapshot.known
  /\ utxoSet' = snapshot.utxo
  /\ Finish(Resume(caller))
  /\ UNCHANGED <<orphans, disk, todo, crashes>>

-----------------------------------------------------------------------------
(* The block's chain does not beat the active one: side chain. *)

StoreSide(b, who) ==
  /\ Handles(b, who)
  /\ Parent[b] # tipHash /\ ~BeatsTip(b)
  /\ StoreRecord(b, who)
  /\ known' = known \cup {b}
  /\ queue' = Append(queue, b)
  /\ toProcess' = toProcess \ {b}
  /\ pc' = "orphans"
  /\ UNCHANGED <<tipHash, hashByHeight, orphans, utxoSet, diskTip, coins, bestBlock,
                 work, crashes>>

-----------------------------------------------------------------------------
(* processOrphans. *)

(* Mutant: the parent stays in the queue. *)
MutNextParentLoops ==
  /\ pc = "orphans" /\ toProcess = {} /\ queue # << >>
  /\ toProcess' = {o \in orphans : Parent[o] = Head(queue)}
  /\ orphans' = orphans \ toProcess'
  /\ UNCHANGED <<tipHash, hashByHeight, known, utxoSet, disk, pc, work, queue, crashes>>

(* The orphans of the next parent leave the pool. *)
NextParent ==
  /\ pc = "orphans" /\ toProcess = {} /\ queue # << >>
  /\ toProcess' = {o \in orphans : Parent[o] = Head(queue)}
  /\ orphans' = orphans \ toProcess'
  /\ queue' = Tail(queue)
  /\ UNCHANGED <<tipHash, hashByHeight, known, utxoSet, disk, pc, work, crashes>>

(* An orphan fails a check, or its block file cannot be written: dropped. *)
SkipOrphan(b) ==
  /\ NextOrphan(b)
  /\ \/ ~ParentUsable(b)
     \/ b \in BadHeader \cup MayBeEarly
     \/ "WriteBlock" \in Faults
     \/ Parent[b] = tipHash /\ ~TxInputsValid(b, utxoSet)
  /\ toProcess' = toProcess \ {b}
  /\ UNCHANGED <<memory, disk, pc, work, queue, crashes>>

Return ==
  /\ pc = "orphans" /\ toProcess = {} /\ queue = << >>
  /\ pc' = "idle"
  /\ UNCHANGED <<memory, disk, work, todo, crashes>>

-----------------------------------------------------------------------------
(* ProcessBlock takes b.  A block that it rejects changes nothing and is    *)
(* not a step.                                                              *)
ProcessBlock(b) ==
  \/ AddOrphan(b)
  \/ StartExtend(b, "process")
  \/ ExtendUndoFails(b)
  \/ ReorgTooDeep(b, "process")
  \/ StartReorg(b, "process")
  \/ StoreSide(b, "process")

(* A block arrives from a peer, the miner or the RPC server. *)
Receive == \E b \in Blocks : ProcessBlock(b)

(* The steps a started node takes without waiting for anything. *)
NodeStep ==
  \/ GenesisIndex \/ GenesisTip \/ GenesisFlush
  \/ LoadChainstate \/ AdvanceTip \/ Rebuild
  \/ ExtendIndex \/ ExtendPersist \/ ExtendTip \/ ExtendFails \/ ExtendTipFails
  \/ Disconnect \/ Unlink \/ Connect \/ ReorgTip \/ ReorgUndo \/ ReorgDone \/ ReorgFails
  \/ \E b \in toProcess :
       \/ StartExtend(b, "orphan")
       \/ ReorgTooDeep(b, "orphan")
       \/ ReorgUnloadable(b)
       \/ StartReorg(b, "orphan")
       \/ StoreSide(b, "orphan")
       \/ SkipOrphan(b)
  \/ NextParent \/ Return

Next == Receive \/ NodeStep \/ Crash

Spec == Init /\ [][Next]_vars

(* A call that has started goes on: every loop body and every store         *)
(* operation returns.                                                       *)
FairSpec == Spec /\ WF_vars(NodeStep)

-----------------------------------------------------------------------------
(* Types. *)

PCs == {"down", "genTip", "genFlush", "idle", "index", "persist", "tip",
        "disconnect", "connect", "undo", "orphans"}

PartialChain(f) == DOMAIN f \subseteq Nat /\ \A h \in DOMAIN f : f[h] \in Blocks

(* Every variable has the type of the field, record or local it stands for, *)
(* and the orphan pool is within its bound.                                 *)
TypeOK ==
  /\ tipHash \in Blocks \cup {NoBlock}
  /\ PartialChain(hashByHeight)
  /\ known \subseteq Blocks
  /\ orphans \subseteq Blocks
  /\ IsFiniteSet(orphans) /\ Cardinality(orphans) <= MaxOrphanBlocks
  /\ utxoSet \subseteq Coins
  /\ index \in [Blocks -> {"absent", "data", "undo"}]
  /\ diskTip \in Blocks \cup {NoBlock}
  /\ coins \subseteq Coins
  /\ bestBlock \in Blocks \cup {NoBlock}
  /\ pc \in PCs
  /\ cur \in Blocks \cup {NoBlock}
  /\ caller \in {"process", "orphan"}
  /\ recStatus \in {"data", "undo"}
  /\ at \in Nat /\ fork \in Nat
  /\ snapshot.tip \in Blocks \cup {NoBlock}
  /\ PartialChain(snapshot.chain)
  /\ snapshot.known \subseteq Blocks
  /\ snapshot.utxo \subseteq Coins
  /\ queue \in Seq(Blocks)
  /\ toProcess \subseteq Blocks
  /\ crashes \in 0..MaxCrashes

-----------------------------------------------------------------------------
(* Safety. *)

(* No call is in progress: the lock is free and readers see this state. *)
Unlocked == pc = "idle"

(* The UTXO set readers see (TxOutSetInfo, the mempool, validation of the   *)
(* next block) is the one that replaying the active chain gives, whatever   *)
(* reorgs, failed reorgs and failed writes came before.                     *)
UtxoMatchesTip == Unlocked => utxoSet = UtxoAt[tipHash]

(* The active chain is a path from genesis to the tip without gaps or       *)
(* leftovers of an old branch, and each of its blocks is tracked, so the    *)
(* next reorg finds its fork point.                                         *)
ActiveChainLinked ==
  Unlocked => /\ hashByHeight = Path[tipHash]
              /\ \A h \in 0..Height[tipHash] : hashByHeight[h] \in known

(* The deepest block of Path[b] that lies on Path[tipHash] is within        *)
(* MaxReorgDepth of the tip.                                                *)
WithinDepth(b) ==
  \E h \in 0..Height[b] :
    /\ h <= Height[tipHash] /\ Path[b][h] = Path[tipHash][h]
    /\ ~TooDeep(h)

(* No tracked block that is valid all the way down, and whose fork is not   *)
(* too deep, beats the tip: ProcessBlock and processOrphans leave the node  *)
(* on the best chain it knows, in whatever order the blocks came.           *)
BestKnown ==
  Unlocked => \A b \in known : ValidPath(b) /\ WithinDepth(b) => ~Better(b, tipHash)

(* Every block of the active chain above genesis can be disconnected, as    *)
(* long as the process did not crash: reorg refuses to leave a chain with a *)
(* block whose record lacks undo data.                                      *)
UndoAvailable ==
  Unlocked /\ crashes = 0 => \A h \in 1..Height[tipHash] : index[Path[tipHash][h]] = "undo"

(* The chainstate database holds exactly the UTXO set of the block its best *)
(* record names, between any two writes of a process that has not crashed.  *)
ChainstateAtBest == bestBlock # NoBlock /\ crashes = 0 => coins = UtxoAt[bestBlock]

(* Wherever the process ends, Init's walks from the tip record and from the *)
(* best-block record to genesis meet an index record for every block.       *)
DiskWalkable ==
  /\ diskTip # NoBlock => Walkable(diskTip)
  /\ bestBlock # NoBlock => Walkable(bestBlock)

-----------------------------------------------------------------------------
(* Action properties. *)

(* What callers can see of a reorg: the old chain until it has returned.    *)
InReorg == pc \in {"disconnect", "connect", "undo"}

AC == INSTANCE ActiveChain
        WITH tip <- IF InReorg THEN snapshot.tip ELSE tipHash,
             chain <- IF InReorg THEN snapshot.chain ELSE hashByHeight

(* The chain manager implements ActiveChain: every return of ProcessBlock   *)
(* leaves the active chain alone or moves it to a better, valid chain.      *)
ImplementsActiveChain == AC!Spec

-----------------------------------------------------------------------------
(* Liveness. *)

(* Every call returns and every start completes: the lock is free again and *)
(* again.                                                                   *)
LockReleased == []<>Unlocked
=============================================================================
