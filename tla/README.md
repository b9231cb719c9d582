# A TLA+ model of the fairchain node

This directory holds TLA+ modules that model fairchain, the TLC configurations
that check them on small instances, and theorems with proofs that TLAPS checks
for every value of the constants.  Every definition is a translation of the Go
code; `PROJECT.json` maps each one to the lines it stands for.

## The system

A fairchain node is one Go process.

| Part | Code | What it holds | Model |
|---|---|---|---|
| Chain manager | `internal/chain` | active chain, block index, orphan pool, UTXO set | `Chain`, `BlockTree`, `ActiveChain`, `Delivery` |
| UTXO set | `internal/utxo` | unspent outputs, undo data | operators of `Chain` and `Node` |
| Block store | `internal/store` | block and undo files, block index, chainstate | `Store`; the disk variables of `Chain` |
| Legacy store | `internal/store/bolt.go`, `cmd/node` | a Bolt file that is migrated once | `Store` |
| Validation | `internal/consensus`, `internal/script` | none | `Headers`, `TxRules`, `Script`; constants of `BlockTree` |
| Mempool | `internal/mempool` | pending transactions, spent outpoints | `Mempool` |
| Miner, RPC, start-up | `internal/miner`, `internal/rpc`, `cmd/node` | the template being mined | `Node`, as threads |
| Connection manager, peers | `internal/p2p` | connections, bans, inventories, sync state | `Peers`, `Sync`, `Node`, `Delivery` |
| Seen-hash sets | `internal/p2p/manager.go` | hashes already handled | `BoundedHashSet` |
| Wallet | `internal/wallet/hdwallet.go` | keys, lock state, `wallet.json` | `Wallet` |
| Transaction builder | `internal/wallet/txbuilder.go` | none | `Coins` |
| Network time | `internal/timeadjust` | offsets of peers | `Clock` |
| Crypto, encodings | `internal/crypto`, `types`, `protocol` | none | `Encoding`; compact targets, Merkle roots and signing in `Headers`, `TxRules`, `Script`; hashes and keys are not modelled |
| Logging, metrics, tools | `internal/logging`, `cmd/cli`, ... | none | not modelled |

Blocks reach `Chain.ProcessBlock` from three callers on their own goroutines:
the peers (`Manager.handleBlock`), the miner and the RPC server.
`ProcessBlock` holds the chain's write lock from beginning to end, so calls do
not interleave with each other; what can come between two steps of a call is a
failing store operation or the end of the process.  `Chain` is about these, and
its proofs are the core of the development.  Around it everything interleaves:
the mempool reads the UTXO set under a lock of its own, also in the middle of a
reorg, and the callers update seen sets and mempool after `ProcessBlock` has
returned.  `Node` is about this.

## Modules

* `BlockTree` - the blocks that exist, as a tree given by constants: parent,
  height, work, order of hashes, outputs created and spent, the UTXO set after
  replaying a branch, and the sets of blocks whose header or transactions fail
  a check.  Named assumptions state the recurrences; `MCTrees` computes the
  functions for concrete trees and TLC evaluates the assumptions on them.
* `Chain` - the chain manager.  Memory (`tipHash`, `hashByHeight`, `known` for
  the keys of `heightByHash`, `orphans`, `utxoSet`), disk (`index`, `diskTip`,
  `coins`, `bestBlock`) and the call in progress (`pc` and the locals of
  `ProcessBlock`, `reorg` and `processOrphans`).  An action is the code from one
  database write to the next, so `Crash` can fall between any two writes.
* `ActiveChain` - what the chain manager promises, with two variables: the
  active chain moves, in one step, to a better chain that is valid from genesis
  and forks off within `MaxReorgDepth`.
* `Delivery` - the chain manager behind `handleBlock`: a block from a peer
  reaches `ProcessBlock` only if its hash is not in `seen`, the mark is taken
  back when `ProcessBlock` returns an error (an orphan is one, a side chain is
  not), and `submitblock` does not look at the set.  `Chain`'s actions, unchanged,
  with this one variable around them; it is where the fairness of delivery is
  stated, and `Converges`.
* `MCTrees` - the trees TLC uses; `MCChain` and `MCDelivery` take theirs from it.
* `BoundedHashSet` - `boundedHashSet` of the connection manager.
* `Mempool` - the mempool's state and operations, over a UTXO set that is given
  to each of them.
* `Node` - a peer's handler, the miner and the RPC server around one chain and
  one mempool.  Each thread has a program counter: `ProcessBlock` takes the
  chain's lock and is split at the points where the shared UTXO set changes (a
  block disconnected or connected by a reorg, an orphan connected), since
  `AddTx` can run in between; after it come `Forget`, `RemoveConfirmed`,
  `UpdateHeight` and `Relay`, one step each.  The miner reads tip, header and
  transactions in three steps.  `view` is the set the mempool's pointer refers
  to: `restoreSnapshot` gives the chain another one.  `coins` and `best` are the
  chainstate, flushed with each block connected or disconnected, `undo` the
  blocks with undo data: `Restart` is `Init`, which loads the chainstate, follows
  it, or rebuilds the set, whatever a failed reorg left there.  The store is
  perfect here; its faults are `Chain`'s matter.
* `Peers` - connections from dial or accept to the end of their handler, the
  table by address, slots, eviction, backoff, misbehaviour scores and bans, and
  the heights `IsSyncing` uses.  `Close` is two steps, the test of the channel
  and its closing.
* `Sync` - two nodes and the queues between them: handshake, `getblocks` with
  its locator, `inv`, `getdata`, blocks sent in answer or as relay, the throttle,
  the rate limit, and connections that break.  The peer is ahead of us; we have
  a branch of our own from `Fork` to `Own`.
* `Headers`, `TxRules`, `Coins`, `Script`, `Clock` - functions of their input:
  the header rules with the compact targets, transaction and block rules with
  the Merkle root and the miner's template, the wallet's coin selection, the
  script engine, network time.  Integers have a width and wrap, bytes are digits
  of a small base.
* `Encoding` - the varint and, over it, the writers and readers of transactions,
  blocks, messages and undo data.  A field of fixed width is one byte; a reader
  keeps what is left, what was read and whether a read failed, and what a Go
  function reads is given as the sequence of the formats of its fields.
* `Store` - the block and undo files as sequences of cells, the index records,
  and the two programs that write them: the migration, and the node, which stores
  genesis where it finds no tip record, then blocks on any stored parent, a block
  that has a record again where a reorg has untracked it, and undo data of blocks
  that a reorg connects.
* `MCNode`, `MCPeers`, `MCRules`, `MCStore` - their instances.
* `Wallet` - the HD wallet.  Memory (`lockState` for `encrypted` and `locked`, `timer`
  for `unlockUntil`, `seed`, `mnemonic`, `keys`, `next`), the file `wallet.json`,
  and the history of addresses given out.  Every method holds the wallet's lock,
  so a method is an action; its last step is the write of the file, which
  succeeds, fails, or leaves the file empty or broken because `os.WriteFile`
  truncates first.  Methods that return an error before they change anything
  are not steps.  The model assumes that an encrypted file has no plaintext
  seed beside the blob: no code in the repository writes such a file.
* `ChainShape`, `ChainProofs`, `ChainTipProofs`, `ChainIndexProofs`, `StoreProofs`,
  `NodeChainProofs`, `NodeProofs`, `PeersWalletProofs` - the theorems.

### How Chain corresponds to chain.go

| Code | Actions |
|---|---|
| `Init`, `initGenesis` | `GenesisIndex`, `GenesisTip`, `GenesisFlush` on an empty disk; else `LoadChainstate`, `AdvanceTip` or `Rebuild`, which share `Boot` |
| `ProcessBlock` up to the fork choice | `ProcessBlock(b)`: `AddOrphan`, `StartExtend`, `ExtendUndoFails`, `ReorgTooDeep`, `StartReorg`, `StoreSide` |
| extending the tip | `ExtendIndex`, `ExtendPersist`, `ExtendTip` and the error paths `ExtendFails`, `ExtendTipFails` |
| `reorg` | `StartReorg`, `Disconnect`, `Unlink`, `Connect`, `ReorgTip`, `ReorgUndo`, `ReorgDone`; `ReorgFails` is `restoreSnapshot` |
| `processOrphans` | `NextParent`, the actions above with caller `"orphan"`, `ReorgUnloadable`, `SkipOrphan`, `Return` |
| `restoreSnapshot` and the side-chain paths | `ReorgFails`, `ReorgTooDeep` |

A block that `ProcessBlock` rejects changes nothing and is not a step.  Reads
under the read lock are not actions: properties about what readers see are
stated for states in which the lock is free.  The store's write operations may
fail (`Faults`); an error when *reading* a block, a header or undo data from the
store is not modelled.

## Runs

CHECK_DEADLOCK is off where the system may stop: a node that has all blocks
waits for ever, bounds stop the store and the rules, and a broken `wallet.json`
is never opened again.  `node` and `peers` run with it on.

| Run | Instance | Shows |
|---|---|---|
| `chain_faults` | tree `Wide`: three branches at two forks, one with a block that does not connect, one heavier; `MaxReorgDepth` 2; every store operation but `PutChainTip` may fail | `UtxoMatchesTip`, `ActiveChainLinked`, `BestKnown`, refinement of `ActiveChain` |
| `chain_crash` | tree `Triple`: two branches of three blocks and a block with a bad header, each from peers or through submitblock; orphan pool of 2; one crash anywhere, no failing store operation; `DeliverySpec` | `UtxoMatchesTip` and `LockReleased`; before a crash `UndoAvailable` and `ChainstateAtBest`; without a crash `Converges` |
| `chain_disk` | tree `Fork`; every store operation may fail, one crash anywhere, `MaxReorgDepth` 1 | `DiskWalkable` |
| `node` | two branches with conflicting transactions, a block that does not connect, a reorg that is too deep; one handler, the miner, the RPC server; one restart on the chainstate as it is | `SpentIndexExact`, `SeenIsStored`, `ConfirmedStayOut` |
| `peers` | four connections of one remote host: two outbound ones to a seed, one inbound from the same node, one more inbound for a single slot, in pairs; blocks of the height their versions tell and of a greater one | `TableIsLive`, `TrackedUntilReturn`, `BestHeightSound`, `SeedComesBack` |
| `sync` | a peer of four blocks, a fork one block below our tip, batches of 2, one break | `HandshakeInStep`, `CatchesUp` |
| `rules` | every input of the sets in `MCRules`, chains of six headers, a seen set of capacity 2 | the properties of the next table |
| `store` | a legacy chain of two blocks and one of the node's, files of one or two blocks, one crash, one failing write, one reorg's undo data | `RecordsReadBack`, `UndoReadsBack`, `RecordsAddUp` |
| `wallet` | two keys per chain, one importable key, two seeds; every write may fail or be cut short | `IssuedRecoverable`, `KeysInOrder`, `StaysEncrypted` |

| Property of `rules` | Says |
|---|---|
| `CompactSound` | a target that goes through its compact form is not larger, loses its low digits only, and has the same form again |
| `TargetInRange` | every accepted header has a positive target within the limit, so that it adds work, and moves it by a factor of four at most; `CalcNextBits` may ask for a target of zero, which no hash meets |
| `MedianAdvances`, `MinerInTime` | the median time past never goes back; a miner's own timestamp passes the check |
| `NoInflation` | an accepted block pays out no more than it spends and the subsidy, with sums that wrap |
| `BodyBound` | two bodies that pass under one Merkle root are equal |
| `MinedBlockValid` | what the pool admitted one by one makes a block that is accepted |
| `PaymentAdmitted` | a payment pays its amount and a fee between that of its size and that of a change output and dust more, and is admitted where that fee is enough to be relayed |
| `RefusedOnlyIfShort` | the wallet refuses only what no choice of its coins pays with a change output's price to spare, and its balance is what the pool lets it spend |
| `OnlyOwnerSpends` | a P2PKH output is spent exactly by scripts that leave the owner's signature and key |
| `OneEncoding` | what is written reads back, a cut encoding is refused, and bytes that read as a value are the ones it is written as (a reader stops at the end of the value; what follows it is not looked at) |
| `MajorityClock` | peers near our clock, if they are the majority, keep it there |
| `MembersQueued` | every member of a seen set is in its queue |

The runs that end in a violation show where the code and its comments part:

| Run | Comment | What happens |
|---|---|---|
| `crash_in_reorg` | chain.go:783, a crash mid-reorg leaves the chainstate consistent | the recovery only adds to the chainstate; outputs of the interrupted reorg stay, and the second start loads them |
| `sync_ban` | peer.go:265, the rate limit is for a peer that floods | one answer is up to 500 blocks and the limit 500 messages in ten seconds: a peer that answers twice in a window is banned for a day |
| `sync_stuck` | chain.go:371, the locator works when chains have diverged significantly | the locator does not change while our tip stays, so a peer whose branch does not win with one batch above the common hash sends that batch again and again; with 500 blocks a batch this begins at forks 266 blocks deep |

**Relatives without a run**, met in the same models or while translating.

*Chain.*  When `PutChainTip` fails after the block was connected, the UTXO set
stays ahead of the tip (chain.go:589, against the comment at 580).  After a
crash behind the tip record of a reorg its blocks never get undo data
(chain.go:876), and a block that was stored and not connected before a crash
counts as tracked and is never connected (chain.go:117, against 442):
`UndoAvailable` is stated for the time before a crash and `Converges` for
behaviours without one for these reasons.  After a failed reorg the chainstate
keeps what `reorg` flushed; in `chain_crash` no reorg fails before a crash, and
the theorem on `ChainstateAtBest` has this as a premise.  A reorg inside
`processOrphans` drops the queue of parents and the siblings already taken from
the pool, so that `Converges` can fail on trees with more branches than `Triple`.  `Init` compares heights, so that after a crash before
`PutChainTip` of a reorg between chains of equal height it rebuilds the old
chain instead of advancing the tip (chain.go:864).

*Delivery.*  A block untracked by a reorg stays in the seen set
(manager.go:1258), so that `handleBlock` drops it however often it is asked for
and served, until it is pushed out of the set or a restart: against the comment at
chain.go:439, "orphans and rejected blocks must remain requestable so the node can
converge after reorgs".  When its branch grows to be the best chain again, the
node misses a block of it and stays where it is.  `Converges` excepts the chains
of which a stored block is marked and untracked for ever (`Takes`), and nothing
else; without this premise TLC finds it violated on the tree of `chain_crash`.

*Node.*  Every failed reorg, one that is only too deep included, gives the chain
a new UTXO set (chain.go:730) while the mempool keeps the old one until the next
start: `ConfirmedStayOut` ends there (`view.live`), and nothing is said of what
the pool admits from then on.  A failed reorg also leaves the chainstate where
its last flush was.  If the tip is extended before the next restart, the
chainstate's best block is the tip again and its outputs are not the tip's, and
`Init` loads them as they are: `sound` is false of such a start, and
`ConfirmedStayOut` is about the others.  The same happens to a second restart
after `rebuildUtxoSet`, which only adds to the chainstate (`crash_in_reorg`).
Only the received block's transactions leave the pool, not those of orphans
connected behind it or of the other blocks of a reorg (manager.go:1325); these
are not in `cleared`.  A pool transaction that conflicts with a confirmed block is
not removed, and later templates that hold it are refused.

*Peers.*  Two goroutines in `Close` can both find the channel open, and the
second panics (peer.go:410; `Panic` in the model ends the process).  Two
connections with one address lose a table entry (manager.go:762).  A pong is never overdue, because
each ping, every two minutes, starts the twenty minutes again (peer.go:84).
With `MaxInbound` 0 `maybeEvictInbound` has no peer to choose from.

*Sync.*  A block mined while a connection shakes hands is not announced on it;
`SyncTick` makes up for it.  A send queue shorter than a batch would make the
node ask for the same blocks for ever; the real one holds two batches.

*Rules.*  `BlockTemplate` takes the whole pool whatever its size, and a coinbase
that pays nothing is refused: `MinedBlockValid` has both as premises.  A miner
whose clock is behind the median makes timestamps that are refused.  The sum of
amount and fee in `selectCoins` wraps near 2^64; the pool refuses what results.
The builder does not look at `MinRelayTxFee`: with the wallet's default of one unit
a byte (wallet_rpc.go:70) a payment with one input and two outputs pays 226, and
mainnet's pool wants 1000 (networks.go:93); `PaymentAdmitted` has the relay fee as
a premise.  `selectCoins` asks for the fee of two outputs where the comment at
txbuilder.go:69 says one, so that a payment without change and with nothing to
spare is refused: the last term of `RefusedOnlyIfShort`.  `CalcNextBits` has no
least target: from a target below four it may come to zero, and then no header is
valid; mainnet's targets start with 236 bits, so that this is far away.
`BuildTransaction` does not know which coins the pool already spends.  Samples
of network time count per address with port.

*Store.*  A failed append leaves `curSize` behind the file, and records written
until the next start have wrong offsets: the exception of `RecordsReadBack`.
The migration of a chain of genesis only counts its work twice; the model
assumes a longer one.  A block that is stored again, or migrated again, gets a new
record, without the undo data the old one had if it is stored as a side block; its
old cells stay in the file.  The migration writes its tip over whatever tip the
node had.

*BoundedHashSet.*  Queue entries left by `Remove` make `Add` evict nothing, so
that the set outgrows its capacity (manager.go:88).

*Wallet.*  An unlock that follows a lock leaves the mnemonic empty until the
next start (the zeroed seed counts as loaded, hdwallet.go:901); an empty
`wallet.json` counts as no wallet, so that a start after a write that was cut
short generates a new seed.  A `wallet.json` that cannot be read counts as no
wallet as well (hdwallet.go:103, against the comment at 92, "If no wallet exists, a
new 24-word mnemonic is generated"): the new wallet is written over the old file,
encrypted or not, in the clear.  So an encrypted file may become a plain one, and
`StaysEncrypted` says that it is never one with the same seed.  The loss of a seed
with its file is not excluded by any property: `IssuedRecoverable` is about the
seed that the file holds.

**Bounds.**  Five to nine blocks.  Two branches with a fork at genesis are
enough for a reorg to disconnect and connect several blocks, three branches for
a reorg to meet the leftovers of an earlier one, and a block that does not
connect at the second or third place of its branch for a reorg to fail half-way.
One crash reaches every point of every call, two crashes reach a recovery from a
recovery.  An orphan pool of two is full with two blocks missing their parent.
In `Node` one handler, the miner and the RPC server are three callers with
different code, and two transactions that spend one output are the least that
conflict.  In `Peers` two connections at a time are enough for one to take the
other's table entry or slot.  In `Sync` four blocks are two batches, and a rate
limit of one batch is the code's ratio.  In `Store` three blocks fill two files
and a block stored again a third; one crash or one failing write tears a block
before the next one, the node's before or after the migration's.  With a second
crash the space has more than ten times the states and nothing that the proofs,
which have no bound, do not cover.  In `rules` the widths are
such that sums wrap, targets reach the sign bit, halvings reach zero and the
limits of script and sample sizes are met.  Bytes are numbers below five and
the markers of a varint are followed by one, two and three of them, so that
lengths of two and five are the first of the second and the third form; the
fourth, for lengths from 25, is met by reading every string of four bytes.  In the wallet, two indices per chain
are enough for a saved key to follow one whose save failed, and two seeds for a
file to be replaced by that of another.

**Fairness.**  In `Chain`, `FairSpec` is weak fairness of `NodeStep`: a call
that has started goes on, because its steps wait for nothing but the store.
`Crash` and the arrival of blocks are not fair.  `DeliverySpec` adds strong
fairness of `Deliver(b)` for each block: peers announce a block and serve it
again as long as `HasBlockOnChain` says no (`handleInv`, `syncLoop`), and the lock
is free infinitely often.  `Deliver(b)` is what `handleBlock` does with a block that
is not marked as seen, so nothing is assumed of a block that it drops; `Submit` is
not fair.  In `Peers` a
handler ends its handshake by an answer or its deadline, sees that its
connection is closed and runs its deferred function; backoffs and bans run out
by the clock; the ticker of `reconnectLoop` goes on, and, strongly fair, a seed
that is dialled again and again is reached and registered at some time.  In
`Sync` both nodes handle what they receive, `reconnectLoop` and `syncLoop` keep
ticking, throttle and ban run out; connections break only `MaxBreaks` times,
and nothing is assumed of the rate window.

`BestKnown` speaks of blocks whose fork is within `MaxReorgDepth`.  A block
stored because its fork was too deep is not reconsidered by the code when the
tip moves.  This matters for trees in which a short branch is heavy: a reorg to
a lower block brings a better chain within the limit again, and nothing goes
there.  With such a tree TLC finds `BestKnown` violated; the tree of
`chain_faults` is not one, and the theorem has the condition as a premise.

## Theorems

For every value of the constants: every tree of blocks, every set of faults not
excluded by name, every bound, any number of threads, connections and keys.  Each
theorem states a property that a run checks on a small instance.  A step lemma
stands for one action or a group of similar ones, and the last lemma of an
argument joins them.

**Chain.**  `ChainShape` states `Shape` and proves the facts about paths and the
steps outside a reorg; `ChainProofs` has the steps of a reorg.  Whatever fails
or crashes:

* `TypeCorrect`, `ChainAlwaysLinked` (`ChainProofs`).  `ActiveChainLinked` is
  not inductive: it says nothing while a call is in progress.  `Shape`
  strengthens it by what each step of a call relies on: while a reorg runs, the
  snapshot holds a linked chain and the fork lies on both chains; while it
  disconnects, the maps are still the old chain's; while it connects, they are
  the new chain's up to `at`.
* `DiskAlwaysWalkable` (`ChainIndexProofs`).  `DiskInv`: every record's ancestors
  have records, and the block in progress has one before the chainstate or the
  tip names it.

Assuming `Steady`, which is no crash and no failing `PutChainTip`.  Neither half
can be dropped: see `crash_in_reorg`, and chain.go:589 above.

* `UtxoAlwaysMatches` (`ChainProofs`).  `UtxoInv` says which block's UTXO set memory
  holds at every step of a call and up to where the two chains are valid.
* `ChainRefinesActiveChain` (`ChainTipProofs`): every step maps to `Start`, `Adopt`
  or a stutter of `ActiveChain`, where a running reorg still shows its snapshot.
* `BestAlwaysKnown` (`ChainTipProofs`), assuming also `NeverLower`: there is no
  limit on the depth of a reorg, or no permitted reorg goes to a lower block.
  `Fine(b, t)` says that a node at `t` has no reason to go to `b`, and `BestInv`
  that this holds of all known blocks, or, while a reorg runs, of all that its snapshot knows.  The
  core is `FineMoves`: what was fine at `t` is fine at a better block, because
  the fork choice is transitive and a chain within reach of the new tip was
  within reach of the old one.  The last step is the one that needs
  `NeverLower`.
* `ChainstateAlwaysAtBest` (`ChainTipProofs`), of the behaviours in which no reorg
  fails (`NoReorgFails`).  `CoinsInv` names the block of which the chainstate is
  after each write: an extension is one block behind memory until its batch is
  written, a reorg is at the height it works at.  A failed reorg leaves on disk
  what it flushed, so the restriction is needed; nothing else is asked of the
  blocks or of the faults.

Assuming that `WriteUndo` does not fail, with every other fault:

* `UndoAlwaysAvailable` (`ChainIndexProofs`), up to the first crash.  A block that
  is handled again gets a record without undo data, so no block of the active
  chain may be.  `ProcessBlock` ignores tracked blocks, but `processOrphans` does
  not look, and a reorg can connect a block that is still in the orphan pool.
  `UndoInv` has the reason why this is harmless: an orphan whose parent is queued,
  or that was taken from the pool, is never on the active chain (`OffChain`).  The
  premise is needed: `processOrphans` goes on when undo data cannot be written.

**Store** (`StoreProofs`).

* `RecordsAlwaysReadBack`, `UndoAlwaysReadsBack`.  `FilesInv`: every record, also
  the one being built, is `Sound`, and between two appends memory holds the end
  of the last file unless an append failed.  Files only grow, so what a record
  refers to stays where it is.
* `RecordsAlwaysAddUp`.  `AddUpInv`: the block being stored follows its parent's
  record as well, and the migration, or the node that stores genesis, has the
  record of the block below its height, whose work its running work is.  A block
  that is stored again gets the height and the work it had, so that the records
  above it still follow it.  The work is stated by differences, since a sum over
  the chain would need induction over data.

**Node** (`NodeChainProofs`, `NodeProofs`).

* `SpentIndexAlwaysExact`.  `PoolInv` adds that pool and dump hold transactions
  only.
* `SeenAlwaysStored`.  `SeenInv`: who is to relay a block, or holds the chain's
  lock for it, has a stored one, and a mark is of a stored block or of one in the
  hands of a peer's goroutine.
* `ConfirmedAlwaysStayOut`.  A confirmed transaction stays out because `AddTx`
  validates it against a UTXO set in which its inputs are spent, so the invariant
  must say which set that is.  `TipInv`: the tip's, or, inside a reorg, that of the
  block that the rounds of its loops done so far lead to.  `SpentForGood`: what a
  block spent is in no UTXO set further up its chain.  `ClearedInv`: a block that
  was cleared is on the active chain, and its transactions are out unless a reorg
  that leaves the block is running.  All three are claimed of a process whose
  start was `sound` (`SoundInv`): a start either is not, or establishes them anew,
  because the set that the mempool file is validated against is the tip's.

**Peers, seen sets and wallet** (`PeersWalletProofs`).

* `TableAlwaysLive`, `AlwaysTracked`, `BestHeightAlwaysSound`.  The three hold
  together: after `Unregister` the best height has a witness because every table
  entry is live.
* `MembersAlwaysQueued`, for every capacity.
* `IssuedAlwaysRecoverable`.  `FileInv`: the counters in the file and those in
  memory both cover every address given out, since a torn file is written again
  from memory.
* `AlwaysStaysEncrypted`.  `Sealed(s)`, once true, stays true: no plain file has
  seed `s`, and a process that has it in memory knows its wallet to be encrypted;
  new seeds are new.
* `KeysAlwaysInOrder`.  `KeysInv`: without a seed in memory there are imported keys
  only, so an unlock derives the others for the first time.

**Assumptions**, all named, next to the constants, and evaluated by TLC.

* `BlockTree`: the recurrences of heights, paths and the replay of outputs, work
  that grows along a branch, distinct hashes, outputs with new identifiers.
* `Mempool`, `Node`: a transaction has inputs; the inputs of a block's
  transactions are among what the block spends; no output is created twice along
  a valid chain, which is what the height in the coinbase is for
  (validation.go:32).
* `Store`: sizes and work are positive, every block but genesis has a parent among
  the blocks, the legacy chain has distinct blocks, each on the one before, and is
  longer than genesis.
* `Delivery`: no store operation fails, which is `Chain`'s subject.
* `Peers`: an inbound connection shares its address with no other.
* `Wallet`: imported keys are none of the derived ones.

**Only model-checked.**

* Liveness: `LockReleased`, `Converges`, `CatchesUp`, `SeedComesBack`.  It is out of
  the prover's reach.
* `HandshakeInStep` of `Sync`, whose locator is a recursive operator.
* The properties of `rules` other than `MembersQueued`.  Merkle roots, sums and
  readers are folds or recursive operators, whose values for every input need
  induction with an operator as parameter; targets need nonlinear arithmetic.
  Where a proof needs induction for one fixed statement, a least counterexample
  (`LeastElement`) takes its place.

## Not modelled

* Hashing, base58, key derivation, the message header and its checksum: functions
  of bytes.
  Signatures, hashes and keys are terms that are equal only when made alike.
* Address gossip, ping and stall timers of the connection manager.
* Errors when the store *reads*; what a loss of power does to files that were
  not flushed; LevelDB.
* RPC requests other than submitblock and sendrawtransaction, which read state
  or wrap what is modelled.
* The legacy keystore, logging, metrics, configuration, file locks and the
  command-line tools.

What could come next: read errors of the store in `Chain`, and a theorem about the `Sync` handshake once the locator is a
function.
