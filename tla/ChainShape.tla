----------------------------- MODULE ChainShape -----------------------------
(***************************************************************************)
(* Proofs about Chain, for every block tree, every orphan and reorg limit, *)
(* every set of store faults and every number of crashes: facts about      *)
(* paths, the inductive invariant Shape of the in-memory chain, and that   *)
(* the steps outside reorg keep it, one lemma per step: starts and         *)
(* crashes, connecting to the tip, side chains and the orphan pool.        *)
(***************************************************************************)
EXTENDS Chain, FiniteSetTheorems, TLAPS

-----------------------------------------------------------------------------
(* Facts about paths and work. *)

(* The ancestors of a block are blocks, each at its own height, and their   *)
(* paths are prefixes of the block's path.                                  *)
LEMMA PathFacts ==
  ASSUME NEW b \in Blocks, NEW h \in 0..Height[b]
  PROVE  /\ Height[b] \in Nat
         /\ Path[b][h] \in Blocks
         /\ Height[Path[b][h]] = h
         /\ \A g \in 0..h : Path[Path[b][h]][g] = Path[b][g]
         /\ h > 0 => Path[b][h] # Genesis /\ Parent[Path[b][h]] = Path[b][h - 1]
  <1>1. Height[b] \in Nat
    BY HeightAssumption
  <1>2. /\ Path[b] \in [0..Height[b] -> Blocks]
        /\ \A k \in 1..Height[b] : Path[b][k] # Genesis /\ Parent[Path[b][k]] = Path[b][k - 1]
        /\ \A k \in 0..Height[b] : /\ Height[Path[b][k]] = k
                                  /\ \A g \in 0..k : Path[Path[b][k]][g] = Path[b][g]
    BY PathAssumption, Zenon
  <1>3. ASSUME h > 0
        PROVE  Path[b][h] # Genesis /\ Parent[Path[b][h]] = Path[b][h - 1]
    <2>1. h \in 1..Height[b]
      BY <1>1, <1>3
    <2> QED BY <2>1, <1>2, Zenon
  <1> QED BY <1>1, <1>2, <1>3

(* The path of a block is its parent's path and the block. *)
LEMMA PathOfChild ==
  ASSUME NEW b \in Blocks, b # Genesis
  PROVE  /\ Parent[b] \in Blocks
         /\ Height[b] = Height[Parent[b]] + 1
         /\ Height[Parent[b]] \in Nat
         /\ \A h \in 0..Height[Parent[b]] : Path[b][h] = Path[Parent[b]][h]
         /\ Path[b] = Put(Path[Parent[b]], Height[b], b)
  <1>1. Parent[b] \in Blocks /\ Height[b] = Height[Parent[b]] + 1 /\ Height[Parent[b]] \in Nat
    BY TreeAssumption, HeightAssumption
  <1> USE <1>1
  <1>2. Path[b][Height[Parent[b]]] = Parent[b]
    <2>1. Path[b][Height[b]] = b
      BY PathAssumption
    <2>2. Height[b] \in 0..Height[b] /\ Height[b] > 0 /\ Height[b] - 1 = Height[Parent[b]]
      OBVIOUS
    <2>3. Parent[Path[b][Height[b]]] = Path[b][Height[b] - 1]
      BY <2>2, PathFacts
    <2> QED BY <2>1, <2>2, <2>3, Zenon
  <1>3. \A h \in 0..Height[Parent[b]] : Path[b][h] = Path[Parent[b]][h]
    BY <1>2, PathFacts
  <1>4. Path[b] = Put(Path[Parent[b]], Height[b], b)
    <2>1. /\ Path[b] \in [0..Height[b] -> Blocks]
          /\ Path[Parent[b]] \in [0..Height[Parent[b]] -> Blocks]
          /\ Path[b][Height[b]] = b
      BY PathAssumption
    <2>2. 0..Height[b] = (0..Height[Parent[b]]) \cup {Height[b]}
      OBVIOUS
    <2> QED BY <2>1, <2>2, <1>3, Zenon DEF Put
  <1> QED BY <1>3, <1>4

(* A block that beats t is not one of t's ancestors, nor t itself. *)
LEMMA BetterNotOnPath ==
  ASSUME NEW b \in Blocks, NEW t \in Blocks, Better(b, t)
  PROVE  \A h \in 0..Height[t] : Path[t][h] # b
  <1> SUFFICES ASSUME NEW h \in 0..Height[t], Path[t][h] = b PROVE FALSE
    OBVIOUS
  <1>1. CASE h = Height[t]
    BY <1>1, PathAssumption, WorkAssumption DEF Better
  <1>2. CASE h # Height[t]
    <2>1. h \in 0..Height[t] - 1
      BY <1>2, HeightAssumption
    <2> QED BY <2>1, WorkAssumption DEF Better
  <1> QED BY <1>1, <1>2

-----------------------------------------------------------------------------
(* The inductive invariant for the in-memory chain. *)

Extending == pc \in {"index", "persist", "tip"}

AtRest == pc \in {"genFlush", "idle", "orphans"}

(* known has every block of the chain that ends in b, up to height n. *)
Tracks(set, b, n) == \A h \in 0..n : Path[b][h] \in set

(* What the snapshot of a reorg holds, and how the new chain meets the old. *)
SnapshotOK ==
  /\ snapshot.tip \in Blocks
  /\ snapshot.chain = Path[snapshot.tip]
  /\ Tracks(snapshot.known, snapshot.tip, Height[snapshot.tip])
  /\ Better(cur, snapshot.tip)
  /\ fork < Height[cur] /\ fork <= Height[snapshot.tip]
  /\ Path[cur][fork] = Path[snapshot.tip][fork]

(* Where each step of a call finds the tip, the map of the active chain and *)
(* the tracked blocks.                                                      *)
Shape ==
  /\ pc \notin {"down", "genTip"} => tipHash \in Blocks
  /\ Extending \/ InReorg => cur \in Blocks
  /\ AtRest \/ Extending \/ pc = "disconnect" =>
       hashByHeight = Path[tipHash] /\ Tracks(known, tipHash, Height[tipHash])
  /\ Extending => cur # Genesis /\ Parent[cur] = tipHash
  /\ InReorg => SnapshotOK
  /\ pc \in {"disconnect", "connect"} => tipHash = snapshot.tip
  /\ pc = "disconnect" => fork <= at /\ at <= Height[tipHash]
  /\ pc \in {"connect", "undo"} => fork + 1 <= at /\ at <= Height[cur] + 1
  /\ pc = "connect" => /\ hashByHeight = [h \in 0..at - 1 |-> Path[cur][h]]
                       /\ Tracks(known, cur, at - 1)
  /\ pc = "undo" => /\ tipHash = cur /\ hashByHeight = Path[cur]
                    /\ Tracks(known, cur, Height[cur])

(* The values of an empty memory have the right types. *)
LEMMA EmptyFacts ==
  /\ PartialChain(<< >>) /\ << >> \in Seq(Blocks)
  /\ IsFiniteSet({}) /\ Cardinality({}) = 0
  /\ NoSnapshot.tip = NoBlock /\ NoSnapshot.chain = << >>
  /\ NoSnapshot.known = {} /\ NoSnapshot.utxo = {}
  <1>1. PartialChain(<< >>)
    BY DEF PartialChain
  <1>2. IsFiniteSet({}) /\ Cardinality({}) = 0
    BY FS_EmptySet
  <1> QED BY <1>1, <1>2 DEF NoSnapshot

-----------------------------------------------------------------------------
(* Each action keeps the types and the shape. *)

(* The path of a block is a partial chain. *)
LEMMA PathIsPartialChain ==
  ASSUME NEW b \in Blocks
  PROVE  /\ PartialChain(Path[b])
         /\ DOMAIN Path[b] = 0..Height[b]
         /\ \A h \in 0..Height[b] : Path[b][h] \in Blocks
  <1>1. Height[b] \in Nat /\ Path[b] \in [0..Height[b] -> Blocks]
    BY PathAssumption, HeightAssumption
  <1>2. 0..Height[b] \subseteq Nat
    BY <1>1
  <1> QED BY <1>1, <1>2 DEF PartialChain

(* A block with a usable parent is not genesis. *)
LEMMA UsableParent ==
  ASSUME TypeOK, NEW b \in Blocks, ParentUsable(b)
  PROVE  b # Genesis /\ Parent[b] \in Blocks
  BY TreeAssumption DEF ParentUsable, TypeOK

(* A block of a side chain, one too far from the tip to reorganise to        *)
(* included.                                                                *)
LEMMA SideShape ==
  ASSUME TypeOK, Shape, NEW b \in Blocks, NEW who \in {"process", "orphan"},
         ReorgTooDeep(b, who) \/ StoreSide(b, who)
  PROVE  TypeOK' /\ Shape'
  <1>1. /\ pc \in {"idle", "orphans"} /\ pc' = "orphans" /\ known' = known \cup {b}
        /\ UNCHANGED <<tipHash, hashByHeight, orphans, utxoSet, diskTip, coins, bestBlock,
                       work, crashes>>
    BY DEF ReorgTooDeep, StoreSide, WantsReorg, Handles, NextOrphan
  <1>2. index' \in [Blocks -> {"absent", "data", "undo"}]
    <2>1. index \in [Blocks -> {"absent", "data", "undo"}]
      BY DEF TypeOK
    <2>2. StoreRecord(b, who)
      BY DEF ReorgTooDeep, StoreSide
    <2> QED BY <2>1, <2>2 DEF StoreRecord
  <1>3. queue' \in Seq(Blocks) /\ toProcess' \subseteq Blocks
    <2>1. queue \in Seq(Blocks) /\ toProcess \subseteq Blocks
      BY DEF TypeOK
    <2>2. queue' \in {queue, Append(queue, b)} /\ toProcess' = toProcess \ {b}
      BY DEF ReorgTooDeep, StoreSide
    <2> QED BY <2>1, <2>2
  <1>4. TypeOK'
    BY <1>1, <1>2, <1>3 DEF TypeOK, work, PCs
  <1>5. Shape'
    BY <1>1 DEF Shape, work, Extending, AtRest, InReorg, Tracks
  <1> QED BY <1>4, <1>5

(* processOrphans takes an orphan whose branch cannot be loaded. *)
LEMMA UnloadableShape ==
  ASSUME TypeOK, Shape, NEW b \in Blocks, ReorgUnloadable(b)
  PROVE  TypeOK' /\ Shape'
  <1>1. /\ pc = "orphans" /\ tipHash \in Blocks /\ Better(b, tipHash)
        /\ Tracks(known, tipHash, Height[tipHash])
    BY DEF ReorgUnloadable, WantsReorg, Handles, NextOrphan, BeatsTip, Shape, AtRest
  <1>2. Tracks(known', tipHash, Height[tipHash])
    BY <1>1, BetterNotOnPath DEF ReorgUnloadable, Tracks
  <1>3. TypeOK'
    BY DEF ReorgUnloadable, TypeOK, disk, work
  <1>4. Shape'
    BY <1>1, <1>2 DEF ReorgUnloadable, Shape, work, Extending, AtRest, InReorg
  <1> QED BY <1>3, <1>4

(* processOrphans drops an orphan. *)
LEMMA SkipOrphanShape ==
  ASSUME TypeOK, Shape, NEW b \in Blocks, SkipOrphan(b)
  PROVE  TypeOK' /\ Shape'
  <1>1. TypeOK'
    BY DEF SkipOrphan, TypeOK, memory, disk, work
  <1>2. Shape'
    BY DEF SkipOrphan, NextOrphan, Shape, memory, work, Extending, AtRest, InReorg, Tracks
  <1> QED BY <1>1, <1>2

(* processOrphans goes on with the orphans of the next parent. *)
LEMMA NextParentShape ==
  ASSUME TypeOK, Shape, NextParent
  PROVE  TypeOK' /\ Shape'
  <1>1. orphans' \subseteq orphans /\ toProcess' \subseteq Blocks /\ queue' \in Seq(Blocks)
    BY DEF NextParent, TypeOK
  <1>2. IsFiniteSet(orphans') /\ Cardinality(orphans') <= MaxOrphanBlocks
    <2>1. IsFiniteSet(orphans) /\ Cardinality(orphans) <= MaxOrphanBlocks
      BY DEF TypeOK
    <2>2. /\ IsFiniteSet(orphans') /\ Cardinality(orphans') <= Cardinality(orphans)
          /\ Cardinality(orphans) \in Nat /\ Cardinality(orphans') \in Nat
      BY <1>1, <2>1, FS_Subset, FS_CardinalityType
    <2> QED BY <2>1, <2>2, ChainAssumption
  <1>3. TypeOK'
    BY <1>1, <1>2 DEF NextParent, TypeOK, disk, work
  <1>4. Shape'
    BY DEF NextParent, Shape, work, Extending, AtRest, InReorg, Tracks
  <1> QED BY <1>3, <1>4

(* processOrphans returns. *)
LEMMA ReturnShape ==
  ASSUME TypeOK, Shape, Return
  PROVE  TypeOK' /\ Shape'
  <1>1. TypeOK'
    BY DEF Return, TypeOK, memory, disk, work, todo, PCs
  <1>2. Shape'
    BY DEF Return, Shape, memory, work, Extending, AtRest, InReorg, Tracks
  <1> QED BY <1>1, <1>2

(* ConnectBlock, and the undo data of the block. *)
LEMMA StartExtendShape ==
  ASSUME TypeOK, Shape, NEW b \in Blocks, NEW who \in {"process", "orphan"}, StartExtend(b, who)
  PROVE  TypeOK' /\ Shape'
  <1>1. b # Genesis
    BY UsableParent DEF StartExtend, Handles
  <1>2. ConnectBlock(utxoSet, b) \subseteq Coins
    BY UtxoAssumption DEF ConnectBlock, TypeOK
  <1>3. TypeOK'
    BY <1>2 DEF StartExtend, TypeOK, disk, PCs
  <1>4. pc \in {"idle", "orphans"}
    BY DEF StartExtend, Handles, NextOrphan
  <1>5. Shape'
    BY <1>1, <1>4 DEF StartExtend, Shape, Extending, AtRest, InReorg, Tracks
  <1> QED BY <1>3, <1>5

(* ProcessBlock gives up when the undo data cannot be written. *)
LEMMA UndoFailsShape ==
  ASSUME TypeOK, Shape, NEW b \in Blocks, ExtendUndoFails(b)
  PROVE  TypeOK' /\ Shape'
  <1>1. DisconnectBlock(ConnectBlock(utxoSet, b), b) \subseteq Coins
    BY UtxoAssumption DEF ConnectBlock, DisconnectBlock, TypeOK
  <1>2. TypeOK'
    BY <1>1 DEF ExtendUndoFails, TypeOK, disk, work, todo
  <1>3. Shape'
    BY Zenon DEF ExtendUndoFails, Shape, work, Extending, AtRest, InReorg, Tracks, SnapshotOK
  <1> QED BY <1>2, <1>3

(* The index record of the new tip. *)
LEMMA ExtendIndexShape ==
  ASSUME TypeOK, Shape, ExtendIndex
  PROVE  TypeOK' /\ Shape'
  <1>1. TypeOK'
    BY DEF ExtendIndex, TypeOK, memory, work, todo, PCs, Shape, Extending
  <1>2. Shape'
    BY DEF ExtendIndex, Shape, memory, work, Extending, AtRest, InReorg, Tracks
  <1> QED BY <1>1, <1>2

(* The chainstate batch of the new tip. *)
LEMMA ExtendPersistShape ==
  ASSUME TypeOK, Shape, ExtendPersist
  PROVE  TypeOK' /\ Shape'
  <1>1. cur \in Blocks /\ PersistConnect(coins, utxoSet, cur) \subseteq Coins
    BY UtxoAssumption DEF ExtendPersist, PersistConnect, TypeOK, Shape, Extending
  <1>2. TypeOK'
    BY <1>1 DEF ExtendPersist, TypeOK, memory, work, todo, PCs
  <1>3. Shape'
    BY DEF ExtendPersist, Shape, memory, work, Extending, AtRest, InReorg, Tracks
  <1> QED BY <1>2, <1>3

(* The tip record and extendChain. *)
LEMMA ExtendTipShape ==
  ASSUME TypeOK, Shape, ExtendTip
  PROVE  TypeOK' /\ Shape'
  <1>1. /\ cur \in Blocks /\ cur # Genesis /\ Parent[cur] = tipHash
        /\ hashByHeight = Path[tipHash] /\ Tracks(known, tipHash, Height[tipHash])
    BY DEF ExtendTip, Shape, Extending
  <1> USE <1>1
  <1>2. hashByHeight' = Path[cur]
    BY PathOfChild DEF ExtendTip
  <1>3. Tracks(known', cur, Height[cur])
    <2>1. Path[cur][Height[cur]] = cur
      BY PathAssumption
    <2> SUFFICES ASSUME NEW h \in 0..Height[cur] PROVE Path[cur][h] \in known'
      BY DEF Tracks
    <2>2. CASE h = Height[cur]
      BY <2>1, <2>2 DEF ExtendTip
    <2>3. CASE h # Height[cur]
      <3>1. h \in 0..Height[tipHash] /\ Path[cur][h] = Path[tipHash][h]
        BY <2>3, PathOfChild
      <3> QED BY <3>1 DEF ExtendTip, Tracks
    <2> QED BY <2>2, <2>3
  <1>4. TypeOK'
    BY <1>2, PathIsPartialChain, EmptyFacts DEF ExtendTip, TypeOK, Finish, PCs
  <1>5. Shape'
    BY <1>2, <1>3 DEF ExtendTip, Finish, Shape, Extending, AtRest, InReorg
  <1> QED BY <1>4, <1>5

(* The connection is undone after a failed write. *)
LEMMA ExtendFailsShape ==
  ASSUME TypeOK, Shape, ExtendFails
  PROVE  TypeOK' /\ Shape'
  <1>1. Extending /\ cur \in Blocks /\ DisconnectBlock(utxoSet, cur) \subseteq Coins
    BY UtxoAssumption DEF ExtendFails, DisconnectBlock, TypeOK, Shape, Extending
  <1>2. TypeOK'
    BY <1>1, EmptyFacts DEF ExtendFails, TypeOK, Finish, Resume, disk, todo, PCs
  <1>3. Shape'
    BY <1>1
    DEF ExtendFails, Finish, Resume, Shape, Extending, AtRest, InReorg, Tracks
  <1> QED BY <1>2, <1>3

(* The tip record cannot be written. *)
LEMMA TipFailsShape ==
  ASSUME TypeOK, Shape, ExtendTipFails
  PROVE  TypeOK' /\ Shape'
  <1>1. TypeOK'
    BY EmptyFacts DEF ExtendTipFails, TypeOK, Finish, Resume, memory, disk, todo, PCs
  <1>2. Shape'
    BY DEF ExtendTipFails, Finish, Resume, memory, Shape, Extending, AtRest, InReorg, Tracks
  <1> QED BY <1>1, <1>2

(* The initial state has the right types and shape. *)
LEMMA InitShape == Init => TypeOK /\ Shape
  <1> SUFFICES ASSUME Init PROVE TypeOK /\ Shape
    OBVIOUS
  <1>1. TypeOK
    BY EmptyFacts, ChainAssumption DEF Init, TypeOK, PCs
  <1>2. Shape
    BY DEF Init, Shape, Extending, AtRest, InReorg
  <1> QED BY <1>1, <1>2

(* The index record of genesis. *)
LEMMA GenesisIndexShape ==
  ASSUME TypeOK, Shape, GenesisIndex
  PROVE  TypeOK' /\ Shape'
  BY TreeAssumption
  DEF GenesisIndex, TypeOK, Shape, memory, work, todo, PCs, Extending, AtRest, InReorg

(* The tip record of genesis. *)
LEMMA GenesisTipShape ==
  ASSUME TypeOK, Shape, GenesisTip
  PROVE  TypeOK' /\ Shape'
  <1>1. Path[Genesis][0] = Genesis /\ Height[Genesis] = 0 /\ Genesis \in Blocks
    BY PathAssumption, HeightAssumption, TreeAssumption
  <1> USE <1>1
  <1>2. Tracks({Genesis}, Genesis, 0)
    BY DEF Tracks
  <1>3. UtxoAt[Genesis] \subseteq Coins
    BY UtxoAssumption
  <1>4. TypeOK'
    BY <1>3, PathIsPartialChain DEF GenesisTip, TypeOK, work, todo, PCs
  <1>5. Shape'
    BY <1>2 DEF GenesisTip, Shape, Extending, AtRest, InReorg
  <1> QED BY <1>4, <1>5

(* The chainstate of genesis. *)
LEMMA GenesisFlushShape ==
  ASSUME TypeOK, Shape, GenesisFlush
  PROVE  TypeOK' /\ Shape'
  <1>1. TypeOK'
    BY TreeAssumption DEF GenesisFlush, TypeOK, memory, work, todo, PCs
  <1>2. Shape'
    BY DEF GenesisFlush, Shape, memory, work, todo, Extending, AtRest, InReorg, Tracks
  <1> QED BY <1>1, <1>2

(* Init: the three ways to start from an existing database. *)
LEMMA BootShape ==
  ASSUME TypeOK, Shape, LoadChainstate \/ AdvanceTip \/ Rebuild
  PROVE  TypeOK' /\ Shape'
  <1>1. ASSUME NEW t \in Blocks, Boot(t), Walkable(t),
               utxoSet' \subseteq Coins, diskTip' \in Blocks, coins' \subseteq Coins,
               bestBlock' \in Blocks \cup {NoBlock}
        PROVE  TypeOK' /\ Shape'
    <2> USE <1>1
    <2>1. Tracks(HaveData, t, Height[t])
      BY PathFacts DEF Walkable, Tracks, HaveData
    <2>2. TypeOK'
      BY PathIsPartialChain DEF Boot, TypeOK, work, todo, PCs, HaveData
    <2>3. Shape'
      BY <2>1 DEF Boot, Shape, Extending, AtRest, InReorg
    <2> QED BY <2>2, <2>3
  <1>2. CASE LoadChainstate
    BY <1>1, <1>2 DEF LoadChainstate, Boot, TypeOK
  <1>3. CASE AdvanceTip
    BY <1>1, <1>3, Zenon DEF AdvanceTip, ChainstateAhead, HaveData, TypeOK
  <1>4. CASE Rebuild
    BY <1>1, <1>4, UtxoAssumption, Zenon DEF Rebuild, Boot, TypeOK
  <1> QED BY <1>2, <1>3, <1>4

(* A crash. *)
LEMMA CrashShape ==
  ASSUME TypeOK, Shape, Crash
  PROVE  TypeOK' /\ Shape'
  <1>1. TypeOK'
    BY EmptyFacts, ChainAssumption DEF Crash, TypeOK, disk, PCs
  <1>2. Shape'
    BY DEF Crash, Shape, Extending, AtRest, InReorg
  <1> QED BY <1>1, <1>2

(* The orphan pool stays within its bound: a full pool loses one first. *)
LEMMA AddOrphanShape ==
  ASSUME TypeOK, Shape, NEW b \in Blocks, AddOrphan(b)
  PROVE  TypeOK' /\ Shape'
  <1>1. PICK expired \in SUBSET (orphans \cap MayExpire) :
          LET young == orphans \ expired IN
          IF Cardinality(young) >= MaxOrphanBlocks
          THEN \E o \in young : orphans' = (young \ {o}) \cup {b}
          ELSE orphans' = young \cup {b}
    BY Zenon DEF AddOrphan
  <1> DEFINE young == orphans \ expired
  <1>2. /\ young \subseteq Blocks /\ IsFiniteSet(young)
        /\ Cardinality(young) \in Nat /\ Cardinality(young) <= MaxOrphanBlocks
    <2>1. IsFiniteSet(orphans) /\ Cardinality(orphans) <= MaxOrphanBlocks /\ orphans \subseteq Blocks
      BY DEF TypeOK
    <2>2. /\ IsFiniteSet(young) /\ Cardinality(young) <= Cardinality(orphans)
          /\ Cardinality(young) \in Nat /\ Cardinality(orphans) \in Nat
      BY <2>1, FS_Subset, FS_CardinalityType
    <2> QED BY <2>1, <2>2, ChainAssumption
  <1> USE <1>2
  <1>3. /\ orphans' \subseteq Blocks /\ IsFiniteSet(orphans')
        /\ Cardinality(orphans') <= MaxOrphanBlocks
    <2>1. CASE Cardinality(young) >= MaxOrphanBlocks
      <3>1. PICK o \in young : orphans' = (young \ {o}) \cup {b}
        BY <1>1, <2>1
      <3>2. IsFiniteSet(young \ {o}) /\ Cardinality(young \ {o}) = Cardinality(young) - 1
        BY FS_RemoveElement, Zenon
      <3>3. /\ IsFiniteSet((young \ {o}) \cup {b})
            /\ \/ Cardinality((young \ {o}) \cup {b}) = Cardinality(young \ {o})
               \/ Cardinality((young \ {o}) \cup {b}) = Cardinality(young \ {o}) + 1
        BY <3>2, FS_AddElement, Zenon
      <3> HIDE DEF young
      <3> QED BY <3>1, <3>2, <3>3, ChainAssumption
    <2>2. CASE ~(Cardinality(young) >= MaxOrphanBlocks)
      <3> USE <2>2
      <3>1. orphans' = young \cup {b}
        BY <1>1
      <3>2. /\ IsFiniteSet(young \cup {b})
            /\ \/ Cardinality(young \cup {b}) = Cardinality(young)
               \/ Cardinality(young \cup {b}) = Cardinality(young) + 1
        BY FS_AddElement
      <3> HIDE DEF young
      <3> QED BY <3>1, <3>2, ChainAssumption
    <2> QED BY <2>1, <2>2
  <1>4. TypeOK'
    BY <1>3 DEF AddOrphan, TypeOK, disk, work, todo
  <1>5. Shape'
    BY Zenon DEF AddOrphan, Shape, work, Extending, AtRest, InReorg, Tracks, SnapshotOK
  <1> QED BY <1>4, <1>5
====
