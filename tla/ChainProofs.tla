---------------------------- MODULE ChainProofs -----------------------------
(***************************************************************************)
(* The steps of reorg keep types and Shape; type correctness and the       *)
(* linked active chain follow.                                             *)
(*                                                                         *)
(* As long as the process does not crash and the tip record can be         *)
(* written, the in-memory UTXO set is the one the active chain replays to. *)
(* Neither assumption can be dropped: TLC has a counterexample for each.   *)
(***************************************************************************)
EXTENDS ChainShape

(* The fork point found by reorg's walk is on both chains. *)
LEMMA ForkFacts ==
  ASSUME TypeOK, tipHash \in Blocks, hashByHeight = Path[tipHash],
         NEW b \in Blocks, NEW f \in 0..Height[b] - 1, ForksAt(b, f)
  PROVE  f <= Height[tipHash] /\ Path[b][f] = Path[tipHash][f]
  <1>1. f \in 0..Height[b] /\ Height[Path[b][f]] = f
    BY PathFacts, HeightAssumption
  <1>2. f \in DOMAIN hashByHeight /\ hashByHeight[f] = Path[b][f]
    BY <1>1, Zenon DEF ForksAt, OnMainChain
  <1>3. f \in 0..Height[tipHash]
    BY <1>2, PathIsPartialChain, Zenon
  <1> QED BY <1>2, <1>3, HeightAssumption

(* reorg is called: it has its fork point and takes its snapshot. *)
LEMMA StartReorgShape ==
  ASSUME TypeOK, Shape, NEW b \in Blocks, NEW who \in {"process", "orphan"}, StartReorg(b, who)
  PROVE  TypeOK' /\ Shape'
  <1>1. /\ pc \in {"idle", "orphans"} /\ tipHash \in Blocks /\ hashByHeight = Path[tipHash]
        /\ Tracks(known, tipHash, Height[tipHash]) /\ Better(b, tipHash)
    BY Zenon DEF StartReorg, WantsReorg, Handles, NextOrphan, BeatsTip, Shape, AtRest
  <1> USE <1>1
  <1>2. fork' \in 0..Height[b] - 1 /\ ForksAt(b, fork')
    BY Zenon DEF StartReorg
  <1>3. /\ fork' \in Nat /\ fork' < Height[b] /\ fork' <= Height[tipHash]
        /\ Path[b][fork'] = Path[tipHash][fork']
    BY <1>2, ForkFacts, HeightAssumption
  <1>4. known' \subseteq Blocks /\ known \subseteq known'
    BY Zenon DEF StartReorg, Tracked, TypeOK
  <1>5. index' \in [Blocks -> {"absent", "data", "undo"}]
    BY Zenon DEF StartReorg, StoreRecord, TypeOK
  <1>6. /\ snapshot'.tip = tipHash /\ snapshot'.chain = hashByHeight
        /\ snapshot'.known = known' /\ snapshot'.utxo = utxoSet
    BY Zenon DEF StartReorg
  <1>7. Height[tipHash] \in Nat
    BY HeightAssumption, Zenon
  <1>8. TypeOK'
    BY <1>3, <1>4, <1>5, <1>6, <1>7, Zenon DEF StartReorg, TypeOK, PCs
  <1>9. SnapshotOK'
    BY <1>3, <1>4, <1>6, Zenon DEF StartReorg, SnapshotOK, Tracks
  <1>10. Shape'
    BY <1>3, <1>4, <1>6, <1>7, <1>9
    DEF StartReorg, Shape, Extending, AtRest, InReorg, Tracks
  <1> QED BY <1>8, <1>10, Zenon

(* One block of the old chain. *)
LEMMA DisconnectShape ==
  ASSUME TypeOK, Shape, Disconnect
  PROVE  TypeOK' /\ Shape'
  <1> DEFINE b == hashByHeight[at]
  <1>1. /\ pc = "disconnect" /\ tipHash \in Blocks /\ hashByHeight = Path[tipHash]
        /\ fork \in Nat /\ at \in Nat /\ at > fork /\ at <= Height[tipHash]
        /\ Height[tipHash] \in Nat
    BY HeightAssumption, Zenon DEF Disconnect, Shape, TypeOK
  <1> USE <1>1
  <1>2. at \in 0..Height[tipHash] /\ at > 0
    OBVIOUS
  <1>3. b \in Blocks /\ Parent[b] \in Blocks
    BY <1>2, PathFacts, TreeAssumption
  <1>4. DisconnectBlock(utxoSet, b) \subseteq Coins /\ PersistDisconnect(coins, b) \subseteq Coins
    BY <1>3, UtxoAssumption, Zenon DEF DisconnectBlock, PersistDisconnect, TypeOK
  <1>5. TypeOK'
    BY <1>3, <1>4 DEF Disconnect, TypeOK, todo
  <1>6. Shape'
    BY DEF Disconnect, Shape, SnapshotOK, Extending, AtRest, InReorg, Tracks
  <1> QED BY <1>5, <1>6, Zenon

(* The old chain leaves the maps. *)
LEMMA UnlinkShape ==
  ASSUME TypeOK, Shape, Unlink
  PROVE  TypeOK' /\ Shape'
  <1>1. /\ pc = "disconnect" /\ tipHash \in Blocks /\ hashByHeight = Path[tipHash]
        /\ Tracks(known, tipHash, Height[tipHash]) /\ cur \in Blocks /\ tipHash = snapshot.tip
        /\ fork \in Nat /\ Height[tipHash] \in Nat /\ Height[cur] \in Nat
        /\ SnapshotOK
    BY HeightAssumption, Zenon DEF Unlink, Shape, TypeOK, InReorg
  <1> USE <1>1
  <1>2. fork <= Height[tipHash] /\ fork < Height[cur] /\ Path[cur][fork] = Path[tipHash][fork]
    BY Zenon DEF SnapshotOK
  <1> USE <1>2
  <1>3. fork \in 0..Height[tipHash] /\ fork \in 0..Height[cur]
    OBVIOUS
  <1>4. \A h \in 0..fork : Path[cur][h] = Path[tipHash][h]
    BY <1>3, PathFacts
  <1>5. hashByHeight' = [h \in 0..fork |-> Path[cur][h]]
    <2>1. DOMAIN hashByHeight = 0..Height[tipHash]
      BY PathIsPartialChain, Zenon
    <2>2. (0..Height[tipHash]) \cap (0..fork) = 0..fork
      OBVIOUS
    <2> QED BY <1>4, <2>1, <2>2, Zenon DEF Unlink, Keep
  <1>6. \A h \in 0..fork : Path[cur][h] \in known'
    <2> SUFFICES ASSUME NEW h \in 0..fork PROVE Path[cur][h] \in known'
      BY Zenon
    <2>1. h \in 0..Height[tipHash] /\ Path[cur][h] = Path[tipHash][h]
      BY <1>4
    <2>2. Path[tipHash][h] \in known /\ Height[Path[tipHash][h]] = h
      BY <2>1, PathFacts, Zenon DEF Tracks
    <2>3. \A g \in fork + 1..Height[tipHash] : Path[tipHash][g] # Path[tipHash][h]
      <3> SUFFICES ASSUME NEW g \in fork + 1..Height[tipHash]
                   PROVE  Path[tipHash][g] # Path[tipHash][h]
        BY Zenon
      <3>1. g \in 0..Height[tipHash] /\ g # h
        OBVIOUS
      <3> QED BY <2>2, <3>1, PathFacts
    <2> QED BY <2>1, <2>2, <2>3, Zenon DEF Unlink
  <1>7. PartialChain(hashByHeight')
    <2>1. \A h \in 0..fork : h \in Nat /\ Path[cur][h] \in Blocks
      BY PathFacts
    <2> QED BY <1>5, <2>1, Zenon DEF PartialChain
  <1>8. TypeOK'
    BY <1>7 DEF Unlink, TypeOK, disk, todo, PCs
  <1>9. /\ pc' = "connect" /\ cur' = cur /\ tipHash' = tipHash /\ fork' = fork
        /\ snapshot' = snapshot /\ at' = fork + 1
    BY Zenon DEF Unlink
  <1>10. SnapshotOK' /\ Tracks(known', cur', at' - 1)
    BY <1>6, <1>9 DEF SnapshotOK, Tracks
  <1>11. Shape'
    BY <1>5, <1>9, <1>10 DEF Shape, Extending, AtRest, InReorg
  <1> QED BY <1>8, <1>11, Zenon

(* One block of the new chain. *)
LEMMA ConnectShape ==
  ASSUME TypeOK, Shape, Connect
  PROVE  TypeOK' /\ Shape'
  <1> DEFINE b == Path[cur][at]
  <1>1. /\ pc = "connect" /\ cur \in Blocks /\ Height[cur] \in Nat
        /\ fork \in Nat /\ at \in Nat /\ fork + 1 <= at /\ at <= Height[cur]
        /\ hashByHeight = [h \in 0..at - 1 |-> Path[cur][h]]
        /\ Tracks(known, cur, at - 1)
    BY HeightAssumption, Zenon DEF Connect, Shape, TypeOK, InReorg
  <1> USE <1>1
  <1>2. at \in 0..Height[cur] /\ b \in Blocks
    BY PathFacts
  <1> USE <1>2
  <1>3. ConnectBlock(utxoSet, b) \subseteq Coins
    BY UtxoAssumption, Zenon DEF ConnectBlock, TypeOK
  <1>4. PersistConnect(coins, utxoSet', b) \subseteq Coins
    BY UtxoAssumption, Zenon DEF PersistConnect, TypeOK
  <1>5. hashByHeight' = [h \in 0..at' - 1 |-> Path[cur'][h]]
    <2>1. (0..at - 1) \cup {at} = 0..at
      OBVIOUS
    <2>2. at' - 1 = at /\ cur' = cur
      BY DEF Connect
    <2>3. hashByHeight' = Put(hashByHeight, at, b)
      BY Zenon DEF Connect
    <2> QED BY <2>1, <2>2, <2>3, Zenon DEF Put
  <1>6. Tracks(known', cur', at' - 1)
    <2> SUFFICES ASSUME NEW h \in 0..at PROVE Path[cur][h] \in known'
      BY DEF Connect, Tracks
    <2>1. CASE h = at
      BY <2>1, Zenon DEF Connect
    <2>2. CASE h # at
      <3>1. h \in 0..at - 1
        BY <2>2
      <3> QED BY <3>1, Zenon DEF Connect, Tracks
    <2> QED BY <2>1, <2>2, Zenon
  <1>7. PartialChain(hashByHeight')
    <2>1. \A h \in 0..at : h \in Nat /\ Path[cur][h] \in Blocks
      BY PathFacts
    <2>2. at' - 1 = at /\ cur' = cur
      BY DEF Connect
    <2> QED BY <1>5, <2>1, <2>2, Zenon DEF PartialChain
  <1>8. TypeOK'
    BY <1>3, <1>4, <1>7 DEF Connect, TypeOK, todo
  <1>9. /\ pc' = "connect" /\ cur' = cur /\ tipHash' = tipHash /\ fork' = fork
        /\ snapshot' = snapshot /\ fork + 1 <= at' /\ at' <= Height[cur] + 1
    BY DEF Connect
  <1>10. SnapshotOK'
    BY <1>9, Zenon DEF Shape, InReorg, SnapshotOK, Tracks
  <1>11. Shape'
    BY <1>5, <1>6, <1>9, <1>10, Zenon DEF Shape, Extending, AtRest, InReorg
  <1> QED BY <1>8, <1>11, Zenon

(* The tip moves to the new chain, whose undo data is written next. *)
LEMMA ReorgTipShape ==
  ASSUME TypeOK, Shape, ReorgTip
  PROVE  TypeOK' /\ Shape'
  <1>1. /\ pc = "connect" /\ cur \in Blocks /\ Height[cur] \in Nat /\ fork \in Nat
        /\ at = Height[cur] + 1 /\ SnapshotOK
        /\ hashByHeight = [h \in 0..at - 1 |-> Path[cur][h]]
        /\ Tracks(known, cur, at - 1)
    BY HeightAssumption, Zenon DEF ReorgTip, Shape, TypeOK, InReorg
  <1> USE <1>1
  <1>2. hashByHeight = Path[cur] /\ Tracks(known, cur, Height[cur])
    <2>1. at - 1 = Height[cur]
      OBVIOUS
    <2>2. Path[cur] \in [0..Height[cur] -> Blocks]
      BY PathAssumption, Zenon
    <2> QED BY <2>1, <2>2, Zenon
  <1>3. fork < Height[cur]
    BY Zenon DEF SnapshotOK
  <1>4. TypeOK'
    BY DEF ReorgTip, TypeOK, todo, PCs
  <1>5. /\ pc' = "undo" /\ cur' = cur /\ tipHash' = cur /\ fork' = fork /\ at' = fork + 1
        /\ UNCHANGED <<snapshot, hashByHeight, known>>
    BY Zenon DEF ReorgTip
  <1>6. SnapshotOK'
    BY <1>5, Zenon DEF SnapshotOK, Tracks
  <1>7. Shape'
    BY <1>2, <1>3, <1>5, <1>6 DEF Shape, Extending, AtRest, InReorg, Tracks
  <1> QED BY <1>4, <1>7, Zenon

(* The undo record of one block of the new chain. *)
LEMMA ReorgUndoShape ==
  ASSUME TypeOK, Shape, ReorgUndo
  PROVE  TypeOK' /\ Shape'
  <1>1. index' \in [Blocks -> {"absent", "data", "undo"}]
    <2>1. index \in [Blocks -> {"absent", "data", "undo"}]
      BY Zenon DEF TypeOK
    <2>2. index' = [index EXCEPT ![Path[cur][at]] = "undo"]
      BY Zenon DEF ReorgUndo
    <2> QED BY <2>1, <2>2, Zenon
  <1>2. TypeOK'
    BY <1>1 DEF ReorgUndo, TypeOK, memory, todo
  <1>3. /\ pc = "undo" /\ at <= Height[cur] /\ at' = at + 1
        /\ UNCHANGED <<pc, cur, fork, snapshot, tipHash, hashByHeight, known>>
    BY Zenon DEF ReorgUndo, memory
  <1>4. cur \in Blocks /\ Height[cur] \in Nat /\ fork \in Nat /\ at \in Nat
    BY <1>3, HeightAssumption, Zenon DEF Shape, InReorg, TypeOK
  <1>5. SnapshotOK'
    BY <1>3, Zenon DEF Shape, InReorg, SnapshotOK, Tracks
  <1>6. Shape'
    BY <1>3, <1>4, <1>5 DEF Shape, Extending, AtRest, InReorg, Tracks
  <1> QED BY <1>2, <1>6, Zenon

(* The return of reorg. *)
LEMMA ReorgDoneShape ==
  ASSUME TypeOK, Shape, ReorgDone
  PROVE  TypeOK' /\ Shape'
  <1>1. /\ cur \in Blocks /\ <<cur>> \in Seq(Blocks) /\ tipHash = cur
        /\ hashByHeight = Path[cur] /\ Tracks(known, cur, Height[cur])
    BY DEF ReorgDone, Shape, InReorg
  <1>2. TypeOK'
    BY <1>1, EmptyFacts, Zenon DEF ReorgDone, Finish, TypeOK, memory, disk, PCs
  <1>3. Shape'
    BY <1>1, Zenon DEF ReorgDone, Finish, Shape, memory, Extending, AtRest, InReorg, Tracks
  <1> QED BY <1>2, <1>3, Zenon

(* restoreSnapshot: the old chain is back, and tracked. *)
LEMMA ReorgFailsShape ==
  ASSUME TypeOK, Shape, ReorgFails
  PROVE  TypeOK' /\ Shape'
  <1>1. /\ cur \in Blocks /\ snapshot.tip \in Blocks /\ snapshot.chain = Path[snapshot.tip]
        /\ Tracks(snapshot.known, snapshot.tip, Height[snapshot.tip])
        /\ Better(cur, snapshot.tip)
    BY Zenon DEF ReorgFails, ReorgStepFails, Shape, InReorg, SnapshotOK
  <1> USE <1>1
  <1>2. Tracks(known', snapshot.tip, Height[snapshot.tip])
    BY BetterNotOnPath, Zenon DEF ReorgFails, Tracks
  <1>3. TypeOK'
    BY EmptyFacts, Zenon DEF ReorgFails, Finish, Resume, TypeOK, disk, todo, PCs
  <1>4. Shape'
    BY <1>2, Zenon DEF ReorgFails, Finish, Resume, Shape, Extending, AtRest, InReorg, Tracks
  <1> QED BY <1>3, <1>4, Zenon

(* Types and shape are inductive. *)
LEMMA ShapeInductive == TypeOK /\ Shape /\ [Next]_vars => TypeOK' /\ Shape'
  <1> SUFFICES ASSUME TypeOK, Shape, [Next]_vars PROVE TypeOK' /\ Shape'
    BY Zenon
  <1>1. ASSUME NEW b \in Blocks, NEW who \in {"process", "orphan"},
               StartExtend(b, who) \/ ReorgTooDeep(b, who) \/ StartReorg(b, who)
                 \/ StoreSide(b, who)
        PROVE  TypeOK' /\ Shape'
    BY <1>1, StartExtendShape, StartReorgShape, SideShape, Zenon
  <1>2. CASE Receive
    BY <1>1, <1>2, AddOrphanShape, UndoFailsShape, Zenon DEF Receive, ProcessBlock
  <1>3. CASE \E b \in toProcess :
               \/ StartExtend(b, "orphan") \/ ReorgTooDeep(b, "orphan")
               \/ ReorgUnloadable(b) \/ StartReorg(b, "orphan")
               \/ StoreSide(b, "orphan") \/ SkipOrphan(b)
    <2>1. toProcess \subseteq Blocks
      BY Zenon DEF TypeOK
    <2> QED BY <1>1, <1>3, <2>1, UnloadableShape, SkipOrphanShape, Zenon
  <1>4. CASE NodeStep
    BY <1>3, <1>4, GenesisIndexShape, GenesisTipShape, GenesisFlushShape, BootShape,
       ExtendIndexShape, ExtendPersistShape, ExtendTipShape, ExtendFailsShape,
       TipFailsShape, DisconnectShape, UnlinkShape, ConnectShape, ReorgTipShape,
       ReorgUndoShape, ReorgDoneShape, ReorgFailsShape, NextParentShape, ReturnShape, Zenon
    DEF NodeStep
  <1>5. CASE Crash
    BY <1>5, CrashShape, Zenon
  <1>6. CASE UNCHANGED vars
    <2> USE <1>6
    <2>1. TypeOK'
      BY Zenon DEF vars, memory, disk, work, todo, TypeOK
    <2>2. Shape'
      BY Zenon DEF vars, memory, work, Shape, SnapshotOK, Extending, AtRest, InReorg, Tracks
    <2> QED BY <2>1, <2>2, Zenon
  <1> QED BY <1>2, <1>4, <1>5, <1>6, Zenon DEF Next

(* The chain manager keeps its types, and its orphan pool within its bound, *)
(* through every reorg, failed write and crash.                             *)
THEOREM TypeCorrect == Spec => []TypeOK
  <1>1. Init => TypeOK /\ Shape
    BY InitShape, Zenon
  <1>2. TypeOK /\ Shape /\ [Next]_vars => (TypeOK /\ Shape)'
    BY ShapeInductive, Zenon
  <1> QED BY <1>1, <1>2, PTL DEF Spec

(* Whatever fails or crashes, the map of the active chain is the path from  *)
(* genesis to the tip, and every block of it is tracked, whenever the lock  *)
(* is free.                                                                 *)
THEOREM ChainAlwaysLinked == Spec => []ActiveChainLinked
  <1>1. Init => TypeOK /\ Shape
    BY InitShape, Zenon
  <1>2. TypeOK /\ Shape /\ [Next]_vars => (TypeOK /\ Shape)'
    BY ShapeInductive, Zenon
  <1>3. Shape => ActiveChainLinked
    BY Zenon DEF Shape, AtRest, ActiveChainLinked, Unlocked, Tracks
  <1> QED BY <1>1, <1>2, <1>3, PTL DEF Spec

-----------------------------------------------------------------------------
(* The UTXO set. *)

Steady == MaxCrashes = 0 /\ "PutChainTip" \notin Faults

(* The blocks of the chain ending in b connect, up to height n. *)
ValidTo(b, n) == \A h \in 1..n : Connects(Path[b][h])

(***************************************************************************)
(* The inductive invariant: at every step the UTXO set is that of one      *)
(* particular block of the old or of the new chain, and that chain is      *)
(* valid so far; the snapshot holds the UTXO set of the old tip.           *)
(***************************************************************************)
UtxoInv ==
  /\ pc = "down" => diskTip = NoBlock
  /\ pc \in {"down", "genTip"} => tipHash = NoBlock
  /\ AtRest => utxoSet = UtxoAt[tipHash] /\ ValidTo(tipHash, Height[tipHash])
  /\ Extending => /\ utxoSet = UtxoAt[cur] /\ Connects(cur)
                  /\ ValidTo(tipHash, Height[tipHash]) /\ Better(cur, tipHash)
  /\ InReorg => /\ snapshot.utxo = UtxoAt[snapshot.tip]
                /\ ValidTo(snapshot.tip, Height[snapshot.tip])
                /\ ~(MaxReorgDepth > 0 /\ Height[snapshot.tip] - fork > MaxReorgDepth)
  /\ pc = "disconnect" => utxoSet = UtxoAt[Path[tipHash][at]]
  /\ pc = "connect" => utxoSet = UtxoAt[Path[cur][at - 1]] /\ ValidTo(cur, at - 1)
  /\ pc = "undo" => utxoSet = UtxoAt[cur] /\ ValidTo(cur, Height[cur])

(* Connecting a valid block to its parent's UTXO set gives the block's. *)
LEMMA ConnectGives ==
  ASSUME NEW b \in Blocks, b # Genesis, TxInputsValid(b, UtxoAt[Parent[b]])
  PROVE  ConnectBlock(UtxoAt[Parent[b]], b) = UtxoAt[b] /\ Connects(b)
  BY UtxoAssumption, Zenon DEF ConnectBlock, TxInputsValid, Connects

(* Undoing a block that connected gives back its parent's UTXO set.         *)
LEMMA DisconnectGives ==
  ASSUME NEW b \in Blocks, b # Genesis, Connects(b)
  PROVE  DisconnectBlock(UtxoAt[b], b) = UtxoAt[Parent[b]]
  <1>1. UtxoAt[b] = (UtxoAt[Parent[b]] \ Spends[b]) \cup Creates[b]
    BY UtxoAssumption, Zenon
  <1>2. Spends[b] \subseteq UtxoAt[Parent[b]]
    BY Zenon DEF Connects
  <1>3. Creates[b] \cap (UtxoAt[Parent[b]] \cup Spends[b]) = {}
    BY FreshAssumption, Zenon
  <1> QED BY <1>1, <1>2, <1>3, Zenon DEF DisconnectBlock

(* A child of t has more work than t. *)
LEMMA ChildIsBetter ==
  ASSUME NEW b \in Blocks, b # Genesis
  PROVE  Better(b, Parent[b])
  <1>1. /\ Parent[b] \in Blocks /\ Height[Parent[b]] \in 0..Height[b] - 1
        /\ Height[Parent[b]] \in 0..Height[Parent[b]]
        /\ Path[b][Height[Parent[b]]] = Path[Parent[b]][Height[Parent[b]]]
    BY PathOfChild
  <1>2. Path[Parent[b]][Height[Parent[b]]] = Parent[b]
    BY <1>1, PathAssumption, Zenon
  <1> QED BY <1>1, <1>2, WorkAssumption, Zenon DEF Better

(* Validity of a chain passes from a block's parent to the block. *)
LEMMA ValidChild ==
  ASSUME NEW b \in Blocks, b # Genesis, Connects(b), ValidTo(Parent[b], Height[Parent[b]])
  PROVE  ValidTo(b, Height[b])
  <1> SUFFICES ASSUME NEW h \in 1..Height[b] PROVE Connects(Path[b][h])
    BY Zenon DEF ValidTo
  <1>1. CASE h = Height[b]
    BY <1>1, PathAssumption, Zenon
  <1>2. CASE h # Height[b]
    <2>1. /\ h \in 1..Height[Parent[b]] /\ h \in 0..Height[Parent[b]]
          /\ Path[b][h] = Path[Parent[b]][h]
      BY <1>2, PathOfChild
    <2> QED BY <2>1, Zenon DEF ValidTo
  <1> QED BY <1>1, <1>2, Zenon

(* A chain that agrees with a valid one up to height n is valid up to n. *)
LEMMA ValidPrefix ==
  ASSUME NEW b \in Blocks, NEW t \in Blocks, NEW n \in 0..Height[t], n \in 0..Height[b],
         Path[b][n] = Path[t][n], ValidTo(t, Height[t])
  PROVE  ValidTo(b, n)
  <1> SUFFICES ASSUME NEW h \in 1..n PROVE Connects(Path[b][h])
    BY Zenon DEF ValidTo
  <1>1. h \in 0..n /\ h \in 1..Height[t]
    BY HeightAssumption
  <1>2. Path[b][h] = Path[t][h]
    BY <1>1, PathFacts
  <1> QED BY <1>1, <1>2, Zenon DEF ValidTo

(* Beginning a reorg keeps the UTXO invariant. *)
LEMMA StartReorgUtxo ==
  ASSUME TypeOK, Shape, UtxoInv,
         NEW b \in Blocks, NEW who \in {"process", "orphan"}, StartReorg(b, who)
  PROVE  UtxoInv'
  <1> USE DEF AtRest, Extending, InReorg
  <1>1. /\ pc \in {"idle", "orphans"} /\ tipHash \in Blocks
        /\ utxoSet = UtxoAt[tipHash] /\ ValidTo(tipHash, Height[tipHash])
    BY Zenon DEF StartReorg, WantsReorg, Handles, NextOrphan, UtxoInv, Shape
  <1>2. ~TooDeep(fork') /\ snapshot'.tip = tipHash /\ snapshot'.utxo = utxoSet
    BY Zenon DEF StartReorg
  <1>3. Path[tipHash][Height[tipHash]] = tipHash
    BY <1>1, PathAssumption, Zenon
  <1>4. /\ pc' = "disconnect" /\ at' = Height[tipHash] /\ tipHash' = tipHash
        /\ utxoSet' = utxoSet
    BY Zenon DEF StartReorg
  <1> QED BY <1>1, <1>2, <1>3, <1>4, Zenon DEF UtxoInv, ValidTo, TooDeep

(* Disconnecting a block of the old chain keeps the UTXO invariant. *)
LEMMA DisconnectUtxo ==
  ASSUME TypeOK, Shape, UtxoInv, Disconnect PROVE UtxoInv'
  <1> USE DEF AtRest, Extending, InReorg
  <1>1. /\ pc = "disconnect" /\ tipHash \in Blocks /\ hashByHeight = Path[tipHash]
        /\ tipHash = snapshot.tip /\ at \in 1..Height[tipHash] /\ at \in 0..Height[tipHash]
        /\ at > 0 /\ utxoSet = UtxoAt[Path[tipHash][at]]
        /\ ValidTo(tipHash, Height[tipHash])
    BY HeightAssumption DEF Disconnect, Shape, TypeOK, UtxoInv
  <1> USE <1>1
  <1>2. /\ Path[tipHash][at] \in Blocks /\ Path[tipHash][at] # Genesis
        /\ Parent[Path[tipHash][at]] = Path[tipHash][at - 1]
    BY PathFacts, Zenon
  <1>3. Connects(Path[tipHash][at])
    BY Zenon DEF ValidTo
  <1>4. DisconnectBlock(utxoSet, Path[tipHash][at]) = UtxoAt[Path[tipHash][at - 1]]
    BY <1>2, <1>3, DisconnectGives, Zenon
  <1> QED BY <1>4, Zenon DEF Disconnect, UtxoInv, ValidTo

(* Turning from the old chain to the new one keeps the UTXO invariant. *)
LEMMA UnlinkUtxo ==
  ASSUME TypeOK, Shape, UtxoInv, Unlink PROVE UtxoInv'
  <1> USE DEF AtRest, Extending, InReorg
  <1>0. /\ pc = "disconnect" /\ at = fork /\ tipHash = snapshot.tip /\ cur \in Blocks
        /\ tipHash \in Blocks /\ fork \in Nat /\ fork < Height[cur] /\ fork <= Height[tipHash]
        /\ Path[cur][fork] = Path[tipHash][fork]
        /\ Height[tipHash] \in Nat /\ Height[cur] \in Nat
    BY HeightAssumption, Zenon DEF Unlink, Shape, SnapshotOK, TypeOK
  <1>1. /\ utxoSet = UtxoAt[Path[tipHash][fork]] /\ ValidTo(tipHash, Height[tipHash])
        /\ fork \in 0..Height[tipHash] /\ fork \in 0..Height[cur]
    <2>1. utxoSet = UtxoAt[Path[tipHash][fork]] /\ ValidTo(tipHash, Height[tipHash])
      BY <1>0, Zenon DEF UtxoInv
    <2>2. fork \in 0..Height[tipHash] /\ fork \in 0..Height[cur]
      BY <1>0
    <2> QED BY <2>1, <2>2
  <1> USE <1>0, <1>1
  <1>2. at' - 1 = fork
    BY DEF Unlink
  <1>3. ValidTo(cur, fork)
    BY ValidPrefix, Zenon
  <1> QED BY <1>2, <1>3, Zenon DEF Unlink, UtxoInv, ValidTo

(* Connecting a block of the new chain keeps the UTXO invariant. *)
LEMMA ConnectUtxo ==
  ASSUME TypeOK, Shape, UtxoInv, Connect PROVE UtxoInv'
  <1> USE DEF AtRest, Extending, InReorg
  <1>0. /\ pc = "connect" /\ cur \in Blocks /\ Height[cur] \in Nat
        /\ fork \in Nat /\ at \in Nat /\ fork + 1 <= at /\ at <= Height[cur]
    BY HeightAssumption, Zenon DEF Connect, Shape, TypeOK
  <1>1. /\ pc = "connect" /\ cur \in Blocks /\ at \in 0..Height[cur] /\ at > 0
        /\ utxoSet = UtxoAt[Path[cur][at - 1]] /\ ValidTo(cur, at - 1)
    BY <1>0 DEF UtxoInv
  <1> USE <1>1
  <1>2. /\ Path[cur][at] \in Blocks /\ Path[cur][at] # Genesis
        /\ Parent[Path[cur][at]] = Path[cur][at - 1]
    BY PathFacts, Zenon
  <1>3. ConnectBlock(utxoSet, Path[cur][at]) = UtxoAt[Path[cur][at]] /\ Connects(Path[cur][at])
    BY <1>2, ConnectGives, Zenon DEF Connect
  <1>4. at' = at + 1 /\ at' - 1 = at /\ cur' = cur
    <2>1. at' = at + 1 /\ cur' = cur
      BY Zenon DEF Connect
    <2> QED BY <1>0, <2>1
  <1>5. ValidTo(cur, at)
    <2> SUFFICES ASSUME NEW h \in 1..at PROVE Connects(Path[cur][h])
      BY Zenon DEF ValidTo
    <2>1. h = at \/ h \in 1..at - 1
      BY <1>0
    <2> QED BY <1>3, <2>1, Zenon DEF ValidTo
  <1> QED BY <1>3, <1>4, <1>5, Zenon DEF Connect, UtxoInv, ValidTo

(* Adopting the new tip keeps the UTXO invariant. *)
LEMMA ReorgTipUtxo ==
  ASSUME TypeOK, Shape, UtxoInv, ReorgTip PROVE UtxoInv'
  <1> USE DEF AtRest, Extending, InReorg
  <1>1. at = Height[cur] + 1 /\ cur \in Blocks /\ Height[cur] \in Nat /\ pc = "connect"
    BY HeightAssumption, Zenon DEF ReorgTip, Shape
  <1>2. at - 1 = Height[cur] /\ Path[cur][Height[cur]] = cur
    BY <1>1, PathAssumption
  <1> QED BY <1>1, <1>2, Zenon DEF ReorgTip, UtxoInv, ValidTo

(* A step that leaves alone what UtxoInv is about keeps it, also when it    *)
(* goes from one state at rest to another.                                  *)
LEMMA UtxoUntouched ==
  ASSUME UtxoInv, UNCHANGED <<tipHash, utxoSet, diskTip, cur, at, fork, snapshot>>,
         pc' = pc \/ (pc \in {"idle", "orphans"} /\ pc' \in {"idle", "orphans"})
  PROVE  UtxoInv'
  BY Zenon DEF UtxoInv, ValidTo, AtRest, Extending, InReorg

(* The UTXO invariant is inductive. *)
LEMMA UtxoInductive ==
  ASSUME Steady
  PROVE  TypeOK /\ Shape /\ UtxoInv /\ [Next]_vars => UtxoInv'
  <1> SUFFICES ASSUME TypeOK, Shape, UtxoInv, [Next]_vars PROVE UtxoInv'
    BY Zenon
  <1> USE DEF AtRest, Extending, InReorg
  <1>1. CASE GenesisIndex \/ GenesisFlush
    BY <1>1, Zenon DEF GenesisIndex, GenesisFlush, memory, UtxoInv, ValidTo
  <1>2. CASE GenesisTip
    <2>1. ValidTo(Genesis, Height[Genesis])
      BY HeightAssumption DEF ValidTo
    <2> QED BY <1>2, <2>1, Zenon DEF GenesisTip, UtxoInv
  <1>3. CASE LoadChainstate \/ AdvanceTip \/ Rebuild
    BY <1>3, Zenon DEF LoadChainstate, AdvanceTip, Rebuild, Boot, UtxoInv
  <1>4. CASE Crash
    BY <1>4, Steady DEF Steady, Crash, TypeOK
  <1>5. ASSUME NEW b \in Blocks, AddOrphan(b)
        PROVE  UtxoInv'
    BY <1>5, UtxoUntouched, Zenon DEF AddOrphan, disk, work
  <1>6. ASSUME NEW b \in Blocks, NEW who \in {"process", "orphan"},
               StartExtend(b, who) \/ ExtendUndoFails(b)
        PROVE  UtxoInv'
    <2>0. \E w \in {"process", "orphan"} :
            Handles(b, w) /\ Parent[b] = tipHash /\ TxInputsValid(b, utxoSet)
      BY <1>6, Zenon DEF StartExtend, ExtendUndoFails
    <2>1. /\ pc \in {"idle", "orphans"} /\ ParentUsable(b) /\ Parent[b] = tipHash
          /\ TxInputsValid(b, utxoSet)
      BY <2>0, Zenon DEF Handles, NextOrphan
    <2>2. b # Genesis
      BY <2>1, UsableParent, Zenon
    <2>3. utxoSet = UtxoAt[Parent[b]] /\ ValidTo(tipHash, Height[tipHash])
      BY <2>1, Zenon DEF UtxoInv
    <2>4. ConnectBlock(utxoSet, b) = UtxoAt[b] /\ Connects(b)
      BY <2>1, <2>2, <2>3, ConnectGives, Zenon
    <2>5. DisconnectBlock(ConnectBlock(utxoSet, b), b) = utxoSet
      BY <2>2, <2>3, <2>4, DisconnectGives, Zenon
    <2>6. Better(b, tipHash)
      BY <2>1, <2>2, ChildIsBetter, Zenon
    <2>7. CASE StartExtend(b, who)
      BY <2>3, <2>4, <2>6, <2>7, Zenon DEF StartExtend, UtxoInv, ValidTo
    <2>8. CASE ExtendUndoFails(b)
      BY <2>5, <2>8, UtxoUntouched, Zenon DEF ExtendUndoFails, disk, work
    <2> QED BY <1>6, <2>7, <2>8, Zenon
  <1>7. CASE ExtendIndex \/ ExtendPersist
    BY <1>7, Zenon DEF ExtendIndex, ExtendPersist, memory, work, UtxoInv, ValidTo
  <1>8. CASE ExtendTip
    <2> USE <1>8
    <2>1. /\ cur \in Blocks /\ cur # Genesis /\ Parent[cur] = tipHash
          /\ utxoSet = UtxoAt[cur] /\ Connects(cur) /\ ValidTo(tipHash, Height[tipHash])
      BY Zenon DEF ExtendTip, Shape, UtxoInv
    <2>2. ValidTo(cur, Height[cur])
      BY <2>1, ValidChild, Zenon
    <2> QED BY <2>1, <2>2, Zenon DEF ExtendTip, Finish, UtxoInv, ValidTo
  <1>9. CASE ExtendFails
    <2> USE <1>9
    <2>1. /\ cur \in Blocks /\ cur # Genesis /\ Parent[cur] = tipHash
          /\ utxoSet = UtxoAt[cur] /\ Connects(cur) /\ ValidTo(tipHash, Height[tipHash])
      BY Zenon DEF ExtendFails, Shape, UtxoInv
    <2>2. DisconnectBlock(utxoSet, cur) = UtxoAt[tipHash]
      BY <2>1, DisconnectGives, Zenon
    <2> QED BY <2>1, <2>2, Zenon DEF ExtendFails, Finish, Resume, UtxoInv, ValidTo
  <1>10. CASE ExtendTipFails
    BY <1>10, Steady, Zenon DEF Steady, ExtendTipFails
  <1>11. ASSUME NEW b \in Blocks, NEW who \in {"process", "orphan"},
                ReorgTooDeep(b, who) \/ StoreSide(b, who)
         PROVE  UtxoInv'
    <2>1. /\ Handles(b, who) /\ pc' = "orphans"
          /\ UNCHANGED <<tipHash, utxoSet, diskTip, cur, at, fork, snapshot>>
      BY <1>11, Zenon DEF ReorgTooDeep, StoreSide, WantsReorg, work
    <2>2. pc \in {"idle", "orphans"}
      BY <2>1, Zenon DEF Handles, NextOrphan
    <2> QED BY <2>1, <2>2, UtxoUntouched, Zenon
  <1>12. ASSUME NEW b \in Blocks, NEW who \in {"process", "orphan"}, StartReorg(b, who)
         PROVE  UtxoInv'
    BY <1>12, StartReorgUtxo, Zenon
  <1>13. CASE Disconnect \/ Unlink \/ Connect \/ ReorgTip
    BY <1>13, DisconnectUtxo, UnlinkUtxo, ConnectUtxo, ReorgTipUtxo, Zenon
  <1>16. CASE ReorgUndo
    BY <1>16, Zenon DEF ReorgUndo, memory, UtxoInv, ValidTo
  <1>17. CASE ReorgDone
    <2>1. tipHash = cur /\ utxoSet = UtxoAt[cur] /\ ValidTo(cur, Height[cur])
      BY <1>17, Zenon DEF ReorgDone, Shape, UtxoInv
    <2>2. pc' = "orphans" /\ UNCHANGED <<tipHash, utxoSet>>
      BY <1>17, Zenon DEF ReorgDone, Finish, memory
    <2> QED BY <2>1, <2>2, Zenon DEF UtxoInv, ValidTo
  <1>18. CASE ReorgFails
    <2>1. InReorg
      BY <1>18, Zenon DEF ReorgFails, ReorgStepFails
    <2>2. snapshot.utxo = UtxoAt[snapshot.tip] /\ ValidTo(snapshot.tip, Height[snapshot.tip])
      BY <2>1, Zenon DEF UtxoInv
    <2>3. pc' \in {"orphans", "idle"} /\ tipHash' = snapshot.tip /\ utxoSet' = snapshot.utxo
      BY <1>18, Zenon DEF ReorgFails, Finish, Resume
    <2> QED BY <2>2, <2>3, Zenon DEF UtxoInv, ValidTo
  <1>19. ASSUME NEW b \in Blocks, ReorgUnloadable(b) \/ SkipOrphan(b)
         PROVE  UtxoInv'
    BY <1>19, UtxoUntouched, Zenon DEF ReorgUnloadable, SkipOrphan, disk, memory, work
  <1>20. CASE NextParent \/ Return
    BY <1>20, UtxoUntouched, Zenon DEF NextParent, Return, disk, memory, work
  <1>21. CASE UNCHANGED vars
    BY <1>21, UtxoUntouched, Zenon DEF vars, disk, memory, work
  <1>22. CASE Receive
    BY <1>5, <1>6, <1>11, <1>12, <1>22, Zenon DEF Receive, ProcessBlock
  <1>23. CASE NodeStep
    <2>1. \A b \in toProcess : b \in Blocks
      BY Zenon DEF TypeOK
    <2> QED
      BY <1>1, <1>2, <1>3, <1>6, <1>7, <1>8, <1>9, <1>10, <1>11, <1>12, <1>13,
         <1>16, <1>17, <1>18, <1>19, <1>20, <1>23, <2>1, Zenon
      DEF NodeStep
  <1> QED BY <1>4, <1>21, <1>22, <1>23, Zenon DEF Next

(* Without crashes, and as long as the tip record can be written, the UTXO  *)
(* set is the replay of the active chain whenever the lock is free: failed  *)
(* reorgs and every other failed write are undone completely in memory.     *)
THEOREM UtxoAlwaysMatches == ASSUME Steady PROVE Spec => []UtxoMatchesTip
  <1>1. Init => TypeOK /\ Shape /\ UtxoInv
    <2>1. Init => UtxoInv
      BY Zenon DEF Init, UtxoInv, AtRest, Extending, InReorg
    <2> QED BY <2>1, InitShape, Zenon
  <1>2. TypeOK /\ Shape /\ UtxoInv /\ [Next]_vars => (TypeOK /\ Shape /\ UtxoInv)'
    BY ShapeInductive, UtxoInductive, Zenon
  <1>3. UtxoInv => UtxoMatchesTip
    BY Zenon DEF UtxoInv, AtRest, UtxoMatchesTip, Unlocked
  <1> QED BY <1>1, <1>2, <1>3, PTL DEF Spec
====
