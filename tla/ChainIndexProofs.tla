-------------------------- MODULE ChainIndexProofs --------------------------
(***************************************************************************)
(* What the records of the block index are good for.                       *)
(*                                                                         *)
(* To the next process: every crash, in every call, with every combination *)
(* of failed writes, leaves an index in which the walks of Init reach      *)
(* genesis.                                                                *)
(*                                                                         *)
(* To a reorg: every block of the active chain has its undo data, so that  *)
(* it can be taken off again, as long as no undo write fails.              *)
(***************************************************************************)
EXTENDS ChainProofs

(***************************************************************************)
(* The inductive invariant.  A record is written only when the parent has  *)
(* one, and the tip record and the best-block record only ever name blocks *)
(* that have one; a call in progress remembers blocks that will be named.  *)
(***************************************************************************)
DiskInv ==
  /\ \A b \in Blocks : index[b] # "absent" => Walkable(b)
  /\ diskTip # NoBlock => index[diskTip] # "absent"
  /\ bestBlock # NoBlock => index[bestBlock] # "absent"
  /\ pc = "genTip" => index[Genesis] # "absent"
  /\ pc \in {"persist", "tip"} \/ InReorg => index[cur] # "absent"
  /\ pc = "index" => index[Parent[cur]] # "absent"
  /\ pc = "genFlush" => index[Genesis] # "absent"

(* Writing a record for b, whose parent has one, keeps every walk complete. *)
LEMMA WriteKeepsWalks ==
  ASSUME TypeOK, DiskInv, NEW b \in Blocks,
         b # Genesis => index[Parent[b]] # "absent",
         NEW r \in {"data", "undo"}, index' = [index EXCEPT ![b] = r]
  PROVE  /\ \A c \in Blocks : index[c] # "absent" => index'[c] # "absent"
         /\ \A c \in Blocks : index'[c] # "absent" => Walkable(c)'
         /\ index'[b] # "absent"
  <1>1. index \in [Blocks -> {"absent", "data", "undo"}]
    BY Zenon DEF TypeOK
  <1> USE <1>1
  <1>2. \A c \in Blocks : index[c] # "absent" => index'[c] # "absent"
    BY Zenon
  <1> USE <1>2
  <1>3. index'[b] # "absent"
    BY Zenon
  <1>4. \A c \in Blocks : index[c] # "absent" => Walkable(c)'
    BY PathFacts DEF DiskInv, Walkable
  <1>5. Walkable(b)'
    <2> SUFFICES ASSUME NEW h \in 0..Height[b] PROVE index'[Path[b][h]] # "absent"
      BY Zenon DEF Walkable
    <2>1. CASE h = Height[b]
      BY <1>3, <2>1, PathAssumption, Zenon
    <2>2. CASE h # Height[b]
      <3> USE <2>2
      <3>1. b # Genesis
        BY HeightAssumption
      <3>2. h \in 0..Height[Parent[b]] /\ Path[b][h] = Path[Parent[b]][h] /\ Parent[b] \in Blocks
        BY <3>1, PathOfChild
      <3>3. Walkable(Parent[b])
        BY <3>1, <3>2, Zenon DEF DiskInv
      <3> QED BY <3>2, <3>3, PathFacts DEF Walkable
    <2> QED BY <2>1, <2>2, Zenon
  <1>6. \A c \in Blocks : c # b => index'[c] = index[c]
    BY Zenon
  <1> QED BY <1>3, <1>4, <1>5, <1>6, Zenon

(* Overwriting a record that exists needs nothing of the parent. *)
LEMMA OverwriteKeepsWalks ==
  ASSUME TypeOK, DiskInv, NEW b \in Blocks, index[b] # "absent",
         NEW r \in {"data", "undo"}, index' = [index EXCEPT ![b] = r]
  PROVE  /\ \A c \in Blocks : index[c] # "absent" => index'[c] # "absent"
         /\ \A c \in Blocks : index'[c] # "absent" => Walkable(c)'
         /\ index'[b] # "absent"
  <1>1. index \in [Blocks -> {"absent", "data", "undo"}]
    BY Zenon DEF TypeOK
  <1>2. \A c \in Blocks : index[c] # "absent" <=> index'[c] # "absent"
    BY <1>1, Zenon
  <1>3. \A c \in Blocks : index[c] # "absent" => Walkable(c)'
    BY <1>2, PathFacts DEF DiskInv, Walkable
  <1> QED BY <1>2, <1>3, Zenon

(* StoreRecord for a block that passed the checks on its parent. *)
LEMMA StoreKeepsWalks ==
  ASSUME TypeOK, DiskInv, NEW b \in Blocks, NEW who \in {"process", "orphan"},
         ParentUsable(b), StoreRecord(b, who)
  PROVE  /\ \A c \in Blocks : index[c] # "absent" => index'[c] # "absent"
         /\ \A c \in Blocks : index'[c] # "absent" => Walkable(c)'
  <1>1. CASE index' = [index EXCEPT ![b] = "data"]
    BY <1>1, WriteKeepsWalks, Zenon DEF ParentUsable
  <1>2. CASE index' = index
    BY <1>2, Zenon DEF DiskInv, Walkable
  <1> QED BY <1>1, <1>2, Zenon DEF StoreRecord

-----------------------------------------------------------------------------
(* The disk invariant is inductive. *)
LEMMA DiskInductive == TypeOK /\ Shape /\ DiskInv /\ [Next]_vars => DiskInv'
  <1> SUFFICES ASSUME TypeOK, Shape, DiskInv, [Next]_vars PROVE DiskInv'
    BY Zenon
  <1> USE DEF InReorg
  <1>0. ASSUME UNCHANGED index
        PROVE  \A b \in Blocks : index'[b] # "absent" => Walkable(b)'
    BY <1>0, Zenon DEF DiskInv, Walkable
  <1>1. CASE GenesisIndex
    <2> USE <1>1
    <2>1. /\ \A c \in Blocks : index[c] # "absent" => index'[c] # "absent"
          /\ \A c \in Blocks : index'[c] # "absent" => Walkable(c)'
          /\ index'[Genesis] # "absent"
      BY WriteKeepsWalks, TreeAssumption, Zenon DEF GenesisIndex
    <2> QED BY <2>1, Zenon DEF GenesisIndex, DiskInv, TypeOK
  <1>2. CASE GenesisTip \/ GenesisFlush
    BY <1>0, <1>2, Zenon DEF GenesisTip, GenesisFlush, DiskInv, memory
  <1>3. CASE LoadChainstate \/ AdvanceTip \/ Rebuild
    BY <1>0, <1>3, Zenon DEF LoadChainstate, AdvanceTip, Rebuild, Boot, DiskInv, ChainstateAhead, HaveData
  <1>4. CASE Crash
    BY <1>0, <1>4, Zenon DEF Crash, disk, DiskInv
  <1>5. ASSUME NEW b \in Blocks, AddOrphan(b) \/ ExtendUndoFails(b)
        PROVE  DiskInv'
    BY <1>0, <1>5, Zenon DEF AddOrphan, ExtendUndoFails, disk, work, DiskInv
  <1>6. ASSUME NEW b \in Blocks, NEW who \in {"process", "orphan"}, StartExtend(b, who)
        PROVE  DiskInv'
    BY <1>0, <1>6, Zenon DEF StartExtend, Handles, ParentUsable, disk, DiskInv
  <1>7. CASE ExtendIndex
    <2> USE <1>7
    <2>1. cur \in Blocks /\ pc = "index" /\ recStatus \in {"data", "undo"}
      BY Zenon DEF ExtendIndex, Shape, Extending, TypeOK
    <2>2. /\ \A c \in Blocks : index[c] # "absent" => index'[c] # "absent"
          /\ \A c \in Blocks : index'[c] # "absent" => Walkable(c)'
          /\ index'[cur] # "absent"
      BY <2>1, WriteKeepsWalks, Zenon DEF ExtendIndex, DiskInv
    <2> QED BY <2>2, Zenon DEF ExtendIndex, work, DiskInv, TypeOK
  <1>8. CASE ExtendPersist \/ ExtendTip \/ ExtendFails \/ ExtendTipFails
    BY <1>0, <1>8, Zenon
    DEF ExtendPersist, ExtendTip, ExtendFails, ExtendTipFails, Finish, Resume, disk, work, DiskInv
  <1>9. ASSUME NEW b \in Blocks, NEW who \in {"process", "orphan"},
               ReorgTooDeep(b, who) \/ StartReorg(b, who) \/ StoreSide(b, who)
        PROVE  DiskInv'
    <2> USE <1>9
    <2>1. ParentUsable(b) /\ StoreRecord(b, who)
      BY Zenon DEF ReorgTooDeep, StartReorg, StoreSide, WantsReorg, Handles
    <2>2. /\ \A c \in Blocks : index[c] # "absent" => index'[c] # "absent"
          /\ \A c \in Blocks : index'[c] # "absent" => Walkable(c)'
      BY <2>1, StoreKeepsWalks, Zenon
    <2> QED BY <2>2, Zenon DEF ReorgTooDeep, StartReorg, StoreSide, DiskInv, TypeOK
  <1>10. CASE Disconnect
    <2> USE <1>10
    <2>1. /\ tipHash \in Blocks /\ hashByHeight = Path[tipHash] /\ at \in 0..Height[tipHash] /\ at > 0
      BY HeightAssumption DEF Disconnect, Shape, TypeOK
    <2>2. index[hashByHeight[at]] = "undo" /\ hashByHeight[at] \in Blocks
      BY <2>1, PathFacts, Zenon DEF Disconnect
    <2>3. Walkable(hashByHeight[at])
      BY <2>2, Zenon DEF DiskInv
    <2>4. /\ Height[hashByHeight[at]] = at
          /\ Parent[hashByHeight[at]] = Path[tipHash][at - 1]
          /\ Path[hashByHeight[at]][at - 1] = Path[tipHash][at - 1]
      <3>1. at - 1 \in 0..at
        BY <2>1, HeightAssumption
      <3> QED BY <2>1, <3>1, PathFacts, Zenon
    <2>5. at - 1 \in 0..at
      BY <2>1, HeightAssumption
    <2>6. index[Parent[hashByHeight[at]]] # "absent"
      BY <2>3, <2>4, <2>5, Zenon DEF Walkable
    <2> QED BY <1>0, <2>6, Zenon DEF Disconnect, DiskInv
  <1>11. CASE Connect
    <2> USE <1>11
    <2>1. cur \in Blocks /\ at \in 0..Height[cur] /\ Walkable(cur)
      BY HeightAssumption DEF Connect, Shape, TypeOK, DiskInv
    <2>2. index[Path[cur][at]] # "absent"
      BY <2>1, Zenon DEF Walkable
    <2> QED BY <1>0, <2>2, Zenon DEF Connect, DiskInv
  <1>12. CASE Unlink \/ ReorgTip \/ ReorgDone \/ ReorgFails
    BY <1>0, <1>12, Zenon
    DEF Unlink, ReorgTip, ReorgDone, ReorgFails, Finish, Resume, disk, memory, DiskInv
  <1>13. CASE ReorgUndo
    <2> USE <1>13
    <2>1. cur \in Blocks /\ at \in 0..Height[cur] /\ Walkable(cur)
      BY HeightAssumption DEF ReorgUndo, Shape, TypeOK, DiskInv
    <2>2. Path[cur][at] \in Blocks /\ index[Path[cur][at]] # "absent"
      BY <2>1, PathFacts, Zenon DEF Walkable
    <2>3. /\ \A c \in Blocks : index[c] # "absent" => index'[c] # "absent"
          /\ \A c \in Blocks : index'[c] # "absent" => Walkable(c)'
      BY <2>2, OverwriteKeepsWalks, Zenon DEF ReorgUndo
    <2> QED BY <2>1, <2>3, Zenon DEF ReorgUndo, DiskInv, TypeOK
  <1>14. ASSUME NEW b \in Blocks, ReorgUnloadable(b) \/ SkipOrphan(b)
         PROVE  DiskInv'
    BY <1>0, <1>14, Zenon DEF ReorgUnloadable, SkipOrphan, disk, work, DiskInv
  <1>15. CASE NextParent \/ Return
    BY <1>0, <1>15, Zenon DEF NextParent, Return, disk, work, DiskInv
  <1>16. CASE UNCHANGED vars
    BY <1>0, <1>16, Zenon DEF vars, disk, work, DiskInv
  <1>17. \A b \in toProcess : b \in Blocks
    BY Zenon DEF TypeOK
  <1> QED
    BY <1>1, <1>2, <1>3, <1>4, <1>5, <1>6, <1>7, <1>8, <1>9, <1>10, <1>11, <1>12, <1>13,
       <1>14, <1>15, <1>16, <1>17, Zenon
    DEF Next, Receive, ProcessBlock, NodeStep

(* At every instant, hence at every crash, the chains named by the tip      *)
(* record and by the best-block record can be walked to genesis in the      *)
(* block index: Init never fails with "walk chain at height".               *)
THEOREM DiskAlwaysWalkable == Spec => []DiskWalkable
  <1>1. Init => TypeOK /\ Shape /\ DiskInv
    <2>1. Init => DiskInv
      BY Zenon DEF Init, DiskInv, InReorg
    <2> QED BY <2>1, InitShape, Zenon
  <1>2. TypeOK /\ Shape /\ DiskInv /\ [Next]_vars => (TypeOK /\ Shape /\ DiskInv)'
    BY ShapeInductive, DiskInductive, Zenon
  <1>3. TypeOK /\ DiskInv => DiskWalkable
    BY Zenon DEF TypeOK, DiskInv, DiskWalkable
  <1> QED BY <1>1, <1>2, <1>3, PTL DEF Spec

-----------------------------------------------------------------------------
(* Undo data. *)

OnPath(b, t) == \E h \in 0..Height[t] : Path[t][h] = b

(* processOrphans is still to look for the orphans of p. *)
Waits(p) == \E i \in 1..Len(queue) : queue[i] = p

(* The chain that a call leaves when it fails: the active one, also while a *)
(* reorg has begun to take it apart.                                        *)
Home == IF InReorg THEN snapshot.tip ELSE tipHash

Undoable(t) == \A h \in 1..Height[t] : index[Path[t][h]] = "undo"

(* No orphan that processOrphans has taken, or is going to take, is on the  *)
(* chain that ends in t.                                                    *)
OffChain(t) ==
  /\ \A b \in toProcess : ~OnPath(b, t)
  /\ \A o \in orphans : Waits(Parent[o]) => ~OnPath(o, t)

(***************************************************************************)
(* The inductive invariant.  A block that is handled again gets a record   *)
(* without undo data, so the blocks of the active chain must not be.  That *)
(* a block is not tracked protects them from ProcessBlock; processOrphans  *)
(* does not look, and a reorg can bring a block that is in the orphan pool *)
(* into the active chain: it is safe because its parent is not waiting.    *)
(***************************************************************************)
UndoInv ==
  /\ pc = "down" => diskTip = NoBlock
  /\ \/ pc \in {"down", "genTip", "genFlush", "idle"}
     \/ caller = "process" /\ (Extending \/ InReorg)
     => queue = << >> /\ toProcess = {}
  /\ toProcess \cap orphans = {}
  /\ Extending => cur \notin orphans \cup toProcess
  /\ pc = "index" => recStatus = "undo"
  /\ pc \in {"persist", "tip"} => index[cur] = "undo"
  /\ pc = "undo" => \A h \in fork + 1..at - 1 : index[Path[cur][h]] = "undo"
  /\ pc \notin {"down", "genTip"} => Undoable(Home) /\ OffChain(Home)

(* A block on the chain of a child is the child or on the parent's chain. *)
LEMMA OnPathOfChild ==
  ASSUME NEW c \in Blocks, c # Genesis, NEW b, OnPath(b, c)
  PROVE  b = c \/ OnPath(b, Parent[c])
  <1>1. PICK h \in 0..Height[c] : Path[c][h] = b
    BY Zenon DEF OnPath
  <1>2. CASE h = Height[c]
    BY <1>1, <1>2, PathAssumption, Zenon
  <1>3. CASE h # Height[c]
    <2>1. h \in 0..Height[Parent[c]] /\ Path[c][h] = Path[Parent[c]][h]
      BY <1>3, PathOfChild, HeightAssumption
    <2> QED BY <1>1, <2>1, Zenon DEF OnPath
  <1> QED BY <1>2, <1>3, Zenon

(* The parent of a block on a chain is on it too, and lower. *)
LEMMA ParentOnPath ==
  ASSUME NEW t \in Blocks, NEW o \in Blocks, o # Genesis, OnPath(o, t)
  PROVE  OnPath(Parent[o], t) /\ Parent[o] # t
  <1>1. PICK h \in 0..Height[t] : Path[t][h] = o
    BY Zenon DEF OnPath
  <1>2. /\ Height[t] \in Nat /\ Height[o] = h /\ Parent[o] \in Blocks
        /\ Height[Parent[o]] \in Nat /\ Height[o] = Height[Parent[o]] + 1
    BY <1>1, PathFacts, HeightAssumption, TreeAssumption
  <1>3. h - 1 \in 0..Height[t] /\ h > 0 /\ Height[Parent[o]] = h - 1
    BY <1>2
  <1>4. Parent[Path[t][h]] = Path[t][h - 1]
    BY <1>3, PathFacts, Zenon
  <1>5. OnPath(Parent[o], t)
    BY <1>1, <1>3, <1>4, Zenon DEF OnPath
  <1>6. Height[Parent[o]] < Height[t]
    BY <1>2, <1>3
  <1> QED BY <1>2, <1>5, <1>6

(* The queue after it grew, and after its head was taken. *)
LEMMA AppendWaits ==
  ASSUME queue \in Seq(Blocks), NEW b \in Blocks, queue' = Append(queue, b), NEW p, Waits(p)'
  PROVE  Waits(p) \/ p = b
  BY DEF Waits

(* A parent taken from the queue is no longer waiting, the others still are. *)
LEMMA TailWaits ==
  ASSUME queue \in Seq(Blocks), queue # << >>, queue' = Tail(queue)
  PROVE  Waits(Head(queue)) /\ \A p : Waits(p)' => Waits(p)
  BY DEF Waits

(* A record that is written for a block off a chain, or with undo data,     *)
(* leaves the chain undoable.                                               *)
LEMMA KeepsUndoable ==
  ASSUME NEW t \in Blocks, Undoable(t), NEW b, ~OnPath(b, t) \/ index'[b] = "undo",
         \A c \in Blocks \ {b} : index'[c] = index[c]
  PROVE  Undoable(t)'
  <1> SUFFICES ASSUME NEW h \in 1..Height[t] PROVE index'[Path[t][h]] = "undo"
    BY Zenon DEF Undoable
  <1>1. h \in 0..Height[t] /\ Path[t][h] \in Blocks
    BY PathFacts, HeightAssumption
  <1> QED BY <1>1, Zenon DEF Undoable, OnPath

(* A block that processOrphans tracks on a side chain is off the active     *)
(* chain, and so are its children.                                          *)
LEMMA KeepsOffChain ==
  ASSUME TypeOK, NEW t \in Blocks, OffChain(t), NEW b \in Blocks, ~OnPath(b, t),
         toProcess' \subseteq toProcess, orphans' = orphans,
         queue' = queue \/ queue' = Append(queue, b)
  PROVE  OffChain(t)'
  <1>1. ASSUME NEW o \in orphans, Waits(Parent[o])' PROVE ~OnPath(o, t)
    <2>1. Waits(Parent[o]) \/ Parent[o] = b
      BY <1>1, AppendWaits, Zenon DEF TypeOK, Waits
    <2>2. CASE Waits(Parent[o])
      BY <2>2, Zenon DEF OffChain
    <2>3. CASE Parent[o] = b
      BY <2>3, ParentOnPath, TreeAssumption, Zenon DEF TypeOK
    <2> QED BY <2>1, <2>2, <2>3, Zenon
  <1> QED BY <1>1, Zenon DEF OffChain, OnPath

(* What StartExtend, ReorgTooDeep, StartReorg and StoreSide find. *)
LEMMA HandledOffChain ==
  ASSUME TypeOK, Shape, UndoInv,
         NEW b \in Blocks, NEW who \in {"process", "orphan"}, Handles(b, who)
  PROVE  /\ pc \in {"idle", "orphans"} /\ tipHash \in Blocks /\ Home = tipHash
         /\ ~OnPath(b, tipHash) /\ b \notin orphans
         /\ Undoable(tipHash) /\ OffChain(tipHash)
         /\ who = "process" => queue = << >> /\ toProcess = {}
  <1>1. /\ pc \in {"idle", "orphans"} /\ (who = "process" => pc = "idle" /\ b \notin known \cup orphans)
        /\ (who = "orphan" => b \in toProcess)
    BY Zenon DEF Handles, NextOrphan
  <1>2. /\ tipHash \in Blocks /\ Home = tipHash /\ Tracks(known, tipHash, Height[tipHash])
        /\ Undoable(Home) /\ OffChain(Home) /\ toProcess \cap orphans = {}
    BY <1>1, Zenon DEF Shape, UndoInv, AtRest, Home, InReorg
  <1>3. ~OnPath(b, tipHash) /\ b \notin orphans
    <2>1. CASE who = "process"
      BY <1>1, <1>2, <2>1, Zenon DEF OnPath, Tracks
    <2>2. CASE who = "orphan"
      BY <1>1, <1>2, <2>2, Zenon DEF OffChain
    <2> QED BY <2>1, <2>2, Zenon
  <1>4. who = "process" => queue = << >> /\ toProcess = {}
    BY <1>1, Zenon DEF UndoInv
  <1> QED BY <1>1, <1>2, <1>3, <1>4, Zenon

(* A block is recorded as one of a side chain. *)
LEMMA SideUndo ==
  ASSUME TypeOK, Shape, UndoInv, NEW b \in Blocks, NEW who \in {"process", "orphan"},
         ReorgTooDeep(b, who) \/ StoreSide(b, who)
  PROVE  UndoInv'
  <1>1. /\ Handles(b, who) /\ pc' = "orphans" /\ tipHash' = tipHash /\ orphans' = orphans
        /\ toProcess' = toProcess \ {b} /\ (queue' = queue \/ queue' = Append(queue, b))
        /\ StoreRecord(b, who)
    BY Zenon DEF ReorgTooDeep, StoreSide, WantsReorg
  <1>2. /\ tipHash \in Blocks /\ ~OnPath(b, tipHash) /\ Undoable(tipHash) /\ OffChain(tipHash)
    BY <1>1, HandledOffChain, Zenon
  <1>3. \A c \in Blocks \ {b} : index'[c] = index[c]
    BY <1>1, Zenon DEF StoreRecord, TypeOK
  <1>4. Undoable(tipHash)' /\ OffChain(tipHash)' /\ Home' = tipHash
    BY <1>1, <1>2, <1>3, KeepsUndoable, KeepsOffChain, Zenon DEF Home, InReorg
  <1>5. toProcess' \cap orphans' = {}
    BY <1>1, Zenon DEF UndoInv
  <1> QED BY <1>1, <1>4, <1>5, Zenon DEF UndoInv, Extending, InReorg, Undoable, OffChain, OnPath

(* A reorg begins. *)
LEMMA StartReorgUndo ==
  ASSUME TypeOK, Shape, UndoInv,
         NEW b \in Blocks, NEW who \in {"process", "orphan"}, StartReorg(b, who)
  PROVE  UndoInv'
  <1>1. /\ Handles(b, who) /\ pc' = "disconnect" /\ orphans' = orphans /\ caller' = who
        /\ toProcess' = toProcess \ {b} /\ queue' = queue
        /\ StoreRecord(b, who) /\ snapshot'.tip = tipHash
    BY Zenon DEF StartReorg, WantsReorg
  <1>2. /\ tipHash \in Blocks /\ ~OnPath(b, tipHash) /\ Undoable(tipHash) /\ OffChain(tipHash)
        /\ who = "process" => queue = << >> /\ toProcess = {}
    BY <1>1, HandledOffChain, Zenon
  <1>3. \A c \in Blocks \ {b} : index'[c] = index[c]
    BY <1>1, Zenon DEF StoreRecord, TypeOK
  <1>4. Undoable(tipHash)' /\ OffChain(tipHash)' /\ Home' = tipHash /\ tipHash' = tipHash
    BY <1>1, <1>2, <1>3, KeepsUndoable, KeepsOffChain, Zenon DEF Home, InReorg, StartReorg
  <1>5. toProcess' \cap orphans' = {}
    BY <1>1, Zenon DEF UndoInv
  <1> QED BY <1>1, <1>2, <1>4, <1>5, Zenon DEF UndoInv, Extending, InReorg, Undoable, OffChain, OnPath

(* A block is connected in memory. *)
LEMMA StartExtendUndo ==
  ASSUME "WriteUndo" \notin Faults, TypeOK, Shape, UndoInv,
         NEW b \in Blocks, NEW who \in {"process", "orphan"}, StartExtend(b, who)
  PROVE  UndoInv'
  <1>1. /\ Handles(b, who) /\ pc' = "index" /\ orphans' = orphans /\ caller' = who
        /\ toProcess' = toProcess \ {b} /\ queue' = queue /\ cur' = b /\ recStatus' = "undo"
        /\ index' = index /\ tipHash' = tipHash
    BY Zenon DEF StartExtend, disk
  <1>2. /\ tipHash \in Blocks /\ ~OnPath(b, tipHash) /\ Undoable(tipHash) /\ OffChain(tipHash)
        /\ b \notin orphans /\ (who = "process" => queue = << >> /\ toProcess = {})
    BY <1>1, HandledOffChain, Zenon
  <1>3. OffChain(tipHash)' /\ Home' = tipHash
    BY <1>1, <1>2, KeepsOffChain, Zenon DEF Home, InReorg
  <1>4. toProcess' \cap orphans' = {}
    BY <1>1, Zenon DEF UndoInv
  <1> QED BY <1>1, <1>2, <1>3, <1>4, Zenon DEF UndoInv, Extending, InReorg, Undoable, OffChain, OnPath

(* A block becomes the tip.  What waits for it is above it. *)
LEMMA ExtendTipUndo ==
  ASSUME TypeOK, Shape, UndoInv, ExtendTip
  PROVE  UndoInv'
  <1>1. /\ pc = "tip" /\ pc' = "orphans" /\ tipHash' = cur /\ queue' = Append(queue, cur)
        /\ index' = index /\ orphans' = orphans /\ toProcess' = toProcess
        /\ cur \in Blocks /\ cur # Genesis /\ Parent[cur] = tipHash /\ tipHash \in Blocks
        /\ index[cur] = "undo" /\ cur \notin orphans \cup toProcess
        /\ toProcess \cap orphans = {}
        /\ Home = tipHash /\ Home' = cur /\ Undoable(tipHash) /\ OffChain(tipHash)
    BY Zenon DEF ExtendTip, Finish, Shape, UndoInv, Extending, Home, InReorg
  <1>2. Undoable(cur)
    <2> SUFFICES ASSUME NEW h \in 1..Height[cur] PROVE index[Path[cur][h]] = "undo"
      BY Zenon DEF Undoable
    <2>1. CASE h = Height[cur]
      BY <1>1, <2>1, PathAssumption, Zenon
    <2>2. CASE h # Height[cur]
      <3>1. /\ h \in 1..Height[tipHash] /\ h \in 0..Height[tipHash]
            /\ Path[cur][h] = Path[tipHash][h]
        BY <1>1, <2>2, PathOfChild, HeightAssumption
      <3> QED BY <1>1, <3>1, Zenon DEF Undoable
    <2> QED BY <2>1, <2>2, Zenon
  <1>3. \A b \in toProcess : ~OnPath(b, cur)
    BY <1>1, OnPathOfChild, Zenon DEF OffChain
  <1>4. ASSUME NEW o \in orphans, Waits(Parent[o])', OnPath(o, cur) PROVE FALSE
    <2>1. o # cur /\ OnPath(o, tipHash) /\ o \in Blocks
      BY <1>1, <1>4, OnPathOfChild, Zenon DEF TypeOK
    <2>2. Waits(Parent[o]) \/ Parent[o] = cur
      BY <1>1, <1>4, AppendWaits, Zenon DEF TypeOK
    <2>3. CASE Waits(Parent[o])
      BY <1>1, <2>1, <2>3, Zenon DEF OffChain
    <2>4. CASE Parent[o] = cur
      BY <1>1, <1>4, <2>1, <2>4, ParentOnPath, TreeAssumption, Zenon
    <2> QED BY <2>2, <2>3, <2>4, Zenon
  <1> QED BY <1>1, <1>2, <1>3, <1>4, Zenon DEF UndoInv, Extending, InReorg, Undoable, OffChain, OnPath

(* The steps inside a reorg.  They write records with undo data only, so    *)
(* the old chain stays undoable while the new one becomes so.               *)
LEMMA ReorgStepUndo ==
  ASSUME TypeOK, Shape, UndoInv,
         Disconnect \/ Unlink \/ Connect \/ ReorgTip \/ ReorgUndo
  PROVE  UndoInv'
  <1>1. /\ InReorg /\ InReorg' /\ ~Extending'
        /\ UNCHANGED <<cur, caller, fork, snapshot, queue, toProcess, orphans>>
        /\ snapshot.tip \in Blocks
    BY Zenon DEF Disconnect, Unlink, Connect, ReorgTip, ReorgUndo, InReorg, Extending, memory, todo, disk,
       Shape, SnapshotOK
  <1>2. Home = snapshot.tip /\ Home' = snapshot.tip
    BY <1>1, Zenon DEF Home
  <1>3. Undoable(snapshot.tip) /\ OffChain(snapshot.tip)
    BY <1>1, <1>2, Zenon DEF UndoInv, InReorg
  <1>4. OffChain(snapshot.tip)'
    BY <1>1, <1>3, Zenon DEF OffChain, OnPath, Waits
  <1>5. Undoable(snapshot.tip)' /\ (pc' = "undo" => \A h \in fork + 1..at' - 1 : index'[Path[cur][h]] = "undo")
    <2>1. CASE ReorgUndo
      <3>1. /\ pc = "undo" /\ cur \in Blocks /\ at \in 0..Height[cur] /\ at' = at + 1 /\ fork \in Nat
            /\ index' = [index EXCEPT ![Path[cur][at]] = "undo"] /\ Path[cur][at] \in Blocks
        <4>1. /\ pc = "undo" /\ cur \in Blocks /\ at \in Nat /\ at <= Height[cur] /\ at' = at + 1
              /\ index' = [index EXCEPT ![Path[cur][at]] = "undo"] /\ fork \in Nat
          BY <2>1, Zenon DEF ReorgUndo, Shape, TypeOK, InReorg
        <4>2. at \in 0..Height[cur]
          BY <4>1, HeightAssumption
        <4> QED BY <4>1, <4>2, PathFacts, Zenon
      <3>2. index' \in [Blocks -> {"absent", "data", "undo"}] /\ index'[Path[cur][at]] = "undo"
            /\ \A c \in Blocks \ {Path[cur][at]} : index'[c] = index[c]
        BY <3>1, Zenon DEF TypeOK
      <3>3. Undoable(snapshot.tip)'
        BY <1>1, <1>3, <3>2, KeepsUndoable, Zenon
      <3>4. ASSUME NEW h \in fork + 1..at' - 1 PROVE index'[Path[cur][h]] = "undo"
        <4>1. h \in 0..Height[cur] /\ (h = at \/ h \in fork + 1..at - 1)
          BY <3>1, HeightAssumption
        <4>2. Path[cur][h] \in Blocks
          BY <3>1, <4>1, PathFacts, Zenon
        <4> QED BY <3>1, <3>2, <4>1, <4>2, Zenon DEF UndoInv
      <3> QED BY <1>1, <3>3, <3>4, Zenon
    <2>2. CASE ReorgTip
      <3>1. at' = fork + 1 /\ fork \in Nat /\ index' = index
        BY <2>2, Zenon DEF ReorgTip, TypeOK
      <3> QED BY <1>1, <1>3, <3>1 DEF Undoable
    <2>3. CASE Disconnect \/ Unlink \/ Connect
      <3>1. index' = index /\ pc' # "undo"
        BY <2>3, Zenon DEF Disconnect, Unlink, Connect, disk
      <3> QED BY <1>1, <1>3, <3>1, Zenon DEF Undoable
    <2> QED BY <2>1, <2>2, <2>3, Zenon
  <1> QED BY <1>1, <1>2, <1>4, <1>5, Zenon DEF UndoInv, Extending, InReorg, Undoable, OffChain, OnPath

(* A reorg returns: the new chain is undoable to its end. *)
LEMMA ReorgDoneUndo ==
  ASSUME TypeOK, Shape, UndoInv, ReorgDone
  PROVE  UndoInv'
  <1>1. /\ pc = "undo" /\ at = Height[cur] + 1 /\ cur \in Blocks /\ tipHash = cur /\ tipHash' = cur
        /\ index' = index /\ orphans' = orphans /\ queue' = <<cur>> /\ toProcess' = {}
        /\ pc' = "orphans" /\ SnapshotOK /\ Home = snapshot.tip /\ Home' = cur
    BY Zenon DEF ReorgDone, Finish, Shape, InReorg, memory, disk, Home
  <1>2. Undoable(cur)
    <2> SUFFICES ASSUME NEW h \in 1..Height[cur] PROVE index[Path[cur][h]] = "undo"
      BY Zenon DEF Undoable
    <2>1. /\ snapshot.tip \in Blocks /\ Path[cur][fork] = Path[snapshot.tip][fork] /\ fork \in Nat
          /\ fork <= Height[snapshot.tip] /\ fork < Height[cur] /\ Undoable(snapshot.tip)
      BY <1>1, Zenon DEF SnapshotOK, UndoInv, TypeOK
    <2>2. Height[cur] \in Nat /\ Height[snapshot.tip] \in Nat
      BY <1>1, <2>1, HeightAssumption, Zenon
    <2>3. CASE h <= fork
      <3>1. /\ h \in 0..fork /\ h \in 1..Height[snapshot.tip]
            /\ fork \in 0..Height[cur] /\ fork \in 0..Height[snapshot.tip]
        BY <2>1, <2>2, <2>3
      <3>2. Path[Path[cur][fork]][h] = Path[cur][h] /\ Path[Path[snapshot.tip][fork]][h] = Path[snapshot.tip][h]
        BY <1>1, <2>1, <3>1, PathFacts, Zenon
      <3> QED BY <2>1, <3>1, <3>2, Zenon DEF Undoable
    <2>4. CASE fork < h
      <3>1. h \in fork + 1..at - 1
        BY <1>1, <2>1, <2>2, <2>4
      <3> QED BY <1>1, <3>1, Zenon DEF UndoInv
    <2> QED BY <2>1, <2>2, <2>3, <2>4
  <1>3. ASSUME NEW o \in orphans, Waits(Parent[o])' PROVE ~OnPath(o, cur)
    <2>1. Parent[o] = cur /\ o \in Blocks
      BY <1>1, <1>3 DEF Waits, TypeOK
    <2> QED BY <1>1, <2>1, ParentOnPath, TreeAssumption, Zenon
  <1> QED BY <1>1, <1>2, <1>3, Zenon DEF UndoInv, Extending, InReorg, Undoable, OffChain, OnPath

(* A call fails after it began to connect: the chain is the one before it.  *)
LEMMA FailsUndo ==
  ASSUME TypeOK, Shape, UndoInv, ExtendFails \/ ExtendTipFails \/ ReorgFails
  PROVE  UndoInv'
  <1>1. /\ Extending \/ InReorg
        /\ pc' = Resume(caller) /\ tipHash' = Home
        /\ index' = index /\ orphans' = orphans /\ queue' = queue /\ toProcess' = toProcess
    <2>1. CASE ExtendFails \/ ExtendTipFails
      BY <2>1, Zenon DEF ExtendFails, ExtendTipFails, Finish, memory, disk, todo, Extending, InReorg, Home
    <2>2. CASE ReorgFails
      <3>1. InReorg
        BY <2>2, Zenon DEF ReorgFails, ReorgStepFails, InReorg
      <3> QED BY <2>2, <3>1, Zenon DEF ReorgFails, Finish, disk, todo, Home
    <2> QED BY <2>1, <2>2, Zenon
  <1>2. /\ pc' \in {"idle", "orphans"} /\ (pc' = "idle" => caller = "process") /\ Home' = Home
        /\ Undoable(Home) /\ OffChain(Home)
    BY <1>1, Zenon DEF Resume, TypeOK, UndoInv, Extending, InReorg, Home
  <1>3. /\ (pc' = "idle" => queue = << >> /\ toProcess = {}) /\ toProcess \cap orphans = {}
    BY <1>1, <1>2, Zenon DEF UndoInv
  <1>4. Undoable(Home)' /\ OffChain(Home)'
    BY <1>1, <1>2, Zenon DEF Undoable, OffChain, OnPath, Waits
  <1> QED BY <1>1, <1>2, <1>3, <1>4, Zenon DEF UndoInv, Extending, InReorg

(* The invariant of the undo data is inductive as long as there is no crash. *)
LEMMA UndoInductive ==
  ASSUME "WriteUndo" \notin Faults
  PROVE  TypeOK /\ Shape /\ (crashes = 0 => UndoInv) /\ [Next]_vars
           => (crashes = 0 => UndoInv)'
  <1> SUFFICES ASSUME TypeOK, Shape, crashes = 0 => UndoInv, [Next]_vars, crashes' = 0
               PROVE  UndoInv'
    BY Zenon
  <1>0. CASE Crash
    <2>1. crashes' = crashes + 1 /\ crashes \in Nat
      BY <1>0, ChainAssumption DEF Crash, TypeOK
    <2> QED BY <2>1
  <1>1. SUFFICES ASSUME ~Crash PROVE UndoInv'
    BY <1>0, Zenon
  <1>2. crashes' = crashes
    BY <1>1, Zenon DEF Next, Receive, ProcessBlock, NodeStep, vars, AddOrphan, StartExtend, ExtendUndoFails,
       ReorgTooDeep, StartReorg, StoreSide, GenesisIndex, GenesisTip, GenesisFlush, LoadChainstate,
       AdvanceTip, Rebuild, Boot, ExtendIndex, ExtendPersist, ExtendTip, ExtendFails, ExtendTipFails,
       Disconnect, Unlink, Connect, ReorgTip, ReorgUndo, ReorgDone, ReorgFails, ReorgUnloadable,
       SkipOrphan, NextParent, Return
  <1>3. UndoInv
    BY <1>2, Zenon
  <1>4. CASE GenesisIndex
    BY <1>3, <1>4, Zenon DEF GenesisIndex, memory, todo, work, UndoInv, Extending, InReorg
  <1>5. CASE GenesisTip
    <2>1. /\ tipHash' = Genesis /\ pc' = "genFlush" /\ queue' = << >> /\ toProcess' = {}
      BY <1>3, <1>5, Zenon DEF GenesisTip, todo, UndoInv
    <2>2. Height[Genesis] = 0 /\ Home' = Genesis
      BY <2>1, HeightAssumption, Zenon DEF Home, InReorg
    <2> QED BY <2>1, <2>2 DEF UndoInv, Extending, InReorg, Undoable, OffChain, Waits
  <1>6. CASE LoadChainstate \/ AdvanceTip \/ Rebuild
    BY <1>3, <1>6, Zenon DEF LoadChainstate, AdvanceTip, Rebuild, Boot, UndoInv
  <1>7. ASSUME NEW b \in Blocks, AddOrphan(b)
        PROVE  UndoInv'
    <2>1. /\ pc = "idle" /\ UNCHANGED <<pc, tipHash, index, queue, toProcess>>
      BY <1>7, Zenon DEF AddOrphan, disk, work, todo
    <2>2. /\ queue = << >> /\ toProcess = {} /\ Home = tipHash /\ Home' = tipHash /\ Undoable(Home)
      BY <1>3, <2>1, Zenon DEF UndoInv, Home, InReorg
    <2> QED BY <2>1, <2>2 DEF UndoInv, Extending, InReorg, Undoable, OffChain, Waits
  <1>8. ASSUME NEW b \in Blocks, NEW who \in {"process", "orphan"},
               StartExtend(b, who) \/ ReorgTooDeep(b, who) \/ StoreSide(b, who) \/ StartReorg(b, who)
        PROVE  UndoInv'
    BY <1>3, <1>8, StartExtendUndo, SideUndo, StartReorgUndo, Zenon
  <1>9. ASSUME NEW b \in Blocks, ExtendUndoFails(b)
        PROVE  UndoInv'
    BY <1>9, Zenon DEF ExtendUndoFails
  <1>10. CASE GenesisFlush \/ ExtendIndex \/ ExtendPersist
    <2>1. /\ UNCHANGED <<tipHash, orphans, cur, caller, recStatus, queue, toProcess, snapshot>>
          /\ Home = tipHash /\ Home' = tipHash
      BY <1>10, Zenon DEF GenesisFlush, ExtendIndex, ExtendPersist, memory, work, todo, Home, InReorg
    <2>2. OffChain(tipHash) /\ Undoable(tipHash)
      BY <1>3, <1>10, <2>1, Zenon DEF GenesisFlush, ExtendIndex, ExtendPersist, UndoInv
    <2>3. OffChain(tipHash)'
      BY <2>1, <2>2, Zenon DEF OffChain, OnPath, Waits
    <2>4. CASE GenesisFlush \/ ExtendPersist
      <3>1. index' = index
        BY <2>4, Zenon DEF GenesisFlush, ExtendPersist
      <3> QED BY <1>3, <2>1, <2>2, <2>3, <2>4, <3>1, Zenon
              DEF GenesisFlush, ExtendPersist, UndoInv, Extending, InReorg, Undoable
    <2>5. CASE ExtendIndex
      <3>1. /\ pc = "index" /\ pc' = "persist" /\ cur \in Blocks /\ tipHash \in Blocks
            /\ index' = [index EXCEPT ![cur] = "undo"]
        BY <1>3, <2>5, Zenon DEF ExtendIndex, UndoInv, Shape, Extending
      <3>2. index'[cur] = "undo" /\ \A c \in Blocks \ {cur} : index'[c] = index[c]
        BY <3>1, Zenon DEF TypeOK
      <3>3. Undoable(tipHash)'
        BY <2>1, <2>2, <3>1, <3>2, KeepsUndoable DEF Undoable
      <3> QED BY <1>3, <2>1, <2>3, <3>1, <3>2, <3>3, Zenon DEF UndoInv, Extending, InReorg
    <2> QED BY <1>10, <2>4, <2>5, Zenon
  <1>11. CASE ExtendTip
    BY <1>3, <1>11, ExtendTipUndo, Zenon
  <1>12. CASE ExtendFails \/ ExtendTipFails \/ ReorgFails
    BY <1>3, <1>12, FailsUndo, Zenon
  <1>13. CASE Disconnect \/ Unlink \/ Connect \/ ReorgTip \/ ReorgUndo
    BY <1>3, <1>13, ReorgStepUndo, Zenon
  <1>14. CASE ReorgDone
    BY <1>3, <1>14, ReorgDoneUndo, Zenon
  <1>15. ASSUME NEW b \in Blocks, ReorgUnloadable(b) \/ SkipOrphan(b)
         PROVE  UndoInv'
    <2>1. /\ pc = "orphans" /\ UNCHANGED <<pc, tipHash, index, orphans, queue>>
          /\ toProcess' \subseteq toProcess
      BY <1>15, Zenon DEF ReorgUnloadable, SkipOrphan, WantsReorg, Handles, NextOrphan, memory, disk
    <2>2. /\ Home = tipHash /\ Home' = tipHash /\ Undoable(Home) /\ OffChain(Home)
          /\ toProcess \cap orphans = {}
      BY <1>3, <2>1, Zenon DEF UndoInv, Home, InReorg
    <2> QED BY <2>1, <2>2, Zenon DEF UndoInv, Extending, InReorg, Undoable, OffChain, Waits, OnPath
  <1>16. CASE NextParent
    <2>1. /\ pc = "orphans" /\ UNCHANGED <<pc, tipHash, index>> /\ queue \in Seq(Blocks)
          /\ queue # << >> /\ queue' = Tail(queue) /\ orphans' = orphans \ toProcess'
          /\ toProcess' = {o \in orphans : Parent[o] = Head(queue)}
      BY <1>16, Zenon DEF NextParent, disk, TypeOK
    <2>2. /\ Home = tipHash /\ Home' = tipHash /\ Undoable(Home) /\ OffChain(Home)
      BY <1>3, <2>1, Zenon DEF UndoInv, Home, InReorg
    <2>3. Waits(Head(queue)) /\ \A p : Waits(p)' => Waits(p)
      BY <2>1, TailWaits, Zenon
    <2>4. OffChain(tipHash)'
      BY <2>1, <2>2, <2>3, Zenon DEF OffChain, OnPath
    <2> QED BY <2>1, <2>2, <2>4, Zenon DEF UndoInv, Extending, InReorg, Undoable
  <1>17. CASE Return
    <2>1. /\ pc = "orphans" /\ pc' = "idle" /\ queue = << >> /\ toProcess = {}
          /\ UNCHANGED <<tipHash, index, orphans, queue, toProcess>>
      BY <1>17, Zenon DEF Return, memory, disk, todo
    <2>2. /\ Home = tipHash /\ Home' = tipHash /\ Undoable(Home) /\ OffChain(Home)
      BY <1>3, <2>1, Zenon DEF UndoInv, Home, InReorg
    <2> QED BY <2>1, <2>2, Zenon DEF UndoInv, Extending, InReorg, Undoable, OffChain, Waits
  <1>18. CASE UNCHANGED vars
    BY <1>3, <1>18, Zenon DEF vars, memory, disk, work, todo, UndoInv, Extending, InReorg, Home, Undoable,
       OffChain, OnPath, Waits
  <1>19. CASE Receive
    BY <1>7, <1>8, <1>9, <1>19, Zenon DEF Receive, ProcessBlock
  <1>20. CASE NodeStep
    <2>1. \A b \in toProcess : b \in Blocks
      BY Zenon DEF TypeOK
    <2> QED
      BY <1>4, <1>5, <1>6, <1>8, <1>10, <1>11, <1>12, <1>13, <1>14, <1>15, <1>16, <1>17, <1>20, <2>1, Zenon
      DEF NodeStep
  <1> QED BY <1>1, <1>18, <1>19, <1>20, Zenon DEF Next

(* Every block of the active chain above genesis can be disconnected, as    *)
(* long as undo data can be written and the process did not crash: for      *)
(* every order of arrival, and whatever other writes failed, the records    *)
(* of processOrphans and of reorgs never take the undo data of a block of   *)
(* the active chain away.                                                   *)
THEOREM UndoAlwaysAvailable == ASSUME "WriteUndo" \notin Faults PROVE Spec => []UndoAvailable
  <1> DEFINE Inv == TypeOK /\ Shape /\ (crashes = 0 => UndoInv)
  <1>1. Init => Inv
    <2>1. Init => UndoInv
      BY Zenon DEF Init, UndoInv, Extending, InReorg
    <2> QED BY <2>1, InitShape, Zenon
  <1>2. Inv /\ [Next]_vars => Inv'
    BY ShapeInductive, UndoInductive, Zenon
  <1>3. Inv => UndoAvailable
    BY Zenon DEF UndoInv, UndoAvailable, Unlocked, Home, InReorg, Undoable
  <1> QED BY <1>1, <1>2, <1>3, PTL DEF Spec
====
