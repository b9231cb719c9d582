--------------------------- MODULE ChainTipProofs ---------------------------
(***************************************************************************)
(* What the chain manager shows as long as the process does not crash and  *)
(* the tip record can be written: it implements ActiveChain, no better     *)
(* chain is known than the active one, and, while no reorg fails, the      *)
(* chainstate is that of its best-block record.                            *)
(***************************************************************************)
EXTENDS ChainProofs

-----------------------------------------------------------------------------
(* The refinement of ActiveChain.  While reorg is at work callers still see *)
(* the chain of its snapshot: they wait for the lock.                       *)

VisibleTip == IF InReorg THEN snapshot.tip ELSE tipHash
VisibleChain == IF InReorg THEN snapshot.chain ELSE hashByHeight

(* A move from chain t to chain b that forks at height f is an Adopt step. *)
LEMMA MoveIsAdopt ==
  ASSUME NEW t \in Blocks, NEW b \in Blocks, NEW f \in 0..Height[t],
         VisibleTip = t, VisibleChain = Path[t], VisibleTip' = b, VisibleChain' = Path[b],
         Better(b, t), ValidTo(b, Height[b]), f < Height[b], Path[b][f] = Path[t][f],
         ~(MaxReorgDepth > 0 /\ Height[t] - f > MaxReorgDepth)
  PROVE  AC!Adopt(b)
  <1>1. t # NoBlock
    BY TreeAssumption, Zenon
  <1>2. AC!Better(b, t) /\ AC!ValidPath(b)
    BY Zenon DEF AC!Better, Better, AC!ValidPath, AC!Connects, Connects, ValidTo
  <1>3. Height[t] \in Nat /\ f \in Nat /\ MaxReorgDepth \in Nat
    BY HeightAssumption, ChainAssumption
  <1>4. MaxReorgDepth > 0 => Height[t] - f <= MaxReorgDepth
    BY <1>3
  <1>5. f \in DOMAIN Path[t]
    BY PathIsPartialChain, Zenon
  <1> QED
    BY <1>1, <1>2, <1>4, <1>5, Zenon
    DEF AC!Adopt, AC!ForkPermitted, VisibleTip, VisibleChain

(* Every step is Start, Adopt or a stutter of ActiveChain. *)
LEMMA StepRefines ==
  ASSUME Steady
  PROVE  TypeOK /\ Shape /\ UtxoInv /\ [Next]_vars =>
           AC!Next \/ UNCHANGED <<VisibleTip, VisibleChain>>
  <1> SUFFICES ASSUME TypeOK, Shape, UtxoInv, [Next]_vars
               PROVE  AC!Next \/ UNCHANGED <<VisibleTip, VisibleChain>>
    BY Zenon
  <1> USE DEF InReorg
  <1>1. CASE GenesisTip
    <2> USE <1>1
    <2>1. tipHash = NoBlock
      BY Zenon DEF GenesisTip, UtxoInv, Shape
    <2> QED BY <2>1, Zenon DEF GenesisTip, AC!Next, AC!Start, VisibleTip, VisibleChain
  <1>2. CASE GenesisIndex \/ GenesisFlush \/ ExtendIndex \/ ExtendPersist \/ ExtendFails
    BY <1>2, Zenon
    DEF GenesisIndex, GenesisFlush, ExtendIndex, ExtendPersist, ExtendFails, Finish, Resume,
        memory, VisibleTip, VisibleChain
  <1>3. CASE LoadChainstate \/ AdvanceTip \/ Rebuild
    BY <1>3, Zenon DEF LoadChainstate, AdvanceTip, Rebuild, Boot, UtxoInv
  <1>4. CASE Crash \/ ExtendTipFails
    BY <1>4, Steady DEF Steady, Crash, ExtendTipFails, TypeOK
  <1>5. ASSUME NEW b \in Blocks, NEW who \in {"process", "orphan"},
               \/ AddOrphan(b) \/ StartExtend(b, who) \/ ExtendUndoFails(b)
               \/ ReorgTooDeep(b, who) \/ StoreSide(b, who)
               \/ ReorgUnloadable(b) \/ SkipOrphan(b)
        PROVE  UNCHANGED <<VisibleTip, VisibleChain>>
    <2>1. /\ pc \in {"idle", "orphans"} /\ pc' \in {"idle", "orphans", "index"}
          /\ UNCHANGED <<tipHash, hashByHeight>>
      BY <1>5, Zenon
      DEF AddOrphan, StartExtend, ExtendUndoFails, ReorgTooDeep, StoreSide, ReorgUnloadable,
          SkipOrphan, WantsReorg, Handles, NextOrphan, memory
    <2> QED BY <2>1, Zenon DEF VisibleTip, VisibleChain
  <1>6. ASSUME NEW b \in Blocks, NEW who \in {"process", "orphan"}, StartReorg(b, who)
        PROVE  UNCHANGED <<VisibleTip, VisibleChain>>
    BY <1>6, Zenon DEF StartReorg, WantsReorg, Handles, NextOrphan, VisibleTip, VisibleChain
  <1>7. CASE ExtendTip
    <2> USE <1>7
    <2>1. /\ cur \in Blocks /\ cur # Genesis /\ Parent[cur] = tipHash /\ tipHash \in Blocks
          /\ hashByHeight = Path[tipHash] /\ Connects(cur) /\ Better(cur, tipHash)
          /\ ValidTo(tipHash, Height[tipHash]) /\ pc = "tip"
      BY Zenon DEF ExtendTip, Shape, UtxoInv, Extending
    <2>2. ValidTo(cur, Height[cur])
      BY <2>1, ValidChild, Zenon
    <2>3. /\ Height[tipHash] \in 0..Height[tipHash] /\ Height[tipHash] < Height[cur]
          /\ Path[cur][Height[tipHash]] = Path[tipHash][Height[tipHash]]
      BY <2>1, PathOfChild
    <2>4. hashByHeight' = Path[cur]
      BY <2>1, PathOfChild, Zenon DEF ExtendTip
    <2>5. /\ VisibleTip = tipHash /\ VisibleChain = Path[tipHash]
          /\ VisibleTip' = cur /\ VisibleChain' = Path[cur]
      BY <2>1, <2>4, Zenon DEF ExtendTip, Finish, VisibleTip, VisibleChain
    <2>6. ~(MaxReorgDepth > 0 /\ Height[tipHash] - Height[tipHash] > MaxReorgDepth)
      BY <2>1, HeightAssumption, ChainAssumption
    <2>7. AC!Adopt(cur)
      BY <2>1, <2>2, <2>3, <2>5, <2>6, MoveIsAdopt, Zenon
    <2> QED BY <2>1, <2>7, Zenon DEF AC!Next
  <1>8. CASE Disconnect \/ Unlink \/ Connect \/ ReorgTip \/ ReorgUndo \/ ReorgFails
    BY <1>8, Zenon
    DEF Disconnect, Unlink, Connect, ReorgTip, ReorgUndo, ReorgFails, ReorgStepFails, Finish,
        Resume, memory, VisibleTip, VisibleChain
  <1>9. CASE ReorgDone
    <2> USE <1>9
    <2>1. /\ pc = "undo" /\ cur \in Blocks /\ tipHash = cur /\ hashByHeight = Path[cur]
          /\ SnapshotOK /\ fork \in Nat /\ ValidTo(cur, Height[cur])
          /\ ~(MaxReorgDepth > 0 /\ Height[snapshot.tip] - fork > MaxReorgDepth)
      BY Zenon DEF ReorgDone, Shape, UtxoInv, TypeOK
    <2>2. /\ snapshot.tip \in Blocks /\ Better(cur, snapshot.tip) /\ fork < Height[cur]
          /\ fork \in 0..Height[snapshot.tip] /\ Path[cur][fork] = Path[snapshot.tip][fork]
      BY <2>1, HeightAssumption DEF SnapshotOK
    <2>3. /\ VisibleTip = snapshot.tip /\ VisibleChain = Path[snapshot.tip]
          /\ VisibleTip' = cur /\ VisibleChain' = Path[cur]
      BY <2>1, Zenon DEF ReorgDone, Finish, memory, SnapshotOK, VisibleTip, VisibleChain
    <2>4. AC!Adopt(cur)
      BY <2>1, <2>2, <2>3, MoveIsAdopt, Zenon
    <2> QED BY <2>1, <2>4, Zenon DEF AC!Next
  <1>10. CASE NextParent \/ Return
    BY <1>10, Zenon DEF NextParent, Return, memory, work, VisibleTip, VisibleChain
  <1>11. CASE UNCHANGED vars
    BY <1>11, Zenon DEF vars, memory, work, VisibleTip, VisibleChain
  <1>12. CASE Receive
    BY <1>5, <1>6, <1>12, Zenon DEF Receive, ProcessBlock
  <1>13. CASE NodeStep
    <2>1. \A b \in toProcess : b \in Blocks
      BY Zenon DEF TypeOK
    <2> QED
      BY <1>1, <1>2, <1>3, <1>4, <1>5, <1>6, <1>7, <1>8, <1>9, <1>10, <1>13, <2>1, Zenon
      DEF NodeStep
  <1> QED BY <1>4, <1>11, <1>12, <1>13, Zenon DEF Next

(* Without crashes, and as long as the tip record can be written, what      *)
(* callers see is ActiveChain: the active chain only moves, in one step, to *)
(* a better chain that is valid from genesis and forks off within           *)
(* MaxReorgDepth.                                                           *)
THEOREM ChainRefinesActiveChain == ASSUME Steady PROVE Spec => ImplementsActiveChain
  <1>1. Init => TypeOK /\ Shape /\ UtxoInv
    <2>1. Init => UtxoInv
      BY Zenon DEF Init, UtxoInv, AtRest, Extending, InReorg
    <2> QED BY <2>1, InitShape, Zenon
  <1>2. TypeOK /\ Shape /\ UtxoInv /\ [Next]_vars => (TypeOK /\ Shape /\ UtxoInv)'
    BY ShapeInductive, UtxoInductive, Zenon
  <1>3. Init => AC!Init
    BY Zenon DEF Init, AC!Init, InReorg
  <1>4. TypeOK /\ Shape /\ UtxoInv /\ [Next]_vars =>
          [AC!Next]_<<VisibleTip, VisibleChain>>
    BY StepRefines, Zenon
  <1> QED BY <1>1, <1>2, <1>3, <1>4, PTL
    DEF Spec, ImplementsActiveChain, AC!Spec, VisibleTip, VisibleChain

-----------------------------------------------------------------------------
(* The best known chain. *)

(* WithinDepth, of any two blocks: reorg could go from t to b's chain. *)
Near(b, t) ==
  \E h \in 0..Height[b] :
    /\ h <= Height[t] /\ Path[b][h] = Path[t][h]
    /\ ~(MaxReorgDepth > 0 /\ Height[t] - h > MaxReorgDepth)

(* A node at t has no reason to go to b. *)
Fine(b, t) == ValidPath(b) /\ Near(b, t) => ~Better(b, t)

(***************************************************************************)
(* No reorg goes to a lower block, or there is no limit on its depth.      *)
(* Without this the theorem is false, and TLC has a counterexample: with a *)
(* limit, a reorg to a shorter chain with more work brings a better chain  *)
(* that was too deep before within reach, and nothing tries it again.      *)
(***************************************************************************)
NeverLower ==
  MaxReorgDepth = 0 \/ \A c, t \in Blocks : Near(c, t) /\ Better(c, t) => Height[c] >= Height[t]

(***************************************************************************)
(* The inductive invariant.  A reorg remembers what was known before it;   *)
(* processOrphans adds the block it goes to, and takes it out again when   *)
(* the reorg fails.                                                        *)
(***************************************************************************)
BestInv ==
  /\ AtRest \/ Extending => \A b \in known : Fine(b, tipHash)
  /\ InReorg =>
       /\ \A b \in snapshot.known : Fine(b, snapshot.tip) \/ (b = cur /\ caller = "orphan")
       /\ \A b \in known : b \in snapshot.known \/ \E h \in 0..Height[cur] : b = Path[cur][h]

(* The fork choice is transitive. *)
LEMMA BetterIsTransitive ==
  ASSUME NEW a \in Blocks, NEW b \in Blocks, NEW c \in Blocks, Better(a, b), Better(b, c)
  PROVE  Better(a, c)
  BY WorkAssumption DEF Better

(* A block of the chain that ends in t does not beat t. *)
LEMMA FineOnPath ==
  ASSUME NEW t \in Blocks, NEW h \in 0..Height[t]
  PROVE  Fine(Path[t][h], t)
  <1>1. Path[t][h] \in Blocks
    BY PathFacts, Zenon
  <1> QED BY <1>1, BetterNotOnPath, Zenon DEF Fine

(* What a node has no reason to go to, it has no reason to go to from a     *)
(* better block c, if the two chains meet at f, not too deep below t, and c *)
(* is not lower than t.                                                     *)
LEMMA FineMoves ==
  ASSUME NEW b \in Blocks, NEW t \in Blocks, NEW c \in Blocks, Fine(b, t), Better(c, t),
         NEW f \in 0..Height[t], f \in 0..Height[c], Path[c][f] = Path[t][f],
         ~(MaxReorgDepth > 0 /\ Height[t] - f > MaxReorgDepth),
         MaxReorgDepth = 0 \/ Height[c] >= Height[t]
  PROVE  Fine(b, c)
  <1> SUFFICES ASSUME ValidPath(b), Near(b, c), Better(b, c) PROVE FALSE
    BY Zenon DEF Fine
  <1>1. Better(b, t)
    BY BetterIsTransitive, Zenon
  <1>2. PICK h \in 0..Height[b] :
          /\ h <= Height[c] /\ Path[b][h] = Path[c][h]
          /\ ~(MaxReorgDepth > 0 /\ Height[c] - h > MaxReorgDepth)
    BY Zenon DEF Near
  <1>3. /\ Height[b] \in Nat /\ Height[c] \in Nat /\ Height[t] \in Nat /\ h \in 0..Height[c]
        /\ MaxReorgDepth \in Nat
    BY <1>2, HeightAssumption, ChainAssumption
  <1>4. CASE h <= f
    <2>1. h \in 0..f /\ h <= Height[t]
      BY <1>3, <1>4
    <2>2. Path[Path[c][f]][h] = Path[c][h] /\ Path[Path[t][f]][h] = Path[t][h]
      BY <2>1, PathFacts, Zenon
    <2>3. ~(MaxReorgDepth > 0 /\ Height[t] - h > MaxReorgDepth)
      BY <1>2, <1>3
    <2> QED BY <1>1, <1>2, <2>1, <2>2, <2>3, Zenon DEF Fine, Near
  <1>5. CASE f < h
    <2>1. f \in 0..h /\ f \in 0..Height[b] /\ f <= Height[t]
      BY <1>3, <1>5
    <2>2. Path[Path[b][h]][f] = Path[b][f] /\ Path[Path[c][h]][f] = Path[c][f]
      BY <1>3, <2>1, PathFacts, Zenon
    <2>3. Path[b][f] = Path[c][f]
      BY <1>2, <2>2, Zenon
    <2> QED BY <1>1, <2>1, <2>3, Zenon DEF Fine, Near
  <1> QED BY <1>3, <1>4, <1>5

(* A block whose fork is too deep is not within reach of a reorg. *)
LEMMA TooDeepIsFine ==
  ASSUME TypeOK, tipHash \in Blocks, hashByHeight = Path[tipHash],
         Tracks(known, tipHash, Height[tipHash]),
         NEW b \in Blocks, Better(b, tipHash),
         NEW f \in 0..Height[b] - 1, ForksAt(b, f), TooDeep(f)
  PROVE  Fine(b, tipHash)
  <1> SUFFICES ASSUME Near(b, tipHash) PROVE FALSE
    BY Zenon DEF Fine
  <1>1. PICK h \in 0..Height[b] :
          /\ h <= Height[tipHash] /\ Path[b][h] = Path[tipHash][h]
          /\ ~(MaxReorgDepth > 0 /\ Height[tipHash] - h > MaxReorgDepth)
    BY Zenon DEF Near
  <1>2. /\ Height[b] \in Nat /\ Height[tipHash] \in Nat /\ MaxReorgDepth \in Nat
        /\ h \in 0..Height[tipHash]
    BY <1>1, HeightAssumption, ChainAssumption
  <1>3. f < h
    BY <1>1, <1>2 DEF TooDeep
  <1>4. h # Height[b]
    <2>1. Path[b][Height[b]] = b
      BY PathAssumption, Zenon
    <2> QED BY <1>1, <1>2, <2>1, BetterNotOnPath, Zenon
  <1>5. h \in f + 1..Height[b] - 1
    BY <1>2, <1>3, <1>4
  <1>6. ~OnMainChain(Path[b][h])
    BY <1>5, Zenon DEF ForksAt
  <1>7. /\ Height[Path[b][h]] = h /\ DOMAIN hashByHeight = 0..Height[tipHash]
        /\ Path[tipHash][h] \in known
    BY <1>2, PathFacts, PathAssumption DEF Tracks
  <1> QED BY <1>1, <1>2, <1>6, <1>7, Zenon DEF OnMainChain

(* A step that leaves the tip alone, and tracks no block that it should     *)
(* have gone to.                                                            *)
LEMMA BestUntouched ==
  ASSUME TypeOK, BestInv, AtRest \/ Extending, AtRest' \/ Extending', tipHash' = tipHash,
         \A b \in known' : b \in known \/ Fine(b, tipHash)
  PROVE  BestInv'
  <1>1. \A b \in known' : Fine(b, tipHash)
    BY Zenon DEF BestInv
  <1>2. ~InReorg'
    BY Zenon DEF AtRest, Extending, InReorg
  <1> QED BY <1>1, <1>2, Zenon DEF BestInv, Fine, Near, ValidPath

(* Beginning a reorg: what was known is remembered. *)
LEMMA StartReorgBest ==
  ASSUME TypeOK, BestInv,
         NEW b \in Blocks, NEW who \in {"process", "orphan"}, StartReorg(b, who)
  PROVE  BestInv'
  <1>1. /\ pc \in {"idle", "orphans"} /\ pc' = "disconnect" /\ tipHash' = tipHash
        /\ cur' = b /\ caller' = who /\ snapshot'.tip = tipHash /\ snapshot'.known = known'
    BY Zenon DEF StartReorg, WantsReorg, Handles, NextOrphan
  <1>2. \A c \in known' : c \in known \/ (c = b /\ who = "orphan")
    BY Zenon DEF StartReorg, Tracked
  <1>3. \A c \in known : Fine(c, tipHash)
    BY <1>1, Zenon DEF BestInv, AtRest
  <1>4. ~(AtRest \/ Extending)'
    BY <1>1, Zenon DEF AtRest, Extending
  <1> QED BY <1>1, <1>2, <1>3, <1>4, Zenon DEF BestInv, Fine, Near, ValidPath

(* The steps inside a reorg only track blocks of the chain it goes to. *)
LEMMA ReorgBest ==
  ASSUME TypeOK, Shape, BestInv, InReorg, InReorg', UNCHANGED <<cur, caller, snapshot>>,
         \A b \in known' : b \in known \/ \E h \in 0..Height[cur] : b = Path[cur][h]
  PROVE  BestInv'
  <1>1. ~(AtRest \/ Extending)'
    BY Zenon DEF AtRest, Extending, InReorg
  <1>2. /\ \A b \in snapshot.known : Fine(b, snapshot.tip) \/ (b = cur /\ caller = "orphan")
        /\ \A b \in known' : b \in snapshot.known \/ \E h \in 0..Height[cur] : b = Path[cur][h]
    BY Zenon DEF BestInv
  <1> QED BY <1>1, <1>2, Zenon DEF BestInv, Fine, Near, ValidPath

(* A reorg that returns has left nothing better behind. *)
LEMMA ReorgDoneBest ==
  ASSUME NeverLower, TypeOK, Shape, UtxoInv, BestInv, ReorgDone
  PROVE  BestInv'
  <1>1. /\ InReorg /\ tipHash = cur /\ tipHash' = cur /\ known' = known /\ pc' = "orphans"
        /\ cur \in Blocks /\ SnapshotOK /\ known \subseteq Blocks
    BY Zenon DEF ReorgDone, Finish, memory, Shape, TypeOK, InReorg
  <1>2. /\ snapshot.tip \in Blocks /\ Better(cur, snapshot.tip) /\ fork \in 0..Height[snapshot.tip]
        /\ fork \in 0..Height[cur] /\ Path[cur][fork] = Path[snapshot.tip][fork]
    <2>1. fork \in Nat /\ Height[cur] \in Nat /\ snapshot.tip \in Blocks
      BY <1>1, HeightAssumption, Zenon DEF TypeOK, SnapshotOK
    <2>2. Height[snapshot.tip] \in Nat
      BY <2>1, HeightAssumption, Zenon
    <2> QED BY <1>1, <2>1, <2>2 DEF SnapshotOK
  <1>3. ~(MaxReorgDepth > 0 /\ Height[snapshot.tip] - fork > MaxReorgDepth)
    BY <1>1, Zenon DEF UtxoInv
  <1>4. Near(cur, snapshot.tip)
    BY <1>2, <1>3 DEF Near
  <1>5. MaxReorgDepth = 0 \/ Height[cur] >= Height[snapshot.tip]
    BY <1>1, <1>2, <1>4, Zenon DEF NeverLower
  <1>6. ASSUME NEW b \in known PROVE Fine(b, cur)
    <2>1. CASE \E h \in 0..Height[cur] : b = Path[cur][h]
      BY <1>1, <2>1, FineOnPath, Zenon
    <2>2. CASE b = cur
      BY <1>1, <2>2, <2>1, PathAssumption, HeightAssumption
    <2>3. CASE Fine(b, snapshot.tip)
      BY <1>1, <1>2, <1>3, <1>5, <2>3, FineMoves, Zenon
    <2>4. \/ \E h \in 0..Height[cur] : b = Path[cur][h]
          \/ b = cur \/ Fine(b, snapshot.tip)
      BY <1>1, Zenon DEF BestInv
    <2> QED BY <2>1, <2>2, <2>3, <2>4, Zenon
  <1>7. ~InReorg'
    BY <1>1, Zenon DEF InReorg
  <1> QED BY <1>1, <1>6, <1>7, Zenon DEF BestInv, Fine, Near, ValidPath

(* A reorg that fails goes back to what was known before it. *)
LEMMA ReorgFailsBest ==
  ASSUME TypeOK, BestInv, ReorgFails
  PROVE  BestInv'
  <1>1. InReorg
    BY Zenon DEF ReorgFails, ReorgStepFails, InReorg
  <1>2. /\ pc' \in {"idle", "orphans"} /\ tipHash' = snapshot.tip
        /\ \A b \in known' : b \in snapshot.known /\ ~(b = cur /\ caller = "orphan")
    BY Zenon DEF ReorgFails, Finish, Resume
  <1>3. \A b \in known' : Fine(b, snapshot.tip)
    BY <1>1, <1>2, Zenon DEF BestInv
  <1>4. ~InReorg'
    BY <1>2, Zenon DEF InReorg
  <1> QED BY <1>2, <1>3, <1>4, Zenon DEF BestInv, Fine, Near, ValidPath

(* A block that becomes the tip leaves nothing better behind. *)
LEMMA ExtendTipBest ==
  ASSUME TypeOK, Shape, UtxoInv, BestInv, ExtendTip
  PROVE  BestInv'
  <1>1. /\ Extending /\ tipHash' = cur /\ known' = known \cup {cur} /\ pc' = "orphans"
        /\ cur \in Blocks /\ cur # Genesis /\ Parent[cur] = tipHash /\ tipHash \in Blocks
        /\ Better(cur, tipHash) /\ known \subseteq Blocks
    BY Zenon DEF ExtendTip, Finish, Shape, UtxoInv, TypeOK, Extending
  <1>2. /\ Height[tipHash] \in Nat /\ Height[cur] = Height[tipHash] + 1
        /\ Height[tipHash] \in 0..Height[tipHash] /\ Height[tipHash] \in 0..Height[cur]
        /\ Path[cur][Height[tipHash]] = Path[tipHash][Height[tipHash]]
    <2>1. Height[tipHash] \in Nat /\ Height[cur] = Height[tipHash] + 1
      BY <1>1, HeightAssumption, Zenon
    <2> QED BY <1>1, <2>1, PathOfChild
  <1>3. ~(MaxReorgDepth > 0 /\ Height[tipHash] - Height[tipHash] > MaxReorgDepth)
    BY <1>2, ChainAssumption
  <1>4. ASSUME NEW b \in known' PROVE Fine(b, cur)
    <2>1. CASE b = cur
      <3>1. Height[cur] \in 0..Height[cur] /\ Path[cur][Height[cur]] = cur
        BY <1>1, <1>2, PathAssumption
      <3> QED BY <1>1, <2>1, <3>1, FineOnPath, Zenon
    <2>2. CASE b \in known
      <3>1. Fine(b, tipHash) /\ b \in Blocks
        BY <1>1, <2>2, Zenon DEF BestInv
      <3> QED BY <1>1, <1>2, <1>3, <3>1, FineMoves
    <2> QED BY <1>1, <2>1, <2>2, Zenon
  <1>5. ~InReorg'
    BY <1>1, Zenon DEF InReorg
  <1> QED BY <1>1, <1>4, <1>5, Zenon DEF BestInv, Fine, Near, ValidPath

(* The invariant of the best known chain is inductive. *)
LEMMA BestInductive ==
  ASSUME Steady, NeverLower
  PROVE  TypeOK /\ Shape /\ UtxoInv /\ BestInv /\ [Next]_vars => BestInv'
  <1> SUFFICES ASSUME TypeOK, Shape, UtxoInv, BestInv, [Next]_vars PROVE BestInv'
    BY Zenon
  <1>1. CASE GenesisIndex
    BY <1>1, Zenon DEF GenesisIndex, BestInv, AtRest, Extending, InReorg
  <1>2. CASE GenesisTip
    <2>1. 0 \in 0..Height[Genesis] /\ Path[Genesis][0] = Genesis /\ Genesis \in Blocks
      BY HeightAssumption, PathAssumption, TreeAssumption
    <2>2. Fine(Genesis, Genesis)
      BY <2>1, FineOnPath, Zenon
    <2>3. tipHash' = Genesis /\ known' = {Genesis} /\ ~InReorg'
      BY <1>2, Zenon DEF GenesisTip, InReorg
    <2> QED BY <2>2, <2>3, Zenon DEF BestInv, Fine, Near, ValidPath
  <1>3. CASE LoadChainstate \/ AdvanceTip \/ Rebuild
    BY <1>3, Zenon DEF LoadChainstate, AdvanceTip, Rebuild, Boot, UtxoInv
  <1>4. CASE Crash
    BY <1>4, Steady DEF Steady, Crash, TypeOK
  <1>5. CASE GenesisFlush \/ ExtendIndex \/ ExtendPersist \/ ExtendFails \/ NextParent \/ Return
    <2>1. /\ (AtRest \/ Extending) /\ (AtRest \/ Extending)'
          /\ tipHash' = tipHash /\ known' = known
      BY <1>5, Zenon DEF GenesisFlush, ExtendIndex, ExtendPersist, ExtendFails, NextParent, Return,
         Finish, Resume, memory, AtRest, Extending
    <2> QED BY <2>1, BestUntouched, Zenon
  <1>6. ASSUME NEW b \in Blocks, NEW who \in {"process", "orphan"},
               AddOrphan(b) \/ StartExtend(b, who) \/ ExtendUndoFails(b) \/ SkipOrphan(b)
                 \/ ReorgUnloadable(b) \/ ReorgTooDeep(b, who) \/ StoreSide(b, who)
        PROVE  BestInv'
    <2>1. /\ pc \in {"idle", "orphans"} /\ pc' \in {"idle", "orphans", "index"}
          /\ tipHash' = tipHash /\ known' \subseteq known \cup {b}
      <3>1. CASE AddOrphan(b) \/ SkipOrphan(b) \/ ReorgUnloadable(b) \/ ExtendUndoFails(b)
        BY <3>1, Zenon DEF AddOrphan, SkipOrphan, ReorgUnloadable, ExtendUndoFails, WantsReorg, Handles,
           NextOrphan, memory
      <3>2. CASE StartExtend(b, who) \/ ReorgTooDeep(b, who) \/ StoreSide(b, who)
        BY <3>2, Zenon DEF StartExtend, ReorgTooDeep, StoreSide, WantsReorg, Handles, NextOrphan
      <3> QED BY <1>6, <3>1, <3>2, Zenon
    <2>2. known' \subseteq known \/ Fine(b, tipHash)
      <3>1. CASE ReorgTooDeep(b, who)
        <4>1. /\ tipHash \in Blocks /\ hashByHeight = Path[tipHash]
              /\ Tracks(known, tipHash, Height[tipHash])
          BY <2>1, Zenon DEF Shape, AtRest
        <4>2. Better(b, tipHash) /\ \E f \in 0..Height[b] - 1 : ForksAt(b, f) /\ TooDeep(f)
          BY <3>1, Zenon DEF ReorgTooDeep, WantsReorg, BeatsTip
        <4> QED BY <4>1, <4>2, TooDeepIsFine, Zenon
      <3>2. CASE StoreSide(b, who)
        BY <3>2, Zenon DEF StoreSide, BeatsTip, Fine
      <3>3. CASE AddOrphan(b) \/ StartExtend(b, who) \/ ExtendUndoFails(b) \/ SkipOrphan(b)
                   \/ ReorgUnloadable(b)
        BY <3>3, Zenon DEF AddOrphan, StartExtend, ExtendUndoFails, SkipOrphan, ReorgUnloadable, memory
      <3> QED BY <1>6, <3>1, <3>2, <3>3, Zenon
    <2>3. (AtRest \/ Extending) /\ (AtRest \/ Extending)'
      BY <2>1, Zenon DEF AtRest, Extending
    <2> QED BY <2>1, <2>2, <2>3, BestUntouched, Zenon
  <1>7. ASSUME NEW b \in Blocks, NEW who \in {"process", "orphan"}, StartReorg(b, who)
        PROVE  BestInv'
    BY <1>7, StartReorgBest, Zenon
  <1>8. CASE Disconnect \/ Unlink \/ Connect \/ ReorgTip \/ ReorgUndo
    <2>1. /\ InReorg /\ InReorg' /\ UNCHANGED <<cur, caller, snapshot>>
          /\ known' \subseteq known \/ Connect
      BY <1>8, Zenon DEF Disconnect, Unlink, Connect, ReorgTip, ReorgUndo, InReorg, memory
    <2>2. CASE Connect
      <3>1. at \in 0..Height[cur] /\ known' = known \cup {Path[cur][at]}
        BY <2>2, HeightAssumption DEF Connect, Shape, TypeOK, InReorg
      <3> QED BY <2>1, <3>1, ReorgBest, Zenon
    <2> QED BY <2>1, <2>2, ReorgBest, Zenon
  <1>9. CASE ReorgDone
    BY <1>9, ReorgDoneBest, Zenon
  <1>10. CASE ReorgFails
    BY <1>10, ReorgFailsBest, Zenon
  <1>11. CASE ExtendTip
    BY <1>11, ExtendTipBest, Zenon
  <1>12. CASE ExtendTipFails
    BY <1>12, Steady, Zenon DEF Steady, ExtendTipFails
  <1>13. CASE UNCHANGED vars
    BY <1>13, Zenon DEF vars, memory, work, BestInv, Fine, Near, ValidPath, AtRest, Extending, InReorg
  <1>14. CASE Receive
    BY <1>6, <1>7, <1>14, Zenon DEF Receive, ProcessBlock
  <1>15. CASE NodeStep
    <2>1. \A b \in toProcess : b \in Blocks
      BY Zenon DEF TypeOK
    <2> QED
      BY <1>1, <1>2, <1>3, <1>5, <1>6, <1>7, <1>8, <1>9, <1>10, <1>11, <1>12, <1>15, <2>1, Zenon
      DEF NodeStep
  <1> QED BY <1>4, <1>13, <1>14, <1>15, Zenon DEF Next

(* The node is on the best chain it knows whenever the lock is free: no     *)
(* tracked block that is valid all the way down, and that a reorg may go    *)
(* to, beats the tip, for every order of arrival and through failed reorgs  *)
(* and failed writes.                                                       *)
THEOREM BestAlwaysKnown == ASSUME Steady, NeverLower PROVE Spec => []BestKnown
  <1>1. Init => TypeOK /\ Shape /\ UtxoInv /\ BestInv
    <2>1. Init => UtxoInv /\ BestInv
      BY Zenon DEF Init, UtxoInv, BestInv, AtRest, Extending, InReorg
    <2> QED BY <2>1, InitShape, Zenon
  <1>2. TypeOK /\ Shape /\ UtxoInv /\ BestInv /\ [Next]_vars
          => (TypeOK /\ Shape /\ UtxoInv /\ BestInv)'
    BY ShapeInductive, UtxoInductive, BestInductive, Zenon
  <1>3. BestInv => BestKnown
    <2> SUFFICES ASSUME BestInv, Unlocked, NEW b \in known, ValidPath(b), WithinDepth(b)
                 PROVE  ~Better(b, tipHash)
      BY Zenon DEF BestKnown
    <2>1. Fine(b, tipHash)
      BY Zenon DEF BestInv, AtRest, Unlocked
    <2>2. Near(b, tipHash)
      BY Zenon DEF WithinDepth, Near, TooDeep
    <2> QED BY <2>1, <2>2, Zenon DEF Fine
  <1> QED BY <1>1, <1>2, <1>3, PTL DEF Spec

-----------------------------------------------------------------------------
(* The chainstate on disk. *)

(* The behaviours in which no reorg fails half-way.  A failed reorg takes   *)
(* memory back to its snapshot and leaves on disk what it flushed.          *)
NoReorgFails == [][~ReorgFails]_vars

(* The chainstate is that of block b. *)
Flushed(b) == bestBlock = b /\ coins = UtxoAt[b]

(***************************************************************************)
(* The inductive invariant: the block of which the chainstate is, at every *)
(* step of a call.  An extension is one block behind memory until its      *)
(* batch is written; a reorg flushes each block that it takes off or puts  *)
(* on, so that the chainstate is at the height it works at.                *)
(***************************************************************************)
CoinsInv ==
  /\ pc \in {"down", "genTip", "genFlush"} => bestBlock = NoBlock /\ coins = {}
  /\ pc = "genFlush" => tipHash = Genesis
  /\ pc \in {"idle", "orphans", "index", "persist"} => Flushed(tipHash)
  /\ pc \in {"tip", "undo"} => Flushed(cur)
  /\ pc = "disconnect" => Flushed(Path[tipHash][at])
  /\ pc = "connect" => Flushed(Path[cur][at - 1])

(* The batch of a block that connects takes the chainstate from its parent  *)
(* to it.                                                                   *)
LEMMA PersistGives ==
  ASSUME NEW b \in Blocks, b # Genesis, Connects(b)
  PROVE  PersistConnect(UtxoAt[Parent[b]], UtxoAt[b], b) = UtxoAt[b]
  <1>1. UtxoAt[b] = (UtxoAt[Parent[b]] \ Spends[b]) \cup Creates[b]
    BY UtxoAssumption, Zenon
  <1>2. Creates[b] \cap (UtxoAt[Parent[b]] \cup Spends[b]) = {}
    BY FreshAssumption, Zenon
  <1> QED BY <1>1, <1>2, Zenon DEF PersistConnect

(* A step that leaves alone what CoinsInv is about keeps it, also when it   *)
(* goes from one state in which memory and chainstate are at the tip to     *)
(* another.                                                                 *)
LEMMA CoinsUntouched ==
  ASSUME CoinsInv, UNCHANGED <<tipHash, coins, bestBlock, cur, at>>,
         \/ pc' = pc
         \/ /\ pc \in {"idle", "orphans", "index", "persist"}
            /\ pc' \in {"idle", "orphans", "index", "persist"}
  PROVE  CoinsInv'
  BY Zenon DEF CoinsInv, Flushed

(* Taking a block off, and its batch, keep the invariant. *)
LEMMA DisconnectCoins ==
  ASSUME TypeOK, Shape, UtxoInv, CoinsInv, Disconnect PROVE CoinsInv'
  <1>1. /\ pc = "disconnect" /\ tipHash \in Blocks /\ hashByHeight = Path[tipHash]
        /\ tipHash = snapshot.tip /\ Height[tipHash] \in Nat /\ fork \in Nat /\ at \in Nat
        /\ at > fork /\ at <= Height[tipHash]
    BY HeightAssumption, Zenon DEF Disconnect, Shape, TypeOK
  <1>2. at \in 1..Height[tipHash] /\ at \in 0..Height[tipHash] /\ at > 0
    BY <1>1
  <1>3. /\ Path[tipHash][at] \in Blocks /\ Path[tipHash][at] # Genesis
        /\ Parent[Path[tipHash][at]] = Path[tipHash][at - 1]
    BY <1>1, <1>2, PathFacts, Zenon
  <1>4. Connects(Path[tipHash][at])
    BY <1>1, <1>2, Zenon DEF UtxoInv, InReorg, ValidTo
  <1>5. DisconnectBlock(UtxoAt[Path[tipHash][at]], Path[tipHash][at]) = UtxoAt[Path[tipHash][at - 1]]
    BY <1>3, <1>4, DisconnectGives, Zenon
  <1>6. Flushed(Path[tipHash][at])
    BY <1>1, Zenon DEF CoinsInv
  <1>7. /\ pc' = "disconnect" /\ at' = at - 1 /\ tipHash' = tipHash
        /\ coins' = PersistDisconnect(coins, Path[tipHash][at])
        /\ bestBlock' = Path[tipHash][at - 1]
    BY <1>1, <1>3, Zenon DEF Disconnect
  <1> QED BY <1>5, <1>6, <1>7, Zenon
          DEF CoinsInv, Flushed, PersistDisconnect, DisconnectBlock

(* Putting a block on, and its batch, keep the invariant. *)
LEMMA ConnectCoins ==
  ASSUME TypeOK, Shape, UtxoInv, CoinsInv, Connect PROVE CoinsInv'
  <1>1. /\ pc = "connect" /\ cur \in Blocks /\ Height[cur] \in Nat
        /\ fork \in Nat /\ at \in Nat /\ fork + 1 <= at /\ at <= Height[cur]
    BY HeightAssumption, Zenon DEF Connect, Shape, TypeOK, InReorg
  <1>2. at \in 0..Height[cur] /\ at > 0 /\ (at + 1) - 1 = at
    BY <1>1
  <1>3. /\ Path[cur][at] \in Blocks /\ Path[cur][at] # Genesis
        /\ Parent[Path[cur][at]] = Path[cur][at - 1]
    BY <1>1, <1>2, PathFacts, Zenon
  <1>4. utxoSet = UtxoAt[Path[cur][at - 1]] /\ Flushed(Path[cur][at - 1])
    BY <1>1, Zenon DEF UtxoInv, CoinsInv
  <1>5. ConnectBlock(utxoSet, Path[cur][at]) = UtxoAt[Path[cur][at]] /\ Connects(Path[cur][at])
    BY <1>3, <1>4, ConnectGives, Zenon DEF Connect
  <1>6. PersistConnect(coins, UtxoAt[Path[cur][at]], Path[cur][at]) = UtxoAt[Path[cur][at]]
    BY <1>3, <1>4, <1>5, PersistGives, Zenon DEF Flushed
  <1>7. /\ pc' = "connect" /\ at' = at + 1 /\ cur' = cur /\ bestBlock' = Path[cur][at]
        /\ coins' = PersistConnect(coins, ConnectBlock(utxoSet, Path[cur][at]), Path[cur][at])
    BY <1>1, Zenon DEF Connect
  <1>8. coins' = UtxoAt[Path[cur][at]]
    BY <1>5, <1>6, <1>7, Zenon
  <1>9. at' - 1 = at
    BY <1>2, <1>7
  <1> QED BY <1>7, <1>8, <1>9, Zenon DEF CoinsInv, Flushed

(* The invariant of the chainstate is inductive as long as no reorg fails. *)
LEMMA CoinsInductive ==
  ASSUME Steady
  PROVE  TypeOK /\ Shape /\ UtxoInv /\ CoinsInv /\ [Next]_vars /\ [~ReorgFails]_vars => CoinsInv'
  <1> SUFFICES ASSUME TypeOK, Shape, UtxoInv, CoinsInv, [Next]_vars, [~ReorgFails]_vars
               PROVE  CoinsInv'
    BY Zenon
  <1>1. CASE GenesisIndex \/ GenesisTip
    BY <1>1, Zenon DEF GenesisIndex, GenesisTip, memory, CoinsInv
  <1>2. CASE GenesisFlush
    <2>1. /\ pc = "genFlush" /\ pc' = "idle" /\ tipHash' = Genesis
          /\ coins = {} /\ utxoSet = UtxoAt[Genesis]
      BY <1>2, Zenon DEF GenesisFlush, memory, CoinsInv, UtxoInv, AtRest
    <2>2. coins' = UtxoAt[Genesis] /\ bestBlock' = Genesis
      BY <1>2, <2>1, Zenon DEF GenesisFlush
    <2> QED BY <2>1, <2>2, Zenon DEF CoinsInv, Flushed
  <1>3. CASE LoadChainstate \/ AdvanceTip \/ Rebuild
    BY <1>3, Zenon DEF LoadChainstate, AdvanceTip, Rebuild, Boot, UtxoInv
  <1>4. CASE Crash
    BY <1>4, Steady DEF Steady, Crash, TypeOK
  <1>5. ASSUME NEW b \in Blocks, NEW who \in {"process", "orphan"},
               AddOrphan(b) \/ ExtendUndoFails(b) \/ StartExtend(b, who)
                 \/ ReorgTooDeep(b, who) \/ StoreSide(b, who)
        PROVE  CoinsInv'
    <2>1. /\ pc \in {"idle", "orphans"} /\ pc' \in {"idle", "orphans", "index"}
          /\ UNCHANGED <<tipHash, coins, bestBlock>>
      BY <1>5, Zenon DEF AddOrphan, ExtendUndoFails, StartExtend, ReorgTooDeep, StoreSide,
         WantsReorg, Handles, NextOrphan, disk
    <2> QED BY <2>1, Zenon DEF CoinsInv, Flushed
  <1>6. CASE ExtendIndex
    BY <1>6, CoinsUntouched, Zenon DEF ExtendIndex, memory, work
  <1>7. CASE ExtendPersist
    <2>1. /\ pc = "persist" /\ cur \in Blocks /\ cur # Genesis /\ Parent[cur] = tipHash
          /\ utxoSet = UtxoAt[cur] /\ Connects(cur) /\ Flushed(tipHash)
      BY <1>7, Zenon DEF ExtendPersist, Shape, UtxoInv, CoinsInv, Extending
    <2>2. PersistConnect(coins, utxoSet, cur) = UtxoAt[cur]
      BY <2>1, PersistGives, Zenon DEF Flushed
    <2>3. pc' = "tip" /\ cur' = cur /\ bestBlock' = cur /\ coins' = UtxoAt[cur]
      BY <1>7, <2>2, Zenon DEF ExtendPersist, work
    <2> QED BY <2>3, Zenon DEF CoinsInv, Flushed
  <1>8. CASE ExtendTip
    <2>1. pc = "tip" /\ tipHash' = cur /\ pc' = "orphans" /\ UNCHANGED <<coins, bestBlock>>
      BY <1>8, Zenon DEF ExtendTip, Finish
    <2> QED BY <2>1, Zenon DEF CoinsInv, Flushed
  <1>9. CASE ExtendFails
    <2>1. /\ pc \in {"index", "persist"} /\ pc' \in {"idle", "orphans"}
          /\ UNCHANGED <<tipHash, coins, bestBlock>>
      BY <1>9, Zenon DEF ExtendFails, Finish, Resume, disk
    <2> QED BY <2>1, Zenon DEF CoinsInv, Flushed
  <1>10. CASE ExtendTipFails
    BY <1>10, Steady, Zenon DEF Steady, ExtendTipFails
  <1>11. ASSUME NEW b \in Blocks, NEW who \in {"process", "orphan"}, StartReorg(b, who)
         PROVE  CoinsInv'
    <2>1. pc \in {"idle", "orphans"}
      BY <1>11, Zenon DEF StartReorg, WantsReorg, Handles, NextOrphan
    <2>2. tipHash \in Blocks /\ Flushed(tipHash)
      BY <2>1, Zenon DEF Shape, CoinsInv
    <2>3. Path[tipHash][Height[tipHash]] = tipHash
      BY <2>2, PathAssumption, Zenon
    <2>4. pc' = "disconnect" /\ at' = Height[tipHash] /\ UNCHANGED <<tipHash, coins, bestBlock>>
      BY <1>11, Zenon DEF StartReorg
    <2> QED BY <2>2, <2>3, <2>4, Zenon DEF CoinsInv, Flushed
  <1>12. CASE Disconnect \/ Connect
    BY <1>12, DisconnectCoins, ConnectCoins, Zenon
  <1>13. CASE Unlink
    <2>1. /\ pc = "disconnect" /\ at = fork /\ fork \in Nat /\ tipHash = snapshot.tip
          /\ Path[cur][fork] = Path[tipHash][fork] /\ Flushed(Path[tipHash][at])
      BY <1>13, Zenon DEF Unlink, Shape, SnapshotOK, InReorg, TypeOK, CoinsInv
    <2>2. /\ pc' = "connect" /\ at' = fork + 1 /\ cur' = cur
          /\ UNCHANGED <<coins, bestBlock>>
      BY <1>13, Zenon DEF Unlink, disk
    <2>3. (fork + 1) - 1 = fork
      BY <2>1
    <2> QED BY <2>1, <2>2, <2>3, Zenon DEF CoinsInv, Flushed
  <1>14. CASE ReorgTip
    <2>1. /\ pc = "connect" /\ at = Height[cur] + 1 /\ cur \in Blocks
          /\ Flushed(Path[cur][at - 1])
      BY <1>14, Zenon DEF ReorgTip, Shape, InReorg, CoinsInv
    <2>2. Height[cur] \in Nat /\ Path[cur][Height[cur]] = cur
      BY <2>1, HeightAssumption, PathAssumption, Zenon
    <2>3. at - 1 = Height[cur]
      BY <2>1, <2>2
    <2>4. pc' = "undo" /\ cur' = cur /\ UNCHANGED <<coins, bestBlock>>
      BY <1>14, Zenon DEF ReorgTip
    <2> QED BY <2>1, <2>2, <2>3, <2>4, Zenon DEF CoinsInv, Flushed
  <1>15. CASE ReorgUndo
    <2>1. pc = "undo" /\ pc' = "undo" /\ UNCHANGED <<cur, coins, bestBlock>>
      BY <1>15, Zenon DEF ReorgUndo
    <2> QED BY <2>1, Zenon DEF CoinsInv, Flushed
  <1>16. CASE ReorgDone
    <2>1. pc = "undo" /\ tipHash = cur /\ pc' = "orphans" /\ UNCHANGED <<tipHash, coins, bestBlock>>
      BY <1>16, Zenon DEF ReorgDone, Finish, Shape, memory, disk
    <2> QED BY <2>1, Zenon DEF CoinsInv, Flushed
  <1>17. ASSUME NEW b \in Blocks, ReorgUnloadable(b) \/ SkipOrphan(b)
         PROVE  CoinsInv'
    BY <1>17, CoinsUntouched, Zenon DEF ReorgUnloadable, SkipOrphan, disk, memory, work
  <1>18. CASE NextParent \/ Return
    BY <1>18, CoinsUntouched, Zenon DEF NextParent, Return, disk, memory, work
  <1>19. CASE UNCHANGED vars
    BY <1>19, CoinsUntouched, Zenon DEF vars, disk, memory, work
  <1>20. CASE Receive
    BY <1>5, <1>11, <1>20, Zenon DEF Receive, ProcessBlock
  <1>21. CASE NodeStep /\ ~ReorgFails
    <2>1. \A b \in toProcess : b \in Blocks
      BY Zenon DEF TypeOK
    <2> QED
      BY <1>1, <1>2, <1>3, <1>5, <1>6, <1>7, <1>8, <1>9, <1>10, <1>11, <1>12, <1>13,
         <1>14, <1>15, <1>16, <1>17, <1>18, <1>21, <2>1, Zenon
      DEF NodeStep
  <1> QED BY <1>4, <1>19, <1>20, <1>21, Zenon DEF Next

(* As long as no reorg fails, the chainstate database holds exactly the     *)
(* UTXO set of the block that its best-block record names, between any two  *)
(* writes of any call: a process that ended there would find a chainstate   *)
(* that it may load.                                                        *)
THEOREM ChainstateAlwaysAtBest ==
  ASSUME Steady PROVE Spec /\ NoReorgFails => []ChainstateAtBest
  <1>1. Init => TypeOK /\ Shape /\ UtxoInv /\ CoinsInv
    <2>1. Init => UtxoInv /\ CoinsInv
      BY Zenon DEF Init, UtxoInv, CoinsInv, AtRest, Extending, InReorg
    <2> QED BY <2>1, InitShape, Zenon
  <1>2. TypeOK /\ Shape /\ UtxoInv /\ CoinsInv /\ [Next]_vars /\ [~ReorgFails]_vars
          => (TypeOK /\ Shape /\ UtxoInv /\ CoinsInv)'
    BY ShapeInductive, UtxoInductive, CoinsInductive, Zenon
  <1>3. TypeOK /\ CoinsInv => ChainstateAtBest
    BY DEF TypeOK, PCs, CoinsInv, Flushed, ChainstateAtBest
  <1> QED BY <1>1, <1>2, <1>3, PTL DEF Spec, NoReorgFails
====
