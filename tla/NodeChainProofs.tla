-------------------------- MODULE NodeChainProofs ---------------------------
(***************************************************************************)
(* Proofs about the chain that Node follows, for every tree of blocks,     *)
(* any number of peers and any reorganisation limit: facts about the tree, *)
(* the rounds of a reorganisation, and the two invariants TipInv and       *)
(* ClearedInv that say where the UTXO set and the cleared blocks stand.    *)
(***************************************************************************)
EXTENDS Node, WellFoundedInduction, TLAPS

-----------------------------------------------------------------------------
(* Facts about the tree. *)

(* A set of numbers has a least one.  With it, a fact about a number is     *)
(* proved by induction: look at the least number for which it is false.     *)
LEMMA LeastElement ==
  ASSUME NEW T, T \subseteq Nat, T # {}
  PROVE  \E x \in T : \A y \in T : x <= y
<1> DEFINE R == {ss \in Nat \X Nat : ss[1] < ss[2]}
<1>1. IsWellFoundedOn(R, Nat)
  BY NatLessThanWellFounded DEF OpToRel
<1>2. \A x, y \in Nat : x < y => <<x, y>> \in R
  OBVIOUS
<1> HIDE DEF R
<1>3. PICK x \in T : \A y \in T : ~(<<y, x>> \in R)
  BY <1>1, WFMin, Zenon
<1>4. ASSUME NEW y \in T PROVE x <= y
  <2>1. x \in Nat /\ y \in Nat
    OBVIOUS
  <2>2. ~(y < x)
    BY <2>1, <1>2, <1>3, Zenon
  <2> QED BY <2>1, <2>2
<1> QED BY <1>4

(* The ancestor of b at height h. *)
LEMMA PathFacts ==
  ASSUME NEW b \in Blocks, NEW h \in 0..Height[b]
  PROVE  /\ Height[b] \in Nat /\ Path[b][h] \in Blocks /\ Height[Path[b][h]] = h
         /\ \A g \in 0..h : Path[Path[b][h]][g] = Path[b][g]
         /\ h > 0 => Path[b][h] # Genesis /\ Parent[Path[b][h]] = Path[b][h - 1]
<1>1. Height[b] \in Nat
  BY HeightAssumption
<1>2. /\ Path[b] \in [0..Height[b] -> Blocks]
      /\ \A k \in 1..Height[b] : Path[b][k] # Genesis /\ Parent[Path[b][k]] = Path[b][k - 1]
      /\ \A k \in 0..Height[b] : /\ Height[Path[b][k]] = k
                                 /\ \A g \in 0..k : Path[Path[b][k]][g] = Path[b][g]
  BY PathAssumption, Zenon
<1>3. h > 0 => h \in 1..Height[b]
  BY <1>1
<1> QED BY <1>1, <1>2, <1>3

(* Every path begins with genesis. *)
LEMMA PathBegins ==
  ASSUME NEW b \in Blocks
  PROVE  Path[b][0] = Genesis
<1>1. 0 \in 0..Height[b]
  BY HeightAssumption
<1>2. Path[b][0] \in Blocks /\ Height[Path[b][0]] = 0
  BY <1>1, PathFacts
<1>3. ASSUME NEW c \in Blocks, c # Genesis PROVE Height[c] # 0
  <2>1. Parent[c] \in Blocks /\ Height[c] = Height[Parent[c]] + 1 /\ Height[Parent[c]] \in Nat
    BY <1>3, HeightAssumption, TreeAssumption
  <2> QED BY <2>1
<1> QED BY <1>2, <1>3

(* The path of a block continues that of its parent. *)
LEMMA PathOfChild ==
  ASSUME NEW b \in Blocks \ {Genesis}
  PROVE  /\ Parent[b] \in Blocks /\ Height[b] = Height[Parent[b]] + 1 /\ Height[Parent[b]] \in Nat
         /\ Path[b][Height[b]] = b
         /\ \A h \in 0..Height[Parent[b]] : Path[b][h] = Path[Parent[b]][h]
<1>1. Parent[b] \in Blocks /\ Height[b] = Height[Parent[b]] + 1 /\ Height[Parent[b]] \in Nat
  BY TreeAssumption, HeightAssumption
<1>2. Path[b][Height[b]] = b
  BY PathAssumption
<1>3. Height[Parent[b]] \in 0..Height[b] /\ Height[b] \in 0..Height[b] /\ Height[b] > 0
      /\ Height[b] - 1 = Height[Parent[b]]
  BY <1>1
<1>4. Path[b][Height[Parent[b]]] = Parent[b]
  BY <1>2, <1>3, PathFacts
<1> QED BY <1>1, <1>2, <1>3, <1>4, PathFacts

(* A chain is valid if all of it but its last block is, and that connects.  *)
LEMMA ValidUp ==
  ASSUME NEW b \in Blocks \ {Genesis}, ValidPath(Parent[b]), Connects(b)
  PROVE  ValidPath(b)
<1>1. ASSUME NEW h \in 1..Height[b] PROVE Connects(Path[b][h])
  <2>1. CASE h = Height[b]
    BY <2>1, PathOfChild
  <2>2. CASE h # Height[b]
    <3>1. h \in 1..Height[Parent[b]] /\ h \in 0..Height[Parent[b]]
      BY <2>2, PathOfChild
    <3> QED BY <3>1, PathOfChild DEF ValidPath
  <2> QED BY <2>1, <2>2
<1> QED BY <1>1 DEF ValidPath

(* Every part of a valid chain is valid. *)
LEMMA ValidDown ==
  ASSUME NEW b \in Blocks, ValidPath(b), NEW h \in 0..Height[b]
  PROVE  ValidPath(Path[b][h])
<1>1. Height[b] \in Nat /\ Height[Path[b][h]] = h /\ \A g \in 0..h : Path[Path[b][h]][g] = Path[b][g]
  BY PathFacts
<1>2. ASSUME NEW g \in 1..h PROVE Connects(Path[Path[b][h]][g])
  <2>1. g \in 0..h /\ g \in 1..Height[b]
    BY <1>1
  <2> QED BY <1>1, <2>1 DEF ValidPath
<1> QED BY <1>1, <1>2 DEF ValidPath

-----------------------------------------------------------------------------
(* What a chain has spent never comes back on it. *)

(* An unspent output was created by a block of the chain. *)
LEMMA CreatedBelow ==
  ASSUME NEW b \in Blocks, NEW h \in 0..Height[b], NEW c \in UtxoAt[Path[b][h]]
  PROVE  \E j \in 0..h : c \in Creates[Path[b][j]]
<1> DEFINE P(n) == \A x \in UtxoAt[Path[b][n]] : \E j \in 0..n : x \in Creates[Path[b][j]]
           T == {n \in 0..Height[b] : ~P(n)}
<1>1. Height[b] \in Nat
  BY HeightAssumption
<1>2. SUFFICES ASSUME T # {} PROVE FALSE
  OBVIOUS
<1>3. PICK n \in T : \A m \in T : n <= m
  <2>1. T \subseteq Nat
    BY <1>1
  <2> HIDE DEF T
  <2> QED BY <1>2, <2>1, LeastElement, Zenon
<1>4. n \in 0..Height[b] /\ ~P(n)
  OBVIOUS
<1>5. CASE n = 0
  BY <1>4, <1>5, PathBegins, UtxoAssumption
<1>6. CASE n # 0
  <2>1. n > 0 /\ n - 1 \in 0..Height[b] /\ ~(n <= n - 1)
    BY <1>1, <1>4, <1>6
  <2>2. P(n - 1)
    BY <1>3, <2>1
  <2>3. /\ Path[b][n] \in Blocks \ {Genesis} /\ Parent[Path[b][n]] = Path[b][n - 1]
    BY <1>4, <2>1, PathFacts
  <2>4. UtxoAt[Path[b][n]] = (UtxoAt[Path[b][n - 1]] \ Spends[Path[b][n]]) \cup Creates[Path[b][n]]
    BY <2>3, UtxoAssumption
  <2>5. n \in 0..n /\ \A j \in 0..n - 1 : j \in 0..n
    BY <1>4, <2>1
  <2> HIDE DEF T
  <2> QED BY <1>4, <2>2, <2>4, <2>5
<1> QED BY <1>5, <1>6

(* An output that a block of a valid chain spends is not unspent at any     *)
(* block above it.                                                          *)
LEMMA SpentForGood ==
  ASSUME NEW b \in Blocks, ValidPath(b), NEW h \in 1..Height[b]
  PROVE  Spends[Path[b][h]] \cap UtxoAt[b] = {}
<1> DEFINE S == Spends[Path[b][h]]
           T == {n \in h..Height[b] : S \cap UtxoAt[Path[b][n]] # {}}
<1>1. Height[b] \in Nat /\ Height[b] \in h..Height[b] /\ Path[b][Height[b]] = b
  BY HeightAssumption, PathAssumption
<1>2. SUFFICES ASSUME T # {} PROVE FALSE
  BY <1>1
<1>3. PICK n \in T : \A m \in T : n <= m
  <2>1. T \subseteq Nat
    BY <1>1
  <2> HIDE DEF T
  <2> QED BY <1>2, <2>1, LeastElement, Zenon
<1>4. n \in h..Height[b] /\ S \cap UtxoAt[Path[b][n]] # {}
  OBVIOUS
<1>5. n \in 0..Height[b] /\ n > 0 /\ n \in 1..Height[b]
  BY <1>1, <1>4
<1> DEFINE y == Path[b][n]
<1>6. y \in Blocks \ {Genesis} /\ Parent[y] = Path[b][n - 1] /\ Height[y] = n
      /\ \A g \in 0..n : Path[y][g] = Path[b][g]
  BY <1>5, PathFacts
<1>7. UtxoAt[y] = (UtxoAt[Path[b][n - 1]] \ Spends[y]) \cup Creates[y]
  BY <1>6, UtxoAssumption
<1>8. CASE n = h
  <2>1. Connects(y)
    BY <1>5 DEF ValidPath
  <2>2. Creates[y] \cap Spends[y] = {}
    BY <1>6, <2>1, FreshAssumption
  <2> QED BY <1>4, <1>7, <1>8, <2>2
<1>9. CASE n # h
  <2>1. n - 1 \in h..Height[b] /\ ~(n <= n - 1)
    BY <1>1, <1>4, <1>9
  <2>2. S \cap UtxoAt[Path[b][n - 1]] = {}
    BY <1>3, <2>1
  <2>3. PICK c \in S : c \in Creates[y]
    BY <1>4, <1>7, <2>2
  <2>4. h \in 0..Height[b] /\ h > 0 /\ h - 1 \in 0..Height[b]
    BY <1>1
  <2>5. Connects(Path[b][h]) /\ Parent[Path[b][h]] = Path[b][h - 1]
    BY <2>4, PathFacts DEF ValidPath
  <2>6. c \in UtxoAt[Path[b][h - 1]]
    BY <2>3, <2>5 DEF Connects
  <2>7. PICK j \in 0..h - 1 : c \in Creates[Path[b][j]]
    BY <2>4, <2>6, CreatedBelow
  <2>8. j \in 0..n /\ j \in 0..Height[y] - 1
    BY <1>4, <1>6, <2>7
  <2>9. ValidPath(y)
    BY <1>5, ValidDown
  <2>10. Creates[y] \cap Creates[Path[y][j]] = {}
    BY <1>6, <2>8, <2>9, CreatedOnceAssumption
  <2> QED BY <1>6, <2>3, <2>7, <2>8, <2>10
<1> QED BY <1>8, <1>9

(* Nor are the inputs of its transactions. *)
LEMMA ConfirmedNotSpendable ==
  ASSUME NEW b \in Blocks, ValidPath(b), NEW h \in 1..Height[b], NEW t \in BlockTxs[Path[b][h]]
  PROVE  ~(TxIns[t] \subseteq UtxoAt[b])
<1>1. Path[b][h] \in Blocks
  BY PathFacts, HeightAssumption
<1>2. TxIns[t] \subseteq Spends[Path[b][h]] /\ TxIns[t] # {}
  BY <1>1, NodeAssumption, MempoolAssumption
<1> QED BY <1>2, SpentForGood

-----------------------------------------------------------------------------
(* The inductive invariant of confirmed transactions.  BusyInv: blocks that *)
(* go to ProcessBlock exist and are not genesis.  TipInv: the UTXO set is   *)
(* that of the tip, or, in a reorganisation, of the block that the steps    *)
(* taken so far lead to.  ClearedInv: a block that was cleared is on the    *)
(* active chain, and its transactions are out unless a reorganisation that  *)
(* is going to leave the block is running.                                  *)

BusyInv ==
  /\ \A t \in Threads : pc[t] \in {"process", "unsee", "remove", "height", "relay"} =>
                          blk[t] \in Blocks \ {Genesis}
  /\ orphans \cup batch \subseteq Blocks \ {Genesis}

Old(b) == Height[tip] - ForkHeight(b)

Rounds(b) == Old(b) + Height[b] - ForkHeight(b)

(* The block whose UTXO set is there after k rounds of the loops of reorg. *)
At(b, k) == IF k <= Old(b) THEN Path[tip][Height[tip] - k]
                           ELSE Path[b][ForkHeight(b) + k - Old(b)]

Todo == Len(reorg.steps)

(* Todo rounds are left of the reorganisation to b. *)
Reorganising(b) ==
  /\ lock # "free" /\ reorg.before = UtxoAt[tip] /\ Todo <= Rounds(b)
  /\ \A i \in 1..Todo : reorg.steps[i] = ReorgSteps(b)[Rounds(b) - Todo + i]
  /\ utxo = UtxoAt[At(b, Rounds(b) - Todo)] /\ ValidPath(At(b, Rounds(b) - Todo))

Reorgs == [block : (Blocks \ {Genesis}) \cup {NoBlock}, steps : Seq([on : BOOLEAN, block : Blocks]),
           before : SUBSET Coins, orphan : BOOLEAN]

TipInv ==
  /\ tip \in Blocks /\ ValidPath(tip) /\ reorg \in Reorgs
  /\ reorg.block = NoBlock => utxo = UtxoAt[tip] /\ reorg.steps = << >>
  /\ \A b \in Blocks : reorg.block = b => Reorganising(b)

(* Block b is not one that a running reorganisation is going to leave. *)
Kept(b) == \A r \in Blocks : reorg.block = r => Height[b] <= ForkHeight(r)

ClearedInv ==
  /\ cleared \subseteq Blocks \ {Genesis}
  /\ \A b \in cleared : OnActiveChain(b)
  /\ view.live => \A b \in cleared : Kept(b) => BlockTxs[b] \cap txs = {}

-----------------------------------------------------------------------------
(* The rounds of a reorganisation. *)

(* ForkHeight finds the last height at which the two chains agree. *)
LEMMA ForkFacts ==
  ASSUME tip \in Blocks, NEW b \in Blocks \ {Genesis}
  PROVE  /\ Height[tip] \in Nat /\ Height[b] \in Nat
         /\ ForkHeight(b) \in 0..Height[b] - 1 /\ ForkHeight(b) <= Height[tip]
         /\ \A g \in 0..ForkHeight(b) : Path[b][g] = Path[tip][g]
<1> DEFINE n == Height[b] - 1
           S == {f \in 0..n : f <= Height[tip] /\ Path[b][f] = Path[tip][f]}
           T == {n - f : f \in S}
<1>1. Height[tip] \in Nat /\ Height[b] \in Nat /\ n \in Nat
  BY HeightAssumption, PathOfChild
<1>2. 0 \in S
  BY <1>1, PathBegins
<1>3. PICK f \in S : \A g \in S : n - f <= n - g
  <2>1. T \subseteq Nat /\ T # {}
    BY <1>1, <1>2
  <2> HIDE DEF T
  <2>2. PICK x \in T : \A y \in T : x <= y
    BY <2>1, LeastElement, Zenon
  <2> USE DEF T
  <2> QED BY <2>2
<1>4. f \in 0..n /\ f <= Height[tip] /\ Path[b][f] = Path[tip][f]
  OBVIOUS
<1>5. ASSUME NEW h \in f + 1..n PROVE h > Height[tip] \/ Path[b][h] # Path[tip][h]
  <2>1. SUFFICES ASSUME h \in S PROVE FALSE
    BY <1>1, <1>4
  <2>2. n - f <= n - h
    BY <1>3, <2>1
  <2> QED BY <1>1, <1>4, <2>2
<1> DEFINE F == ForkHeight(b)
<1>6. /\ F \in 0..n /\ F <= Height[tip] /\ Path[b][F] = Path[tip][F]
  <2>1. \E e \in 0..Height[b] - 1 :
          /\ e <= Height[tip] /\ Path[b][e] = Path[tip][e]
          /\ \A h \in e + 1..Height[b] - 1 : h > Height[tip] \/ Path[b][h] # Path[tip][h]
    BY <1>4, <1>5
  <2> QED BY <2>1, Zenon DEF ForkHeight
<1> HIDE DEF F
<1>7. F \in 0..Height[b] /\ F \in 0..Height[tip]
  BY <1>1, <1>6
<1>8. ASSUME NEW g \in 0..F PROVE Path[b][g] = Path[tip][g]
  BY <1>6, <1>7, PathFacts
<1> QED BY <1>1, <1>6, <1>8 DEF F

(* Where the rounds begin and end, and that the chain up to the fork stays. *)
LEMMA AtFacts ==
  ASSUME tip \in Blocks, NEW b \in Blocks \ {Genesis}, NEW k \in 0..Rounds(b)
  PROVE  /\ Rounds(b) \in Nat /\ Old(b) \in 0..Rounds(b)
         /\ At(b, 0) = tip /\ At(b, Rounds(b)) = b
         /\ At(b, k) \in Blocks /\ ForkHeight(b) <= Height[At(b, k)]
         /\ \A g \in 0..ForkHeight(b) : Path[At(b, k)][g] = Path[tip][g]
<1> DEFINE f == ForkHeight(b)
<1>1. /\ Height[tip] \in Nat /\ Height[b] \in Nat
      /\ f \in 0..Height[b] - 1 /\ f <= Height[tip]
      /\ \A g \in 0..f : Path[b][g] = Path[tip][g]
  BY ForkFacts
<1> HIDE DEF f
<1>2. Old(b) = Height[tip] - f /\ Rounds(b) = Height[tip] - f + Height[b] - f
  BY DEF Old, Rounds, f
<1>3. /\ Old(b) \in 0..Rounds(b) /\ Rounds(b) \in Nat /\ 0 <= Old(b) /\ ~(Rounds(b) <= Old(b))
      /\ f + Rounds(b) - Old(b) = Height[b] /\ Height[tip] - 0 = Height[tip]
  BY <1>1, <1>2
<1>4. At(b, 0) = tip /\ At(b, Rounds(b)) = b
  BY <1>3, PathAssumption DEF At, f
<1>5. /\ At(b, k) \in Blocks /\ f <= Height[At(b, k)]
      /\ \A g \in 0..f : Path[At(b, k)][g] = Path[tip][g]
  <2>1. CASE k <= Old(b)
    <3>1. Height[tip] - k \in 0..Height[tip] /\ f <= Height[tip] - k
          /\ \A g \in 0..f : g \in 0..Height[tip] - k
      BY <1>1, <1>2, <1>3, <2>1
    <3>2. At(b, k) = Path[tip][Height[tip] - k]
      BY <2>1 DEF At
    <3> QED BY <3>1, <3>2, PathFacts
  <2>2. CASE ~(k <= Old(b))
    <3>1. f + k - Old(b) \in 0..Height[b] /\ f <= f + k - Old(b)
          /\ \A g \in 0..f : g \in 0..f + k - Old(b)
      BY <1>1, <1>2, <1>3, <2>2
    <3>2. At(b, k) = Path[b][f + k - Old(b)]
      BY <2>2 DEF At, f
    <3> QED BY <1>1, <3>1, <3>2, PathFacts
  <2> QED BY <2>1, <2>2
<1> QED BY <1>3, <1>4, <1>5 DEF f

(* The old blocks from the tip down to the fork, then the new ones. *)
LEMMA RoundFacts ==
  ASSUME tip \in Blocks, NEW b \in Blocks \ {Genesis}, NEW k \in 0..Rounds(b) - 1
  PROVE  LET s == ReorgSteps(b)[k + 1] IN
         /\ s \in [on : BOOLEAN, block : Blocks] /\ s.block # Genesis
         /\ ~s.on => s.block = At(b, k) /\ Parent[s.block] = At(b, k + 1)
         /\ s.on => s.block = At(b, k + 1) /\ Parent[s.block] = At(b, k)
<1> DEFINE f == ForkHeight(b)
           s == ReorgSteps(b)[k + 1]
<1>1. /\ Height[tip] \in Nat /\ Height[b] \in Nat
      /\ f \in 0..Height[b] - 1 /\ f <= Height[tip]
      /\ \A g \in 0..f : Path[b][g] = Path[tip][g]
  BY ForkFacts
<1> HIDE DEF f
<1>2. Old(b) = Height[tip] - f /\ Rounds(b) = Height[tip] - f + Height[b] - f
  BY DEF Old, Rounds, f
<1>3. Old(b) \in Nat /\ Rounds(b) \in Nat /\ k \in Nat /\ k + 1 \in 1..Rounds(b)
  BY <1>1, <1>2
<1>4. s = IF k + 1 <= Old(b) THEN [on |-> FALSE, block |-> Path[tip][Height[tip] - (k + 1) + 1]]
                             ELSE [on |-> TRUE, block |-> Path[b][f + (k + 1) - Old(b)]]
  BY <1>3, Zenon DEF ReorgSteps, Old, Rounds, f
<1> HIDE DEF s
<1>5. CASE k + 1 <= Old(b)
  <2>1. /\ Height[tip] - (k + 1) + 1 = Height[tip] - k /\ Height[tip] - k \in 0..Height[tip]
        /\ Height[tip] - k > 0 /\ Height[tip] - k - 1 = Height[tip] - (k + 1) /\ k <= Old(b)
    BY <1>1, <1>2, <1>3, <1>5
  <2>2. s.on = FALSE /\ s.block = Path[tip][Height[tip] - k] /\ s = [on |-> FALSE, block |-> s.block]
    BY <1>4, <1>5, <2>1
  <2>3. s.block = At(b, k) /\ At(b, k + 1) = Path[tip][Height[tip] - (k + 1)]
    BY <1>5, <2>1, <2>2 DEF At
  <2>4. s.block \in Blocks /\ s.block # Genesis /\ Parent[s.block] = Path[tip][Height[tip] - k - 1]
    BY <2>1, <2>2, PathFacts
  <2>5. s \in [on : BOOLEAN, block : Blocks]
    BY <2>2, <2>4, Zenon
  <2> QED BY <2>1, <2>2, <2>3, <2>4, <2>5 DEF s
<1>6. CASE ~(k + 1 <= Old(b))
  <2> DEFINE m == f + (k + 1) - Old(b)
  <2>1. m \in 0..Height[b] /\ m > 0 /\ m - 1 = f + k - Old(b)
    BY <1>1, <1>2, <1>3, <1>6
  <2>2. s.on /\ s.block = Path[b][m] /\ s = [on |-> TRUE, block |-> s.block]
    BY <1>4, <1>6
  <2>3. At(b, k + 1) = Path[b][m]
    BY <1>6 DEF At, f
  <2> HIDE DEF m
  <2>4. s.block \in Blocks /\ s.block # Genesis /\ Parent[s.block] = Path[b][f + k - Old(b)]
    BY <2>1, <2>2, PathFacts
  <2>5. s \in [on : BOOLEAN, block : Blocks]
    BY <2>2, <2>4, Zenon
  <2>6. Path[b][f + k - Old(b)] = At(b, k)
    <3>1. CASE k <= Old(b)
      <4>1. k = Old(b) /\ f + k - Old(b) = f /\ Height[tip] - k = f /\ f \in 0..f
        BY <1>1, <1>2, <1>3, <1>6, <3>1
      <4> QED BY <1>1, <3>1, <4>1 DEF At
    <3>2. CASE ~(k <= Old(b))
      BY <3>2 DEF At, f
    <3> QED BY <3>1, <3>2
  <2> QED BY <2>2, <2>3, <2>4, <2>5, <2>6 DEF s
<1> QED BY <1>5, <1>6

-----------------------------------------------------------------------------
(* TipInv, one action at a time. *)

(* What TipInv says of the rounds depends on the tip only. *)
LEMMA SameTip ==
  ASSUME tip' = tip, NEW b
  PROVE  /\ ForkHeight(b)' = ForkHeight(b) /\ Old(b)' = Old(b) /\ Rounds(b)' = Rounds(b)
         /\ ReorgSteps(b)' = ReorgSteps(b) /\ \A k : At(b, k)' = At(b, k)
<1>1. ForkHeight(b)' = ForkHeight(b)
  BY DEF ForkHeight
<1>2. Old(b)' = Old(b)
  BY <1>1 DEF Old
<1> QED BY <1>1, <1>2 DEF Rounds, ReorgSteps, At

(* A step that leaves the chain alone keeps TipInv, unless it gives up the  *)
(* lock in the middle of a reorganisation.                                  *)
LEMMA TipQuiet ==
  ASSUME TipInv, UNCHANGED <<tip, utxo, reorg>>, lock' = lock \/ reorg.block = NoBlock
  PROVE  TipInv'
<1>1. ASSUME NEW b \in Blocks, reorg'.block = b PROVE Reorganising(b)'
  <2>1. Reorganising(b) /\ lock' = lock
    BY <1>1, TreeAssumption DEF TipInv
  <2> QED BY <2>1, SameTip DEF Reorganising, Todo
<1> QED BY <1>1 DEF TipInv

(* A block that connects to the tip becomes the tip. *)
LEMMA ExtendTipInv ==
  ASSUME TipInv, reorg.block = NoBlock, reorg' = reorg, NEW b \in Blocks \ {Genesis}, ExtendTip(b)
  PROVE  TipInv'
<1>1. /\ Parent[b] = tip /\ tip' = b /\ b \notin BadTx /\ Spends[b] \subseteq utxo
      /\ utxo' = (utxo \ Spends[b]) \cup Creates[b]
  BY DEF ExtendTip, TxInputsValid, ConnectBlock
<1>2. utxo' = UtxoAt[b] /\ Connects(b)
  BY <1>1, UtxoAssumption DEF TipInv, Connects
<1>3. ValidPath(b)
  BY <1>1, <1>2, ValidUp DEF TipInv
<1>4. \A r \in Blocks : reorg'.block # r
  BY TreeAssumption
<1> QED BY <1>1, <1>2, <1>3, <1>4 DEF TipInv

(* A function on 1..n is a sequence of length n. *)
LEMMA SequenceOf ==
  ASSUME NEW n \in Nat, NEW S, NEW s \in [1..n -> S]
  PROVE  s \in Seq(S) /\ Len(s) = n
OBVIOUS

(* No round is done. *)
LEMMA StartReorgInv ==
  ASSUME TipInv, reorg.block = NoBlock, NEW b \in Blocks \ {Genesis}, NEW o \in BOOLEAN,
         StartReorg(b, o), lock' # "free"
  PROVE  TipInv'
<1>1. /\ tip' = tip /\ utxo' = utxo
      /\ reorg' = [block |-> b, steps |-> ReorgSteps(b), before |-> utxo, orphan |-> o]
      /\ utxo = UtxoAt[tip] /\ tip \in Blocks /\ ValidPath(tip) /\ utxo \in SUBSET Coins
  BY UtxoAssumption DEF StartReorg, TipInv
<1>2. Rounds(b) \in Nat /\ At(b, 0) = tip
  <2>1. 0 \in 0..Rounds(b)
    BY <1>1, ForkFacts DEF Rounds, Old
  <2> QED BY <1>1, <2>1, AtFacts
<1>3. /\ ReorgSteps(b) \in Seq([on : BOOLEAN, block : Blocks]) /\ Len(ReorgSteps(b)) = Rounds(b)
  <2>1. ASSUME NEW i \in 1..Rounds(b) PROVE ReorgSteps(b)[i] \in [on : BOOLEAN, block : Blocks]
    <3>1. i - 1 \in 0..Rounds(b) - 1 /\ i - 1 + 1 = i
      BY <1>2
    <3> QED BY <1>1, <3>1, RoundFacts
  <2>2. DOMAIN ReorgSteps(b) = 1..Rounds(b)
        /\ ReorgSteps(b) = [i \in 1..Rounds(b) |-> ReorgSteps(b)[i]]
    BY DEF ReorgSteps, Rounds, Old
  <2>3. ReorgSteps(b) \in [1..Rounds(b) -> [on : BOOLEAN, block : Blocks]]
    BY <2>1, <2>2
  <2> QED BY <1>2, <2>3, SequenceOf, Zenon
<1>4. reorg' \in Reorgs /\ reorg'.block = b /\ reorg'.block # NoBlock
  BY <1>1, <1>3, TreeAssumption DEF Reorgs
<1>5. Reorganising(b)'
  <2>1. reorg'.steps = ReorgSteps(b) /\ reorg'.before = utxo /\ Todo' = Rounds(b)
    BY <1>1, <1>3 DEF Todo
  <2>2. Rounds(b) - Rounds(b) = 0 /\ \A i \in 1..Rounds(b) : Rounds(b) - Rounds(b) + i = i
    BY <1>2
  <2> QED BY <1>1, <1>2, <2>1, <2>2, SameTip DEF Reorganising
<1> QED BY <1>1, <1>4, <1>5 DEF TipInv

(* DisconnectBlock undoes ConnectBlock. *)
LEMMA Undone ==
  ASSUME NEW b \in Blocks \ {Genesis}, Connects(b)
  PROVE  DisconnectBlock(UtxoAt[b], b) = UtxoAt[Parent[b]]
<1>1. UtxoAt[b] = (UtxoAt[Parent[b]] \ Spends[b]) \cup Creates[b]
  BY UtxoAssumption
<1>2. Spends[b] \subseteq UtxoAt[Parent[b]] /\ Creates[b] \cap (UtxoAt[Parent[b]] \cup Spends[b]) = {}
  BY FreshAssumption DEF Connects
<1> QED BY <1>1, <1>2 DEF DisconnectBlock

(* A reorganisation that has rounds to go: the next one. *)
LEMMA NextRound ==
  ASSUME TipInv, reorg.steps # << >>
  PROVE  /\ reorg.block \in Blocks \ {Genesis} /\ Todo \in Nat \ {0}
         /\ Reorganising(reorg.block) /\ Todo <= Rounds(reorg.block)
         /\ Rounds(reorg.block) \in Nat
         /\ Head(reorg.steps) = ReorgSteps(reorg.block)[Rounds(reorg.block) - Todo + 1]
<1>1. reorg.block \in Blocks \ {Genesis} /\ reorg.steps \in Seq([on : BOOLEAN, block : Blocks])
  BY DEF TipInv, Reorgs
<1>2. Todo \in Nat \ {0} /\ Head(reorg.steps) = reorg.steps[1] /\ 1 \in 1..Todo
  BY <1>1 DEF Todo
<1>3. PICK b \in Blocks \ {Genesis} : b = reorg.block
  BY <1>1
<1>4. Reorganising(b)
  BY <1>3 DEF TipInv
<1>5. Rounds(b) \in Nat
  BY ForkFacts DEF Rounds, Old, TipInv
<1>6. Head(reorg.steps) = ReorgSteps(b)[Rounds(b) - Todo + 1] /\ Todo <= Rounds(b)
  BY <1>2, <1>4 DEF Reorganising
<1> QED BY <1>1, <1>2, <1>3, <1>4, <1>5, <1>6

(* A round leads from the UTXO set of one block to that of the next. *)
LEMMA ReorgStepInv ==
  ASSUME TipInv, ReorgStep
  PROVE  TipInv'
<1>1. PICK b \in Blocks \ {Genesis} : b = reorg.block
  BY NextRound DEF ReorgStep
<1> DEFINE k == Rounds(b) - Todo
           s == ReorgSteps(b)[k + 1]
<1>2. /\ Todo \in Nat \ {0} /\ Todo <= Rounds(b) /\ Rounds(b) \in Nat
      /\ Reorganising(b) /\ Head(reorg.steps) = s
  BY <1>1, NextRound DEF ReorgStep
<1>3. /\ tip \in Blocks /\ tip' = tip /\ lock' = lock /\ reorg' = [reorg EXCEPT !.steps = Tail(@)]
      /\ IF s.on THEN TxInputsValid(s.block, utxo) /\ utxo' = ConnectBlock(utxo, s.block)
                 ELSE utxo' = DisconnectBlock(utxo, s.block)
  BY <1>2 DEF ReorgStep, CanStep, TipInv
<1>4. k \in 0..Rounds(b) - 1 /\ k \in 0..Rounds(b) /\ k + 1 \in 0..Rounds(b) /\ k \in Nat
  BY <1>2
<1>5. /\ s \in [on : BOOLEAN, block : Blocks] /\ s.block \in Blocks \ {Genesis}
      /\ ~s.on => s.block = At(b, k) /\ Parent[s.block] = At(b, k + 1)
      /\ s.on => s.block = At(b, k + 1) /\ Parent[s.block] = At(b, k)
  <2> HIDE DEF k
  <2> QED BY <1>3, <1>4, RoundFacts
<1>6. utxo = UtxoAt[At(b, k)] /\ ValidPath(At(b, k))
  BY <1>2 DEF Reorganising
<1>7. /\ reorg' \in Reorgs /\ reorg'.block = b /\ reorg'.before = reorg.before
      /\ reorg'.steps = Tail(reorg.steps) /\ Todo' = Todo - 1
      /\ \A i \in 1..Todo - 1 : reorg'.steps[i] = reorg.steps[i + 1]
  <2>1. reorg \in Reorgs /\ reorg.steps \in Seq([on : BOOLEAN, block : Blocks]) /\ reorg.steps # << >>
    BY DEF TipInv, Reorgs, ReorgStep
  <2>2. /\ Tail(reorg.steps) \in Seq([on : BOOLEAN, block : Blocks])
        /\ Len(Tail(reorg.steps)) = Len(reorg.steps) - 1
        /\ \A i \in 1..Len(reorg.steps) - 1 : Tail(reorg.steps)[i] = reorg.steps[i + 1]
    BY <2>1
  <2>3. /\ reorg' \in Reorgs /\ reorg'.block = b /\ reorg'.before = reorg.before
        /\ reorg'.steps = Tail(reorg.steps)
    BY <1>1, <1>3, <2>1, <2>2, Zenon DEF Reorgs
  <2> QED BY <2>2, <2>3 DEF Todo
<1>8. Rounds(b) - (Todo - 1) = k + 1
  BY <1>2
<1> HIDE DEF k, s
<1>9. utxo' = UtxoAt[At(b, k + 1)] /\ ValidPath(At(b, k + 1))
  <2>1. CASE s.on
    <3>1. Connects(s.block)
      BY <1>3, <1>5, <1>6, <2>1 DEF TxInputsValid, Connects
    <3>2. utxo' = UtxoAt[s.block]
      BY <1>3, <1>5, <1>6, <2>1, UtxoAssumption, Zenon DEF ConnectBlock
    <3>3. ValidPath(s.block)
      BY <1>5, <1>6, <2>1, <3>1, ValidUp
    <3> QED BY <1>5, <2>1, <3>2, <3>3
  <2>2. CASE ~s.on
    <3> DEFINE c == s.block
    <3>1. c \in Blocks \ {Genesis} /\ ValidPath(c) /\ utxo = UtxoAt[c] /\ Parent[c] = At(b, k + 1)
          /\ utxo' = DisconnectBlock(utxo, c)
      BY <1>3, <1>5, <1>6, <2>2
    <3> HIDE DEF c
    <3>2. /\ Height[c] \in 1..Height[c] /\ Height[c] - 1 \in 0..Height[c] /\ Path[c][Height[c]] = c
          /\ Path[c][Height[c] - 1] = Parent[c]
      <4>1. Parent[c] \in Blocks /\ Height[c] = Height[Parent[c]] + 1 /\ Height[Parent[c]] \in Nat
            /\ Path[c][Height[c]] = c /\ Path[c][Height[Parent[c]]] = Path[Parent[c]][Height[Parent[c]]]
        BY <3>1, PathOfChild
      <4> QED BY <4>1, PathAssumption
    <3>3. Connects(c)
      BY <3>1, <3>2 DEF ValidPath
    <3>4. ValidPath(Parent[c])
      BY <3>1, <3>2, ValidDown
    <3> QED BY <3>1, <3>3, <3>4, Undone
  <2> QED BY <2>1, <2>2
<1>10. Reorganising(b)'
  <2>1. \A i \in 1..Todo - 1 : reorg'.steps[i] = ReorgSteps(b)[Rounds(b) - (Todo - 1) + i]
    <3>1. \A i \in 1..Todo : reorg.steps[i] = ReorgSteps(b)[Rounds(b) - Todo + i]
      BY <1>2 DEF Reorganising
    <3>2. \A i \in 1..Todo - 1 : /\ i + 1 \in 1..Todo
                                 /\ Rounds(b) - Todo + (i + 1) = Rounds(b) - (Todo - 1) + i
      BY <1>2
    <3> QED BY <1>7, <3>1, <3>2, Zenon
  <2>2. lock' # "free" /\ reorg'.before = UtxoAt[tip] /\ Todo - 1 <= Rounds(b)
    BY <1>2, <1>3, <1>7 DEF Reorganising
  <2>3. PICK j : j = k + 1
    OBVIOUS
  <2>4. /\ Rounds(b)' = Rounds(b) /\ ReorgSteps(b)' = ReorgSteps(b) /\ At(b, j)' = At(b, j)
    BY <1>3, SameTip, Zenon
  <2>5. Rounds(b)' - Todo' = j
    BY <1>7, <1>8, <2>3, <2>4
  <2>6. utxo' = UtxoAt[At(b, Rounds(b) - Todo)'] /\ ValidPath(At(b, Rounds(b) - Todo))'
    <3>1. utxo' = UtxoAt[At(b, j)'] /\ ValidPath(At(b, j)')
      BY <1>9, <2>3, <2>4
    <3> QED BY <2>5, <3>1 DEF At, ValidPath
  <2> QED BY <1>3, <1>7, <2>1, <2>2, <2>4, <2>6, Zenon DEF Reorganising
<1> QED BY <1>3, <1>7, <1>10, TreeAssumption DEF TipInv

(* All rounds are done: the set is that of the new tip. *)
LEMMA ReorgDoneInv ==
  ASSUME TipInv, ReorgDone
  PROVE  /\ TipInv' /\ reorg.block \in Blocks \ {Genesis} /\ tip' = reorg.block
         /\ reorg'.block = NoBlock
<1>1. PICK b \in Blocks \ {Genesis} : b = reorg.block
  BY DEF ReorgDone, TipInv, Reorgs
<1>2. Reorganising(b) /\ Todo = 0 /\ tip' = b /\ utxo' = utxo /\ reorg' = NoReorg /\ tip \in Blocks
  BY <1>1 DEF ReorgDone, TipInv, Todo
<1>3. Rounds(b) \in 0..Rounds(b) /\ Rounds(b) - 0 = Rounds(b)
  BY <1>2, ForkFacts DEF Rounds, Old
<1>4. At(b, Rounds(b)) = b
  BY <1>2, <1>3, AtFacts
<1>5. utxo = UtxoAt[b] /\ ValidPath(b)
  BY <1>2, <1>3, <1>4 DEF Reorganising
<1>6. reorg' \in Reorgs /\ reorg'.block = NoBlock /\ reorg'.steps = << >>
  BY <1>2 DEF NoReorg, Reorgs
<1> QED BY <1>1, <1>2, <1>5, <1>6, TreeAssumption DEF TipInv

(* restoreSnapshot: the set of the tip is back. *)
LEMMA ReorgFailsInv ==
  ASSUME TipInv, ReorgFails
  PROVE  TipInv' /\ reorg'.block = NoBlock
<1>1. PICK b \in Blocks \ {Genesis} : b = reorg.block
  BY NextRound, Zenon DEF ReorgFails
<1>2. tip' = tip /\ utxo' = reorg.before /\ reorg' = NoReorg /\ tip \in Blocks /\ ValidPath(tip)
  BY Zenon DEF ReorgFails, TipInv
<1>3. utxo' = UtxoAt[tip]
  BY <1>1, <1>2 DEF TipInv, Reorganising
<1>4. reorg' \in Reorgs /\ reorg'.block = NoBlock /\ reorg'.steps = << >>
  BY <1>2 DEF NoReorg, Reorgs
<1> QED BY <1>2, <1>3, <1>4, TreeAssumption DEF TipInv

-----------------------------------------------------------------------------
(* ClearedInv, one kind of step at a time. *)

(* Nothing comes into the pool, and the chain stays. *)
LEMMA ClearedQuiet ==
  ASSUME ClearedInv, UNCHANGED <<tip, cleared>>, reorg'.block = reorg.block, txs' \subseteq txs,
         view'.live => view.live
  PROVE  ClearedInv'
<1>1. ASSUME NEW b PROVE OnActiveChain(b)' = OnActiveChain(b)
  BY DEF OnActiveChain
<1>2. ASSUME NEW b PROVE Kept(b)' = Kept(b)
  BY SameTip DEF Kept
<1> QED BY <1>1, <1>2 DEF ClearedInv

(* A reorganisation starts: all that were cleared are out. *)
LEMMA ClearedStart ==
  ASSUME ClearedInv, reorg.block = NoBlock, UNCHANGED <<tip, cleared, txs, view>>
  PROVE  ClearedInv'
<1>1. ASSUME NEW b PROVE OnActiveChain(b)' = OnActiveChain(b)
  BY DEF OnActiveChain
<1>2. \A b : Kept(b)
  BY TreeAssumption DEF Kept
<1> QED BY <1>1, <1>2 DEF ClearedInv

(* The blocks of the active chain are still on it when it grows. *)
LEMMA ClearedExtend ==
  ASSUME TipInv, ClearedInv, reorg.block = NoBlock, NEW b \in Blocks \ {Genesis}, ExtendTip(b),
         UNCHANGED <<cleared, txs>>
  PROVE  ClearedInv'
<1>1. Parent[b] = tip /\ tip' = b /\ view' = view
  BY DEF ExtendTip
<1>2. \A c : Kept(c)
  BY TreeAssumption DEF Kept
<1>3. ASSUME NEW c \in cleared PROVE OnActiveChain(c)'
  <2>1. c \in Blocks /\ Height[c] \in Nat /\ Height[c] <= Height[tip] /\ Path[tip][Height[c]] = c
    BY HeightAssumption DEF ClearedInv, OnActiveChain
  <2>2. Height[c] <= Height[b] /\ Height[c] \in 0..Height[tip]
    BY <1>1, <2>1, PathOfChild
  <2>3. Path[b][Height[c]] = c
    BY <1>1, <2>1, <2>2, PathOfChild
  <2> QED BY <1>1, <2>2, <2>3 DEF OnActiveChain
<1> QED BY <1>1, <1>2, <1>3 DEF ClearedInv

(* The blocks that a reorganisation leaves are not counted as cleared any   *)
(* more; the others are on the new chain.                                   *)
LEMMA ClearedDone ==
  ASSUME TipInv, ClearedInv, ReorgDone
  PROVE  ClearedInv'
<1>1. PICK r \in Blocks \ {Genesis} : r = reorg.block
  BY ReorgDoneInv
<1> DEFINE f == ForkHeight(r)
<1>2. /\ tip \in Blocks /\ tip' = r /\ view' = view /\ txs' = txs
      /\ cleared' = cleared \ {Path[tip][h] : h \in f + 1..Height[tip]}
  BY <1>1 DEF ReorgDone, TipInv, pool
<1>3. /\ Height[tip] \in Nat /\ Height[r] \in Nat /\ f \in 0..Height[r] - 1 /\ f <= Height[tip]
      /\ \A g \in 0..f : Path[r][g] = Path[tip][g]
  BY <1>2, ForkFacts
<1> HIDE DEF f
<1>4. ASSUME NEW b \in cleared' PROVE OnActiveChain(b)' /\ Kept(b)
  <2>1. b \in cleared /\ b \in Blocks /\ Height[b] \in Nat /\ Height[b] <= Height[tip]
        /\ Path[tip][Height[b]] = b
    BY <1>2, HeightAssumption DEF ClearedInv, OnActiveChain
  <2>2. Height[b] \notin f + 1..Height[tip]
    BY <1>2, <2>1
  <2>3. Height[b] \in 0..f /\ Height[b] <= f /\ Height[b] <= Height[r]
    BY <1>3, <2>1, <2>2
  <2>4. Path[r][Height[b]] = b
    BY <1>3, <2>1, <2>3
  <2> QED BY <1>1, <1>2, <2>3, <2>4 DEF OnActiveChain, Kept, f
<1> QED BY <1>2, <1>4 DEF ClearedInv

(* restoreSnapshot takes the mempool's set away. *)
LEMMA ClearedFails ==
  ASSUME ClearedInv, ReorgFails
  PROVE  ClearedInv'
<1>1. UNCHANGED <<tip, cleared>> /\ ~view'.live
  BY DEF ReorgFails, AbandonSet
<1> QED BY <1>1 DEF ClearedInv, OnActiveChain

(* The set that AddTx reads is that of a valid chain with all the blocks    *)
(* that are kept, also between two rounds of a reorganisation.              *)
LEMMA KeptBelow ==
  ASSUME TipInv, ClearedInv, NEW b \in cleared, Kept(b)
  PROVE  \E x \in Blocks : /\ utxo = UtxoAt[x] /\ ValidPath(x)
                           /\ Height[b] \in 1..Height[x] /\ Path[x][Height[b]] = b
<1>1. /\ b \in Blocks \ {Genesis} /\ Height[b] <= Height[tip] /\ Path[tip][Height[b]] = b
      /\ tip \in Blocks /\ ValidPath(tip)
  BY DEF ClearedInv, OnActiveChain, TipInv
<1>2. Height[b] \in Nat \ {0} /\ Height[tip] \in Nat
  BY <1>1, PathOfChild, HeightAssumption
<1>3. CASE reorg.block = NoBlock
  <2>1. utxo = UtxoAt[tip] /\ Height[b] \in 1..Height[tip]
    BY <1>1, <1>2, <1>3, SMTT(30) DEF TipInv
  <2> QED BY <1>1, <2>1, Zenon
<1>4. CASE reorg.block # NoBlock
  <2>1. PICK r \in Blocks \ {Genesis} : r = reorg.block
    BY <1>4 DEF TipInv, Reorgs
  <2> DEFINE k == Rounds(r) - Todo
  <2>2. /\ utxo = UtxoAt[At(r, k)] /\ ValidPath(At(r, k)) /\ Todo <= Rounds(r)
        /\ Height[b] <= ForkHeight(r) /\ Todo \in Nat
    BY <2>1 DEF TipInv, Reorganising, Kept, Todo, Reorgs
  <2>3. Rounds(r) \in Nat /\ ForkHeight(r) \in Nat
    <3>1. /\ Height[tip] \in Nat /\ Height[r] \in Nat
          /\ ForkHeight(r) \in 0..Height[r] - 1 /\ ForkHeight(r) <= Height[tip]
      BY <1>1, ForkFacts, Zenon
    <3> QED BY <3>1 DEF Rounds, Old
  <2>4. k \in 0..Rounds(r)
    BY <2>2, <2>3
  <2> HIDE DEF k
  <2>5. At(r, k) \in Blocks /\ ForkHeight(r) <= Height[At(r, k)]
        /\ \A g \in 0..ForkHeight(r) : Path[At(r, k)][g] = Path[tip][g]
    BY <1>1, <2>4, AtFacts
  <2>6. Height[b] \in 0..ForkHeight(r) /\ Height[b] \in 1..Height[At(r, k)]
    <3>1. Height[At(r, k)] \in Nat
      BY <2>5, HeightAssumption
    <3> QED BY <1>2, <2>2, <2>3, <2>5, <3>1
  <2> QED BY <1>1, <2>2, <2>5, <2>6
<1> QED BY <1>3, <1>4

(* So AddTx does not let a confirmed transaction in again. *)
LEMMA ClearedAddTx ==
  ASSUME TipInv, ClearedInv, NEW t, AddTx(t, View), UNCHANGED <<tip, reorg, view, cleared>>
  PROVE  ClearedInv'
<1>1. txs' = txs \cup {t} /\ TxIns[t] \subseteq View
  BY DEF AddTx, Admits, ValidateSingleTransaction
<1>2. ASSUME NEW b \in cleared, Kept(b), view.live PROVE t \notin BlockTxs[b]
  <2>1. PICK x \in Blocks : /\ utxo = UtxoAt[x] /\ ValidPath(x)
                            /\ Height[b] \in 1..Height[x] /\ Path[x][Height[b]] = b
    BY <1>2, KeptBelow
  <2>2. TxIns[t] \subseteq UtxoAt[x]
    BY <1>1, <1>2, <2>1 DEF View
  <2> QED BY <2>1, <2>2, ConfirmedNotSpendable
<1>3. ASSUME NEW b PROVE OnActiveChain(b)' = OnActiveChain(b) /\ Kept(b)' = Kept(b)
  BY SameTip, SMTT(30) DEF OnActiveChain, Kept
<1> QED BY <1>1, <1>2, <1>3, Zenon DEF ClearedInv

(* A block is cleared. *)
LEMMA ClearedRemove ==
  ASSUME ClearedInv, BusyInv, NEW t \in Threads, RemoveConfirmed(t)
  PROVE  ClearedInv'
<1>1. /\ UNCHANGED <<tip, reorg, view>> /\ txs' = txs \ BlockTxs[blk[t]]
      /\ cleared' = IF OnActiveChain(blk[t]) THEN cleared \cup {blk[t]} ELSE cleared
  BY Zenon DEF RemoveConfirmed, RemoveTxs, chain, call
<1>2. blk[t] \in Blocks \ {Genesis}
  BY Zenon DEF RemoveConfirmed, BusyInv
<1>3. ASSUME NEW b PROVE OnActiveChain(b)' = OnActiveChain(b) /\ Kept(b)' = Kept(b)
  BY <1>1, SameTip, Zenon DEF OnActiveChain, Kept
<1>4. cleared' \subseteq Blocks \ {Genesis} /\ \A b \in cleared' : OnActiveChain(b)'
  BY <1>1, <1>2, <1>3, Zenon DEF ClearedInv
<1>5. ASSUME view'.live, NEW b \in cleared', Kept(b)' PROVE BlockTxs[b] \cap txs' = {}
  BY <1>1, <1>3, <1>5, Zenon DEF ClearedInv
<1> QED BY <1>4, <1>5 DEF ClearedInv
=============================================================================
