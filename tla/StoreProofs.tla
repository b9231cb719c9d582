---------------------------- MODULE StoreProofs ----------------------------
(***************************************************************************)
(* Proofs about Store, for every set of blocks of any sizes, every legacy  *)
(* chain, every file size and every number of crashes and failed writes.   *)
(***************************************************************************)
EXTENDS Store, SequenceTheorems, TLAPS

Cell ==
  {[is |-> "magic"]} \cup {[is |-> "size", n |-> n] : n \in Nat}
  \cup {[is |-> k, of |-> b, i |-> i] : k \in {"block", "undo"}, b \in Blocks, i \in Nat}
  \cup {[is |-> "sum", of |-> b] : b \in Blocks}

Files == Seq(Seq(Cell))

(* File n holds cells from pos on. *)
Holds(files, n, pos, cells) ==
  /\ n \in 0..Len(files) - 1 /\ pos \in Nat /\ pos + Len(cells) <= Len(files[n + 1])
  /\ \A i \in 1..Len(cells) : files[n + 1][pos + i] = cells[i]

-----------------------------------------------------------------------------
(* The cells of a block and of its undo data. *)
LEMMA DataFacts ==
  ASSUME NEW b \in Blocks, NEW k \in {"block", "undo"}, NEW n \in Nat
  PROVE  /\ Data(k, b, n) \in Seq(Cell) /\ Len(Data(k, b, n)) = n
         /\ \A i \in 1..n : Data(k, b, n)[i] = [is |-> k, of |-> b, i |-> i]
<1>1. \A i \in 1..n : [is |-> k, of |-> b, i |-> i] \in Cell
  BY DEF Cell
<1>2. Data(k, b, n) \in [1..n -> Cell]
  BY <1>1 DEF Data
<1>3. \A i \in 1..n : Data(k, b, n)[i] = [is |-> k, of |-> b, i |-> i]
  BY DEF Data
<1> QED BY <1>2, <1>3

(* The two cells in front of a record. *)
LEMMA FrameFacts ==
  ASSUME NEW n \in Nat
  PROVE  /\ Frame(n) \in Seq(Cell) /\ Len(Frame(n)) = 2
         /\ Frame(n)[1] = [is |-> "magic"] /\ Frame(n)[2] = [is |-> "size", n |-> n]
<1>1. [is |-> "magic"] \in Cell /\ [is |-> "size", n |-> n] \in Cell
  BY DEF Cell
<1> QED BY <1>1 DEF Frame

(* What a concatenation holds, and where. *)
LEMMA Joined ==
  ASSUME NEW S, NEW s \in Seq(S), NEW t \in Seq(S)
  PROVE  /\ s \o t \in Seq(S) /\ Len(s \o t) = Len(s) + Len(t)
         /\ \A i \in 1..Len(s) : (s \o t)[i] = s[i]
         /\ \A i \in 1..Len(t) : (s \o t)[Len(s) + i] = t[i]
OBVIOUS

(* The cells of a block in its file. *)
LEMMA BlockCellsFacts ==
  ASSUME NEW b \in Blocks
  PROVE  /\ BlockCells(b) \in Seq(Cell) /\ Len(BlockCells(b)) = 2 + Size[b]
         /\ BlockCells(b)[1] = [is |-> "magic"]
         /\ BlockCells(b)[2] = [is |-> "size", n |-> Size[b]]
         /\ \A i \in 1..Size[b] : BlockCells(b)[2 + i] = Data("block", b, Size[b])[i]
<1> DEFINE n == Size[b]
<1>1. n \in Nat
  BY StoreAssumption
<1> HIDE DEF n
<1> DEFINE f == Frame(n)
           d == Data("block", b, n)
           e == f \o d
<1>2. f \in Seq(Cell) /\ Len(f) = 2 /\ f[1] = [is |-> "magic"] /\ f[2] = [is |-> "size", n |-> n]
  BY <1>1, FrameFacts
<1>3. d \in Seq(Cell) /\ Len(d) = n
  BY <1>1, DataFacts
<1>4. BlockCells(b) = e
  BY DEF BlockCells, n
<1> HIDE DEF f, d
<1>5. /\ e \in Seq(Cell) /\ Len(e) = Len(f) + Len(d)
      /\ \A i \in 1..Len(f) : e[i] = f[i]
      /\ \A i \in 1..Len(d) : e[Len(f) + i] = d[i]
  <2>1. f \in Seq(Cell) /\ d \in Seq(Cell)
    BY <1>2, <1>3
  <2> QED BY <2>1, Joined
<1> HIDE DEF e
<1>6. Len(e) = 2 + n /\ e[1] = f[1] /\ e[2] = f[2] /\ \A i \in 1..n : e[2 + i] = d[i]
  BY <1>1, <1>2, <1>3, <1>5
<1> QED BY <1>2, <1>4, <1>5, <1>6 DEF d, n

(* The cells of undo data in their file, with the checksum at the end. *)
LEMMA UndoCellsFacts ==
  ASSUME NEW b \in Blocks
  PROVE  /\ UndoCells(b) \in Seq(Cell) /\ Len(UndoCells(b)) = 3 + UndoSize[b]
         /\ UndoCells(b)[1] = [is |-> "magic"]
         /\ UndoCells(b)[2] = [is |-> "size", n |-> UndoSize[b]]
         /\ \A i \in 1..UndoSize[b] : UndoCells(b)[2 + i] = Data("undo", b, UndoSize[b])[i]
         /\ UndoCells(b)[3 + UndoSize[b]] = [is |-> "sum", of |-> b]
<1> DEFINE n == UndoSize[b]
<1>1. n \in Nat
  BY StoreAssumption
<1> HIDE DEF n
<1> DEFINE f == Frame(n)
           d == Data("undo", b, n)
           c == [is |-> "sum", of |-> b]
           e == f \o d
           g == e \o <<c>>
<1>2. f \in Seq(Cell) /\ Len(f) = 2 /\ f[1] = [is |-> "magic"] /\ f[2] = [is |-> "size", n |-> n]
  BY <1>1, FrameFacts
<1>3. d \in Seq(Cell) /\ Len(d) = n
  BY <1>1, DataFacts
<1>4. UndoCells(b) = g
  BY DEF UndoCells, n
<1>5. c \in Cell
  BY DEF Cell
<1> HIDE DEF f, d, c
<1>6. /\ e \in Seq(Cell) /\ Len(e) = Len(f) + Len(d)
      /\ \A i \in 1..Len(f) : e[i] = f[i]
      /\ \A i \in 1..Len(d) : e[Len(f) + i] = d[i]
  <2>1. f \in Seq(Cell) /\ d \in Seq(Cell)
    BY <1>2, <1>3
  <2> QED BY <2>1, Joined
<1> HIDE DEF e
<1>7. Len(e) = 2 + n /\ e[1] = f[1] /\ e[2] = f[2] /\ \A i \in 1..n : e[2 + i] = d[i]
  BY <1>1, <1>2, <1>3, <1>6
<1>8. <<c>> \in Seq(Cell) /\ Len(<<c>>) = 1 /\ <<c>>[1] = c
  BY <1>5
<1>9. /\ g \in Seq(Cell) /\ Len(g) = Len(e) + Len(<<c>>)
      /\ \A i \in 1..Len(e) : g[i] = e[i]
      /\ \A i \in 1..Len(<<c>>) : g[Len(e) + i] = <<c>>[i]
  <2>1. e \in Seq(Cell) /\ <<c>> \in Seq(Cell)
    BY <1>6, <1>8
  <2> QED BY <2>1, Joined
<1> HIDE DEF g
<1>10. Len(g) = 3 + n /\ g[1] = e[1] /\ g[2] = e[2] /\ g[3 + n] = c
  BY <1>1, <1>7, <1>8, <1>9
<1>11. \A i \in 1..n : g[2 + i] = d[i]
  BY <1>1, <1>7, <1>9
<1> QED BY <1>2, <1>4, <1>7, <1>9, <1>10, <1>11 DEF d, n, c

-----------------------------------------------------------------------------
(* Appending, whole or in part, leaves what the files hold where it is. *)
LEMMA FileType ==
  ASSUME NEW files \in Files, NEW n \in Nat
  PROVE  File(files, n) \in Seq(Cell) /\ Len(File(files, n)) \in Nat
BY DEF File, Files

(* What an append does to each of the files. *)
LEMMA AppendFacts ==
  ASSUME NEW files \in Files, NEW n \in Nat, NEW cells \in Seq(Cell)
  PROVE  /\ AppendTo(files, n, cells) \in Files
         /\ Len(AppendTo(files, n, cells)) = IF n < Len(files) THEN Len(files) ELSE n + 1
         /\ AppendTo(files, n, cells)[n + 1] = File(files, n) \o cells
         /\ \A m \in 0..Len(files) - 1 :
              m # n => AppendTo(files, n, cells)[m + 1] = files[m + 1]
<1> DEFINE top == IF n < Len(files) THEN Len(files) ELSE n + 1
           F == AppendTo(files, n, cells)
<1>1. top \in Nat /\ n + 1 \in 1..top /\ Len(files) <= top /\ Len(files) \in Nat
  BY DEF Files
<1>2. \A i \in 1..top : File(files, i - 1) \in Seq(Cell)
  BY <1>1, FileType
<1>3. File(files, n) \o cells \in Seq(Cell)
  BY FileType
<1>4. F = [i \in 1..top |-> IF i = n + 1 THEN File(files, n) \o cells ELSE File(files, i - 1)]
  BY DEF AppendTo
<1> HIDE DEF top, F
<1> DEFINE g == File(files, n) \o cells
<1>5. F \in [1..top -> Seq(Cell)] /\ F[n + 1] = g
  <2> HIDE DEF g
  <2>1. g \in Seq(Cell)
    BY <1>3 DEF g
  <2>2. F = [i \in 1..top |-> IF i = n + 1 THEN g ELSE File(files, i - 1)]
    BY <1>4 DEF g
  <2> QED BY <1>1, <1>2, <2>1, <2>2
<1>6. F \in Seq(Seq(Cell)) /\ Len(F) = top
  BY <1>1, <1>5
<1>7. ASSUME NEW m \in 0..Len(files) - 1, m # n PROVE F[m + 1] = files[m + 1]
  <2>1. m + 1 \in 1..top /\ m + 1 # n + 1 /\ m < Len(files) /\ (m + 1) - 1 = m
    BY <1>1, <1>7
  <2>2. F[m + 1] = File(files, (m + 1) - 1)
    BY <1>4, <2>1
  <2> QED BY <2>1, <2>2 DEF File
<1> QED BY <1>5, <1>6, <1>7 DEF F, top, Files

(* An append moves nothing that a file holds. *)
LEMMA AppendKeeps ==
  ASSUME NEW files \in Files, NEW n \in Nat, NEW cells \in Seq(Cell),
         NEW m, NEW pos, NEW held \in Seq(Cell), Holds(files, m, pos, held)
  PROVE  Holds(AppendTo(files, n, cells), m, pos, held)
<1> DEFINE F == AppendTo(files, n, cells)
<1>1. /\ m \in 0..Len(files) - 1 /\ pos \in Nat /\ pos + Len(held) <= Len(files[m + 1])
      /\ \A i \in 1..Len(held) : files[m + 1][pos + i] = held[i]
  BY DEF Holds
<1>2. Len(files) \in Nat /\ files[m + 1] \in Seq(Cell) /\ Len(held) \in Nat /\ m \in Nat
  BY <1>1 DEF Files
<1>3. m \in 0..Len(F) - 1
  <2>1. Len(F) = IF n < Len(files) THEN Len(files) ELSE n + 1
    BY AppendFacts, Zenon
  <2> HIDE DEF F
  <2> QED BY <1>1, <1>2, <2>1
<1>4. CASE m # n
  <2>1. F[m + 1] = files[m + 1]
    BY <1>1, <1>4, AppendFacts, Zenon
  <2> HIDE DEF F
  <2>2. Holds(F, m, pos, held)
    BY <1>1, <1>3, <2>1 DEF Holds
  <2> QED BY <2>2 DEF F
<1>5. CASE m = n
  <2> DEFINE old == files[m + 1]
             new == old \o cells
  <2>1. F[m + 1] = new
    <3>1. File(files, n) = old
      BY <1>1, <1>2, <1>5 DEF File
    <3>2. F[n + 1] = File(files, n) \o cells
      BY AppendFacts, Zenon
    <3> QED BY <1>5, <3>1, <3>2, Zenon
  <2>2. Len(new) = Len(old) + Len(cells) /\ \A i \in 1..Len(old) : new[i] = old[i]
    BY <1>2, Joined
  <2> HIDE DEF old, new
  <2>3. /\ pos + Len(held) <= Len(old) /\ \A i \in 1..Len(held) : old[pos + i] = held[i]
        /\ Len(old) \in Nat /\ Len(cells) \in Nat
    BY <1>1, <1>2 DEF old
  <2>4. pos + Len(held) <= Len(new)
    BY <1>1, <1>2, <2>2, <2>3
  <2>5. ASSUME NEW i \in 1..Len(held) PROVE new[pos + i] = held[i]
    <3>1. pos + i \in 1..Len(old)
      BY <1>1, <1>2, <2>3
    <3> QED BY <2>2, <2>3, <3>1
  <2> QED BY <1>1, <1>3, <2>1, <2>4, <2>5 DEF Holds
<1> QED BY <1>4, <1>5

(* What was appended is in the file, at its old end. *)
LEMMA AppendHolds ==
  ASSUME NEW files \in Files, NEW n \in Nat, NEW cells \in Seq(Cell)
  PROVE  Holds(AppendTo(files, n, cells), n, Len(File(files, n)), cells)
<1> DEFINE F == AppendTo(files, n, cells)
           old == File(files, n)
           new == old \o cells
<1>1. old \in Seq(Cell) /\ Len(old) \in Nat
  BY FileType
<1>2. F[n + 1] = new
  BY AppendFacts, Zenon
<1>6. F \in Files /\ Len(F) = IF n < Len(files) THEN Len(files) ELSE n + 1
  BY AppendFacts, Zenon
<1> HIDE DEF F, old
<1>7. n \in 0..Len(F) - 1
  BY <1>6 DEF Files
<1>3. Len(new) = Len(old) + Len(cells) /\ \A i \in 1..Len(cells) : new[Len(old) + i] = cells[i]
  BY <1>1, Joined
<1> HIDE DEF new
<1>4. Len(old) + Len(cells) <= Len(new)
  BY <1>1, <1>3
<1>5. Holds(F, n, Len(old), cells)
  BY <1>1, <1>2, <1>3, <1>4, <1>7 DEF Holds
<1> QED BY <1>5 DEF F, old

-----------------------------------------------------------------------------
(* What a file holds is what is read. *)
LEMMA ReadFrameHeld ==
  ASSUME NEW cells \in Seq(Cell), NEW pos \in Nat, NEW n \in Nat,
         NEW d \in Seq(Cell), Len(d) = n, pos + 2 + n <= Len(cells),
         cells[pos + 1] = [is |-> "magic"], cells[pos + 2] = [is |-> "size", n |-> n],
         \A i \in 1..n : cells[pos + (2 + i)] = d[i]
  PROVE  ReadFrame(cells, pos, n) = d
<1> DEFINE r == SubSeq(cells, pos + 3, pos + 2 + n)
<1>1. ReadFrame(cells, pos, n) = r
  BY DEF ReadFrame
<1>2. r \in Seq(Cell) /\ Len(r) = n
  BY SubSeqProperties
<1>3. ASSUME NEW i \in 1..n PROVE r[i] = d[i]
  <2>1. r[i] = cells[pos + (2 + i)]
    BY SubSeqProperties
  <2> QED BY <2>1
<1> HIDE DEF r
<1>4. r = d
  BY <1>2, <1>3, SeqEqual
<1> QED BY <1>1, <1>4

(* A record of a block that the file holds reads the block. *)
LEMMA ReadBlockHeld ==
  ASSUME blk \in Files, NEW b \in Blocks, NEW r, r.size = Size[b],
         Holds(blk, r.file, r.pos, BlockCells(b))
  PROVE  ReadBlock(r) = b
<1> DEFINE n == Size[b]
           d == Data("block", b, n)
           c == BlockCells(b)
           f == r.file
           p == r.pos
           cells == blk[f + 1]
<1>1. n \in Nat /\ n > 0
  BY StoreAssumption
<1>2. d \in Seq(Cell) /\ Len(d) = n /\ \A i \in 1..n : d[i] = [is |-> "block", of |-> b, i |-> i]
  <2> HIDE DEF n
  <2> QED BY <1>1, DataFacts
<1>3. /\ c \in Seq(Cell) /\ Len(c) = 2 + n /\ c[1] = [is |-> "magic"]
      /\ c[2] = [is |-> "size", n |-> n] /\ \A i \in 1..n : c[2 + i] = d[i]
  BY BlockCellsFacts
<1>4. /\ f \in 0..Len(blk) - 1 /\ p \in Nat /\ p + Len(c) <= Len(cells)
      /\ \A i \in 1..Len(c) : cells[p + i] = c[i]
  BY DEF Holds
<1>5. ReadBlock(r) =
        LET data == ReadFrame(File(blk, f), p, n)
            found == {x \in Blocks : data = Data("block", x, Size[x])}
        IN  IF found = {} THEN NoBlock ELSE CHOOSE x \in found : TRUE
  BY DEF ReadBlock
<1> HIDE DEF f, p, c
<1>6. File(blk, f) = cells /\ cells \in Seq(Cell)
  BY <1>4 DEF Files, File
<1> HIDE DEF n, d, cells
<1>7. p + 2 + n <= Len(cells) /\ cells[p + 1] = c[1] /\ cells[p + 2] = c[2]
  BY <1>1, <1>3, <1>4, <1>6
<1>8. ASSUME NEW i \in 1..n PROVE cells[p + (2 + i)] = d[i]
  <2>1. 2 + i \in 1..Len(c)
    BY <1>1, <1>3
  <2>2. cells[p + (2 + i)] = c[2 + i]
    BY <1>4, <2>1
  <2> QED BY <1>3, <2>2
<1>9. ReadFrame(cells, p, n) = d
  <2>1. /\ cells \in Seq(Cell) /\ p \in Nat /\ n \in Nat /\ d \in Seq(Cell) /\ Len(d) = n
        /\ cells[p + 1] = [is |-> "magic"] /\ cells[p + 2] = [is |-> "size", n |-> n]
    BY <1>1, <1>2, <1>3, <1>4, <1>6, <1>7
  <2>2. p + 2 + n <= Len(cells)
    BY <1>1, <1>4, <1>6, <1>7
  <2> QED BY <1>8, <2>1, <2>2, ReadFrameHeld, Zenon
<1>10. ASSUME NEW x \in Blocks, d = Data("block", x, Size[x]) PROVE x = b
  <2>1. Size[x] \in Nat
    BY StoreAssumption
  <2>2. Len(d) = Size[x] /\ \A i \in 1..Size[x] : d[i] = [is |-> "block", of |-> x, i |-> i]
    <3> DEFINE m == Size[x]
    <3> HIDE DEF m
    <3>1. m \in Nat /\ d = Data("block", x, m)
      BY <1>10, <2>1 DEF m
    <3>2. Len(d) = m /\ \A i \in 1..m : d[i] = [is |-> "block", of |-> x, i |-> i]
      BY <3>1, DataFacts, Zenon
    <3> QED BY <3>2 DEF m
  <2>3. d[1] = [is |-> "block", of |-> x, i |-> 1]
    BY <1>1, <1>2, <2>2
  <2>4. d[1] = [is |-> "block", of |-> b, i |-> 1]
    BY <1>1, <1>2
  <2> QED BY <2>3, <2>4
<1>11. {x \in Blocks : d = Data("block", x, Size[x])} = {b}
  BY <1>10 DEF d, n
<1>12. ReadBlock(r) = CHOOSE x \in {b} : TRUE
  BY <1>5, <1>6, <1>9, <1>11, Zenon
<1> QED BY <1>12

(* A position of undo data that the file holds reads the undo data. *)
LEMMA ReadUndoHeld ==
  ASSUME rev \in Files, NEW b \in Blocks, NEW u, u.size = UndoSize[b],
         Holds(rev, u.file, u.pos, UndoCells(b))
  PROVE  ReadUndo(u) = b
<1> DEFINE n == UndoSize[b]
           d == Data("undo", b, n)
           c == UndoCells(b)
           f == u.file
           p == u.pos
           cells == rev[f + 1]
           Found(x) == /\ d = Data("undo", x, UndoSize[x])
                       /\ Len(cells) > p + 2 + n
                       /\ cells[p + 3 + n] = [is |-> "sum", of |-> x]
<1>1. n \in Nat
  BY StoreAssumption
<1>2. d \in Seq(Cell) /\ Len(d) = n
  <2> HIDE DEF n
  <2> QED BY <1>1, DataFacts
<1>3. /\ c \in Seq(Cell) /\ Len(c) = 3 + n /\ c[1] = [is |-> "magic"]
      /\ c[2] = [is |-> "size", n |-> n] /\ c[3 + n] = [is |-> "sum", of |-> b]
      /\ \A i \in 1..n : c[2 + i] = d[i]
  BY UndoCellsFacts
<1>4. /\ f \in 0..Len(rev) - 1 /\ p \in Nat /\ p + Len(c) <= Len(cells)
      /\ \A i \in 1..Len(c) : cells[p + i] = c[i]
  BY DEF Holds
<1>5. ReadUndo(u) =
        LET data == ReadFrame(File(rev, f), p, n)
            found == {x \in Blocks : /\ data = Data("undo", x, UndoSize[x])
                                     /\ Len(File(rev, f)) > p + 2 + n
                                     /\ File(rev, f)[p + 3 + n] = [is |-> "sum", of |-> x]}
        IN  IF found = {} THEN NoBlock ELSE CHOOSE x \in found : TRUE
  BY DEF ReadUndo
<1> HIDE DEF f, p, c
<1>6. File(rev, f) = cells /\ cells \in Seq(Cell)
  BY <1>4 DEF Files, File
<1> HIDE DEF n, d, cells
<1>7. p + 2 + n < Len(cells) /\ cells[p + 1] = c[1] /\ cells[p + 2] = c[2]
  BY <1>1, <1>3, <1>4, <1>6
<1>8. ASSUME NEW i \in 1..n PROVE cells[p + (2 + i)] = d[i]
  <2>1. 2 + i \in 1..Len(c)
    BY <1>1, <1>3
  <2>2. cells[p + (2 + i)] = c[2 + i]
    BY <1>4, <2>1
  <2> QED BY <1>3, <2>2
<1>9. ReadFrame(cells, p, n) = d
  <2>1. /\ cells \in Seq(Cell) /\ p \in Nat /\ n \in Nat /\ d \in Seq(Cell) /\ Len(d) = n
        /\ cells[p + 1] = [is |-> "magic"] /\ cells[p + 2] = [is |-> "size", n |-> n]
    BY <1>1, <1>2, <1>3, <1>4, <1>6, <1>7
  <2>2. p + 2 + n <= Len(cells)
    BY <1>1, <1>4, <1>6, <1>7
  <2> QED BY <1>8, <2>1, <2>2, ReadFrameHeld, Zenon
<1>10. cells[p + 3 + n] = [is |-> "sum", of |-> b]
  <2>1. 3 + n \in 1..Len(c) /\ p + (3 + n) = p + 3 + n
    BY <1>1, <1>3, <1>4
  <2>2. cells[p + (3 + n)] = c[3 + n]
    BY <1>4, <2>1
  <2> QED BY <1>3, <2>1, <2>2
<1>11. ASSUME NEW x \in Blocks, Found(x) PROVE x = b
  <2>1. [is |-> "sum", of |-> x] = [is |-> "sum", of |-> b]
    BY <1>10, <1>11
  <2> QED BY <2>1
<1>12. Found(b)
  BY <1>1, <1>4, <1>6, <1>7, <1>10 DEF d, n
<1>13. {x \in Blocks : Found(x)} = {b}
  <2> HIDE DEF Found
  <2> QED BY <1>11, <1>12
<1>14. ReadUndo(u) = CHOOSE x \in {b} : TRUE
  BY <1>5, <1>6, <1>9, <1>13, Zenon
<1> QED BY <1>14

-----------------------------------------------------------------------------
(* The inductive invariant of the files.  What a record says of its block   *)
(* and of its undo data is in the files; between two appends the place in   *)
(* memory is the end of the last file, unless an append has failed.         *)

UndoRecord == [file : Nat, pos : Nat, size : Nat]

Record ==
  [file : Nat, pos : Nat, size : Nat, undo : UndoRecord, height : Nat, work : Nat,
   failed : BOOLEAN]

Sound(fs, rs, r, b) ==
  /\ r \in Record
  /\ r.failed = FALSE => r.size = Size[b] /\ Holds(fs, r.file, r.pos, BlockCells(b))
  /\ r.undo # NoUndo =>
       r.undo.size = UndoSize[b] /\ Holds(rs, r.undo.file, r.undo.pos, UndoCells(b))

IndexSound ==
  DOMAIN index \subseteq Blocks /\ \A b \in DOMAIN index : Sound(blk, rev, index[b], b)

AtEnd == file = (IF blk = << >> THEN 0 ELSE Len(blk) - 1) /\ size = Len(File(blk, file))

RunInv ==
  /\ mode \in {"off", "migrate", "node"} /\ pc \in {"idle", "undo", "put"}
  /\ file \in Nat /\ size \in Nat /\ h \in Nat /\ work \in Nat /\ failed \in BOOLEAN
  /\ pc # "idle" => cur \in Blocks /\ Sound(blk, rev, rec, cur)
  /\ mode # "off" /\ failed = FALSE => AtEnd

FilesInv == blk \in Files /\ rev \in Files /\ IndexSound /\ RunInv

(* Files that have grown: all they held is where it was. *)
Grown(fs, gs) ==
  /\ gs \in Files
  /\ \A n, pos : \A held \in Seq(Cell) : Holds(fs, n, pos, held) => Holds(gs, n, pos, held)

(* An append makes files grow. *)
LEMMA AppendGrown ==
  ASSUME NEW fs \in Files, NEW n \in Nat, NEW cells \in Seq(Cell)
  PROVE  Grown(fs, AppendTo(fs, n, cells))
<1>1. AppendTo(fs, n, cells) \in Files
  BY AppendFacts, Zenon
<1> QED BY <1>1, AppendKeeps, Zenon DEF Grown

(* Files that are left alone have grown, by nothing. *)
LEMMA SameGrown ==
  ASSUME NEW fs \in Files
  PROVE  Grown(fs, fs)
BY Zenon DEF Grown

(* A part of a block or of undo data is a sequence of cells too. *)
LEMMA TornCells ==
  ASSUME NEW cells \in Seq(Cell), NEW n \in 0..Len(cells)
  PROVE  SubSeq(cells, 1, n) \in Seq(Cell)
BY SubSeqProperties

(* A sound record stays sound while the files grow. *)
LEMMA SoundGrown ==
  ASSUME NEW fs, NEW gs, NEW rs, NEW ts, Grown(fs, gs), Grown(rs, ts),
         NEW b \in Blocks, NEW r, Sound(fs, rs, r, b)
  PROVE  Sound(gs, ts, r, b)
<1>1. BlockCells(b) \in Seq(Cell) /\ UndoCells(b) \in Seq(Cell)
  BY BlockCellsFacts, UndoCellsFacts, Zenon
<1> QED BY <1>1, Zenon DEF Sound, Grown

(* The index stays sound while the files grow. *)
LEMMA IndexGrown ==
  ASSUME FilesInv, Grown(blk, blk'), Grown(rev, rev'), index' = index
  PROVE  blk' \in Files /\ rev' \in Files /\ IndexSound'
<1>1. ASSUME NEW b \in DOMAIN index PROVE Sound(blk', rev', index[b], b)
  BY <1>1, SoundGrown, Zenon DEF FilesInv, IndexSound
<1>2. DOMAIN index' \subseteq Blocks /\ \A b \in DOMAIN index' : Sound(blk', rev', index'[b], b)
  BY <1>1, Zenon DEF FilesInv, IndexSound
<1>3. IndexSound'
  BY <1>2, Zenon DEF IndexSound
<1> QED BY <1>3, Zenon DEF Grown

(* The process ends. *)
LEMMA OffInv ==
  ASSUME FilesInv, Grown(blk, blk'), Grown(rev, rev'), index' = index, Off
  PROVE  FilesInv'
<1>1. blk' \in Files /\ rev' \in Files /\ IndexSound'
  BY IndexGrown
<1>2. RunInv'
  BY DEF Off, RunInv
<1> QED BY <1>1, <1>2 DEF FilesInv

(* The block is given up. *)
LEMMA GiveUpInv ==
  ASSUME FilesInv, blk' = blk, Grown(rev, rev'), index' = index, GiveUp
  PROVE  FilesInv'
<1>1. Grown(blk, blk')
  BY SameGrown DEF FilesInv
<1>2. CASE Starting
  BY <1>1, <1>2, OffInv DEF GiveUp
<1>3. CASE ~Starting
  <2>1. blk' \in Files /\ rev' \in Files /\ IndexSound'
    BY <1>1, IndexGrown
  <2>2. RunInv'
    BY <1>3 DEF GiveUp, FilesInv, RunInv, AtEnd
  <2> QED BY <2>1, <2>2 DEF FilesInv
<1> QED BY <1>2, <1>3

(* Where WriteBlock writes; with no failed append it is the end of the file. *)
LEMMA WritePlace ==
  ASSUME FilesInv, NEW b \in Blocks
  PROVE  /\ WriteTo(b) \in Nat /\ Offset(b) \in Nat
         /\ mode # "off" /\ failed = FALSE =>
              /\ Offset(b) = Len(File(blk, WriteTo(b)))
              /\ WriteTo(b) = Len(blk) \/ WriteTo(b) + 1 = Len(blk)
<1>1. blk \in Files /\ file \in Nat /\ size \in Nat /\ Size[b] \in Nat /\ maxBlockFileSize \in Nat
  BY StoreAssumption DEF FilesInv, RunInv
<1>2. WriteTo(b) \in Nat /\ Offset(b) \in Nat
  BY <1>1 DEF WriteTo, Offset
<1>3. ASSUME mode # "off", failed = FALSE
      PROVE  /\ Offset(b) = Len(File(blk, WriteTo(b)))
             /\ WriteTo(b) = Len(blk) \/ WriteTo(b) + 1 = Len(blk)
  <2>1. AtEnd /\ Len(blk) \in Nat
    BY <1>1, <1>3 DEF FilesInv, RunInv, Files
  <2>2. CASE blk = << >>
    <3>1. file = 0 /\ size = 0 /\ Len(blk) = 0 /\ File(blk, 0) = << >>
      BY <2>1, <2>2 DEF AtEnd, File
    <3> QED BY <3>1 DEF WriteTo, Offset, Rotates
  <2>3. CASE blk # << >>
    <3>1. file = Len(blk) - 1 /\ size = Len(File(blk, file))
      BY <2>1, <2>3 DEF AtEnd
    <3>2. CASE Rotates(b)
      BY <2>1, <3>1, <3>2 DEF WriteTo, Offset, File
    <3>3. CASE ~Rotates(b)
      BY <2>1, <3>1, <3>3 DEF WriteTo, Offset
    <3> QED BY <3>2, <3>3
  <2> QED BY <2>2, <2>3
<1> QED BY <1>2, <1>3

(* WriteBlock appends the block and builds a sound record. *)
LEMMA WriteBlockInv ==
  ASSUME FilesInv, NEW b \in Blocks, WriteBlock(b)
  PROVE  FilesInv'
<1> DEFINE n == WriteTo(b)
           p == Offset(b)
           c == BlockCells(b)
<1>1. /\ mode # "off" /\ blk' = AppendTo(blk, n, c) /\ rev' = rev /\ index' = index
      /\ file' = n /\ size' = p + 2 + Size[b] /\ cur' = b /\ pc' = "undo"
      /\ rec' = [file |-> n, pos |-> p, size |-> Size[b], undo |-> NoUndo,
                 height |-> NewHeight(b), work |-> Cumulative(b), failed |-> failed]
      /\ mode' = mode /\ h' = h /\ failed' = failed /\ work' \in {work, Cumulative(b)}
      /\ Starting \/ Parent[b] \in DOMAIN index
  BY DEF WriteBlock, CanWrite, Wanted, Starting, Founding
<1>2. c \in Seq(Cell) /\ Len(c) = 2 + Size[b] /\ Size[b] \in Nat /\ Work[b] \in Nat
  BY BlockCellsFacts, StoreAssumption
<1>3. n \in Nat /\ p \in Nat
  BY WritePlace
<1>4. failed = FALSE => p = Len(File(blk, n)) /\ (n = Len(blk) \/ n + 1 = Len(blk))
  BY <1>1, WritePlace
<1> HIDE DEF n, p, c
<1>5. blk \in Files /\ rev \in Files
  BY DEF FilesInv
<1>6. Grown(blk, blk') /\ Grown(rev, rev')
  BY <1>1, <1>2, <1>3, <1>5, AppendGrown, SameGrown
<1>7. blk' \in Files /\ rev' \in Files /\ IndexSound'
  BY <1>1, <1>6, IndexGrown
<1>8. /\ h \in Nat /\ work' \in Nat /\ failed \in BOOLEAN
      /\ NewHeight(b) \in Nat /\ Cumulative(b) \in Nat
  <2>1. h \in Nat /\ work \in Nat /\ failed \in BOOLEAN
    BY DEF FilesInv, RunInv
  <2>2. ~Starting => index[Parent[b]].height \in Nat /\ index[Parent[b]].work \in Nat
    <3>1. ~Starting => index[Parent[b]] \in Record
      BY <1>1 DEF FilesInv, IndexSound, Sound
    <3> QED BY <3>1 DEF Record
  <2>3. NewHeight(b) \in Nat /\ Cumulative(b) \in Nat
    BY <1>2, <2>1, <2>2 DEF NewHeight, Cumulative
  <2> QED BY <1>1, <2>1, <2>3
<1>9. Sound(blk', rev', rec', b)
  <2>1. NoUndo \in UndoRecord
    BY DEF NoUndo, UndoRecord
  <2>2. rec' \in Record
    BY <1>1, <1>2, <1>3, <1>8, <2>1 DEF Record
  <2>3. rec'.undo = NoUndo /\ rec'.size = Size[b] /\ rec'.file = n /\ rec'.pos = p /\ rec'.failed = failed
    BY <1>1
  <2>4. failed = FALSE => Holds(blk', n, p, c)
    BY <1>1, <1>2, <1>3, <1>4, <1>5, AppendHolds, Zenon
  <2> QED BY <2>2, <2>3, <2>4, Zenon DEF Sound, c
<1>10. ASSUME failed = FALSE PROVE AtEnd'
  <2>1. Len(blk') = (IF n < Len(blk) THEN Len(blk) ELSE n + 1) /\ blk'[n + 1] = File(blk, n) \o c
    BY <1>1, <1>2, <1>3, <1>5, AppendFacts, Zenon
  <2>2. Len(blk') = n + 1
    BY <1>3, <1>4, <1>5, <1>10, <2>1 DEF Files
  <2> DEFINE old == File(blk, n)
             new == old \o c
  <2>3. File(blk', n) = blk'[n + 1] /\ blk'[n + 1] = new
    BY <1>3, <2>1, <2>2 DEF File
  <2>7. old \in Seq(Cell) /\ Len(old) = p
    BY <1>3, <1>4, <1>5, <1>10, FileType
  <2> HIDE DEF old
  <2>4. Len(new) = Len(old) + Len(c)
    BY <1>2, <2>7
  <2> HIDE DEF new
  <2>5. blk' # << >> /\ file' = Len(blk') - 1
    BY <1>1, <1>3, <2>2
  <2>6. size' = Len(File(blk', file'))
    BY <1>1, <1>2, <1>3, <2>3, <2>4, <2>7
  <2> QED BY <2>5, <2>6 DEF AtEnd
<1>11. RunInv'
  <2>1. mode' \in {"off", "migrate", "node"} /\ pc' \in {"idle", "undo", "put"}
    BY <1>1 DEF FilesInv, RunInv
  <2>2. file' \in Nat /\ size' \in Nat
    BY <1>1, <1>2, <1>3
  <2> QED BY <1>1, <1>8, <1>9, <1>10, <2>1, <2>2 DEF RunInv
<1> QED BY <1>7, <1>11 DEF FilesInv

(* Part of a block is appended. *)
LEMMA TornBlockGrown ==
  ASSUME FilesInv, NEW b \in Blocks, NEW k \in 0..(Size[b] + 1),
         blk' = AppendTo(blk, WriteTo(b), SubSeq(BlockCells(b), 1, k))
  PROVE  Grown(blk, blk')
<1>1. WriteTo(b) \in Nat /\ blk \in Files
  BY WritePlace DEF FilesInv
<1>2. BlockCells(b) \in Seq(Cell) /\ k \in 0..Len(BlockCells(b))
  <2>1. BlockCells(b) \in Seq(Cell) /\ Len(BlockCells(b)) = 2 + Size[b]
    BY BlockCellsFacts, Zenon
  <2> QED BY <2>1, StoreAssumption
<1>3. SubSeq(BlockCells(b), 1, k) \in Seq(Cell)
  BY <1>2, TornCells
<1> QED BY <1>1, <1>3, AppendGrown, Zenon

(* A failed append of a block ends the migration or marks the run. *)
LEMMA WriteBlockFailsInv ==
  ASSUME FilesInv, NEW b \in Blocks, WriteBlockFails(b)
  PROVE  FilesInv'
<1>1. Grown(blk, blk')
  BY TornBlockGrown DEF WriteBlockFails
<1>2. Grown(rev, rev') /\ index' = index
  BY SameGrown DEF WriteBlockFails, FilesInv
<1>3. CASE Starting
  BY <1>1, <1>2, <1>3, OffInv DEF WriteBlockFails
<1>4. CASE ~Starting
  <2>1. blk' \in Files /\ rev' \in Files /\ IndexSound'
    BY <1>1, <1>2, IndexGrown
  <2>2. WriteTo(b) \in Nat /\ Offset(b) \in Nat /\ pc = "idle"
    BY WritePlace DEF WriteBlockFails, CanWrite
  <2>3. /\ file' = WriteTo(b) /\ size' = Offset(b) /\ failed' = TRUE /\ mode' = mode
        /\ pc' = pc /\ h' = h /\ work' = work
    BY <1>4 DEF WriteBlockFails
  <2>4. RunInv'
    BY <2>2, <2>3 DEF FilesInv, RunInv
  <2> QED BY <2>1, <2>4 DEF FilesInv
<1> QED BY <1>3, <1>4

(* The block in hand keeps its record while the files grow. *)
LEMMA InHand ==
  ASSUME FilesInv, pc # "idle"
  PROVE  /\ cur \in Blocks /\ Sound(blk, rev, rec, cur) /\ rec \in Record /\ rec.file \in Nat
         /\ UndoCells(cur) \in Seq(Cell) /\ Len(UndoCells(cur)) = 3 + UndoSize[cur]
<1>1. cur \in Blocks /\ Sound(blk, rev, rec, cur)
  BY DEF FilesInv, RunInv
<1>2. rec \in Record
  BY <1>1, Zenon DEF Sound
<1>3. rec.file \in Nat
  BY <1>2 DEF Record
<1>4. UndoCells(cur) \in Seq(Cell) /\ Len(UndoCells(cur)) = 3 + UndoSize[cur]
  BY <1>1, UndoCellsFacts, Zenon
<1> QED BY <1>1, <1>2, <1>3, <1>4

(* WriteUndo puts the position of the undo data into the record. *)
LEMMA WriteUndoInv ==
  ASSUME FilesInv, WriteUndo
  PROVE  FilesInv'
<1> DEFINE n == rec.file
           p == UndoPos
           c == UndoCells(cur)
           u == [file |-> n, pos |-> p, size |-> UndoSize[cur]]
<1>1. pc # "idle" /\ blk \in Files /\ rev \in Files
  BY DEF WriteUndo, HasUndo, FilesInv
<1>2. cur \in Blocks /\ Sound(blk, rev, rec, cur) /\ rec \in Record /\ n \in Nat /\ c \in Seq(Cell)
  BY <1>1, InHand
<1>3. p = Len(File(rev, n)) /\ p \in Nat /\ UndoSize[cur] \in Nat
  BY <1>1, <1>2, FileType, StoreAssumption DEF UndoPos
<1>4. /\ blk' = blk /\ rev' = AppendTo(rev, n, c) /\ index' = index /\ cur' = cur /\ pc' = "put"
      /\ rec' = [rec EXCEPT !.undo = u]
      /\ mode' = mode /\ file' = file /\ size' = size /\ h' = h /\ work' = work /\ failed' = failed
  BY DEF WriteUndo
<1> HIDE DEF n, p, c
<1>5. Grown(blk, blk') /\ Grown(rev, rev')
  BY <1>1, <1>2, <1>4, AppendGrown, SameGrown
<1>6. blk' \in Files /\ rev' \in Files /\ IndexSound'
  BY <1>4, <1>5, IndexGrown
<1>7. Sound(blk', rev', rec, cur)
  BY <1>2, <1>5, SoundGrown
<1>8. Holds(rev', n, p, c)
  BY <1>1, <1>2, <1>3, <1>4, AppendHolds
<1>9. u \in UndoRecord /\ u.file = n /\ u.pos = p /\ u.size = UndoSize[cur]
  BY <1>2, <1>3 DEF UndoRecord
<1> HIDE DEF u
<1>10. /\ rec' \in Record /\ rec'.undo = u /\ rec'.file = rec.file /\ rec'.pos = rec.pos
       /\ rec'.size = rec.size /\ rec'.failed = rec.failed
  BY <1>2, <1>4, <1>9 DEF Record
<1>11. Sound(blk', rev', rec', cur)
  BY <1>7, <1>8, <1>9, <1>10, Zenon DEF Sound, c
<1>12. RunInv'
  BY <1>2, <1>4, <1>11 DEF FilesInv, RunInv, AtEnd
<1> QED BY <1>6, <1>12 DEF FilesInv

(* A block without undo data keeps a record without them. *)
LEMMA NoUndoDataInv ==
  ASSUME FilesInv, NoUndoData
  PROVE  FilesInv'
<1>1. /\ pc = "undo" /\ blk' = blk /\ rev' = rev /\ index' = index /\ cur' = cur /\ pc' = "put"
      /\ rec' = rec /\ mode' = mode /\ file' = file /\ size' = size /\ h' = h /\ work' = work
      /\ failed' = failed
  BY DEF NoUndoData, disk
<1> QED BY <1>1 DEF FilesInv, IndexSound, RunInv, AtEnd

(* Part of the undo data is appended. *)
LEMMA TornUndoGrown ==
  ASSUME FilesInv, pc = "undo", NEW k \in 0..(UndoSize[cur] + 2),
         rev' = AppendTo(rev, rec.file, SubSeq(UndoCells(cur), 1, k))
  PROVE  Grown(rev, rev')
<1>1. /\ rec.file \in Nat /\ UndoCells(cur) \in Seq(Cell)
      /\ Len(UndoCells(cur)) = 3 + UndoSize[cur] /\ cur \in Blocks
  BY InHand
<1>2. rev \in Files /\ k \in 0..Len(UndoCells(cur))
  BY <1>1, StoreAssumption DEF FilesInv
<1>3. SubSeq(UndoCells(cur), 1, k) \in Seq(Cell)
  BY <1>1, <1>2, TornCells
<1> QED BY <1>1, <1>2, <1>3, AppendGrown, Zenon

(* A failed append of undo data: the block goes without or is given up. *)
LEMMA WriteUndoFailsInv ==
  ASSUME FilesInv, WriteUndoFails
  PROVE  FilesInv'
<1>1. Grown(rev, rev')
  BY TornUndoGrown DEF WriteUndoFails, HasUndo
<1>2. pc = "undo" /\ blk' = blk /\ index' = index /\ Grown(blk, blk')
  BY SameGrown DEF WriteUndoFails, HasUndo, FilesInv
<1>3. CASE pc' = "put" /\ UNCHANGED <<mode, file, size, h, work, cur, rec, failed>>
  <2>1. blk' \in Files /\ rev' \in Files /\ IndexSound'
    BY <1>1, <1>2, IndexGrown
  <2>2. /\ pc' = "put" /\ mode' = mode /\ file' = file /\ size' = size /\ h' = h /\ work' = work
        /\ cur' = cur /\ rec' = rec /\ failed' = failed
    BY <1>3
  <2>3. cur \in Blocks /\ Sound(blk', rev', rec', cur)
    BY <1>1, <1>2, <2>2, InHand, SoundGrown
  <2>4. RunInv'
    BY <1>2, <2>2, <2>3 DEF FilesInv, RunInv, AtEnd
  <2> QED BY <2>1, <2>4 DEF FilesInv
<1>4. CASE GiveUp
  BY <1>1, <1>2, <1>4, GiveUpInv
<1> QED BY <1>3, <1>4 DEF WriteUndoFails

(* A reorg takes the record of a stored block in hand. *)
LEMMA AddUndoInv ==
  ASSUME FilesInv, NEW b \in Blocks, AddUndo(b)
  PROVE  FilesInv'
<1>1. /\ b \in DOMAIN index /\ cur' = b /\ rec' = index[b] /\ pc' = "undo"
      /\ blk' = blk /\ rev' = rev /\ index' = index
      /\ mode' = mode /\ file' = file /\ size' = size /\ h' = h /\ work' = work /\ failed' = failed
  BY DEF AddUndo, disk
<1>2. Sound(blk, rev, index[b], b)
  BY <1>1 DEF FilesInv, IndexSound
<1>3. Sound(blk', rev', rec', cur')
  BY <1>1, <1>2
<1> QED BY <1>1, <1>3 DEF FilesInv, IndexSound, RunInv, AtEnd

(* The tip record is not in the files. *)
LEMMA TipInv ==
  ASSUME FilesInv, PutChainTip \/ PutChainTipFails \/ \E b \in Blocks : MoveTip(b)
  PROVE  FilesInv'
<1>1. blk' = blk /\ rev' = rev /\ index' = index /\ blk \in Files /\ rev \in Files
  BY DEF PutChainTip, PutChainTipFails, MoveTip, disk, FilesInv
<1>2. CASE Off
  BY <1>1, <1>2, OffInv, SameGrown
<1>3. CASE h' = 0 /\ UNCHANGED <<mode, file, size, pc, work, cur, rec, failed>>
  BY <1>1, <1>3 DEF FilesInv, IndexSound, RunInv, AtEnd
<1>4. CASE UNCHANGED <<mode, file, size, pc, h, work, cur, rec, failed>>
  BY <1>1, <1>4 DEF FilesInv, IndexSound, RunInv, AtEnd
<1> QED BY <1>2, <1>3, <1>4 DEF PutChainTip, PutChainTipFails, MoveTip

(* PutBlockIndex publishes a record that is sound. *)
LEMMA PutBlockIndexInv ==
  ASSUME FilesInv, PutBlockIndex
  PROVE  FilesInv'
<1>1. /\ pc # "idle" /\ index' = [b \in DOMAIN index \cup {cur} |-> IF b = cur THEN rec ELSE index[b]]
      /\ blk' = blk /\ rev' = rev /\ mode' = mode /\ file' = file /\ size' = size /\ work' = work
      /\ failed' = failed /\ pc' = "idle" /\ h' \in Nat
  BY DEF PutBlockIndex, FilesInv, RunInv
<1>2. cur \in Blocks /\ Sound(blk, rev, rec, cur)
  BY <1>1, InHand
<1>3. DOMAIN index' = DOMAIN index \cup {cur}
  BY <1>1
<1>4. ASSUME NEW b \in DOMAIN index' PROVE Sound(blk, rev, index'[b], b)
  <2>1. index'[b] = IF b = cur THEN rec ELSE index[b]
    BY <1>1, <1>3
  <2>2. b # cur => b \in DOMAIN index
    BY <1>3
  <2> QED BY <1>2, <2>1, <2>2, Zenon DEF FilesInv, IndexSound
<1>5. IndexSound'
  BY <1>1, <1>2, <1>3, <1>4 DEF IndexSound, FilesInv
<1>6. RunInv'
  BY <1>1 DEF FilesInv, RunInv, AtEnd
<1> QED BY <1>1, <1>5, <1>6 DEF FilesInv

(* Opening the files finds their last one and its length. *)
LEMMA OpenInv ==
  ASSUME FilesInv, NEW who \in {"migrate", "node"}, Open(who)
  PROVE  FilesInv'
<1>1. /\ blk' = blk /\ rev' = rev /\ index' = index /\ pc' = pc /\ cur' = cur /\ rec' = rec
      /\ h' = h /\ work' = work /\ failed' = failed /\ mode' = who
      /\ file' = (IF blk = << >> THEN 0 ELSE Len(blk) - 1)
      /\ size' = (IF blk = << >> THEN 0 ELSE Len(blk[Len(blk)]))
  BY DEF Open, disk
<1>2. blk \in Files /\ Len(blk) \in Nat /\ (blk # << >> => Len(blk) > 0 /\ Len(blk[Len(blk)]) \in Nat)
  BY DEF FilesInv, Files
<1>3. file' \in Nat /\ size' \in Nat
  BY <1>1, <1>2
<1>4. AtEnd'
  BY <1>1, <1>2 DEF AtEnd, File
<1>5. RunInv'
  BY <1>1, <1>3, <1>4 DEF FilesInv, RunInv
<1> QED BY <1>1, <1>5 DEF FilesInv, IndexSound

(* The invariant of files and records is inductive. *)
LEMMA FilesStep ==
  ASSUME FilesInv, [Next]_vars
  PROVE  FilesInv'
<1> USE SameGrown
<1>1. CASE \E who \in {"migrate", "node"} : Open(who)
  BY <1>1, OpenInv
<1>2. CASE \E b \in Blocks : WriteBlock(b)
  BY <1>2, WriteBlockInv
<1>3. CASE \E b \in Blocks : WriteBlockFails(b)
  BY <1>3, WriteBlockFailsInv
<1>4. CASE \E b \in Blocks : CrashInBlock(b)
  <2>1. PICK b \in Blocks : CrashInBlock(b)
    BY <1>4
  <2>2. PICK k \in 1..(Size[b] + 1) : blk' = AppendTo(blk, WriteTo(b), SubSeq(BlockCells(b), 1, k))
    BY <2>1 DEF CrashInBlock
  <2>3. k \in 0..(Size[b] + 1)
    BY StoreAssumption
  <2>4. Grown(blk, blk') /\ Grown(rev, rev')
    BY <2>1, <2>2, <2>3, TornBlockGrown DEF CrashInBlock, FilesInv
  <2> QED BY <2>1, <2>4, OffInv DEF CrashInBlock
<1>5. CASE WriteUndo \/ NoUndoData \/ WriteUndoFails \/ PutBlockIndex
  BY <1>5, WriteUndoInv, NoUndoDataInv, WriteUndoFailsInv, PutBlockIndexInv
<1>6. CASE CrashInUndo
  <2>1. PICK k \in 1..(UndoSize[cur] + 2) :
          rev' = AppendTo(rev, rec.file, SubSeq(UndoCells(cur), 1, k))
    BY <1>6 DEF CrashInUndo
  <2>2. pc = "undo" /\ cur \in Blocks
    BY <1>6, InHand DEF CrashInUndo, HasUndo
  <2>3. k \in 0..(UndoSize[cur] + 2)
    BY <2>2, StoreAssumption
  <2>4. Grown(blk, blk') /\ Grown(rev, rev')
    BY <1>6, <2>1, <2>2, <2>3, TornUndoGrown DEF CrashInUndo, FilesInv
  <2> QED BY <1>6, <2>4, OffInv DEF CrashInUndo
<1>7. CASE PutBlockIndexFails
  BY <1>7, GiveUpInv DEF PutBlockIndexFails, FilesInv, disk
<1>8. CASE Stop \/ Crash
  BY <1>8, OffInv DEF Stop, Crash, FilesInv, disk
<1>9. CASE UNCHANGED vars
  BY <1>9 DEF vars, disk, FilesInv, IndexSound, RunInv, AtEnd
<1>10. CASE Refuse
  BY <1>10, GiveUpInv DEF Refuse, FilesInv, disk
<1>11. CASE \E b \in Blocks : AddUndo(b)
  BY <1>11, AddUndoInv
<1>12. CASE PutChainTip \/ PutChainTipFails \/ \E b \in Blocks : MoveTip(b)
  BY <1>12, TipInv
<1> QED BY <1>1, <1>2, <1>3, <1>4, <1>5, <1>6, <1>7, <1>8, <1>9, <1>10, <1>11, <1>12 DEF Next

(* The invariant of files and records always holds. *)
LEMMA FilesInvAlways == Spec => []FilesInv
<1>1. ASSUME Init PROVE FilesInv
  <2>1. blk \in Files /\ rev \in Files
    BY <1>1 DEF Init, Files
  <2>2. DOMAIN index = {}
    BY <1>1 DEF Init
  <2>3. IndexSound
    BY <2>2 DEF IndexSound
  <2>4. RunInv
    BY <1>1 DEF Init, RunInv
  <2> QED BY <2>1, <2>3, <2>4 DEF FilesInv
<1> QED BY <1>1, FilesStep, PTL DEF Spec

(* A block that has an index record is read back by it: RecordsReadBack     *)
(* holds in every state, for any sizes and any number of crashes and        *)
(* failed appends.  blockfile.go appends at curSize, which is the end of    *)
(* the file since Open, rotation and each append set it so; later appends   *)
(* only go behind.                                                          *)
THEOREM RecordsAlwaysReadBack == Spec => []RecordsReadBack
<1>1. ASSUME FilesInv, NEW b \in DOMAIN index, ~index[b].failed PROVE ReadBlock(index[b]) = b
  <2>1. blk \in Files /\ b \in Blocks /\ Sound(blk, rev, index[b], b)
    BY <1>1 DEF FilesInv, IndexSound
  <2>2. index[b] \in Record
    BY <2>1, Zenon DEF Sound
  <2>3. index[b].failed \in BOOLEAN
    BY <2>2 DEF Record
  <2>4. index[b].failed = FALSE
    BY <1>1, <2>3, Zenon
  <2>5. index[b].size = Size[b] /\ Holds(blk, index[b].file, index[b].pos, BlockCells(b))
    BY <2>1, <2>4, Zenon DEF Sound
  <2> QED BY <2>1, <2>5, ReadBlockHeld, Zenon
<1>2. FilesInv => RecordsReadBack
  BY <1>1 DEF RecordsReadBack
<1> QED BY <1>2, FilesInvAlways, PTL

(* The undo data a record points to are the block's own: UndoReadsBack      *)
(* holds in every state, after failed appends too, since WriteUndo takes    *)
(* its offset from the file.                                                *)
THEOREM UndoAlwaysReadsBack == Spec => []UndoReadsBack
<1>1. ASSUME FilesInv, NEW b \in DOMAIN index, index[b].undo # NoUndo
      PROVE  ReadUndo(index[b].undo) = b
  <2> DEFINE u == index[b].undo
  <2>1. rev \in Files /\ b \in Blocks /\ Sound(blk, rev, index[b], b)
    BY <1>1 DEF FilesInv, IndexSound
  <2>2. u.size = UndoSize[b] /\ Holds(rev, u.file, u.pos, UndoCells(b))
    BY <1>1, <2>1, Zenon DEF Sound
  <2> QED BY <2>1, <2>2, ReadUndoHeld, Zenon
<1>2. FilesInv => UndoReadsBack
  BY <1>1 DEF UndoReadsBack
<1> QED BY <1>2, FilesInvAlways, PTL

-----------------------------------------------------------------------------
(* The inductive invariant of the records: a record follows that of its     *)
(* parent, the one being built too, and the migration's running work is     *)
(* that of the last record it wrote.                                        *)

(* The last record of the migration, h of them so far. *)
Reached ==
  /\ h \in 0..Len(Legacy)
  /\ h > 0 => Legacy[h] \in DOMAIN index /\ index[Legacy[h]].height = h - 1

WorkBelow == IF h = 0 THEN 0 ELSE index[Legacy[h]].work

Migrating ==
  /\ Reached
  /\ pc = "idle" => work = WorkBelow
  /\ pc # "idle" => h < Len(Legacy) /\ cur = Legacy[h + 1] /\ work = rec.work

(* initGenesis, up to its tip record. *)
Founded ==
  /\ work = 0 /\ h \in {0, 1}
  /\ h = 1 => Genesis \in DOMAIN index
  /\ pc # "idle" => h = 0 /\ cur = Genesis

AddUpInv ==
  /\ RecordsAddUp
  /\ mode \in {"off", "migrate", "node"}
  /\ mode = "off" => pc = "idle" /\ h = 0 /\ work = 0
  /\ pc # "idle" => Follows(rec, cur)
  /\ mode = "migrate" => Migrating
  /\ mode = "node" => IF tip = NoBlock THEN Founded ELSE h = 0

(* The legacy chain is a sequence of distinct blocks, each the parent of    *)
(* the next.                                                                *)
LEMMA LegacyFacts ==
  /\ Len(Legacy) \in Nat /\ Len(Legacy) > 1 /\ Genesis = Legacy[1]
  /\ \A i \in 1..Len(Legacy) : Legacy[i] \in Blocks /\ Legacy[i] # NoBlock
  /\ \A i \in 1..Len(Legacy) : i > 1 => Legacy[i] # Genesis /\ Parent[Legacy[i]] = Legacy[i - 1]
<1>1. Len(Legacy) \in Nat /\ Len(Legacy) > 1 /\ DOMAIN Legacy = 1..Len(Legacy)
  BY StoreAssumption
<1>2. \A i \in 1..Len(Legacy) : i > 1 => Legacy[i] # Genesis
  BY <1>1, StoreAssumption DEF Genesis
<1> QED BY <1>1, <1>2, StoreAssumption DEF Genesis

(* Heights and work of records are numbers. *)
LEMMA RecordNumbers ==
  ASSUME FilesInv, NEW b \in DOMAIN index
  PROVE  index[b].height \in Nat /\ index[b].work \in Nat
<1>1. index[b] \in Record
  BY DEF FilesInv, IndexSound, Sound
<1> QED BY <1>1 DEF Record

(* Records that are not touched still add up. *)
LEMMA SameRecords ==
  ASSUME RecordsAddUp, index' = index, tip' = tip
  PROVE  RecordsAddUp'
<1>1. ASSUME NEW b \in DOMAIN index PROVE Follows(index[b], b)'
  BY <1>1, Zenon DEF RecordsAddUp, Follows
<1> QED BY <1>1, Zenon DEF RecordsAddUp

(* The process ends. *)
LEMMA OffAddUp ==
  ASSUME AddUpInv, Off, index' = index, tip' = tip
  PROVE  AddUpInv'
<1>1. RecordsAddUp'
  BY SameRecords, Zenon DEF AddUpInv
<1> QED BY <1>1 DEF AddUpInv, Off

(* The block in progress is given up. *)
LEMMA GiveUpAddUp ==
  ASSUME AddUpInv, GiveUp, index' = index, tip' = tip
  PROVE  AddUpInv'
<1>1. CASE Starting
  BY <1>1, OffAddUp DEF GiveUp
<1>2. CASE ~Starting
  <2>1. mode # "migrate" /\ (mode = "node" => tip # NoBlock)
    BY <1>2 DEF Starting, Founding
  <2>2. pc' = "idle" /\ mode' = mode /\ h' = h /\ work' = work
    BY <1>2 DEF GiveUp
  <2>3. RecordsAddUp'
    BY SameRecords, Zenon DEF AddUpInv
  <2> QED BY <2>1, <2>2, <2>3 DEF AddUpInv
<1> QED BY <1>1, <1>2

(* The record of a new block follows its parent's: the migration's by its   *)
(* own count, the node's by what the index says.                            *)
LEMMA WriteBlockAddUp ==
  ASSUME FilesInv, AddUpInv, NEW b \in Blocks, WriteBlock(b)
  PROVE  AddUpInv'
<1>1. /\ pc = "idle" /\ Wanted(b) /\ index' = index /\ tip' = tip /\ mode' = mode /\ h' = h
      /\ cur' = b /\ pc' = "undo" /\ work' = (IF mode = "migrate" THEN Cumulative(b) ELSE work)
      /\ rec'.height = NewHeight(b) /\ rec'.work = Cumulative(b)
  BY DEF WriteBlock, CanWrite
<1>2. RecordsAddUp'
  BY <1>1, SameRecords, Zenon DEF AddUpInv
<1>3. Work[b] \in Nat /\ work \in Nat /\ h \in Nat
  BY StoreAssumption DEF FilesInv, RunInv
<1>4. CASE mode = "migrate"
  <2>1. /\ h < Len(Legacy) /\ b = Legacy[h + 1] /\ Migrating /\ work = WorkBelow
        /\ NewHeight(b) = h /\ Cumulative(b) = Work[b] + work
    <3>1. Migrating /\ work = WorkBelow
      BY <1>1, <1>4, Zenon DEF AddUpInv, Migrating
    <3>2. NewHeight(b) = h /\ Cumulative(b) = Work[b] + work
      BY <1>4, Zenon DEF Starting, NewHeight, Cumulative
    <3>3. h < Len(Legacy) /\ b = Legacy[h + 1]
      BY <1>1, <1>4 DEF Wanted, Founding, Starting
    <3> QED BY <3>1, <3>2, <3>3
  <2>2. CASE h = 0
    <3>1. work = 0
      BY <2>1, <2>2 DEF WorkBelow
    <3>4. b = Genesis
      BY <2>1, <2>2 DEF Genesis
    <3>2. Follows(rec, cur)'
      <4>1. rec'.height = 0 /\ rec'.work = Work[b] /\ cur' = Genesis
        BY <1>1, <1>3, <2>1, <2>2, <3>1, <3>4
      <4> QED BY <3>4, <4>1, Zenon DEF Follows
    <3>3. Migrating'
      BY <1>1, <1>4, <2>1, <2>2 DEF Migrating, Reached
    <3> QED BY <1>1, <1>2, <1>4, <3>2, <3>3 DEF AddUpInv
  <2>3. CASE h # 0
    <3>1. h + 1 \in 1..Len(Legacy) /\ h + 1 > 1 /\ (h + 1) - 1 = h /\ h > 0
      BY <1>3, <2>1, <2>3, LegacyFacts
    <3>2. b # Genesis /\ Parent[b] = Legacy[h]
      BY <2>1, <3>1, LegacyFacts
    <3>3. Legacy[h] \in DOMAIN index /\ index[Legacy[h]].height = h - 1 /\ work = index[Legacy[h]].work
      BY <2>1, <2>3, <3>1 DEF Migrating, Reached, WorkBelow
    <3>4. index[Legacy[h]].work \in Nat
      BY <3>3, RecordNumbers
    <3>5. /\ rec'.height = index[Parent[b]].height + 1
          /\ rec'.work = index[Parent[b]].work + Work[b]
      BY <1>1, <1>3, <2>1, <3>2, <3>3, <3>4
    <3>6. Follows(rec, cur)'
      BY <1>1, <3>2, <3>3, <3>5 DEF Follows
    <3>7. Migrating'
      BY <1>1, <1>4, <2>1 DEF Migrating, Reached
    <3> QED BY <1>1, <1>2, <1>4, <3>6, <3>7 DEF AddUpInv
  <2> QED BY <2>2, <2>3
<1>5. CASE Founding /\ h = 0 /\ b = Genesis
  <2>1. mode = "node" /\ tip = NoBlock /\ Founded /\ work = 0
    BY <1>5 DEF Founding, AddUpInv, Founded
  <2>2. NewHeight(b) = 0 /\ Cumulative(b) = Work[b]
    BY <1>3, <1>5, <2>1 DEF Starting, NewHeight, Cumulative
  <2>3. Follows(rec, cur)'
    BY <1>1, <1>5, <2>2 DEF Follows
  <2>4. Founded'
    BY <1>1, <1>5, <2>1 DEF Founded
  <2> QED BY <1>1, <1>2, <2>1, <2>3, <2>4 DEF AddUpInv
<1>6. CASE mode = "node" /\ ~Founding /\ b # Genesis /\ Parent[b] \in DOMAIN index
  <2>1. tip # NoBlock /\ h = 0 /\ ~Starting
    BY <1>6 DEF Founding, Starting, AddUpInv
  <2>2. index[Parent[b]].work \in Nat
    BY <1>6, RecordNumbers
  <2>3. NewHeight(b) = index[Parent[b]].height + 1 /\ Cumulative(b) = index[Parent[b]].work + Work[b]
    BY <1>3, <2>1, <2>2 DEF NewHeight, Cumulative
  <2>4. Follows(rec, cur)'
    BY <1>1, <1>6, <2>3 DEF Follows
  <2> QED BY <1>1, <1>2, <1>6, <2>1, <2>4 DEF AddUpInv
<1> QED BY <1>1, <1>4, <1>5, <1>6 DEF Wanted

(* The undo data are there or not: the record's height and work stay. *)
LEMMA UndoAddUp ==
  ASSUME AddUpInv, pc = "undo", pc' = "put", mode' = mode, h' = h, work' = work, cur' = cur,
         rec'.height = rec.height, rec'.work = rec.work, index' = index, tip' = tip
  PROVE  AddUpInv'
<1>1. RecordsAddUp'
  BY SameRecords, Zenon DEF AddUpInv
<1>2. Follows(rec, cur)'
  BY DEF AddUpInv, Follows
<1>3. (Migrating => Migrating') /\ (Founded => Founded')
  BY DEF Migrating, Reached, Founded
<1> QED BY <1>1, <1>2, <1>3 DEF AddUpInv

(* A record is published.  Where the block had one, height and work of the  *)
(* new one are the same, since both follow the parent's: nothing above it   *)
(* is disturbed.                                                            *)
LEMMA PutBlockIndexAddUp ==
  ASSUME FilesInv, AddUpInv, PutBlockIndex
  PROVE  AddUpInv'
<1>1. /\ pc # "idle" /\ index' = [b \in DOMAIN index \cup {cur} |-> IF b = cur THEN rec ELSE index[b]]
      /\ h' = (IF Starting THEN h + 1 ELSE h) /\ pc' = "idle" /\ tip' = tip
      /\ mode' = mode /\ work' = work
  BY DEF PutBlockIndex
<1>2. DOMAIN index' = DOMAIN index \cup {cur} /\ index'[cur] = rec
  BY <1>1
<1>3. \A b \in DOMAIN index : b # cur => index'[b] = index[b]
  BY <1>1
<1>4. Follows(rec, cur) /\ \A b \in DOMAIN index : Follows(index[b], b)
  BY <1>1 DEF AddUpInv, RecordsAddUp
<1>5. cur \in DOMAIN index => index[cur].height = rec.height /\ index[cur].work = rec.work
  BY <1>4 DEF Follows
<1>6. \A b \in DOMAIN index :
        b \in DOMAIN index' /\ index'[b].height = index[b].height /\ index'[b].work = index[b].work
  BY <1>2, <1>3, <1>5
<1>7. ASSUME NEW b \in DOMAIN index' PROVE Follows(index[b], b)'
  <2>1. Follows(index'[b], b)
    BY <1>2, <1>3, <1>4
  <2> QED BY <1>6, <2>1 DEF Follows
<1>8. RecordsAddUp'
  <2>1. tip' # NoBlock => tip' \in DOMAIN index'
    BY <1>1, <1>2 DEF AddUpInv, RecordsAddUp
  <2> QED BY <1>7, <2>1 DEF RecordsAddUp
<1>9. CASE mode = "migrate"
  <2>1. Migrating /\ h' = h + 1
    BY <1>1, <1>9 DEF AddUpInv, Starting
  <2>2. h \in Nat /\ h < Len(Legacy) /\ cur = Legacy[h + 1] /\ work = rec.work
    BY <1>1, <2>1, LegacyFacts DEF Migrating, Reached
  <2>3. h' \in 0..Len(Legacy) /\ h' # 0 /\ h' - 1 = h /\ Legacy[h'] = cur
    BY <2>1, <2>2, LegacyFacts
  <2>4. rec.height = h
    <3>1. CASE h = 0
      BY <1>4, <2>2, <3>1, LegacyFacts DEF Follows
    <3>2. CASE h # 0
      <4>1. h + 1 \in 1..Len(Legacy) /\ h + 1 > 1 /\ (h + 1) - 1 = h /\ h > 0
        BY <2>2, <3>2, LegacyFacts
      <4>2. cur # Genesis /\ Parent[cur] = Legacy[h]
        BY <2>2, <4>1, LegacyFacts
      <4>3. index[Legacy[h]].height = h - 1
        BY <2>1, <4>1 DEF Migrating, Reached
      <4> QED BY <1>4, <2>2, <4>2, <4>3 DEF Follows
    <3> QED BY <3>1, <3>2
  <2>5. Reached' /\ work' = WorkBelow'
    BY <1>1, <1>2, <2>2, <2>3, <2>4 DEF Reached, WorkBelow
  <2> QED BY <1>1, <1>8, <1>9, <2>5 DEF AddUpInv, Migrating
<1>10. CASE mode = "node"
  <2>1. CASE tip = NoBlock
    <3>1. Founded /\ h = 0 /\ cur = Genesis /\ h' = 1 /\ work = 0
      BY <1>1, <1>10, <2>1 DEF AddUpInv, Founded, Starting, Founding
    <3>2. Founded'
      BY <1>1, <1>2, <3>1 DEF Founded
    <3> QED BY <1>1, <1>8, <1>10, <2>1, <3>2 DEF AddUpInv
  <2>2. CASE tip # NoBlock
    BY <1>1, <1>8, <1>10, <2>2 DEF AddUpInv, Starting, Founding
  <2> QED BY <2>1, <2>2
<1> QED BY <1>1, <1>9, <1>10 DEF AddUpInv

(* The tip record names a block that was just recorded, or any that is.     *)
LEMMA TipAddUp ==
  ASSUME FilesInv, AddUpInv, PutChainTip \/ \E b \in Blocks : MoveTip(b)
  PROVE  AddUpInv'
<1>1. index' = index
  BY DEF PutChainTip, MoveTip
<1>2. \A b \in DOMAIN index : b \in Blocks /\ b # NoBlock /\ Follows(index[b], b)'
  <2>1. \A b \in DOMAIN index : b \in Blocks /\ b # NoBlock
    BY StoreAssumption DEF FilesInv, IndexSound
  <2>2. \A b \in DOMAIN index : Follows(index[b], b)'
    BY <1>1, Zenon DEF AddUpInv, RecordsAddUp, Follows
  <2> QED BY <2>1, <2>2, Zenon
<1>3. ASSUME PutChainTip, mode = "migrate" PROVE AddUpInv'
  <2>1. h = Len(Legacy) /\ tip' = Legacy[h] /\ Off /\ Migrating
    BY <1>3 DEF PutChainTip, AtTip, Founding, AddUpInv
  <2>2. Legacy[h] \in DOMAIN index
    BY <2>1, LegacyFacts DEF Migrating, Reached
  <2>3. RecordsAddUp'
    BY <1>1, <1>2, <2>1, <2>2 DEF RecordsAddUp
  <2> QED BY <2>1, <2>3 DEF Off, AddUpInv
<1>4. ASSUME PutChainTip, mode # "migrate" PROVE AddUpInv'
  <2>1. /\ mode = "node" /\ tip = NoBlock /\ h = 1 /\ tip' = Legacy[1] /\ h' = 0
        /\ pc = "idle" /\ pc' = "idle" /\ mode' = mode
    BY <1>4 DEF PutChainTip, AtTip, Founding
  <2>2. Genesis \in DOMAIN index /\ tip' = Genesis
    BY <2>1 DEF AddUpInv, Founded, Genesis
  <2>3. RecordsAddUp' /\ tip' # NoBlock
    BY <1>1, <1>2, <2>2 DEF RecordsAddUp
  <2> QED BY <2>1, <2>3 DEF AddUpInv
<1>5. ASSUME NEW b \in Blocks, MoveTip(b) PROVE AddUpInv'
  <2>1. /\ mode = "node" /\ tip # NoBlock /\ b \in DOMAIN index /\ tip' = b
        /\ pc = "idle" /\ pc' = "idle" /\ mode' = mode /\ h' = h
    BY <1>5 DEF MoveTip, Founding
  <2>2. RecordsAddUp' /\ tip' # NoBlock
    BY <1>1, <1>2, <2>1 DEF RecordsAddUp
  <2> QED BY <2>1, <2>2 DEF AddUpInv
<1> QED BY <1>3, <1>4, <1>5

(* The invariant of the records is inductive. *)
LEMMA AddUpStep ==
  ASSUME FilesInv, AddUpInv, [Next]_vars
  PROVE  AddUpInv'
<1>1. CASE \E who \in {"migrate", "node"} : Open(who)
  <2>1. PICK who \in {"migrate", "node"} : Open(who)
    BY <1>1
  <2>2. /\ index' = index /\ tip' = tip /\ pc' = pc /\ h' = h /\ work' = work /\ mode' = who
        /\ pc = "idle" /\ h = 0 /\ work = 0
    BY <2>1 DEF Open, disk, AddUpInv
  <2>3. Migrating' /\ Founded'
    BY <2>2, LegacyFacts DEF Migrating, Reached, WorkBelow, Founded
  <2>4. RecordsAddUp'
    BY <2>2, SameRecords, Zenon DEF AddUpInv
  <2> QED BY <2>2, <2>3, <2>4 DEF AddUpInv
<1>2. CASE \E b \in Blocks : WriteBlock(b)
  BY <1>2, WriteBlockAddUp
<1>3. CASE \E b \in Blocks : WriteBlockFails(b)
  <2>1. index' = index /\ tip' = tip
    BY <1>3 DEF WriteBlockFails
  <2>2. CASE Off
    BY <2>1, <2>2, OffAddUp
  <2>3. CASE UNCHANGED <<mode, pc, h, work, cur, rec>>
    <3>1. RecordsAddUp'
      BY <2>1, SameRecords, Zenon DEF AddUpInv
    <3> QED BY <2>1, <2>3, <3>1, SMTT(30) DEF AddUpInv, Follows, Migrating, Reached, WorkBelow, Founded
  <2> QED BY <1>3, <2>2, <2>3 DEF WriteBlockFails
<1>4. CASE WriteUndo
  <2>1. rec \in Record
    BY <1>4, InHand DEF WriteUndo, HasUndo
  <2>2. rec'.height = rec.height /\ rec'.work = rec.work
    BY <1>4, <2>1 DEF WriteUndo, Record
  <2> QED BY <1>4, <2>2, UndoAddUp DEF WriteUndo, HasUndo
<1>5. CASE NoUndoData
  BY <1>5, UndoAddUp DEF NoUndoData, disk
<1>6. CASE WriteUndoFails
  BY <1>6, UndoAddUp, GiveUpAddUp DEF WriteUndoFails, HasUndo
<1>7. CASE \E b \in Blocks : AddUndo(b)
  <2>1. PICK b \in Blocks : AddUndo(b)
    BY <1>7
  <2>2. /\ mode = "node" /\ tip # NoBlock /\ b \in DOMAIN index /\ cur' = b /\ rec' = index[b]
        /\ index' = index /\ tip' = tip /\ mode' = mode /\ h' = h
    BY <2>1 DEF AddUndo, Founding, disk
  <2>3. RecordsAddUp' /\ Follows(rec, cur)'
    <3>1. RecordsAddUp'
      BY <2>2, SameRecords, Zenon DEF AddUpInv
    <3>2. Follows(rec, cur)'
      BY <2>2, Zenon DEF AddUpInv, RecordsAddUp, Follows
    <3> QED BY <3>1, <3>2
  <2> QED BY <2>2, <2>3 DEF AddUpInv
<1>8. CASE PutBlockIndex
  BY <1>8, PutBlockIndexAddUp
<1>9. CASE PutBlockIndexFails \/ Refuse
  BY <1>9, GiveUpAddUp DEF PutBlockIndexFails, Refuse, disk
<1>10. CASE PutChainTip \/ \E b \in Blocks : MoveTip(b)
  BY <1>10, TipAddUp
<1>11. CASE PutChainTipFails \/ Stop \/ Crash \/ CrashInUndo \/ \E b \in Blocks : CrashInBlock(b)
  BY <1>11, OffAddUp DEF PutChainTipFails, Stop, Crash, CrashInUndo, CrashInBlock, disk
<1>12. CASE UNCHANGED vars
  <2>1. RecordsAddUp'
    BY <1>12, SameRecords, Zenon DEF AddUpInv, vars, disk
  <2> QED BY <1>12, <2>1, SMTT(30) DEF vars, disk, AddUpInv, Follows, Migrating, Reached, WorkBelow, Founded
<1> QED BY <1>1, <1>2, <1>3, <1>4, <1>5, <1>6, <1>7, <1>8, <1>9, <1>10, <1>11, <1>12 DEF Next

(* Heights and work add up from genesis to every record, and the tip is     *)
(* recorded: RecordsAddUp holds in every state, for every tree of blocks    *)
(* and every legacy chain in it, however often migrateFromLegacy was        *)
(* interrupted and started again and whatever the node stored in between.   *)
THEOREM RecordsAlwaysAddUp == Spec => []RecordsAddUp
<1>1. Init => AddUpInv
  BY DEF Init, AddUpInv, RecordsAddUp
<1>2. AddUpInv => RecordsAddUp
  BY DEF AddUpInv
<1> QED BY <1>1, <1>2, FilesInvAlways, AddUpStep, PTL DEF Spec
=============================================================================
