-------------------------------- MODULE Store --------------------------------
(***************************************************************************)
(* The block store on disk (internal/store: blockfile.go, blockindex.go,   *)
(* filestore.go) and the two programs that write to it one after the       *)
(* other: the migration of a legacy database (migrateFromLegacy, cmd/node/ *)
(* main.go), which may be started again at any time, and the node, which   *)
(* stores the genesis block itself where it finds no tip record.           *)
(*                                                                         *)
(* A file is a sequence of cells: a frame of a magic cell and a size cell, *)
(* then the data.  Appending is not atomic: a crash leaves any prefix of   *)
(* what was being written.  The index and the tip record are LevelDB       *)
(* writes with Sync, atomic and durable.  Files survive a crash of the     *)
(* process; a loss of what the operating system had not written yet is not *)
(* modelled.                                                               *)
(***************************************************************************)
EXTENDS Integers, Sequences, FiniteSets

CONSTANTS
  Blocks,
  Legacy,           \* the blocks of the legacy database by height, a sequence
  Parent,           \* of every block but the genesis block
  Size, UndoSize,   \* the cells of a block and of its undo data; 0 for no undo data
  Work,             \* the work of each block
  maxBlockFileSize,
  MaxCells,         \* bound on the cells of all block files
  MaxUndoCells,     \* and on those of all undo files where a reorg adds to them
  MaxCrashes, MaxErrors

NoBlock == "none"
NoUndo == [file |-> 0, pos |-> 0, size |-> 0]
Genesis == Legacy[1]

ASSUME StoreAssumption ==
  /\ NoBlock \notin Blocks /\ Legacy \in Seq(Blocks) /\ Len(Legacy) > 1
  /\ \A i, j \in DOMAIN Legacy : Legacy[i] = Legacy[j] => i = j
  /\ \A b \in Blocks \ {Genesis} : Parent[b] \in Blocks
  /\ \A i \in DOMAIN Legacy : i > 1 => Parent[Legacy[i]] = Legacy[i - 1]
  /\ \A b \in Blocks : Size[b] \in Nat \ {0} /\ UndoSize[b] \in Nat /\ Work[b] \in Nat \ {0}
  /\ maxBlockFileSize \in Nat

VARIABLES
  blk, rev,    \* the files: sequences (by file number + 1) of sequences of cells
  index,       \* the index records: a function from the blocks that have one
  tip,         \* the block of the tip record
  mode,        \* "off", or who runs: "migrate" or "node"
  file, size,  \* curFile and curSize
  pc,          \* "idle", "undo" or "put": what the running program does next
  h, work,     \* the migration's height and cumulative work; the node's h is 1
               \* between the two records of initGenesis
  cur, rec,    \* the block being stored and its record
  failed,      \* a block's append has failed since the files were opened
  crashes, errors

disk == <<blk, rev, index, tip>>
vars == <<disk, mode, file, size, pc, h, work, cur, rec, failed, crashes, errors>>

Init ==
  /\ blk = << >> /\ rev = << >> /\ index = << >> /\ tip = NoBlock
  /\ mode = "off" /\ file = 0 /\ size = 0 /\ pc = "idle"
  /\ h = 0 /\ work = 0 /\ cur = NoBlock /\ rec = << >>
  /\ failed = FALSE /\ crashes = 0 /\ errors = 0

-----------------------------------------------------------------------------
(* Files *)

Frame(n) == <<[is |-> "magic"], [is |-> "size", n |-> n]>>

Data(kind, b, n) == [i \in 1..n |-> [is |-> kind, of |-> b, i |-> i]]

BlockCells(b) == Frame(Size[b]) \o Data("block", b, Size[b])

UndoCells(b) == Frame(UndoSize[b]) \o Data("undo", b, UndoSize[b]) \o <<[is |-> "sum", of |-> b]>>

File(files, n) == IF n < Len(files) THEN files[n + 1] ELSE << >>

(* The files with cells appended to file n, created where it is not there. *)
AppendTo(files, n, cells) ==
  [i \in 1..(IF n < Len(files) THEN Len(files) ELSE n + 1) |->
     IF i = n + 1 THEN File(files, n) \o cells ELSE File(files, i - 1)]

(* The data of a frame at an offset, where magic and size agree. *)
ReadFrame(cells, pos, n) ==
  IF /\ Len(cells) >= pos + 2 + n
     /\ cells[pos + 1] = [is |-> "magic"]
     /\ cells[pos + 2] = [is |-> "size", n |-> n]
  THEN SubSeq(cells, pos + 3, pos + 2 + n)
  ELSE << >>

ReadBlock(r) ==
  LET data == ReadFrame(File(blk, r.file), r.pos, r.size)
      found == {b \in Blocks : data = Data("block", b, Size[b])}
  IN  IF found = {} THEN NoBlock ELSE CHOOSE b \in found : TRUE

ReadUndo(u) ==
  LET cells == File(rev, u.file)
      data == ReadFrame(cells, u.pos, u.size)
      found == {b \in Blocks : /\ data = Data("undo", b, UndoSize[b])
                               /\ Len(cells) > u.pos + 2 + u.size
                               /\ cells[u.pos + 3 + u.size] = [is |-> "sum", of |-> b]}
  IN  IF found = {} THEN NoBlock ELSE CHOOSE b \in found : TRUE

Cells(files) == LET sum[i \in 0..Len(files)] == IF i = 0 THEN 0 ELSE sum[i - 1] + Len(files[i])
                IN  sum[Len(files)]

-----------------------------------------------------------------------------
(* Opening, and the end of a process *)

(* NewBlockFileManager: go on at the end of the last file.                  *)
Open(who) ==
  /\ mode = "off"
  /\ mode' = who
  /\ file' = IF blk = << >> THEN 0 ELSE Len(blk) - 1
  /\ size' = IF blk = << >> THEN 0 ELSE Len(blk[Len(blk)])
  /\ UNCHANGED <<disk, pc, h, work, cur, rec, failed, crashes, errors>>

(* The process ends, and its memory with it. *)
Off ==
  /\ mode' = "off" /\ file' = 0 /\ size' = 0 /\ pc' = "idle"
  /\ h' = 0 /\ work' = 0 /\ cur' = NoBlock /\ rec' = << >> /\ failed' = FALSE

(* The node in initGenesis. *)
Founding == mode = "node" /\ tip = NoBlock

(* Storing blocks from genesis on, where an error ends the process. *)
Starting == mode = "migrate" \/ Founding

(* The block is done with, and so is the process where it is starting. *)
GiveUp ==
  IF Starting
  THEN Off
  ELSE /\ pc' = "idle" /\ cur' = NoBlock /\ rec' = << >>
       /\ UNCHANGED <<mode, file, size, h, work, failed>>

-----------------------------------------------------------------------------
(* WriteBlock *)

(* The block next to be stored: the migration's at its height, genesis in   *)
(* initGenesis, then any block of which the parent has a record: also one   *)
(* that has a record itself, where a reorg has untracked it.                *)
Wanted(b) ==
  \/ mode = "migrate" /\ h < Len(Legacy) /\ b = Legacy[h + 1]
  \/ Founding /\ h = 0 /\ b = Genesis
  \/ mode = "node" /\ ~Founding /\ b # Genesis /\ Parent[b] \in DOMAIN index

Rotates(b) == size > 0 /\ size + 2 + Size[b] > maxBlockFileSize

WriteTo(b) == IF Rotates(b) THEN file + 1 ELSE file

(* Mutant: the size is not reset for a new file. *)
MutOffset(b) == size

Offset(b) == IF Rotates(b) THEN 0 ELSE size

CanWrite(b) == pc = "idle" /\ Wanted(b) /\ Cells(blk) + 2 + Size[b] <= MaxCells

NewHeight(b) == IF Starting THEN h ELSE index[Parent[b]].height + 1

(* Mutant: the migration does not carry the work on. *)
MutCumulative(b) == Work[b] + IF Starting THEN 0 ELSE index[Parent[b]].work

(* cumulativeWork (the legacy chain has more than its genesis block), and   *)
(* for the node workForParentChain and the work of the block.               *)
Cumulative(b) == Work[b] + IF Starting THEN work ELSE index[Parent[b]].work

WriteBlock(b) ==
  /\ CanWrite(b)
  /\ blk' = AppendTo(blk, WriteTo(b), BlockCells(b))
  /\ file' = WriteTo(b) /\ size' = Offset(b) + 2 + Size[b]
  /\ work' = IF mode = "migrate" THEN Cumulative(b) ELSE work
  /\ cur' = b
  /\ rec' = [file |-> WriteTo(b), pos |-> Offset(b), size |-> Size[b], undo |-> NoUndo,
             height |-> NewHeight(b), work |-> Cumulative(b), failed |-> failed]
  /\ pc' = "undo"
  /\ UNCHANGED <<rev, index, tip, mode, h, failed, crashes, errors>>

(* The append fails after some cells: the size in memory stays as it was,   *)
(* and the offsets of the blocks that follow are not theirs until the files *)
(* are opened again.                                                        *)
WriteBlockFails(b) ==
  /\ errors < MaxErrors /\ CanWrite(b)
  /\ \E n \in 0..(Size[b] + 1) :
       blk' = AppendTo(blk, WriteTo(b), SubSeq(BlockCells(b), 1, n))
  /\ IF Starting
     THEN Off
     ELSE /\ file' = WriteTo(b) /\ size' = Offset(b) /\ failed' = TRUE
          /\ UNCHANGED <<mode, pc, h, work, cur, rec>>
  /\ errors' = errors + 1
  /\ UNCHANGED <<rev, index, tip, crashes>>

(* The block does not connect, and has no record. *)
Refuse ==
  /\ mode = "node" /\ ~Founding /\ pc = "undo" /\ GiveUp
  /\ UNCHANGED <<disk, crashes, errors>>

-----------------------------------------------------------------------------
(* WriteUndo, at the end the file really has *)

(* Mutant: at the place of the block in its file. *)
MutUndoPos == rec.pos

UndoPos == Len(File(rev, rec.file))

HasUndo == pc = "undo" /\ UndoSize[cur] > 0 /\ ~Founding

(* A reorg has connected a block that is stored, and has undo data for it. *)
AddUndo(b) ==
  /\ mode = "node" /\ ~Founding /\ pc = "idle"
  /\ b \in DOMAIN index /\ UndoSize[b] > 0 /\ Cells(rev) + 3 + UndoSize[b] <= MaxUndoCells
  /\ cur' = b /\ rec' = index[b] /\ pc' = "undo"
  /\ UNCHANGED <<disk, mode, file, size, h, work, failed, crashes, errors>>

WriteUndo ==
  /\ HasUndo
  /\ rev' = AppendTo(rev, rec.file, UndoCells(cur))
  /\ rec' = [rec EXCEPT !.undo = [file |-> rec.file, pos |-> UndoPos, size |-> UndoSize[cur]]]
  /\ pc' = "put"
  /\ UNCHANGED <<blk, index, tip, mode, file, size, h, work, cur, failed, crashes, errors>>

(* There is no undo data; the node has none for a side block. *)
NoUndoData ==
  /\ pc = "undo" /\ (UndoSize[cur] = 0 \/ mode = "node")
  /\ pc' = "put"
  /\ UNCHANGED <<disk, mode, file, size, h, work, cur, rec, failed, crashes, errors>>

(* The append fails: the migration and processOrphans go on without undo    *)
(* data, ProcessBlock and reorg give the block up.                          *)
WriteUndoFails ==
  /\ errors < MaxErrors /\ HasUndo
  /\ \E n \in 0..(UndoSize[cur] + 2) :
       rev' = AppendTo(rev, rec.file, SubSeq(UndoCells(cur), 1, n))
  /\ \/ pc' = "put" /\ UNCHANGED <<mode, file, size, h, work, cur, rec, failed>>
     \/ mode = "node" /\ GiveUp
  /\ errors' = errors + 1
  /\ UNCHANGED <<blk, index, tip, crashes>>

-----------------------------------------------------------------------------
(* The records *)

PutBlockIndex ==
  /\ pc = "put"
  /\ index' = [b \in DOMAIN index \cup {cur} |-> IF b = cur THEN rec ELSE index[b]]
  /\ h' = IF Starting THEN h + 1 ELSE h
  /\ pc' = "idle" /\ cur' = NoBlock /\ rec' = << >>
  /\ UNCHANGED <<blk, rev, tip, mode, file, size, work, failed, crashes, errors>>

(* PutBlockIndex returns an error, to the node or to the migration. *)
PutBlockIndexFails ==
  /\ errors < MaxErrors /\ pc = "put" /\ GiveUp
  /\ errors' = errors + 1
  /\ UNCHANGED <<disk, crashes>>

(* The last write of a start. *)
AtTip ==
  /\ pc = "idle"
  /\ \/ mode = "migrate" /\ h = Len(Legacy)
     \/ Founding /\ h = 1

(* The migration ends, whatever the tip was; the node goes on. *)
PutChainTip ==
  /\ AtTip
  /\ tip' = Legacy[h]
  /\ IF mode = "migrate"
     THEN Off
     ELSE h' = 0 /\ UNCHANGED <<mode, file, size, pc, work, cur, rec, failed>>
  /\ UNCHANGED <<blk, rev, index, crashes, errors>>

PutChainTipFails ==
  /\ errors < MaxErrors /\ AtTip /\ Off
  /\ errors' = errors + 1
  /\ UNCHANGED <<disk, crashes>>

(* The node extends its chain or reorgs, or Init advances the tip to the    *)
(* chainstate's: to a block that has a record; to which is Chain's matter.  *)
MoveTip(b) ==
  /\ mode = "node" /\ ~Founding /\ pc = "idle" /\ b \in DOMAIN index
  /\ tip' = b
  /\ UNCHANGED <<blk, rev, index, mode, file, size, pc, h, work, cur, rec, failed, crashes, errors>>

Stop ==
  /\ mode = "node" /\ ~Founding /\ pc = "idle" /\ Off
  /\ UNCHANGED <<disk, crashes, errors>>

-----------------------------------------------------------------------------
(* The process ends between two writes. *)
Crash ==
  /\ mode # "off" /\ crashes < MaxCrashes
  /\ Off /\ crashes' = crashes + 1
  /\ UNCHANGED <<disk, errors>>

(* It ends in the middle of an append. *)
CrashInBlock(b) ==
  /\ crashes < MaxCrashes /\ CanWrite(b)
  /\ \E n \in 1..(Size[b] + 1) :
       blk' = AppendTo(blk, WriteTo(b), SubSeq(BlockCells(b), 1, n))
  /\ Off /\ crashes' = crashes + 1
  /\ UNCHANGED <<rev, index, tip, errors>>

CrashInUndo ==
  /\ crashes < MaxCrashes /\ HasUndo
  /\ \E n \in 1..(UndoSize[cur] + 2) :
       rev' = AppendTo(rev, rec.file, SubSeq(UndoCells(cur), 1, n))
  /\ Off /\ crashes' = crashes + 1
  /\ UNCHANGED <<blk, index, tip, errors>>

Next ==
  \/ \E who \in {"migrate", "node"} : Open(who)
  \/ \E b \in Blocks : WriteBlock(b) \/ WriteBlockFails(b) \/ CrashInBlock(b)
  \/ \E b \in Blocks : AddUndo(b) \/ MoveTip(b)
  \/ Refuse \/ WriteUndo \/ NoUndoData \/ WriteUndoFails \/ CrashInUndo
  \/ PutBlockIndex \/ PutBlockIndexFails \/ PutChainTip \/ PutChainTipFails \/ Stop \/ Crash

Spec == Init /\ [][Next]_vars

-----------------------------------------------------------------------------
(* A block that has an index record is read back by it, whatever torn       *)
(* appends, failed appends, crashes, rotations and second migrations came   *)
(* before or after; only a record written after a failed append, before the *)
(* files are opened again, is excepted.                                     *)
RecordsReadBack == \A b \in DOMAIN index : ~index[b].failed => ReadBlock(index[b]) = b

(* The undo data a record points to are the block's, with no exception: the *)
(* offset is the length the file has.                                       *)
UndoReadsBack ==
  \A b \in DOMAIN index : index[b].undo # NoUndo => ReadUndo(index[b].undo) = b

(* A record r of block b follows the record of b's parent. *)
Follows(r, b) ==
  IF b = Genesis
  THEN r.height = 0 /\ r.work = Work[b]
  ELSE /\ Parent[b] \in DOMAIN index
       /\ r.height = index[Parent[b]].height + 1
       /\ r.work = index[Parent[b]].work + Work[b]

(* Heights and work add up from genesis to every record, and the tip record *)
(* names a block that has one: always, though a migration may be            *)
(* interrupted, the node started on what it left, blocks stored again, and  *)
(* the migration started again over all that.  In particular, where the tip *)
(* is the legacy chain's, every legacy block is there.                      *)
RecordsAddUp ==
  /\ tip # NoBlock => tip \in DOMAIN index
  /\ \A b \in DOMAIN index : Follows(index[b], b)
=============================================================================
