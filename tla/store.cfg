SPECIFICATION Spec
CONSTANTS
  Blocks <- MCBlocks
  Legacy <- MCLegacy
  Parent <- MCParent
  Size <- MCSize
  UndoSize <- MCUndoSize
  Work <- MCWork
  maxBlockFileSize = 7
  MaxCells = 16
  MaxUndoCells = 7
  MaxCrashes = 1
  MaxErrors = 1
INVARIANTS
  RecordsReadBack
  UndoReadsBack
  RecordsAddUp
CHECK_DEADLOCK FALSE
