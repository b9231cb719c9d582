\* The wallet with every write allowed to fail or to be cut short, and every
\* read at a start to fail.  The seeds are bounded, so the system may stop.
SPECIFICATION WalletSpec
CONSTANTS
  Imports = {p}
  Faults = {"save", "encrypt", "tear", "read"}
  MaxIndex = 2
  MaxSeeds = 2
INVARIANTS IssuedRecoverable KeysInOrder
PROPERTIES StaysEncrypted
CHECK_DEADLOCK FALSE
