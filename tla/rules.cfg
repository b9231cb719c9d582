SPECIFICATION SpecRules
CONSTANTS
  Hashes = {h1, h2, h3, h4}
  Cap = 2
  MaxOrder = 5
  Base = 4
  Digits = 6
  RetargetInterval = 2
  TargetTimespan = 4
  InitialBits = 152
  MinBits = 200
  MedianCount = 3
  MaxTimeFutureDrift = 3
  Times = {0, 1, 2, 3, 4, 5, 6, 7}
  MaxHeaders = 6
  Width = 6
  MaxMoneyValue = 20
  CoinbaseMaturity = 2
  InitialSubsidy = 4
  SubsidyHalvingInterval = 2
  MaxHalvings = 6
  Byte = 3
  PushBytes = 2
  MaxScriptSig = 5
  MaxBlockTxCount = 4
  MaxBlockSize = 8
  MinRelayTxFee = 2
  estimatedInputSize = 2
  estimatedOutputSize = 1
  txOverhead = 1
  DustThreshold = 1
  maxScriptSize = 5
  maxStackSize = 5
  maxOpsPerScript = 4
  MinSamples = 3
  MaxSamples = 4
  MaxAllowedOffset = 6
  Radix = 5
  Short = 1
  Middle = 2
  Long = 3
  MaxTxInputs = 3
  MaxTxOutputs = 3
  MaxScriptSize = 6
  MaxTransactions = 2
  MaxInv = 6
  MaxLocator = 6
  MaxAddresses = 3
  MaxString = 6
INVARIANTS
  CompactSound
  TargetInRange
  MinerInTime
  MembersQueued
  NoInflation
  BodyBound
  MinedBlockValid
  PaymentAdmitted
  RefusedOnlyIfShort
  OneEncoding
  OnlyOwnerSpends
  MajorityClock
PROPERTIES
  MedianAdvances
CHECK_DEADLOCK FALSE
