SPECIFICATION Spec
CONSTANTS
  BlockGaps = {1}
  MaxUint40 = 6
  MaxUint24 = 4
  NoObject = NoObject
  Transactions = {t1}
  small = small
  large = large
  SequencerTxs = {small, large}
  OVM_Sequencer = Sequencer
  NoTx = NoTx
  NoQueueIndex = NoQueueIndex
  TimestampRefreshThreshold = 0
  DeployTimestamp = 1
  DeployBlockNumber = 1
  NoBatch = NoBatch
  TxSize <- Sizes
  TxLenSize = 3
  ContextSize = 16
  ParamsSize = 15
  MaxTxSize = 130
  BlockOffset = 1
  BssHardfork1Index = 0
  Clearing = Clearing
  None = None
  ClearOptions = {FALSE}
  NumConfirmations = 1
  ClockSkews = {0}
  MaxQueue = 2
  MaxBlocks = 4
  MaxTimestamp = 2
  MaxRestarts = 0
INVARIANTS
  PipelineTypeOK
  FreshBatchesAccepted
PROPERTIES
  ReadersRebuildTheChain
CHECK_DEADLOCK FALSE
