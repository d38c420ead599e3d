SPECIFICATION Spec
CONSTANTS
  BlockGaps = {1}
  MaxUint40 = 6
  MaxUint24 = 4
  NoObject = NoObject
  Transactions = {t1}
  small = small
  large = large
  SequencerTxs = {small}
  OVM_Sequencer = Sequencer
  NoTx = NoTx
  NoQueueIndex = NoQueueIndex
  TimestampRefreshThreshold = 0
  DeployTimestamp = 1
  DeployBlockNumber = 1
  NoBatch = NoBatch
  TxSize <- SmallOnly
  TxLenSize = 3
  ContextSize = 16
  ParamsSize = 15
  MaxTxSize = 75
  BlockOffset = 1
  BssHardfork1Index = 0
  Clearing = Clearing
  None = None
  ClearOptions = {FALSE, TRUE}
  NumConfirmations = 2
  ClockSkews <- Skews
  MaxQueue = 1
  MaxBlocks = 3
  MaxTimestamp = 2
  MaxRestarts = 1
INVARIANT
  TimestampsMonotone
PROPERTIES
  ReadersRebuildTheChain
  ImplementsSubmitterProtocol
CHECK_DEADLOCK FALSE
