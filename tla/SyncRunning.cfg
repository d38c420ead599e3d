SPECIFICATION FairSpec
CONSTANTS
  NoTx = NoTx
  NoQueueIndex = NoQueueIndex
  s1 = s1
  t1 = t1
  SequencerTxs = {s1}
  Transactions = {t1}
  TimestampRefreshThreshold = 0
  DeployTimestamp = 1
  DeployBlockNumber = 1
  NoIndex = NoIndex
  NotApplying = NotApplying
  Times = {1, 2, 3}
  InitialQueue <- FirstElement
  InitialChain <- QueueChain
  Faults = {"crash", "reject_sequencer"}
  MaxQueue = 3
  MaxUserBlocks = 2
  MaxTip = 2
  MaxCrashes = 2
INVARIANTS
  SyncTypeOK
  IndicesMatchChain
  QueueAppliedInOrder
PROPERTIES
  ImplementsL2Sequencer
  QueueEventuallyApplied
CHECK_DEADLOCK FALSE
