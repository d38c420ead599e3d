SPECIFICATION Spec
CONSTANTS
  NoTx = NoTx
  NoQueueIndex = NoQueueIndex
  s1 = s1
  t1 = t1
  SequencerTxs = {s1}
  Transactions = {t1}
  TimestampRefreshThreshold = 0
  DeployTimestamp = 1
  DeployBlockNumber = 1
  NoIndex = NoIndex
  NotApplying = NotApplying
  Times = {1, 2, 3}
  InitialQueue <- FirstElement
  InitialChain <- QueueChain
  Faults = {"reject_queue"}
  MaxQueue = 3
  MaxUserBlocks = 1
  MaxTip = 1
  MaxCrashes = 0
INVARIANT
  QueueAppliedInOrder
CHECK_DEADLOCK FALSE
