SPECIFICATION Spec
CONSTANTS
  NoTx = NoTx
  NoQueueIndex = NoQueueIndex
  s1 = s1
  t1 = t1
  SequencerTxs = {s1}
  Transactions = {t1}
  TimestampRefreshThreshold = 0
  DeployTimestamp = 1
  DeployBlockNumber = 1
  NoIndex = NoIndex
  NotApplying = NotApplying
  Times = {1, 2, 3}
  InitialQueue <- EmptyQueue
  InitialChain <- EmptyChain
  Faults = {"crash"}
  MaxQueue = 1
  MaxUserBlocks = 1
  MaxTip = 1
  MaxCrashes = 1
INVARIANT
  RestartSucceeds
CHECK_DEADLOCK FALSE
