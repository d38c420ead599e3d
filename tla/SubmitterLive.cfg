SPECIFICATION FairSpec
CONSTANTS
  Clearing = Clearing
  None = None
  ClearOptions = {FALSE}
  NumConfirmations = 1
  Prunes = TRUE
  MaxEmptyNonce = 2
  MaxBlocks = 3
  MaxTip = 1
  MaxRestarts = 0
PROPERTIES
  SequencerBlocksPublished
  SendReturns
CHECK_DEADLOCK FALSE
