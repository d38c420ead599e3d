SPECIFICATION FairSpec
CONSTANTS
  Clearing = Clearing
  None = None
  ClearOptions = {FALSE}
  NumConfirmations = 1
  Prunes = FALSE
  MaxEmptyNonce = 2
  MaxBlocks = 2
  MaxTip = 2
  MaxRestarts = 1
PROPERTY
  SendReturns
CHECK_DEADLOCK FALSE
