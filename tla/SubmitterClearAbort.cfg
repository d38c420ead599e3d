SPECIFICATION Spec
CONSTANTS
  Clearing = Clearing
  None = None
  ClearOptions = {TRUE}
  NumConfirmations = 2
  MaxEmptyNonce = 2
  MaxBlocks = 1
  MaxTip = 2
  MaxRestarts = 0
PROPERTY
  ClearingYieldsOnlyToOthers
CHECK_DEADLOCK FALSE
