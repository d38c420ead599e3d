SPECIFICATION Spec
CONSTANTS
  Clearing = Clearing
  None = None
  ClearOptions = {FALSE, TRUE}
  NumConfirmations = 2
  MaxEmptyNonce = 2
  MaxBlocks = 3
  MaxTip = 3
  MaxRestarts = 2
INVARIANTS
  NoBatchReverts
  CleanSlate
CHECK_DEADLOCK FALSE
