SPECIFICATION Spec
CONSTANTS
  InNumbers = {1}
  OutNumbers = {1}
  NumInterfaces = 2
  MAX_ATTEMPTS = 2
  Nice = TRUE
INVARIANTS ClaimedBeforeTransfer
CHECK_DEADLOCK FALSE
