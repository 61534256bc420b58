SPECIFICATION Spec
CONSTANTS
  InNumbers = {1, 2}
  OutNumbers = {1}
  NumInterfaces = 2
  MAX_ATTEMPTS = 2
  Nice = TRUE
INVARIANTS UsesOpenHandle TransferNeedsClaim Throttled
PROPERTIES ReadsAgain
CHECK_DEADLOCK FALSE
