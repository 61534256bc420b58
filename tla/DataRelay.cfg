SPECIFICATION Spec
CONSTANTS
  QUEUE_MAX = 2
  Injecting = TRUE
  FilterDrops = TRUE
  MaxReceived = 4
  MaxInjected = 1
INVARIANTS OrderPreserved NothingVanishes NoZlpFlood TransferEndPassed
PROPERTIES ContractSpec StopEndsThreads
CHECK_DEADLOCK FALSE
