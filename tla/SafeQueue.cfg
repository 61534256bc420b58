SPECIFICATION Spec
CONSTANTS
  Threads = {t1, t2, t3}
  QUEUE_MAX = 2
  MaxPuts = 4
INVARIANTS TypeOK NoLostWakeup TestStillHolds
PROPERTIES ContractSpec
CHECK_DEADLOCK FALSE
