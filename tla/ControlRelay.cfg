SPECIFICATION Spec
CONSTANTS
  QUEUE_MAX = 1
  Configs = {0, 1, 2}
  MaxRequests = 3
  PluggedConfigs = {1}
  MaxPlugged = 2
  MaxInjected = 1
INVARIANTS ReplyMatchesRequest ConfigSetBeforeStatus
PROPERTIES ContractSpec RequestAnswered StopEndsThreads
CHECK_DEADLOCK FALSE
