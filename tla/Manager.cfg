SPECIFICATION Spec
CONSTANTS
  Injectors = TRUE
  Configs = {0, 1, 2}
INVARIANTS NeverStoppedInSetup RelayingWithAllThreads InjectorsJoinedFirst
PROPERTIES ReasonToStopEndsProcess LeftDuringSetupEndsProcess
CHECK_DEADLOCK FALSE
