SPECIFICATION Spec
CONSTANTS
  Injectors = TRUE
  Configs = {0, 1, 2}
PROPERTIES SigtermEndsProcess
CHECK_DEADLOCK FALSE
