SPECIFICATION Spec
CONSTANTS
  Injectors = TRUE
  Configs = {0, 1, 2}
PROPERTIES DisconnectNotificationHeeded
CHECK_DEADLOCK FALSE
