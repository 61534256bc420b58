SPECIFICATION Spec
CONSTANTS
  MaxTaken = 1
  MaxArrived = 1
INVARIANTS NotificationIsSeen
CHECK_DEADLOCK FALSE
