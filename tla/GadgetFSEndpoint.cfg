SPECIFICATION Spec
CONSTANTS
  MaxTaken = 2
  MaxArrived = 2
INVARIANTS ClosedOnce TransferHasItsBuffer DeliveredAsArrived NothingLostWhileRelaying
PROPERTIES ArrivalsAreDelivered StopCompletes
CHECK_DEADLOCK FALSE
