CONSTANTS
  StreamKeys = {room}
  Ids = {1, 2, 3, 4, 5, 6}
  Supervisor = supervisor
  EventCapacity = 4
  MaxEpoch = 2
SPECIFICATION Spec
CHECK_DEADLOCK FALSE
PROPERTY IntentKept
