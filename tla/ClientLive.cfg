CONSTANTS
  StreamKeys = {room}
  Ids = {1, 2, 3, 4, 5, 6}
  Supervisor = supervisor
  EventCapacity = 2
  MaxEpoch = 2
SPECIFICATION FairSpec
CHECK_DEADLOCK FALSE
PROPERTY ReplayTerminates
PROPERTY StreamEnds
