CONSTANTS
  StreamKeys = {room, user}
  Ids = {1, 2, 3, 4, 5, 6}
  Supervisor = supervisor
  EventCapacity = 2
  MaxEpoch = 1
SPECIFICATION Spec
CHECK_DEADLOCK FALSE
INVARIANT ClientInvariant
INVARIANT IndexMatches
INVARIANT RememberedOnce
INVARIANT SnapshotKnown
INVARIANT EveryIntentAccounted
