SPECIFICATION FairSpec
CONSTANTS
  Methods = {m1}
  Subs = {s1}
  Login = Login
  CommandCapacity = 1
  OutboxCapacity = 1
  MaxEpoch = 1
  PriorityBound = 0
PROPERTIES
  CallsResolve
  ShutdownStops
  
CHECK_DEADLOCK FALSE
