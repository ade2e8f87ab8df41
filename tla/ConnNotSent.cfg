SPECIFICATION Spec
CONSTANTS
  Methods = {m1}
  Subs = {}
  Login = Login
  CommandCapacity = 1
  OutboxCapacity = 1
  MaxEpoch = 1
  PriorityBound = 0
INVARIANTS
  NotSentNeverSeen
CHECK_DEADLOCK FALSE
