SPECIFICATION Spec
CONSTANTS
  Methods = {m1}
  Subs = {s1}
  Login = Login
  CommandCapacity = 1
  OutboxCapacity = 1
  MaxEpoch = 2
  PriorityBound = 1
INVARIANTS
  TypeOK
  ExactClassification
  AppOnlyAfterLogin
  PendingAccounted
  
  AllSettledAtEnd
  AnswerMatches
  ConnectionInvariant
PROPERTIES
  LifecycleContract
  
CHECK_DEADLOCK FALSE
