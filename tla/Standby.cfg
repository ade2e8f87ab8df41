CONSTANTS
  Waiters = {w1, w2, w3}
  Drivers = {d1, d2}
  Events = {e1, e2}
  Nothing = Nothing
  Canceled = Canceled
SPECIFICATION Spec
CHECK_DEADLOCK FALSE
PROPERTY HandsOver
SYMMETRY StandbySymmetry
