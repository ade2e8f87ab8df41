CONSTANTS
  Tasks = {t1, t2}
  Rooms = {r1}
  Users = {u1, u2, u3}
  Messages = {m1, m2, m3}
  Names = {first, second}
  Values = {first, second, rm}
  r1 = r1
  u1 = u1
  u2 = u2
  u3 = u3
  m1 = m1
  m2 = m2
  m3 = m3
  first = first
  second = second
  rm = rm
  None = None
  MaxOperations = 4
  Setups <- MCSetups
SPECIFICATION Spec
CHECK_DEADLOCK FALSE
INVARIANT TypeOK
INVARIANT IndexExact
INVARIANT UsersEvictable
INVARIANT RingsExact
 
PROPERTY TombstoneStrips
