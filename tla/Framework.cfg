SPECIFICATION Spec
CONSTANTS
  robot = robot
  human = human
  r1 = r1
  r2 = r2
  pat = pat
  fresh = fresh
  rfc = rfc
  order = order
  Tasks = {main, other}
  Main = main
  Accounts = {robot, human}
  Users = {robot, human}
  Rooms = {r1, r2}
  Commands = {order}
  RfcDates = {rfc}
  Issued <- MCIssued
  Minted <- MCMinted
  Outcomes <- MCOutcomes
  Sent <- MCSent
  Handlers <- MCHandlers
  RoleAnswers <- MCRoleAnswers
  Clock = 5
  MaxRetryAfter = 2
  Dispatchers = {d1}
  None = None
  NoRoom = NoRoom
  NoMessage = NoMessage
  Unset = Unset
INVARIANTS TypeOK HandlersRunAsDeclared
PROPERTY LoneCallsAtomic
ACTION_CONSTRAINT SlotFirst
