CONSTANTS
  Tasks = {t1, t2}
  Rooms = {r1, r2}
  Ttl = 2
  FailureTtl = 1
  Timeout = 1
  MaxRooms = 1
  Global = Global
  None = None
SPECIFICATION Spec
INVARIANT DirectoryInvariant
PROPERTY GrantsAreRecent
PROPERTY InvalidationsObeyed
PROPERTY NoStampede
SYMMETRY RoleSymmetry
