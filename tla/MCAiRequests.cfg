SPECIFICATION FairSpec
CONSTANTS
  u1 = u1
  u2 = u2
  a1 = a1
  a2 = a2
  user = user
  admin = admin
  Request = {u1, u2, a1, a2}
  Role = {user, admin}
  RoleOf <- MCRoleOf
  GlobalLimit = 2
  RoleLimit <- MCRoleLimit
  QueueLimit = 2
  Search = {u1}
  Chat = {a1}
  Call <- MCCall
  MaxWindow = 2
  MinRequests = 2
  Threshold = 1
  Scale = 1
  HalfOpenMax = 1
INVARIANTS
  SlotsAccounted
  NoIdleSlot
  PlacesMatchProbes
PROPERTIES
  CircuitRecovers
CHECK_DEADLOCK FALSE
