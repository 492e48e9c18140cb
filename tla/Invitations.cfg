SPECIFICATION InvSpec
CONSTANTS
  u1 = u1  u2 = u2  o1 = o1  q1 = q1  c1 = c1  c2 = c2  i1 = i1
  Nobody = Nobody
  Users = {u1, u2}  Orgs = {o1}  Requests = {q1}  Calls = {c1, c2}
  OfferedRoles = {"owner", "admin", "viewer"}
  OfferedScopes <- EveryonesGrant
  MaxMemberships = 3  Lifetime = 1  InvitationIds = {i1}  MaxTime = 2
SYMMETRY Symmetry
INVARIANTS SettledOnce DeliveryTruthful OneSeat OneOwner
PROPERTIES SettledForGood
