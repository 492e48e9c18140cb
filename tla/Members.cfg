SPECIFICATION Spec
CONSTANTS
  u1 = u1  u2 = u2  u3 = u3  o1 = o1  o2 = o2  q1 = q1  q2 = q2
  Nobody = Nobody
  Users = {u1, u2}  Orgs = {o1, o2}  Requests = {q1, q2}
  OfferedRoles = {"owner", "admin", "viewer"}
  OfferedScopes <- TwoGrants
  MaxMemberships = 4
SYMMETRY Symmetry
INVARIANTS OneOwner ScopesFitRole StaleReadsHold
PROPERTIES WritesHitWhatTheyRead TornReadsAreSafe
