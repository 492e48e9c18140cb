SPECIFICATION ControlSpec
CONSTANTS
  r1 = r1  r2 = r2  c1 = c1  c2 = c2  c3 = c3  o1 = o1  o2 = o2
  None = None
  Orgs = {o1, o2}  Connections = {c1, c2}  Requests = {r1}
  OrgOf <- TwoOwners  PlatformOf <- DiscordAndTwitch
  EventIds = {1, 2, 3}  PageLimit = 1
  Lifetime = 1  MaxTime = 1  MaxChanges = 2
SYMMETRY Symmetry
CHECK_DEADLOCK FALSE
INVARIANTS AuditTruthful PolicyChangeIsAudited WalkShowsAll
