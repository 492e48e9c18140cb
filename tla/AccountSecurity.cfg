SPECIFICATION Spec
CONSTANTS
  u1 = u1  p1 = p1  p2 = p2  s1 = s1  s2 = s2  t1 = t1  t2 = t2  r1 = r1  r2 = r2
  None = None
  Users = {u1}  Passwords = {p1, p2}  Sessions = {s1}  Tokens = {t1}  Requests = {r1, r2}
  SessionLifetime = 2  RecoveryLifetime = 1  MaximumAge = 1  TouchInterval = 1
  SessionRetention = 1  RecoveryRetention = 1  MaxTime = 2
SYMMETRY Symmetry
CHECK_DEADLOCK FALSE
INVARIANTS TypeOK RecoveryClosesSessions OneResetPerToken
PROPERTIES RevokedIsFinal CleanupSparesLive
