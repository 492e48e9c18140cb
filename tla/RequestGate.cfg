SPECIFICATION GateSpec
CONSTANTS
  r1 = r1  r2 = r2  p1 = p1  p2 = p2  s1 = s1  s2 = s2
  None = None  Shared = Shared
  Requests = {r1, r2}  Processes = {p1, p2}  Sessions = {s1, s2}
  LimiterConfigured = TRUE
  Keys <- Scopes  Limit = 1  Window = 1
SYMMETRY Symmetry
CHECK_DEADLOCK FALSE
INVARIANTS CallersWriteFromConsole OpenWritesAreCounted ActsForLiveSession
