SPECIFICATION LimiterSpec
CONSTANTS
  k1 = k1  k2 = k2  p1 = p1  p2 = p2
  Keys = {k1}  Processes = {p1, p2}  Shared = Shared
  Limit = 2  Window = 3
INVARIANTS BurstBound
PROPERTIES AdmittedAgain
