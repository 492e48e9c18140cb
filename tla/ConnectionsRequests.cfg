SPECIFICATION Spec
CONSTANTS
  o1 = o1  o2 = o2  r1 = r1  r2 = r2  k1 = k1  n1 = n1  n2 = n2
  l1 = l1  l2 = l2  m1 = m1  w1 = w1
  None = None
  NoKey = NoKey
  Connections <- TwoConnections
  Orgs = {o1, o2}  Resources = {r1}  Probed = {r1}  Commandable = {r1}  Keys = {k1}
  Connects = {n1, n2}  Lifecycles = {l1, l2}  Commands = {m1}  Workers = {}
  BatchLimit = 1  MaxFaults = 0
SYMMETRY Symmetry
INVARIANTS IdempotencyRecordsSound TenantIsolation ResourceOwnedOnce
PROPERTIES LosingRetryChangesNothing
