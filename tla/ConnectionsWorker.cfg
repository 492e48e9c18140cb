SPECIFICATION Spec
CONSTANTS
  o1 = o1  o2 = o2  r1 = r1  r2 = r2  k1 = k1  n1 = n1  n2 = n2
  l1 = l1  l2 = l2  m1 = m1  w1 = w1
  None = None
  NoKey = NoKey
  Connections <- TwoConnections
  Orgs = {o1}  Resources = {r1, r2}  Probed = {r1}  Commandable = {r1}  Keys = {}
  Connects = {n1}  Lifecycles = {l1}  Commands = {}  Workers = {w1}
  BatchLimit = 2  MaxFaults = 2
INVARIANTS ReasonMatchesStatus
PROPERTIES DisconnectedSettles InspectedRepeatedly FollowsTable
