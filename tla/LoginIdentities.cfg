SPECIFICATION Spec
CONSTANTS
  u1 = u1  u2 = u2  x1 = x1  x2 = x2  discord = discord  google = google
  a1 = a1  a2 = a2  a3 = a3  i1 = i1  i2 = i2  r1 = r1  r2 = r2  b1 = b1  b2 = b2
  None = None  Email = Email
  Users = {u1, u2}  Subjects = {x1, x2}  Providers = {discord, google}
  States = {a1, a2}  Ids = {i1, i2}  Requests = {r1, r2}
  Browsers = {b1}  BrowserOf <- OneBrowser
SYMMETRY Symmetry
CHECK_DEADLOCK FALSE
INVARIANTS TypeOK SubjectOwnedOnce StateUsedOnce BoundToItsStart KeepsALogin
