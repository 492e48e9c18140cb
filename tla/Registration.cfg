SPECIFICATION Spec
CONSTANTS
  e1 = e1  e2 = e2  t1 = t1  t2 = t2  r1 = r1  r2 = r2
  None = None
  Emails = {e1, e2}  Tokens = {t1, t2}  Requests = {r1, r2}
  MaxAttempts = 3  MaxCodes = 2
SYMMETRY Symmetry
INVARIANTS OneAccountPerAddress UndeliveredStaysClosed
PROPERTIES OverForGood
