\* The sessions of one account, and accounts of one project and of two.
SPECIFICATION Spec
CONSTANTS
  pa = pa
  pb = pb
  u1 = u1
  u2 = u2
  e1 = e1
  c1 = c1
  c2 = c2
  None = None
  Setups <- EachSetup
  Namespaces = {pa, pb}
  DefaultNamespace = pa
  Uids = {u1, u2}
  Emails = {e1}
  IdTTL = 1
  RefreshTTL = 1
  Calls = {c1, c2}
  MaxTime = 1
SYMMETRY Symmetry
CHECK_DEADLOCK FALSE
INVARIANT
  SessionsHaveAccount
  EmailUnique
PROPERTY
  SessionLeavesForCause
