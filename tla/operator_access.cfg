SPECIFICATION Spec
CONSTANTS
  People = {a, b, n}
  Founders = {a, b}
  Requests = {r1, r2}
  MaxBegun = 3
  a = a
  b = b
  n = n
  r1 = r1
  r2 = r2
SYMMETRY Interchangeable
INVARIANT SomebodyIsAdmin
INVARIANT LedgerAgrees
INVARIANT NoRoleNoSession
PROPERTY InviteUsedOnlyOnceApplied
CHECK_DEADLOCK FALSE
