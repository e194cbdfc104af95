CONSTANTS
  t1 = t1
  t2 = t2
  k1 = k1
  k2 = k2
  r1 = r1
  r2 = r2
  r3 = r3
  NoToken = NoToken
  NoInput = NoInput
  Tokens = {t1, t2}
  Keys = {k1, k2}
  Reqs = {r1, r2, r3}
  TTLs = {1, 2}
  MaxTime = 3
  Holders <- MCHolders
  Routes <- MCRoutes
SPECIFICATION Spec
SYMMETRY Symmetry
INVARIANT TypeOK
INVARIANT OneTokenPerKey
INVARIANT DeadTokenUnusable
INVARIANT AuditTrailRooted
PROPERTY LifecycleRefined
CHECK_DEADLOCK FALSE
