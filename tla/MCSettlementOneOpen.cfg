CONSTANTS
  s1 = s1
  s2 = s2
  i1 = i1
  i2 = i2
  r1 = r1
  r2 = r2
  r3 = r3
  r4 = r4
  NoId = NoId
  Suppliers = {s1, s2}
  Ids = {i1, i2}
  Reqs = {r1, r2, r3, r4}
  Amounts = {0, 1, 2}
  Balance = 1
  MaxTime = 1
SPECIFICATION Spec
SYMMETRY Symmetry
INVARIANT OneOpenWithdrawal
CHECK_DEADLOCK FALSE
