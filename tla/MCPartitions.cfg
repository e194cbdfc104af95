CONSTANTS
  m1 = m1
  m2 = m2
  Managers = {m1, m2}
  FirstMonth = 24323
  LastMonth = 24327
  Days = {1, 28, 29, 31}
  MaxLeft = 1
SPECIFICATION Spec
SYMMETRY Symmetry
INVARIANT TypeOK
INVARIANT CoveredAhead
PROPERTY RetentionKept
CHECK_DEADLOCK FALSE
