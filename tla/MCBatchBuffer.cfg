CONSTANTS
  a1 = a1
  a2 = a2
  a3 = a3
  a4 = a4
  f1 = f1
  c1 = c1
  c2 = c2
  Run = Run
  Nobody = Nobody
  Events = {a1, a2, a3, a4}
  Flushers = {f1}
  Closers = {c1, c2}
  BatchSize = 2
  BufferSize = 2
SPECIFICATION FairSpec
INVARIANT TypeOK
INVARIANT HandedOverOnce
INVARIANT CloseLeavesNothing
INVARIANT BufferBelowBatch
PROPERTY EventuallyHanded
PROPERTY CloseReturns
CHECK_DEADLOCK FALSE
