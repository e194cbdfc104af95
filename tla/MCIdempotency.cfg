CONSTANTS
  b1 = b1
  r1 = r1
  r2 = r2
  r3 = r3
  Blank = Blank
  Reqs = {r1, r2, r3}
  Payloads = {b1}
  UniqueKey = TRUE
  TTL = 2
  ProcessingTTL = 1
  MaxTime = 3
SPECIFICATION Spec
SYMMETRY Symmetry
INVARIANT TypeOK
INVARIANT RecordedEffectOnce
INVARIANT FreeKeyIsHandled
CHECK_DEADLOCK FALSE
