CONSTANTS
  t1 = t1
  k1 = k1
  r1 = r1
  r2 = r2
  r3 = r3
  NoToken = NoToken
  NoInput = NoInput
  NoRecord = NoRecord
  Tokens = {t1}
  Keys = {k1}
  Reqs = {r1, r2, r3}
  TTLs = {1, 2}
  MaxTime = 2
  Holders <- MCHolders
  q1 = q1
  q2 = q2
  q3 = q3
  q4 = q4
  q5 = q5
  KeyReqs = {q1, q2, q3, q4, q5}
  Cost = 2
  Rate = 1
  Burst = 4
  MaxRequests = 2
  Window = 2
  IdleAge = 1
  LastTime = 6
SPECIFICATION GatewaySpec
SYMMETRY Symmetry
INVARIANT TypeOK
INVARIANT DeadAdmittedOnlyByOverlap
INVARIANT LimitTypeOK
INVARIANT BucketConforms
INVARIANT WindowConforms
INVARIANT FixedConforms
CHECK_DEADLOCK FALSE
