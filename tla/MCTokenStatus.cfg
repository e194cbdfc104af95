CONSTANTS
  t1 = t1
  r1 = r1
  r2 = r2
  v1 = v1
  Tokens = {t1}
  Reqs = {r1, r2}
  Revokers = {v1}
  TTL = 2
SPECIFICATION FairSpec
INVARIANT TypeOK
INVARIANT SweptStaysRefused
PROPERTY ProdFailsClosed
PROPERTY RevocationTakesEffect
