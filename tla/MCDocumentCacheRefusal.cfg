\* As MCDocumentCache.cfg, with two documents that do not have the key.
SPECIFICATION Spec
CONSTANTS
  d1 = d1
  d2 = d2
  d3 = d3
  k1 = k1
  k2 = k2
  Proc = {p1, p2}
  Doc = {d1, d2, d3}
  Key = {k1}
  KeysOf <- TwoWithoutKeys
  Ttl = 2
  LockSeconds = 2
  WaitSeconds = 1
  Slow = 1
  Nothing = Nothing
  Bad = Bad
SYMMETRY Symmetry
PROPERTIES UnknownKeyAsksProvider
