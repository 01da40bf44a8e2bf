\* Three requests at once (or three processes) of one client, a quota of two, windows of two seconds.
SPECIFICATION Spec
CONSTANTS
  Proc = {p1, p2, p3}
  Client = {c1}
  Limit = 2
  Window = 2
  Shared = Shared
  Nobody = Nobody
SYMMETRY Symmetry
INVARIANT RetryHonest
PROPERTY QuotaKept
