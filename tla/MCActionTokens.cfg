\* Three tokens, two of them outstanding at once, and three concurrent requests
\* of any kind, beside an administrator.  No symmetry: liveness is checked.
SPECIFICATION FairSpec
CONSTANTS
  Token = {t1, t2, t3}
  Proc = {p1, p2, p3}
PROPERTIES ResetConsumesAll ResetOnlyRecoverable OnlyNewEscape TokensOnce RequestsEnd
CHECK_DEADLOCK FALSE
