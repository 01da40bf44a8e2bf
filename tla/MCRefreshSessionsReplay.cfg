\* Two concurrent requests: a rotated token is replayed while its successor is rotated.
SPECIFICATION Spec
CONSTANTS
  User = {u1}
  Token = {t1, t2, t3}
  Proc = {p1, p2}
  NoRow = NoRow
  NoFilter = NoFilter
PROPERTY ReplayClosesFamily
CHECK_DEADLOCK FALSE
