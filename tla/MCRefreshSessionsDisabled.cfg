\* Two concurrent requests: an administrator disables the account while it signs in or refreshes.
SPECIFICATION Spec
CONSTANTS
  User = {u1}
  Token = {t1, t2}
  Proc = {p1, p2}
  NoRow = NoRow
  NoFilter = NoFilter
INVARIANT DisabledHasNoSession
CHECK_DEADLOCK FALSE
