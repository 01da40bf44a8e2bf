\* Two concurrent requests of any kind over three tokens of one user: a family
\* rotated twice, or two families one of which is rotated.
SPECIFICATION Spec
CONSTANTS
  User = {u1}
  Token = {t1, t2, t3}
  Proc = {p1, p2}
  NoRow = NoRow
  NoFilter = NoFilter
SYMMETRY Symmetry
INVARIANTS IndInv OneLivePerFamily RotatedOnce DeadlockMeansAccount
PROPERTIES RevocationIsFinal ResetRevokesAll SignInOnlyActive OnlyNewEscape CurrentTokenCloses ImplementsFamilies
CHECK_DEADLOCK FALSE
