\* Two concurrent requests on one account: two enrollments, two batches of one recovery code, two sign-ins.
SPECIFICATION Spec
CONSTANTS
  Secret = {s1, s2}
  Code = {c1, c2}
  Challenge = {h1, h2}
  Proc = {p1, p2}
  NoSecret = NoSecret
  Counter = {1, 2}
  CodeCount = 1
SYMMETRY Symmetry
INVARIANT OneBatch
PROPERTIES SessionNeedsFactor RecoveryCodesOnce ChallengesOnce
