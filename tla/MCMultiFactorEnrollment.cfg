\* A second enrollment begins while the first one is being confirmed.
SPECIFICATION Spec
CONSTANTS
  Secret = {s1, s2}
  Code = {c1, c2}
  Challenge = {h1}
  Proc = {p1, p2}
  NoSecret = NoSecret
  Counter = {1, 2}
  CodeCount = 1
SYMMETRY Symmetry
INVARIANT EnabledIsConfirmed
