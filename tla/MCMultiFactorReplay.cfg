\* Two concurrent requests that present the same TOTP code.
SPECIFICATION Spec
CONSTANTS
  Secret = {s1}
  Code = {c1, c2, c3}
  Challenge = {h1}
  Proc = {p1, p2}
  NoSecret = NoSecret
  Counter = {1, 2}
  CodeCount = 1
SYMMETRY Symmetry
INVARIANT NoCodeReplayed
