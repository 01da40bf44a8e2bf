\* Two concurrent requests; two accounts, two identities of one provider and one
\* of another, a transaction each to sign in and to link.
SPECIFICATION Spec
CONSTANTS
  s1 = s1
  s2 = s2
  s3 = s3
  A = A
  B = B
  User = {u1, u2}
  Subject = {s1, s2, s3}
  Txn = {t1, t2}
  Proc = {p1, p2}
  Email = {e1}
  Issuer = {A, B}
  IssuerOf <- TwoProviders
  Nobody = Nobody
  NoEmail = NoEmail
  NoSubject = NoSubject
INVARIANTS IndInv SignInMethod SessionHasIdentity DeadlockMeansTwoOrders
SYMMETRY Symmetry
PROPERTIES LinkedByOwner OnlyActive TransactionsOnce
CHECK_DEADLOCK FALSE
