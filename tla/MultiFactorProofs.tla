-------------------------- MODULE MultiFactorProofs --------------------------
(***************************************************************************)
(* Proofs about MultiFactor, for any number of requests, secrets, recovery *)
(* codes and challenges.  What handlers do with stale copies of the account*)
(* cannot be helped; the proofs show what the locks on the users row, on   *)
(* the challenge and on the codes still guarantee.                         *)
(***************************************************************************)
EXTENDS MultiFactor, FiniteSetTheorems, TLAPS

LEMMA IdleTx == Idle \in Tx /\ Nothing \in User
BY DEF Idle, Tx, Nothing, User

(* The row a flush leaves behind.                                           *)
LEMMA FlushedRow ==
  ASSUME NEW seen \in User, NEW new \in User, user \in User
  PROVE  Flush(seen, new) \in User
<1>1. DOMAIN new = {"secret", "pending", "enabled", "last"}
  BY DEF User
<1>2. Flush(seen, new) = [secret  |-> IF new.secret = seen.secret THEN user.secret ELSE new.secret,
                          pending |-> IF new.pending = seen.pending THEN user.pending ELSE new.pending,
                          enabled |-> IF new.enabled = seen.enabled THEN user.enabled ELSE new.enabled,
                          last    |-> IF new.last = seen.last THEN user.last ELSE new.last]
  BY <1>1 DEF Flush
<1> QED BY <1>2 DEF User

(* Replacing the codes leaves the new ones and nothing else.                *)
LEMMA ReplacedCodes ==
  ASSUME TypeOK, NEW N \in SUBSET Code, \A c \in N : code[c] = "none", code' = Replaced(N)
  PROVE  /\ code' \in [Code -> {"none", "unused", "used", "deleted"}]
         /\ Stored' = N
         /\ \A c \in Code : code'[c] \in {"none", "unused"} => code[c] = "none"
BY DEF Replaced, Stored, TypeOK

LEMMA InitIndInv == Init => IndInv
<1> SUFFICES ASSUME Init PROVE IndInv
  OBVIOUS
<1>1. TypeOK
  BY IdleTx DEF Init, TypeOK
<1>2. LocksExclusive /\ \A p \in Proc : Knows(tx[p])
  BY DEF Init, LocksExclusive, Knows, Idle
<1>3. Unspent
  BY DEF Init, Unspent, Credential
<1>4. OneBatch
  <2>1. Stored = {}
    BY DEF Init, Stored
  <2> QED BY <2>1, FS_EmptySet, Sizes DEF OneBatch
<1> QED BY <1>1, <1>2, <1>3, <1>4 DEF IndInv

-----------------------------------------------------------------------------
(* A step of request p that respects the locks of the others.               *)
LEMMA LocksStep ==
  ASSUME TypeOK, LocksExclusive, \A q \in Proc : Knows(tx[q]),
         NEW p \in Proc, tx' \in [Proc -> Tx],
         \A q \in Proc \ {p} : tx'[q] = tx[q],
         tx'[p].pc = "locked" => UserFree(p),
         Free(p, tx'[p].held),
         Knows(tx[p])',
         user' # user => tx[p].pc = "locked",
         \A h \in Challenge \ tx[p].held : challenge[h] = "open" => challenge'[h] = "open"
  PROVE  LocksExclusive' /\ \A q \in Proc : Knows(tx[q])'
<1>1. LocksExclusive'
  BY DEF LocksExclusive, UserFree, Free
<1>2. ASSUME NEW q \in Proc, q # p PROVE Knows(tx[q])'
  <2>1. tx'[q] = tx[q] /\ Knows(tx[q]) /\ tx[q] \in Tx /\ tx[q].held \cap tx[p].held = {}
    BY <1>2 DEF TypeOK, LocksExclusive
  <2>2. tx[q].pc = "locked" => user' = user
    BY <1>2 DEF LocksExclusive
  <2>3. \A h \in tx[q].held : challenge'[h] = "open"
    BY <2>1 DEF Knows, Tx
  <2> QED BY <2>1, <2>2, <2>3 DEF Knows
<1> QED BY <1>1, <1>2

LEMMA Ended ==
  ASSUME TypeOK, LocksExclusive, \A q \in Proc : Knows(tx[q]),
         NEW p \in Proc, End(p),
         user' # user => tx[p].pc = "locked",
         \A h \in Challenge \ tx[p].held : challenge[h] = "open" => challenge'[h] = "open"
  PROVE  /\ tx' \in [Proc -> Tx]
         /\ LocksExclusive' /\ \A q \in Proc : Knows(tx[q])'
<1>1. /\ tx' \in [Proc -> Tx] /\ tx'[p] = Idle
      /\ \A q \in Proc \ {p} : tx'[q] = tx[q]
  BY IdleTx DEF TypeOK, End
<1>2. Knows(tx[p])' /\ tx'[p].pc = "idle" /\ tx'[p].held = {}
  BY <1>1 DEF Knows, Idle
<1>3. Free(p, tx'[p].held)
  BY <1>2 DEF Free
<1> QED BY <1>1, <1>2, <1>3, LocksStep

(* Accepting credentials none of which was accepted before.                 *)
LEMMA Accepted ==
  ASSUME TypeOK, NEW X \in SUBSET Credential, Accept(X)
  PROVE  /\ uses' \in [Credential -> 0..2]
         /\ \A x \in Credential : x \notin X => uses'[x] = uses[x]
         /\ \A x \in X : uses[x] = 0 => uses'[x] = 1
BY DEF Accept, TypeOK
(* Accepting credentials that are usable, and are not afterwards.           *)
LEMMA Spent ==
  ASSUME TypeOK, Unspent, NEW X \in SUBSET Credential,
         uses' \in [Credential -> 0..2],
         \A x \in Credential : x \notin X => uses'[x] = uses[x],
         \A x \in X : uses[x] = 0 => uses'[x] = 1,
         \A c \in Code : code'[c] \in {"none", "unused"} =>
                            c \notin X /\ code[c] \in {"none", "unused"},
         \A c \in X \cap Code : code[c] \in {"none", "unused"},
         \A h \in Challenge : challenge'[h] # "consumed" =>
                                 h \notin X /\ challenge[h] # "consumed",
         \A h \in X \cap Challenge : challenge[h] # "consumed"
  PROVE  Unspent'
<1>1. ASSUME NEW c \in Code
      PROVE  uses'[c] =< 1 /\ (code'[c] \in {"none", "unused"} => uses'[c] = 0)
  BY <1>1 DEF Unspent, Credential
<1>2. ASSUME NEW h \in Challenge
      PROVE  uses'[h] =< 1 /\ (challenge'[h] # "consumed" => uses'[h] = 0)
  BY <1>2 DEF Unspent, Credential
<1> QED BY <1>1, <1>2 DEF Unspent

(* The same number of stored codes, none, or a new batch.                   *)
LEMMA SameBatch ==
  ASSUME OneBatch, Stored' = Stored \/ Stored' = {} \/ Cardinality(Stored') = CodeCount
  PROVE  OneBatch'
BY FS_EmptySet, Sizes DEF OneBatch

(* An action that leaves the codes and what was accepted alone.             *)
LEMMA NothingSpent ==
  ASSUME TypeOK, Unspent, OneBatch, UNCHANGED <<code, uses>>,
         \A h \in Challenge : challenge'[h] # "consumed" => challenge[h] # "consumed"
  PROVE  Unspent' /\ OneBatch'
BY DEF Unspent, OneBatch, Stored

(* The credential of a TOTP code is no recovery code and no challenge.      *)
LEMMA TotpKind ==
  ASSUME NEW s \in Secret, NEW n \in Counter
  PROVE  /\ <<s, n>> \in Totp /\ <<s, n>> \in Credential
         /\ <<s, n>> \notin Code /\ <<s, n>> \notin Challenge
BY Kinds DEF Totp, Credential

-----------------------------------------------------------------------------
(* The handlers that only wait, read or give up.                            *)
LEMMA CallStep ==
  ASSUME IndInv, NEW p \in Proc, NEW op \in {"begin", "confirm", "regenerate", "disable"},
         Call(p, op)
  PROVE  IndInv'
<1> USE DEF IndInv
<1>1. /\ tx' \in [Proc -> Tx] /\ tx'[p] = [Idle EXCEPT !.pc = "lock", !.op = op, !.seen = user]
      /\ \A q \in Proc \ {p} : tx'[q] = tx[q]
  BY IdleTx DEF Call, TypeOK, Tx
<1>2. tx'[p].pc = "lock" /\ tx'[p].op = op /\ tx'[p].held = {}
  BY <1>1 DEF Idle
<1>3. LocksExclusive' /\ \A q \in Proc : Knows(tx[q])'
  BY <1>1, <1>2, LocksStep DEF Knows, Free, Call
<1>4. TypeOK'
  BY <1>1 DEF Call, TypeOK
<1> QED BY <1>3, <1>4, NothingSpent DEF Call

LEMMA LockUserStep ==
  ASSUME IndInv, NEW p \in Proc, LockUser(p)
  PROVE  IndInv'
<1> USE DEF IndInv
<1>1. tx[p] \in Tx /\ user \in User
  BY DEF TypeOK
<1>2. /\ tx' \in [Proc -> Tx]
      /\ tx'[p] = [tx[p] EXCEPT !.pc = "locked",
                                !.seen = IF tx[p].op = "verify" THEN user ELSE @]
      /\ \A q \in Proc \ {p} : tx'[q] = tx[q]
  BY <1>1 DEF LockUser, TypeOK, Tx
<1>3. /\ tx'[p].pc = "locked" /\ tx'[p].op = tx[p].op /\ tx'[p].held = tx[p].held
      /\ tx'[p].op = "verify" => tx'[p].seen = user
  BY <1>1, <1>2 DEF Tx
<1>4. Knows(tx[p])' /\ Free(p, tx'[p].held)
  <2>1. user' = user /\ challenge' = challenge /\ tx[p].pc = "lock" /\ Knows(tx[p])
    BY DEF LockUser
  <2>2. Knows(tx[p])'
    BY <1>3, <2>1 DEF Knows
  <2>3. Free(p, tx'[p].held)
    BY <1>3 DEF Free, LocksExclusive
  <2> QED BY <2>2, <2>3
<1>5. LocksExclusive' /\ \A q \in Proc : Knows(tx[q])'
  BY <1>2, <1>3, <1>4, LocksStep DEF LockUser
<1>6. TypeOK'
  BY <1>2 DEF LockUser, TypeOK
<1> QED BY <1>5, <1>6, NothingSpent DEF LockUser

LEMMA LoginStep ==
  ASSUME IndInv, NEW p \in Proc, Login(p)
  PROVE  IndInv'
<1> USE DEF IndInv
<1>1. /\ tx' \in [Proc -> Tx] /\ tx'[p] = [Idle EXCEPT !.pc = "scan", !.op = "issue"]
      /\ \A q \in Proc \ {p} : tx'[q] = tx[q]
  BY IdleTx DEF Login, TypeOK, Tx
<1>2. tx'[p].pc = "scan" /\ tx'[p].op = "issue" /\ tx'[p].held = {}
  BY <1>1 DEF Idle
<1>3. LocksExclusive' /\ \A q \in Proc : Knows(tx[q])'
  BY <1>1, <1>2, LocksStep DEF Knows, Free, Login
<1>4. TypeOK'
  BY <1>1 DEF Login, TypeOK
<1> QED BY <1>3, <1>4, NothingSpent DEF Login

LEMMA ScanStep ==
  ASSUME IndInv, NEW p \in Proc, Scan(p)
  PROVE  IndInv'
<1> USE DEF IndInv
<1>1. tx[p] \in Tx
  BY DEF TypeOK
<1>2. /\ tx' \in [Proc -> Tx]
      /\ tx'[p] = [tx[p] EXCEPT !.pc = "withdraw", !.todo = {h \in Challenge : challenge[h] = "open"}]
      /\ \A q \in Proc \ {p} : tx'[q] = tx[q]
  BY <1>1 DEF Scan, TypeOK, Tx
<1>3. tx'[p].pc = "withdraw" /\ tx'[p].op = tx[p].op /\ tx'[p].held = tx[p].held
  BY <1>1, <1>2 DEF Tx
<1>4. Knows(tx[p])' /\ Free(p, tx'[p].held)
  BY <1>3 DEF Knows, Free, Scan, LocksExclusive
<1>5. LocksExclusive' /\ \A q \in Proc : Knows(tx[q])'
  BY <1>2, <1>3, <1>4, LocksStep DEF Scan
<1>6. TypeOK'
  BY <1>2 DEF Scan, TypeOK
<1> QED BY <1>5, <1>6, NothingSpent DEF Scan

LEMMA WithdrawStep ==
  ASSUME IndInv, NEW p \in Proc, Withdraw(p)
  PROVE  IndInv'
<1> USE DEF IndInv
<1>1. tx[p] \in Tx
  BY DEF TypeOK
<1>2. /\ tx' \in [Proc -> Tx]
      /\ tx'[p] = [tx[p] EXCEPT !.pc = "insert", !.todo = {},
                                !.held = {h \in tx[p].todo : challenge[h] = "open"}]
      /\ \A q \in Proc \ {p} : tx'[q] = tx[q]
  BY <1>1 DEF Withdraw, TypeOK, Tx
<1>3. /\ tx'[p].pc = "insert" /\ tx'[p].op = tx[p].op
      /\ tx'[p].held = {h \in tx[p].todo : challenge[h] = "open"}
  BY <1>1, <1>2 DEF Tx
<1>4. tx[p].op # "verify"
  BY DEF Knows, Withdraw
<1>5. Knows(tx[p])' /\ Free(p, tx'[p].held)
  BY <1>3, <1>4 DEF Knows, Free, Withdraw
<1>6. LocksExclusive' /\ \A q \in Proc : Knows(tx[q])'
  BY <1>2, <1>3, <1>5, LocksStep DEF Withdraw
<1>7. TypeOK'
  BY <1>2 DEF Withdraw, TypeOK
<1> QED BY <1>6, <1>7, NothingSpent DEF Withdraw

LEMMA PresentStep ==
  ASSUME IndInv, NEW p \in Proc, NEW h \in Challenge, Present(p, h)
  PROVE  IndInv'
<1> USE DEF IndInv
<1>1. /\ tx' \in [Proc -> Tx]
      /\ tx'[p] = [Idle EXCEPT !.pc = "lock", !.op = "verify", !.held = {h}]
      /\ \A q \in Proc \ {p} : tx'[q] = tx[q]
  BY IdleTx DEF Present, TypeOK, Tx
<1>2. tx'[p].pc = "lock" /\ tx'[p].op = "verify" /\ tx'[p].held = {h}
  BY <1>1 DEF Idle
<1>3. LocksExclusive' /\ \A q \in Proc : Knows(tx[q])'
  <2>1. user' = user /\ challenge' = challenge /\ challenge[h] = "open" /\ Free(p, {h})
    BY DEF Present
  <2>2. Knows(tx[p])'
    BY <1>2, <2>1 DEF Knows
  <2> QED BY <1>1, <1>2, <2>1, <2>2, LocksStep
<1>4. TypeOK'
  BY <1>1 DEF Present, TypeOK
<1> QED BY <1>3, <1>4, NothingSpent DEF Present

LEMMA RollbackStep ==
  ASSUME IndInv, NEW p \in Proc, Rollback(p)
  PROVE  IndInv'
<1> USE DEF IndInv
<1>1. tx' \in [Proc -> Tx] /\ LocksExclusive' /\ \A q \in Proc : Knows(tx[q])'
  BY Ended DEF Rollback
<1>2. TypeOK'
  BY <1>1 DEF Rollback, TypeOK
<1> QED BY <1>1, <1>2, NothingSpent DEF Rollback

-----------------------------------------------------------------------------
(* The handlers' last steps, up to the commit.                              *)
LEMMA BeginEnrollmentStep ==
  ASSUME IndInv, NEW p \in Proc, NEW s \in Secret, BeginEnrollment(p, s)
  PROVE  IndInv'
<1> USE DEF IndInv
<1>1. /\ tx' \in [Proc -> Tx] /\ LocksExclusive' /\ \A q \in Proc : Knows(tx[q])'
  BY Ended DEF BeginEnrollment, Locked
<1>2. user' \in User
  <2>1. tx[p].seen \in User /\ user \in User
    BY DEF TypeOK, Tx
  <2>2. [tx[p].seen EXCEPT !.secret = s, !.last = 0] \in User
    BY <2>1 DEF User
  <2>3. Flush(tx[p].seen, [tx[p].seen EXCEPT !.secret = s, !.last = 0]) \in User
    BY <2>1, <2>2, FlushedRow
  <2> QED BY <2>3 DEF BeginEnrollment, User
<1>3. /\ code' \in [Code -> {"none", "unused", "used", "deleted"}] /\ Stored' = {}
      /\ \A c \in Code : code'[c] \in {"none", "unused"} => code[c] = "none"
  BY ReplacedCodes DEF BeginEnrollment
<1>4. TypeOK'
  BY <1>1, <1>2, <1>3 DEF BeginEnrollment, TypeOK
<1>5. Unspent'
  BY <1>3 DEF BeginEnrollment, Unspent
<1> QED BY <1>1, <1>3, <1>4, <1>5, SameBatch

LEMMA ConfirmEnrollmentStep ==
  ASSUME IndInv, NEW p \in Proc, NEW n \in Counter, NEW N \in SUBSET Code,
         ConfirmEnrollment(p, n, N)
  PROVE  IndInv'
<1> USE DEF IndInv
<1> DEFINE s == tx[p].seen.secret
<1>1. /\ tx' \in [Proc -> Tx] /\ LocksExclusive' /\ \A q \in Proc : Knows(tx[q])'
  BY Ended DEF ConfirmEnrollment, Locked
<1>2. tx[p].seen \in User /\ user \in User /\ s \in Secret
  BY DEF TypeOK, Tx, User, ConfirmEnrollment, Matches
<1>3. user' \in User
  <2>1. [tx[p].seen EXCEPT !.enabled = TRUE, !.pending = FALSE, !.last = n] \in User
    BY <1>2 DEF User
  <2> QED BY <1>2, <2>1, FlushedRow DEF ConfirmEnrollment
<1>4. /\ code' \in [Code -> {"none", "unused", "used", "deleted"}] /\ Stored' = N
      /\ \A c \in Code : code'[c] \in {"none", "unused"} => code[c] = "none"
  BY ReplacedCodes DEF ConfirmEnrollment, Fresh
<1>5. /\ uses' \in [Credential -> 0..2]
      /\ \A x \in Code \cup Challenge : uses'[x] = uses[x]
  <2>1. {<<s, n>>} \in SUBSET Credential /\ Accept({<<s, n>>})
    BY <1>2, TotpKind DEF ConfirmEnrollment
  <2> QED BY <1>2, <2>1, Accepted, TotpKind DEF Credential
<1>6. TypeOK'
  BY <1>1, <1>2, <1>3, <1>4, <1>5 DEF ConfirmEnrollment, TypeOK
<1>7. Unspent'
  BY <1>4, <1>5 DEF ConfirmEnrollment, Unspent
<1>8. OneBatch'
  BY <1>4, SameBatch DEF ConfirmEnrollment, Fresh
<1> QED BY <1>1, <1>6, <1>7, <1>8

LEMMA RegenerateCodesStep ==
  ASSUME IndInv, NEW p \in Proc, NEW n \in Counter, NEW N \in SUBSET Code,
         RegenerateCodes(p, n, N)
  PROVE  IndInv'
<1> USE DEF IndInv
<1> DEFINE s == tx[p].seen.secret
<1>1. /\ tx' \in [Proc -> Tx] /\ LocksExclusive' /\ \A q \in Proc : Knows(tx[q])'
  BY Ended DEF RegenerateCodes, Locked
<1>2. tx[p].seen \in User /\ user \in User /\ s \in Secret
  BY DEF TypeOK, Tx, User, RegenerateCodes, Matches
<1>3. user' \in User
  <2>1. [tx[p].seen EXCEPT !.last = n] \in User
    BY <1>2 DEF User
  <2> QED BY <1>2, <2>1, FlushedRow DEF RegenerateCodes
<1>4. /\ code' \in [Code -> {"none", "unused", "used", "deleted"}] /\ Stored' = N
      /\ \A c \in Code : code'[c] \in {"none", "unused"} => code[c] = "none"
  BY ReplacedCodes DEF RegenerateCodes, Fresh
<1>5. /\ uses' \in [Credential -> 0..2]
      /\ \A x \in Code \cup Challenge : uses'[x] = uses[x]
  <2>1. {<<s, n>>} \in SUBSET Credential /\ Accept({<<s, n>>})
    BY <1>2, TotpKind DEF RegenerateCodes
  <2> QED BY <1>2, <2>1, Accepted, TotpKind DEF Credential
<1>6. TypeOK'
  BY <1>1, <1>3, <1>4, <1>5 DEF RegenerateCodes, TypeOK
<1>7. Unspent'
  BY <1>4, <1>5 DEF RegenerateCodes, Unspent
<1>8. OneBatch'
  BY <1>4, SameBatch DEF RegenerateCodes, Fresh
<1> QED BY <1>1, <1>6, <1>7, <1>8

LEMMA DisableStep ==
  ASSUME IndInv, NEW p \in Proc, Disable(p)
  PROVE  IndInv'
<1> USE DEF IndInv
<1> DEFINE s == tx[p].seen.secret
<1>1. /\ tx' \in [Proc -> Tx] /\ LocksExclusive' /\ \A q \in Proc : Knows(tx[q])'
  BY Ended DEF Disable, Locked
<1>2. tx[p].seen \in User /\ user \in User
  BY DEF TypeOK, Tx
<1>3. user' \in User
  BY <1>2, IdleTx, FlushedRow DEF Disable
<1>4. /\ code' \in [Code -> {"none", "unused", "used", "deleted"}] /\ Stored' = {}
      /\ \A c \in Code : code'[c] \in {"none", "unused"} => code[c] = "none"
  BY ReplacedCodes DEF Disable
<1>5. PICK x \in Credential : /\ Accept({x})
                              /\ \/ x \notin Code \cup Challenge
                                 \/ x \in Code /\ x \notin Challenge /\ code[x] = "unused"
  <2>1. CASE \E n \in Counter : Matches(p, n) /\ Accept({<<s, n>>})
    <3>1. PICK n \in Counter : Matches(p, n) /\ Accept({<<s, n>>})
      BY <2>1
    <3>2. s \in Secret
      BY <1>2, <3>1 DEF Matches, User
    <3> QED BY <3>1, <3>2, TotpKind
  <2>2. CASE \E c \in Code : code[c] = "unused" /\ Accept({c})
    BY <2>2, Kinds DEF Credential
  <2> QED BY <2>1, <2>2 DEF Disable
<1>6. /\ uses' \in [Credential -> 0..2]
      /\ \A y \in Credential : y # x => uses'[y] = uses[y]
      /\ uses[x] = 0 => uses'[x] = 1
  BY <1>5, Accepted
<1>7. TypeOK'
  BY <1>1, <1>3, <1>4, <1>6 DEF Disable, TypeOK
<1>8. Unspent'
  <2>1. ASSUME NEW c \in Code
        PROVE  (uses'[c] =< 1 /\ code'[c] \notin {"none", "unused"}) \/ uses'[c] = 0
    BY <1>4, <1>5, <1>6 DEF Unspent, Credential
  <2>2. ASSUME NEW h \in Challenge
        PROVE  uses'[h] = uses[h] /\ challenge'[h] = challenge[h]
    BY <1>5, <1>6 DEF Credential, Disable
  <2> QED BY <2>1, <2>2 DEF Unspent
<1>9. OneBatch'
  BY <1>4, SameBatch
<1> QED BY <1>1, <1>7, <1>8, <1>9

LEMMA IssueChallengeStep ==
  ASSUME IndInv, NEW p \in Proc, NEW h \in Challenge, IssueChallenge(p, h)
  PROVE  IndInv'
<1> USE DEF IndInv
<1>1. \A g \in Challenge : /\ challenge[g] = "open" /\ g \notin tx[p].held => challenge'[g] = "open"
                           /\ challenge'[g] # "consumed" => challenge[g] # "consumed"
                           /\ challenge'[g] \in {"none", "open", "consumed"}
  BY DEF IssueChallenge, TypeOK
<1>2. /\ tx' \in [Proc -> Tx] /\ LocksExclusive' /\ \A q \in Proc : Knows(tx[q])'
  BY <1>1, Ended DEF IssueChallenge
<1>3. TypeOK'
  BY <1>2 DEF IssueChallenge, TypeOK
<1> QED BY <1>1, <1>2, <1>3, NothingSpent DEF IssueChallenge

(* What the owner of a challenge holds when it verifies a code.             *)
LEMMA Verifier ==
  ASSUME IndInv, NEW p \in Proc, Locked(p, "verify")
  PROVE  /\ tx[p].seen = user
         /\ \E h \in Challenge : tx[p].held = {h} /\ challenge[h] = "open" /\ uses[h] = 0
BY DEF IndInv, Locked, Knows, Unspent

LEMMA VerifyTotpStep ==
  ASSUME IndInv, NEW p \in Proc, NEW n \in Counter, VerifyTotp(p, n)
  PROVE  IndInv'
<1> USE DEF IndInv
<1> DEFINE s == tx[p].seen.secret
           X == tx[p].held \cup {<<s, n>>}
<1>1. /\ tx' \in [Proc -> Tx] /\ LocksExclusive' /\ \A q \in Proc : Knows(tx[q])'
  BY Ended DEF VerifyTotp, Locked, Consumed
<1>2. tx[p].seen \in User /\ user \in User /\ s \in Secret
  BY DEF TypeOK, Tx, User, VerifyTotp, Matches
<1>3. user' \in User
  <2>1. [tx[p].seen EXCEPT !.last = n] \in User
    BY <1>2 DEF User
  <2> QED BY <1>2, <2>1, FlushedRow DEF VerifyTotp
<1>4. PICK h \in Challenge : tx[p].held = {h} /\ challenge[h] = "open" /\ uses[h] = 0
  BY Verifier DEF VerifyTotp
<1>5. X \in SUBSET Credential /\ Accept(X) /\ X = {h, <<s, n>>}
  BY <1>2, <1>4, TotpKind DEF VerifyTotp, Credential
<1>6. /\ uses' \in [Credential -> 0..2]
      /\ \A x \in Credential : x \notin X => uses'[x] = uses[x]
      /\ \A x \in X : uses[x] = 0 => uses'[x] = 1
  BY <1>5, Accepted
<1>7. \A g \in Challenge : challenge'[g] = IF g = h THEN "consumed" ELSE challenge[g]
  BY <1>4 DEF VerifyTotp, Consumed
<1>8. TypeOK'
  <2>1. challenge' \in [Challenge -> {"none", "open", "consumed"}]
    BY DEF VerifyTotp, Consumed, TypeOK
  <2> QED BY <1>1, <1>3, <1>6, <2>1 DEF VerifyTotp, TypeOK
<1>9. Unspent'
  <2>1. h \notin Code /\ <<s, n>> \notin Code \cup Challenge
    BY <1>2, TotpKind, Kinds
  <2>2. \A c \in Code : uses'[c] = uses[c] /\ code'[c] = code[c]
    BY <1>5, <1>6, <2>1 DEF Credential, VerifyTotp
  <2>3. \A g \in Challenge : uses'[g] = IF g = h THEN 1 ELSE uses[g]
    BY <1>4, <1>5, <1>6, <2>1 DEF Credential
  <2> QED BY <1>4, <1>7, <2>2, <2>3 DEF Unspent
<1>10. OneBatch'
  BY DEF OneBatch, Stored, VerifyTotp
<1> QED BY <1>1, <1>8, <1>9, <1>10

LEMMA VerifyRecoveryStep ==
  ASSUME IndInv, NEW p \in Proc, NEW c \in Code, VerifyRecovery(p, c)
  PROVE  IndInv'
<1> USE DEF IndInv
<1>1. /\ tx' \in [Proc -> Tx] /\ LocksExclusive' /\ \A q \in Proc : Knows(tx[q])'
  BY Ended DEF VerifyRecovery, Locked, Consumed
<1>2. PICK h \in Challenge : tx[p].held = {h} /\ challenge[h] = "open" /\ uses[h] = 0
  BY Verifier DEF VerifyRecovery
<1>3. {h, c} \in SUBSET Credential /\ Accept({h, c}) /\ h # c
  BY <1>2, Kinds DEF VerifyRecovery, Credential
<1>4. /\ uses' \in [Credential -> 0..2]
      /\ \A x \in Credential : x \notin {h, c} => uses'[x] = uses[x]
      /\ \A x \in {h, c} : uses[x] = 0 => uses'[x] = 1
  BY <1>3, Accepted
<1>5. /\ \A g \in Challenge : challenge'[g] = IF g = h THEN "consumed" ELSE challenge[g]
      /\ \A d \in Code : code'[d] = IF d = c THEN "used" ELSE code[d]
      /\ code[c] = "unused"
  BY <1>2 DEF VerifyRecovery, Consumed, TypeOK
<1>6. TypeOK'
  <2>1. challenge' \in [Challenge -> {"none", "open", "consumed"}]
    BY DEF VerifyRecovery, Consumed, TypeOK
  <2> QED BY <1>1, <1>4, <2>1 DEF VerifyRecovery, TypeOK
<1>7. Unspent'
  <2>1. \A d \in Code : uses'[d] = IF d = c THEN 1 ELSE uses[d]
    BY <1>4, <1>5, Kinds DEF Credential, Unspent
  <2>2. \A g \in Challenge : uses'[g] = IF g = h THEN 1 ELSE uses[g]
    BY <1>2, <1>4, Kinds DEF Credential
  <2> QED BY <1>5, <2>1, <2>2 DEF Unspent
<1>8. OneBatch'
  <2>1. Stored' = Stored
    BY <1>5 DEF Stored
  <2> QED BY <2>1, SameBatch
<1> QED BY <1>1, <1>6, <1>7, <1>8

LEMMA Next_IndInv == IndInv /\ [Next]_vars => IndInv'
<1> SUFFICES ASSUME IndInv, [Next]_vars PROVE IndInv'
  OBVIOUS
<1>1. CASE UNCHANGED vars
  BY <1>1 DEF vars, IndInv, TypeOK, LocksExclusive, Knows, Unspent, OneBatch, Stored
<1>2. ASSUME NEW p \in Proc,
             \/ \E op \in {"begin", "confirm", "regenerate", "disable"} : Call(p, op)
             \/ LockUser(p) \/ Disable(p) \/ Login(p) \/ Scan(p) \/ Withdraw(p) \/ Rollback(p)
      PROVE  IndInv'
  BY <1>2, CallStep, LockUserStep, DisableStep, LoginStep, ScanStep, WithdrawStep, RollbackStep
<1>3. ASSUME NEW p \in Proc, NEW s \in Secret, BeginEnrollment(p, s) PROVE IndInv'
  BY <1>3, BeginEnrollmentStep
<1>4. ASSUME NEW p \in Proc, NEW n \in Counter,
             \/ VerifyTotp(p, n)
             \/ \E N \in SUBSET Code : ConfirmEnrollment(p, n, N) \/ RegenerateCodes(p, n, N)
      PROVE  IndInv'
  BY <1>4, VerifyTotpStep, ConfirmEnrollmentStep, RegenerateCodesStep
<1>5. ASSUME NEW p \in Proc, NEW h \in Challenge, IssueChallenge(p, h) \/ Present(p, h)
      PROVE  IndInv'
  BY <1>5, IssueChallengeStep, PresentStep
<1>6. ASSUME NEW p \in Proc, NEW c \in Code, VerifyRecovery(p, c) PROVE IndInv'
  BY <1>6, VerifyRecoveryStep
<1> QED BY <1>1, <1>2, <1>3, <1>4, <1>5, <1>6 DEF Next

(* Locks exclude each other, what is held is open, what is spent was spent  *)
(* once, and one batch of codes is stored: in every reachable state.        *)
THEOREM Invariance == Spec => []IndInv
BY InitIndInv, Next_IndInv, PTL DEF Spec

(* However stale the copies the handlers act on, at most one batch of       *)
(* recovery codes is stored.                                                *)
THEOREM OneStoredBatch == Spec => []OneBatch
<1>1. IndInv => OneBatch
  BY DEF IndInv
<1> QED BY <1>1, Invariance, PTL

-----------------------------------------------------------------------------
(* Which steps accept what.                                                 *)
Waits(p) ==
  \/ \E op \in {"begin", "confirm", "regenerate", "disable"} : Call(p, op)
  \/ LockUser(p) \/ Login(p) \/ Scan(p) \/ Withdraw(p) \/ Rollback(p)
  \/ \E h \in Challenge : Present(p, h)

LEMMA WaitsKeep ==
  ASSUME NEW p \in Proc, Waits(p)
  PROVE  UNCHANGED <<code, challenge, uses>>
BY DEF Waits, Call, LockUser, Login, Scan, Withdraw, Rollback, Present

LEMMA StepCases ==
  ASSUME Next
  PROVE  \E p \in Proc :
           \/ Waits(p)
           \/ \E s \in Secret : BeginEnrollment(p, s)
           \/ \E n \in Counter, N \in SUBSET Code : ConfirmEnrollment(p, n, N) \/ RegenerateCodes(p, n, N)
           \/ Disable(p)
           \/ \E h \in Challenge : IssueChallenge(p, h)
           \/ \E n \in Counter : VerifyTotp(p, n)
           \/ \E c \in Code : VerifyRecovery(p, c)
BY DEF Next, Waits

(* The handlers behind a bearer token accept a TOTP code or one recovery    *)
(* code, and never a challenge.                                             *)
LEMMA TotpAccepted ==
  ASSUME IndInv, NEW p \in Proc, NEW n \in Counter, Matches(p, n),
         Accept({<<tx[p].seen.secret, n>>})
  PROVE  \A x \in Code \cup Challenge : uses'[x] = uses[x]
<1>1. tx[p].seen.secret \in Secret
  BY DEF IndInv, TypeOK, Tx, User, Matches
<1>2. {<<tx[p].seen.secret, n>>} \in SUBSET Credential
  BY <1>1, TotpKind
<1> QED BY <1>1, <1>2, Accepted, TotpKind DEF IndInv, Credential

LEMMA CodeAccepted ==
  ASSUME IndInv, NEW c \in Code, code[c] = "unused", Accept({c})
  PROVE  /\ \A d \in Code : uses'[d] = IF d = c THEN 1 ELSE uses[d]
         /\ \A h \in Challenge : uses'[h] = uses[h]
<1>1. {c} \in SUBSET Credential /\ uses[c] = 0 /\ c \notin Challenge
  BY Kinds DEF Credential, IndInv, Unspent
<1> QED BY <1>1, Accepted DEF IndInv, Credential

LEMMA TotpVerified ==
  ASSUME IndInv, NEW p \in Proc, NEW n \in Counter, VerifyTotp(p, n)
  PROVE  /\ \A c \in Code : uses'[c] = uses[c]
         /\ \E h \in Challenge :
              /\ challenge[h] = "open" /\ uses[h] = 0
              /\ \A g \in Challenge : /\ uses'[g] = IF g = h THEN 1 ELSE uses[g]
                                      /\ challenge'[g] = IF g = h THEN "consumed" ELSE challenge[g]
<1> DEFINE s == tx[p].seen.secret
<1>1. s \in Secret
  BY DEF IndInv, TypeOK, Tx, User, VerifyTotp, Matches
<1>2. PICK h \in Challenge : tx[p].held = {h} /\ challenge[h] = "open" /\ uses[h] = 0
  BY Verifier DEF VerifyTotp
<1>3. tx[p].held \cup {<<s, n>>} = {h, <<s, n>>} /\ {h, <<s, n>>} \in SUBSET Credential
  BY <1>1, <1>2, TotpKind DEF Credential
<1>4. /\ \A x \in Credential : x \notin {h, <<s, n>>} => uses'[x] = uses[x]
      /\ \A x \in {h, <<s, n>>} : uses[x] = 0 => uses'[x] = 1
  BY <1>3, Accepted DEF VerifyTotp, IndInv
<1>5. h \notin Code /\ <<s, n>> \notin Code \cup Challenge
  BY <1>1, TotpKind, Kinds
<1>6. \A c \in Code : uses'[c] = uses[c]
  BY <1>4, <1>5 DEF Credential
<1>7. \A g \in Challenge : /\ uses'[g] = IF g = h THEN 1 ELSE uses[g]
                           /\ challenge'[g] = IF g = h THEN "consumed" ELSE challenge[g]
  BY <1>2, <1>4, <1>5 DEF Credential, VerifyTotp, Consumed
<1> QED BY <1>2, <1>6, <1>7

LEMMA RecoveryVerified ==
  ASSUME IndInv, NEW p \in Proc, NEW c \in Code, VerifyRecovery(p, c)
  PROVE  /\ code[c] = "unused"
         /\ \A d \in Code : /\ uses'[d] = IF d = c THEN 1 ELSE uses[d]
                            /\ code'[d] = IF d = c THEN "used" ELSE code[d]
         /\ \E h \in Challenge :
              /\ challenge[h] = "open" /\ uses[h] = 0
              /\ \A g \in Challenge : /\ uses'[g] = IF g = h THEN 1 ELSE uses[g]
                                      /\ challenge'[g] = IF g = h THEN "consumed" ELSE challenge[g]
<1>1. PICK h \in Challenge : tx[p].held = {h} /\ challenge[h] = "open" /\ uses[h] = 0
  BY Verifier DEF VerifyRecovery
<1>2. {h, c} \in SUBSET Credential /\ Accept({h, c}) /\ h \notin Code /\ c \notin Challenge
  BY <1>1, Kinds DEF VerifyRecovery, Credential
<1>3. /\ \A x \in Credential : x \notin {h, c} => uses'[x] = uses[x]
      /\ \A x \in {h, c} : uses[x] = 0 => uses'[x] = 1
  BY <1>2, Accepted DEF IndInv
<1>4. code[c] = "unused" /\ uses[c] = 0
  BY DEF VerifyRecovery, IndInv, Unspent
<1>5. \A d \in Code : /\ uses'[d] = IF d = c THEN 1 ELSE uses[d]
                      /\ code'[d] = IF d = c THEN "used" ELSE code[d]
  BY <1>2, <1>3, <1>4 DEF Credential, VerifyRecovery, IndInv, TypeOK
<1>6. \A g \in Challenge : /\ uses'[g] = IF g = h THEN 1 ELSE uses[g]
                           /\ challenge'[g] = IF g = h THEN "consumed" ELSE challenge[g]
  BY <1>1, <1>2, <1>3 DEF Credential, VerifyRecovery, Consumed
<1> QED BY <1>1, <1>4, <1>5, <1>6

-----------------------------------------------------------------------------
(* No session without a factor that is valid when the session is opened:    *)
(* verify_mfa_login_challenge, whatever the other handlers do meanwhile.    *)
THEOREM FactorPerSession == Spec => SessionNeedsFactor
<1> DEFINE Factor(h) ==
      uses'[h] # uses[h] =>
        /\ user.enabled
        /\ \/ user.secret # NoSecret /\ user'.last > user.last
           \/ \E c \in Code : code[c] = "unused" /\ code'[c] = "used"
<1>1. IndInv /\ [Next]_vars => [\A h \in Challenge : Factor(h)]_vars
  <2> SUFFICES ASSUME IndInv, Next, NEW h \in Challenge PROVE Factor(h)
    OBVIOUS
  <2>1. PICK p \in Proc :
          \/ Waits(p)
          \/ \E s \in Secret : BeginEnrollment(p, s)
          \/ \E n \in Counter, N \in SUBSET Code : ConfirmEnrollment(p, n, N) \/ RegenerateCodes(p, n, N)
          \/ Disable(p)
          \/ \E g \in Challenge : IssueChallenge(p, g)
          \/ \E n \in Counter : VerifyTotp(p, n)
          \/ \E c \in Code : VerifyRecovery(p, c)
    BY StepCases
  <2>2. CASE Waits(p) \/ (\E s \in Secret : BeginEnrollment(p, s))
                      \/ (\E g \in Challenge : IssueChallenge(p, g))
    BY <2>2, WaitsKeep DEF BeginEnrollment, IssueChallenge
  <2>3. CASE \E n \in Counter, N \in SUBSET Code : ConfirmEnrollment(p, n, N) \/ RegenerateCodes(p, n, N)
    BY <2>3, TotpAccepted DEF ConfirmEnrollment, RegenerateCodes
  <2>4. CASE Disable(p)
    BY <2>4, TotpAccepted, CodeAccepted DEF Disable
  <2>5. ASSUME NEW n \in Counter, VerifyTotp(p, n) PROVE Factor(h)
    <3>1. tx[p].seen = user /\ user \in User /\ user.enabled /\ user.secret # NoSecret /\ n > user.last
      BY <2>5, Verifier DEF VerifyTotp, Locked, Matches, IndInv, TypeOK
    <3>2. user' = Flush(user, [user EXCEPT !.last = n])
      BY <2>5, <3>1 DEF VerifyTotp
    <3>3. user'.last = n
      BY <3>1, <3>2 DEF Flush, User
    <3> QED BY <3>1, <3>3
  <2>6. ASSUME NEW c \in Code, VerifyRecovery(p, c) PROVE Factor(h)
    <3>1. user.enabled
      BY <2>6, Verifier DEF VerifyRecovery
    <3>2. code[c] = "unused" /\ code'[c] = "used"
      BY <2>6, RecoveryVerified
    <3> QED BY <3>1, <3>2
  <2> QED BY <2>1, <2>2, <2>3, <2>4, <2>5, <2>6
<1> QED BY <1>1, Invariance, PTL DEF Spec, SessionNeedsFactor

-----------------------------------------------------------------------------
(* Each step is a step of SingleUse or a stutter.                           *)
LEMMA CodesKept ==
  ASSUME \A c \in Code : uses'[c] = uses[c] /\ code'[c] = code[c]
  PROVE  UNCHANGED Codes!vars
BY DEF Codes!vars, CodeStage, CodeUses

(* A batch of fresh codes withdraws what was left of the one before.        *)
LEMMA CodesReplaced ==
  ASSUME IndInv, NEW N \in SUBSET Code, \A c \in N : code[c] = "none", code' = Replaced(N),
         \A c \in Code : uses'[c] = uses[c]
  PROVE  Codes!Next
<1> DEFINE W == {c \in Code : code[c] = "unused"}
<1>1. \A c \in Code : uses[c] \in Nat /\ (code[c] \in {"none", "unused"} => uses[c] = 0)
  BY DEF IndInv, TypeOK, Credential, Unspent
<1>2. /\ \A c \in N : CodeStage[c] = "none"
      /\ \A c \in W : CodeStage[c] = "open"
  BY <1>1 DEF CodeStage
<1>3. CodeStage' = [c \in Code |-> IF c \in N THEN "open"
                                   ELSE IF c \in W THEN "withdrawn" ELSE CodeStage[c]]
  <2>1. ASSUME NEW c \in Code
        PROVE  (IF uses'[c] > 0 THEN "used"
                ELSE CASE code'[c] = "none" -> "none" [] code'[c] = "unused" -> "open"
                       [] OTHER -> "withdrawn")
               = IF c \in N THEN "open" ELSE IF c \in W THEN "withdrawn" ELSE CodeStage[c]
    <3>1. code'[c] = IF c \in N THEN "unused"
                     ELSE IF code[c] \in {"unused", "used"} THEN "deleted" ELSE code[c]
      BY DEF Replaced, Stored
    <3> QED BY <1>1, <3>1 DEF CodeStage, IndInv, TypeOK
  <2> QED BY <2>1 DEF CodeStage
<1>4. UNCHANGED CodeUses
  BY DEF CodeUses
<1> QED BY <1>2, <1>3, <1>4 DEF Codes!Next, Codes!Issue, Codes!Open

(* A code is used, alone or together with the end of the batch.             *)
LEMMA CodeUsed ==
  ASSUME IndInv, NEW c \in Code, code[c] = "unused",
         \A d \in Code : uses'[d] = IF d = c THEN 1 ELSE uses[d],
         NEW W \in SUBSET Code, \A d \in W : code[d] = "unused",
         \A d \in Code \ {c} : code'[d] = code[d] \/ (d \in W /\ code'[d] = "deleted")
                                                  \/ (code[d] = "used" /\ code'[d] = "deleted"),
         \A d \in W \ {c} : code'[d] = "deleted"
  PROVE  Codes!Next
<1>1. \A d \in Code : uses[d] \in Nat /\ (code[d] \in {"none", "unused"} => uses[d] = 0)
  BY DEF IndInv, TypeOK, Credential, Unspent
<1>2. CodeStage[c] = "open" /\ \A d \in W : CodeStage[d] = "open"
  BY <1>1 DEF CodeStage
<1>3. CodeStage' = [d \in Code |-> IF d = c THEN "used"
                                   ELSE IF d \in W THEN "withdrawn" ELSE CodeStage[d]]
  <2>1. ASSUME NEW d \in Code
        PROVE  (IF uses'[d] > 0 THEN "used"
                ELSE CASE code'[d] = "none" -> "none" [] code'[d] = "unused" -> "open"
                       [] OTHER -> "withdrawn")
               = IF d = c THEN "used" ELSE IF d \in W THEN "withdrawn" ELSE CodeStage[d]
    <3>1. CASE d = c
      BY <3>1
    <3>2. CASE d # c
      BY <1>1, <3>2 DEF CodeStage
    <3> QED BY <3>1, <3>2
  <2> QED BY <2>1 DEF CodeStage
<1>4. CodeUses' = [CodeUses EXCEPT ![c] = @ + 1]
  <2>1. CodeUses' = [d \in Code |-> IF d = c THEN 1 ELSE uses[d]]
    BY DEF CodeUses
  <2>2. [CodeUses EXCEPT ![c] = @ + 1] = [d \in Code |-> IF d = c THEN 0 + 1 ELSE uses[d]]
    BY <1>1 DEF CodeUses
  <2> QED BY <2>1, <2>2
<1> QED BY <1>2, <1>3, <1>4 DEF Codes!Next, Codes!Use, Codes!Open

LEMMA InitCodes == Init => Codes!Init
BY DEF Init, Codes!Init, CodeStage, CodeUses, Credential

LEMMA NextCodes == IndInv /\ [Next]_vars => [Codes!Next]_Codes!vars
<1> SUFFICES ASSUME IndInv, [Next]_vars PROVE Codes!Next \/ UNCHANGED Codes!vars
  OBVIOUS
<1>1. CASE UNCHANGED vars
  BY <1>1, CodesKept DEF vars
<1>2. CASE Next
  <2>1. PICK p \in Proc :
          \/ Waits(p)
          \/ \E s \in Secret : BeginEnrollment(p, s)
          \/ \E n \in Counter, N \in SUBSET Code : ConfirmEnrollment(p, n, N) \/ RegenerateCodes(p, n, N)
          \/ Disable(p)
          \/ \E g \in Challenge : IssueChallenge(p, g)
          \/ \E n \in Counter : VerifyTotp(p, n)
          \/ \E c \in Code : VerifyRecovery(p, c)
    BY <1>2, StepCases
  <2>2. CASE Waits(p) \/ \E g \in Challenge : IssueChallenge(p, g)
    BY <2>2, WaitsKeep, CodesKept DEF IssueChallenge
  <2>3. CASE \E s \in Secret : BeginEnrollment(p, s)
    BY <2>3, CodesReplaced DEF BeginEnrollment
  <2>4. ASSUME NEW n \in Counter, NEW N \in SUBSET Code,
               ConfirmEnrollment(p, n, N) \/ RegenerateCodes(p, n, N)
        PROVE  Codes!Next
    <3>1. \A x \in Code \cup Challenge : uses'[x] = uses[x]
      BY <2>4, TotpAccepted DEF ConfirmEnrollment, RegenerateCodes
    <3>2. code' = Replaced(N) /\ \A c \in N : code[c] = "none"
      BY <2>4 DEF ConfirmEnrollment, RegenerateCodes, Fresh
    <3> QED BY <3>1, <3>2, CodesReplaced
  <2>5. CASE Disable(p)
    <3>1. code' = Replaced({})
      BY <2>5 DEF Disable
    <3>2. CASE \E n \in Counter : Matches(p, n) /\ Accept({<<tx[p].seen.secret, n>>})
      <4>1. \A x \in Code \cup Challenge : uses'[x] = uses[x]
        BY <3>2, TotpAccepted
      <4> QED BY <3>1, <4>1, CodesReplaced
    <3>3. ASSUME NEW c \in Code, code[c] = "unused", Accept({c}) PROVE Codes!Next
      <4> DEFINE W == {d \in Code : code[d] = "unused"}
      <4>1. \A d \in Code : code'[d] = IF code[d] \in {"unused", "used"} THEN "deleted" ELSE code[d]
        BY <3>1 DEF Replaced, Stored
      <4>2. \A d \in Code : uses'[d] = IF d = c THEN 1 ELSE uses[d]
        BY <3>3, CodeAccepted
      <4> HIDE DEF W
      <4>3. W \in SUBSET Code /\ \A d \in Code : d \in W <=> code[d] = "unused"
        BY DEF W
      <4> QED BY <3>3, <4>1, <4>2, <4>3, CodeUsed
    <3> QED BY <2>5, <3>2, <3>3 DEF Disable
  <2>6. ASSUME NEW n \in Counter, VerifyTotp(p, n) PROVE UNCHANGED Codes!vars
    BY <2>6, TotpVerified, CodesKept DEF VerifyTotp
  <2>7. ASSUME NEW c \in Code, VerifyRecovery(p, c) PROVE Codes!Next
    <3>1. /\ code[c] = "unused"
          /\ \A d \in Code : /\ uses'[d] = IF d = c THEN 1 ELSE uses[d]
                             /\ code'[d] = IF d = c THEN "used" ELSE code[d]
      BY <2>7, RecoveryVerified
    <3>2. {} \in SUBSET Code /\ \A d \in {} : code[d] = "unused" /\ code'[d] = "deleted"
      OBVIOUS
    <3> QED BY <3>1, <3>2, CodeUsed
  <2> QED BY <2>1, <2>2, <2>3, <2>4, <2>5, <2>6, <2>7
<1> QED BY <1>1, <1>2

(* A recovery code works once, and never after its batch was replaced.      *)
THEOREM CodesImplemented == Spec => RecoveryCodesOnce
BY InitCodes, NextCodes, Invariance, PTL DEF Spec, RecoveryCodesOnce, Codes!Spec

-----------------------------------------------------------------------------
LEMMA ChallengesKept ==
  ASSUME \A h \in Challenge : uses'[h] = uses[h] /\ challenge'[h] = challenge[h]
  PROVE  UNCHANGED Challenges!vars
BY DEF Challenges!vars, ChallengeStage, ChallengeUses

LEMMA ChallengeIssued ==
  ASSUME IndInv, NEW p \in Proc, NEW h \in Challenge, IssueChallenge(p, h)
  PROVE  Challenges!Next
<1> DEFINE W == tx[p].held
<1>1. W \in SUBSET Challenge /\ \A g \in W : challenge[g] = "open"
  BY DEF IndInv, TypeOK, Tx, Knows
<1> HIDE DEF W
<1>2. \A g \in Challenge : uses[g] \in Nat /\ (challenge[g] # "consumed" => uses[g] = 0)
  BY DEF IndInv, TypeOK, Credential, Unspent
<1>3. /\ challenge[h] = "none" /\ uses' = uses
      /\ \A g \in Challenge : challenge'[g] = IF g = h THEN "open"
                                              ELSE IF g \in W THEN "consumed" ELSE challenge[g]
  BY DEF IssueChallenge, W
<1>4. ChallengeStage[h] = "none" /\ \A g \in W : ChallengeStage[g] = "open"
  BY <1>1, <1>2, <1>3 DEF ChallengeStage
<1>5. ChallengeStage' = [g \in Challenge |-> IF g \in {h} THEN "open"
                                             ELSE IF g \in W THEN "withdrawn" ELSE ChallengeStage[g]]
  BY <1>1, <1>2, <1>3 DEF ChallengeStage
<1>6. UNCHANGED ChallengeUses
  BY <1>3 DEF ChallengeUses
<1>7. Challenges!Issue({h}, W)
  BY <1>4, <1>5, <1>6 DEF Challenges!Issue, Challenges!Open
<1> QED BY <1>1, <1>7 DEF Challenges!Next

LEMMA ChallengeUsed ==
  ASSUME IndInv, NEW h \in Challenge, challenge[h] = "open", uses[h] = 0,
         \A g \in Challenge : /\ uses'[g] = IF g = h THEN 1 ELSE uses[g]
                              /\ challenge'[g] = IF g = h THEN "consumed" ELSE challenge[g]
  PROVE  Challenges!Next
<1>1. ChallengeStage[h] = "open"
  BY DEF ChallengeStage
<1>2. ChallengeStage' = [g \in Challenge |-> IF g = h THEN "used"
                                             ELSE IF g \in {} THEN "withdrawn" ELSE ChallengeStage[g]]
  BY DEF ChallengeStage
<1>3. ChallengeUses' = [ChallengeUses EXCEPT ![h] = @ + 1]
  <2>1. ChallengeUses' = [g \in Challenge |-> IF g = h THEN 1 ELSE uses[g]]
    BY DEF ChallengeUses
  <2>2. [ChallengeUses EXCEPT ![h] = @ + 1] = [g \in Challenge |-> IF g = h THEN 0 + 1 ELSE uses[g]]
    BY DEF ChallengeUses
  <2> QED BY <2>1, <2>2
<1>4. Challenges!Use(h, {})
  BY <1>1, <1>2, <1>3 DEF Challenges!Use, Challenges!Open
<1> QED BY <1>4 DEF Challenges!Next

LEMMA InitChallenges == Init => Challenges!Init
BY DEF Init, Challenges!Init, ChallengeStage, ChallengeUses, Credential

LEMMA NextChallenges == IndInv /\ [Next]_vars => [Challenges!Next]_Challenges!vars
<1> SUFFICES ASSUME IndInv, [Next]_vars PROVE Challenges!Next \/ UNCHANGED Challenges!vars
  OBVIOUS
<1>1. CASE UNCHANGED vars
  BY <1>1, ChallengesKept DEF vars
<1>2. CASE Next
  <2>1. PICK p \in Proc :
          \/ Waits(p)
          \/ \E s \in Secret : BeginEnrollment(p, s)
          \/ \E n \in Counter, N \in SUBSET Code : ConfirmEnrollment(p, n, N) \/ RegenerateCodes(p, n, N)
          \/ Disable(p)
          \/ \E g \in Challenge : IssueChallenge(p, g)
          \/ \E n \in Counter : VerifyTotp(p, n)
          \/ \E c \in Code : VerifyRecovery(p, c)
    BY <1>2, StepCases
  <2>2. CASE Waits(p) \/ \E s \in Secret : BeginEnrollment(p, s)
    BY <2>2, WaitsKeep, ChallengesKept DEF BeginEnrollment
  <2>3. CASE \E n \in Counter, N \in SUBSET Code : ConfirmEnrollment(p, n, N) \/ RegenerateCodes(p, n, N)
    BY <2>3, TotpAccepted, ChallengesKept DEF ConfirmEnrollment, RegenerateCodes
  <2>4. CASE Disable(p)
    BY <2>4, TotpAccepted, CodeAccepted, ChallengesKept DEF Disable
  <2>5. CASE \E g \in Challenge : IssueChallenge(p, g)
    BY <2>5, ChallengeIssued
  <2>6. CASE \E n \in Counter : VerifyTotp(p, n)
    BY <2>6, TotpVerified, ChallengeUsed
  <2>7. CASE \E c \in Code : VerifyRecovery(p, c)
    BY <2>7, RecoveryVerified, ChallengeUsed
  <2> QED BY <2>1, <2>2, <2>3, <2>4, <2>5, <2>6, <2>7
<1> QED BY <1>1, <1>2

(* A login challenge is exchanged for at most one session, and for none     *)
(* after a later sign-in withdrew it.                                       *)
THEOREM ChallengesImplemented == Spec => ChallengesOnce
BY InitChallenges, NextChallenges, Invariance, PTL DEF Spec, ChallengesOnce, Challenges!Spec
=============================================================================
