----------------------------- MODULE MultiFactor -----------------------------
(***************************************************************************)
(* TOTP multi-factor authentication of one account: enrollment, recovery   *)
(* codes and login challenges (app/services/mfa.py, app/api/v1/mfa.py, the *)
(* MFA branch of app/auth/login.py).                                       *)
(*                                                                         *)
(* The four handlers behind a bearer token get the account twice: first    *)
(* get_current_user reads it, then _lock_user selects it FOR UPDATE.  Both *)
(* use one SQLAlchemy session, and a query without populate_existing() does*)
(* not refresh an object the session already holds: the lock is taken, and *)
(* the handler goes on with the columns of the first read (`seen').  At    *)
(* commit only the columns whose value differs from `seen' are written.    *)
(*                                                                         *)
(* Under the users row's lock nothing else touches what these handlers     *)
(* touch, so what follows the lock is one step, ending with the commit.    *)
(* The sessions they open and revoke are the tokens of RefreshSessions,    *)
(* where a password reset has the same shape as the revocations here.      *)
(* Passwords, expiry and is_active only ever refuse a request: Rollback.   *)
(***************************************************************************)
EXTENDS Naturals, FiniteSets

CONSTANTS Secret, Code, Challenge, Proc,
          NoSecret,
          Counter,     \* the TOTP time steps acceptable now; the bound of the model
          CodeCount    \* MFA_RECOVERY_CODE_COUNT

ASSUME Sizes == Counter \subseteq Nat \ {0} /\ CodeCount \in Nat \ {0} /\ IsFiniteSet(Code)
ASSUME Sentinel == NoSecret \notin Secret
(* The four kinds of credential are told apart. *)
ASSUME Kinds == Code \cap Challenge = {} /\ (Secret \X Counter) \cap (Code \cup Challenge) = {}

VARIABLES user,        \* the committed MFA columns of the users row
          code,        \* mfa_recovery_codes
          challenge,   \* the mfa_login rows of account_action_tokens
          tx,          \* the open transaction of each request
          origin,      \* history: how far each TOTP secret has got
          uses         \* history: how often each credential was accepted

vars == <<user, code, challenge, tx, origin, uses>>

Totp == Secret \X Counter
Credential == Totp \cup Code \cup Challenge

(* last = 0 is a null mfa_last_counter. *)
User == [secret: Secret \cup {NoSecret}, pending: BOOLEAN, enabled: BOOLEAN,
         last: Counter \cup {0}]

Tx == [pc: {"idle", "lock", "locked", "scan", "withdraw", "insert"},
       op: {"none", "begin", "confirm", "regenerate", "disable", "verify", "issue"},
       seen: User,                \* the User in the session's identity map
       held: SUBSET Challenge,    \* rows locked
       todo: SUBSET Challenge]    \* rows the UPDATE of the challenges found

Nothing == [secret |-> NoSecret, pending |-> FALSE, enabled |-> FALSE, last |-> 0]

Idle == [pc |-> "idle", op |-> "none", seen |-> Nothing, held |-> {}, todo |-> {}]

TypeOK ==
  /\ user \in User
  /\ code \in [Code -> {"none", "unused", "used", "deleted"}]
  /\ challenge \in [Challenge -> {"none", "open", "consumed"}]
  /\ tx \in [Proc -> Tx]
  /\ origin \in [Secret -> {"none", "generated", "confirmed"}]
  /\ uses \in [Credential -> 0..2]

Init ==
  /\ user = Nothing
  /\ code = [c \in Code |-> "none"]
  /\ challenge = [h \in Challenge |-> "none"]
  /\ tx = [p \in Proc |-> Idle]
  /\ origin = [s \in Secret |-> "none"]
  /\ uses = [x \in Credential |-> 0]

-----------------------------------------------------------------------------
UserFree(p) == \A q \in Proc \ {p} : tx[q].pc # "locked"
Free(p, H) == \A q \in Proc \ {p} : tx[q].held \cap H = {}
Locked(p, op) == tx[p].pc = "locked" /\ tx[p].op = op
End(p) == tx' = [tx EXCEPT ![p] = Idle]

(* Bound: the second use of a credential is one too many, no more are counted. *)
Accept(X) == uses' = [x \in Credential |-> IF x \in X /\ uses[x] < 2 THEN uses[x] + 1 ELSE uses[x]]

(* A flush writes the attributes that were changed since the row was read.  *)
Flush(seen, new) == [f \in DOMAIN new |-> IF new[f] = seen[f] THEN user[f] ELSE new[f]]

Stored == {c \in Code : code[c] \in {"unused", "used"}}

(* _replace_recovery_codes, with freshly drawn codes N. *)
Replaced(N) == [c \in Code |-> IF c \in N THEN "unused"
                               ELSE IF c \in Stored THEN "deleted" ELSE code[c]]
Fresh(N) == Cardinality(N) = CodeCount /\ \A c \in N : code[c] = "none"

(* _matching_totp_counter: the code belongs to the secret the handler has,  *)
(* and to a time step after the last one it knows of.                       *)
Matches(p, n) == tx[p].seen.secret # NoSecret /\ n > tx[p].seen.last

-----------------------------------------------------------------------------
(* POST /auth/mfa/totp/enroll, .../confirm, .../recovery-codes/regenerate   *)
(* and .../disable: get_current_user reads the account.                     *)
Call(p, op) ==
  /\ tx[p].pc = "idle"
  /\ tx' = [tx EXCEPT ![p] = [Idle EXCEPT !.pc = "lock", !.op = op, !.seen = user]]
  /\ UNCHANGED <<user, code, challenge, origin, uses>>

(* Faulty variant: without FOR UPDATE. *)
LockUserUnlocked(p) ==
  /\ tx[p].pc = "lock"
  /\ tx' = [tx EXCEPT ![p].pc = "locked",
                      ![p].seen = IF tx[p].op = "verify" THEN user ELSE @]
  /\ UNCHANGED <<user, code, challenge, origin, uses>>

(* _lock_user: only a session that has not read the account sees the row.   *)
LockUser(p) ==
  /\ tx[p].pc = "lock" /\ UserFree(p)
  /\ tx' = [tx EXCEPT ![p].pc = "locked",
                      ![p].seen = IF tx[p].op = "verify" THEN user ELSE @]
  /\ UNCHANGED <<user, code, challenge, origin, uses>>

BeginEnrollment(p, s) ==
  /\ Locked(p, "begin") /\ ~tx[p].seen.enabled /\ origin[s] = "none"
  /\ user' = [Flush(tx[p].seen, [tx[p].seen EXCEPT !.secret = s, !.last = 0])
                EXCEPT !.pending = TRUE]     \* a new timestamp is always a change
  /\ code' = Replaced({})
  /\ origin' = [origin EXCEPT ![s] = "generated"]
  /\ End(p) /\ UNCHANGED <<challenge, uses>>

ConfirmEnrollment(p, n, N) ==
  /\ Locked(p, "confirm") /\ ~tx[p].seen.enabled /\ tx[p].seen.pending
  /\ Matches(p, n) /\ Fresh(N)
  /\ user' = Flush(tx[p].seen, [tx[p].seen EXCEPT !.enabled = TRUE, !.pending = FALSE, !.last = n])
  /\ code' = Replaced(N)
  /\ origin' = [origin EXCEPT ![tx[p].seen.secret] = "confirmed"]
  /\ Accept({<<tx[p].seen.secret, n>>})
  /\ End(p) /\ UNCHANGED challenge

(* Faulty variant: the old codes stay. *)
RegenerateCodesKeeping(p, n, N) ==
  /\ Locked(p, "regenerate") /\ tx[p].seen.enabled
  /\ Matches(p, n) /\ Fresh(N)
  /\ user' = Flush(tx[p].seen, [tx[p].seen EXCEPT !.last = n])
  /\ code' = [c \in Code |-> IF c \in N THEN "unused" ELSE code[c]]
  /\ Accept({<<tx[p].seen.secret, n>>})
  /\ End(p) /\ UNCHANGED <<challenge, origin>>

RegenerateCodes(p, n, N) ==
  /\ Locked(p, "regenerate") /\ tx[p].seen.enabled
  /\ Matches(p, n) /\ Fresh(N)
  /\ user' = Flush(tx[p].seen, [tx[p].seen EXCEPT !.last = n])
  /\ code' = Replaced(N)
  /\ Accept({<<tx[p].seen.secret, n>>})
  /\ End(p) /\ UNCHANGED <<challenge, origin>>

(* By a TOTP code or by a recovery code; the row of the latter is read now. *)
Disable(p) ==
  /\ Locked(p, "disable") /\ tx[p].seen.enabled
  /\ \/ \E n \in Counter : Matches(p, n) /\ Accept({<<tx[p].seen.secret, n>>})
     \/ \E c \in Code : code[c] = "unused" /\ Accept({c})
  /\ user' = Flush(tx[p].seen, Nothing)
  /\ code' = Replaced({})
  /\ End(p) /\ UNCHANGED <<challenge, origin>>

-----------------------------------------------------------------------------
(* POST /login of an account read as MFA-enabled: issue_mfa_login_challenge *)
(* consumes the open challenges, those its UPDATE finds when it starts ...  *)
Login(p) ==
  /\ tx[p].pc = "idle" /\ user.enabled
  /\ tx' = [tx EXCEPT ![p] = [Idle EXCEPT !.pc = "scan", !.op = "issue"]]
  /\ UNCHANGED <<user, code, challenge, origin, uses>>

Scan(p) ==
  /\ tx[p].pc = "scan"
  /\ tx' = [tx EXCEPT ![p].pc = "withdraw",
                      ![p].todo = {h \in Challenge : challenge[h] = "open"}]
  /\ UNCHANGED <<user, code, challenge, origin, uses>>

(* ... and that are still open when it gets their locks, ...                *)
Withdraw(p) ==
  /\ tx[p].pc = "withdraw" /\ Free(p, tx[p].todo)
  /\ tx' = [tx EXCEPT ![p].pc = "insert", ![p].todo = {},
                      ![p].held = {h \in tx[p].todo : challenge[h] = "open"}]
  /\ UNCHANGED <<user, code, challenge, origin, uses>>

(* ... and inserts a new one; its foreign key waits for the users row.      *)
IssueChallenge(p, h) ==
  /\ tx[p].pc = "insert" /\ UserFree(p) /\ challenge[h] = "none"
  /\ challenge' = [g \in Challenge |-> IF g = h THEN "open"
                                       ELSE IF g \in tx[p].held THEN "consumed" ELSE challenge[g]]
  /\ End(p) /\ UNCHANGED <<user, code, origin, uses>>

(* Faulty variant: the challenge is read without FOR UPDATE. *)
PresentUnlocked(p, h) ==
  /\ tx[p].pc = "idle" /\ challenge[h] = "open"
  /\ tx' = [tx EXCEPT ![p] = [Idle EXCEPT !.pc = "lock", !.op = "verify", !.held = {h}]]
  /\ UNCHANGED <<user, code, challenge, origin, uses>>

(* POST /auth/mfa/challenge/verify: SELECT the challenge FOR UPDATE.        *)
Present(p, h) ==
  /\ tx[p].pc = "idle" /\ challenge[h] = "open" /\ Free(p, {h})
  /\ tx' = [tx EXCEPT ![p] = [Idle EXCEPT !.pc = "lock", !.op = "verify", !.held = {h}]]
  /\ UNCHANGED <<user, code, challenge, origin, uses>>

Consumed(p) == [h \in Challenge |-> IF h \in tx[p].held THEN "consumed" ELSE challenge[h]]

VerifyTotp(p, n) ==
  /\ Locked(p, "verify") /\ tx[p].seen.enabled /\ Matches(p, n)
  /\ user' = Flush(tx[p].seen, [tx[p].seen EXCEPT !.last = n])
  /\ challenge' = Consumed(p)
  /\ Accept(tx[p].held \cup {<<tx[p].seen.secret, n>>})
  /\ End(p) /\ UNCHANGED <<code, origin>>

(* Faulty variant: used_at is not asked for. *)
VerifyRecoveryAgain(p, c) ==
  /\ Locked(p, "verify") /\ tx[p].seen.enabled /\ c \in Stored
  /\ code' = [code EXCEPT ![c] = "used"]
  /\ challenge' = Consumed(p)
  /\ Accept(tx[p].held \cup {c})
  /\ End(p) /\ UNCHANGED <<user, origin>>

VerifyRecovery(p, c) ==
  /\ Locked(p, "verify") /\ tx[p].seen.enabled /\ code[c] = "unused"
  /\ code' = [code EXCEPT ![c] = "used"]
  /\ challenge' = Consumed(p)
  /\ Accept(tx[p].held \cup {c})
  /\ End(p) /\ UNCHANGED <<user, origin>>

(* A wrong code, a failed check, any exception, a lost connection.          *)
Rollback(p) ==
  /\ tx[p].pc # "idle"
  /\ End(p) /\ UNCHANGED <<user, code, challenge, origin, uses>>

Next == \E p \in Proc :
  \/ \E op \in {"begin", "confirm", "regenerate", "disable"} : Call(p, op)
  \/ LockUser(p) \/ Disable(p) \/ Login(p) \/ Scan(p) \/ Withdraw(p) \/ Rollback(p)
  \/ \E s \in Secret : BeginEnrollment(p, s)
  \/ \E n \in Counter : \/ VerifyTotp(p, n)
                        \/ \E N \in SUBSET Code : ConfirmEnrollment(p, n, N) \/ RegenerateCodes(p, n, N)
  \/ \E h \in Challenge : IssueChallenge(p, h) \/ Present(p, h)
  \/ \E c \in Code : VerifyRecovery(p, c)

Spec == Init /\ [][Next]_vars

-----------------------------------------------------------------------------
(* A TOTP code is accepted once: DEPLOYMENT.md, "TOTP is replay-resistant in *)
(* this implementation".                                                    *)
NoCodeReplayed == \A x \in Totp : uses[x] =< 1

(* Enabled MFA checks the secret that a code was confirmed for: the enroll  *)
(* handler refuses with "MFA is already enabled" to replace it.             *)
EnabledIsConfirmed ==
  user.enabled => user.secret # NoSecret /\ origin[user.secret] = "confirmed"

(* At most one batch of recovery codes is stored: replacing the codes leaves *)
(* none of an older batch behind, though handlers act on old copies.        *)
OneBatch == Cardinality(Stored) =< CodeCount

(* A challenge is exchanged for a session only while MFA is enabled, for a  *)
(* time step later than the last accepted one or an unused recovery code:   *)
(* unlike the other handlers, verify reads the account under its lock.      *)
SessionNeedsFactor ==
  [][\A h \in Challenge : uses'[h] # uses[h] =>
       /\ user.enabled
       /\ \/ user.secret # NoSecret /\ user'.last > user.last
          \/ \E c \in Code : code[c] = "unused" /\ code'[c] = "used"]_vars

(* Why the above hold.                                                      *)
LocksExclusive ==
  \A p, q \in Proc : p # q => /\ ~(tx[p].pc = "locked" /\ tx[q].pc = "locked")
                              /\ tx[p].held \cap tx[q].held = {}

Knows(x) ==
  /\ x.pc = "idle" => x = Idle
  /\ x.op = "verify" => \E h \in Challenge : x.held = {h}
  /\ x.op = "verify" /\ x.pc = "locked" => x.seen = user
  /\ x.op = "verify" => x.pc \in {"lock", "locked"}
  /\ \A h \in x.held : challenge[h] = "open"

Unspent ==
  /\ \A c \in Code : uses[c] =< 1 /\ (code[c] \in {"none", "unused"} => uses[c] = 0)
  /\ \A h \in Challenge : uses[h] =< 1 /\ (challenge[h] # "consumed" => uses[h] = 0)

IndInv == TypeOK /\ LocksExclusive /\ (\A p \in Proc : Knows(tx[p])) /\ Unspent /\ OneBatch

-----------------------------------------------------------------------------
CodeStage ==
  [c \in Code |-> IF uses[c] > 0 THEN "used"
                  ELSE CASE code[c] = "none" -> "none" [] code[c] = "unused" -> "open"
                         [] OTHER -> "withdrawn"]
CodeUses == [c \in Code |-> uses[c]]

ChallengeStage ==
  [h \in Challenge |-> IF uses[h] > 0 THEN "used"
                       ELSE IF challenge[h] = "consumed" THEN "withdrawn" ELSE challenge[h]]
ChallengeUses == [h \in Challenge |-> uses[h]]

Codes == INSTANCE SingleUse WITH Item <- Code, stage <- CodeStage, uses <- CodeUses
Challenges == INSTANCE SingleUse WITH Item <- Challenge, stage <- ChallengeStage, uses <- ChallengeUses

(* A recovery code works once, and never again once it has been replaced.   *)
RecoveryCodesOnce == Codes!Spec

(* A login challenge is exchanged for one session, and for none once a later *)
(* sign-in has withdrawn it.                                                *)
ChallengesOnce == Challenges!Spec
=============================================================================
