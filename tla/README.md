# Verification of the FastAPI production API

TLA+ models of the stateful parts of the service in `src/`, the TLC runs that
check them on small instances, and TLAPS proofs of their main properties for
every size. Paths below are relative to the repository; `app/` stands for
`src/src/app/`.

## 1. Inventory

The service is a synchronous FastAPI application. Every request runs on a
thread of one of several gunicorn workers with a SQLAlchemy session of its own
(`app/db/dependency.py`), which is one PostgreSQL transaction at READ COMMITTED
until it commits. The processes share no memory: they meet in the database, in
Redis, and at the SMTP server and the OIDC provider. So what is hard about this
code is what two transactions do to each other between a read and the write that
relies on it.

| Part | State | Operations | Hard part | Correct when |
| --- | --- | --- | --- | --- |
| Refresh-token sessions (`auth/refresh.py`, `services/sessions.py`, `services/session_issuance.py`, `auth/login.py`) | `refresh_tokens`, `users.is_active` | sign-in, refresh, replay, logout, revocation of one or all sessions | concurrent refreshes of one token, bulk UPDATEs that wait for row locks, lock order | one usable token per family; revocation final; families implement the abstract specification |
| Account administration (`api/v1/admin.py`) | `users` | status, deletion, role | two statements that should take effect as one | a disabled account has no session; no token without its user |
| Password reset and e-mail verification (`services/password_reset.py`, `services/email_verification.py`) | `account_action_tokens`, `users` | issue, confirm | two issues at once, two confirmations at once, reset against rotation | a token is used once; a reset ends every session |
| E-mail outbox (`services/outbox.py`, `services/outbox_worker.py`, `workers/outbox.py`) | `outbox_messages`; the claimed batch in the worker's memory | enqueue, claim, send, finalise, retry, dead-letter, stop | leases that run out under a slow worker, crashes between SMTP and commit, attempts | an attempt has one worker; a message ends once, and ends |
| MFA (`services/mfa.py`) | MFA columns of `users`, `mfa_recovery_codes`, challenges in `account_action_tokens` | enroll, confirm, regenerate, disable, challenge, verify | handlers whose `User` was loaded before they lock it | a code is accepted once; an enabled account has the secret that was confirmed |
| OIDC (`services/oidc.py`) | `oidc_transactions`, `external_identities`, `users` | authorize, callback for sign-in and link, unlink | a row lock held across provider calls, different lock orders, checks before the lock | a transaction is used once; the last sign-in method stays |
| OIDC document cache (`services/oidc_cache.py`, `services/oidc_provider.py`, `commands/oidc_cache.py`) | a cached document and a refresh lock in Redis, both with a time to live | read, refresh under the lock, wait, forced refresh, invalidate | a lock that runs out under its holder, writes that come after a rotation or an invalidation, failed Redis commands | keys are looked for in recent documents only; the lock ends with its time or by its owner; nobody waits for ever |
| Rate limiter (`middlewares/rate_limit.py`) | counters in Redis, or one table per process | count a request, pass, block, fail open or closed | late and lost replies, keys that expire, a clock read twice | each number of a window lets one request pass; Retry-After is long enough |
| Access tokens, registration, step-up checks, health, metrics, logging, tracing, configuration, HTTP plumbing, migrations | none, or one statement | | | left out, with the reason in `PROJECT.json` |

How the parts meet: login, the MFA challenge and the OIDC callback all end in
`prepare_session_tokens`, which locks the users row and inserts the first token
of a family. The reset, the administrator, MFA and OIDC revoke families with the
same kind of UPDATE. The two issuing services insert the outbox row in the
transaction that stores the token it carries.

## 2. Modules

| Module | What it is |
| --- | --- |
| `SessionFamilies` | what refresh sessions promise: families opened, rotated one token at a time, closed for good |
| `RefreshSessions` | the requests on `refresh_tokens` and `users.is_active`, statement by statement |
| `EmailDelivery` | what the outbox promises: at-least-once delivery, one end |
| `OutboxWorkers` | the outbox table and its worker processes |
| `SingleUse` | what one-time credentials promise: issued once, then used once or withdrawn |
| `ActionTokens` | e-mailed verification and reset tokens |
| `MultiFactor` | TOTP enrollment, recovery codes, login challenges |
| `OidcSignIn` | OIDC transactions, sign-in, sign-up, link and unlink |
| `DocumentCache` | the Redis cache of the OIDC provider's keys, its refresh lock, and the ID-token check that uses them |
| `RateLimiter` | the request quota, counted in Redis or by each process |
| `...Proofs` | the theorems about the module each is named after |
| `MC...` and the `.cfg` files | instances for TLC |

`SingleUse` is implemented four times: by action tokens, recovery codes, login
challenges and OIDC transactions. `DocumentCache` is what stands behind the
`Exchange` of `OidcSignIn`. All transaction modules are written alike: the
tables are variables, `tx[p]` is what request `p` has locked, read and still to
do, a statement that waits for a lock is not enabled, `Rollback` stands for every
exception, lost connection or killed process, and the definitions whose comment
begins with "Faulty variant" are what the code would do with a plausible bug;
no specification uses them.

### RefreshSessions

`account` and `row` are the committed tables, `tx[p]` is the open transaction of
request `p`. A step is one SQL statement, or one row of a bulk UPDATE; a
statement that waits for a lock is not enabled. The session has
`autoflush=False`, so a changed ORM object becomes an UPDATE only when the
transaction commits: that order (sessions first, `is_active` last) is in the
model, and so are the three row-lock modes that matter on the users row, among them the
FOR KEY SHARE lock a foreign key takes when a token is inserted. On token rows the
modes are two sets: `held`, what a SELECT locked FOR UPDATE, and `hits`, what an
UPDATE locked FOR NO KEY UPDATE. The foreign key's check behind the DELETE of a user
asks for FOR KEY SHARE on a row that refers to the user, so it waits for a row in
somebody's `held` and not for one in `hits`, and then refuses the DELETE
(`Delete`, `RejectFlush`).

| Code | Actions |
| --- | --- |
| `login` without MFA, `prepare_session_tokens` | `Login`, `LockUser`, `RejectLogin`, `CommitLogin` |
| `refresh_access_token` | `Refresh`, `Replay`, `RejectExpired`, `ReadUser`, `FlushChild`, `CommitRotation` |
| `revoke_refresh_token` | `Logout` |
| `revoke_session`, `revoke_all_sessions` | `RevokeSessions` |
| `confirm_password_reset`, from the lock on the user on | `ResetPassword` |
| `update_user_status`, `delete_user` | `Disable`, `Enable`, `Delete`, `FlushUser`, `CommitStatus`, `CommitDelete`, `RejectFlush` |
| any bulk UPDATE of `refresh_tokens` | `Scan`, `UpdateRow`, `CommitRevocation` |
| `db.rollback()`, a lost connection, PostgreSQL's deadlock detection | `Rollback`, `DeadlockVictim` |

A bulk UPDATE sees the rows of its snapshot (`Scan`), locks them in any order
(`UpdateRow`), tests a row again when it has changed in the meantime, and never
sees one inserted since. Those are PostgreSQL's rules for READ COMMITTED, and
what the interesting behaviours hang on. Abstracted: token values and hashes (a
token is a model value that is fresh when it is issued), device names,
timestamps. Expiry is a refusal that may happen to any refresh
(`RejectExpired`), not a clock. Passwords and MFA do not appear in `Login`.

### OutboxWorkers

`row` is the committed table; the other variables are the memory of each worker
process. A claim is two steps, the locking SELECT and the commit of the lease,
so that another worker's SKIP LOCKED has something to skip and a late
finalisation something to wait for. A timestamp is the time left until it is
reached, 0 once it has passed, and `Tick` takes one unit from each of them: the
code compares timestamps with "now" and with nothing else, so nothing is lost
and time needs no bound.

| Code | Actions |
| --- | --- |
| `enqueue_email_delivery` | `Enqueue` |
| `claim_messages` | `Select`, `CommitClaim` |
| `run_once`, `_process_message` | `Process`, `Accept`, `SendFails` |
| `mark_succeeded`, `mark_failed`, `_owned_update` | `MarkSucceeded`, `DeadLetter`, `Retry`, `StaleOwner` |
| `run_worker` | `LoopFails`, `RequestStop`, `Exit` |

The SMTP server may accept a message and the sender still see an error
(`SendFails`). Encryption is a Boolean (the payload is there, or purged), and
any payload may turn out undecipherable. The retry delay is computed as
`_retry_delay` does, for every jitter the hash could give.

### ActionTokens

One account and its rows of `account_action_tokens`. The two issuing services
withdraw the outstanding tokens of their purpose with one UPDATE and insert a
new one; the two confirming services lock the presented token, and the reset
locks the account as well. Only the reset reads the account under its lock.

| Code | Actions |
| --- | --- |
| `issue_email_verification_token`, `issue_password_reset_token` | `Issue`, `Scan`, `UpdateRow`, `Insert` |
| `confirm_email_verification` | `Confirm`, `CommitVerification` |
| `confirm_password_reset` | `Confirm`, `LockUser`, `Reject`, `Scan`, `UpdateRow`, `CommitReset` |
| `update_user_status` | `SetActive` |
| failures, PostgreSQL's deadlock detection | `Rollback`, `DeadlockVictim` |

`Insert` waits for the holder of the users row because of the foreign key. That
is what keeps a token issued during a reset out of the reset's way, and it is a
lock that no line of the Python code names. An expired token is refused like an
unknown one and changes nothing, so there is no clock. The message that carries
the token is `OutboxWorkers!Enqueue`, the sessions that a reset revokes are
`RefreshSessions!ResetPassword`.

### MultiFactor

One account: its MFA columns (`user`), recovery codes and login challenges. What
makes this part hard is the copy of the account. `get_current_user` reads the
`User` into the session, and `_lock_user` then selects the same row FOR UPDATE
with the same session; SQLAlchemy does not refresh an object it already holds
unless `populate_existing()` asks for it. So `LockUser` takes the lock and leaves
`tx[p].seen` alone, and `Flush` writes only the columns that differ from that
copy. The verification of a challenge has no authenticated user, and its lock is
its first read; it sees the current row.

| Code | Actions |
| --- | --- |
| `get_current_user` of the four MFA routes | `Call` |
| `_lock_user` | `LockUser` |
| `begin_totp_enrollment`, `confirm_totp_enrollment` | `BeginEnrollment`, `ConfirmEnrollment` |
| `regenerate_recovery_codes`, `disable_mfa` | `RegenerateCodes`, `Disable` |
| `login`, `prepare_mfa_login_challenge` | `Login`, `Scan`, `Withdraw`, `IssueChallenge` |
| `verify_mfa_login_challenge` | `Present`, `LockUser`, `VerifyTotp`, `VerifyRecovery` |

A TOTP code is the pair of its secret and its time step; `Counter` is the set of
steps that occur. What follows the lock on the users row is one step, since all
handlers that touch the same rows hold that lock; the rows of a challenge, which
is locked first, are locked separately.

### OidcSignIn

`account`, `identity`, `txn` and `session` are the tables. The callback locks its
transaction row and keeps that lock through the provider's answers (`Exchange`),
then locks identity and account in this order to sign in, and account and
identity in the other order to link. A row that is not there cannot be locked;
where the code looks for one and inserts it later, the unique indexes decide
(`Unique`, `Conflict`). The deletion of an account locks the users row first, then
each identity and transaction that goes by cascade, one after the other; refresh
tokens have no cascade and refuse it.

| Code | Actions |
| --- | --- |
| `begin_oidc_authorization` for sign-in and link | `Begin` |
| `complete_oidc_authorization`, up to the validated claims | `Callback`, `Exchange`, `ProviderError` |
| sign-in with a known identity | `FindForLogin`, `LockAccount`, `CommitLogin` |
| sign-up | `FindForLogin`, `CheckEmail`, `SignUp`, `Conflict` |
| link | `LockAccount`, `FindForLink`, `CheckProvider`, `Link`, `CommitLinked`, `Conflict` |
| `unlink_external_identity` | `CallUnlink`, `FindForUnlink`, `LockAccount`, `CountIdentities`, `Unlink` |
| `delete_user` with its cascades | `Delete`, `CascadeIdentity`, `CascadeTransaction`, `RejectDelete`, `CommitDelete` |
| registration, status, reset, logout | `Register`, `SetActive`, `ResetPassword`, `EndSessions` |
| failures, PostgreSQL's deadlock detection | `Rollback`, `DeadlockVictim` |

`tx[p].seen` is `password_login_enabled` as `get_current_user` read it before the
unlink's lock, a stale copy as in `MultiFactor`. Here it is harmless: the column
only ever becomes true, and `Knows` says so. The provider is its answer: a
subject, with or without a verified address, or an error. The signature, nonce
and lifetime checks decide between the two and keep no state. A sign-in of an account
with MFA ends with a challenge instead of a session, which `CommitLogin` leaves open:
the session that the challenge may become later is not one of `session`, so
`SessionHasIdentity` says nothing of it.

### DocumentCache

`cache` and `lock` are the two Redis keys of one document, each with the time it
has left; `published` is what the provider answers at present, and `age` how long
ago each document was last published, which only the properties look at. A step is
one Redis command or one answer of the provider. A command that fails has been
executed or not, and its sender cannot tell: `NoLock` and `Write` have both
outcomes. Redis executes a command before its sender gives up on it, or never.

| Code | Actions |
| --- | --- |
| `OIDCPublicDocumentCache.read`, `reject` | `ReadHit`, `ReadInvalid`, `ReadMiss`, `Discard` |
| `acquire_refresh_lock`, `release_refresh_lock` | `Acquire`, `NoLock`, `Release` |
| `wait_for_value` | `WaitHit`, `WaitInvalid`, `WaitError`, `GiveUp` |
| `_fetch_public_document`, `write` | `FetchAnswer`, `FetchError`, `Write` |
| `validate_id_token` | `Accept`, `Retry`, `Refuse` |
| `fastapi-production-cache invalidate-oidc` | `Invalidate` |
| a killed worker, another writer of the key, the provider, time | `Crash`, `Spoil`, `Rotate`, `Tick` |

`_load_public_document` runs twice in one check when a cached document has not
the token's key: `prev` is the `previous_payload` of the second time. It is
dropped once its waiter goes to the provider, where the code does not use it any
more, and the key is chosen when a document is first looked through, since nothing
depends on it before. Modelled is the key document; the discovery document takes
the same way without `Retry` and `Refuse`. Without Redis (`OIDC_CACHE_BACKEND`)
every check is one fetch and there is nothing to model.

`Slow` bounds how long a document is in a request's hands, from the provider's
answer or the read of the cache to its use or its SET: the socket time-outs of
`core/redis.py` do that in the code. Clocks run at the same speed everywhere.

### RateLimiter

`backend` is fixed at start. With `"redis"` a member of `Proc` is a request: it is
sent, counted by the script in one step, and decided by the reply; the sender may
give up before or after the script has run (`Fail`). With `"memory"` a member of
`Proc` is a process, whose `table` is its own and whose `check` runs without
interruption on the event loop. It is two steps nevertheless, because it asks for
the time twice, and the window may end between the two (`Roll`). Windows have no
numbers: the present one has age 0, the last one age 1.

| Code | Actions |
| --- | --- |
| `RedisRateLimiter.check`, `REDIS_RATE_LIMIT_SCRIPT` | `Send`, `Execute` |
| `RateLimiter.check`, `cleanup` | `Check`, `Count` |
| the middleware: 200, 429, the `except` branch | `Pass`, `Block`, `Fail` |
| a killed worker, time, Redis's expiry of keys | `Crash`, `Tick`, `Roll` |

`used` records which numbers of a window have let a request pass; it is how the
property speaks of a quota without a bound on requests, and no action reads it.
A request that fails open passes without a number, and one that fails closed does
not pass: neither touches the quota. With the memory backend the quota is that of
one process, and of one life of it (`Crash`). Counts above `Limit + 1` are not told apart,
a client is a value (`resolve_client_ip` and the keyed digest are left out), and a
reply is at most one window late. That last one is an assumption on the deployment:
it holds for the defaults (a socket time-out of 1 s, a window of 60 s), but the
configuration checks the two settings separately and would take 30 s and 1 s
(`core/config.py:40` and `48`).

## 3. Runs

| Run | Instance | Question | States |
| --- | --- | --- | --- |
| `sessions_safety` | 1 user, 3 tokens, 2 requests | the safety properties, the inductive invariant, refinement of `SessionFamilies`, who can be in a deadlock | 226 538 |
| `sessions_disabled` | 1 user, 2 tokens, 2 requests | can a disabled account keep a session (it can) | counterexample |
| `sessions_replay` | 1 user, 3 tokens, 2 requests | can a family survive a replay (it can) | counterexample |
| `outbox_workers` | 2 messages, 2 workers | the safety properties, refinement of `EmailDelivery`, does every message end | 344 743 |
| `tokens_safety` | 3 tokens, 3 requests | the safety properties, refinement of `SingleUse`, does every request end | 6 961 |
| `mfa_safety` | 2 secrets, codes, challenges, time steps and requests | one batch of codes, sign-in needs the factor, refinement of `SingleUse` by codes and by challenges | 313 248 |
| `mfa_replay` | 1 secret, 3 codes, 2 requests | can a TOTP code be accepted twice (it can) | counterexample |
| `mfa_enrollment` | 2 secrets, 2 requests | can enabled MFA lose its confirmed secret (it can) | counterexample |
| `oidc_safety` | 2 users, 3 subjects of 2 providers, 2 transactions, 2 requests | the safety properties, the inductive invariant, refinement of `SingleUse`, which lock orders can deadlock | 163 734 |
| `cache_safety` | 2 requests, 2 documents, 2 keys, times of 1 and 2 units | the safety properties, does anybody wait for ever, does every check end | 548 581 |
| `cache_refusal` | as above, 3 documents | is a token refused without asking the provider (it is) | counterexample |
| `rate_limit` | 3 requests or processes, 1 client, limit 2, windows of 2 units | is the quota kept, is the wait in a 429 long enough | 380 700 |

`IndInv`, with the type invariant in it, is checked by the runs on sessions and OIDC.
In the other modules it is left to its theorem, as are `EndIsFinal` and, as a name of
its own, `NoOrphan`, a conjunct of `IndInv`; TLC found each of them true on the instance
above before it was proved.

Bounds, and why they are enough. One user suffices for sessions, action tokens
and MFA because every statement names one user or rows of one user, and only
requests on the same user meet at a lock; the proofs lift the bound. Two
requests are a holder of a lock and one that waits for it, or two that wait for
each other; three tokens are a family rotated twice, or two families one of which
is rotated. Two requests are the shortest circle of waiting; the proofs cover any
number. `TokensLeft` (in both modules that have it) stops new
requests when tokens run out, and never a request under way.

Two workers and two messages with a batch of two give overlapping batches, a
message processed after the lease on it has run out, and two recoveries; a lease
of two units can run out between any two steps of its holder. `Counted` is where
the attempt counter saturates, past `MaxAttempts` so that lost leases can take it
over the limit; `MaxFaults` bounds the exceptions. The workers that stop or die
are bounded by `Survivor`: one keeps running.

Three action tokens are two outstanding ones, which takes two concurrent issues,
and one issued while a reset is running; the three requests can then be two
resets and an issue. MFA needs a second secret for an enrollment that replaces
another, a second batch of codes for a regeneration, a second challenge for a
sign-in that withdraws one, and a second time step for a code later than the
last. The counter of uses stops at 2, one too many already. In OIDC, three
subjects of two providers are an account with two identities and one that
another account may want, or two of one provider of which an account may have
only one; two accounts are the two sides of a conflict; `OutOfAccounts` ends a
sign-up for which no member of `User` is left.

In `DocumentCache` two requests are a holder of the refresh lock and a waiter, or
two that both believe to hold it after it has expired. The lock lasts two units
and a document in hand one, so that a lock can expire at any point of a refresh
and be taken by the other; the wait is shorter than the lock, as the
configuration demands (`core/config.py:204`). Of the two documents one has the
key `k1`, none has `k2`: a key that is rotated in or out, and one that never comes.
`cache_refusal` has a third document, without a key as well, because the refused
check holds one document, is given a second, and the key is in another.
In `RateLimiter` a limit of two with three requests is the boundary: two pass and
the third must not, whatever order they come back in. A window of two units has
an inside and an end; keys live for two windows, so three generations exist. One
client suffices, because no statement names two.

Symmetry is used over model values that nothing in the code tells apart, and only
in runs without a liveness property. In `RateLimiter` the requests are
interchangeable as long as the memory of a process goes with it, which it does.

`CHECK_DEADLOCK FALSE` stands in the runs on sessions, action tokens and OIDC:
when all tokens have been issued and the account is deleted, inactive or
verified, no request need be able to start, which is no fault of the system. That
requests which have begun come to an end is `RequestsEnd` for action tokens; for
sessions and OIDC the question asked is who can be in a deadlock at all.

### Fairness

`ActionTokens!FairSpec`: a request that has begun goes on (`SF` on the steps
the code takes of its own accord) because PostgreSQL grants a lock to its waiters
in turn, and `WF` on deadlock detection because PostgreSQL runs it after
`deadlock_timeout`. It is strong fairness because a lock may be taken by others
again and again between. Nobody is obliged to send a request, and no failure is
obliged to happen. `RequestsEnd` fails without the deadlock detection: two resets
of one account that both have an outstanding token lock in opposite orders.

`OutboxWorkers!FairSpec`: each worker goes on with its loop, and time passes.
`Timely` says that time passes only while workers are idle or in an SMTP
exchange, that is, that a database transaction takes no time worth speaking of.
Without it a worker could always be too slow to finalise within its lease, and a
message could then be claimed for ever. Exceptions are finitely many
(`MaxFaults`) and one worker is never stopped, or nobody would be left to
deliver.

`OidcSignIn` and `RefreshSessions` have no fairness: the provider may never answer,
and the code's time-outs (`ProviderError`) are not in a race with anything. What the
code decides there is the order of its locks. Locks are taken in more than one order,
so PostgreSQL has deadlocks to break (`DeadlockVictim`), and each costs a user a failed
request; two invariants say which requests can be in one.
`RefreshSessions!DeadlockMeansAccount`: sign-ins, rotations, replays, logouts and
revocations of one session never wait for each other in a circle, so every deadlock has
a request in it that means a whole account: a reset, a deletion, a disabling, the end
of all sessions, or a refresh that finds the account disabled. It depends on what the
bulk UPDATE visits: if its WHERE clause did not leave out the revoked rows, two logouts
of one family would do.
`OidcSignIn!DeadlockMeansTwoOrders`: sign-ins and unlinks never deadlock among
themselves, nor do links; every deadlock has a deletion in it, or a link and something
else. An unlink that locked the account as it reads it would break that.

`DocumentCache!NobodyStuck` can say more, since nobody there waits for a lock: a
check has a step of its own to take in every state in which it is not waiting out
its `WaitSeconds`, whatever became of the owner of the refresh lock. And its steps
come to an end: `ChecksEnd` gives a check a number that every step of its own
lowers, 14 at first, so that a key nobody has makes no check load a third time.

### Disagreements with the documentation

* `sessions_disabled`: `ARCHITECTURE.md:94` says that disabling an account
  atomically marks it inactive and revokes every session. The UPDATE of the
  sessions runs first and the UPDATE of the users row at commit, with no lock on
  the user in between; a sign-in or rotation that commits between the two leaves
  a session that is usable once the account is enabled again.
* `sessions_replay`: `ARCHITECTURE.md:91` says that the replay of a rotated token
  revokes the family's live descendant. If that descendant is being rotated at
  that moment, the revoking UPDATE waits for it, finds it revoked, and never sees
  its child.
* `mfa_replay`: `DEPLOYMENT.md:170` says that TOTP is replay-resistant and
  `ARCHITECTURE.md:118` that accepted counters are recorded to reject replay. Of
  two handlers that read the account before either has locked it, the second
  compares the code with the counter of its copy and accepts it again.
* `mfa_enrollment`: `services/mfa.py:178` refuses to enroll an account with MFA.
  The test looks at the copy: an enrollment that waits for a confirmation to
  commit replaces the secret just confirmed, and MFA stays enabled with a secret
  nobody has confirmed and without recovery codes.

* `cache_refusal`: `ARCHITECTURE.md:134`, and with it `README.md`, `DEPLOYMENT.md` and
  `MONITORING.md`, say that an unknown cached key forces one refresh at the provider.
  The forced refresh goes through the refresh lock, and whoever does not get the lock
  takes any other cached document for the refreshed one. No failure is needed: a first
  check with an old cached document takes the lock and fetches the present one, without
  the key; a second, which has the same cached document, finds the lock taken; the
  provider publishes the key; the first writes what it fetched, and the second refuses
  its token with that.

The two about MFA have one cause, the missing `populate_existing()` in `_lock_user`.

One disagreement of the same kind is left without a run. `ARCHITECTURE.md:98` says that
verification requests invalidate older outstanding tokens; in `ActionTokens` two requests
at once do not see each other's token, and two are outstanding. `OnlyNewEscape` says how
far the claim holds: an issue misses only tokens inserted after its UPDATE had begun.
(Reset requests behave in the same way, but the reset that follows consumes all of
them: `ResetConsumesAll`.)

## 4. Proofs

All theorems hold for every value of the constants that meets the modules'
assumptions: finite sets of tokens, requests, recovery codes and subjects;
sentinels that are no members; positive settings, and a counter bound no lower
than `MaxAttempts`; kinds of credential that are told apart. Each module's proof
has the same argument: an invariant `IndInv` that TLC checks first, one lemma per
action that it is preserved, and the properties from it. A property on its own is
seldom inductive; what `IndInv` adds is who holds which lock, and what the holder
may rely on until it lets go.

`RefreshSessionsProofs`. `IndInv` is inductive, where "one usable token per
family" is not: a state in which two requests hold the same row lock, or a
rotation has locked a token that is already revoked, satisfies it and breaks it
in one step. `IndInv` adds that locks are exclusive (`LocksExclusive`), what an
open transaction knows of the rows and the account it has locked (`Knows`), that
family names are issued tokens (`FamilyRoots`), and that a reset's UPDATE, once
started, has every usable session of its user among the rows it has still to
visit or has already changed (`ResetSees`); this last one rests on the conflict
of FOR UPDATE with the foreign key's lock. From it follow `SingleLiveToken`,
`ReplacedOnce` (by counting each family and its rotated tokens), `NoOrphanedToken`, `RevocationFinal`, `ResetComplete`, `SignInActive`, and
`FamiliesImplemented`, which maps every commit of a sign-in, rotation or
revocation to a step of `SessionFamilies` and every other step to a stutter.

The two counterexamples of section 3 raise the question what a revocation does
guarantee while others rotate and sign in, and two action properties answer it.
`OnlyNewEscape`: the usable sessions it misses were inserted after its UPDATE had
begun, so a row lock delays it and never makes it pass a token over
(`OldTokensRevoked`, from how a transaction can come to be a revocation's UPDATE,
`RevokingSteps`, and from `LiveUnchanged`: a usable row has never been changed).
`CurrentTokenCloses`: one that came with a token that is still usable closes its
family, because it holds that token's row from its first statement on; only an old
token can lose to a rotation. `CurrentCloses` proves it by a second invariant on
top of `IndInv`, `FamilySees`: what the request holds and has found is of its
family, and a usable row it holds is one it will revoke. `HeldKept` says that a
locked row changes only by its holder's commit.

`DeadlocksAreWide` is about circles of waiting. Two lemmas prepare it. By `NarrowWaits`
a request that means one family, and waits for another that waits itself, waits for a
token row: the holder of a users row among them is at its commit and waits for nobody.
By `FamilySees` such an UPDATE visits at most one row, the usable one of its family. Then
`NoCircleCloses`: the step that would close a circle is a request that begins its UPDATE
and finds a usable row, which the next one in the circle holds; that one is of the same
family, so the only row it could have still to visit is the one it holds, and it waits
for nobody.

`OutboxWorkersProofs`. `IndInv` adds to the properties that a claim's rows are
still due and not locked by anyone else (`ClaimsDisjoint`), that a worker's copy
is never newer than its row (`CopiesOld`), what the worker's place in its loop
says about its current message (`Memory`), and what the mailbox says about the
row (`Delivered`). The heart is `AttemptsApart`: a claim raises the row's count
above every copy in memory, so an attempt number identifies its holder, as long
as the counter is below the model's bound. `DeliveryImplemented` maps `Accept` and a `SendFails` that
was accepted to `Deliver`, the finalisations to `Succeed` and `GiveUp`.

`ActionTokensProofs`. `IndInv` says that locked tokens are open and of the
request's purpose, that whoever holds the users row still has a recoverable
account (`Knows`), that a reset's UPDATE has every outstanding reset token ahead
of it or in hand (`ResetSees`), and that a token not consumed was never accepted
(`Unspent`). `ResetSees` needs the foreign key again. From it follow
`ResetComplete`, `ResetEligible` and `TokensImplemented`. `OldTokensWithdrawn`
proves `OnlyNewEscape`, what a withdrawal guarantees although two issues at once do
not see each other: the tokens that were there are gone.

`MultiFactorProofs`. The handlers act on old copies, so little can be said about
them; the point of these proofs is what holds nevertheless. `IndInv` says that the
verification of a challenge works on the current account and on an open challenge
it has locked, and that codes and challenges that can be used were never accepted.
`OneStoredBatch` holds because replacing the codes deletes what is stored, not
what the copy says. `FactorPerSession`, `CodesImplemented` and
`ChallengesImplemented` follow. TOTP codes do not implement `SingleUse`:
`mfa_replay` is the reason.

`OidcSignInProofs`. `MethodKept` rests on `AnotherMethod`: between the count and
the commit of an unlink, nobody can take the other identity or the password away,
because every unlink holds the account and the password never goes.
`SessionsEndWithIdentity` rests on the identity being held from the moment the
callback finds it. `LinksAreAskedFor` is an action property over `Knows`, which
says whose transaction a callback carries. `GrantsOnlyActive` is one as well: the
account found active under its lock is still active at the commit, because an
administrator's UPDATE waits for that lock. `TransactionsImplemented` maps the
deletion of an account to the withdrawal of its transactions.
`DeadlocksNeedTwoOrders` reads the lock orders off `Knows`: a sign-in or unlink that
waits holds at most an identity (`Waiting`), so it is only waited for by one that wants
an identity, and such a one holds nothing; a link that waits holds at most the account,
and is only waited for by one that wants an account, and that one holds no account
(`WaitedFor`).

`DocumentCacheProofs`. `IndInv` follows a document from the provider into a
request's hands, into the cache and out again: `Knows` bounds the age of what is
held by the time it has been held, plus a time to live for what came from the
cache, and `Entries` bounds the age of the cached document by the time to live it
has used up. That is why the bound of `RecentDocuments` does not grow with the
number of refreshes that overlap: only an answer of the provider is ever written,
never what was read from the cache. `LockEnds` follows from
what a request knows of its lock. `ChecksTerminate` proves that each
step of a check lowers `StepsLeft`; the only step back to the beginning is `Retry`,
which needs a document from the cache and no `prev`, and `Knows` says that once the
key has been chosen a cached document comes with a `prev`.

`RateLimiterProofs`. `Keys` relates the time a Redis key has left to the age of its
window: the key of the present window cannot expire before the window ends, and
the oldest of the three generations has expired when the next window begins. So
the counter of a window never starts again (`TickStep`), and the numbers under way
to requests are distinct and unused (`Distinct`, `Numbered`). `QuotaIsKept` and
`RetryIsHonest` follow.

Only model-checked: the liveness properties `RequestsEnd` and `EveryMessageEnds`,
`NobodyStuck`, which speaks of ENABLED, and the five counterexamples. The provers here
have no rule for fairness or ENABLED.

## 5. Not modelled, and the plan

Left out for good are the parts without state of their own (`PROJECT.json`,
components). What is left, in this order:

1. OIDC configuration: the issuer a running process is configured with. After a
   change of `OIDC_ISSUER` the count of an unlink still takes identities of the
   former issuer for a way to sign in.
2. Compositions: MFA with sign-in (MFA enabled, or the password reset, between the
   password check and the session), action tokens with the outbox (a token without a message), the OIDC
   callback with `RefreshSessions` in place of its one-step sessions.
3. Deletion of an account in `ActionTokens` and `MultiFactor`, whose rows go by
   cascade under an open request.
4. Redis that loses its data (a failover, an eviction): the cache would miss and
   the quota of the present window would start again.
5. The limits of the database and Redis connection pools. A callback keeps a
   database connection during the provider's HTTP requests, and a rate-limit
   decision without a free Redis connection is an error that the failure mode
   decides (`Fail`).
