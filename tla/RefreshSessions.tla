-------------------------- MODULE RefreshSessions --------------------------
(***************************************************************************)
(* Refresh-token sessions: sign-in, rotation with replay detection,        *)
(* logout, session revocation, and the administrator's and the password    *)
(* reset's effect on them (app/auth/refresh.py, app/auth/login.py,         *)
(* app/services/sessions.py, app/services/session_issuance.py,             *)
(* app/services/password_reset.py, app/api/v1/admin.py).                   *)
(*                                                                         *)
(* Every request is one PostgreSQL transaction at READ COMMITTED.  `account'*)
(* and `row' are the committed tables; `tx[p]' is what request p holds that *)
(* no other request sees: its row locks, the rows its bulk UPDATE still     *)
(* has to visit, the rows it has already changed.  One step is one SQL     *)
(* statement, or one row of a bulk UPDATE; a statement that would wait for *)
(* a lock is a step that is not enabled.  The session does not flush by    *)
(* itself (autoflush=False), so ORM changes become statements at commit.   *)
(***************************************************************************)
EXTENDS Naturals, FiniteSets

CONSTANTS User, Token, Proc,
          NoRow,     \* refresh_tokens has no such row
          NoFilter   \* a WHERE clause that does not mention the column

ASSUME FiniteIds == IsFiniteSet(Token) /\ IsFiniteSet(Proc)

VARIABLES account,   \* users.is_active, or "deleted" when the row is gone
          row,       \* the committed rows of refresh_tokens
          tx         \* the open transaction of each request

vars == <<account, row, tx>>

Reason == {"rotated", "reuse_detected", "logout", "user_revoked",
           "account_disabled", "password_reset"}

(* A family id is a fresh UUID made at sign-in; here it is the first token. *)
Row == [user: User, family: Token, revoked: BOOLEAN, reason: Reason \cup {"none"}]

Tx == [pc: {"idle", "lockUser", "readUser", "scan", "update", "flush", "commit"},
       op: {"none", "login", "refresh", "revoke", "disable", "enable", "delete"},
       user: User \cup {NoFilter}, family: Token \cup {NoFilter}, reason: Reason \cup {"none"},
       held: SUBSET Token,                           \* rows its SELECT locked FOR UPDATE
       lock: {"none", "share", "nokey", "update"},   \* lock on the users row
       todo: SUBSET Token, hits: SUBSET Token]       \* rows its UPDATE has yet to lock, has locked

(* The sentinels are no users, tokens or rows. *)
ASSUME Sentinels == NoFilter \notin User \cup Token /\ NoRow \notin Row

Idle == [pc |-> "idle", op |-> "none", user |-> NoFilter, family |-> NoFilter,
         reason |-> "none", held |-> {}, lock |-> "none", todo |-> {}, hits |-> {}]

TypeOK ==
  /\ account \in [User -> {"active", "inactive", "deleted"}]
  /\ row \in [Token -> Row \cup {NoRow}]
  /\ tx \in [Proc -> Tx]
  /\ \A t \in Token : row[t] # NoRow => (row[t].revoked <=> row[t].reason # "none")

Init ==
  /\ account = [u \in User |-> "active"]
  /\ row = [t \in Token |-> NoRow]
  /\ tx = [p \in Proc |-> Idle]

-----------------------------------------------------------------------------
Present(t) == row[t] # NoRow
Live(t) == Present(t) /\ ~row[t].revoked

(* The rows that refer to the user by their foreign key. *)
Owned(u) == {t \in Token : Present(t) /\ row[t].user = u}

(* The rows behind GET /auth/sessions, but for the expiry test. *)
LiveSessions(u) == {t \in Token : Live(t) /\ row[t].user = u}

(* The lock on its users row that the request's next statement takes. *)
Wants(p) ==
  CASE tx[p].pc = "lockUser" -> "update"
    [] tx[p].pc = "flush" -> IF tx[p].op = "refresh" THEN "share" ELSE "nokey"
    [] tx[p].pc = "update" /\ tx[p].op = "disable" /\ tx[p].todo = {} -> "nokey"
    [] OTHER -> "none"

(* The rows of refresh_tokens that an open transaction has locked. *)
Locked(x) == x.held \cup x.hits

FreeRow(p, t) == \A q \in Proc \ {p} : t \notin Locked(tx[q])

(* PostgreSQL's conflicts of FOR KEY SHARE ("share", what a foreign key     *)
(* takes on the row it refers to), FOR NO KEY UPDATE ("nokey", a plain      *)
(* UPDATE) and FOR UPDATE.                                                  *)
Conflict(m, n) ==
  \/ "update" \in {m, n} /\ "none" \notin {m, n}
  \/ m = "nokey" /\ n = "nokey"

FreeUser(p, u, m) ==
  \A q \in Proc \ {p} : tx[q].user = u => ~Conflict(m, tx[q].lock)

(* Faulty variant: the UPDATE visits the revoked rows too. *)
ScopeOfAll(p) == {t \in Token : /\ Present(t)
                                /\ tx[p].user \in {NoFilter, row[t].user}
                                /\ tx[p].family \in {NoFilter, row[t].family}}

(* The rows the request's UPDATE refresh_tokens finds when it starts. *)
Scope(p) == {t \in Token : /\ Live(t)
                           /\ tx[p].user \in {NoFilter, row[t].user}
                           /\ tx[p].family \in {NoFilter, row[t].family}}

(* Bound: tokens are issued only while one is left for every request that may insert one. *)
TokensLeft ==
  Cardinality({t \in Token : ~Present(t)})
    > Cardinality({p \in Proc : tx[p].op \in {"login", "refresh"}})

Start(p, t) == tx[p].pc = "idle" /\ tx' = [tx EXCEPT ![p] = t]

End(p) == tx' = [tx EXCEPT ![p] = Idle]

-----------------------------------------------------------------------------
(* Faulty variant: the locked row is not tested again. *)
LockUserUnchecked(p) ==
  /\ tx[p].pc = "lockUser" /\ FreeUser(p, tx[p].user, "update")
  /\ tx' = [tx EXCEPT ![p].pc = "commit", ![p].lock = "update"]
  /\ UNCHANGED <<account, row>>

(* POST /login: the account and the password are checked on an unlocked     *)
(* read; prepare_session_tokens reads the user again FOR UPDATE.            *)
Login(p, u) ==
  /\ TokensLeft /\ account[u] = "active"
  /\ Start(p, [Idle EXCEPT !.pc = "lockUser", !.op = "login", !.user = u])
  /\ UNCHANGED <<account, row>>

LockUser(p) ==
  /\ tx[p].pc = "lockUser" /\ FreeUser(p, tx[p].user, "update")
  /\ account[tx[p].user] = "active"
  /\ tx' = [tx EXCEPT ![p].pc = "commit", ![p].lock = "update"]
  /\ UNCHANGED <<account, row>>

RejectLogin(p) ==
  /\ tx[p].pc = "lockUser" /\ FreeUser(p, tx[p].user, "update")
  /\ account[tx[p].user] # "active"
  /\ End(p) /\ UNCHANGED <<account, row>>

CommitLogin(p, t) ==
  /\ tx[p].pc = "commit" /\ tx[p].op = "login" /\ ~Present(t)
  /\ row' = [row EXCEPT ![t] = [user |-> tx[p].user, family |-> t,
                                revoked |-> FALSE, reason |-> "none"]]
  /\ End(p) /\ UNCHANGED account

-----------------------------------------------------------------------------
(* Faulty variant: the token is read without FOR UPDATE. *)
RefreshUnlocked(p, t) ==
  /\ TokensLeft /\ Live(t)
  /\ Start(p, [Idle EXCEPT !.pc = "readUser", !.op = "refresh", !.held = {t},
                           !.user = row[t].user, !.family = row[t].family])
  /\ UNCHANGED <<account, row>>

(* Faulty variant: a revoked token is rotated like any other. *)
RefreshRevoked(p, t) ==
  /\ TokensLeft /\ Present(t) /\ FreeRow(p, t)
  /\ Start(p, [Idle EXCEPT !.pc = "readUser", !.op = "refresh", !.held = {t},
                           !.user = row[t].user, !.family = row[t].family])
  /\ UNCHANGED <<account, row>>

(* POST /auth/refresh: SELECT the token FOR UPDATE.  One already revoked is *)
(* a replay, and its family is revoked.                                     *)
Refresh(p, t) ==
  /\ TokensLeft /\ Live(t) /\ FreeRow(p, t)
  /\ Start(p, [Idle EXCEPT !.pc = "readUser", !.op = "refresh", !.held = {t},
                           !.user = row[t].user, !.family = row[t].family])
  /\ UNCHANGED <<account, row>>

Replay(p, t) ==
  /\ Present(t) /\ row[t].revoked /\ FreeRow(p, t)
  /\ Start(p, [Idle EXCEPT !.pc = "scan", !.op = "revoke", !.held = {t},
                           !.family = row[t].family, !.reason = "reuse_detected"])
  /\ UNCHANGED <<account, row>>

RejectExpired(p) ==
  /\ tx[p].pc = "readUser"
  /\ End(p) /\ UNCHANGED <<account, row>>

(* The owner is read without a lock; an inactive one loses every session.   *)
ReadUser(p) ==
  /\ tx[p].pc = "readUser"
  /\ tx' = [tx EXCEPT ![p] =
       IF account[@.user] = "active" THEN [@ EXCEPT !.pc = "flush"]
       ELSE [@ EXCEPT !.pc = "scan", !.op = "revoke", !.family = NoFilter,
                      !.reason = "account_disabled"]]
  /\ UNCHANGED <<account, row>>

(* Faulty variant: a schema without the foreign key takes no lock. *)
FlushChildUnlocked(p) ==
  /\ tx[p].pc = "flush" /\ tx[p].op = "refresh"
  /\ tx' = [tx EXCEPT ![p].pc = "commit"]
  /\ UNCHANGED <<account, row>>

(* INSERT of the replacement: its foreign key locks the owner FOR KEY SHARE. *)
FlushChild(p) ==
  /\ tx[p].pc = "flush" /\ tx[p].op = "refresh"
  /\ FreeUser(p, tx[p].user, "share")
  /\ tx' = [tx EXCEPT ![p].pc = "commit", ![p].lock = "share"]
  /\ UNCHANGED <<account, row>>

(* Faulty variant: the presented token stays usable. *)
CommitRotationKeeping(p, t, child) ==
  /\ tx[p].pc = "commit" /\ tx[p].op = "refresh" /\ t \in tx[p].held /\ ~Present(child)
  /\ row' = [row EXCEPT ![child] = [user |-> tx[p].user, family |-> tx[p].family,
                                    revoked |-> FALSE, reason |-> "none"]]
  /\ End(p) /\ UNCHANGED account

(* Rotation: the presented token (the one row held) gives way to a child. *)
CommitRotation(p, t, child) ==
  /\ tx[p].pc = "commit" /\ tx[p].op = "refresh" /\ t \in tx[p].held /\ ~Present(child)
  /\ row' = [row EXCEPT ![t] = [@ EXCEPT !.revoked = TRUE, !.reason = "rotated"],
                        ![child] = [user |-> tx[p].user, family |-> tx[p].family,
                                    revoked |-> FALSE, reason |-> "none"]]
  /\ End(p) /\ UNCHANGED account

-----------------------------------------------------------------------------
(* POST /auth/logout: any stored token of the family will do.               *)
Logout(p, t) ==
  /\ Present(t) /\ FreeRow(p, t)
  /\ Start(p, [Idle EXCEPT !.pc = "scan", !.op = "revoke", !.held = {t},
                           !.family = row[t].family, !.reason = "logout"])
  /\ UNCHANGED <<account, row>>

(* DELETE /auth/sessions and /auth/sessions/{id}, by an active user. *)
RevokeSessions(p, u, f) ==
  /\ account[u] = "active"
  /\ Start(p, [Idle EXCEPT !.pc = "scan", !.op = "revoke", !.user = u,
                           !.family = f, !.reason = "user_revoked"])
  /\ UNCHANGED <<account, row>>

(* POST /auth/password-reset/confirm: the user row is locked FOR UPDATE.    *)
ResetPassword(p, u) ==
  /\ account[u] = "active" /\ FreeUser(p, u, "update")
  /\ Start(p, [Idle EXCEPT !.pc = "scan", !.op = "revoke", !.user = u,
                           !.lock = "update", !.reason = "password_reset"])
  /\ UNCHANGED <<account, row>>

(* PATCH /admin/users/{id}/status.  Setting is_active to the value that was *)
(* read changes nothing, so an account read as inactive is not written.     *)
Disable(p, u) ==
  /\ account[u] # "deleted"
  /\ Start(p, [Idle EXCEPT !.pc = "scan", !.user = u, !.reason = "account_disabled",
                 !.op = IF account[u] = "active" THEN "disable" ELSE "revoke"])
  /\ UNCHANGED <<account, row>>

Enable(p, u) ==
  /\ account[u] = "inactive"
  /\ Start(p, [Idle EXCEPT !.pc = "flush", !.op = "enable", !.user = u])
  /\ UNCHANGED <<account, row>>

(* DELETE /admin/users/{id}: the DELETE locks the users row FOR UPDATE.  The *)
(* foreign key of refresh_tokens has no ON DELETE rule: its check looks for *)
(* one row that refers to the user, and locks it FOR KEY SHARE.             *)
Delete(p, u) ==
  /\ account[u] # "deleted" /\ FreeUser(p, u, "update")
  /\ \E found \in IF Owned(u) = {} THEN {{}} ELSE {{t} : t \in Owned(u)} :
       Start(p, [Idle EXCEPT !.pc = "commit", !.op = "delete", !.user = u,
                             !.lock = "update", !.todo = found])
  /\ UNCHANGED <<account, row>>

-----------------------------------------------------------------------------
(* Faulty variant: FOR UPDATE SKIP LOCKED, a locked row is passed over. *)
UpdateRowSkipping(p, t) ==
  /\ tx[p].pc = "update" /\ t \in tx[p].todo
  /\ tx' = [tx EXCEPT ![p].todo = @ \ {t},
                      ![p].hits = IF FreeRow(p, t) THEN @ \cup {t} ELSE @]
  /\ UNCHANGED <<account, row>>

(* UPDATE refresh_tokens ... WHERE revoked IS FALSE: the rows are those of  *)
(* the statement's snapshot, locked one after the other FOR NO KEY UPDATE;  *)
(* a row that changed since the snapshot is tested again once it is locked, *)
(* and one inserted since then is not seen at all.                          *)
Scan(p) ==
  /\ tx[p].pc = "scan"
  /\ tx' = [tx EXCEPT ![p].pc = "update", ![p].todo = Scope(p)]
  /\ UNCHANGED <<account, row>>

UpdateRow(p, t) ==
  /\ tx[p].pc = "update" /\ t \in tx[p].todo /\ FreeRow(p, t)
  /\ tx' = [tx EXCEPT ![p].todo = @ \ {t}, ![p].hits = @ \cup {t}]
  /\ UNCHANGED <<account, row>>

(* Faulty variant: the locked row is not tested again. *)
RevokedUnchecked(p) == [t \in Token |-> IF t \in tx[p].hits
                               THEN [row[t] EXCEPT !.revoked = TRUE, !.reason = tx[p].reason]
                               ELSE row[t]]

(* Nobody changes a locked row, so the test comes out now as it did then. *)
Revoked(p) == [t \in Token |-> IF t \in tx[p].hits /\ Live(t)
                               THEN [row[t] EXCEPT !.revoked = TRUE, !.reason = tx[p].reason]
                               ELSE row[t]]

CommitRevocation(p) ==
  /\ tx[p].pc = "update" /\ tx[p].op = "revoke" /\ tx[p].todo = {}
  /\ row' = Revoked(p)
  /\ End(p) /\ UNCHANGED account

(* UPDATE users: for a disabled account it is sent after the sessions'      *)
(* UPDATE, when the commit flushes the pending is_active.                   *)
FlushUser(p) ==
  /\ Wants(p) = "nokey" /\ FreeUser(p, tx[p].user, "nokey") /\ account[tx[p].user] # "deleted"
  /\ tx' = [tx EXCEPT ![p].pc = "commit", ![p].lock = "nokey"]
  /\ UNCHANGED <<account, row>>

CommitStatus(p) ==
  /\ tx[p].pc = "commit" /\ tx[p].op \in {"disable", "enable"}
  /\ account' = [account EXCEPT ![tx[p].user] =
                   IF tx[p].op = "disable" THEN "inactive" ELSE "active"]
  /\ row' = Revoked(p)
  /\ End(p)

CommitDelete(p) ==
  /\ tx[p].pc = "commit" /\ tx[p].op = "delete" /\ tx[p].todo = {}
  /\ account' = [account EXCEPT ![tx[p].user] = "deleted"]
  /\ End(p) /\ UNCHANGED row

-----------------------------------------------------------------------------
(* The statement that fails: an UPDATE of a users row that is gone, or the  *)
(* DELETE of one that refresh tokens still refer to.                        *)
RejectFlush(p) ==
  /\ \/ /\ Wants(p) = "nokey" /\ FreeUser(p, tx[p].user, "nokey")
        /\ account[tx[p].user] = "deleted"
     \/ /\ tx[p].op = "delete" /\ tx[p].todo # {}
        /\ \A t \in tx[p].todo, q \in Proc \ {p} : t \notin tx[q].held
  /\ End(p) /\ UNCHANGED <<account, row>>

(* Any other exception, a lost connection, a killed worker: db.rollback().  *)
Rollback(p) ==
  /\ tx[p].pc # "idle"
  /\ End(p) /\ UNCHANGED <<account, row>>

(* q holds what p's next statement, or the next row of it, may wait for. *)
WaitsFor(p, q) ==
  \/ q # p /\ tx[p].pc = "update" /\ tx[p].todo \cap Locked(tx[q]) # {}
  \/ q # p /\ tx[p].op = "delete" /\ tx[p].todo \cap tx[q].held # {}
  \/ q # p /\ tx[q].user = tx[p].user /\ Conflict(Wants(p), tx[q].lock)

(* Everybody in S waits for another one, and no two for the same. *)
Cycle(S) ==
  \E next \in [S -> S] : \A q \in S : WaitsFor(q, next[q]) /\ \A r \in S \ {q} : next[q] # next[r]

(* PostgreSQL finds a cycle of waiting transactions and fails one of them. *)
Deadlocked(p) == \E S \in SUBSET Proc : p \in S /\ Cycle(S)

DeadlockVictim(p) == Deadlocked(p) /\ End(p) /\ UNCHANGED <<account, row>>

(* What the code does next of its own accord, once a request has begun. *)
Step(p) ==
  \/ LockUser(p) \/ RejectLogin(p) \/ \E t \in Token : CommitLogin(p, t)
  \/ ReadUser(p) \/ FlushChild(p) \/ \E t, child \in Token : CommitRotation(p, t, child)
  \/ Scan(p) \/ \E t \in Token : UpdateRow(p, t)
  \/ CommitRevocation(p) \/ FlushUser(p) \/ CommitStatus(p) \/ CommitDelete(p) \/ RejectFlush(p)

Request(p) ==
  \/ \E u \in User : \/ Login(p, u) \/ ResetPassword(p, u)
                     \/ Disable(p, u) \/ Enable(p, u) \/ Delete(p, u)
                     \/ \E f \in Token : Present(f) /\ RevokeSessions(p, u, row[f].family)
                     \/ RevokeSessions(p, u, NoFilter)
  \/ \E t \in Token : Refresh(p, t) \/ Replay(p, t) \/ Logout(p, t)

Next == \E p \in Proc :
  Request(p) \/ Step(p) \/ RejectExpired(p) \/ Rollback(p) \/ DeadlockVictim(p)

Spec == Init /\ [][Next]_vars

-----------------------------------------------------------------------------
(* At most one token of a family is usable: two concurrent refreshes of the *)
(* same token never both get a replacement (the FOR UPDATE of refresh.py).  *)
OneLivePerFamily ==
  \A s, t \in Token : Live(s) /\ Live(t) /\ row[s].family = row[t].family => s = t

(* Every token of a family but the first was paid for with exactly one      *)
(* token marked "rotated".                                                  *)
RotatedOnce ==
  \A f \in Token : LET F == {t \in Token : Present(t) /\ row[t].family = f} IN
    F # {} => Cardinality({t \in F : row[t].reason = "rotated"}) + 1 = Cardinality(F)

(* A revoked token is never usable again, and keeps the reason, family and  *)
(* owner it was revoked with, whoever else was about to revoke it.          *)
RevocationIsFinal ==
  [][\A t \in Token : Present(t) /\ row[t].revoked => row'[t] = row[t]]_vars

(* A password reset leaves no usable session behind, not even the child of  *)
(* a rotation that ran at the same time (the foreign key's KEY SHARE lock   *)
(* meets the reset's FOR UPDATE).                                           *)
ResetRevokesAll ==
  [][\A p \in Proc : tx[p].reason = "password_reset" /\ CommitRevocation(p)
       => \A t \in Token : row'[t] # NoRow /\ row'[t].user = tx[p].user
                            => row'[t].revoked]_vars

(* A sign-in commits a session only for an account active at that moment,   *)
(* though the account was first checked on an unlocked read.                *)
SignInOnlyActive ==
  [][\A t \in Token : ~Present(t) /\ Present(t)' /\ row'[t].family = t
       => account[row'[t].user] = "active"]_vars

(* No refresh token outlives its user, though deletion and sign-in race.    *)
NoOrphan == \A t \in Token : Present(t) => account[row[t].user] # "deleted"

(* Why the above hold: what an open transaction knows about the rows and    *)
(* the account it has locked.                                               *)
LocksExclusive ==
  \A p, q \in Proc : p # q =>
    /\ Locked(tx[p]) \cap Locked(tx[q]) = {}
    /\ tx[p].user = tx[q].user => ~Conflict(tx[p].lock, tx[q].lock)

FamilyRoots == \A t \in Token : Present(t) => Present(row[t].family)

Knows(x) ==
  /\ x.pc = "idle" => x = Idle
  /\ x.op = "refresh" =>
       /\ x.pc \in {"readUser", "flush", "commit"} /\ x.hits = {}
       /\ \A t \in x.held : Live(t) /\ row[t].user = x.user
                                       /\ row[t].family = x.family
       /\ x.pc = "commit" => x.lock = "share"
  /\ x.op = "login" =>
       /\ x.pc \in {"lockUser", "commit"} /\ x.user \in User
       /\ x.pc = "commit" => x.lock = "update" /\ account[x.user] = "active"
  /\ x.pc = "readUser" => x.op = "refresh"
  /\ x.pc = "lockUser" => x.op = "login"
  /\ x.pc = "flush" => x.op \in {"refresh", "enable"}
  /\ x.pc \in {"lockUser", "readUser", "flush"} => x.lock = "none"
  /\ x.op \in {"disable", "enable", "delete"} => x.user \in User
  /\ x.op = "delete" =>
       /\ x.pc = "commit" /\ x.lock = "update" /\ x.hits = {}
       /\ x.todo = {} => Owned(x.user) = {}
  /\ x.pc = "commit" /\ x.op \in {"disable", "enable"} => x.lock = "nokey"
  /\ \A t \in Locked(x) \cup x.todo : Present(t)
  /\ x.hits # {} \/ x.pc \in {"scan", "update"} => x.op \in {"revoke", "disable"}
  /\ x.op \in {"revoke", "disable"} => x.reason \notin {"none", "rotated"}
  /\ x.pc = "scan" => x.hits = {}

(* Once the reset's UPDATE has started, no session of the user escapes it.  *)
ResetSees(x) ==
  x.reason = "password_reset" =>
    /\ x.op = "revoke" /\ x.lock = "update" /\ x.family = NoFilter
    /\ x.user \in User /\ x.pc \in {"scan", "update"}
    /\ x.pc = "update" => LiveSessions(x.user) \subseteq x.todo \cup x.hits

IndInv == /\ TypeOK /\ LocksExclusive /\ FamilyRoots /\ OneLivePerFamily /\ NoOrphan
          /\ \A p \in Proc : Knows(tx[p]) /\ ResetSees(tx[p])

(* Requests of users that sign in, rotate, replay or end one family never   *)
(* wait for each other in a circle, though all but a sign-in lock rows one  *)
(* after the other: of a family only the usable row is visited, and a row   *)
(* taken before it is older.  PostgreSQL has a deadlock to break only if    *)
(* some request means a whole account.                                      *)
Narrow(p) ==
  \/ tx[p].op \in {"login", "refresh", "enable"}
  \/ tx[p].op = "revoke" /\ tx[p].family # NoFilter

DeadlockMeansAccount ==
  \A S \in SUBSET {p \in Proc : Narrow(p)} : S # {} => ~Cycle(S)

(* The sessions that a revocation under way will leave usable.              *)
Escaping(p) ==
  IF tx[p].op \in {"revoke", "disable"} /\ tx[p].pc \in {"update", "commit"}
  THEN Scope(p) \ (tx[p].todo \cup tx[p].hits) ELSE {}

(* What a replay, a logout, a reset or an administrator fails to revoke was *)
(* inserted after the revoking UPDATE had begun; no token that was there    *)
(* then escapes it, whoever holds its row meanwhile.                        *)
OnlyNewEscape ==
  [][\A p \in Proc, t \in Token : t \in Escaping(p)' => t \in Escaping(p) \/ ~Present(t)]_vars

(* A logout or a replay that has locked a usable token of the family closes *)
(* it: nobody changes that row before the commit, and then no token of the  *)
(* family is usable, so only one presented with an old token can lose to a  *)
(* rotation.                                                                *)
CurrentTokenCloses ==
  [][\A p \in Proc, t \in Token :
       tx[p].op = "revoke" /\ tx[p].family # NoFilter /\ t \in Locked(tx[p]) /\ Live(t) =>
         IF CommitRevocation(p)
         THEN \A s \in Token : Present(s) /\ row[s].family = tx[p].family => row'[s].revoked
         ELSE row'[t] = row[t]]_vars

(* A disabled account has no usable session: ARCHITECTURE.md, "atomically   *)
(* marks the account inactive and revokes every refresh-token session".     *)
DisabledHasNoSession ==
  \A u \in User : account[u] = "inactive" => LiveSessions(u) = {}

(* Presenting a rotated token again closes its family: ARCHITECTURE.md,     *)
(* "Replay of a rotated token revokes the family's live descendant".        *)
ReplayClosesFamily ==
  [][\A p \in Proc : tx[p].reason = "reuse_detected" /\ CommitRevocation(p)
       => \A t \in Token : row[t] # NoRow /\ row[t].family = tx[p].family
                            => row'[t].revoked]_vars

-----------------------------------------------------------------------------
(* The families these tables stand for. *)
Family(f) == {t \in Token : Present(t) /\ row[t].family = f}
Usable(f) == {t \in Family(f) : ~row[t].revoked}
Only(S) == CHOOSE t \in S : TRUE

Life == [f \in Token |-> IF Family(f) = {} THEN "none"
                        ELSE IF Usable(f) # {} THEN "open" ELSE "closed"]
Current == [f \in Token |-> IF Usable(f) = {} THEN NoRow ELSE Only(Usable(f))]
Issued == {t \in Token : Present(t)}

Families == INSTANCE SessionFamilies WITH
  NoToken <- NoRow, life <- Life, current <- Current, issued <- Issued

(* The tables implement families that are rotated one token at a time and   *)
(* never reopened.                                                          *)
ImplementsFamilies == Families!Spec
=============================================================================
