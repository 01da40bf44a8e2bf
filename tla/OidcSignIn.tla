----------------------------- MODULE OidcSignIn -----------------------------
(***************************************************************************)
(* Sign-in with an external provider, and the identities linked to local   *)
(* accounts (app/services/oidc.py, app/api/v1/oidc.py).                    *)
(*                                                                         *)
(* The callback locks its transaction row and keeps the lock while it asks *)
(* the provider; a login then locks the identity and after it the account, *)
(* a link the account and after it the identity, an unlink the identity    *)
(* and then the account; a deletion locks the account, and its cascades    *)
(* the identities and transactions.  A row that does not exist cannot be   *)
(* locked: the unique indexes decide between two that insert it.           *)
(*                                                                         *)
(* An identity's key (issuer, subject) is a member of Subject, and stands  *)
(* for its row's id as well.  A transaction belongs to the issuer it comes *)
(* back with; one that is expired, or of another browser or configuration, *)
(* is refused, which changes nothing.  Whether a login ends with a session *)
(* or with a challenge of MultiFactor is left open.  Sessions are those of *)
(* RefreshSessions, kept here by account and identity; the accounts' other *)
(* life, modelled there and in ActionTokens, is one step each.             *)
(***************************************************************************)
EXTENDS Naturals, FiniteSets

CONSTANTS User, Subject, Txn, Proc, Email,
          Issuer, IssuerOf,   \* the provider each subject belongs to
          Nobody, NoEmail, NoSubject

ASSUME Issuers == IssuerOf \in [Subject -> Issuer] /\ IsFiniteSet(Subject) /\ IsFiniteSet(Proc)
ASSUME Sentinels == Nobody \notin User /\ NoEmail \notin Email /\ NoSubject \notin Subject

VARIABLES account,    \* users
          identity,   \* external_identities: the account of each subject
          txn,        \* oidc_transactions
          session,    \* the sessions opened through an identity
          tx,         \* the open database transaction of each request
          uses        \* history: how often each OIDC transaction was accepted

vars == <<account, identity, txn, session, tx, uses>>

Tx == [pc: {"idle", "exchange", "identity", "account", "email", "provider", "insert",
            "count", "commit", "cascade"},
       op: {"none", "login", "link", "unlink", "delete"},
       given: SUBSET Txn,        \* the OIDC transactions locked
       subject: Subject \cup {NoSubject},
       email: Email \cup {NoEmail},   \* the verified address in the claims
       user: User \cup {Nobody},
       held: SUBSET Subject,     \* the identities locked
       lock: BOOLEAN,            \* is the row of `user' locked
       seen: BOOLEAN]            \* password_login_enabled when get_current_user read it

Idle == [pc |-> "idle", op |-> "none", given |-> {}, subject |-> NoSubject, email |-> NoEmail,
         user |-> Nobody, held |-> {}, lock |-> FALSE, seen |-> FALSE]

(* intent = "link" is a transaction bound to a user. *)
TypeOK ==
  /\ account \in [User -> [stage: {"none", "active", "disabled", "deleted"},
                           email: Email \cup {NoEmail}, password: BOOLEAN]]
  /\ identity \in [Subject -> User \cup {Nobody}]
  /\ txn \in [Txn -> [stage: {"none", "open", "consumed", "deleted"}, user: User \cup {Nobody}]]
  /\ session \subseteq User \X Subject
  /\ tx \in [Proc -> Tx]
  /\ uses \in [Txn -> Nat]

Init ==
  /\ account = [u \in User |-> [stage |-> "none", email |-> NoEmail, password |-> FALSE]]
  /\ identity = [s \in Subject |-> Nobody]
  /\ txn = [t \in Txn |-> [stage |-> "none", user |-> Nobody]]
  /\ session = {}
  /\ tx = [p \in Proc |-> Idle]
  /\ uses = [t \in Txn |-> 0]

-----------------------------------------------------------------------------
Exists(u) == account[u].stage \in {"active", "disabled"}
Identities(u) == {s \in Subject : identity[s] = u}
Holder(e) == {u \in User : Exists(u) /\ account[u].email = e /\ e # NoEmail}
SameProvider(u, s) == {i \in Identities(u) : IssuerOf[i] = IssuerOf[s]}

Locks(p, u) == tx[p].lock /\ tx[p].user = u
FreeUser(p, u) == \A q \in Proc \ {p} : ~Locks(q, u)
FreeIdentity(p, s) == \A q \in Proc \ {p} : s \notin tx[q].held
Untouched(u) == \A p \in Proc : ~Locks(p, u)

At(p, pc) == tx[p].pc = pc

End(p) == tx' = [tx EXCEPT ![p] = Idle]
Refused(p) == End(p) /\ UNCHANGED <<account, identity, txn, session, uses>>
GoOn(p, x) == tx' = [tx EXCEPT ![p] = x] /\ UNCHANGED <<account, identity, txn, session, uses>>

(* The commit of a callback: the transaction is consumed. *)
Consume(p) ==
  /\ txn' = [t \in Txn |-> IF t \in tx[p].given THEN [txn[t] EXCEPT !.stage = "consumed"] ELSE txn[t]]
  /\ uses' = [t \in Txn |-> IF t \in tx[p].given THEN uses[t] + 1 ELSE uses[t]]

WithoutSessions(u) == {x \in session : x[1] # u}

-----------------------------------------------------------------------------
(* GET /auth/oidc/authorize, POST /auth/oidc/link/authorize, whose foreign  *)
(* key shares the account with everybody but those who lock it FOR UPDATE.  *)
Begin(t, u) ==
  /\ txn[t].stage = "none" /\ (u \in User => Exists(u) /\ Untouched(u))
  /\ txn' = [txn EXCEPT ![t] = [stage |-> "open", user |-> u]]
  /\ UNCHANGED <<account, identity, session, tx, uses>>

(* Faulty variant: the transaction is read without FOR UPDATE. *)
CallbackUnlocked(p, t) ==
  /\ At(p, "idle") /\ txn[t].stage = "open"
  /\ GoOn(p, [Idle EXCEPT !.pc = "exchange", !.given = {t}, !.user = txn[t].user,
                          !.op = IF txn[t].user = Nobody THEN "login" ELSE "link"])

(* GET /auth/oidc/callback. *)
Callback(p, t) ==
  /\ At(p, "idle") /\ txn[t].stage = "open" /\ \A q \in Proc : t \notin tx[q].given
  /\ GoOn(p, [Idle EXCEPT !.pc = "exchange", !.given = {t}, !.user = txn[t].user,
                          !.op = IF txn[t].user = Nobody THEN "login" ELSE "link"])

(* Discovery, code exchange and a valid ID token, the rows staying locked.  *)
Exchange(p, s, e) ==
  /\ At(p, "exchange")
  /\ GoOn(p, [tx[p] EXCEPT !.pc = IF tx[p].op = "link" THEN "account" ELSE "identity",
                           !.subject = s, !.email = e])

ProviderError(p) == At(p, "exchange") /\ Refused(p)

(* Faulty variant: get_current_user locks the account it reads. *)
CallUnlinkLocking(p, u, s) ==
  /\ At(p, "idle") /\ account[u].stage = "active" /\ FreeUser(p, u)
  /\ GoOn(p, [Idle EXCEPT !.pc = "identity", !.op = "unlink", !.subject = s, !.user = u,
                          !.seen = account[u].password, !.lock = TRUE])

(* DELETE /auth/oidc/identities/{id}: get_current_user reads the account.   *)
CallUnlink(p, u, s) ==
  /\ At(p, "idle") /\ account[u].stage = "active"
  /\ GoOn(p, [Idle EXCEPT !.pc = "identity", !.op = "unlink", !.subject = s, !.user = u,
                          !.seen = account[u].password])

-----------------------------------------------------------------------------
(* SELECT the identity FOR UPDATE. *)
FindForLogin(p) ==
  /\ At(p, "identity") /\ tx[p].op = "login" /\ FreeIdentity(p, tx[p].subject)
  /\ IF identity[tx[p].subject] # Nobody
     THEN GoOn(p, [tx[p] EXCEPT !.pc = "account", !.user = identity[tx[p].subject],
                                !.held = {tx[p].subject}])
     ELSE GoOn(p, [tx[p] EXCEPT !.pc = "email"])

FindForLink(p) ==
  /\ At(p, "identity") /\ tx[p].op = "link" /\ FreeIdentity(p, tx[p].subject)
  /\ CASE identity[tx[p].subject] = tx[p].user ->
            GoOn(p, [tx[p] EXCEPT !.pc = "commit", !.held = {tx[p].subject}])
       [] identity[tx[p].subject] = Nobody -> GoOn(p, [tx[p] EXCEPT !.pc = "provider"])
       [] OTHER -> Refused(p)

FindForUnlink(p) ==
  /\ At(p, "identity") /\ tx[p].op = "unlink"
  /\ IF identity[tx[p].subject] = tx[p].user
     THEN /\ FreeIdentity(p, tx[p].subject)
          /\ GoOn(p, [tx[p] EXCEPT !.pc = "account", !.held = {tx[p].subject}])
     ELSE Refused(p)

AfterLock == [login |-> "commit", link |-> "identity", unlink |-> "count"]

(* Faulty variant: without FOR UPDATE. *)
LockAccountUnlocked(p) ==
  /\ At(p, "account")
  /\ IF tx[p].op = "unlink" \/ account[tx[p].user].stage = "active"
     THEN GoOn(p, [tx[p] EXCEPT !.pc = AfterLock[tx[p].op]])
     ELSE Refused(p)

(* SELECT the user FOR UPDATE; unlink has read is_active before, and goes   *)
(* on with the columns it read then.                                        *)
LockAccount(p) ==
  /\ At(p, "account") /\ FreeUser(p, tx[p].user)
  /\ IF tx[p].op = "unlink" \/ account[tx[p].user].stage = "active"
     THEN GoOn(p, [tx[p] EXCEPT !.pc = AfterLock[tx[p].op], !.lock = TRUE])
     ELSE Refused(p)

(* A login: MFA is enabled, or a session is opened. *)
CommitLogin(p) ==
  /\ At(p, "commit") /\ tx[p].op = "login"
  /\ session' \in {session, session \cup {<<tx[p].user, tx[p].subject>>}}
  /\ Consume(p) /\ End(p) /\ UNCHANGED <<account, identity>>

(* A link of an identity the account has already. *)
CommitLinked(p) ==
  /\ At(p, "commit") /\ tx[p].op = "link"
  /\ Consume(p) /\ End(p) /\ UNCHANGED <<account, identity, session>>

-----------------------------------------------------------------------------
(* Faulty variant: an account with the provider's address is taken over. *)
CheckEmailLinking(p) ==
  /\ At(p, "email")
  /\ \/ tx[p].email = NoEmail /\ Refused(p)
     \/ /\ tx[p].email # NoEmail /\ Holder(tx[p].email) = {}
        /\ GoOn(p, [tx[p] EXCEPT !.pc = "insert"])
     \/ \E u \in Holder(tx[p].email) :
          FreeUser(p, u) /\ GoOn(p, [tx[p] EXCEPT !.pc = "insert", !.op = "link", !.user = u])

(* An unknown identity needs a verified address that no account has.        *)
CheckEmail(p) ==
  /\ At(p, "email")
  /\ \/ tx[p].email = NoEmail /\ Refused(p)
     \/ /\ tx[p].email # NoEmail /\ Holder(tx[p].email) = {}
        /\ GoOn(p, [tx[p] EXCEPT !.pc = "insert"])
     \/ \E u \in Holder(tx[p].email) : FreeUser(p, u) /\ Refused(p)

(* The unique indexes on the address, (issuer, subject), (user_id, issuer). *)
Unique(p) ==
  /\ identity[tx[p].subject] = Nobody
  /\ IF tx[p].op = "login" THEN Holder(tx[p].email) = {}
                           ELSE SameProvider(tx[p].user, tx[p].subject) = {}

SignUp(p, u) ==
  /\ At(p, "insert") /\ tx[p].op = "login" /\ Unique(p) /\ account[u].stage = "none"
  /\ account' = [account EXCEPT ![u] = [stage |-> "active", email |-> tx[p].email, password |-> FALSE]]
  /\ identity' = [identity EXCEPT ![tx[p].subject] = u]
  /\ session' = session \cup {<<u, tx[p].subject>>}
  /\ Consume(p) /\ End(p)

(* Bound: with every member of User taken, no account can be created.       *)
OutOfAccounts(p) ==
  /\ At(p, "insert") /\ tx[p].op = "login" /\ \A u \in User : account[u].stage # "none"
  /\ Refused(p)

(* The account has an identity of this provider already. *)
CheckProvider(p) ==
  /\ At(p, "provider")
  /\ \/ /\ SameProvider(tx[p].user, tx[p].subject) = {}
        /\ GoOn(p, [tx[p] EXCEPT !.pc = "insert"])
     \/ /\ \E s \in SameProvider(tx[p].user, tx[p].subject) : FreeIdentity(p, s)
        /\ Refused(p)

Link(p) ==
  /\ At(p, "insert") /\ tx[p].op = "link" /\ Unique(p)
  /\ identity' = [identity EXCEPT ![tx[p].subject] = tx[p].user]
  /\ session' = WithoutSessions(tx[p].user)
  /\ Consume(p) /\ End(p) /\ UNCHANGED account

(* A row that q is deleting, and an index still refuses a second one of. *)
Removes(q, p) ==
  /\ tx[q].op = "delete"
  /\ \/ tx[p].subject \in tx[q].held
     \/ tx[p].op = "login" /\ tx[q].user \in Holder(tx[p].email)

(* An index refuses the row, once nobody is deleting the one in its place.  *)
Conflict(p) ==
  /\ At(p, "insert") /\ ~Unique(p) /\ \A q \in Proc \ {p} : ~Removes(q, p)
  /\ Refused(p)

-----------------------------------------------------------------------------
(* The only sign-in method stays. *)
CountIdentities(p) ==
  /\ At(p, "count")
  /\ IF ~tx[p].seen /\ Cardinality(Identities(tx[p].user)) =< 1
     THEN Refused(p)
     ELSE GoOn(p, [tx[p] EXCEPT !.pc = "commit"])

(* Faulty variant: the sessions are not revoked. *)
UnlinkKeeping(p) ==
  /\ At(p, "commit") /\ tx[p].op = "unlink"
  /\ identity' = [identity EXCEPT ![tx[p].subject] = Nobody]
  /\ End(p) /\ UNCHANGED <<account, txn, session, uses>>

Unlink(p) ==
  /\ At(p, "commit") /\ tx[p].op = "unlink"
  /\ identity' = [identity EXCEPT ![tx[p].subject] = Nobody]
  /\ session' = WithoutSessions(tx[p].user)
  /\ End(p) /\ UNCHANGED <<account, txn, uses>>

-----------------------------------------------------------------------------
(* POST /register. *)
Register(u, e) ==
  /\ account[u].stage = "none" /\ Holder(e) = {}
  /\ account' = [account EXCEPT ![u] = [stage |-> "active", email |-> e, password |-> TRUE]]
  /\ UNCHANGED <<identity, txn, session, tx, uses>>

(* PATCH /admin/users/{id}/status; its revocation is EndSessions. *)
SetActive(u, stage) ==
  /\ Exists(u) /\ Untouched(u)
  /\ account' = [account EXCEPT ![u].stage = stage]
  /\ UNCHANGED <<identity, txn, session, tx, uses>>

(* A confirmed reset enables the password of an account with an address.    *)
ResetPassword(u) ==
  /\ account[u].stage = "active" /\ account[u].email # NoEmail /\ Untouched(u)
  /\ account' = [account EXCEPT ![u].password = TRUE]
  /\ session' = WithoutSessions(u)
  /\ UNCHANGED <<identity, txn, tx, uses>>

(* Logout and every other revocation of sessions. *)
EndSessions(u) ==
  /\ session' = WithoutSessions(u)
  /\ UNCHANGED <<account, identity, txn, tx, uses>>

(* DELETE /admin/users/{id} locks the account FOR UPDATE; identities and    *)
(* transactions go by cascade, each row locked before it goes.              *)
Delete(p, u) ==
  /\ At(p, "idle") /\ Exists(u) /\ FreeUser(p, u)
  /\ GoOn(p, [Idle EXCEPT !.pc = "cascade", !.op = "delete", !.user = u, !.lock = TRUE])

CascadeIdentity(p, s) ==
  /\ At(p, "cascade") /\ s \in Identities(tx[p].user) \ tx[p].held /\ FreeIdentity(p, s)
  /\ GoOn(p, [tx[p] EXCEPT !.held = @ \cup {s}])

CascadeTransaction(p, t) ==
  /\ At(p, "cascade") /\ txn[t].user = tx[p].user /\ \A q \in Proc : t \notin tx[q].given
  /\ GoOn(p, [tx[p] EXCEPT !.given = @ \cup {t}])

(* refresh_tokens has no cascade: its rows keep the account they refer to.  *)
RejectDelete(p) ==
  /\ At(p, "cascade") /\ \E x \in session : x[1] = tx[p].user
  /\ Refused(p)

CommitDelete(p) ==
  /\ At(p, "cascade") /\ session = WithoutSessions(tx[p].user)
  /\ Identities(tx[p].user) \subseteq tx[p].held
  /\ {t \in Txn : txn[t].user = tx[p].user} \subseteq tx[p].given
  /\ account' = [account EXCEPT ![tx[p].user].stage = "deleted"]
  /\ identity' = [s \in Subject |-> IF s \in tx[p].held THEN Nobody ELSE identity[s]]
  /\ txn' = [t \in Txn |-> IF t \in tx[p].given THEN [txn[t] EXCEPT !.stage = "deleted"] ELSE txn[t]]
  /\ End(p) /\ UNCHANGED <<session, uses>>

-----------------------------------------------------------------------------
Rollback(p) == ~At(p, "idle") /\ Refused(p)

(* q holds what p's next statement, or the next row of it, may wait for. *)
WaitsFor(p, q) ==
  /\ q # p
  /\ \/ /\ At(p, "identity") /\ tx[p].subject \in tx[q].held
        /\ tx[p].op = "unlink" => identity[tx[p].subject] = tx[p].user
     \/ At(p, "account") /\ Locks(q, tx[p].user)
     \/ At(p, "email") /\ \E u \in Holder(tx[p].email) : Locks(q, u)
     \/ At(p, "provider") /\ tx[q].held \cap SameProvider(tx[p].user, tx[p].subject) # {}
     \/ At(p, "insert") /\ Removes(q, p)
     \/ /\ At(p, "cascade")
        /\ \/ tx[q].held \cap Identities(tx[p].user) # {}
           \/ \E t \in tx[q].given : txn[t].user = tx[p].user

(* Everybody in S waits for another one, and no two for the same. *)
Cycle(S) ==
  \E next \in [S -> S] : \A q \in S : WaitsFor(q, next[q]) /\ \A r \in S \ {q} : next[q] # next[r]

(* PostgreSQL finds a cycle of waiting transactions and fails one of them. *)
Deadlocked(p) == \E S \in SUBSET Proc : p \in S /\ Cycle(S)

DeadlockVictim(p) == Deadlocked(p) /\ Refused(p)

(* What the code does next of its own accord, once a request has begun.    *)
Step(p) ==
  \/ \E s \in Subject, e \in Email \cup {NoEmail} : Exchange(p, s, e)
  \/ ProviderError(p)
  \/ FindForLogin(p) \/ FindForLink(p) \/ FindForUnlink(p) \/ LockAccount(p)
  \/ CommitLogin(p) \/ CommitLinked(p)
  \/ CheckEmail(p) \/ (\E u \in User : SignUp(p, u)) \/ OutOfAccounts(p)
  \/ CheckProvider(p) \/ Link(p) \/ Conflict(p)
  \/ CountIdentities(p) \/ Unlink(p)
  \/ (\E s \in Subject : CascadeIdentity(p, s)) \/ (\E t \in Txn : CascadeTransaction(p, t))
  \/ RejectDelete(p) \/ CommitDelete(p)

Next ==
  \/ \E t \in Txn, u \in User \cup {Nobody} : Begin(t, u)
  \/ \E p \in Proc : \/ \E t \in Txn : Callback(p, t)
                     \/ \E u \in User, s \in Subject : CallUnlink(p, u, s)
                     \/ \E u \in User : Delete(p, u)
                     \/ Step(p) \/ Rollback(p) \/ DeadlockVictim(p)
  \/ \E u \in User : \/ \E e \in Email \cup {NoEmail} : Register(u, e)
                     \/ \E stage \in {"active", "disabled"} : SetActive(u, stage)
                     \/ ResetPassword(u) \/ EndSessions(u)

Spec == Init /\ [][Next]_vars

-----------------------------------------------------------------------------
(* "The last sign-in method of an OIDC-only account cannot be removed"      *)
(* (API_EXAMPLES.md): an account whose password does not work always has an *)
(* identity, whichever unlinks, resets and logins run at once.              *)
SignInMethod ==
  \A u \in User : Exists(u) /\ ~account[u].password => Identities(u) # {}

(* "Link and unlink operations revoke refresh sessions": no session outlives*)
(* the identity that opened it, nor one of a callback that found the        *)
(* identity just before it was unlinked.                                    *)
SessionHasIdentity == \A x \in session : identity[x[2]] = x[1]

(* An existing account gets an identity only by a callback of a transaction *)
(* that this account began; a matching address never links it, whenever it  *)
(* is registered.                                                           *)
LinkedByOwner ==
  [][\A u \in User, s \in Subject : Exists(u) /\ identity[s] # u /\ identity'[s] = u =>
       \E t \in Txn : txn[t] = [stage |-> "open", user |-> u] /\ txn'[t].stage = "consumed"]_vars

(* A callback opens a session or links an identity only for an account that *)
(* is active when it commits, though administrators disable it meanwhile.   *)
OnlyActive ==
  [][/\ \A x \in session' \ session : account'[x[1]].stage = "active"
     /\ \A s \in Subject : identity'[s] \notin {identity[s], Nobody} =>
          account'[identity'[s]].stage = "active"]_vars

(* Sign-ins and unlinks lock the identity before the account, links the     *)
(* account before the identity, deletions the account before everything the *)
(* others hold.  Every deadlock needs two of these orders: any number of    *)
(* sign-ins and unlinks, or of links, never deadlock among themselves.      *)
DeadlockMeansTwoOrders ==
  \A S \in SUBSET Proc : S # {} /\ Cycle(S) =>
    \/ \E p \in S : tx[p].op = "delete"
    \/ \E p, q \in S : tx[p].op = "link" /\ tx[q].op # "link"

(* Why the safety properties hold. *)
LocksExclusive ==
  \A p, q \in Proc : p # q => /\ tx[p].given \cap tx[q].given = {}
                              /\ tx[p].held \cap tx[q].held = {}
                              /\ ~(tx[p].lock /\ tx[q].lock /\ tx[p].user = tx[q].user)

(* What a request knows from the rows it has locked. *)
Knows(x) ==
  /\ x.pc = "idle" => x = Idle
  /\ x.pc # "idle" => x.op # "none"
  /\ x.op \in {"login", "link"} =>
       \E t \in x.given : /\ x.given = {t} /\ txn[t].stage = "open"
                          /\ txn[t].user = IF x.op = "link" THEN x.user ELSE Nobody
  /\ x.op = "link" => x.user \in User
  /\ x.op = "unlink" => x.given = {} /\ x.user \in User
  /\ x.op \in {"login", "link", "unlink"} /\ x.pc # "exchange" => x.subject \in Subject
  /\ x.op = "delete" <=> x.pc = "cascade"
  /\ x.op = "delete" => x.user \in User /\ \A t \in x.given : txn[t].user = x.user
  /\ x.op # "delete" =>
       x.held = IF x.pc \in {"count", "commit"} \/ (x.pc = "account" /\ x.op # "link")
                THEN {x.subject} ELSE {}
  /\ x.lock <=> \/ x.pc \in {"count", "commit", "cascade"}
                \/ x.op = "link" /\ x.pc \in {"identity", "provider", "insert"}
  /\ \A s \in x.held : identity[s] = x.user /\ x.user \in User
  /\ x.lock => x.user \in User /\ Exists(x.user)
  /\ x.lock /\ x.op \in {"login", "link"} => account[x.user].stage = "active"
  /\ x.pc = "account" => x.user \in User
  /\ x.pc = "count" => x.op = "unlink"
  /\ x.pc = "provider" => x.op = "link"
  /\ x.pc = "insert" => x.op \in {"login", "link"}
  /\ x.pc = "email" => x.op = "login"
  /\ x.seen => x.op = "unlink" /\ account[x.user].password

(* An unlink that passed the count leaves something to sign in with. *)
AnotherMethod(x) ==
  x.op = "unlink" /\ x.pc = "commit" =>
    account[x.user].password \/ Identities(x.user) \ {x.subject} # {}

Unspent ==
  \A t \in Txn : /\ txn[t].stage = "none" => txn[t].user = Nobody
                 /\ txn[t].stage \in {"none", "open"} => uses[t] = 0
                 /\ txn[t].stage = "consumed" => uses[t] = 1

Rows == /\ \A s \in Subject : identity[s] \in User => Exists(identity[s])
        /\ \A u \in User : account[u].stage = "none" => ~account[u].password

IndInv == TypeOK /\ LocksExclusive /\ Unspent /\ Rows /\ SignInMethod
          /\ SessionHasIdentity /\ \A p \in Proc : Knows(tx[p]) /\ AnotherMethod(tx[p])

-----------------------------------------------------------------------------
Stage == [t \in Txn |-> CASE uses[t] > 0 -> "used"
                          [] uses[t] = 0 /\ txn[t].stage = "deleted" -> "withdrawn"
                          [] OTHER -> txn[t].stage]

Transactions == INSTANCE SingleUse WITH Item <- Txn, stage <- Stage

(* An OIDC transaction is accepted once: a state and a code that come back  *)
(* twice, even at once, sign in or link once.                               *)
TransactionsOnce == Transactions!Spec
=============================================================================
