-------------------------- MODULE OidcSignInProofs --------------------------
(***************************************************************************)
(* Proofs about OidcSignIn, for any number of accounts, identities,        *)
(* transactions and requests.                                              *)
(***************************************************************************)
EXTENDS OidcSignIn, FiniteSetTheorems, TLAPS

Account == [stage: {"none", "active", "disabled", "deleted"},
            email: Email \cup {NoEmail}, password: BOOLEAN]
Transaction == [stage: {"none", "open", "consumed", "deleted"}, user: User \cup {Nobody}]

LEMMA IdleTx == Idle \in Tx
BY DEF Idle, Tx

LEMMA IdleKnows == Knows(Idle) /\ AnotherMethod(Idle)
BY DEF Knows, AnotherMethod, Idle

LEMMA InitIndInv == Init => IndInv
<1> SUFFICES ASSUME Init PROVE IndInv
  OBVIOUS
<1>1. TypeOK
  BY IdleTx DEF Init, TypeOK
<1>2. LocksExclusive
  BY DEF Init, LocksExclusive, Idle
<1>3. Unspent /\ Rows /\ SignInMethod /\ SessionHasIdentity
  BY Sentinels DEF Init, Unspent, Rows, SignInMethod, SessionHasIdentity, Exists
<1>4. \A p \in Proc : Knows(tx[p]) /\ AnotherMethod(tx[p])
  BY IdleKnows DEF Init
<1> QED BY <1>1, <1>2, <1>3, <1>4 DEF IndInv

-----------------------------------------------------------------------------
(* What a request knows stays true while the rows it has locked do.         *)
LEMMA StillKnows ==
  ASSUME NEW x \in Tx, Knows(x), AnotherMethod(x),
         \A t \in x.given : txn'[t] = txn[t],
         \A s \in x.held : identity'[s] = identity[s],
         \A u \in User : account[u].password => account'[u].password,
         x.lock => /\ account'[x.user].stage = account[x.user].stage
                   /\ \A s \in Subject : identity[s] = x.user => identity'[s] = x.user
  PROVE  Knows(x)' /\ AnotherMethod(x)'
<1>1. Knows(x)'
  <2>1. x.op \in {"login", "link"} =>
          \E t \in x.given : /\ x.given = {t} /\ txn'[t].stage = "open"
                             /\ txn'[t].user = IF x.op = "link" THEN x.user ELSE Nobody
    BY DEF Knows
  <2>2. \A s \in x.held : identity'[s] = x.user /\ x.user \in User
    BY DEF Knows
  <2>3. x.lock => x.user \in User /\ Exists(x.user)'
    BY DEF Knows, Exists
  <2>4. x.seen => x.op = "unlink" /\ account'[x.user].password
    BY DEF Knows
  <2>5. x.lock /\ x.op \in {"login", "link"} => account'[x.user].stage = "active"
    BY DEF Knows
  <2>6. x.op = "delete" => x.user \in User /\ \A t \in x.given : txn'[t].user = x.user
    BY DEF Knows
  <2> QED BY <2>1, <2>2, <2>3, <2>4, <2>5, <2>6 DEF Knows
<1>2. AnotherMethod(x)'
  <2> SUFFICES ASSUME x.op = "unlink", x.pc = "commit"
               PROVE  account'[x.user].password \/ Identities(x.user)' \ {x.subject} # {}
    BY DEF AnotherMethod
  <2>1. x.lock /\ x.user \in User
    BY DEF Knows
  <2> QED BY <2>1 DEF AnotherMethod, Identities
<1> QED BY <1>1, <1>2

(* A step of request p that leaves the tables alone.                        *)
LEMMA Control ==
  ASSUME IndInv, NEW p \in Proc, NEW x \in Tx, GoOn(p, x), Knows(x), AnotherMethod(x),
         \A q \in Proc \ {p} : /\ x.given \cap tx[q].given = {}
                               /\ x.held \cap tx[q].held = {}
                               /\ ~(x.lock /\ tx[q].lock /\ tx[q].user = x.user)
  PROVE  IndInv'
<1>1. /\ tx' \in [Proc -> Tx] /\ tx'[p] = x
      /\ \A q \in Proc \ {p} : tx'[q] = tx[q]
      /\ UNCHANGED <<account, identity, txn, session, uses>>
  BY DEF GoOn, IndInv, TypeOK
<1>2. TypeOK' /\ Unspent' /\ Rows' /\ SignInMethod' /\ SessionHasIdentity'
  BY <1>1 DEF IndInv, TypeOK, Unspent, Rows, SignInMethod, SessionHasIdentity, Exists, Identities
<1>3. LocksExclusive'
  BY <1>1 DEF IndInv, LocksExclusive
<1>4. \A y : Knows(y) /\ AnotherMethod(y) => Knows(y)' /\ AnotherMethod(y)'
  BY <1>1 DEF Knows, AnotherMethod, Exists, Identities
<1>5. \A q \in Proc : Knows(tx'[q]) /\ AnotherMethod(tx'[q])
  BY <1>1 DEF IndInv
<1>6. \A q \in Proc : Knows(tx[q])' /\ AnotherMethod(tx[q])'
  BY <1>4, <1>5 DEF Knows, AnotherMethod, Exists, Identities
<1> QED BY <1>2, <1>3, <1>6 DEF IndInv

LEMMA GivesUp ==
  ASSUME IndInv, NEW p \in Proc, Refused(p)
  PROVE  IndInv'
<1>1. GoOn(p, Idle)
  BY DEF Refused, End, GoOn
<1> QED BY <1>1, IdleTx, IdleKnows, Control DEF Idle

(* What p holds, nobody else does.                                          *)
LEMMA Own ==
  ASSUME IndInv, NEW p \in Proc, NEW q \in Proc \ {p}
  PROVE  /\ tx[p].given \cap tx[q].given = {} /\ tx[p].held \cap tx[q].held = {}
         /\ ~(tx[p].lock /\ tx[q].lock /\ tx[q].user = tx[p].user)
BY DEF IndInv, LocksExclusive

(* A step that changes the tables: p ends with it, or no request moves.     *)
LEMMA Tables ==
  ASSUME IndInv, tx' \in [Proc -> Tx],
         account' \in [User -> Account], identity' \in [Subject -> User \cup {Nobody}],
         txn' \in [Txn -> Transaction], session' \subseteq User \X Subject,
         uses' \in [Txn -> Nat],
         Unspent', Rows', SignInMethod', SessionHasIdentity',
         \A u \in User : account[u].password => account'[u].password,
         \A q \in Proc : tx'[q] # Idle =>
           /\ tx'[q] = tx[q]
           /\ \A t \in tx[q].given : txn'[t] = txn[t]
           /\ \A s \in tx[q].held : identity'[s] = identity[s]
           /\ tx[q].lock =>
                /\ account'[tx[q].user].stage = account[tx[q].user].stage
                /\ \A s \in Subject : identity[s] = tx[q].user => identity'[s] = tx[q].user
  PROVE  IndInv'
<1>1. TypeOK'
  BY DEF TypeOK, Account, Transaction
<1>2. LocksExclusive'
  <2> SUFFICES ASSUME NEW q \in Proc, NEW r \in Proc, q # r
               PROVE  /\ tx'[q].given \cap tx'[r].given = {}
                      /\ tx'[q].held \cap tx'[r].held = {}
                      /\ ~(tx'[q].lock /\ tx'[r].lock /\ tx'[q].user = tx'[r].user)
    BY DEF LocksExclusive
  <2>1. CASE tx'[q] = Idle \/ tx'[r] = Idle
    BY <2>1 DEF Idle
  <2>2. CASE tx'[q] = tx[q] /\ tx'[r] = tx[r]
    BY <2>2 DEF IndInv, LocksExclusive
  <2> QED BY <2>1, <2>2
<1>3. ASSUME NEW q \in Proc PROVE Knows(tx[q])' /\ AnotherMethod(tx[q])'
  <2>1. CASE tx'[q] = Idle
    BY <2>1 DEF Knows, AnotherMethod, Idle
  <2>2. CASE tx'[q] # Idle
    <3>1. tx'[q] = tx[q] /\ tx[q] \in Tx /\ Knows(tx[q]) /\ AnotherMethod(tx[q])
      BY <2>2 DEF IndInv, TypeOK
    <3> DEFINE x == tx[q]
    <3>2. /\ \A t \in x.given : txn'[t] = txn[t]
          /\ \A s \in x.held : identity'[s] = identity[s]
          /\ x.lock => /\ account'[x.user].stage = account[x.user].stage
                       /\ \A s \in Subject : identity[s] = x.user => identity'[s] = x.user
      BY <2>2, <3>1 DEF Exists
    <3>3. PICK y \in Tx : y = tx[q]
      BY <3>1
    <3>4. /\ Knows(y) /\ AnotherMethod(y)
          /\ \A t \in y.given : txn'[t] = txn[t]
          /\ \A s \in y.held : identity'[s] = identity[s]
          /\ y.lock => /\ account'[y.user].stage = account[y.user].stage
                       /\ \A s \in Subject : identity[s] = y.user => identity'[s] = y.user
      BY <3>1, <3>2, <3>3 DEF Exists
    <3> QED BY <3>1, <3>3, <3>4, StillKnows DEF Knows, AnotherMethod, Exists, Identities
  <2> QED BY <2>1, <2>2
<1> QED BY <1>1, <1>2, <1>3 DEF IndInv

-----------------------------------------------------------------------------
LEMMA CallbackStep ==
  ASSUME IndInv, NEW p \in Proc, NEW t \in Txn, Callback(p, t)
  PROVE  IndInv'
<1> DEFINE op == IF txn[t].user = Nobody THEN "login" ELSE "link"
           x == [Idle EXCEPT !.pc = "exchange", !.given = {t}, !.user = txn[t].user, !.op = op]
<1>1. GoOn(p, x) /\ txn[t].stage = "open" /\ \A q \in Proc : t \notin tx[q].given
  BY DEF Callback
<1>2. txn[t].user \in User \cup {Nobody}
  BY DEF IndInv, TypeOK
<1>3. x \in Tx
  BY <1>2 DEF Tx, Idle
<1>4. /\ x.pc = "exchange" /\ x.op = op /\ x.given = {t} /\ x.user = txn[t].user
      /\ x.held = {} /\ ~x.lock /\ ~x.seen
  BY DEF Idle
<1> HIDE DEF x
<1>5. Knows(x) /\ AnotherMethod(x)
  BY <1>1, <1>2, <1>4 DEF Knows, AnotherMethod
<1> QED BY <1>1, <1>3, <1>4, <1>5, Control

LEMMA CallUnlinkStep ==
  ASSUME IndInv, NEW p \in Proc, NEW u \in User, NEW s \in Subject, CallUnlink(p, u, s)
  PROVE  IndInv'
<1> DEFINE x == [Idle EXCEPT !.pc = "identity", !.op = "unlink", !.subject = s, !.user = u,
                             !.seen = account[u].password]
<1>1. GoOn(p, x) /\ account[u].password \in BOOLEAN
  BY DEF CallUnlink, IndInv, TypeOK
<1>2. x \in Tx
  BY <1>1 DEF Tx, Idle
<1>3. /\ x.pc = "identity" /\ x.op = "unlink" /\ x.given = {} /\ x.user = u /\ x.subject = s
      /\ x.held = {} /\ ~x.lock /\ x.seen = account[u].password
  BY DEF Idle
<1> HIDE DEF x
<1>4. Knows(x) /\ AnotherMethod(x)
  BY <1>3 DEF Knows, AnotherMethod
<1> QED BY <1>1, <1>2, <1>3, <1>4, Control

LEMMA ExchangeStep ==
  ASSUME IndInv, NEW p \in Proc, NEW s \in Subject, NEW e \in Email \cup {NoEmail},
         Exchange(p, s, e)
  PROVE  IndInv'
<1> DEFINE y == tx[p]
           pc == IF y.op = "link" THEN "account" ELSE "identity"
           x == [y EXCEPT !.pc = pc, !.subject = s, !.email = e]
<1>1. y \in Tx /\ Knows(y) /\ y.pc = "exchange" /\ GoOn(p, x)
  BY DEF IndInv, TypeOK, Exchange, At
<1>2. /\ x \in Tx /\ x.pc = pc /\ x.op = y.op /\ x.given = y.given /\ x.user = y.user
      /\ x.subject = s /\ x.held = y.held /\ x.lock = y.lock /\ x.seen = y.seen
  BY <1>1 DEF Tx
<1> HIDE DEF x
<1>3. y.held = {}
  BY <1>1, Sentinels DEF Knows, Tx, IndInv
<1>4. Knows(x) /\ AnotherMethod(x)
  BY <1>1, <1>2, <1>3 DEF Knows, AnotherMethod
<1> QED BY <1>1, <1>2, <1>4, Own, Control

LEMMA FindForLoginStep ==
  ASSUME IndInv, NEW p \in Proc, FindForLogin(p)
  PROVE  IndInv'
<1> DEFINE y == tx[p]
           s == y.subject
<1>1. /\ y \in Tx /\ Knows(y) /\ y.pc = "identity" /\ y.op = "login" /\ FreeIdentity(p, s)
      /\ s \in Subject /\ identity[s] \in User \cup {Nobody}
  BY DEF IndInv, TypeOK, FindForLogin, At, Knows
<1>2. CASE identity[s] # Nobody
  <2> DEFINE x == [y EXCEPT !.pc = "account", !.user = identity[s], !.held = {s}]
  <2>1. GoOn(p, x)
    BY <1>2 DEF FindForLogin
  <2>2. /\ x \in Tx /\ x.pc = "account" /\ x.op = "login" /\ x.given = y.given
        /\ x.user = identity[s] /\ x.subject = s /\ x.held = {s} /\ x.lock = y.lock
        /\ x.seen = y.seen
    BY <1>1 DEF Tx
  <2> HIDE DEF x
  <2>3. x.user \in User
    BY <1>1, <1>2, <2>2
  <2>4. ~x.seen
    BY <1>1, <2>2 DEF Knows
  <2>5. x.lock => Exists(x.user)
    BY <1>1, <2>2, <2>3 DEF IndInv, Rows
  <2>6. Knows(x) /\ AnotherMethod(x)
    BY <1>1, <2>2, <2>3, <2>4, <2>5 DEF Knows, AnotherMethod
  <2>7. ~y.lock
    BY <1>1 DEF Knows
  <2> QED BY <1>1, <2>1, <2>2, <2>6, <2>7, Own, Control DEF FreeIdentity
<1>3. CASE identity[s] = Nobody
  <2> DEFINE x == [y EXCEPT !.pc = "email"]
  <2>1. GoOn(p, x)
    BY <1>3 DEF FindForLogin
  <2>2. /\ x \in Tx /\ x.pc = "email" /\ x.op = "login" /\ x.given = y.given
        /\ x.user = y.user /\ x.subject = s /\ x.held = y.held /\ x.lock = y.lock
        /\ x.seen = y.seen
    BY <1>1 DEF Tx
  <2> HIDE DEF x
  <2>3. Knows(x) /\ AnotherMethod(x)
    BY <1>1, <2>2 DEF Knows, AnotherMethod
  <2> QED BY <2>1, <2>2, <2>3, Own, Control
<1> QED BY <1>2, <1>3

LEMMA FindForLinkStep ==
  ASSUME IndInv, NEW p \in Proc, FindForLink(p)
  PROVE  IndInv'
<1> DEFINE y == tx[p]
           s == y.subject
<1>1. /\ y \in Tx /\ Knows(y) /\ y.pc = "identity" /\ y.op = "link" /\ FreeIdentity(p, s)
      /\ s \in Subject /\ y.user \in User
  BY DEF IndInv, TypeOK, FindForLink, At, Knows
<1>2. CASE identity[s] = y.user
  <2> DEFINE x == [y EXCEPT !.pc = "commit", !.held = {s}]
  <2>1. GoOn(p, x)
    BY <1>1, <1>2, Sentinels DEF FindForLink
  <2>2. /\ x \in Tx /\ x.pc = "commit" /\ x.op = "link" /\ x.given = y.given
        /\ x.user = y.user /\ x.subject = s /\ x.held = {s} /\ x.lock = y.lock
        /\ x.seen = y.seen
    BY <1>1 DEF Tx
  <2> HIDE DEF x
  <2>3. Knows(x)
    <3>1. /\ y.user \in User /\ y.lock /\ Exists(y.user) /\ ~y.seen
          /\ \E t \in y.given : y.given = {t} /\ txn[t].stage = "open" /\ txn[t].user = y.user
      BY <1>1 DEF Knows
    <3> QED BY <1>1, <1>2, <2>2, <3>1 DEF Knows
  <2>4. AnotherMethod(x) /\ y.lock
    BY <1>1, <2>2 DEF AnotherMethod, Knows
  <2> QED BY <1>1, <2>1, <2>2, <2>3, <2>4, Own, Control DEF FreeIdentity
<1>3. CASE identity[s] # y.user /\ identity[s] = Nobody
  <2> DEFINE x == [y EXCEPT !.pc = "provider"]
  <2>1. GoOn(p, x)
    BY <1>1, <1>3, Sentinels DEF FindForLink
  <2>2. /\ x \in Tx /\ x.pc = "provider" /\ x.op = "link" /\ x.given = y.given
        /\ x.user = y.user /\ x.subject = s /\ x.held = y.held /\ x.lock = y.lock
        /\ x.seen = y.seen
    BY <1>1 DEF Tx
  <2> HIDE DEF x
  <2>3. Knows(x) /\ AnotherMethod(x)
    BY <1>1, <2>2 DEF Knows, AnotherMethod
  <2> QED BY <2>1, <2>2, <2>3, Own, Control
<1>4. CASE identity[s] # y.user /\ identity[s] # Nobody
  BY <1>4, GivesUp DEF FindForLink
<1> QED BY <1>2, <1>3, <1>4

LEMMA FindForUnlinkStep ==
  ASSUME IndInv, NEW p \in Proc, FindForUnlink(p)
  PROVE  IndInv'
<1> DEFINE y == tx[p]
           s == y.subject
<1>1. /\ y \in Tx /\ Knows(y) /\ y.pc = "identity" /\ y.op = "unlink" /\ s \in Subject
  BY DEF IndInv, TypeOK, FindForUnlink, At, Knows
<1>2. CASE identity[s] = y.user
  <2> DEFINE x == [y EXCEPT !.pc = "account", !.held = {s}]
  <2>1. GoOn(p, x) /\ FreeIdentity(p, s)
    BY <1>2 DEF FindForUnlink
  <2>2. /\ x \in Tx /\ x.pc = "account" /\ x.op = "unlink" /\ x.given = y.given
        /\ x.user = y.user /\ x.subject = s /\ x.held = {s} /\ x.lock = y.lock
        /\ x.seen = y.seen
    BY <1>1 DEF Tx
  <2> HIDE DEF x
  <2>3. Knows(x) /\ AnotherMethod(x)
    BY <1>1, <1>2, <2>2 DEF Knows, AnotherMethod
  <2> QED BY <1>1, <2>1, <2>2, <2>3, Own, Control DEF FreeIdentity
<1>3. CASE identity[s] # y.user
  BY <1>3, GivesUp DEF FindForUnlink
<1> QED BY <1>2, <1>3

LEMMA LockAccountStep ==
  ASSUME IndInv, NEW p \in Proc, LockAccount(p)
  PROVE  IndInv'
<1> DEFINE y == tx[p]
           pc == AfterLock[y.op]
<1>1. /\ y \in Tx /\ Knows(y) /\ y.pc = "account" /\ FreeUser(p, y.user)
      /\ y.user \in User /\ y.op \in {"login", "link", "unlink"}
  BY DEF IndInv, TypeOK, LockAccount, At, Knows, Tx
<1>2. CASE y.op = "unlink" \/ account[y.user].stage = "active"
  <2> DEFINE x == [y EXCEPT !.pc = pc, !.lock = TRUE]
  <2>1. GoOn(p, x)
    BY <1>2 DEF LockAccount
  <2>2. /\ pc = IF y.op = "login" THEN "commit" ELSE IF y.op = "link" THEN "identity" ELSE "count"
    BY <1>1 DEF AfterLock
  <2> HIDE DEF pc
  <2>3. /\ x \in Tx /\ x.pc = pc /\ x.op = y.op /\ x.given = y.given
        /\ x.user = y.user /\ x.subject = y.subject /\ x.held = y.held /\ x.lock = TRUE
        /\ x.seen = y.seen
    BY <1>1, <2>2 DEF Tx
  <2> HIDE DEF x
  <2>4. y.op # "link" => y.held = {y.subject}
    BY <1>1 DEF Knows
  <2>5. Exists(y.user)
    BY <1>1, <1>2, <2>4 DEF IndInv, Rows, Knows, Exists
  <2>6. y.op = "link" => y.held = {}
    BY <1>1 DEF Knows
  <2>7. Knows(x) /\ AnotherMethod(x)
    <3>1. y.op # "unlink" => account[y.user].stage = "active"
      BY <1>2
    <3>2. Knows(x)
      BY <1>1, <2>2, <2>3, <2>4, <2>5, <2>6, <3>1 DEF Knows
    <3>3. AnotherMethod(x)
      BY <1>1, <2>2, <2>3 DEF AnotherMethod
    <3> QED BY <3>2, <3>3
  <2> QED BY <1>1, <2>1, <2>3, <2>7, Own, Control DEF FreeUser, Locks
<1>3. CASE ~(y.op = "unlink" \/ account[y.user].stage = "active")
  BY <1>3, GivesUp DEF LockAccount
<1> QED BY <1>2, <1>3

LEMMA CheckEmailStep ==
  ASSUME IndInv, NEW p \in Proc, CheckEmail(p)
  PROVE  IndInv'
<1> DEFINE y == tx[p]
           x == [y EXCEPT !.pc = "insert"]
<1>1. /\ y \in Tx /\ Knows(y) /\ y.pc = "email" /\ y.op = "login"
      /\ GoOn(p, x) \/ Refused(p)
  BY DEF IndInv, TypeOK, CheckEmail, At, Knows
<1>2. /\ x \in Tx /\ x.pc = "insert" /\ x.op = y.op /\ x.given = y.given
      /\ x.user = y.user /\ x.subject = y.subject /\ x.held = y.held /\ x.lock = y.lock
      /\ x.seen = y.seen
  BY <1>1 DEF Tx
<1> HIDE DEF x
<1>3. Knows(x) /\ AnotherMethod(x)
  BY <1>1, <1>2 DEF Knows, AnotherMethod
<1> QED BY <1>1, <1>2, <1>3, Own, Control, GivesUp

LEMMA CheckProviderStep ==
  ASSUME IndInv, NEW p \in Proc, CheckProvider(p)
  PROVE  IndInv'
<1> DEFINE y == tx[p]
           x == [y EXCEPT !.pc = "insert"]
<1>1. /\ y \in Tx /\ Knows(y) /\ y.pc = "provider" /\ y.op = "link"
      /\ GoOn(p, x) \/ Refused(p)
  BY DEF IndInv, TypeOK, CheckProvider, At, Knows
<1>2. /\ x \in Tx /\ x.pc = "insert" /\ x.op = y.op /\ x.given = y.given
      /\ x.user = y.user /\ x.subject = y.subject /\ x.held = y.held /\ x.lock = y.lock
      /\ x.seen = y.seen
  BY <1>1 DEF Tx
<1> HIDE DEF x
<1>3. Knows(x) /\ AnotherMethod(x)
  BY <1>1, <1>2 DEF Knows, AnotherMethod
<1> QED BY <1>1, <1>2, <1>3, Own, Control, GivesUp

(* More than one identity: there is one besides any given one.              *)
LEMMA OneMore ==
  ASSUME NEW S, NEW s \in S, Cardinality(S) > 1
  PROVE  S \ {s} # {}
<1> SUFFICES ASSUME S \ {s} = {} PROVE FALSE
  OBVIOUS
<1>1. S = {s}
  OBVIOUS
<1>2. Cardinality({s}) = 1
  BY FS_Singleton
<1> QED BY <1>1, <1>2

LEMMA CountIdentitiesStep ==
  ASSUME IndInv, NEW p \in Proc, CountIdentities(p)
  PROVE  IndInv'
<1> DEFINE y == tx[p]
           u == y.user
           s == y.subject
           x == [y EXCEPT !.pc = "commit"]
<1>1. /\ y \in Tx /\ Knows(y) /\ y.pc = "count" /\ y.op = "unlink" /\ u \in User /\ s \in Subject
      /\ y.held = {s} /\ y.lock
  BY DEF IndInv, TypeOK, CountIdentities, At, Knows
<1>2. CASE ~y.seen /\ Cardinality(Identities(u)) =< 1
  BY <1>2, GivesUp DEF CountIdentities
<1>3. CASE ~(~y.seen /\ Cardinality(Identities(u)) =< 1)
  <2>1. GoOn(p, x)
    BY <1>3 DEF CountIdentities
  <2>2. /\ x \in Tx /\ x.pc = "commit" /\ x.op = "unlink" /\ x.given = y.given
        /\ x.user = u /\ x.subject = s /\ x.held = y.held /\ x.lock = y.lock
        /\ x.seen = y.seen
    BY <1>1 DEF Tx
  <2> HIDE DEF x
  <2>3. s \in Identities(u)
    BY <1>1 DEF Knows, Identities
  <2>4. IsFiniteSet(Identities(u))
    BY Issuers, FS_Subset DEF Identities
  <2>5. Cardinality(Identities(u)) \in Nat
    BY <2>4, FS_CardinalityType
  <2>6. y.seen \/ Cardinality(Identities(u)) > 1
    BY <1>1, <1>3, <2>5 DEF Tx
  <2>7. account[u].password \/ Identities(u) \ {s} # {}
    BY <1>1, <2>3, <2>6, OneMore DEF Knows
  <2>8. Knows(x) /\ AnotherMethod(x)
    BY <1>1, <2>2, <2>7 DEF Knows, AnotherMethod
  <2> QED BY <2>1, <2>2, <2>8, Own, Control
<1> QED BY <1>2, <1>3

-----------------------------------------------------------------------------
(* A callback that commits consumes the transaction it was given.           *)
LEMMA Consumes ==
  ASSUME IndInv, NEW p \in Proc, tx[p].op \in {"login", "link"}, Consume(p)
  PROVE  /\ txn' \in [Txn -> Transaction] /\ uses' \in [Txn -> Nat] /\ Unspent'
         /\ \E t \in Txn :
              /\ tx[p].given = {t} /\ txn[t].stage = "open" /\ uses[t] = 0
              /\ txn[t].user = IF tx[p].op = "link" THEN tx[p].user ELSE Nobody
              /\ txn' = [txn EXCEPT ![t].stage = "consumed"]
              /\ uses' = [uses EXCEPT ![t] = 1]
<1>1. Knows(tx[p]) /\ tx[p] \in Tx /\ txn \in [Txn -> Transaction] /\ uses \in [Txn -> Nat]
  BY DEF IndInv, TypeOK, Transaction
<1>2. PICK t \in tx[p].given : /\ tx[p].given = {t} /\ txn[t].stage = "open"
                               /\ txn[t].user = IF tx[p].op = "link" THEN tx[p].user ELSE Nobody
  BY <1>1 DEF Knows
<1>3. t \in Txn /\ uses[t] = 0
  BY <1>1, <1>2 DEF Tx, IndInv, Unspent
<1>4. /\ txn' = [r \in Txn |-> IF r = t THEN [txn[t] EXCEPT !.stage = "consumed"] ELSE txn[r]]
      /\ uses' = [r \in Txn |-> IF r = t THEN 1 ELSE uses[r]]
  BY <1>2, <1>3 DEF Consume
<1>5. txn[t] \in Transaction /\ [txn[t] EXCEPT !.stage = "consumed"] \in Transaction
  BY <1>1, <1>3 DEF Transaction
<1>6. txn' \in [Txn -> Transaction] /\ uses' \in [Txn -> Nat]
  BY <1>1, <1>4, <1>5
<1>7. txn' = [txn EXCEPT ![t].stage = "consumed"] /\ uses' = [uses EXCEPT ![t] = 1]
  BY <1>1, <1>3, <1>4
<1>8. Unspent'
  <2>1. txn'[t].stage = "consumed"
    BY <1>3, <1>4, <1>5 DEF Transaction
  <2> QED BY <1>3, <1>4, <2>1 DEF IndInv, Unspent
<1> QED BY <1>2, <1>3, <1>6, <1>7, <1>8

(* What the others see of a commit of p: it is gone, its rows were its own. *)
LEMMA Ends ==
  ASSUME IndInv, NEW p \in Proc, End(p)
  PROVE  /\ tx' \in [Proc -> Tx]
         /\ \A q \in Proc : tx'[q] # Idle => q # p /\ tx'[q] = tx[q]
BY IdleTx DEF IndInv, TypeOK, End

LEMMA CommitLoginStep ==
  ASSUME IndInv, NEW p \in Proc, CommitLogin(p)
  PROVE  IndInv'
<1> DEFINE u == tx[p].user
           s == tx[p].subject
<1>1. /\ Knows(tx[p]) /\ tx[p].op = "login" /\ Consume(p) /\ End(p)
      /\ UNCHANGED <<account, identity>>
      /\ u \in User /\ s \in Subject /\ identity[s] = u
  BY DEF IndInv, Knows, CommitLogin, At
<1>2. /\ txn' \in [Txn -> Transaction] /\ uses' \in [Txn -> Nat] /\ Unspent'
      /\ \E t \in Txn : tx[p].given = {t} /\ txn' = [txn EXCEPT ![t].stage = "consumed"]
  BY <1>1, Consumes
<1>3. session' \subseteq User \X Subject /\ SessionHasIdentity'
  <2>1. session' \subseteq session \cup {<<u, s>>}
    BY DEF CommitLogin
  <2> QED BY <1>1, <2>1 DEF IndInv, TypeOK, SessionHasIdentity
<1>4. Rows' /\ SignInMethod' /\ account' \in [User -> Account]
      /\ identity' \in [Subject -> User \cup {Nobody}]
  BY <1>1 DEF IndInv, TypeOK, Rows, SignInMethod, Exists, Identities, Account
<1>5. \A q \in Proc : tx'[q] # Idle => tx'[q] = tx[q] /\ \A t \in tx[q].given : txn'[t] = txn[t]
  BY <1>1, <1>2, Ends, Own
<1> QED BY <1>1, <1>2, <1>3, <1>4, <1>5, Ends, Tables DEF Exists

LEMMA CommitLinkedStep ==
  ASSUME IndInv, NEW p \in Proc, CommitLinked(p)
  PROVE  IndInv'
<1>1. tx[p].op = "link" /\ Consume(p) /\ End(p) /\ UNCHANGED <<account, identity, session>>
  BY DEF CommitLinked
<1>2. /\ txn' \in [Txn -> Transaction] /\ uses' \in [Txn -> Nat] /\ Unspent'
      /\ \E t \in Txn : tx[p].given = {t} /\ txn' = [txn EXCEPT ![t].stage = "consumed"]
  BY <1>1, Consumes
<1>3. Rows' /\ SignInMethod' /\ SessionHasIdentity' /\ account' \in [User -> Account]
      /\ identity' \in [Subject -> User \cup {Nobody}] /\ session' \subseteq User \X Subject
  BY <1>1 DEF IndInv, TypeOK, Rows, SignInMethod, SessionHasIdentity, Exists, Identities, Account
<1>4. \A q \in Proc : tx'[q] # Idle => tx'[q] = tx[q] /\ \A t \in tx[q].given : txn'[t] = txn[t]
  BY <1>1, <1>2, Ends, Own
<1> QED BY <1>1, <1>2, <1>3, <1>4, Ends, Tables DEF Exists

LEMMA SignUpStep ==
  ASSUME IndInv, NEW p \in Proc, NEW u \in User, SignUp(p, u)
  PROVE  IndInv'
<1> DEFINE s == tx[p].subject
           new == [stage |-> "active", email |-> tx[p].email, password |-> FALSE]
<1>1. /\ Knows(tx[p]) /\ tx[p] \in Tx /\ tx[p].op = "login" /\ Consume(p) /\ End(p)
      /\ s \in Subject /\ identity[s] = Nobody /\ account[u].stage = "none"
      /\ account' = [account EXCEPT ![u] = new]
      /\ identity' = [identity EXCEPT ![s] = u]
      /\ session' = session \cup {<<u, s>>}
  BY DEF IndInv, TypeOK, Knows, SignUp, At, Unique
<1>2. /\ txn' \in [Txn -> Transaction] /\ uses' \in [Txn -> Nat] /\ Unspent'
      /\ \E t \in Txn : tx[p].given = {t} /\ txn' = [txn EXCEPT ![t].stage = "consumed"]
  BY <1>1, Consumes
<1>3. /\ account \in [User -> Account] /\ identity \in [Subject -> User \cup {Nobody}]
      /\ session \subseteq User \X Subject /\ new \in Account
  BY <1>1 DEF IndInv, TypeOK, Account, Tx
<1>4. /\ account' \in [User -> Account] /\ identity' \in [Subject -> User \cup {Nobody}]
      /\ session' \subseteq User \X Subject
  BY <1>1, <1>3
<1>5. /\ account'[u] = new /\ \A v \in User \ {u} : account'[v] = account[v]
      /\ identity'[s] = u /\ \A i \in Subject \ {s} : identity'[i] = identity[i]
  BY <1>1, <1>3
<1>6. ~account[u].password /\ ~Exists(u)
  BY <1>1 DEF IndInv, Rows, Exists
<1>7. Rows'
  <2>1. ASSUME NEW i \in Subject, identity'[i] \in User
        PROVE  account'[identity'[i]].stage \in {"active", "disabled"}
    <3>1. CASE i = s
      BY <1>5, <3>1
    <3>2. CASE i # s
      BY <1>5, <1>6, <2>1, <3>2 DEF IndInv, Rows, Exists
    <3> QED BY <3>1, <3>2
  <2> QED BY <1>5, <2>1 DEF IndInv, Rows, Exists
<1>8. SignInMethod'
  <2>1. ASSUME NEW v \in User, v # u, Exists(v)', ~account'[v].password
        PROVE  Identities(v)' # {}
    <3>1. PICK i \in Identities(v) : TRUE
      BY <1>5, <2>1 DEF IndInv, SignInMethod, Exists
    <3>2. i \in Subject /\ identity'[i] = v
      BY <1>1, <1>5, <3>1, Sentinels DEF Identities
    <3> QED BY <3>2 DEF Identities
  <2>2. s \in Identities(u)'
    BY <1>1, <1>5 DEF Identities
  <2> QED BY <2>1, <2>2 DEF SignInMethod
<1>9. SessionHasIdentity'
  BY <1>1, <1>3, <1>5, Sentinels DEF IndInv, SessionHasIdentity
<1>10. \A v \in User : account[v].password => account'[v].password
  BY <1>5, <1>6
<1>11. ASSUME NEW q \in Proc, tx'[q] # Idle
       PROVE  /\ tx'[q] = tx[q] /\ \A t \in tx[q].given : txn'[t] = txn[t]
              /\ \A i \in tx[q].held : identity'[i] = identity[i]
              /\ tx[q].lock =>
                   /\ account'[tx[q].user].stage = account[tx[q].user].stage
                   /\ \A i \in Subject : identity[i] = tx[q].user => identity'[i] = tx[q].user
  <2>1. q # p /\ tx'[q] = tx[q] /\ tx[q] \in Tx /\ Knows(tx[q])
    BY <1>1, <1>11, Ends DEF IndInv, TypeOK
  <2>2. \A t \in tx[q].given : txn'[t] = txn[t]
    BY <1>2, <2>1, Own
  <2>3. \A i \in tx[q].held : i \in Subject /\ i # s
    BY <1>1, <2>1, Sentinels DEF Knows, Tx
  <2>4. tx[q].lock => tx[q].user \in User /\ tx[q].user # u /\ Exists(tx[q].user)
    BY <1>6, <2>1 DEF Knows
  <2>5. tx[q].lock => \A i \in Subject : identity[i] = tx[q].user => identity'[i] = tx[q].user
    BY <1>1, <1>5, <2>4, Sentinels
  <2> QED BY <1>5, <2>1, <2>2, <2>3, <2>4, <2>5 DEF Exists
<1> QED BY <1>1, <1>2, <1>4, <1>7, <1>8, <1>9, <1>10, <1>11, Ends, Tables

LEMMA LinkStep ==
  ASSUME IndInv, NEW p \in Proc, Link(p)
  PROVE  IndInv'
<1> DEFINE u == tx[p].user
           s == tx[p].subject
<1>1. /\ Knows(tx[p]) /\ tx[p].op = "link" /\ Consume(p) /\ End(p) /\ account' = account
      /\ s \in Subject /\ u \in User /\ identity[s] = Nobody /\ Exists(u)
      /\ identity' = [identity EXCEPT ![s] = u] /\ session' = WithoutSessions(u)
  BY DEF IndInv, Knows, Link, At, Unique
<1>2. /\ txn' \in [Txn -> Transaction] /\ uses' \in [Txn -> Nat] /\ Unspent'
      /\ \E t \in Txn : tx[p].given = {t} /\ txn' = [txn EXCEPT ![t].stage = "consumed"]
  BY <1>1, Consumes
<1>3. /\ account' \in [User -> Account] /\ identity \in [Subject -> User \cup {Nobody}]
      /\ identity' \in [Subject -> User \cup {Nobody}] /\ session' \subseteq User \X Subject
  BY <1>1 DEF IndInv, TypeOK, Account, WithoutSessions
<1>4. identity'[s] = u /\ \A i \in Subject \ {s} : identity'[i] = identity[i]
  BY <1>1, <1>3
<1>5. Rows'
  BY <1>1, <1>4 DEF IndInv, Rows, Exists
<1>6. SignInMethod'
  <2>1. ASSUME NEW v \in User, Exists(v)', ~account'[v].password
        PROVE  Identities(v)' # {}
    <3>1. PICK i \in Identities(v) : TRUE
      BY <1>1, <2>1 DEF IndInv, SignInMethod, Exists
    <3>2. i \in Subject /\ identity'[i] = v
      BY <1>1, <1>4, <3>1, Sentinels DEF Identities
    <3> QED BY <3>2 DEF Identities
  <2> QED BY <2>1 DEF SignInMethod
<1>7. SessionHasIdentity'
  BY <1>1, <1>3, <1>4, Sentinels DEF IndInv, TypeOK, SessionHasIdentity, WithoutSessions
<1>8. ASSUME NEW q \in Proc, tx'[q] # Idle
      PROVE  /\ tx'[q] = tx[q] /\ \A t \in tx[q].given : txn'[t] = txn[t]
             /\ \A i \in tx[q].held : identity'[i] = identity[i]
             /\ tx[q].lock =>
                  \A i \in Subject : identity[i] = tx[q].user => identity'[i] = tx[q].user
  <2>1. q # p /\ tx'[q] = tx[q] /\ tx[q] \in Tx /\ Knows(tx[q])
    BY <1>1, <1>8, Ends DEF IndInv, TypeOK
  <2>2. \A t \in tx[q].given : txn'[t] = txn[t]
    BY <1>2, <2>1, Own
  <2>3. \A i \in tx[q].held : i \in Subject /\ i # s
    BY <1>1, <2>1, Sentinels DEF Knows, Tx
  <2>4. tx[q].lock => tx[q].user \in User
    BY <2>1 DEF Knows
  <2> QED BY <1>1, <1>4, <2>1, <2>2, <2>3, <2>4, Sentinels
<1> QED BY <1>1, <1>2, <1>3, <1>5, <1>6, <1>7, <1>8, Ends, Tables DEF Exists

LEMMA UnlinkStep ==
  ASSUME IndInv, NEW p \in Proc, Unlink(p)
  PROVE  IndInv'
<1> DEFINE u == tx[p].user
           s == tx[p].subject
<1>1. /\ Knows(tx[p]) /\ tx[p].op = "unlink" /\ End(p) /\ UNCHANGED <<account, txn, uses>>
      /\ s \in Subject /\ u \in User /\ identity[s] = u /\ tx[p].lock /\ s \in tx[p].held
      /\ identity' = [identity EXCEPT ![s] = Nobody] /\ session' = WithoutSessions(u)
  BY DEF IndInv, Knows, Unlink, At
<1>2. account[u].password \/ Identities(u) \ {s} # {}
  BY DEF IndInv, AnotherMethod, Unlink, At
<1>3. /\ account' \in [User -> Account] /\ identity \in [Subject -> User \cup {Nobody}]
      /\ identity' \in [Subject -> User \cup {Nobody}] /\ session' \subseteq User \X Subject
      /\ txn' \in [Txn -> Transaction] /\ uses' \in [Txn -> Nat] /\ Unspent'
  BY <1>1 DEF IndInv, TypeOK, Account, Transaction, WithoutSessions, Unspent
<1>4. identity'[s] = Nobody /\ \A i \in Subject \ {s} : identity'[i] = identity[i]
  BY <1>1, <1>3
<1>5. Rows'
  BY <1>1, <1>4, Sentinels DEF IndInv, Rows, Exists
<1>6. SignInMethod'
  <2>1. ASSUME NEW v \in User, Exists(v)', ~account'[v].password
        PROVE  Identities(v)' # {}
    <3>1. Identities(v) # {}
      BY <1>1, <2>1 DEF IndInv, SignInMethod, Exists
    <3>2. Identities(v) \ {s} # {}
      BY <1>1, <1>2, <2>1, <3>1 DEF Identities
    <3>3. PICK i \in Identities(v) : i # s
      BY <3>2
    <3>4. i \in Subject /\ identity'[i] = v
      BY <1>4, <3>3 DEF Identities
    <3> QED BY <3>4 DEF Identities
  <2> QED BY <2>1 DEF SignInMethod
<1>7. SessionHasIdentity'
  BY <1>1, <1>3, <1>4 DEF IndInv, TypeOK, SessionHasIdentity, WithoutSessions
<1>8. ASSUME NEW q \in Proc, tx'[q] # Idle
      PROVE  /\ tx'[q] = tx[q]
             /\ \A i \in tx[q].held : identity'[i] = identity[i]
             /\ tx[q].lock =>
                  \A i \in Subject : identity[i] = tx[q].user => identity'[i] = tx[q].user
  <2>1. q # p /\ tx'[q] = tx[q] /\ tx[q] \in Tx /\ Knows(tx[q])
    BY <1>1, <1>8, Ends DEF IndInv, TypeOK
  <2>2. \A i \in tx[q].held : i \in Subject /\ i # s
    BY <1>1, <2>1, Own DEF Tx
  <2>3. tx[q].lock => tx[q].user # u
    BY <1>1, <2>1, Own
  <2> QED BY <1>1, <1>4, <2>1, <2>2, <2>3
<1> QED BY <1>1, <1>3, <1>5, <1>6, <1>7, <1>8, Ends, Tables DEF Exists

-----------------------------------------------------------------------------
LEMMA BeginStep ==
  ASSUME IndInv, NEW t \in Txn, NEW u \in User \cup {Nobody}, Begin(t, u)
  PROVE  IndInv'
<1>1. /\ txn[t].stage = "none" /\ txn' = [txn EXCEPT ![t] = [stage |-> "open", user |-> u]]
      /\ UNCHANGED <<account, identity, session, tx, uses>>
  BY DEF Begin
<1>2. /\ account' \in [User -> Account] /\ identity' \in [Subject -> User \cup {Nobody}]
      /\ session' \subseteq User \X Subject /\ uses' \in [Txn -> Nat] /\ tx' \in [Proc -> Tx]
      /\ txn \in [Txn -> Transaction] /\ [stage |-> "open", user |-> u] \in Transaction
  BY <1>1 DEF IndInv, TypeOK, Account, Transaction
<1>3. txn' \in [Txn -> Transaction] /\ Unspent'
  BY <1>1, <1>2 DEF IndInv, Unspent
<1>4. Rows' /\ SignInMethod' /\ SessionHasIdentity'
  BY <1>1 DEF IndInv, Rows, SignInMethod, SessionHasIdentity, Exists, Identities
<1>5. ASSUME NEW q \in Proc, tx'[q] # Idle
      PROVE  \A r \in tx[q].given : txn'[r] = txn[r]
  <2>1. Knows(tx[q]) /\ tx[q] \in Tx
    BY DEF IndInv, TypeOK
  <2>2. \A r \in tx[q].given : r \in Txn /\ txn[r].stage # "none"
    <3>1. CASE tx[q].op = "delete"
      BY <2>1, <3>1, Sentinels DEF Knows, Tx, IndInv, Unspent
    <3>2. CASE tx[q].op # "delete"
      BY <2>1, <3>2 DEF Knows, Tx, Idle
    <3> QED BY <3>1, <3>2
  <2> QED BY <1>1, <1>2, <2>2
<1> QED BY <1>1, <1>2, <1>3, <1>4, <1>5, Tables DEF Exists

(* One account changes, and its sessions may end.                           *)
LEMMA AccountStep ==
  ASSUME IndInv, NEW u \in User, NEW a \in Account,
         account' = [account EXCEPT ![u] = a],
         Exists(u) => a.stage \in {"active", "disabled"},
         a.stage = account[u].stage \/ ~Exists(u) \/ Untouched(u),
         a.stage # "none", account[u].password => a.password,
         Exists(u) \/ a.password,
         session' \in {session, WithoutSessions(u)}, UNCHANGED <<identity, txn, tx, uses>>
  PROVE  IndInv'
<1>1. /\ account' \in [User -> Account] /\ identity' \in [Subject -> User \cup {Nobody}]
      /\ session' \subseteq User \X Subject /\ uses' \in [Txn -> Nat] /\ tx' \in [Proc -> Tx]
      /\ txn' \in [Txn -> Transaction] /\ account \in [User -> Account]
  BY DEF IndInv, TypeOK, Account, Transaction, WithoutSessions
<1>2. account'[u] = a /\ \A v \in User \ {u} : account'[v] = account[v]
  BY <1>1
<1>3. \A v \in User : /\ Exists(v) => account'[v].stage \in {"active", "disabled"}
                      /\ account[v].password => account'[v].password
  BY <1>2 DEF Exists
<1>4. Rows'
  BY <1>2, <1>3 DEF IndInv, Rows, Exists
<1>5. SignInMethod'
  BY <1>2, <1>3 DEF IndInv, SignInMethod, Exists, Identities
<1>6. Unspent' /\ SessionHasIdentity'
  BY DEF IndInv, Unspent, SessionHasIdentity, WithoutSessions
<1>7. \A q \in Proc : tx[q].lock => account'[tx[q].user].stage = account[tx[q].user].stage
  <2> SUFFICES ASSUME NEW q \in Proc, tx[q].lock
               PROVE  account'[tx[q].user].stage = account[tx[q].user].stage
    OBVIOUS
  <2>1. tx[q].user \in User /\ Exists(tx[q].user)
    BY DEF IndInv, Knows
  <2>2. a.stage = account[u].stage \/ tx[q].user # u
    BY <2>1 DEF Untouched, Locks
  <2> QED BY <1>2, <2>1, <2>2
<1> QED BY <1>1, <1>3, <1>4, <1>5, <1>6, <1>7, Tables DEF Exists

LEMMA AccountsStep ==
  ASSUME IndInv, NEW u \in User,
         \/ \E e \in Email \cup {NoEmail} : Register(u, e)
         \/ \E stage \in {"active", "disabled"} : SetActive(u, stage)
         \/ ResetPassword(u) \/ EndSessions(u)
  PROVE  IndInv'
<1>1. account \in [User -> Account] /\ account[u] \in Account
  BY DEF IndInv, TypeOK, Account
<1>2. CASE \E e \in Email \cup {NoEmail} : Register(u, e)
  <2>1. PICK e \in Email \cup {NoEmail} : Register(u, e)
    BY <1>2
  <2> DEFINE a == [stage |-> "active", email |-> e, password |-> TRUE]
  <2>2. a \in Account /\ a.stage = "active" /\ a.password
    BY DEF Account
  <2>3. /\ account' = [account EXCEPT ![u] = a] /\ account[u].stage = "none" /\ ~Exists(u)
        /\ UNCHANGED <<identity, txn, session, tx, uses>>
    BY <2>1 DEF Register, Exists
  <2> HIDE DEF a
  <2> QED BY <2>2, <2>3, AccountStep
<1>3. CASE \E stage \in {"active", "disabled"} : SetActive(u, stage)
  <2>1. PICK stage \in {"active", "disabled"} : SetActive(u, stage)
    BY <1>3
  <2> DEFINE a == [account[u] EXCEPT !.stage = stage]
  <2>2. a \in Account /\ a.stage = stage /\ a.password = account[u].password
    BY <1>1 DEF Account
  <2>3. /\ account' = [account EXCEPT ![u] = a] /\ Exists(u) /\ Untouched(u)
        /\ UNCHANGED <<identity, txn, session, tx, uses>>
    BY <1>1, <2>1 DEF SetActive
  <2> HIDE DEF a
  <2> QED BY <2>2, <2>3, AccountStep
<1>4. CASE ResetPassword(u)
  <2> DEFINE a == [account[u] EXCEPT !.password = TRUE]
  <2>1. a \in Account /\ a.stage = account[u].stage /\ a.password
    BY <1>1 DEF Account
  <2>2. /\ account' = [account EXCEPT ![u] = a] /\ account[u].stage = "active"
        /\ session' = WithoutSessions(u) /\ UNCHANGED <<identity, txn, tx, uses>>
    BY <1>1, <1>4 DEF ResetPassword
  <2> HIDE DEF a
  <2> QED BY <2>1, <2>2, AccountStep
<1>5. CASE EndSessions(u)
  <2>1. /\ UNCHANGED <<account, identity, txn, tx, uses>> /\ session' = WithoutSessions(u)
    BY <1>5 DEF EndSessions
  <2>2. /\ account' \in [User -> Account] /\ identity' \in [Subject -> User \cup {Nobody}]
        /\ session' \subseteq User \X Subject /\ uses' \in [Txn -> Nat] /\ tx' \in [Proc -> Tx]
        /\ txn' \in [Txn -> Transaction]
    BY <2>1 DEF IndInv, TypeOK, Account, Transaction, WithoutSessions
  <2>3. Unspent' /\ Rows' /\ SignInMethod' /\ SessionHasIdentity'
    BY <2>1 DEF IndInv, Unspent, Rows, SignInMethod, SessionHasIdentity, WithoutSessions,
                Exists, Identities
  <2> QED BY <2>1, <2>2, <2>3, Tables DEF Exists
<1> QED BY <1>2, <1>3, <1>4, <1>5

LEMMA DeleteSteps ==
  ASSUME IndInv, NEW p \in Proc,
         \/ \E u \in User : Delete(p, u)
         \/ \E s \in Subject : CascadeIdentity(p, s)
         \/ \E t \in Txn : CascadeTransaction(p, t)
         \/ RejectDelete(p)
  PROVE  IndInv'
<1> DEFINE y == tx[p]
<1>1. y \in Tx /\ Knows(y)
  BY DEF IndInv, TypeOK
<1>2. CASE \E u \in User : Delete(p, u)
  <2>1. PICK u \in User : Delete(p, u)
    BY <1>2
  <2> DEFINE x == [Idle EXCEPT !.pc = "cascade", !.op = "delete", !.user = u, !.lock = TRUE]
  <2>2. GoOn(p, x) /\ Exists(u) /\ FreeUser(p, u)
    BY <2>1 DEF Delete
  <2>3. x \in Tx
    BY DEF Tx, Idle
  <2>4. /\ x.pc = "cascade" /\ x.op = "delete" /\ x.given = {} /\ x.user = u
        /\ x.held = {} /\ x.lock /\ ~x.seen
    BY DEF Idle
  <2> HIDE DEF x
  <2>5. Knows(x) /\ AnotherMethod(x)
    BY <2>2, <2>4 DEF Knows, AnotherMethod
  <2> QED BY <2>2, <2>3, <2>4, <2>5, Control DEF FreeUser, Locks
<1>3. CASE \E s \in Subject : CascadeIdentity(p, s)
  <2>1. PICK s \in Subject : CascadeIdentity(p, s)
    BY <1>3
  <2> DEFINE x == [y EXCEPT !.held = @ \cup {s}]
  <2>2. /\ GoOn(p, x) /\ y.pc = "cascade" /\ y.op = "delete" /\ identity[s] = y.user
        /\ FreeIdentity(p, s)
    BY <1>1, <2>1 DEF CascadeIdentity, At, Identities, Knows
  <2>3. /\ x \in Tx /\ x.pc = y.pc /\ x.op = y.op /\ x.given = y.given /\ x.user = y.user
        /\ x.subject = y.subject /\ x.held = y.held \cup {s} /\ x.lock = y.lock /\ x.seen = y.seen
    BY <1>1 DEF Tx
  <2> HIDE DEF x
  <2>4. Knows(x) /\ AnotherMethod(x)
    BY <1>1, <2>2, <2>3 DEF Knows, AnotherMethod
  <2>5. \A q \in Proc \ {p} : x.held \cap tx[q].held = {}
    BY <2>2, <2>3, Own DEF FreeIdentity
  <2> QED BY <2>2, <2>3, <2>4, <2>5, Own, Control
<1>4. CASE \E t \in Txn : CascadeTransaction(p, t)
  <2>1. PICK t \in Txn : CascadeTransaction(p, t)
    BY <1>4
  <2> DEFINE x == [y EXCEPT !.given = @ \cup {t}]
  <2>2. /\ GoOn(p, x) /\ y.pc = "cascade" /\ y.op = "delete" /\ txn[t].user = y.user
        /\ \A q \in Proc : t \notin tx[q].given
    BY <1>1, <2>1 DEF CascadeTransaction, At, Knows
  <2>3. /\ x \in Tx /\ x.pc = y.pc /\ x.op = y.op /\ x.given = y.given \cup {t} /\ x.user = y.user
        /\ x.subject = y.subject /\ x.held = y.held /\ x.lock = y.lock /\ x.seen = y.seen
    BY <1>1 DEF Tx
  <2> HIDE DEF x
  <2>4. Knows(x) /\ AnotherMethod(x)
    BY <1>1, <2>2, <2>3 DEF Knows, AnotherMethod
  <2>5. \A q \in Proc \ {p} : x.given \cap tx[q].given = {}
    BY <2>2, <2>3, Own
  <2> QED BY <2>2, <2>3, <2>4, <2>5, Own, Control
<1>5. CASE RejectDelete(p)
  BY <1>5, GivesUp DEF RejectDelete
<1> QED BY <1>2, <1>3, <1>4, <1>5

(* A deletion that commits holds every identity and transaction of its user.*)
LEMMA CommitDeleteRows ==
  ASSUME IndInv, NEW p \in Proc, CommitDelete(p)
  PROVE  /\ tx[p].user \in User /\ tx[p].lock /\ End(p) /\ UNCHANGED <<session, uses>>
         /\ \A x \in session : x[1] # tx[p].user
         /\ account' = [account EXCEPT ![tx[p].user].stage = "deleted"]
         /\ \A s \in Subject : identity[s] = tx[p].user <=> s \in tx[p].held
         /\ \A s \in Subject : identity'[s] = IF identity[s] = tx[p].user THEN Nobody ELSE identity[s]
         /\ \A t \in Txn : txn[t].user = tx[p].user <=> t \in tx[p].given
         /\ \A t \in Txn : txn'[t] = IF txn[t].user = tx[p].user
                                     THEN [txn[t] EXCEPT !.stage = "deleted"] ELSE txn[t]
<1>1. /\ Knows(tx[p]) /\ tx[p].pc = "cascade" /\ tx[p].op = "delete" /\ tx[p].user \in User
      /\ tx[p].lock
  BY DEF IndInv, CommitDelete, At, Knows
<1>2. \A s \in Subject : identity[s] = tx[p].user <=> s \in tx[p].held
  BY <1>1 DEF CommitDelete, Knows, Identities
<1>3. \A t \in Txn : txn[t].user = tx[p].user <=> t \in tx[p].given
  BY <1>1 DEF CommitDelete, Knows
<1>4. \A s \in Subject : identity'[s] = IF s \in tx[p].held THEN Nobody ELSE identity[s]
  BY DEF CommitDelete
<1>5. \A t \in Txn : txn'[t] = IF t \in tx[p].given
                               THEN [txn[t] EXCEPT !.stage = "deleted"] ELSE txn[t]
  BY DEF CommitDelete
<1>6. \A x \in session : x[1] # tx[p].user
  BY DEF CommitDelete, WithoutSessions
<1>7. /\ account' = [account EXCEPT ![tx[p].user].stage = "deleted"]
      /\ End(p) /\ UNCHANGED <<session, uses>>
  BY DEF CommitDelete
<1> QED BY <1>1, <1>2, <1>3, <1>4, <1>5, <1>6, <1>7

LEMMA CommitDeleteStep ==
  ASSUME IndInv, NEW p \in Proc, CommitDelete(p)
  PROVE  IndInv'
<1> DEFINE u == tx[p].user
           a == [account[u] EXCEPT !.stage = "deleted"]
<1>1. /\ account \in [User -> Account] /\ identity \in [Subject -> User \cup {Nobody}]
      /\ txn \in [Txn -> Transaction] /\ session \subseteq User \X Subject
      /\ tx \in [Proc -> Tx] /\ uses \in [Txn -> Nat] /\ u \in User
  BY CommitDeleteRows DEF IndInv, TypeOK, Account, Transaction
<1>2. /\ a \in Account /\ a.stage = "deleted" /\ a.password = account[u].password
      /\ account' = [account EXCEPT ![u] = a] /\ UNCHANGED <<session, uses>>
  BY <1>1, CommitDeleteRows DEF Account
<1>3. \A s \in Subject : identity'[s] = IF identity[s] = u THEN Nobody ELSE identity[s]
  BY CommitDeleteRows
<1>4. \A t \in Txn : txn'[t] = IF txn[t].user = u THEN [txn[t] EXCEPT !.stage = "deleted"] ELSE txn[t]
  BY CommitDeleteRows
<1>5. \A t \in Txn : txn'[t] \in Transaction /\ (txn'[t].stage # "deleted" => txn'[t] = txn[t])
  BY <1>1, <1>4 DEF Transaction
<1>6. /\ account' \in [User -> Account] /\ identity' \in [Subject -> User \cup {Nobody}]
      /\ txn' \in [Txn -> Transaction]
  <2>1. identity' = [s \in Subject |-> identity'[s]] /\ txn' = [t \in Txn |-> txn'[t]]
    BY DEF CommitDelete
  <2>2. \A s \in Subject : identity'[s] \in User \cup {Nobody}
    BY <1>1, <1>3
  <2> QED BY <1>1, <1>2, <1>5, <2>1, <2>2
<1> HIDE DEF a
<1>7. account'[u].stage = "deleted" /\ \A v \in User \ {u} : account'[v] = account[v]
  BY <1>1, <1>2
<1>8. Unspent'
  BY <1>2, <1>5 DEF IndInv, Unspent
<1>9. Rows'
  BY <1>1, <1>2, <1>3, <1>7, Sentinels DEF IndInv, Rows, Exists
<1>10. SignInMethod'
  <2>1. ASSUME NEW v \in User, Exists(v)', ~account'[v].password
        PROVE  Identities(v)' # {}
    <3>1. v # u
      BY <1>7, <2>1 DEF Exists
    <3>2. PICK i \in Identities(v) : TRUE
      BY <1>7, <2>1, <3>1 DEF IndInv, SignInMethod, Exists
    <3>3. i \in Subject /\ identity'[i] = v
      BY <1>3, <3>1, <3>2 DEF Identities
    <3> QED BY <3>3 DEF Identities
  <2> QED BY <2>1 DEF SignInMethod
<1>11. SessionHasIdentity'
  <2>1. \A x \in session : x[1] # u /\ x[2] \in Subject /\ identity[x[2]] = x[1]
    BY <1>1, CommitDeleteRows DEF IndInv, SessionHasIdentity
  <2> QED BY <1>2, <1>3, <2>1 DEF SessionHasIdentity
<1>12. \A v \in User : account[v].password => account'[v].password
  BY <1>1, <1>2
<1>13. ASSUME NEW q \in Proc, tx'[q] # Idle
       PROVE  /\ tx'[q] = tx[q] /\ \A t \in tx[q].given : txn'[t] = txn[t]
              /\ \A i \in tx[q].held : identity'[i] = identity[i]
              /\ tx[q].lock =>
                   /\ account'[tx[q].user].stage = account[tx[q].user].stage
                   /\ \A i \in Subject : identity[i] = tx[q].user => identity'[i] = tx[q].user
  <2>1. q # p /\ tx'[q] = tx[q] /\ tx[q] \in Tx /\ Knows(tx[q])
    <3>1. q # p /\ tx'[q] = tx[q]
      BY <1>13, CommitDeleteRows, Ends
    <3> QED BY <3>1 DEF IndInv, TypeOK
  <2>2. \A t \in tx[q].given : t \in Txn /\ txn[t].user # u
    BY <2>1, Own, CommitDeleteRows DEF Tx
  <2>3. \A i \in tx[q].held : i \in Subject /\ identity[i] # u
    BY <2>1, Own, CommitDeleteRows DEF Tx
  <2>4. tx[q].lock => tx[q].user \in User \ {u}
    BY <2>1, Own, CommitDeleteRows DEF Knows
  <2>5. tx[q].lock => account'[tx[q].user] = account[tx[q].user]
    BY <1>7, <2>4
  <2>6. tx[q].lock => \A i \in Subject : identity[i] = tx[q].user => identity'[i] = tx[q].user
    BY <1>3, <2>4
  <2> QED BY <1>3, <1>4, <2>1, <2>2, <2>3, <2>5, <2>6
<1>14. session' \subseteq User \X Subject /\ uses' \in [Txn -> Nat] /\ tx' \in [Proc -> Tx]
  BY <1>1, <1>2, CommitDeleteRows, Ends
<1> QED BY <1>6, <1>8, <1>9, <1>10, <1>11, <1>12, <1>13, <1>14, Tables

-----------------------------------------------------------------------------
LEMMA Next_IndInv == IndInv /\ [Next]_vars => IndInv'
<1> SUFFICES ASSUME IndInv, [Next]_vars PROVE IndInv'
  OBVIOUS
<1>1. CASE UNCHANGED vars
  <2>1. UNCHANGED <<account, identity, txn, session, tx, uses>>
    BY <1>1 DEF vars
  <2>2. /\ account' \in [User -> Account] /\ identity' \in [Subject -> User \cup {Nobody}]
        /\ session' \subseteq User \X Subject /\ uses' \in [Txn -> Nat] /\ tx' \in [Proc -> Tx]
        /\ txn' \in [Txn -> Transaction]
    BY <2>1 DEF IndInv, TypeOK, Account, Transaction
  <2>3. Unspent' /\ Rows' /\ SignInMethod' /\ SessionHasIdentity'
    BY <2>1 DEF IndInv, Unspent, Rows, SignInMethod, SessionHasIdentity, Exists, Identities
  <2> QED BY <2>1, <2>2, <2>3, Tables DEF Exists
<1>2. ASSUME NEW p \in Proc, FindForLogin(p) \/ FindForLink(p) \/ FindForUnlink(p)
                             \/ LockAccount(p) \/ CheckEmail(p) \/ CheckProvider(p)
                             \/ CountIdentities(p)
      PROVE  IndInv'
  BY <1>2, FindForLoginStep, FindForLinkStep, FindForUnlinkStep, LockAccountStep,
     CheckEmailStep, CheckProviderStep, CountIdentitiesStep
<1>3. ASSUME NEW p \in Proc, CommitLogin(p) \/ CommitLinked(p) \/ Link(p) \/ Unlink(p)
                             \/ CommitDelete(p)
      PROVE  IndInv'
  BY <1>3, CommitLoginStep, CommitLinkedStep, LinkStep, UnlinkStep, CommitDeleteStep
<1>4. ASSUME NEW p \in Proc, ProviderError(p) \/ OutOfAccounts(p) \/ Conflict(p)
                             \/ Rollback(p) \/ DeadlockVictim(p)
      PROVE  IndInv'
  BY <1>4, GivesUp DEF ProviderError, OutOfAccounts, Conflict, Rollback, DeadlockVictim
<1>5. ASSUME NEW p \in Proc, NEW u \in User, NEW s \in Subject,
             CallUnlink(p, u, s) \/ SignUp(p, u)
      PROVE  IndInv'
  BY <1>5, CallUnlinkStep, SignUpStep
<1>6. ASSUME NEW p \in Proc, NEW s \in Subject, NEW e \in Email \cup {NoEmail}, Exchange(p, s, e)
      PROVE  IndInv'
  BY <1>6, ExchangeStep
<1>7. ASSUME NEW p \in Proc, NEW t \in Txn, Callback(p, t) PROVE IndInv'
  BY <1>7, CallbackStep
<1>8. ASSUME NEW t \in Txn, NEW u \in User \cup {Nobody}, Begin(t, u) PROVE IndInv'
  BY <1>8, BeginStep
<1>9. ASSUME NEW u \in User,
             \/ \E e \in Email \cup {NoEmail} : Register(u, e)
             \/ \E stage \in {"active", "disabled"} : SetActive(u, stage)
             \/ ResetPassword(u) \/ EndSessions(u)
      PROVE  IndInv'
  BY <1>9, AccountsStep
<1>10. CASE Next
  <2>1. CASE \E t \in Txn, u \in User \cup {Nobody} : Begin(t, u)
    BY <1>8, <2>1
  <2>2. CASE \E p \in Proc : \/ \E t \in Txn : Callback(p, t)
                             \/ \E u \in User, s \in Subject : CallUnlink(p, u, s)
                             \/ \E u \in User : Delete(p, u)
                             \/ Rollback(p) \/ DeadlockVictim(p)
    BY <1>4, <1>5, <1>7, <2>2, DeleteSteps
  <2>3. ASSUME NEW p \in Proc, Step(p) PROVE IndInv'
    <3>1. \/ \E s \in Subject, e \in Email \cup {NoEmail} : Exchange(p, s, e)
          \/ \E u \in User : SignUp(p, u)
          \/ ProviderError(p) \/ OutOfAccounts(p) \/ Conflict(p)
          \/ FindForLogin(p) \/ FindForLink(p) \/ FindForUnlink(p) \/ LockAccount(p)
          \/ CheckEmail(p) \/ CheckProvider(p) \/ CountIdentities(p)
          \/ CommitLogin(p) \/ CommitLinked(p) \/ Link(p) \/ Unlink(p) \/ CommitDelete(p)
          \/ \/ \E s \in Subject : CascadeIdentity(p, s)
             \/ \E t \in Txn : CascadeTransaction(p, t)
             \/ RejectDelete(p)
      BY <2>3 DEF Step
    <3>2. CASE \E u \in User : SignUp(p, u)
      BY <3>2, SignUpStep
    <3> QED BY <1>2, <1>3, <1>4, <1>6, <3>1, <3>2, DeleteSteps
  <2>4. CASE \E u \in User : \/ \E e \in Email \cup {NoEmail} : Register(u, e)
                             \/ \E stage \in {"active", "disabled"} : SetActive(u, stage)
                             \/ ResetPassword(u) \/ EndSessions(u)
    BY <1>9, <2>4
  <2> QED BY <1>10, <2>1, <2>2, <2>3, <2>4 DEF Next
<1> QED BY <1>1, <1>10

(* What a request has locked stays as it saw it, in every reachable state.  *)
THEOREM Invariance == Spec => []IndInv
BY InitIndInv, Next_IndInv, PTL DEF Spec

(* An account without a password keeps an identity to sign in with.         *)
THEOREM MethodKept == Spec => []SignInMethod
<1>1. IndInv => SignInMethod
  BY DEF IndInv
<1> QED BY <1>1, Invariance, PTL

(* No session outlives the link of the identity that opened it.             *)
THEOREM SessionsEndWithIdentity == Spec => []SessionHasIdentity
<1>1. IndInv => SessionHasIdentity
  BY DEF IndInv
<1> QED BY <1>1, Invariance, PTL

-----------------------------------------------------------------------------
(* The steps that change the tables; every other one is a request's own.    *)
LEMMA TableSteps ==
  ASSUME Next
  PROVE  \/ UNCHANGED <<account, identity, txn, session, uses>>
         \/ \E t \in Txn, u \in User \cup {Nobody} : Begin(t, u)
         \/ \E p \in Proc : \/ CommitLogin(p) \/ CommitLinked(p) \/ Link(p) \/ Unlink(p)
                            \/ CommitDelete(p) \/ \E u \in User : SignUp(p, u)
         \/ \E u \in User : \/ \E e \in Email \cup {NoEmail} : Register(u, e)
                            \/ \E stage \in {"active", "disabled"} : SetActive(u, stage)
                            \/ ResetPassword(u) \/ EndSessions(u)
<1> DEFINE Quiet == UNCHANGED <<account, identity, txn, session, uses>>
<1>1. ASSUME NEW p \in Proc, Step(p)
      PROVE  \/ CommitLogin(p) \/ CommitLinked(p) \/ Link(p) \/ Unlink(p)
             \/ CommitDelete(p) \/ (\E u \in User : SignUp(p, u)) \/ Quiet
  <2>1. CASE \/ \E s \in Subject, e \in Email \cup {NoEmail} : Exchange(p, s, e)
             \/ \E s \in Subject : CascadeIdentity(p, s)
             \/ \E t \in Txn : CascadeTransaction(p, t)
    BY <2>1 DEF Exchange, CascadeIdentity, CascadeTransaction, GoOn
  <2>2. CASE ProviderError(p) \/ OutOfAccounts(p) \/ Conflict(p) \/ RejectDelete(p)
    BY <2>2 DEF ProviderError, OutOfAccounts, Conflict, RejectDelete, Refused
  <2>3. CASE FindForLogin(p) \/ FindForLink(p) \/ FindForUnlink(p) \/ LockAccount(p)
    BY <2>3 DEF FindForLogin, FindForLink, FindForUnlink, LockAccount, GoOn, Refused
  <2>4. CASE CheckEmail(p) \/ CheckProvider(p) \/ CountIdentities(p)
    BY <2>4 DEF CheckEmail, CheckProvider, CountIdentities, GoOn, Refused
  <2> QED BY <1>1, <2>1, <2>2, <2>3, <2>4 DEF Step
<1>2. ASSUME NEW p \in Proc, \/ \E t \in Txn : Callback(p, t)
                             \/ \E u \in User, s \in Subject : CallUnlink(p, u, s)
                             \/ \E u \in User : Delete(p, u)
                             \/ Rollback(p) \/ DeadlockVictim(p)
      PROVE  Quiet
  BY <1>2 DEF Callback, CallUnlink, Delete, Rollback, DeadlockVictim, GoOn, Refused
<1> HIDE DEF Quiet
<1>3. \/ \E t \in Txn, u \in User \cup {Nobody} : Begin(t, u)
      \/ Quiet
      \/ \E p \in Proc : Step(p)
      \/ \E u \in User : \/ \E e \in Email \cup {NoEmail} : Register(u, e)
                         \/ \E stage \in {"active", "disabled"} : SetActive(u, stage)
                         \/ ResetPassword(u) \/ EndSessions(u)
  BY <1>2 DEF Next
<1> QED BY <1>1, <1>3 DEF Quiet

(* The identities a step may add, and under which transaction.              *)
LEMMA LinkingSteps ==
  ASSUME IndInv, Next, NEW u \in User, NEW s \in Subject, Exists(u),
         identity[s] # u, identity'[s] = u
  PROVE  \E t \in Txn : txn[t] = [stage |-> "open", user |-> u] /\ txn'[t].stage = "consumed"
<1>1. \/ identity' = identity
      \/ \E p \in Proc : (\E v \in User : SignUp(p, v)) \/ Link(p) \/ Unlink(p) \/ CommitDelete(p)
  BY TableSteps DEF Begin, CommitLogin, CommitLinked, Register, SetActive, ResetPassword, EndSessions
<1>2. identity \in [Subject -> User \cup {Nobody}] /\ txn \in [Txn -> Transaction]
  BY DEF IndInv, TypeOK, Transaction
<1>3. ASSUME NEW p \in Proc, NEW v \in User, SignUp(p, v) PROVE FALSE
  <2>1. identity' = [identity EXCEPT ![tx[p].subject] = v] /\ account[v].stage = "none"
    BY <1>3 DEF SignUp
  <2> QED BY <1>2, <2>1 DEF Exists
<1>4. ASSUME NEW p \in Proc, Unlink(p) PROVE FALSE
  <2>1. identity' = [identity EXCEPT ![tx[p].subject] = Nobody]
    BY <1>4 DEF Unlink
  <2> QED BY <1>2, <2>1, Sentinels
<1>5. ASSUME NEW p \in Proc, CommitDelete(p) PROVE FALSE
  <2>1. identity'[s] \in {identity[s], Nobody}
    BY <1>5, CommitDeleteRows
  <2> QED BY <2>1, Sentinels
<1>6. ASSUME NEW p \in Proc, Link(p)
      PROVE  \E t \in Txn : txn[t] = [stage |-> "open", user |-> u] /\ txn'[t].stage = "consumed"
  <2>1. /\ tx[p].op = "link" /\ Consume(p)
        /\ identity' = [identity EXCEPT ![tx[p].subject] = tx[p].user]
    BY <1>6 DEF Link
  <2>2. tx[p].user = u
    BY <1>2, <2>1
  <2>3. PICK t \in Txn : /\ txn[t].stage = "open" /\ txn[t].user = tx[p].user
                         /\ txn' = [txn EXCEPT ![t].stage = "consumed"]
    BY <2>1, Consumes
  <2>4. txn[t] \in Transaction
    BY <1>2
  <2>5. txn'[t].stage = "consumed"
    BY <1>2, <2>3, <2>4 DEF Transaction
  <2>6. txn[t] = [stage |-> "open", user |-> u]
    BY <2>2, <2>3, <2>4 DEF Transaction
  <2> QED BY <2>5, <2>6
<1> QED BY <1>1, <1>3, <1>4, <1>5, <1>6

(* An account gets an identity only by a transaction that it began.         *)
THEOREM LinksAreAskedFor == Spec => LinkedByOwner
<1>1. IndInv /\ [Next]_vars =>
        [\A u \in User, s \in Subject : Exists(u) /\ identity[s] # u /\ identity'[s] = u =>
           \E t \in Txn : txn[t] = [stage |-> "open", user |-> u] /\ txn'[t].stage = "consumed"]_vars
  BY LinkingSteps
<1> QED BY <1>1, Invariance, PTL DEF Spec, LinkedByOwner

-----------------------------------------------------------------------------
(* The sessions and identities a step may add, and for which account.       *)
LEMMA GrantingSteps ==
  ASSUME IndInv, Next
  PROVE  \/ /\ session' \subseteq session
            /\ \A s \in Subject : identity'[s] \in {identity[s], Nobody}
         \/ \E p \in Proc : CommitLogin(p) \/ Link(p) \/ \E u \in User : SignUp(p, u)
<1>1. identity \in [Subject -> User \cup {Nobody}]
  BY DEF IndInv, TypeOK
<1>2. \/ identity' = identity /\ session' = session
      \/ \E p \in Proc : \/ CommitLogin(p) \/ Link(p) \/ Unlink(p) \/ CommitDelete(p)
                         \/ \E u \in User : SignUp(p, u)
      \/ \E u \in User : ResetPassword(u) \/ EndSessions(u)
  BY TableSteps DEF Begin, CommitLinked, Register, SetActive
<1>3. ASSUME NEW p \in Proc, Unlink(p)
      PROVE  session' \subseteq session /\ \A s \in Subject : identity'[s] \in {identity[s], Nobody}
  BY <1>1, <1>3 DEF Unlink, WithoutSessions
<1>4. ASSUME NEW u \in User, ResetPassword(u) \/ EndSessions(u)
      PROVE  session' \subseteq session /\ \A s \in Subject : identity'[s] \in {identity[s], Nobody}
  BY <1>1, <1>4 DEF ResetPassword, EndSessions, WithoutSessions
<1>5. ASSUME NEW p \in Proc, CommitDelete(p)
      PROVE  session' \subseteq session /\ \A s \in Subject : identity'[s] \in {identity[s], Nobody}
  BY <1>5, CommitDeleteRows
<1> QED BY <1>2, <1>3, <1>4, <1>5

LEMMA GrantsToActive ==
  ASSUME IndInv, Next
  PROVE  /\ \A x \in session' \ session : account'[x[1]].stage = "active"
         /\ \A s \in Subject : identity'[s] \notin {identity[s], Nobody} =>
              account'[identity'[s]].stage = "active"
<1>1. identity \in [Subject -> User \cup {Nobody}] /\ account \in [User -> Account]
  BY DEF IndInv, TypeOK, Account
<1>2. ASSUME NEW p \in Proc, CommitLogin(p)
      PROVE  /\ \A x \in session' \ session : account'[x[1]].stage = "active"
             /\ identity' = identity
  <2>1. /\ Knows(tx[p]) /\ tx[p].pc = "commit" /\ tx[p].op = "login"
        /\ UNCHANGED <<account, identity>>
        /\ session' \subseteq session \cup {<<tx[p].user, tx[p].subject>>}
    BY <1>2 DEF IndInv, CommitLogin, At
  <2>2. account[tx[p].user].stage = "active"
    BY <2>1 DEF Knows
  <2> QED BY <2>1, <2>2
<1>3. ASSUME NEW p \in Proc, Link(p)
      PROVE  /\ session' \subseteq session
             /\ \A s \in Subject : identity'[s] # identity[s] => account'[identity'[s]].stage = "active"
  <2>1. /\ Knows(tx[p]) /\ tx[p].pc = "insert" /\ tx[p].op = "link" /\ account' = account
        /\ identity' = [identity EXCEPT ![tx[p].subject] = tx[p].user]
        /\ session' \subseteq session
    BY <1>3 DEF IndInv, Link, At, WithoutSessions
  <2>2. account[tx[p].user].stage = "active"
    BY <2>1 DEF Knows
  <2> QED BY <1>1, <2>1, <2>2
<1>4. ASSUME NEW p \in Proc, NEW u \in User, SignUp(p, u)
      PROVE  /\ \A x \in session' \ session : account'[x[1]].stage = "active"
             /\ \A s \in Subject : identity'[s] # identity[s] => account'[identity'[s]].stage = "active"
  <2>1. /\ account' = [account EXCEPT ![u] = [stage |-> "active", email |-> tx[p].email,
                                              password |-> FALSE]]
        /\ identity' = [identity EXCEPT ![tx[p].subject] = u]
        /\ session' = session \cup {<<u, tx[p].subject>>}
    BY <1>4 DEF SignUp
  <2>2. account'[u].stage = "active"
    BY <1>1, <2>1
  <2> QED BY <1>1, <2>1, <2>2
<1> QED BY <1>2, <1>3, <1>4, GrantingSteps

(* A callback grants something only to an account active when it commits.   *)
THEOREM GrantsOnlyActive == Spec => OnlyActive
<1>1. IndInv /\ [Next]_vars =>
        [/\ \A x \in session' \ session : account'[x[1]].stage = "active"
         /\ \A s \in Subject : identity'[s] \notin {identity[s], Nobody} =>
              account'[identity'[s]].stage = "active"]_vars
  BY GrantsToActive
<1> QED BY <1>1, Invariance, PTL DEF Spec, OnlyActive

-----------------------------------------------------------------------------
(* What a sign-in, link or unlink that waits for another one may hold.      *)
LEMMA Waiting ==
  ASSUME IndInv, NEW p \in Proc, NEW q \in Proc, WaitsFor(p, q)
  PROVE  /\ tx[p].op \in {"login", "link", "unlink", "delete"}
         /\ tx[p].op \in {"login", "unlink"} => ~tx[p].lock
         /\ tx[p].op = "link" => tx[p].held = {}
<1>1. /\ tx[p] \in Tx /\ Knows(tx[p])
      /\ tx[p].pc \in {"identity", "account", "email", "provider", "insert", "cascade"}
  BY DEF IndInv, TypeOK, WaitsFor, At
<1> QED BY <1>1 DEF Knows, Tx

(* What the one that is waited for holds, deletions aside.                  *)
LEMMA WaitedFor ==
  ASSUME IndInv, NEW p \in Proc, NEW q \in Proc, WaitsFor(p, q),
         tx[p].op # "delete", tx[q].op # "delete"
  PROVE  \/ tx[q].held # {} /\ tx[p].pc \in {"identity", "provider"}
         \/ tx[q].lock /\ tx[p].pc \in {"account", "email"}
<1>1. tx[p].pc # "cascade"
  BY DEF IndInv, Knows
<1> QED BY <1>1 DEF WaitsFor, Locks, Removes, At

LEMMA TwoOrders == IndInv => DeadlockMeansTwoOrders
<1> SUFFICES ASSUME IndInv, NEW S \in SUBSET Proc, S # {}, Cycle(S),
                    \A p \in S : tx[p].op # "delete",
                    \A p, q \in S : tx[p].op = "link" => tx[q].op = "link"
             PROVE  FALSE
  BY DEF DeadlockMeansTwoOrders
<1>1. PICK next \in [S -> S] : \A q \in S : WaitsFor(q, next[q])
  BY DEF Cycle
<1>2. PICK p \in S : TRUE
  OBVIOUS
<1> DEFINE q == next[p]
           r == next[q]
<1>3. /\ p \in Proc /\ q \in S /\ q \in Proc /\ r \in S /\ r \in Proc
      /\ WaitsFor(p, q) /\ WaitsFor(q, r) /\ WaitsFor(r, next[r]) /\ next[r] \in Proc
  BY <1>1, <1>2
<1>4. tx[p].op # "delete" /\ tx[q].op # "delete" /\ tx[r].op # "delete"
  BY <1>2, <1>3
<1>5. \/ tx[q].held # {} /\ tx[p].pc \in {"identity", "provider"}
      \/ tx[q].lock /\ tx[p].pc \in {"account", "email"}
  BY <1>3, <1>4, WaitedFor
<1>6. \/ tx[r].held # {} /\ tx[q].pc \in {"identity", "provider"}
      \/ tx[r].lock /\ tx[q].pc \in {"account", "email"}
  BY <1>3, <1>4, WaitedFor
<1> HIDE DEF q, r
<1>7. CASE tx[p].op = "link"
  <2>1. tx[q].op = "link" /\ tx[r].op = "link"
    BY <1>2, <1>3, <1>7
  <2>2. tx[q].held = {} /\ tx[r].held = {}
    BY <1>3, <2>1, Waiting
  <2>3. tx[q].lock
    BY <1>5, <2>2
  <2>4. tx[q].pc \in {"account", "email"}
    BY <1>6, <2>2
  <2> QED BY <1>3, <2>1, <2>3, <2>4 DEF IndInv, Knows
<1>8. CASE tx[p].op # "link"
  <2>1. tx[q].op \in {"login", "unlink"} /\ tx[r].op \in {"login", "unlink"}
    BY <1>2, <1>3, <1>4, <1>8, Waiting
  <2>2. ~tx[q].lock /\ ~tx[r].lock
    BY <1>3, <2>1, Waiting
  <2>3. tx[q].held # {} /\ tx[q].pc \in {"identity", "provider"}
    BY <1>5, <1>6, <2>2
  <2> QED BY <1>3, <2>1, <2>3 DEF IndInv, Knows
<1> QED BY <1>7, <1>8

(* Sign-ins and unlinks deadlock only with links and deletions.             *)
THEOREM DeadlocksNeedTwoOrders == Spec => []DeadlockMeansTwoOrders
BY TwoOrders, Invariance, PTL

-----------------------------------------------------------------------------
(* Each step is a step of SingleUse or a stutter.                           *)
LEMMA OpenStage ==
  ASSUME IndInv, NEW t \in Txn
  PROVE  /\ uses[t] \in Nat
         /\ txn[t].stage \in {"none", "open"} => uses[t] = 0 /\ Stage[t] = txn[t].stage
<1>1. uses[t] \in Nat
  BY DEF IndInv, TypeOK
<1>2. CASE txn[t].stage \in {"none", "open"}
  <2>1. uses[t] = 0
    BY <1>2 DEF IndInv, Unspent
  <2>2. Stage[t] = txn[t].stage
    BY <1>2, <2>1 DEF Stage
  <2> QED BY <1>1, <2>1, <2>2
<1> QED BY <1>1, <1>2

LEMMA BeginIssues ==
  ASSUME IndInv, NEW t \in Txn, NEW u \in User \cup {Nobody}, Begin(t, u)
  PROVE  Transactions!Next
<1>1. /\ uses' = uses /\ txn[t].stage = "none" /\ txn \in [Txn -> Transaction]
      /\ txn' = [txn EXCEPT ![t] = [stage |-> "open", user |-> u]]
  BY DEF Begin, IndInv, TypeOK, Transaction
<1>2. txn'[t].stage = "open" /\ \A r \in Txn \ {t} : txn'[r] = txn[r]
  BY <1>1
<1>3. Stage[t] = "none" /\ uses[t] = 0
  BY <1>1, OpenStage
<1>4. Stage' = [r \in Txn |-> IF r \in {t} THEN "open" ELSE IF r \in {} THEN "withdrawn" ELSE Stage[r]]
  <2>1. ASSUME NEW r \in Txn
        PROVE  (CASE uses'[r] > 0 -> "used"
                  [] uses'[r] = 0 /\ txn'[r].stage = "deleted" -> "withdrawn"
                  [] OTHER -> txn'[r].stage)
               = IF r = t THEN "open" ELSE Stage[r]
    <3>1. CASE r = t
      BY <1>1, <1>2, <1>3, <3>1
    <3>2. CASE r # t
      BY <1>1, <1>2, <3>2 DEF Stage
    <3> QED BY <3>1, <3>2
  <2> QED BY <2>1 DEF Stage
<1>5. Transactions!Issue({t}, {})
  BY <1>1, <1>3, <1>4 DEF Transactions!Issue
<1> QED BY <1>5 DEF Transactions!Next

LEMMA DeleteWithdraws ==
  ASSUME IndInv, NEW p \in Proc, CommitDelete(p)
  PROVE  Transactions!Next
<1> DEFINE u == tx[p].user
           W == {t \in Txn : txn[t].user = u /\ txn[t].stage = "open"}
<1>1. /\ uses' = uses /\ txn \in [Txn -> Transaction]
      /\ \A t \in Txn : txn'[t] = IF txn[t].user = u THEN [txn[t] EXCEPT !.stage = "deleted"] ELSE txn[t]
  BY CommitDeleteRows DEF IndInv, TypeOK, Transaction
<1>2. \A t \in Txn : txn'[t].stage = IF txn[t].user = u THEN "deleted" ELSE txn[t].stage
  BY <1>1 DEF Transaction
<1>3. \A t \in Txn : txn[t].stage = "none" => txn[t].user # u
  <2>1. u \in User
    BY CommitDeleteRows
  <2> QED BY <2>1, Sentinels DEF IndInv, Unspent
<1>4. \A t \in W : Stage[t] = "open" /\ uses[t] = 0
  BY OpenStage
<1>5. Stage' = [t \in Txn |-> IF t \in {} THEN "open" ELSE IF t \in W THEN "withdrawn" ELSE Stage[t]]
  <2>1. ASSUME NEW t \in Txn
        PROVE  (CASE uses'[t] > 0 -> "used"
                  [] uses'[t] = 0 /\ txn'[t].stage = "deleted" -> "withdrawn"
                  [] OTHER -> txn'[t].stage)
               = IF t \in W THEN "withdrawn" ELSE Stage[t]
    <3>1. CASE t \in W
      BY <1>1, <1>2, <1>4, <3>1
    <3>2. CASE t \notin W /\ txn[t].user = u
      <4>1. txn[t].stage \in {"consumed", "deleted"} /\ txn'[t].stage = "deleted"
        BY <1>1, <1>2, <1>3, <3>2 DEF Transaction
      <4>2. txn[t].stage = "consumed" => uses[t] = 1
        BY DEF IndInv, Unspent
      <4>3. uses[t] \in Nat
        BY OpenStage
      <4> QED BY <1>1, <3>2, <4>1, <4>2, <4>3 DEF Stage
    <3>3. CASE txn[t].user # u
      BY <1>1, <1>2, <3>3 DEF Stage
    <3> QED BY <3>1, <3>2, <3>3
  <2> QED BY <2>1 DEF Stage
<1>6. Transactions!Issue({}, W)
  BY <1>1, <1>4, <1>5 DEF Transactions!Issue, Transactions!Open
<1>7. W \in SUBSET Txn
  OBVIOUS
<1> QED BY <1>6, <1>7 DEF Transactions!Next

LEMMA ConsumeUses ==
  ASSUME IndInv, NEW p \in Proc, tx[p].op \in {"login", "link"}, Consume(p)
  PROVE  Transactions!Next
<1>1. PICK t \in Txn : /\ txn[t].stage = "open" /\ uses[t] = 0
                       /\ txn' = [txn EXCEPT ![t].stage = "consumed"]
                       /\ uses' = [uses EXCEPT ![t] = 1]
  BY Consumes
<1>2. txn \in [Txn -> Transaction] /\ uses \in [Txn -> Nat]
  BY DEF IndInv, TypeOK, Transaction
<1>3. /\ uses'[t] = 1
      /\ \A r \in Txn \ {t} : uses'[r] = uses[r] /\ txn'[r] = txn[r]
  BY <1>1, <1>2
<1>4. Stage[t] = "open"
  BY <1>1, OpenStage
<1>5. Stage' = [r \in Txn |-> IF r = t THEN "used" ELSE IF r \in {} THEN "withdrawn" ELSE Stage[r]]
  <2>1. ASSUME NEW r \in Txn
        PROVE  (CASE uses'[r] > 0 -> "used"
                  [] uses'[r] = 0 /\ txn'[r].stage = "deleted" -> "withdrawn"
                  [] OTHER -> txn'[r].stage)
               = IF r = t THEN "used" ELSE Stage[r]
    <3>1. CASE r = t
      BY <1>3, <3>1
    <3>2. CASE r # t
      BY <1>3, <3>2 DEF Stage
    <3> QED BY <3>1, <3>2
  <2> QED BY <2>1 DEF Stage
<1>6. uses' = [uses EXCEPT ![t] = @ + 1]
  BY <1>1, <1>2
<1>7. Transactions!Use(t, {})
  BY <1>4, <1>5, <1>6 DEF Transactions!Use, Transactions!Open
<1> QED BY <1>7 DEF Transactions!Next

LEMMA InitTransactions == Init => Transactions!Init
BY DEF Init, Transactions!Init, Stage

LEMMA NextTransactions == IndInv /\ [Next]_vars => [Transactions!Next]_Transactions!vars
<1> SUFFICES ASSUME IndInv, [Next]_vars PROVE Transactions!Next \/ UNCHANGED Transactions!vars
  OBVIOUS
<1>1. CASE UNCHANGED <<txn, uses>>
  BY <1>1 DEF Transactions!vars, Stage
<1>2. CASE UNCHANGED vars
  BY <1>1, <1>2 DEF vars
<1>3. CASE Next
  <2>1. \/ UNCHANGED <<txn, uses>>
        \/ \E t \in Txn, u \in User \cup {Nobody} : Begin(t, u)
        \/ \E p \in Proc : CommitDelete(p)
        \/ \E p \in Proc : CommitLogin(p) \/ CommitLinked(p) \/ Link(p) \/ \E u \in User : SignUp(p, u)
    BY <1>3, TableSteps DEF Unlink, Register, SetActive, ResetPassword, EndSessions
  <2>2. ASSUME NEW p \in Proc, CommitLogin(p) \/ CommitLinked(p) \/ Link(p) \/ \E u \in User : SignUp(p, u)
        PROVE  Transactions!Next
    <3>1. tx[p].op \in {"login", "link"} /\ Consume(p)
      BY <2>2 DEF CommitLogin, CommitLinked, Link, SignUp
    <3> QED BY <3>1, ConsumeUses
  <2> QED BY <1>1, <2>1, <2>2, BeginIssues, DeleteWithdraws
<1> QED BY <1>2, <1>3

(* An OIDC transaction is accepted once.                                    *)
THEOREM TransactionsImplemented == Spec => TransactionsOnce
BY InitTransactions, NextTransactions, Invariance, PTL DEF Spec, TransactionsOnce, Transactions!Spec
=============================================================================
