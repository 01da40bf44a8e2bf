---------------------------- MODULE ActionTokens ----------------------------
(***************************************************************************)
(* The e-mailed tokens of one account: e-mail verification and password    *)
(* reset (app/services/email_verification.py, password_reset.py).          *)
(*                                                                         *)
(* A request is one transaction at READ COMMITTED.  The token a user       *)
(* presents is locked first and the users row after it; the UPDATE that    *)
(* withdraws tokens sees the rows of its snapshot, and waits for each that *)
(* is locked; an INSERT waits, through its foreign key, for whoever holds  *)
(* the users row FOR UPDATE.                                               *)
(*                                                                         *)
(* Nothing changes an account's address, so the comparison with the token's*)
(* target never fails.  An expired token is refused like a wrong one, which*)
(* changes nothing.  The outbox row of a token is written by the same      *)
(* commit (OutboxWorkers!Enqueue); the sessions a reset revokes are those  *)
(* of RefreshSessions!ResetPassword.                                       *)
(***************************************************************************)
EXTENDS Naturals, FiniteSets

CONSTANTS Token, Proc

ASSUME FiniteIds == IsFiniteSet(Token) /\ IsFiniteSet(Proc)

VARIABLES user,   \* is the account active, is its address verified
          token,  \* the rows of account_action_tokens
          tx,     \* the open transaction of each request
          uses    \* history: how often each token was accepted

vars == <<user, token, tx, uses>>

Verification == "email_verification"
Reset == "password_reset"
Purpose == {Verification, Reset}

Row == [stage: {"open", "consumed"}, purpose: Purpose] \cup {[stage |-> "none", purpose |-> "none"]}

Tx == [pc: {"idle", "user", "scan", "update"},
       op: {"none", "issue", "confirm"},
       purpose: Purpose \cup {"none"},
       given: SUBSET Token,    \* the token presented
       todo: SUBSET Token,     \* rows the UPDATE has yet to visit
       held: SUBSET Token,     \* rows locked, to be consumed
       lock: BOOLEAN]          \* the users row, FOR UPDATE

Idle == [pc |-> "idle", op |-> "none", purpose |-> "none",
         given |-> {}, todo |-> {}, held |-> {}, lock |-> FALSE]

TypeOK ==
  /\ user \in [active: BOOLEAN, verified: BOOLEAN]
  /\ token \in [Token -> Row]
  /\ tx \in [Proc -> Tx]
  /\ uses \in [Token -> Nat]

Init ==
  /\ user = [active |-> TRUE, verified |-> FALSE]
  /\ token = [t \in Token |-> [stage |-> "none", purpose |-> "none"]]
  /\ tx = [p \in Proc |-> Idle]
  /\ uses = [t \in Token |-> 0]

-----------------------------------------------------------------------------
Open(t) == token[t].stage = "open"
Outstanding(pur) == {t \in Token : Open(t) /\ token[t].purpose = pur}
Recoverable == user.active /\ user.verified

FreeRow(p, t) == \A q \in Proc \ {p} : t \notin tx[q].held
FreeUser(p) == \A q \in Proc \ {p} : ~tx[q].lock

Consumed(S) == [t \in Token |-> IF t \in S THEN [token[t] EXCEPT !.stage = "consumed"] ELSE token[t]]

Start(p, x) == tx[p].pc = "idle" /\ tx' = [tx EXCEPT ![p] = x]

(* Faulty variant: the session is not closed, and its row locks stay. *)
EndLeaking(p) == tx' = [tx EXCEPT ![p] = [Idle EXCEPT !.held = tx[p].held]]

End(p) == tx' = [tx EXCEPT ![p] = Idle]

(* Bound: a request for a token begins only while one is left for it.       *)
TokensLeft ==
  Cardinality({t \in Token : token[t].stage = "none"})
    > Cardinality({p \in Proc : tx[p].op = "issue"})

-----------------------------------------------------------------------------
(* POST /auth/email-verification/request, .../password-reset/request: the   *)
(* account is read without a lock.                                          *)
Issue(p, pur) ==
  /\ TokensLeft
  /\ IF pur = Reset THEN Recoverable ELSE ~user.verified
  /\ Start(p, [Idle EXCEPT !.pc = "scan", !.op = "issue", !.purpose = pur])
  /\ UNCHANGED <<user, token, uses>>

(* Faulty variant: FOR UPDATE SKIP LOCKED, a locked row is passed over. *)
UpdateRowSkipping(p, t) ==
  /\ tx[p].pc = "update" /\ t \in tx[p].todo
  /\ tx' = [tx EXCEPT ![p].todo = @ \ {t},
                      ![p].held = IF Open(t) /\ FreeRow(p, t) THEN @ \cup {t} ELSE @]
  /\ UNCHANGED <<user, token, uses>>

(* UPDATE account_action_tokens ... WHERE consumed_at IS NULL               *)
Scan(p) ==
  /\ tx[p].pc = "scan"
  /\ tx' = [tx EXCEPT ![p].pc = "update", ![p].todo = Outstanding(tx[p].purpose)]
  /\ UNCHANGED <<user, token, uses>>

UpdateRow(p, t) ==
  /\ tx[p].pc = "update" /\ t \in tx[p].todo /\ FreeRow(p, t)
  /\ tx' = [tx EXCEPT ![p].todo = @ \ {t},
                      ![p].held = IF Open(t) THEN @ \cup {t} ELSE @]
  /\ UNCHANGED <<user, token, uses>>

Insert(p, t) ==
  /\ tx[p].pc = "update" /\ tx[p].op = "issue" /\ tx[p].todo = {}
  /\ FreeUser(p) /\ token[t].stage = "none"
  /\ token' = [Consumed(tx[p].held) EXCEPT ![t] = [stage |-> "open", purpose |-> tx[p].purpose]]
  /\ End(p) /\ UNCHANGED <<user, uses>>

-----------------------------------------------------------------------------
(* Faulty variant: the token is read without FOR UPDATE. *)
ConfirmUnlocked(p, t) ==
  /\ Open(t)
  /\ Start(p, [Idle EXCEPT !.pc = "user", !.op = "confirm", !.purpose = token[t].purpose,
                           !.given = {t}, !.held = {t}])
  /\ UNCHANGED <<user, token, uses>>

(* POST /auth/email-verification/confirm, .../password-reset/confirm:       *)
(* SELECT the token FOR UPDATE; each route accepts its own purpose only.    *)
Confirm(p, t) ==
  /\ Open(t) /\ FreeRow(p, t)
  /\ Start(p, [Idle EXCEPT !.pc = "user", !.op = "confirm", !.purpose = token[t].purpose,
                           !.given = {t}, !.held = {t}])
  /\ UNCHANGED <<user, token, uses>>

Accept(p) == uses' = [t \in Token |-> IF t \in tx[p].given THEN uses[t] + 1 ELSE uses[t]]

(* The user is read without a lock; the commit's UPDATE waits for the row.  *)
CommitVerification(p) ==
  /\ tx[p].pc = "user" /\ tx[p].purpose = Verification /\ FreeUser(p)
  /\ user' = [user EXCEPT !.verified = TRUE]
  /\ token' = Consumed(tx[p].given)
  /\ Accept(p) /\ End(p)

(* Faulty variant: the account is read without FOR UPDATE. *)
LockUserUnlocked(p) ==
  /\ tx[p].pc = "user" /\ tx[p].purpose = Reset /\ Recoverable
  /\ tx' = [tx EXCEPT ![p].pc = "scan"]
  /\ UNCHANGED <<user, token, uses>>

(* The reset locks the account before it looks at it.                       *)
LockUser(p) ==
  /\ tx[p].pc = "user" /\ tx[p].purpose = Reset /\ FreeUser(p) /\ Recoverable
  /\ tx' = [tx EXCEPT ![p].pc = "scan", ![p].lock = TRUE]
  /\ UNCHANGED <<user, token, uses>>

Reject(p) ==
  /\ tx[p].pc = "user" /\ tx[p].purpose = Reset /\ FreeUser(p) /\ ~Recoverable
  /\ End(p) /\ UNCHANGED <<user, token, uses>>

(* The new password, every outstanding reset token, every session.          *)
CommitReset(p) ==
  /\ tx[p].pc = "update" /\ tx[p].op = "confirm" /\ tx[p].todo = {}
  /\ token' = Consumed(tx[p].held)
  /\ Accept(p) /\ End(p) /\ UNCHANGED user

-----------------------------------------------------------------------------
(* PATCH /admin/users/{id}/status, whose UPDATE waits for the users row.    *)
SetActive(b) ==
  /\ b # user.active /\ \A p \in Proc : ~tx[p].lock
  /\ user' = [user EXCEPT !.active = b]
  /\ UNCHANGED <<token, tx, uses>>

(* Any exception, a lost connection, a killed worker.                       *)
Rollback(p) ==
  /\ tx[p].pc # "idle"
  /\ End(p) /\ UNCHANGED <<user, token, uses>>

(* q holds what p's next statement waits for. *)
WaitsFor(p, q) ==
  /\ q # p
  /\ \/ /\ tx[p].pc = "update" /\ tx[p].todo \cap tx[q].held # {}
        /\ \A t \in tx[p].todo : ~FreeRow(p, t)
     \/ /\ tx[p].pc = "user" \/ (tx[p].pc = "update" /\ tx[p].op = "issue" /\ tx[p].todo = {})
        /\ tx[q].lock

(* PostgreSQL finds a cycle of waiting transactions and fails one of them. *)
Deadlocked(p) ==
  \E S \in SUBSET Proc : p \in S /\ \E next \in [S -> S] :
    \A q \in S : WaitsFor(q, next[q]) /\ \A r \in S \ {q} : next[q] # next[r]

DeadlockVictim(p) == Deadlocked(p) /\ End(p) /\ UNCHANGED <<user, token, uses>>

(* What the code does next of its own accord, once a request has begun. *)
Step(p) ==
  \/ Scan(p) \/ \E t \in Token : UpdateRow(p, t) \/ Insert(p, t)
  \/ CommitVerification(p) \/ LockUser(p) \/ Reject(p) \/ CommitReset(p)

Next ==
  \/ \E p \in Proc : \/ \E pur \in Purpose : Issue(p, pur)
                     \/ \E t \in Token : Confirm(p, t)
                     \/ Step(p) \/ Rollback(p) \/ DeadlockVictim(p)
  \/ \E b \in BOOLEAN : SetActive(b)

Spec == Init /\ [][Next]_vars

(* A running request keeps executing: PostgreSQL serves the waiters of a    *)
(* lock in turn, and breaks every deadlock.                                 *)
FairSpec == /\ Spec
            /\ \A p \in Proc : SF_vars(Step(p))
            /\ WF_vars(\E p \in Proc : DeadlockVictim(p))

-----------------------------------------------------------------------------
(* Two requests may leave several reset tokens outstanding; the reset that  *)
(* one of them confirms leaves none, not even one issued while it ran (the  *)
(* foreign key meets the reset's FOR UPDATE).                               *)
ResetConsumesAll ==
  [][\A p \in Proc : CommitReset(p) => Outstanding(Reset)' = {}]_vars

(* A password is reset only for an account that is active and verified at   *)
(* the commit, though administrators change it meanwhile.                   *)
ResetOnlyRecoverable ==
  [][\A t \in Token : uses'[t] # uses[t] /\ token[t].purpose = Reset => Recoverable]_vars

(* The tokens that the UPDATE under way will leave outstanding.             *)
Escaping(p) ==
  IF tx[p].pc = "update" THEN Outstanding(tx[p].purpose) \ (tx[p].todo \cup tx[p].held) ELSE {}

(* What a request or a reset fails to withdraw was inserted after its UPDATE*)
(* had begun, so at most the requests that ran at the same time leave tokens*)
(* beside the new one.                                                      *)
OnlyNewEscape ==
  [][\A p \in Proc, t \in Token :
       t \in Escaping(p)' => t \in Escaping(p) \/ token[t].stage = "none"]_vars

(* Every request ends, though a reset locks tokens, the account and then    *)
(* more tokens, and a request for a token tokens and then the account.      *)
RequestsEnd == \A p \in Proc : tx[p].pc # "idle" ~> tx[p].pc = "idle"

(* Why the safety properties hold.                                          *)
LocksExclusive ==
  \A p, q \in Proc : p # q => /\ tx[p].held \cap tx[q].held = {}
                              /\ ~(tx[p].lock /\ tx[q].lock)

Knows(x) ==
  /\ x.pc = "idle" => x = Idle
  /\ x.pc # "idle" => x.purpose \in Purpose
  /\ \A t \in x.held : Open(t) /\ token[t].purpose = x.purpose
  /\ \A t \in x.todo : token[t].purpose = x.purpose
  /\ x.op = "issue" => x.pc \in {"scan", "update"} /\ ~x.lock
  /\ x.op = "confirm" => \E t \in x.held : x.given = {t}
  /\ x.op = "confirm" /\ x.pc # "user" => x.purpose = Reset /\ x.lock
  /\ x.pc = "user" => x.op = "confirm" /\ ~x.lock
  /\ x.lock => Recoverable

ResetSees(x) ==
  x.pc = "update" /\ x.op = "confirm" => Outstanding(Reset) \subseteq x.todo \cup x.held

Unspent == \A t \in Token : uses[t] =< 1 /\ (token[t].stage # "consumed" => uses[t] = 0)

IndInv == TypeOK /\ LocksExclusive /\ Unspent
          /\ \A p \in Proc : Knows(tx[p]) /\ ResetSees(tx[p])

-----------------------------------------------------------------------------
Stage == [t \in Token |-> IF uses[t] > 0 THEN "used"
                          ELSE IF token[t].stage = "consumed" THEN "withdrawn" ELSE token[t].stage]

Tokens == INSTANCE SingleUse WITH Item <- Token, stage <- Stage

(* A token is accepted once, and never after a later request or a reset     *)
(* consumed it.                                                             *)
TokensOnce == Tokens!Spec
=============================================================================
