------------------------- MODULE ActionTokensProofs -------------------------
(***************************************************************************)
(* Proofs about ActionTokens, for any number of tokens and requests.       *)
(***************************************************************************)
EXTENDS ActionTokens, FiniteSetTheorems, TLAPS

LEMMA IdleTx == Idle \in Tx
BY DEF Idle, Tx, Purpose, Verification, Reset

LEMMA InitIndInv == Init => IndInv
<1> SUFFICES ASSUME Init PROVE IndInv
  OBVIOUS
<1>1. TypeOK
  BY IdleTx DEF Init, TypeOK, Row
<1>2. LocksExclusive /\ Unspent
  BY DEF Init, LocksExclusive, Unspent, Idle
<1>3. \A p \in Proc : Knows(tx[p]) /\ ResetSees(tx[p])
  BY DEF Init, Knows, ResetSees, Idle
<1> QED BY <1>1, <1>2, <1>3 DEF IndInv

-----------------------------------------------------------------------------
(* A step of request p that respects the locks of the others: it changes no *)
(* token another one holds, and takes neither the account's state nor the   *)
(* view of a reset away from whoever has locked the users row.              *)
LEMMA LocksStep ==
  ASSUME TypeOK, LocksExclusive, \A q \in Proc : Knows(tx[q]) /\ ResetSees(tx[q]),
         NEW p \in Proc, tx' \in [Proc -> Tx],
         \A q \in Proc \ {p} : tx'[q] = tx[q],
         \A t \in tx'[p].held : FreeRow(p, t),
         tx'[p].lock => FreeUser(p),
         Knows(tx[p])', ResetSees(tx[p])',
         \A t \in Token : token'[t] # token[t] => FreeRow(p, t),
         \A t \in Token : token[t].purpose \in Purpose => token'[t].purpose = token[t].purpose,
         Recoverable => Recoverable',
         FreeUser(p) \/ Outstanding(Reset)' \subseteq Outstanding(Reset)
  PROVE  LocksExclusive' /\ \A q \in Proc : Knows(tx[q])' /\ ResetSees(tx[q])'
<1>1. LocksExclusive'
  BY DEF LocksExclusive, FreeRow, FreeUser
<1>2. ASSUME NEW q \in Proc, q # p PROVE Knows(tx[q])'
  <2>1. tx'[q] = tx[q] /\ Knows(tx[q]) /\ tx[q] \in Tx
    BY <1>2 DEF TypeOK
  <2>2. \A t \in tx[q].held : t \in Token /\ token'[t] = token[t]
    BY <1>2, <2>1 DEF FreeRow, Tx
  <2>3. \A t \in tx[q].held : Open(t)' /\ token'[t].purpose = tx[q].purpose
    BY <2>1, <2>2 DEF Knows, Open
  <2>4. \A t \in tx[q].todo : token'[t].purpose = tx[q].purpose
    BY <2>1, IdleTx DEF Knows, Tx, Idle
  <2> QED BY <2>1, <2>3, <2>4 DEF Knows
<1>3. ASSUME NEW q \in Proc, q # p PROVE ResetSees(tx[q])'
  <2>1. tx'[q] = tx[q] /\ Knows(tx[q]) /\ ResetSees(tx[q])
    BY <1>3
  <2>2. CASE FreeUser(p)
    BY <1>3, <2>1, <2>2 DEF Knows, ResetSees, FreeUser
  <2>3. CASE Outstanding(Reset)' \subseteq Outstanding(Reset)
    BY <2>1, <2>3 DEF ResetSees
  <2> QED BY <2>2, <2>3
<1> QED BY <1>1, <1>2, <1>3

(* Consuming open tokens changes their stage and nothing else.              *)
LEMMA ConsumedRows ==
  ASSUME TypeOK, NEW S \in SUBSET Token, \A t \in S : Open(t), NEW t \in Token
  PROVE  /\ Consumed(S)[t] \in Row
         /\ Consumed(S)[t].purpose = token[t].purpose
         /\ Consumed(S)[t].stage = IF t \in S THEN "consumed" ELSE token[t].stage
         /\ t \notin S => Consumed(S)[t] = token[t]
<1>1. token[t] \in Row
  BY DEF TypeOK
<1>2. CASE t \notin S
  BY <1>1, <1>2 DEF Consumed
<1>3. CASE t \in S
  <2>1. token[t] \in [stage: {"open", "consumed"}, purpose: Purpose]
    BY <1>1, <1>3 DEF Row, Open
  <2>2. Consumed(S)[t] = [token[t] EXCEPT !.stage = "consumed"]
    BY <1>3 DEF Consumed
  <2>3. /\ Consumed(S)[t].stage = "consumed" /\ Consumed(S)[t].purpose = token[t].purpose
        /\ Consumed(S)[t] \in [stage: {"open", "consumed"}, purpose: Purpose]
    BY <2>1, <2>2
  <2> QED BY <1>3, <2>3 DEF Row
<1> QED BY <1>2, <1>3

(* A request that ends, having consumed only tokens that it held.           *)
LEMMA Ended ==
  ASSUME TypeOK, LocksExclusive, \A q \in Proc : Knows(tx[q]) /\ ResetSees(tx[q]),
         NEW p \in Proc, End(p), NEW S \in SUBSET tx[p].held, token' = Consumed(S),
         Recoverable => Recoverable'
  PROVE  /\ tx' \in [Proc -> Tx] /\ token' \in [Token -> Row]
         /\ LocksExclusive' /\ \A q \in Proc : Knows(tx[q])' /\ ResetSees(tx[q])'
         /\ Outstanding(Reset)' = Outstanding(Reset) \ S
<1>1. /\ tx' \in [Proc -> Tx] /\ tx'[p] = Idle
      /\ \A q \in Proc \ {p} : tx'[q] = tx[q]
  BY IdleTx DEF TypeOK, End
<1>2. /\ Knows(tx[p])' /\ ResetSees(tx[p])'
      /\ tx'[p].held = {} /\ ~tx'[p].lock
  BY <1>1 DEF Knows, ResetSees, Idle
<1>3. S \subseteq Token /\ \A t \in S : Open(t) /\ FreeRow(p, t)
  BY DEF TypeOK, Tx, Knows, FreeRow, LocksExclusive
<1>4. \A t \in Token : /\ token'[t] \in Row /\ token'[t].purpose = token[t].purpose
                       /\ token'[t].stage = IF t \in S THEN "consumed" ELSE token[t].stage
                       /\ t \notin S => token'[t] = token[t]
  BY <1>3, ConsumedRows
<1>5. token' \in [Token -> Row]
  BY <1>4 DEF Consumed
<1>6. Outstanding(Reset)' = Outstanding(Reset) \ S
  BY <1>4 DEF Outstanding, Open
<1>7. \A t \in Token : token'[t] # token[t] => FreeRow(p, t)
  BY <1>3, <1>4
<1> QED BY <1>1, <1>2, <1>4, <1>5, <1>6, <1>7, LocksStep

LEMMA NothingSpent ==
  ASSUME Unspent, UNCHANGED uses,
         \A t \in Token : token'[t].stage # "consumed" => token[t].stage # "consumed"
  PROVE  Unspent'
BY DEF Unspent

LEMMA ConsumedEmpty == TypeOK => Consumed({}) = token
BY DEF Consumed, TypeOK

-----------------------------------------------------------------------------
LEMMA IssueStep ==
  ASSUME IndInv, NEW p \in Proc, NEW pur \in Purpose, Issue(p, pur)
  PROVE  IndInv'
<1> USE DEF IndInv
<1> DEFINE x == [Idle EXCEPT !.pc = "scan", !.op = "issue", !.purpose = pur]
<1>1. /\ tx' \in [Proc -> Tx] /\ tx'[p] = x
      /\ \A q \in Proc \ {p} : tx'[q] = tx[q]
  BY IdleTx DEF Issue, Start, TypeOK, Tx
<1>2. /\ tx'[p].pc = "scan" /\ tx'[p].op = "issue" /\ tx'[p].purpose = pur
      /\ tx'[p].held = {} /\ tx'[p].todo = {} /\ ~tx'[p].lock
  BY <1>1 DEF Idle
<1>3. Knows(tx[p])' /\ ResetSees(tx[p])'
  BY <1>2 DEF Knows, ResetSees
<1>4. LocksExclusive' /\ \A q \in Proc : Knows(tx[q])' /\ ResetSees(tx[q])'
  BY <1>1, <1>2, <1>3, LocksStep DEF Issue, Recoverable, Outstanding, Open
<1>5. TypeOK'
  BY <1>1 DEF Issue, TypeOK
<1> QED BY <1>4, <1>5, NothingSpent DEF Issue

LEMMA ScanStep ==
  ASSUME IndInv, NEW p \in Proc, Scan(p)
  PROVE  IndInv'
<1> USE DEF IndInv
<1>1. tx[p] \in Tx /\ Knows(tx[p]) /\ tx[p].pc = "scan"
  BY DEF TypeOK, Scan
<1>2. /\ tx' \in [Proc -> Tx]
      /\ tx'[p] = [tx[p] EXCEPT !.pc = "update", !.todo = Outstanding(tx[p].purpose)]
      /\ \A q \in Proc \ {p} : tx'[q] = tx[q]
  BY <1>1 DEF Scan, TypeOK, Tx, Outstanding
<1>3. /\ tx'[p].pc = "update" /\ tx'[p].op = tx[p].op /\ tx'[p].purpose = tx[p].purpose
      /\ tx'[p].given = tx[p].given /\ tx'[p].held = tx[p].held /\ tx'[p].lock = tx[p].lock
      /\ tx'[p].todo = Outstanding(tx[p].purpose)
  BY <1>1, <1>2 DEF Tx
<1>4. Knows(tx[p])'
  <2>1. UNCHANGED <<user, token>>
    BY DEF Scan
  <2>2. \A t \in tx[p].held : Open(t)' /\ token'[t].purpose = tx[p].purpose
    BY <1>1, <2>1 DEF Knows, Open
  <2>3. \A t \in tx'[p].todo : token'[t].purpose = tx[p].purpose
    BY <1>3, <2>1 DEF Outstanding
  <2> QED BY <1>1, <1>3, <2>1, <2>2, <2>3 DEF Knows, Recoverable
<1>5. ResetSees(tx[p])'
  BY <1>1, <1>3 DEF ResetSees, Knows, Scan, Outstanding, Open
<1>6. (\A t \in tx'[p].held : FreeRow(p, t)) /\ (tx'[p].lock => FreeUser(p))
  BY <1>3 DEF LocksExclusive, FreeRow, FreeUser
<1>7. LocksExclusive' /\ \A q \in Proc : Knows(tx[q])' /\ ResetSees(tx[q])'
  BY <1>2, <1>4, <1>5, <1>6, LocksStep DEF Scan, Recoverable, Outstanding, Open
<1>8. TypeOK'
  BY <1>2 DEF Scan, TypeOK
<1> QED BY <1>7, <1>8, NothingSpent DEF Scan

LEMMA UpdateRowStep ==
  ASSUME IndInv, NEW p \in Proc, NEW t \in Token, UpdateRow(p, t)
  PROVE  IndInv'
<1> USE DEF IndInv
<1> DEFINE H == IF Open(t) THEN tx[p].held \cup {t} ELSE tx[p].held
<1>1. tx[p] \in Tx /\ Knows(tx[p]) /\ ResetSees(tx[p]) /\ tx[p].pc = "update"
  BY DEF TypeOK, UpdateRow
<1>2. /\ tx' \in [Proc -> Tx]
      /\ tx'[p] = [tx[p] EXCEPT !.todo = @ \ {t}, !.held = H]
      /\ \A q \in Proc \ {p} : tx'[q] = tx[q]
  BY <1>1 DEF UpdateRow, TypeOK, Tx
<1>3. /\ tx'[p].pc = tx[p].pc /\ tx'[p].op = tx[p].op /\ tx'[p].purpose = tx[p].purpose
      /\ tx'[p].given = tx[p].given /\ tx'[p].held = H /\ tx'[p].lock = tx[p].lock
      /\ tx'[p].todo = tx[p].todo \ {t}
  BY <1>1, <1>2 DEF Tx
<1>4. t \in tx[p].todo /\ FreeRow(p, t) /\ UNCHANGED <<user, token, uses>>
  BY DEF UpdateRow
<1>5. Knows(tx[p])'
  <2>1. \A s \in H : Open(s)' /\ token'[s].purpose = tx[p].purpose
    BY <1>1, <1>4 DEF Knows, Open
  <2> QED BY <1>1, <1>3, <1>4, <2>1 DEF Knows, Recoverable
<1>6. ResetSees(tx[p])'
  BY <1>1, <1>3, <1>4 DEF ResetSees, Outstanding, Open
<1>7. (\A s \in tx'[p].held : FreeRow(p, s)) /\ (tx'[p].lock => FreeUser(p))
  BY <1>3, <1>4 DEF LocksExclusive, FreeRow, FreeUser
<1>8. LocksExclusive' /\ \A q \in Proc : Knows(tx[q])' /\ ResetSees(tx[q])'
  BY <1>2, <1>4, <1>5, <1>6, <1>7, LocksStep DEF Recoverable, Outstanding, Open
<1>9. TypeOK'
  BY <1>2, <1>4 DEF TypeOK
<1> QED BY <1>4, <1>8, <1>9, NothingSpent

LEMMA InsertStep ==
  ASSUME IndInv, NEW p \in Proc, NEW t \in Token, Insert(p, t)
  PROVE  IndInv'
<1> USE DEF IndInv
<1> DEFINE S == tx[p].held
           pur == tx[p].purpose
<1>1. tx[p] \in Tx /\ Knows(tx[p]) /\ pur \in Purpose
  BY DEF TypeOK, Insert, Knows
<1>2. /\ tx' \in [Proc -> Tx] /\ tx'[p] = Idle
      /\ \A q \in Proc \ {p} : tx'[q] = tx[q]
  BY IdleTx DEF TypeOK, End, Insert
<1>3. S \subseteq Token /\ \A s \in S : Open(s) /\ FreeRow(p, s)
  BY <1>1 DEF Tx, Knows, FreeRow, LocksExclusive
<1>4. /\ token'[t] = [stage |-> "open", purpose |-> pur]
      /\ \A s \in Token \ {t} : token'[s] = Consumed(S)[s]
      /\ token' = [s \in Token |-> token'[s]]
  BY DEF Insert, Consumed
<1>5. token[t].stage = "none" /\ token[t].purpose \notin Purpose /\ t \notin S
  <2>1. token[t] \in Row /\ token[t].stage = "none"
    BY DEF TypeOK, Insert
  <2> QED BY <1>3, <2>1 DEF Row, Open, Purpose, Verification, Reset
<1>6. FreeRow(p, t)
  BY <1>5 DEF FreeRow, Knows, Open
<1>7. token' \in [Token -> Row]
  <2>1. token'[t] \in Row
    BY <1>1, <1>4 DEF Row
  <2>2. \A s \in Token \ {t} : token'[s] \in Row
    BY <1>3, <1>4, ConsumedRows
  <2> QED BY <1>4, <2>1, <2>2
<1>8. \A s \in Token : /\ token'[s] # token[s] => FreeRow(p, s)
                       /\ token[s].purpose \in Purpose => token'[s].purpose = token[s].purpose
  <2>1. \A s \in Token \ {t} : /\ token'[s].purpose = token[s].purpose
                               /\ s \notin S => token'[s] = token[s]
    BY <1>3, <1>4, ConsumedRows
  <2> QED BY <1>3, <1>5, <1>6, <2>1
<1>9. Knows(tx[p])' /\ ResetSees(tx[p])' /\ tx'[p].held = {} /\ ~tx'[p].lock
  BY <1>2 DEF Knows, ResetSees, Idle
<1>10. LocksExclusive' /\ \A q \in Proc : Knows(tx[q])' /\ ResetSees(tx[q])'
  BY <1>2, <1>8, <1>9, LocksStep DEF Insert, Recoverable
<1>11. TypeOK'
  BY <1>2, <1>7 DEF Insert, TypeOK
<1>12. Unspent'
  <2>1. \A s \in Token \ {t} : token'[s].stage = IF s \in S THEN "consumed" ELSE token[s].stage
    BY <1>3, <1>4, ConsumedRows
  <2>2. \A s \in Token : token'[s].stage # "consumed" => token[s].stage # "consumed"
    BY <1>5, <2>1
  <2> QED BY <2>2, NothingSpent DEF Insert
<1> QED BY <1>10, <1>11, <1>12

LEMMA ConfirmStep ==
  ASSUME IndInv, NEW p \in Proc, NEW t \in Token, Confirm(p, t)
  PROVE  IndInv'
<1> USE DEF IndInv
<1> DEFINE x == [Idle EXCEPT !.pc = "user", !.op = "confirm", !.purpose = token[t].purpose,
                             !.given = {t}, !.held = {t}]
<1>1. token[t].purpose \in Purpose /\ Open(t) /\ FreeRow(p, t) /\ UNCHANGED <<user, token, uses>>
  BY DEF Confirm, TypeOK, Row, Open
<1>2. /\ tx' \in [Proc -> Tx] /\ tx'[p] = x
      /\ \A q \in Proc \ {p} : tx'[q] = tx[q]
  BY <1>1, IdleTx DEF Confirm, Start, TypeOK, Tx
<1>3. /\ tx'[p].pc = "user" /\ tx'[p].op = "confirm" /\ tx'[p].purpose = token[t].purpose
      /\ tx'[p].held = {t} /\ tx'[p].given = {t} /\ tx'[p].todo = {} /\ ~tx'[p].lock
  BY <1>2 DEF Idle
<1>4. Knows(tx[p])' /\ ResetSees(tx[p])'
  BY <1>1, <1>3 DEF Knows, ResetSees, Open
<1>5. LocksExclusive' /\ \A q \in Proc : Knows(tx[q])' /\ ResetSees(tx[q])'
  BY <1>1, <1>2, <1>3, <1>4, LocksStep DEF Recoverable, Outstanding, Open
<1>6. TypeOK'
  BY <1>1, <1>2 DEF TypeOK
<1> QED BY <1>1, <1>5, <1>6, NothingSpent

LEMMA LockUserStep ==
  ASSUME IndInv, NEW p \in Proc, LockUser(p)
  PROVE  IndInv'
<1> USE DEF IndInv
<1>1. tx[p] \in Tx /\ Knows(tx[p]) /\ tx[p].pc = "user" /\ tx[p].purpose = Reset
  BY DEF TypeOK, LockUser
<1>2. Recoverable /\ FreeUser(p) /\ UNCHANGED <<user, token, uses>>
  BY DEF LockUser
<1>3. /\ tx' \in [Proc -> Tx]
      /\ tx'[p] = [tx[p] EXCEPT !.pc = "scan", !.lock = TRUE]
      /\ \A q \in Proc \ {p} : tx'[q] = tx[q]
  BY <1>1 DEF LockUser, TypeOK, Tx
<1>4. /\ tx'[p].pc = "scan" /\ tx'[p].op = tx[p].op /\ tx'[p].purpose = tx[p].purpose
      /\ tx'[p].given = tx[p].given /\ tx'[p].held = tx[p].held /\ tx'[p].lock = TRUE
      /\ tx'[p].todo = tx[p].todo
  BY <1>1, <1>3 DEF Tx
<1>5. Knows(tx[p])' /\ ResetSees(tx[p])'
  <2>1. \A t \in tx[p].held : Open(t)' /\ token'[t].purpose = tx[p].purpose
    BY <1>1, <1>2 DEF Knows, Open
  <2> QED BY <1>1, <1>2, <1>4, <2>1 DEF Knows, ResetSees, Recoverable
<1>6. \A t \in tx'[p].held : FreeRow(p, t)
  BY <1>4 DEF LocksExclusive, FreeRow
<1>7. LocksExclusive' /\ \A q \in Proc : Knows(tx[q])' /\ ResetSees(tx[q])'
  BY <1>2, <1>3, <1>5, <1>6, LocksStep DEF Recoverable
<1>8. TypeOK'
  BY <1>2, <1>3 DEF TypeOK
<1> QED BY <1>2, <1>7, <1>8, NothingSpent

LEMMA GivesUp ==
  ASSUME IndInv, NEW p \in Proc, End(p), UNCHANGED <<user, token, uses>>
  PROVE  IndInv'
<1> USE DEF IndInv
<1>1. token' = Consumed({}) /\ {} \in SUBSET tx[p].held /\ (Recoverable => Recoverable')
  BY ConsumedEmpty DEF Recoverable
<1>2. /\ tx' \in [Proc -> Tx]
      /\ LocksExclusive' /\ \A q \in Proc : Knows(tx[q])' /\ ResetSees(tx[q])'
  BY <1>1, Ended
<1> QED BY <1>2, NothingSpent DEF TypeOK

(* A confirmation that commits: the token given was open, and is consumed.  *)
LEMMA Committed ==
  ASSUME IndInv, NEW p \in Proc, tx[p].op = "confirm", End(p), Accept(p),
         NEW S \in SUBSET tx[p].held, tx[p].given \subseteq S, token' = Consumed(S),
         Recoverable => Recoverable', user' \in [active: BOOLEAN, verified: BOOLEAN]
  PROVE  /\ IndInv'
         /\ Outstanding(Reset)' = Outstanding(Reset) \ S
         /\ \E t \in S : /\ tx[p].given = {t} /\ uses[t] = 0
                         /\ \A s \in Token : uses'[s] = IF s = t THEN 1 ELSE uses[s]
<1> USE DEF IndInv
<1>1. /\ tx' \in [Proc -> Tx] /\ token' \in [Token -> Row]
      /\ LocksExclusive' /\ \A q \in Proc : Knows(tx[q])' /\ ResetSees(tx[q])'
      /\ Outstanding(Reset)' = Outstanding(Reset) \ S
  BY Ended
<1>2. Knows(tx[p]) /\ S \in SUBSET Token /\ \A s \in S : Open(s)
  BY DEF TypeOK, Tx, Knows
<1>3. PICK t \in tx[p].held : tx[p].given = {t}
  BY <1>2 DEF Knows
<1>4. t \in S /\ t \in Token /\ uses[t] = 0
  BY <1>2, <1>3 DEF Unspent, Open
<1>5. \A s \in Token : uses'[s] = IF s = t THEN 1 ELSE uses[s]
  BY <1>3, <1>4 DEF Accept, TypeOK
<1>6. uses' \in [Token -> Nat]
  <2>1. \A s \in Token : uses'[s] \in Nat
    BY <1>5 DEF TypeOK
  <2> QED BY <2>1 DEF Accept
<1>7. TypeOK'
  BY <1>1, <1>6 DEF TypeOK
<1>8. Unspent'
  <2>1. \A s \in Token : token'[s].stage = IF s \in S THEN "consumed" ELSE token[s].stage
    BY <1>2, ConsumedRows
  <2> QED BY <1>4, <1>5, <2>1 DEF Unspent
<1> QED BY <1>1, <1>4, <1>5, <1>3, <1>7, <1>8

LEMMA CommitVerificationStep ==
  ASSUME IndInv, NEW p \in Proc, CommitVerification(p)
  PROVE  /\ IndInv'
         /\ \E t \in tx[p].given : /\ token[t].purpose = Verification /\ Open(t)
                                   /\ tx[p].given = {t} /\ uses[t] = 0
                                   /\ \A s \in Token : uses'[s] = IF s = t THEN 1 ELSE uses[s]
<1>1. /\ Knows(tx[p]) /\ tx[p] \in Tx /\ tx[p].op = "confirm" /\ tx[p].purpose = Verification
      /\ user \in [active: BOOLEAN, verified: BOOLEAN]
  BY DEF IndInv, TypeOK, Knows, CommitVerification
<1>2. /\ tx[p].given \in SUBSET tx[p].held
      /\ \A t \in tx[p].given : token[t].purpose = Verification /\ Open(t)
  BY <1>1 DEF Knows
<1>3. user' \in [active: BOOLEAN, verified: BOOLEAN] /\ (Recoverable => Recoverable')
  BY <1>1 DEF CommitVerification, Recoverable
<1>4. End(p) /\ Accept(p) /\ token' = Consumed(tx[p].given)
  BY DEF CommitVerification
<1>5. /\ IndInv'
      /\ \E t \in tx[p].given : /\ tx[p].given = {t} /\ uses[t] = 0
                                /\ \A s \in Token : uses'[s] = IF s = t THEN 1 ELSE uses[s]
  BY <1>1, <1>2, <1>3, <1>4, Committed
<1> QED BY <1>2, <1>5

LEMMA CommitResetStep ==
  ASSUME IndInv, NEW p \in Proc, CommitReset(p)
  PROVE  /\ IndInv' /\ Recoverable /\ Outstanding(Reset)' = {}
         /\ \E t \in tx[p].held : /\ uses[t] = 0
                                  /\ \A s \in Token : uses'[s] = IF s = t THEN 1 ELSE uses[s]
<1>1. /\ Knows(tx[p]) /\ tx[p] \in Tx /\ tx[p].op = "confirm" /\ tx[p].pc = "update"
      /\ tx[p].todo = {} /\ user \in [active: BOOLEAN, verified: BOOLEAN]
  BY DEF IndInv, TypeOK, Knows, CommitReset
<1>2. tx[p].given \subseteq tx[p].held /\ Recoverable
  BY <1>1 DEF Knows
<1>3. Outstanding(Reset) \subseteq tx[p].held
  BY <1>1 DEF IndInv, ResetSees
<1>4. End(p) /\ Accept(p) /\ token' = Consumed(tx[p].held) /\ user' = user
  BY DEF CommitReset
<1>5. Recoverable => Recoverable'
  BY <1>4 DEF Recoverable
<1>6. /\ IndInv' /\ Outstanding(Reset)' = Outstanding(Reset) \ tx[p].held
      /\ \E t \in tx[p].held : /\ uses[t] = 0
                               /\ \A s \in Token : uses'[s] = IF s = t THEN 1 ELSE uses[s]
  BY <1>1, <1>2, <1>4, <1>5, Committed
<1> QED BY <1>2, <1>3, <1>6

LEMMA SetActiveStep ==
  ASSUME IndInv, NEW b \in BOOLEAN, SetActive(b)
  PROVE  IndInv'
<1>1. \A p \in Proc : ~tx[p].lock
  BY DEF SetActive
<1>2. UNCHANGED <<token, tx, uses>> /\ user' \in [active: BOOLEAN, verified: BOOLEAN]
  BY DEF SetActive, IndInv, TypeOK
<1>3. \A p \in Proc : Knows(tx[p])'
  BY <1>1, <1>2 DEF IndInv, Knows, Open
<1>4. \A p \in Proc : ResetSees(tx[p])'
  BY <1>2 DEF IndInv, ResetSees, Outstanding, Open
<1>5. TypeOK' /\ LocksExclusive' /\ Unspent'
  BY <1>2 DEF IndInv, TypeOK, LocksExclusive, Unspent
<1> QED BY <1>3, <1>4, <1>5 DEF IndInv

LEMMA Next_IndInv == IndInv /\ [Next]_vars => IndInv'
<1> SUFFICES ASSUME IndInv, [Next]_vars PROVE IndInv'
  OBVIOUS
<1>1. CASE UNCHANGED vars
  BY <1>1 DEF vars, IndInv, TypeOK, LocksExclusive, Unspent, Knows, ResetSees,
              Recoverable, Outstanding, Open
<1>2. ASSUME NEW p \in Proc, Scan(p) \/ CommitVerification(p) \/ LockUser(p) \/ CommitReset(p)
      PROVE  IndInv'
  BY <1>2, ScanStep, CommitVerificationStep, LockUserStep, CommitResetStep
<1>3. ASSUME NEW p \in Proc, NEW t \in Token, UpdateRow(p, t) \/ Insert(p, t) \/ Confirm(p, t)
      PROVE  IndInv'
  BY <1>3, UpdateRowStep, InsertStep, ConfirmStep
<1>4. ASSUME NEW p \in Proc, Reject(p) \/ Rollback(p) \/ DeadlockVictim(p) PROVE IndInv'
  BY <1>4, GivesUp DEF Reject, Rollback, DeadlockVictim
<1>5. ASSUME NEW p \in Proc, NEW pur \in Purpose, Issue(p, pur) PROVE IndInv'
  BY <1>5, IssueStep
<1>6. ASSUME NEW b \in BOOLEAN, SetActive(b) PROVE IndInv'
  BY <1>6, SetActiveStep
<1> QED BY <1>1, <1>2, <1>3, <1>4, <1>5, <1>6 DEF Next, Step

(* Locks exclude each other, what is held is open, a running reset sees     *)
(* every outstanding reset token: in every reachable state.                 *)
THEOREM Invariance == Spec => []IndInv
BY InitIndInv, Next_IndInv, PTL DEF Spec

(* A reset that commits leaves no reset token outstanding, whatever was     *)
(* issued while it ran.                                                     *)
THEOREM ResetComplete == Spec => ResetConsumesAll
<1>1. IndInv /\ [Next]_vars => [\A p \in Proc : CommitReset(p) => Outstanding(Reset)' = {}]_vars
  BY CommitResetStep
<1> QED BY <1>1, Invariance, PTL DEF Spec, ResetConsumesAll

-----------------------------------------------------------------------------
(* The steps that accept a token, and the others.                           *)
LEMMA AcceptingSteps ==
  ASSUME Next
  PROVE  \/ uses' = uses
         \/ \E p \in Proc : CommitVerification(p) \/ CommitReset(p)
BY DEF Next, Step, Issue, Scan, UpdateRow, Insert, Confirm, LockUser, Reject, Rollback,
       DeadlockVictim, SetActive

(* A password is reset only for an account active and verified at commit.   *)
THEOREM ResetEligible == Spec => ResetOnlyRecoverable
<1>1. ASSUME IndInv, Next, NEW t \in Token, uses'[t] # uses[t], token[t].purpose = Reset
      PROVE  Recoverable
  <2>1. PICK p \in Proc : CommitVerification(p) \/ CommitReset(p)
    BY <1>1, AcceptingSteps
  <2>2. CASE CommitVerification(p)
    BY <1>1, <2>2, CommitVerificationStep DEF Verification, Reset
  <2>3. CASE CommitReset(p)
    BY <1>1, <2>3, CommitResetStep
  <2> QED BY <2>1, <2>2, <2>3
<1>2. IndInv /\ [Next]_vars =>
        [\A t \in Token : uses'[t] # uses[t] /\ token[t].purpose = Reset => Recoverable]_vars
  BY <1>1
<1> QED BY <1>2, Invariance, PTL DEF Spec, ResetOnlyRecoverable

-----------------------------------------------------------------------------
(* A token that was there and is outstanding after a step was so before it. *)
LEMMA OpenUnchanged ==
  ASSUME IndInv, [Next]_vars, NEW t \in Token, token[t].stage # "none", Open(t)'
  PROVE  token'[t] = token[t]
<1>1. token \in [Token -> Row]
  BY DEF IndInv, TypeOK
<1>2. ASSUME NEW S, Consumed(S)[t].stage = "open" PROVE Consumed(S)[t] = token[t]
  BY <1>1, <1>2 DEF Consumed, Row
<1>3. ASSUME NEW p \in Proc, NEW s \in Token, Insert(p, s) PROVE token'[t] = token[t]
  <2>1. token'[t] = Consumed(tx[p].held)[t]
    BY <1>3 DEF Insert, Consumed
  <2> QED BY <1>2, <2>1 DEF Open
<1>4. ASSUME NEW p \in Proc, CommitVerification(p) \/ CommitReset(p) PROVE token'[t] = token[t]
  <2>1. PICK S : token' = Consumed(S)
    BY <1>4 DEF CommitVerification, CommitReset
  <2> QED BY <1>2, <2>1 DEF Open
<1>5. CASE token' = token
  BY <1>5
<1> QED BY <1>3, <1>4, <1>5 DEF vars, Next, Step, Issue, Scan, UpdateRow, Confirm, LockUser,
     Reject, Rollback, DeadlockVictim, SetActive

(* What can happen to a transaction whose UPDATE is then under way.         *)
LEMMA UpdatingSteps ==
  ASSUME IndInv, [Next]_vars, NEW p \in Proc, tx'[p].pc = "update"
  PROVE  tx'[p] = tx[p] \/ Scan(p) \/ \E s \in Token : UpdateRow(p, s)
<1>1. tx \in [Proc -> Tx]
  BY DEF IndInv, TypeOK
<1>2. CASE tx' = tx
  BY <1>2
<1>3. ASSUME NEW q \in Proc, NEW x, tx' = [tx EXCEPT ![q] = x], x.pc # "update"
      PROVE  tx'[p] = tx[p]
  BY <1>1, <1>3
<1>4. ASSUME NEW q \in Proc, End(q) PROVE tx'[p] = tx[p]
  BY <1>3, <1>4 DEF End, Idle
<1>5. ASSUME NEW q \in Proc, (\E pur \in Purpose : Issue(q, pur)) \/ (\E t \in Token : Confirm(q, t))
      PROVE  tx'[p] = tx[p]
  <2>1. ASSUME NEW x, Start(q, x), x.pc \in {"scan", "user"} PROVE tx'[p] = tx[p]
    BY <1>3, <2>1 DEF Start
  <2>2. ASSUME NEW pur, Issue(q, pur) PROVE tx'[p] = tx[p]
    BY <2>1, <2>2 DEF Issue, Idle
  <2>3. ASSUME NEW t, Confirm(q, t) PROVE tx'[p] = tx[p]
    BY <2>1, <2>3 DEF Confirm, Idle
  <2> QED BY <1>5, <2>2, <2>3
<1>6. ASSUME NEW q \in Proc, q # p, Scan(q) \/ (\E s \in Token : UpdateRow(q, s))
      PROVE  tx'[p] = tx[p]
  BY <1>1, <1>6 DEF Scan, UpdateRow
<1>7. ASSUME NEW q \in Proc, LockUser(q) PROVE tx'[p] = tx[p]
  BY <1>1, <1>7 DEF LockUser, Tx
<1>8. ASSUME NEW q \in Proc,
             \/ (\E t \in Token : Insert(q, t)) \/ CommitVerification(q) \/ Reject(q)
             \/ CommitReset(q) \/ Rollback(q) \/ DeadlockVictim(q)
      PROVE  tx'[p] = tx[p]
  BY <1>4, <1>8 DEF Insert, CommitVerification, Reject, CommitReset, Rollback, DeadlockVictim
<1> QED BY <1>2, <1>5, <1>6, <1>7, <1>8 DEF vars, Next, Step, SetActive

(* What escapes an UPDATE after a step escaped it before, or is new.        *)
LEMMA EscapesNew ==
  ASSUME IndInv, [Next]_vars, NEW p \in Proc, NEW t \in Token,
         t \in Escaping(p)', token[t].stage # "none"
  PROVE  t \in Escaping(p)
<1>1. /\ tx'[p].pc = "update" /\ Open(t)' /\ token'[t].purpose = tx'[p].purpose
      /\ t \notin tx'[p].todo /\ t \notin tx'[p].held
  BY DEF Escaping, Outstanding
<1>2. token'[t] = token[t] /\ Open(t)
  BY <1>1, OpenUnchanged DEF Open
<1>3. tx \in [Proc -> Tx] /\ tx[p] \in Tx
  BY DEF IndInv, TypeOK
<1>4. CASE tx'[p] = tx[p]
  BY <1>1, <1>2, <1>4 DEF Escaping, Outstanding
<1>5. CASE Scan(p)
  <2>1. tx'[p].purpose = tx[p].purpose /\ tx'[p].todo = Outstanding(tx[p].purpose)
    BY <1>3, <1>5 DEF Scan, Tx
  <2> QED BY <1>1, <1>2, <2>1 DEF Outstanding
<1>6. ASSUME NEW s \in Token, UpdateRow(p, s) PROVE t \in Escaping(p)
  <2>1. /\ tx'[p].purpose = tx[p].purpose /\ tx[p].pc = "update"
        /\ tx'[p].todo = tx[p].todo \ {s}
        /\ tx'[p].held = IF Open(s) THEN tx[p].held \cup {s} ELSE tx[p].held
    BY <1>3, <1>6 DEF UpdateRow, Tx
  <2>2. s # t
    BY <1>1, <1>2, <2>1
  <2> QED BY <1>1, <1>2, <2>1, <2>2 DEF Escaping, Outstanding
<1> QED BY <1>1, <1>4, <1>5, <1>6, UpdatingSteps

(* No token that was outstanding when an UPDATE began escapes it.           *)
THEOREM OldTokensWithdrawn == Spec => OnlyNewEscape
<1>1. IndInv /\ [Next]_vars =>
        [\A p \in Proc, t \in Token :
           t \in Escaping(p)' => t \in Escaping(p) \/ token[t].stage = "none"]_vars
  BY EscapesNew
<1> QED BY <1>1, Invariance, PTL DEF Spec, OnlyNewEscape

-----------------------------------------------------------------------------
(* Each step is a step of SingleUse or a stutter.                           *)
LEMMA OpenStage ==
  ASSUME IndInv, NEW t \in Token
  PROVE  /\ uses[t] \in Nat
         /\ token[t].stage # "consumed" => uses[t] = 0 /\ Stage[t] = token[t].stage
BY DEF IndInv, TypeOK, Unspent, Stage

LEMMA InsertIssues ==
  ASSUME IndInv, NEW p \in Proc, NEW t \in Token, Insert(p, t)
  PROVE  Tokens!Next
<1> DEFINE W == tx[p].held
<1>1. W \in SUBSET Token /\ \A s \in W : Open(s)
  BY DEF IndInv, TypeOK, Tx, Knows
<1>2. /\ uses' = uses /\ token[t].stage = "none"
      /\ token'[t] = [stage |-> "open", purpose |-> tx[p].purpose]
      /\ \A s \in Token \ {t} : token'[s] = Consumed(W)[s]
  BY DEF Insert, Consumed
<1> HIDE DEF W
<1>3. \A s \in Token \ {t} : token'[s].stage = IF s \in W THEN "consumed" ELSE token[s].stage
  BY <1>1, <1>2, ConsumedRows DEF IndInv
<1>4. Stage[t] = "none" /\ \A s \in W : Stage[s] = "open" /\ uses[s] = 0
  BY <1>1, <1>2, OpenStage DEF Open
<1>5. Stage' = [s \in Token |-> IF s \in {t} THEN "open"
                                ELSE IF s \in W THEN "withdrawn" ELSE Stage[s]]
  <2>1. \A s \in Token : uses[s] \in Nat
    BY OpenStage
  <2>2. uses[t] = 0
    BY <1>2, OpenStage
  <2>3. ASSUME NEW s \in Token
        PROVE  (IF uses'[s] > 0 THEN "used"
                ELSE IF token'[s].stage = "consumed" THEN "withdrawn" ELSE token'[s].stage)
               = IF s \in {t} THEN "open" ELSE IF s \in W THEN "withdrawn" ELSE Stage[s]
    <3>1. CASE s = t
      BY <1>2, <2>2, <3>1
    <3>2. CASE s # t /\ s \in W
      BY <1>2, <1>3, <1>4, <3>2
    <3>3. CASE s # t /\ s \notin W
      BY <1>2, <1>3, <2>1, <3>3 DEF Stage
    <3> QED BY <3>1, <3>2, <3>3
  <2> QED BY <2>3 DEF Stage
<1>6. Tokens!Issue({t}, W)
  BY <1>2, <1>4, <1>5 DEF Tokens!Issue, Tokens!Open
<1> QED BY <1>1, <1>6 DEF Tokens!Next

LEMMA CommitUses ==
  ASSUME IndInv, NEW W \in SUBSET Token, \A s \in W : Open(s), token' = Consumed(W),
         NEW t \in W, \A s \in Token : uses'[s] = IF s = t THEN 1 ELSE uses[s], IndInv'
  PROVE  Tokens!Next
<1>1. \A s \in Token : token'[s].stage = IF s \in W THEN "consumed" ELSE token[s].stage
  BY ConsumedRows DEF IndInv
<1>2. t \in Token /\ \A s \in W : Stage[s] = "open" /\ uses[s] = 0
  BY OpenStage DEF Open
<1>3. Stage' = [s \in Token |-> IF s = t THEN "used"
                                ELSE IF s \in W THEN "withdrawn" ELSE Stage[s]]
  <2>1. ASSUME NEW s \in Token
        PROVE  (IF uses'[s] > 0 THEN "used"
                ELSE IF token'[s].stage = "consumed" THEN "withdrawn" ELSE token'[s].stage)
               = IF s = t THEN "used" ELSE IF s \in W THEN "withdrawn" ELSE Stage[s]
    <3>1. CASE s = t
      BY <1>2, <3>1
    <3>2. CASE s # t /\ s \in W
      BY <1>1, <1>2, <3>2
    <3>3. CASE s # t /\ s \notin W
      BY <1>1, <3>3 DEF Stage
    <3> QED BY <3>1, <3>2, <3>3
  <2> QED BY <2>1 DEF Stage
<1>4. uses' = [uses EXCEPT ![t] = @ + 1]
  <2>1. uses' \in [Token -> Nat] /\ uses \in [Token -> Nat]
    BY DEF IndInv, TypeOK
  <2>2. \A s \in Token : uses'[s] = [uses EXCEPT ![t] = @ + 1][s]
    BY <1>2, <2>1
  <2> QED BY <2>1, <2>2
<1>5. Tokens!Use(t, W)
  BY <1>2, <1>3, <1>4 DEF Tokens!Use, Tokens!Open
<1> QED BY <1>2, <1>5 DEF Tokens!Next

LEMMA InitTokens == Init => Tokens!Init
BY DEF Init, Tokens!Init, Stage

LEMMA NextTokens == IndInv /\ [Next]_vars => [Tokens!Next]_Tokens!vars
<1> SUFFICES ASSUME IndInv, [Next]_vars PROVE Tokens!Next \/ UNCHANGED Tokens!vars
  OBVIOUS
<1>1. CASE UNCHANGED <<token, uses>>
  BY <1>1 DEF Tokens!vars, Stage
<1>2. CASE UNCHANGED vars
  BY <1>1, <1>2 DEF vars
<1>3. CASE Next
  <2>1. \/ UNCHANGED <<token, uses>>
        \/ \E p \in Proc : \/ \E t \in Token : Insert(p, t)
                           \/ CommitVerification(p) \/ CommitReset(p)
    BY <1>3 DEF Next, Step, Issue, Scan, UpdateRow, Confirm, LockUser, Reject, Rollback,
                DeadlockVictim, SetActive
  <2>2. ASSUME NEW p \in Proc, CommitVerification(p) PROVE Tokens!Next
    <3>1. /\ IndInv' /\ token' = Consumed(tx[p].given)
          /\ tx[p].given \in SUBSET Token /\ \A s \in tx[p].given : Open(s)
      <4>1. IndInv' /\ \A s \in tx[p].given : Open(s)
        BY <2>2, CommitVerificationStep
      <4>2. token' = Consumed(tx[p].given) /\ tx[p].given \in SUBSET Token
        BY <2>2 DEF CommitVerification, IndInv, TypeOK, Tx
      <4> QED BY <4>1, <4>2
    <3>2. PICK t \in tx[p].given : \A s \in Token : uses'[s] = IF s = t THEN 1 ELSE uses[s]
      BY <2>2, CommitVerificationStep
    <3> QED BY <3>1, <3>2, CommitUses
  <2>3. ASSUME NEW p \in Proc, CommitReset(p) PROVE Tokens!Next
    <3>1. /\ IndInv' /\ token' = Consumed(tx[p].held)
          /\ tx[p].held \in SUBSET Token /\ \A s \in tx[p].held : Open(s)
      <4>1. IndInv' /\ token' = Consumed(tx[p].held)
        BY <2>3, CommitResetStep DEF CommitReset
      <4>2. tx[p].held \in SUBSET Token /\ \A s \in tx[p].held : Open(s)
        BY DEF IndInv, TypeOK, Tx, Knows
      <4> QED BY <4>1, <4>2
    <3>2. PICK t \in tx[p].held : \A s \in Token : uses'[s] = IF s = t THEN 1 ELSE uses[s]
      BY <2>3, CommitResetStep
    <3> QED BY <3>1, <3>2, CommitUses
  <2> QED BY <1>1, <2>1, <2>2, <2>3, InsertIssues
<1> QED BY <1>2, <1>3

(* A token is accepted once, and never after it was withdrawn.              *)
THEOREM TokensImplemented == Spec => TokensOnce
BY InitTokens, NextTokens, Invariance, PTL DEF Spec, TokensOnce, Tokens!Spec
=============================================================================
