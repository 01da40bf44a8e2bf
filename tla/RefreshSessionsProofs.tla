----------------------- MODULE RefreshSessionsProofs -----------------------
(***************************************************************************)
(* The safety properties of RefreshSessions, for every set of users,       *)
(* tokens and concurrent requests.  A step either changes only what one    *)
(* transaction knows (LocalStep) or ends a transaction and changes the     *)
(* tables (CommitStep); each action is an instance of one of the two.      *)
(***************************************************************************)
EXTENDS RefreshSessions, FiniteSetTheorems, TLAPS

LEMMA ConflictSymmetric == ASSUME NEW m, NEW n PROVE Conflict(m, n) <=> Conflict(n, m)
BY DEF Conflict

LEMMA IdleKnows == Idle \in Tx /\ Knows(Idle) /\ ResetSees(Idle)
BY DEF Idle, Tx, Reason, Knows, ResetSees, Locked

LEMMA InitIndInv == Init => IndInv
<1> SUFFICES ASSUME Init PROVE IndInv
  OBVIOUS
<1>1. TypeOK
  BY IdleKnows DEF Init, TypeOK
<1>2. LocksExclusive
  BY DEF Init, LocksExclusive, Conflict, Idle, Locked
<1>3. FamilyRoots /\ OneLivePerFamily /\ NoOrphan
  BY DEF Init, FamilyRoots, OneLivePerFamily, NoOrphan, Present, Live
<1>4. \A p \in Proc : Knows(tx[p]) /\ ResetSees(tx[p])
  BY IdleKnows DEF Init
<1> QED BY <1>1, <1>2, <1>3, <1>4 DEF IndInv

-----------------------------------------------------------------------------
(* What a step has to show about the transaction it changes: its state,     *)
(* the locks it has gained, and what it now knows.                          *)
Sound(p) ==
  /\ tx' \in [Proc -> Tx]
  /\ \A q \in Proc \ {p} :
       /\ tx'[q] = tx[q]
       /\ Locked(tx'[p]) \cap Locked(tx[q]) = {}
       /\ tx'[p].user = tx[q].user => ~Conflict(tx'[p].lock, tx[q].lock)
  /\ (Knows(tx[p]) /\ ResetSees(tx[p]))'

LEMMA LocksKept ==
  ASSUME LocksExclusive, NEW p \in Proc, Sound(p) PROVE LocksExclusive'
<1> SUFFICES ASSUME NEW q \in Proc, NEW r \in Proc, q # r
             PROVE  /\ Locked(tx'[q]) \cap Locked(tx'[r]) = {}
                    /\ tx'[q].user = tx'[r].user => ~Conflict(tx'[q].lock, tx'[r].lock)
  BY DEF LocksExclusive, Conflict
<1>1. CASE q = p
  BY <1>1 DEF Sound
<1>2. CASE r = p
  BY <1>2, ConflictSymmetric DEF Sound
<1>3. CASE q # p /\ r # p
  BY <1>3 DEF Sound, LocksExclusive
<1> QED BY <1>1, <1>2, <1>3

(* A step that changes one transaction and no table.                        *)
LEMMA LocalStep ==
  ASSUME IndInv, UNCHANGED <<account, row>>, NEW p \in Proc, Sound(p)
  PROVE  IndInv'
<1>1. TypeOK'
  BY DEF IndInv, TypeOK, Sound
<1>2. LocksExclusive'
  BY LocksKept DEF IndInv
<1>3. (FamilyRoots /\ OneLivePerFamily /\ NoOrphan)'
  BY DEF IndInv, FamilyRoots, OneLivePerFamily, NoOrphan, Present, Live
<1>4. ASSUME NEW q \in Proc PROVE (Knows(tx[q]) /\ ResetSees(tx[q]))'
  <2>1. CASE q = p
    BY <2>1 DEF Sound
  <2>2. CASE q # p
    <3>1. tx'[q] = tx[q] /\ Knows(tx[q]) /\ ResetSees(tx[q])
      BY <2>2 DEF Sound, IndInv
    <3> QED BY <3>1 DEF Knows, ResetSees, LiveSessions, Live, Present, Owned
  <2> QED BY <2>1, <2>2
<1> QED BY <1>1, <1>2, <1>3, <1>4 DEF IndInv

(* A step that ends a transaction.  The tables may change, but not under    *)
(* what the other transactions know.                                        *)
LEMMA CommitStep ==
  ASSUME IndInv, NEW p \in Proc, End(p),
         TypeOK', FamilyRoots', OneLivePerFamily', NoOrphan',
         \A q \in Proc \ {p} : (Knows(tx[q]) /\ ResetSees(tx[q]))'
  PROVE  IndInv'
<1>1. tx \in [Proc -> Tx] /\ tx' = [tx EXCEPT ![p] = Idle]
  BY DEF IndInv, TypeOK, End
<1>2. (Knows(tx[p]) /\ ResetSees(tx[p]))'
  BY <1>1 DEF Idle, Knows, ResetSees, Locked
<1>3. Sound(p)
  BY <1>1, <1>2, IdleKnows DEF Sound, Idle, Conflict, Locked
<1>4. LocksExclusive'
  BY <1>3, LocksKept DEF IndInv
<1> QED BY <1>2, <1>4 DEF IndInv

-----------------------------------------------------------------------------
LEMMA Assemble ==
  ASSUME tx \in [Proc -> Tx], NEW p \in Proc,
         tx' = [tx EXCEPT ![p] = tx'[p]], tx'[p] \in Tx,
         \A q \in Proc \ {p} :
           /\ Locked(tx'[p]) \cap Locked(tx[q]) = {}
           /\ tx'[p].user = tx[q].user => ~Conflict(tx'[p].lock, tx[q].lock),
         (Knows(tx[p]) /\ ResetSees(tx[p]))'
  PROVE  Sound(p)
BY DEF Sound

(* A request that begins holds no lock but those its first statement took.  *)
LEMMA BeginSound ==
  ASSUME IndInv, NEW p \in Proc, Request(p)
  PROVE  Sound(p) /\ UNCHANGED <<account, row>>
<1>1. TypeOK /\ tx \in [Proc -> Tx] /\ Idle \in Tx /\ tx[p].pc = "idle"
  BY IdleKnows DEF IndInv, TypeOK, Request, Login, ResetPassword, Disable, Enable, Delete,
     RevokeSessions, Refresh, Replay, Logout, Start
<1>2. ASSUME NEW u \in User, Login(p, u)
      PROVE  Sound(p) /\ UNCHANGED <<account, row>>
  <2>1. /\ tx'[p] = [Idle EXCEPT !.pc = "lockUser", !.op = "login", !.user = u]
        /\ tx' = [tx EXCEPT ![p] = tx'[p]] /\ UNCHANGED <<account, row>>
    BY <1>1, <1>2 DEF Login, Start
  <2>2. tx'[p] \in Tx
    BY <2>1 DEF Idle, Tx, Reason
  <2>3. Locked(tx'[p]) = {} /\ \A q \in Proc \ {p} : tx'[p].user = tx[q].user => ~Conflict(tx'[p].lock, tx[q].lock)
    BY <2>1, <1>2 DEF Idle, Conflict, Locked
  <2>4. (Knows(tx[p]) /\ ResetSees(tx[p]))'
    BY <2>1 DEF Idle, Knows, ResetSees, Locked
  <2> QED BY <1>1, <2>1, <2>2, <2>3, <2>4, Assemble
<1>3. ASSUME NEW u \in User, ResetPassword(p, u)
      PROVE  Sound(p) /\ UNCHANGED <<account, row>>
  <2>1. /\ tx'[p] = [Idle EXCEPT !.pc = "scan", !.op = "revoke", !.user = u,
                        !.lock = "update", !.reason = "password_reset"]
        /\ tx' = [tx EXCEPT ![p] = tx'[p]] /\ UNCHANGED <<account, row>>
    BY <1>1, <1>3 DEF ResetPassword, Start
  <2>2. tx'[p] \in Tx
    BY <2>1 DEF Idle, Tx, Reason
  <2>3. Locked(tx'[p]) = {} /\ \A q \in Proc \ {p} : tx'[p].user = tx[q].user => ~Conflict(tx'[p].lock, tx[q].lock)
    BY <2>1, <1>3 DEF Idle, Conflict, Locked, ResetPassword, FreeUser
  <2>4. (Knows(tx[p]) /\ ResetSees(tx[p]))'
    BY <2>1 DEF Idle, Knows, ResetSees, Locked
  <2> QED BY <1>1, <2>1, <2>2, <2>3, <2>4, Assemble
<1>4. ASSUME NEW u \in User, Disable(p, u)
      PROVE  Sound(p) /\ UNCHANGED <<account, row>>
  <2>1. /\ tx'[p] = [Idle EXCEPT !.pc = "scan", !.user = u, !.reason = "account_disabled",
                        !.op = IF account[u] = "active" THEN "disable" ELSE "revoke"]
        /\ tx' = [tx EXCEPT ![p] = tx'[p]] /\ UNCHANGED <<account, row>>
    BY <1>1, <1>4 DEF Disable, Start
  <2>2. tx'[p] \in Tx
    BY <2>1 DEF Idle, Tx, Reason
  <2>3. Locked(tx'[p]) = {} /\ \A q \in Proc \ {p} : tx'[p].user = tx[q].user => ~Conflict(tx'[p].lock, tx[q].lock)
    BY <2>1, <1>4 DEF Idle, Conflict, Locked
  <2>4. (Knows(tx[p]) /\ ResetSees(tx[p]))'
    BY <2>1 DEF Idle, Knows, ResetSees, Locked
  <2> QED BY <1>1, <2>1, <2>2, <2>3, <2>4, Assemble
<1>5. ASSUME NEW u \in User, Enable(p, u)
      PROVE  Sound(p) /\ UNCHANGED <<account, row>>
  <2>1. /\ tx'[p] = [Idle EXCEPT !.pc = "flush", !.op = "enable", !.user = u]
        /\ tx' = [tx EXCEPT ![p] = tx'[p]] /\ UNCHANGED <<account, row>>
    BY <1>1, <1>5 DEF Enable, Start
  <2>2. tx'[p] \in Tx
    BY <2>1 DEF Idle, Tx, Reason
  <2>3. Locked(tx'[p]) = {} /\ \A q \in Proc \ {p} : tx'[p].user = tx[q].user => ~Conflict(tx'[p].lock, tx[q].lock)
    BY <2>1, <1>5 DEF Idle, Conflict, Locked
  <2>4. (Knows(tx[p]) /\ ResetSees(tx[p]))'
    BY <2>1 DEF Idle, Knows, ResetSees, Locked
  <2> QED BY <1>1, <2>1, <2>2, <2>3, <2>4, Assemble
<1>6. ASSUME NEW u \in User, Delete(p, u)
      PROVE  Sound(p) /\ UNCHANGED <<account, row>>
  <2> PICK found \in IF Owned(u) = {} THEN {{}} ELSE {{t} : t \in Owned(u)} :
           Start(p, [Idle EXCEPT !.pc = "commit", !.op = "delete", !.user = u,
                                 !.lock = "update", !.todo = found])
    BY <1>6 DEF Delete
  <2>5. /\ found \in SUBSET Token /\ (found = {} => Owned(u) = {})
        /\ \A t \in found : Present(t)
    BY DEF Owned
  <2>1. /\ tx'[p] = [Idle EXCEPT !.pc = "commit", !.op = "delete", !.user = u,
                        !.lock = "update", !.todo = found]
        /\ tx' = [tx EXCEPT ![p] = tx'[p]] /\ UNCHANGED <<account, row>>
    BY <1>1, <1>6 DEF Delete, Start
  <2>2. tx'[p] \in Tx
    BY <2>1, <2>5 DEF Idle, Tx, Reason
  <2>3. Locked(tx'[p]) = {} /\ \A q \in Proc \ {p} : tx'[p].user = tx[q].user => ~Conflict(tx'[p].lock, tx[q].lock)
    BY <2>1, <1>6 DEF Idle, Conflict, Locked, Delete, FreeUser
  <2>4. (Knows(tx[p]) /\ ResetSees(tx[p]))'
    <3>1. Owned(u)' = Owned(u)
      BY <2>1 DEF Owned, Present
    <3>2. \A t \in found : Present(t)'
      BY <2>1, <2>5 DEF Present
    <3> QED BY <2>1, <2>5, <3>1, <3>2 DEF Idle, Knows, ResetSees, Locked
  <2> QED BY <1>1, <2>1, <2>2, <2>3, <2>4, Assemble
<1>7. ASSUME NEW u \in User, NEW f \in Token \cup {NoFilter}, RevokeSessions(p, u, f)
      PROVE  Sound(p) /\ UNCHANGED <<account, row>>
  <2>1. /\ tx'[p] = [Idle EXCEPT !.pc = "scan", !.op = "revoke", !.user = u,
                        !.family = f, !.reason = "user_revoked"]
        /\ tx' = [tx EXCEPT ![p] = tx'[p]] /\ UNCHANGED <<account, row>>
    BY <1>1, <1>7 DEF RevokeSessions, Start
  <2>2. tx'[p] \in Tx
    BY <2>1 DEF Idle, Tx, Reason
  <2>3. Locked(tx'[p]) = {} /\ \A q \in Proc \ {p} : tx'[p].user = tx[q].user => ~Conflict(tx'[p].lock, tx[q].lock)
    BY <2>1, <1>7 DEF Idle, Conflict, Locked
  <2>4. (Knows(tx[p]) /\ ResetSees(tx[p]))'
    BY <2>1 DEF Idle, Knows, ResetSees, Locked
  <2> QED BY <1>1, <2>1, <2>2, <2>3, <2>4, Assemble
<1>8. ASSUME NEW t \in Token, Present(t)
      PROVE  row[t].user \in User /\ row[t].family \in Token
  BY <1>1, <1>8 DEF TypeOK, Present, Row
<1>9. ASSUME NEW t \in Token, Refresh(p, t)
      PROVE  Sound(p) /\ UNCHANGED <<account, row>>
  <2>1. /\ tx'[p] = [Idle EXCEPT !.pc = "readUser", !.op = "refresh", !.held = {t},
                        !.user = row[t].user, !.family = row[t].family]
        /\ tx' = [tx EXCEPT ![p] = tx'[p]] /\ UNCHANGED <<account, row>>
    BY <1>1, <1>9 DEF Refresh, Start
  <2>2. Live(t) /\ row[t].user \in User /\ row[t].family \in Token
    BY <1>8, <1>9 DEF Refresh, Live
  <2>3. tx'[p] \in Tx
    <3> DEFINE h == {t}
    <3>1. h \in SUBSET Token
      OBVIOUS
    <3>2. tx'[p] = [Idle EXCEPT !.pc = "readUser", !.op = "refresh", !.held = h,
                        !.user = row[t].user, !.family = row[t].family]
      BY <2>1
    <3> HIDE DEF h
    <3> QED BY <3>1, <3>2, <2>2 DEF Idle, Tx
  <2>4. \A q \in Proc \ {p} : /\ Locked(tx'[p]) \cap Locked(tx[q]) = {}
                             /\ ~Conflict(tx'[p].lock, tx[q].lock)
    BY <2>1, <1>9 DEF Idle, Conflict, Refresh, FreeRow, Locked
  <2>5. (Knows(tx[p]) /\ ResetSees(tx[p]))'
    BY <2>1, <2>2 DEF Idle, Knows, ResetSees, Live, Present, Locked
  <2> QED BY <1>1, <2>1, <2>3, <2>4, <2>5, Assemble
<1>10. ASSUME NEW t \in Token, NEW r \in {"reuse_detected", "logout"},
              Present(t), FreeRow(p, t), UNCHANGED <<account, row>>,
              Start(p, [Idle EXCEPT !.pc = "scan", !.op = "revoke", !.held = {t},
                                    !.family = row[t].family, !.reason = r])
       PROVE  Sound(p)
  <2>1. /\ tx'[p] = [Idle EXCEPT !.pc = "scan", !.op = "revoke", !.held = {t},
                                 !.family = row[t].family, !.reason = r]
        /\ tx' = [tx EXCEPT ![p] = tx'[p]]
    BY <1>1, <1>10 DEF Start
  <2>2. tx'[p] \in Tx
    <3> DEFINE h == {t}
    <3>1. h \in SUBSET Token /\ row[t].family \in Token
      BY <1>8, <1>10
    <3>2. tx'[p] = [Idle EXCEPT !.pc = "scan", !.op = "revoke", !.held = h,
                                 !.family = row[t].family, !.reason = r]
      BY <2>1
    <3> HIDE DEF h
    <3> QED BY <3>1, <3>2, <1>10 DEF Idle, Tx, Reason
  <2>3. \A q \in Proc \ {p} : /\ Locked(tx'[p]) \cap Locked(tx[q]) = {}
                             /\ ~Conflict(tx'[p].lock, tx[q].lock)
    BY <2>1, <1>10 DEF Idle, Conflict, FreeRow, Locked
  <2>4. (Knows(tx[p]) /\ ResetSees(tx[p]))'
    BY <2>1, <1>10 DEF Idle, Knows, ResetSees, Present, Locked
  <2> QED BY <1>1, <2>1, <2>2, <2>3, <2>4, Assemble
<1>11. ASSUME NEW t \in Token, Replay(p, t) \/ Logout(p, t)
       PROVE  Sound(p) /\ UNCHANGED <<account, row>>
  BY <1>10, <1>11 DEF Replay, Logout
<1> QED BY <1>2, <1>3, <1>4, <1>5, <1>6, <1>7, <1>8, <1>9, <1>11 DEF Request

(* The statements of an open transaction that read or take locks.           *)
LEMMA StatementSound ==
  ASSUME IndInv, NEW p \in Proc,
         \/ LockUser(p) \/ ReadUser(p) \/ FlushChild(p) \/ Scan(p) \/ FlushUser(p)
         \/ \E t \in Token : UpdateRow(p, t)
  PROVE  Sound(p) /\ UNCHANGED <<account, row>>
<1>1. TypeOK /\ tx \in [Proc -> Tx] /\ tx[p] \in Tx /\ Knows(tx[p]) /\ ResetSees(tx[p])
  BY DEF IndInv, TypeOK
<1>2. \A q \in Proc \ {p} :
        /\ Locked(tx[p]) \cap Locked(tx[q]) = {}
        /\ tx[p].user = tx[q].user => ~Conflict(tx[p].lock, tx[q].lock)
  BY DEF IndInv, LocksExclusive
<1>3. CASE LockUser(p)
  <2>1. /\ tx'[p] = [tx[p] EXCEPT !.pc = "commit", !.lock = "update"]
        /\ tx' = [tx EXCEPT ![p] = tx'[p]] /\ UNCHANGED <<account, row>>
    BY <1>1, <1>3 DEF LockUser
  <2>2. /\ tx'[p].pc = "commit" /\ tx'[p].op = tx[p].op /\ tx'[p].user = tx[p].user
        /\ tx'[p].family = tx[p].family /\ tx'[p].reason = tx[p].reason /\ tx'[p].held = tx[p].held
        /\ tx'[p].lock = "update" /\ tx'[p].todo = tx[p].todo /\ tx'[p].hits = tx[p].hits
    BY <1>1, <2>1 DEF Tx
  <2>3. tx'[p] \in Tx
    BY <1>1, <2>1 DEF Tx
  <2>4. ASSUME NEW q \in Proc \ {p}
        PROVE  /\ Locked(tx'[p]) \cap Locked(tx[q]) = {}
               /\ tx'[p].user = tx[q].user => ~Conflict(tx'[p].lock, tx[q].lock)
    <3>1. Locked(tx[p]) \cap Locked(tx[q]) = {}
      BY <1>2
    <3>2. tx[p].user = tx[q].user => ~Conflict("update", tx[q].lock)
      BY <1>3 DEF LockUser, FreeUser
    <3> QED BY <2>2, <3>1, <3>2 DEF Locked
  <2>5. Knows(tx[p])'
    BY <1>1, <2>1, <2>2, <1>3 DEF LockUser, Knows, Live, Present, Locked, Owned
  <2>6. ResetSees(tx[p])'
    BY <1>1, <2>1, <2>2, <1>3 DEF LockUser, Knows, ResetSees, LiveSessions, Live, Present
  <2> QED BY <1>1, <2>1, <2>3, <2>4, <2>5, <2>6, Assemble
<1>5. CASE FlushChild(p)
  <2>1. /\ tx'[p] = [tx[p] EXCEPT !.pc = "commit", !.lock = "share"]
        /\ tx' = [tx EXCEPT ![p] = tx'[p]] /\ UNCHANGED <<account, row>>
    BY <1>1, <1>5 DEF FlushChild
  <2>2. /\ tx'[p].pc = "commit" /\ tx'[p].op = tx[p].op /\ tx'[p].user = tx[p].user
        /\ tx'[p].family = tx[p].family /\ tx'[p].reason = tx[p].reason /\ tx'[p].held = tx[p].held
        /\ tx'[p].lock = "share" /\ tx'[p].todo = tx[p].todo /\ tx'[p].hits = tx[p].hits
    BY <1>1, <2>1 DEF Tx
  <2>3. tx'[p] \in Tx
    BY <1>1, <2>1 DEF Tx
  <2>4. ASSUME NEW q \in Proc \ {p}
        PROVE  /\ Locked(tx'[p]) \cap Locked(tx[q]) = {}
               /\ tx'[p].user = tx[q].user => ~Conflict(tx'[p].lock, tx[q].lock)
    <3>1. Locked(tx[p]) \cap Locked(tx[q]) = {}
      BY <1>2
    <3>2. tx[p].user = tx[q].user => ~Conflict("share", tx[q].lock)
      BY <1>5 DEF FlushChild, FreeUser
    <3> QED BY <2>2, <3>1, <3>2 DEF Locked
  <2>5. Knows(tx[p])'
    BY <1>1, <2>1, <2>2, <1>5 DEF FlushChild, Knows, Live, Present, Locked, Owned
  <2>6. ResetSees(tx[p])'
    BY <1>1, <2>1, <2>2, <1>5 DEF FlushChild, Knows, ResetSees, LiveSessions, Live, Present
  <2> QED BY <1>1, <2>1, <2>3, <2>4, <2>5, <2>6, Assemble
<1>6. CASE Scan(p)
  <2>1. /\ tx'[p] = [tx[p] EXCEPT !.pc = "update", !.todo = Scope(p)]
        /\ tx' = [tx EXCEPT ![p] = tx'[p]] /\ UNCHANGED <<account, row>>
    BY <1>1, <1>6 DEF Scan
  <2>2. /\ tx'[p].pc = "update" /\ tx'[p].op = tx[p].op /\ tx'[p].user = tx[p].user
        /\ tx'[p].family = tx[p].family /\ tx'[p].reason = tx[p].reason /\ tx'[p].held = tx[p].held
        /\ tx'[p].lock = tx[p].lock /\ tx'[p].todo = Scope(p) /\ tx'[p].hits = tx[p].hits
    BY <1>1, <2>1 DEF Tx
  <2>3. tx'[p] \in Tx
    <3>1. Scope(p) \in SUBSET Token
      BY DEF Scope
    <3> QED BY <1>1, <2>1, <3>1 DEF Tx
  <2>4. ASSUME NEW q \in Proc \ {p}
        PROVE  /\ Locked(tx'[p]) \cap Locked(tx[q]) = {}
               /\ tx'[p].user = tx[q].user => ~Conflict(tx'[p].lock, tx[q].lock)
    <3>1. Locked(tx[p]) \cap Locked(tx[q]) = {}
      BY <1>2
    <3>2. tx[p].user = tx[q].user => ~Conflict(tx[p].lock, tx[q].lock)
      BY <1>2
    <3> QED BY <2>2, <3>1, <3>2 DEF Locked
  <2>5. Knows(tx[p])'
    BY <1>1, <2>1, <2>2, <1>6 DEF Scan, Knows, Live, Present, Locked, Owned, Scope
  <2>6. ResetSees(tx[p])'
    BY <1>1, <2>1, <2>2, <1>6 DEF Scan, Knows, ResetSees, LiveSessions, Live, Present, Scope
  <2> QED BY <1>1, <2>1, <2>3, <2>4, <2>5, <2>6, Assemble
<1>7. CASE FlushUser(p)
  <2>1. /\ tx'[p] = [tx[p] EXCEPT !.pc = "commit", !.lock = "nokey"]
        /\ tx' = [tx EXCEPT ![p] = tx'[p]] /\ UNCHANGED <<account, row>>
    BY <1>1, <1>7 DEF FlushUser
  <2>2. /\ tx'[p].pc = "commit" /\ tx'[p].op = tx[p].op /\ tx'[p].user = tx[p].user
        /\ tx'[p].family = tx[p].family /\ tx'[p].reason = tx[p].reason /\ tx'[p].held = tx[p].held
        /\ tx'[p].lock = "nokey" /\ tx'[p].todo = tx[p].todo /\ tx'[p].hits = tx[p].hits
    BY <1>1, <2>1 DEF Tx
  <2>3. tx'[p] \in Tx
    BY <1>1, <2>1 DEF Tx
  <2>4. ASSUME NEW q \in Proc \ {p}
        PROVE  /\ Locked(tx'[p]) \cap Locked(tx[q]) = {}
               /\ tx'[p].user = tx[q].user => ~Conflict(tx'[p].lock, tx[q].lock)
    <3>1. Locked(tx[p]) \cap Locked(tx[q]) = {}
      BY <1>2
    <3>2. tx[p].user = tx[q].user => ~Conflict("nokey", tx[q].lock)
      BY <1>7 DEF FlushUser, FreeUser, Wants
    <3> QED BY <2>2, <3>1, <3>2 DEF Locked
  <2>5. Knows(tx[p])'
    BY <1>1, <2>1, <2>2, <1>7 DEF FlushUser, Knows, Live, Present, Locked, Owned, Wants
  <2>6. ResetSees(tx[p])'
    BY <1>1, <2>1, <2>2, <1>7 DEF FlushUser, Knows, ResetSees, LiveSessions, Live, Present, Wants
  <2> QED BY <1>1, <2>1, <2>3, <2>4, <2>5, <2>6, Assemble
<1>4. CASE ReadUser(p)
  <2>1. CASE account[tx[p].user] = "active"
    <3>1. /\ tx'[p] = [tx[p] EXCEPT !.pc = "flush"]
          /\ tx' = [tx EXCEPT ![p] = tx'[p]] /\ UNCHANGED <<account, row>>
      BY <1>1, <1>4, <2>1 DEF ReadUser
    <3>2. /\ tx'[p].pc = "flush" /\ tx'[p].op = tx[p].op /\ tx'[p].user = tx[p].user
          /\ tx'[p].family = tx[p].family /\ tx'[p].reason = tx[p].reason /\ tx'[p].held = tx[p].held
          /\ tx'[p].lock = tx[p].lock /\ tx'[p].todo = tx[p].todo /\ tx'[p].hits = tx[p].hits
      BY <1>1, <3>1 DEF Tx, Reason
    <3>3. tx'[p] \in Tx
      BY <1>1, <3>1 DEF Tx, Reason
    <3>4. ASSUME NEW q \in Proc \ {p}
          PROVE  /\ Locked(tx'[p]) \cap Locked(tx[q]) = {}
                 /\ tx'[p].user = tx[q].user => ~Conflict(tx'[p].lock, tx[q].lock)
      <4>1. Locked(tx[p]) \cap Locked(tx[q]) = {}
        BY <1>2
      <4>2. tx[p].user = tx[q].user => ~Conflict(tx[p].lock, tx[q].lock)
        BY <1>2
      <4> QED BY <3>2, <4>1, <4>2 DEF Locked
    <3>5. Knows(tx[p])'
      BY <1>1, <3>1, <3>2, <1>4, <2>1 DEF ReadUser, Knows, Live, Present, Locked, Owned
    <3>6. ResetSees(tx[p])'
      BY <1>1, <3>1, <3>2, <1>4, <2>1 DEF ReadUser, Knows, ResetSees, LiveSessions, Live, Present
    <3> QED BY <1>1, <3>1, <3>3, <3>4, <3>5, <3>6, Assemble
  <2>2. CASE account[tx[p].user] # "active"
    <3>1. /\ tx'[p] = [tx[p] EXCEPT !.pc = "scan", !.op = "revoke", !.family = NoFilter, !.reason = "account_disabled"]
          /\ tx' = [tx EXCEPT ![p] = tx'[p]] /\ UNCHANGED <<account, row>>
      BY <1>1, <1>4, <2>2 DEF ReadUser
    <3>2. /\ tx'[p].pc = "scan" /\ tx'[p].op = "revoke" /\ tx'[p].user = tx[p].user
          /\ tx'[p].family = NoFilter /\ tx'[p].reason = "account_disabled" /\ tx'[p].held = tx[p].held
          /\ tx'[p].lock = tx[p].lock /\ tx'[p].todo = tx[p].todo /\ tx'[p].hits = tx[p].hits
      BY <1>1, <3>1 DEF Tx, Reason
    <3>3. tx'[p] \in Tx
      BY <1>1, <3>1, Sentinels DEF Tx, Reason
    <3>4. ASSUME NEW q \in Proc \ {p}
          PROVE  /\ Locked(tx'[p]) \cap Locked(tx[q]) = {}
                 /\ tx'[p].user = tx[q].user => ~Conflict(tx'[p].lock, tx[q].lock)
      <4>1. Locked(tx[p]) \cap Locked(tx[q]) = {}
        BY <1>2
      <4>2. tx[p].user = tx[q].user => ~Conflict(tx[p].lock, tx[q].lock)
        BY <1>2
      <4> QED BY <3>2, <4>1, <4>2 DEF Locked
    <3>5. Knows(tx[p])'
      BY <1>1, <3>1, <3>2, <1>4, <2>2 DEF ReadUser, Knows, Live, Present, Locked, Owned
    <3>6. ResetSees(tx[p])'
      BY <1>1, <3>1, <3>2, <1>4, <2>2 DEF ReadUser, Knows, ResetSees, LiveSessions, Live, Present
    <3> QED BY <1>1, <3>1, <3>3, <3>4, <3>5, <3>6, Assemble
  <2> QED BY <2>1, <2>2
<1>8. ASSUME NEW t \in Token, UpdateRow(p, t)
      PROVE  Sound(p) /\ UNCHANGED <<account, row>>
  <2> DEFINE todo == tx[p].todo \ {t}
             hits == tx[p].hits \cup {t}
  <2>1. tx'[p] = [tx[p] EXCEPT !.todo = todo, !.hits = hits]
    BY <1>1, <1>8 DEF UpdateRow, Tx
  <2>2. tx' = [tx EXCEPT ![p] = tx'[p]] /\ UNCHANGED <<account, row>> /\ tx[p].pc = "update"
    BY <1>1, <1>8 DEF UpdateRow
  <2>3. tx[p].hits \in SUBSET Token /\ tx[p].todo \in SUBSET Token /\ t \in tx[p].todo
    BY <1>1, <1>8 DEF Tx, UpdateRow
  <2>4. hits \in SUBSET Token /\ todo \in SUBSET Token
    BY <2>3
  <2>5. tx[p].todo \cup tx[p].hits = todo \cup hits
    BY <2>3
  <2>6. \A s \in tx[p].held \cup hits \cup todo : Present(s)
    BY <1>1, <2>2, <2>3 DEF Knows, Locked
  <2>7. \A q \in Proc \ {p} : (tx[p].held \cup hits) \cap Locked(tx[q]) = {}
    BY <1>2, <1>8 DEF UpdateRow, FreeRow, Locked
  <2> HIDE DEF todo, hits
  <2>8. tx'[p] \in Tx
    BY <1>1, <2>1, <2>4 DEF Tx
  <2>9. /\ tx'[p].pc = tx[p].pc /\ tx'[p].op = tx[p].op /\ tx'[p].user = tx[p].user
        /\ tx'[p].family = tx[p].family /\ tx'[p].reason = tx[p].reason /\ tx'[p].held = tx[p].held
        /\ tx'[p].lock = tx[p].lock /\ tx'[p].todo = todo /\ tx'[p].hits = hits
    BY <1>1, <2>1 DEF Tx
  <2>10. ASSUME NEW q \in Proc \ {p}
         PROVE  /\ Locked(tx'[p]) \cap Locked(tx[q]) = {}
                /\ tx'[p].user = tx[q].user => ~Conflict(tx'[p].lock, tx[q].lock)
    <3>1. Locked(tx'[p]) = tx[p].held \cup hits
      BY <2>9 DEF Locked
    <3> QED BY <1>2, <2>7, <2>9, <3>1
  <2>11. Knows(tx[p])'
    BY <1>1, <2>2, <2>6, <2>9 DEF Knows, Live, Present, Locked
  <2>12. ResetSees(tx[p])'
    <3> SUFFICES ASSUME tx[p].reason = "password_reset"
                 PROVE  LiveSessions(tx[p].user)' \subseteq todo \cup hits
      BY <1>1, <2>2, <2>9 DEF ResetSees
    <3>1. LiveSessions(tx[p].user) \subseteq tx[p].todo \cup tx[p].hits
      BY <1>1, <2>2 DEF ResetSees
    <3>2. LiveSessions(tx[p].user)' = LiveSessions(tx[p].user)
      BY <2>2, <2>9 DEF LiveSessions, Live, Present
    <3> QED BY <2>5, <3>1, <3>2
  <2> QED BY <1>1, <2>2, <2>8, <2>10, <2>11, <2>12, Assemble
<1> QED BY <1>3, <1>4, <1>5, <1>6, <1>7, <1>8

-----------------------------------------------------------------------------
(* Ending a transaction leaves the others as they are: what they know still *)
(* holds if their rows and their accounts are the same, and nothing was     *)
(* inserted under a user row locked FOR UPDATE.                             *)
LEMMA OthersKeep ==
  ASSUME IndInv, NEW p \in Proc, End(p), NEW q \in Proc \ {p},
         \A t \in Locked(tx[q]) : row'[t] = row[t],
         \A t \in tx[q].todo : Present(t) => Present(t)',
         tx[q].op = "login" /\ tx[q].pc = "commit" => account'[tx[q].user] = "active",
         tx[q].lock = "update" => /\ LiveSessions(tx[q].user)' \subseteq LiveSessions(tx[q].user)
                                  /\ Owned(tx[q].user)' \subseteq Owned(tx[q].user)
  PROVE  (Knows(tx[q]) /\ ResetSees(tx[q]))'
<1>1. tx'[q] = tx[q] /\ Knows(tx[q]) /\ ResetSees(tx[q])
  BY DEF End, IndInv, TypeOK
<1>2. Knows(tx[q])'
  BY <1>1 DEF Knows, Live, Present, Locked, Owned
<1>3. ResetSees(tx[q])'
  <2> SUFFICES ASSUME tx[q].reason = "password_reset", tx[q].pc = "update"
               PROVE  LiveSessions(tx[q].user)' \subseteq tx[q].todo \cup tx[q].hits
    BY <1>1 DEF ResetSees
  <2>1. tx[q].lock = "update" /\ LiveSessions(tx[q].user) \subseteq tx[q].todo \cup tx[q].hits
    BY <1>1 DEF ResetSees
  <2>2. LiveSessions(tx[q].user)' \subseteq LiveSessions(tx[q].user)
    BY <2>1
  <2> QED BY <2>1, <2>2
<1> QED BY <1>2, <1>3

LEMMA EndType == ASSUME IndInv, NEW p \in Proc, End(p) PROVE tx' \in [Proc -> Tx]
BY IdleKnows DEF IndInv, TypeOK, End

LEMMA RollbackInv ==
  ASSUME IndInv, NEW p \in Proc, End(p), UNCHANGED <<account, row>>
  PROVE  IndInv'
<1>1. (TypeOK /\ FamilyRoots /\ OneLivePerFamily /\ NoOrphan)'
  BY EndType DEF IndInv, TypeOK, FamilyRoots, OneLivePerFamily, NoOrphan, Present, Live
<1>2. ASSUME NEW q \in Proc \ {p} PROVE (Knows(tx[q]) /\ ResetSees(tx[q]))'
  <2>1. /\ LiveSessions(tx[q].user)' \subseteq LiveSessions(tx[q].user)
        /\ Owned(tx[q].user)' \subseteq Owned(tx[q].user)
    BY DEF LiveSessions, Owned, Live, Present, End, IndInv, TypeOK
  <2>2. tx[q].op = "login" /\ tx[q].pc = "commit" => account'[tx[q].user] = "active"
    BY DEF IndInv, Knows
  <2>3. \A t \in tx[q].todo : Present(t) => Present(t)'
    BY DEF Present
  <2> QED BY <2>1, <2>2, <2>3, OthersKeep
<1> QED BY <1>1, <1>2, CommitStep

LEMMA LoginInv ==
  ASSUME IndInv, NEW p \in Proc, NEW t \in Token, CommitLogin(p, t)
  PROVE  IndInv'
<1> DEFINE new == [user |-> tx[p].user, family |-> t, revoked |-> FALSE, reason |-> "none"]
<1>1. /\ TypeOK /\ FamilyRoots /\ OneLivePerFamily /\ NoOrphan
      /\ Knows(tx[p]) /\ tx[p].pc = "commit" /\ tx[p].op = "login"
  BY DEF IndInv, CommitLogin
<1>2. tx[p].user \in User /\ tx[p].lock = "update" /\ account[tx[p].user] = "active"
  BY <1>1 DEF Knows
<1>3. /\ End(p) /\ account' = account /\ row[t] = NoRow
      /\ row' = [row EXCEPT ![t] = new]
  BY DEF CommitLogin, Present
<1>4. new \in Row /\ new # NoRow /\ new.user = tx[p].user /\ new.family = t /\ ~new.revoked
      /\ new.reason = "none"
  <2>1. new \in Row
    BY <1>2 DEF Row
  <2> QED BY <2>1, Sentinels
<1> HIDE DEF new
<1>5. \A s \in Token : row'[s] = IF s = t THEN new ELSE row[s]
  BY <1>1, <1>3 DEF TypeOK
<1>6. TypeOK'
  <2>1. row' \in [Token -> Row \cup {NoRow}]
    BY <1>1, <1>3, <1>4 DEF TypeOK
  <2> QED BY <1>1, <1>3, <1>4, <1>5, <2>1, EndType DEF TypeOK
<1>7. FamilyRoots'
  <2>1. \A s \in Token : Present(s) => row[s].family \in Token
    BY <1>1 DEF TypeOK, Present, Row
  <2> QED BY <1>1, <1>4, <1>5, <2>1 DEF FamilyRoots, Present
<1>8. OneLivePerFamily'
  BY <1>1, <1>3, <1>4, <1>5 DEF OneLivePerFamily, FamilyRoots, Present, Live
<1>9. NoOrphan'
  BY <1>1, <1>2, <1>3, <1>4, <1>5 DEF NoOrphan, Present
<1>10. ASSUME NEW q \in Proc \ {p} PROVE (Knows(tx[q]) /\ ResetSees(tx[q]))'
  <2>1. Knows(tx[q]) /\ tx[q] \in Tx /\ tx'[q] = tx[q]
    BY <1>1, <1>3 DEF IndInv, TypeOK, End
  <2>2. tx[q].lock = "update" => tx[q].user # tx[p].user
    BY <1>2 DEF IndInv, LocksExclusive, Conflict
  <2>3. tx[q].lock = "update" => /\ LiveSessions(tx[q].user)' \subseteq LiveSessions(tx[q].user)
                                 /\ Owned(tx[q].user)' \subseteq Owned(tx[q].user)
    BY <1>4, <1>5, <2>1, <2>2 DEF LiveSessions, Owned, Live, Present
  <2>4. t \notin Locked(tx[q])
    BY <1>3, <2>1 DEF Knows, Present
  <2>5. \A s \in Locked(tx[q]) : row'[s] = row[s]
    BY <1>5, <2>1, <2>4 DEF Tx, Locked
  <2>6. tx[q].op = "login" /\ tx[q].pc = "commit" => account'[tx[q].user] = "active"
    BY <1>3, <2>1 DEF Knows
  <2>7. \A s \in tx[q].todo : Present(s) => Present(s)'
    BY <1>4, <1>5, <2>1 DEF Present, Tx
  <2> QED BY <1>3, <2>3, <2>5, <2>6, <2>7, OthersKeep
<1> QED BY <1>3, <1>6, <1>7, <1>8, <1>9, <1>10, CommitStep

LEMMA RotationInv ==
  ASSUME IndInv, NEW p \in Proc, NEW t \in Token, NEW child \in Token,
         CommitRotation(p, t, child)
  PROVE  IndInv'
<1> DEFINE new == [user |-> tx[p].user, family |-> tx[p].family,
                   revoked |-> FALSE, reason |-> "none"]
           old == [row[t] EXCEPT !.revoked = TRUE, !.reason = "rotated"]
<1>1. /\ TypeOK /\ FamilyRoots /\ OneLivePerFamily /\ NoOrphan
      /\ Knows(tx[p]) /\ tx[p].pc = "commit" /\ tx[p].op = "refresh" /\ t \in tx[p].held
  BY DEF IndInv, CommitRotation
<1>2. /\ Live(t) /\ row[t].user = tx[p].user /\ row[t].family = tx[p].family
      /\ tx[p].lock = "share"
  BY <1>1 DEF Knows
<1>3. /\ End(p) /\ account' = account /\ row[child] = NoRow
      /\ row' = [row EXCEPT ![t] = old, ![child] = new]
  BY DEF CommitRotation, Present
<1>4. row[t] \in Row /\ row[t].user \in User /\ row[t].family \in Token /\ t # child
  BY <1>1, <1>2, <1>3 DEF TypeOK, Live, Present, Row
<1>5. /\ new \in Row /\ new # NoRow /\ new.user = tx[p].user /\ new.family = tx[p].family
      /\ ~new.revoked /\ new.reason = "none"
  <2>1. new \in Row
    BY <1>2, <1>4 DEF Row
  <2> QED BY <2>1, Sentinels
<1>6. /\ old \in Row /\ old # NoRow /\ old.user = tx[p].user /\ old.family = tx[p].family
      /\ old.revoked /\ old.reason = "rotated"
  <2>1. old \in Row
    BY <1>4 DEF Row, Reason
  <2> QED BY <1>2, <1>4, <2>1, Sentinels DEF Row
<1> HIDE DEF new, old
<1>7. \A s \in Token : row'[s] = IF s = child THEN new ELSE IF s = t THEN old ELSE row[s]
  BY <1>1, <1>3, <1>4 DEF TypeOK
<1>8. TypeOK'
  <2>1. row' \in [Token -> Row \cup {NoRow}]
    BY <1>1, <1>3, <1>5, <1>6 DEF TypeOK
  <2> QED BY <1>1, <1>3, <1>5, <1>6, <1>7, <2>1, EndType DEF TypeOK
<1>9. \A s \in Token : Present(s) => row[s].family \in Token
  BY <1>1 DEF TypeOK, Present, Row
<1>10. FamilyRoots'
  BY <1>1, <1>2, <1>4, <1>5, <1>6, <1>7, <1>9 DEF FamilyRoots, Present, Live
<1>11. OneLivePerFamily'
  BY <1>1, <1>2, <1>5, <1>6, <1>7 DEF OneLivePerFamily, Present, Live
<1>12. NoOrphan'
  <2>1. account[tx[p].user] # "deleted"
    BY <1>1, <1>2 DEF NoOrphan, Live
  <2>2. ASSUME NEW s \in Token, row'[s] # NoRow PROVE account[row'[s].user] # "deleted"
    BY <1>1, <1>5, <1>6, <1>7, <2>1, <2>2 DEF NoOrphan, Present
  <2> QED BY <1>3, <2>2 DEF NoOrphan, Present
<1>13. ASSUME NEW q \in Proc \ {p} PROVE (Knows(tx[q]) /\ ResetSees(tx[q]))'
  <2>1. Knows(tx[q]) /\ tx[q] \in Tx /\ tx'[q] = tx[q]
    BY <1>1, <1>3 DEF IndInv, TypeOK, End
  <2>2. tx[q].lock = "update" => tx[q].user # tx[p].user
    BY <1>2 DEF IndInv, LocksExclusive, Conflict
  <2>3. tx[q].lock = "update" => /\ LiveSessions(tx[q].user)' \subseteq LiveSessions(tx[q].user)
                                 /\ Owned(tx[q].user)' \subseteq Owned(tx[q].user)
    BY <1>5, <1>6, <1>7, <2>1, <2>2 DEF LiveSessions, Owned, Live, Present
  <2>4. child \notin Locked(tx[q])
    BY <1>3, <2>1 DEF Knows, Present
  <2>5. t \notin Locked(tx[q])
    BY <1>1 DEF IndInv, LocksExclusive, Locked
  <2>6. \A s \in Locked(tx[q]) : row'[s] = row[s]
    BY <1>7, <2>1, <2>4, <2>5 DEF Tx, Locked
  <2>7. tx[q].op = "login" /\ tx[q].pc = "commit" => account'[tx[q].user] = "active"
    BY <1>3, <2>1 DEF Knows
  <2>8. \A s \in tx[q].todo : Present(s) => Present(s)'
    BY <1>5, <1>6, <1>7, <2>1 DEF Present, Tx
  <2> QED BY <1>3, <2>3, <2>6, <2>7, <2>8, OthersKeep
<1> QED BY <1>3, <1>8, <1>10, <1>11, <1>12, <1>13, CommitStep

(* A bulk revocation turns live rows into revoked ones and nothing else.    *)
LEMMA RevokedRows ==
  ASSUME IndInv, NEW p \in Proc, row' = Revoked(p)
  PROVE  /\ row' \in [Token -> Row \cup {NoRow}]
         /\ \A t \in Token :
              /\ t \notin tx[p].hits \/ ~Live(t) => row'[t] = row[t]
              /\ t \in tx[p].hits /\ Live(t) =>
                   /\ row'[t] \in Row /\ row'[t] # NoRow
                   /\ row'[t].user = row[t].user
                   /\ row'[t].family = row[t].family
                   /\ row'[t].revoked /\ row'[t].reason = tx[p].reason
                   /\ tx[p].reason \in Reason \ {"rotated"}
<1>1. TypeOK /\ Knows(tx[p]) /\ tx[p] \in Tx
  BY DEF IndInv, TypeOK
<1>2. tx[p].hits # {} => tx[p].reason \in Reason \ {"rotated"}
  BY <1>1 DEF Knows, Tx
<1>3. ASSUME NEW t \in Token, t \in tx[p].hits, Live(t)
      PROVE  /\ row'[t] \in Row /\ row'[t] # NoRow
             /\ row'[t].user = row[t].user /\ row'[t].family = row[t].family
             /\ row'[t].revoked /\ row'[t].reason = tx[p].reason
  <2>1. row[t] \in Row
    BY <1>1, <1>3 DEF TypeOK, Live, Present
  <2>2. row'[t] = [row[t] EXCEPT !.revoked = TRUE, !.reason = tx[p].reason]
    BY <1>3 DEF Revoked
  <2>3. row'[t] \in Row
    BY <1>2, <1>3, <2>1, <2>2 DEF Row
  <2> QED BY <2>1, <2>2, <2>3, Sentinels DEF Row
<1>4. \A t \in Token : t \notin tx[p].hits \/ ~Live(t) => row'[t] = row[t]
  BY DEF Revoked
<1>5. \A t \in Token : row'[t] \in Row \cup {NoRow}
  BY <1>1, <1>3, <1>4 DEF TypeOK
<1>6. row' \in [Token -> Row \cup {NoRow}]
  BY <1>5 DEF Revoked
<1> QED BY <1>2, <1>3, <1>4, <1>6

LEMMA RevocationInv ==
  ASSUME IndInv, NEW p \in Proc, End(p), row' = Revoked(p),
         account' \in [User -> {"active", "inactive", "deleted"}],
         \A u \in User : account'[u] = "deleted" => account[u] = "deleted",
         \A q \in Proc \ {p} :
           tx[q].op = "login" /\ tx[q].pc = "commit" => account'[tx[q].user] = "active"
  PROVE  IndInv'
<1>1. TypeOK /\ FamilyRoots /\ OneLivePerFamily /\ NoOrphan /\ Knows(tx[p])
  BY DEF IndInv
<1>2. \A t \in Token : Present(t) => row[t].family \in Token /\ row[t].user \in User
  BY <1>1 DEF TypeOK, Present, Row
<1>3. TypeOK'
  BY <1>1, RevokedRows, EndType DEF TypeOK, Reason
<1>4. \A t \in Token :
        /\ Present(t)' <=> Present(t)
        /\ Live(t)' => Live(t)
        /\ Present(t) => row'[t].family = row[t].family /\ row'[t].user = row[t].user
  BY RevokedRows DEF Present, Live
<1>5. FamilyRoots'
  BY <1>1, <1>2, <1>4 DEF FamilyRoots, Present
<1>6. OneLivePerFamily'
  BY <1>1, <1>4 DEF OneLivePerFamily, Live, Present
<1>7. NoOrphan'
  BY <1>1, <1>2, <1>4 DEF NoOrphan, Present
<1>8. ASSUME NEW q \in Proc \ {p} PROVE (Knows(tx[q]) /\ ResetSees(tx[q]))'
  <2>1. tx'[q] = tx[q] /\ tx[q] \in Tx
    BY <1>1 DEF TypeOK, End
  <2>2. /\ LiveSessions(tx[q].user)' \subseteq LiveSessions(tx[q].user)
        /\ Owned(tx[q].user)' \subseteq Owned(tx[q].user)
    BY <1>4, <2>1 DEF LiveSessions, Owned, Live, Present
  <2>3. \A t \in Locked(tx[q]) : t \in Token /\ t \notin tx[p].hits
    BY <1>1, <2>1 DEF Knows, IndInv, LocksExclusive, Tx, Locked
  <2>4. \A t \in Locked(tx[q]) : row'[t] = row[t]
    BY <2>3, RevokedRows
  <2>5. \A t \in tx[q].todo : Present(t) => Present(t)'
    BY <1>4, <2>1 DEF Tx
  <2> QED BY <2>2, <2>4, <2>5, OthersKeep
<1> QED BY <1>3, <1>5, <1>6, <1>7, <1>8, CommitStep

LEMMA CommitsInv ==
  ASSUME IndInv, NEW p \in Proc,
         CommitRevocation(p) \/ CommitStatus(p) \/ CommitDelete(p)
  PROVE  IndInv'
<1>1. TypeOK /\ tx[p] \in Tx /\ Knows(tx[p])
  BY DEF IndInv, TypeOK
<1>2. \A q \in Proc : tx[q].op = "login" /\ tx[q].pc = "commit" =>
        /\ tx[q].user \in User /\ tx[q].lock = "update"
        /\ account[tx[q].user] = "active"
  BY DEF IndInv, Knows
<1>3. CASE CommitRevocation(p)
  <2>1. End(p) /\ row' = Revoked(p) /\ account' = account
    BY <1>3 DEF CommitRevocation
  <2> QED BY <1>1, <1>2, <2>1, RevocationInv DEF TypeOK
<1>4. CASE CommitStatus(p)
  <2>1. /\ End(p) /\ row' = Revoked(p) /\ tx[p].user \in User /\ tx[p].lock = "nokey"
        /\ account' = [account EXCEPT ![tx[p].user] =
                         IF tx[p].op = "disable" THEN "inactive" ELSE "active"]
    BY <1>1, <1>4 DEF CommitStatus, Knows
  <2>2. \A u \in User :
          /\ u # tx[p].user => account'[u] = account[u]
          /\ account'[u] = "deleted" => account[u] = "deleted"
    BY <1>1, <2>1 DEF TypeOK
  <2>3. account' \in [User -> {"active", "inactive", "deleted"}]
    BY <1>1, <2>1 DEF TypeOK
  <2>4. ASSUME NEW q \in Proc \ {p}, tx[q].op = "login", tx[q].pc = "commit"
        PROVE  account'[tx[q].user] = "active"
    <3>1. tx[q].lock = "update" /\ account[tx[q].user] = "active" /\ tx[q].user \in User
      BY <1>2, <2>4
    <3>2. tx[q].user # tx[p].user
      BY <2>1, <3>1 DEF IndInv, LocksExclusive, Conflict
    <3> QED BY <2>2, <3>1, <3>2 DEF Locked
  <2> QED BY <2>1, <2>2, <2>3, <2>4, RevocationInv
<1>5. CASE CommitDelete(p)
  <2>1. /\ End(p) /\ row' = row /\ tx[p].user \in User /\ tx[p].lock = "update"
        /\ account' = [account EXCEPT ![tx[p].user] = "deleted"]
        /\ \A t \in Token : Present(t) => row[t].user # tx[p].user
    BY <1>1, <1>5 DEF CommitDelete, Knows, Owned
  <2>2. \A u \in User : u # tx[p].user => account'[u] = account[u]
    BY <1>1, <2>1 DEF TypeOK
  <2>3. TypeOK'
    BY <1>1, <2>1, EndType DEF TypeOK
  <2>4. FamilyRoots' /\ OneLivePerFamily'
    BY <2>1 DEF IndInv, FamilyRoots, OneLivePerFamily, Present, Live
  <2>5. NoOrphan'
    <3>1. \A t \in Token : Present(t) => row[t].user \in User
      BY <1>1 DEF TypeOK, Present, Row
    <3> QED BY <2>1, <2>2, <3>1 DEF IndInv, NoOrphan, Present
  <2>6. ASSUME NEW q \in Proc \ {p} PROVE (Knows(tx[q]) /\ ResetSees(tx[q]))'
    <3>1. tx'[q] = tx[q]
      BY <1>1, <2>1 DEF TypeOK, End
    <3>2. tx[q].op = "login" /\ tx[q].pc = "commit" => account'[tx[q].user] = "active"
      <4> SUFFICES ASSUME tx[q].op = "login", tx[q].pc = "commit"
                   PROVE  account'[tx[q].user] = "active"
        OBVIOUS
      <4>1. tx[q].lock = "update" /\ account[tx[q].user] = "active" /\ tx[q].user \in User
        BY <1>2
      <4>2. tx[q].user # tx[p].user
        BY <2>1, <4>1 DEF IndInv, LocksExclusive, Conflict
      <4> QED BY <2>2, <4>1, <4>2
    <3>3. /\ LiveSessions(tx[q].user)' \subseteq LiveSessions(tx[q].user)
          /\ Owned(tx[q].user)' \subseteq Owned(tx[q].user)
      BY <2>1, <3>1 DEF LiveSessions, Owned, Live, Present
    <3>4. \A t \in tx[q].todo : Present(t) => Present(t)'
      BY <2>1 DEF Present
    <3> QED BY <2>1, <3>2, <3>3, <3>4, OthersKeep
  <2> QED BY <2>1, <2>3, <2>4, <2>5, <2>6, CommitStep
<1> QED BY <1>3, <1>4, <1>5

LEMMA NextIndInv == IndInv /\ [Next]_vars => IndInv'
<1> SUFFICES ASSUME IndInv, [Next]_vars PROVE IndInv'
  OBVIOUS
<1>1. CASE UNCHANGED vars
  BY <1>1 DEF vars, IndInv, TypeOK, LocksExclusive, FamilyRoots, OneLivePerFamily, NoOrphan,
     Knows, ResetSees, LiveSessions, Owned, Live, Present
<1>2. ASSUME NEW p \in Proc, Request(p) PROVE IndInv'
  BY <1>2, BeginSound, LocalStep
<1>3. ASSUME NEW p \in Proc, Step(p) PROVE IndInv'
  <2>1. CASE \/ LockUser(p) \/ ReadUser(p) \/ FlushChild(p) \/ Scan(p) \/ FlushUser(p)
             \/ \E t \in Token : UpdateRow(p, t)
    BY <2>1, StatementSound, LocalStep
  <2>2. CASE \E t \in Token : CommitLogin(p, t)
    BY <2>2, LoginInv
  <2>3. CASE \E t, child \in Token : CommitRotation(p, t, child)
    BY <2>3, RotationInv
  <2>4. CASE CommitRevocation(p) \/ CommitStatus(p) \/ CommitDelete(p)
    BY <2>4, CommitsInv
  <2>5. CASE RejectLogin(p) \/ RejectFlush(p)
    BY <2>5, RollbackInv DEF RejectLogin, RejectFlush
  <2> QED BY <1>3, <2>1, <2>2, <2>3, <2>4, <2>5 DEF Step
<1>4. ASSUME NEW p \in Proc, RejectExpired(p) \/ Rollback(p) \/ DeadlockVictim(p)
      PROVE  IndInv'
  BY <1>4, RollbackInv DEF RejectExpired, Rollback, DeadlockVictim
<1> QED BY <1>1, <1>2, <1>3, <1>4 DEF Next

-----------------------------------------------------------------------------
(* The inductive invariant holds in every behaviour.                        *)
THEOREM Invariance == Spec => []IndInv
BY InitIndInv, NextIndInv, PTL DEF Spec

(* Tables and transactions keep their shape.                                *)
THEOREM TypeCorrect == Spec => []TypeOK
<1>1. IndInv => TypeOK
  BY DEF IndInv
<1> QED BY <1>1, Invariance, PTL

(* Whatever requests race, a family never has two usable refresh tokens.    *)
THEOREM SingleLiveToken == Spec => []OneLivePerFamily
<1>1. IndInv => OneLivePerFamily
  BY DEF IndInv
<1> QED BY <1>1, Invariance, PTL

(* A user is not deleted from under a refresh token.                        *)
THEOREM NoOrphanedToken == Spec => []NoOrphan
<1>1. IndInv => NoOrphan
  BY DEF IndInv
<1> QED BY <1>1, Invariance, PTL

(* The only steps that write refresh_tokens.                                *)
LEMMA RowSteps ==
  ASSUME Next, row' # row
  PROVE  \E p \in Proc :
           \/ \E t \in Token : CommitLogin(p, t)
           \/ \E t, child \in Token : CommitRotation(p, t, child)
           \/ row' = Revoked(p) /\ (CommitRevocation(p) \/ CommitStatus(p))
BY DEF Next, Request, Step, Login, LockUser, RejectLogin, Refresh, Replay, RejectExpired,
   ReadUser, FlushChild, Logout, RevokeSessions, ResetPassword, Disable, Enable, Delete,
   Scan, UpdateRow, CommitRevocation, FlushUser, CommitStatus, CommitDelete, RejectFlush,
   Rollback, DeadlockVictim

(* The rotated tokens of a family.                                          *)
Spent(f) == {t \in Family(f) : row[t].reason = "rotated"}

LEMMA RotationsCounted == IndInv /\ RotatedOnce /\ [Next]_vars => RotatedOnce'
<1> SUFFICES ASSUME IndInv, RotatedOnce, [Next]_vars PROVE RotatedOnce'
  OBVIOUS
<1>1. SUFFICES ASSUME NEW f \in Token, Family(f)' # {}
               PROVE  Cardinality(Spent(f)') + 1 = Cardinality(Family(f)')
  BY DEF RotatedOnce, Family, Spent
<1>2. /\ IsFiniteSet(Family(f)) /\ IsFiniteSet(Spent(f))
      /\ Family(f) # {} => Cardinality(Spent(f)) + 1 = Cardinality(Family(f))
  <2>1. Family(f) \in SUBSET Token /\ Spent(f) \in SUBSET Token
    BY DEF Family, Spent
  <2>2. IsFiniteSet(Family(f)) /\ IsFiniteSet(Spent(f))
    BY <2>1, FiniteIds, FS_Subset
  <2> QED BY <2>2 DEF RotatedOnce, Family, Spent
<1>3. row \in [Token -> Row \cup {NoRow}]
  BY DEF IndInv, TypeOK
<1>4. CASE Family(f)' = Family(f) /\ Spent(f)' = Spent(f)
  BY <1>1, <1>2, <1>4
<1>5. CASE row' = row
  <2>1. Family(f)' = Family(f) /\ Spent(f)' = Spent(f)
    BY <1>5 DEF Family, Spent, Present
  <2> QED BY <2>1, <1>4
<1>6. ASSUME NEW p \in Proc, NEW s \in Token, CommitLogin(p, s)
      PROVE  Cardinality(Spent(f)') + 1 = Cardinality(Family(f)')
  <2> DEFINE new == [user |-> tx[p].user, family |-> s, revoked |-> FALSE, reason |-> "none"]
  <2>1. ~Present(s) /\ row' = [row EXCEPT ![s] = new]
    BY <1>6 DEF CommitLogin
  <2>2. new # NoRow
    <3>1. tx[p].user \in User
      BY <1>6 DEF CommitLogin, IndInv, Knows
    <3>2. new \in Row
      BY <3>1 DEF Row
    <3> QED BY <3>2, Sentinels
  <2>3. row'[s] = new /\ \A t \in Token \ {s} : row'[t] = row[t]
    BY <1>3, <2>1
  <2>4. CASE f = s
    <3>1. \A t \in Token : Present(t) => row[t].family # s
      BY <2>1 DEF IndInv, FamilyRoots
    <3>2. Family(f)' = {s} /\ Spent(f)' = {}
      BY <2>2, <2>3, <2>4, <3>1 DEF Family, Spent, Present
    <3>3. Cardinality(Family(f)') = 1 /\ Cardinality(Spent(f)') = 0
      BY <3>2, FS_EmptySet, FS_Singleton
    <3> QED BY <3>3
  <2>5. CASE f # s
    <3>1. Family(f)' = Family(f)
      BY <2>1, <2>3, <2>5 DEF Family, Present
    <3>2. s \notin Family(f)
      BY <2>1 DEF Family
    <3>3. Spent(f)' = Spent(f)
      BY <2>3, <3>1, <3>2 DEF Spent, Family
    <3> QED BY <1>4, <3>1, <3>3
  <2> QED BY <2>4, <2>5
<1>7. ASSUME NEW p \in Proc, NEW s \in Token, NEW child \in Token, CommitRotation(p, s, child)
      PROVE  Cardinality(Spent(f)') + 1 = Cardinality(Family(f)')
  <2> DEFINE new == [user |-> tx[p].user, family |-> tx[p].family, revoked |-> FALSE, reason |-> "none"]
  <2>1. /\ Live(s) /\ row[s].user = tx[p].user /\ row[s].family = tx[p].family
        /\ ~Present(child) /\ s # child
        /\ row' = [row EXCEPT ![s] = [@ EXCEPT !.revoked = TRUE, !.reason = "rotated"], ![child] = new]
    BY <1>7 DEF CommitRotation, IndInv, Knows, Live, Present, Locked, Owned
  <2>2. row[s] \in Row /\ row[s].reason = "none"
    BY <1>3, <2>1 DEF Live, Present, IndInv, TypeOK
  <2>3. /\ row'[child] = new /\ row'[s] = [row[s] EXCEPT !.revoked = TRUE, !.reason = "rotated"]
        /\ \A t \in Token \ {s, child} : row'[t] = row[t]
    BY <1>3, <2>1
  <2>4. /\ row'[s] \in Row /\ row'[s].family = row[s].family /\ row'[s].reason = "rotated"
        /\ new \in Row
    <3>1. tx[p].user \in User /\ tx[p].family \in Token
      BY <2>1, <2>2 DEF Row
    <3>2. new \in Row
      BY <3>1 DEF Row
    <3>3. "rotated" \in Reason
      BY DEF Reason
    <3>4. row'[s] \in Row /\ row'[s].family = row[s].family /\ row'[s].reason = "rotated"
      BY <2>2, <2>3, <3>3 DEF Row
    <3> QED BY <3>2, <3>4
  <2>5. row'[s] # NoRow /\ row'[child] # NoRow
    BY <2>3, <2>4, Sentinels
  <2>6. s \notin Spent(f) /\ child \notin Family(f) /\ child \notin Spent(f)
    BY <2>1, <2>2 DEF Spent, Family
  <2>7. CASE f = tx[p].family
    <3>1. s \in Family(f)
      BY <2>1, <2>7 DEF Family, Live
    <3>2. \A t \in Token : Present(t)' /\ row'[t].family = f <=> t \in Family(f) \cup {child}
      <4> SUFFICES ASSUME NEW t \in Token
                   PROVE  Present(t)' /\ row'[t].family = f <=> t \in Family(f) \cup {child}
        OBVIOUS
      <4>1. CASE t = child
        BY <2>3, <2>5, <2>7, <4>1 DEF Present
      <4>2. CASE t = s
        BY <2>1, <2>4, <2>5, <2>7, <3>1, <4>2 DEF Present
      <4>3. CASE t # child /\ t # s
        BY <2>3, <4>3 DEF Present, Family
      <4> QED BY <4>1, <4>2, <4>3
    <3>5. Family(f)' = Family(f) \cup {child}
      BY <3>2 DEF Family
    <3>6. \A t \in Family(f) \cup {child} : row'[t].reason = "rotated" <=> t \in Spent(f) \cup {s}
      <4> SUFFICES ASSUME NEW t \in Family(f) \cup {child}
                   PROVE  row'[t].reason = "rotated" <=> t \in Spent(f) \cup {s}
        OBVIOUS
      <4>1. CASE t = child
        BY <2>1, <2>3, <2>6, <4>1
      <4>2. CASE t = s
        BY <2>4, <4>2
      <4>3. CASE t # child /\ t # s
        <5>1. t \in Family(f) /\ row'[t] = row[t]
          BY <2>3, <4>3 DEF Family
        <5> QED BY <4>3, <5>1 DEF Spent
      <4> QED BY <4>1, <4>2, <4>3
    <3>3. Spent(f)' = Spent(f) \cup {s}
      BY <3>1, <3>5, <3>6 DEF Spent
    <3>4. /\ Cardinality(Family(f)') = Cardinality(Family(f)) + 1
          /\ Cardinality(Spent(f)') = Cardinality(Spent(f)) + 1
      BY <1>2, <2>6, <3>3, <3>5, FS_AddElement
    <3> QED BY <1>2, <3>1, <3>4, FS_CardinalityType
  <2>8. CASE f # tx[p].family
    <3>0. s \notin Family(f)
      BY <2>1, <2>8 DEF Family
    <3>3. \A t \in Token : Present(t)' /\ row'[t].family = f <=> t \in Family(f)
      <4> SUFFICES ASSUME NEW t \in Token
                   PROVE  Present(t)' /\ row'[t].family = f <=> t \in Family(f)
        OBVIOUS
      <4>1. CASE t = child
        BY <2>3, <2>6, <2>8, <4>1 DEF Present
      <4>2. CASE t = s
        BY <2>1, <2>4, <2>8, <3>0, <4>2
      <4>3. CASE t # child /\ t # s
        BY <2>3, <4>3 DEF Present, Family
      <4> QED BY <4>1, <4>2, <4>3
    <3>1. Family(f)' = Family(f) /\ s \notin Family(f)
      BY <3>0, <3>3 DEF Family
    <3>2. Spent(f)' = Spent(f)
      BY <2>3, <2>6, <3>1 DEF Spent, Family
    <3> QED BY <1>4, <3>1, <3>2
  <2> QED BY <2>7, <2>8
<1>8. ASSUME NEW p \in Proc, row' = Revoked(p)
      PROVE  Cardinality(Spent(f)') + 1 = Cardinality(Family(f)')
  <2>1. \A t \in Token : /\ Present(t)' <=> Present(t)
                         /\ Present(t) => row'[t].family = row[t].family
                         /\ Present(t) => (row'[t].reason = "rotated" <=> row[t].reason = "rotated")
    <3> SUFFICES ASSUME NEW t \in Token
                 PROVE  /\ Present(t)' <=> Present(t)
                        /\ Present(t) => row'[t].family = row[t].family
                        /\ Present(t) => (row'[t].reason = "rotated" <=> row[t].reason = "rotated")
      OBVIOUS
    <3>1. CASE t \in tx[p].hits /\ Live(t)
      <4>1. row[t].reason = "none"
        BY <1>8, <3>1, RevokedRows DEF IndInv, TypeOK, Live, Present
      <4> QED BY <1>8, <3>1, <4>1, RevokedRows DEF Live, Present
    <3>2. CASE t \notin tx[p].hits \/ ~Live(t)
      BY <1>8, <3>2, RevokedRows DEF Present
    <3> QED BY <3>1, <3>2
  <2>2. Family(f)' = Family(f)
    BY <2>1 DEF Family
  <2>3. Spent(f)' = Spent(f)
    BY <2>1, <2>2 DEF Spent, Family
  <2> QED BY <1>4, <2>2, <2>3
<1> QED BY <1>5, <1>6, <1>7, <1>8, RowSteps DEF vars

(* Every token of a family but its first replaced exactly one rotated token. *)
THEOREM ReplacedOnce == Spec => []RotatedOnce
<1>1. Init => RotatedOnce
  BY DEF Init, RotatedOnce, Present
<1> QED BY <1>1, RotationsCounted, Invariance, PTL DEF Spec

(* A revoked token stays revoked, for the reason first recorded.            *)
THEOREM RevocationFinal == Spec => RevocationIsFinal
<1>1. ASSUME IndInv, [Next]_vars, NEW t \in Token, Present(t), row[t].revoked
      PROVE  row'[t] = row[t]
  <2>1. CASE row' = row
    BY <2>1
  <2>2. ASSUME NEW p \in Proc, NEW s \in Token, CommitLogin(p, s)
        PROVE  row'[t] = row[t]
    BY <1>1, <2>2 DEF CommitLogin, IndInv, TypeOK, Present
  <2>3. ASSUME NEW p \in Proc, NEW s \in Token, NEW child \in Token, CommitRotation(p, s, child)
        PROVE  row'[t] = row[t]
    <3>1. s # t
      BY <1>1, <2>3 DEF CommitRotation, IndInv, Knows, Live
    <3>2. child # t
      BY <1>1, <2>3 DEF CommitRotation, Present
    <3>3. row' = [row EXCEPT ![s] = [@ EXCEPT !.revoked = TRUE, !.reason = "rotated"],
                            ![child] = [user |-> tx[p].user, family |-> tx[p].family,
                                        revoked |-> FALSE, reason |-> "none"]]
      BY <2>3 DEF CommitRotation
    <3> QED BY <1>1, <3>1, <3>2, <3>3 DEF IndInv, TypeOK
  <2>4. ASSUME NEW p \in Proc, row' = Revoked(p) PROVE row'[t] = row[t]
    BY <1>1, <2>4, RevokedRows DEF Live
  <2> QED BY <1>1, <2>1, <2>2, <2>3, <2>4, RowSteps DEF vars
<1>2. IndInv /\ [Next]_vars
        => [\A t \in Token : Present(t) /\ row[t].revoked => row'[t] = row[t]]_vars
  BY <1>1
<1> QED BY <1>2, Invariance, PTL DEF Spec, RevocationIsFinal

(* A completed password reset leaves its user without a usable session.     *)
THEOREM ResetComplete == Spec => ResetRevokesAll
<1>1. ASSUME IndInv, NEW p \in Proc, tx[p].reason = "password_reset", CommitRevocation(p),
             NEW t \in Token, row'[t] # NoRow, row'[t].user = tx[p].user
      PROVE  row'[t].revoked
  <2>1. /\ row' = Revoked(p) /\ tx[p].pc = "update" /\ tx[p].todo = {}
    BY <1>1 DEF CommitRevocation
  <2>2. LiveSessions(tx[p].user) \subseteq tx[p].hits
    BY <1>1, <2>1 DEF IndInv, ResetSees
  <2>3. CASE t \in tx[p].hits /\ Live(t)
    BY <1>1, <2>1, <2>3, RevokedRows
  <2>4. CASE t \notin tx[p].hits \/ ~Live(t)
    <3>1. row'[t] = row[t]
      BY <1>1, <2>1, <2>4, RevokedRows
    <3>2. row[t] \in Row
      BY <1>1, <3>1 DEF IndInv, TypeOK
    <3> QED BY <1>1, <2>2, <2>4, <3>1, <3>2 DEF LiveSessions, Live, Present, Row
  <2> QED BY <2>3, <2>4
<1>2. IndInv /\ [Next]_vars
        => [\A p \in Proc : tx[p].reason = "password_reset" /\ CommitRevocation(p)
              => \A t \in Token : row'[t] # NoRow /\ row'[t].user = tx[p].user
                                   => row'[t].revoked]_vars
  BY <1>1
<1> QED BY <1>2, Invariance, PTL DEF Spec, ResetRevokesAll

(* No session begins for an account that is not active when it is committed. *)
THEOREM SignInActive == Spec => SignInOnlyActive
<1>1. ASSUME IndInv, [Next]_vars, NEW t \in Token, ~Present(t), Present(t)',
             row'[t].family = t
      PROVE  account[row'[t].user] = "active"
  <2>1. Next /\ row' # row
    BY <1>1 DEF vars, Present
  <2>2. ASSUME NEW p \in Proc, NEW s \in Token, CommitLogin(p, s)
        PROVE  account[row'[t].user] = "active"
    <3>1. /\ row' = [row EXCEPT ![s] = [user |-> tx[p].user, family |-> s,
                                        revoked |-> FALSE, reason |-> "none"]]
          /\ account[tx[p].user] = "active"
      BY <1>1, <2>2 DEF CommitLogin, IndInv, Knows
    <3>2. s = t
      BY <1>1, <3>1 DEF Present, IndInv, TypeOK
    <3> QED BY <1>1, <3>1, <3>2 DEF IndInv, TypeOK
  <2>3. ASSUME NEW p \in Proc, NEW s \in Token, NEW child \in Token, CommitRotation(p, s, child)
        PROVE  FALSE
    <3>1. /\ row' = [row EXCEPT ![s] = [@ EXCEPT !.revoked = TRUE, !.reason = "rotated"],
                                ![child] = [user |-> tx[p].user, family |-> tx[p].family,
                                            revoked |-> FALSE, reason |-> "none"]]
          /\ Present(s) /\ row[s].family = tx[p].family
      BY <1>1, <2>3 DEF CommitRotation, IndInv, Knows, Live
    <3>2. child = t /\ s # t
      BY <1>1, <3>1 DEF Present, IndInv, TypeOK
    <3>3. row'[t].family = row[s].family
      BY <1>1, <3>1, <3>2 DEF IndInv, TypeOK
    <3>4. Present(row[s].family)
      BY <1>1, <3>1 DEF IndInv, FamilyRoots
    <3> QED BY <1>1, <3>3, <3>4
  <2>4. ASSUME NEW p \in Proc, row' = Revoked(p) PROVE FALSE
    BY <1>1, <2>4, RevokedRows DEF Live, Present
  <2> QED BY <2>1, <2>2, <2>3, <2>4, RowSteps
<1>2. IndInv /\ [Next]_vars
        => [\A t \in Token : ~Present(t) /\ Present(t)' /\ row'[t].family = t
              => account[row'[t].user] = "active"]_vars
  BY <1>1
<1> QED BY <1>2, Invariance, PTL DEF Spec, SignInOnlyActive

-----------------------------------------------------------------------------
(* A row that is there and usable after a step was the same before it.      *)
LEMMA LiveUnchanged ==
  ASSUME IndInv, [Next]_vars, NEW t \in Token, Present(t), Live(t)'
  PROVE  row'[t] = row[t]
<1>1. row \in [Token -> Row \cup {NoRow}]
  BY DEF IndInv, TypeOK
<1>2. CASE row' = row
  BY <1>2
<1>3. ASSUME NEW p \in Proc, NEW s \in Token, CommitLogin(p, s)
      PROVE  row'[t] = row[t]
  BY <1>1, <1>3 DEF CommitLogin, Present
<1>4. ASSUME NEW p \in Proc, NEW s \in Token, NEW child \in Token, CommitRotation(p, s, child)
      PROVE  row'[t] = row[t]
  <2>1. t # child /\ s # child
    BY <1>4 DEF CommitRotation, IndInv, Knows, Live, Present, Locked, Owned
  <2>2. row' = [row EXCEPT ![s] = [@ EXCEPT !.revoked = TRUE, !.reason = "rotated"],
                          ![child] = [user |-> tx[p].user, family |-> tx[p].family,
                                      revoked |-> FALSE, reason |-> "none"]]
    BY <1>4 DEF CommitRotation
  <2>3. CASE s = t
    <3>1. row[t] \in Row /\ row'[t] = [row[t] EXCEPT !.revoked = TRUE, !.reason = "rotated"]
      BY <1>1, <2>1, <2>2, <2>3 DEF Present
    <3> QED BY <3>1 DEF Live, Row
  <2> QED BY <1>1, <2>1, <2>2, <2>3
<1>5. ASSUME NEW p \in Proc, row' = Revoked(p) PROVE row'[t] = row[t]
  BY <1>5, RevokedRows DEF Live
<1> QED BY <1>2, <1>3, <1>4, <1>5, RowSteps DEF vars

(* A request moves only its own transaction, and may end it.                *)
LEMMA OwnTransaction ==
  ASSUME IndInv, NEW p \in Proc, NEW q \in Proc, q # p,
         Request(q) \/ Step(q) \/ RejectExpired(q) \/ Rollback(q) \/ DeadlockVictim(q)
  PROVE  tx'[p] = tx[p]
<1>1. tx \in [Proc -> Tx]
  BY DEF IndInv, TypeOK
<1> QED BY <1>1 DEF Request, Step, Login, LockUser, RejectLogin, CommitLogin, Refresh, Replay,
     RejectExpired, ReadUser, FlushChild, CommitRotation, Logout, RevokeSessions, ResetPassword,
     Disable, Enable, Delete, Scan, UpdateRow, CommitRevocation, FlushUser, CommitStatus,
     CommitDelete, RejectFlush, Rollback, DeadlockVictim, Start, End

LEMMA EndingSteps ==
  ASSUME IndInv, NEW p \in Proc,
         \/ RejectLogin(p) \/ (\E t \in Token : CommitLogin(p, t))
         \/ (\E t, child \in Token : CommitRotation(p, t, child))
         \/ CommitRevocation(p) \/ CommitStatus(p) \/ CommitDelete(p) \/ RejectFlush(p)
         \/ RejectExpired(p) \/ Rollback(p) \/ DeadlockVictim(p)
  PROVE  tx'[p] = Idle
<1>1. tx \in [Proc -> Tx]
  BY DEF IndInv, TypeOK
<1>2. End(p)
  BY DEF RejectLogin, CommitLogin, CommitRotation, CommitRevocation, CommitStatus,
     CommitDelete, RejectFlush, RejectExpired, Rollback, DeadlockVictim
<1> QED BY <1>1, <1>2 DEF End

(* What can happen to a transaction that is then a revocation's UPDATE.     *)
LEMMA RevokingSteps ==
  ASSUME IndInv, [Next]_vars, NEW p \in Proc,
         tx'[p].op \in {"revoke", "disable"}, tx'[p].pc \in {"update", "commit"}
  PROVE  \/ tx'[p] = tx[p]
         \/ Scan(p) \/ FlushUser(p) \/ \E s \in Token : UpdateRow(p, s)
<1>1. tx \in [Proc -> Tx] /\ tx[p] \in Tx /\ Knows(tx[p])
  BY DEF IndInv, TypeOK
<1>2. CASE UNCHANGED vars
  BY <1>2 DEF vars
<1>3. ASSUME NEW q \in Proc, q # p,
             Request(q) \/ Step(q) \/ RejectExpired(q) \/ Rollback(q) \/ DeadlockVictim(q)
      PROVE  tx'[p] = tx[p]
  BY <1>3, OwnTransaction
<1>4. CASE Request(p)
  <2>1. ASSUME NEW x, Start(p, x), x.pc \in {"lockUser", "readUser", "scan", "flush"} \/ x.op = "delete"
        PROVE  FALSE
    BY <1>1, <2>1 DEF Start
  <2>2. ASSUME NEW u \in User, Login(p, u) \/ ResetPassword(p, u) \/ Disable(p, u)
                                \/ Enable(p, u) \/ Delete(p, u)
        PROVE  FALSE
    BY <2>1, <2>2 DEF Login, ResetPassword, Disable, Enable, Delete, Idle
  <2>3. ASSUME NEW u, NEW f, RevokeSessions(p, u, f) PROVE FALSE
    BY <2>1, <2>3 DEF RevokeSessions, Idle
  <2>4. ASSUME NEW t, Refresh(p, t) \/ Replay(p, t) \/ Logout(p, t) PROVE FALSE
    BY <2>1, <2>4 DEF Refresh, Replay, Logout, Idle
  <2> QED BY <1>4, <2>2, <2>3, <2>4 DEF Request
<1>5. CASE \/ RejectLogin(p) \/ (\E t \in Token : CommitLogin(p, t))
           \/ (\E t, child \in Token : CommitRotation(p, t, child))
           \/ CommitRevocation(p) \/ CommitStatus(p) \/ CommitDelete(p) \/ RejectFlush(p)
           \/ RejectExpired(p) \/ Rollback(p) \/ DeadlockVictim(p)
  BY <1>5, EndingSteps DEF Idle
<1>6. CASE LockUser(p) \/ FlushChild(p)
  <2>1. tx'[p].op = tx[p].op
    BY <1>1, <1>6 DEF LockUser, FlushChild, Tx
  <2> QED BY <1>1, <1>6, <2>1 DEF LockUser, FlushChild, Knows
<1>7. CASE ReadUser(p)
  <2>1. tx'[p].pc \in {"flush", "scan"}
    BY <1>1, <1>7 DEF ReadUser, Tx
  <2> QED BY <2>1
<1> QED BY <1>2, <1>3, <1>4, <1>5, <1>6, <1>7 DEF Next, Step

(* What escapes a revocation after a step escaped it before, or is new.     *)
LEMMA EscapesNew ==
  ASSUME IndInv, [Next]_vars, NEW p \in Proc, NEW t \in Token,
         t \in Escaping(p)', Present(t)
  PROVE  t \in Escaping(p)
<1>1. /\ tx'[p].op \in {"revoke", "disable"} /\ tx'[p].pc \in {"update", "commit"}
      /\ t \in Scope(p)' /\ t \notin tx'[p].todo /\ t \notin tx'[p].hits
  BY DEF Escaping
<1>2. row'[t] = row[t] /\ Live(t)
  BY <1>1, LiveUnchanged DEF Scope, Live, Present
<1>3. tx \in [Proc -> Tx] /\ tx[p] \in Tx /\ Knows(tx[p])
  BY DEF IndInv, TypeOK
<1>4. ASSUME tx'[p].user = tx[p].user, tx'[p].family = tx[p].family PROVE t \in Scope(p)
  BY <1>1, <1>2, <1>4 DEF Scope
<1>5. CASE tx'[p] = tx[p]
  BY <1>1, <1>4, <1>5 DEF Escaping
<1>6. CASE Scan(p)
  <2>1. tx'[p].user = tx[p].user /\ tx'[p].family = tx[p].family /\ tx'[p].todo = Scope(p)
    BY <1>3, <1>6 DEF Scan, Tx
  <2> QED BY <1>1, <1>4, <2>1
<1>7. CASE FlushUser(p)
  <2>1. /\ tx'[p].user = tx[p].user /\ tx'[p].family = tx[p].family /\ tx'[p].op = tx[p].op
        /\ tx'[p].todo = tx[p].todo /\ tx'[p].hits = tx[p].hits
    BY <1>3, <1>7 DEF FlushUser, Tx
  <2>2. tx[p].pc = "update"
    BY <1>1, <1>3, <1>7, <2>1 DEF FlushUser, Wants, Knows
  <2> QED BY <1>1, <1>4, <2>1, <2>2 DEF Escaping
<1>8. ASSUME NEW s \in Token, UpdateRow(p, s) PROVE t \in Escaping(p)
  <2>1. /\ tx'[p].user = tx[p].user /\ tx'[p].family = tx[p].family /\ tx'[p].op = tx[p].op
        /\ tx'[p].todo = tx[p].todo \ {s} /\ tx[p].pc = "update"
        /\ tx'[p].hits = IF Live(s) THEN tx[p].hits \cup {s} ELSE tx[p].hits
    BY <1>3, <1>8 DEF UpdateRow, Tx
  <2>2. s # t
    BY <1>1, <1>2, <2>1
  <2> QED BY <1>1, <1>4, <2>1, <2>2 DEF Escaping
<1> QED BY <1>1, <1>5, <1>6, <1>7, <1>8, RevokingSteps

(* No token that was there when a revocation began escapes it.              *)
THEOREM OldTokensRevoked == Spec => OnlyNewEscape
<1>1. IndInv /\ [Next]_vars
        => [\A p \in Proc, t \in Token : t \in Escaping(p)' => t \in Escaping(p) \/ ~Present(t)]_vars
  BY EscapesNew
<1> QED BY <1>1, Invariance, PTL DEF Spec, OnlyNewEscape

-----------------------------------------------------------------------------
(* Rows stay with their family.                                             *)
LEMMA FamilyKept ==
  ASSUME IndInv, [Next]_vars, NEW t \in Token, Present(t)
  PROVE  row'[t].family = row[t].family /\ Present(t)'
<1>1. row \in [Token -> Row \cup {NoRow}] /\ row[t] \in Row
  BY DEF IndInv, TypeOK, Present
<1>2. CASE row' = row
  BY <1>2 DEF Present
<1>3. ASSUME NEW p \in Proc, NEW s \in Token, CommitLogin(p, s)
      PROVE  row'[t] = row[t]
  BY <1>1, <1>3 DEF CommitLogin, Present
<1>4. ASSUME NEW p \in Proc, NEW s \in Token, NEW child \in Token, CommitRotation(p, s, child)
      PROVE  row'[t].family = row[t].family /\ Present(t)'
  <2>1. t # child
    BY <1>4 DEF CommitRotation, Present
  <2>2. row' = [row EXCEPT ![s] = [@ EXCEPT !.revoked = TRUE, !.reason = "rotated"],
                          ![child] = [user |-> tx[p].user, family |-> tx[p].family,
                                      revoked |-> FALSE, reason |-> "none"]]
    BY <1>4 DEF CommitRotation
  <2>3. CASE s = t
    <3>1. row'[t] = [row[t] EXCEPT !.revoked = TRUE, !.reason = "rotated"]
      BY <1>1, <2>1, <2>2, <2>3
    <3>2. row'[t] \in Row /\ row'[t].family = row[t].family
      BY <1>1, <3>1 DEF Row, Reason
    <3> QED BY <3>2, Sentinels DEF Present
  <2> QED BY <1>1, <2>1, <2>2, <2>3 DEF Present
<1>5. ASSUME NEW p \in Proc, row' = Revoked(p)
      PROVE  row'[t].family = row[t].family /\ Present(t)'
  BY <1>5, RevokedRows DEF Present
<1> QED BY <1>2, <1>3, <1>4, <1>5, RowSteps DEF vars, Present

(* A row that a transaction has locked changes only when that one commits.  *)
LEMMA LockedKept ==
  ASSUME IndInv, [Next]_vars, NEW p \in Proc, NEW t \in Token, t \in Locked(tx[p]),
         row'[t] # row[t]
  PROVE  \/ \E s, child \in Token : CommitRotation(p, s, child)
         \/ CommitRevocation(p) \/ CommitStatus(p)
<1>1. row \in [Token -> Row \cup {NoRow}] /\ Present(t)
  BY DEF IndInv, TypeOK, Knows, Locked, Tx
<1>2. \A q \in Proc \ {p} : t \notin Locked(tx[q])
  BY DEF IndInv, LocksExclusive
<1>3. ASSUME NEW q \in Proc, NEW s \in Token, CommitLogin(q, s)
      PROVE  FALSE
  BY <1>1, <1>3 DEF CommitLogin, Present
<1>4. ASSUME NEW q \in Proc, NEW s \in Token, NEW child \in Token, CommitRotation(q, s, child)
      PROVE  q = p
  BY <1>1, <1>2, <1>4 DEF CommitRotation, Present, Locked
<1>5. ASSUME NEW q \in Proc, row' = Revoked(q)
      PROVE  q = p
  BY <1>2, <1>5, RevokedRows DEF Locked
<1> QED BY <1>3, <1>4, <1>5, RowSteps DEF vars

(* A logout or a replay: what it has locked and found is of its family, a   *)
(* usable token it has locked is one that its UPDATE revokes, and of the    *)
(* family the UPDATE visits one row.                                        *)
FamilySees(x) ==
  x.op = "revoke" /\ x.family # NoFilter =>
    /\ \A t \in x.todo : Present(t) /\ row[t].family = x.family
    /\ \A t \in Locked(x) : /\ row[t].family = x.family
                            /\ x.pc \in {"scan", "update"}
                            /\ x.pc = "scan" => x.user = NoFilter
                            /\ x.pc = "update" /\ Live(t) => t \in x.todo \cup x.hits
    /\ x.lock = "none"
    /\ \A s, t \in x.todo : s = t /\ x.hits = {}

(* How a transaction comes to be a revocation of one family.                *)
LEMMA FamilySteps ==
  ASSUME IndInv, [Next]_vars, NEW p \in Proc,
         tx'[p].op = "revoke", tx'[p].family # NoFilter, tx'[p] # tx[p]
  PROVE  /\ row' = row
         /\ \/ Scan(p) \/ \E s \in Token : UpdateRow(p, s)
            \/ /\ tx'[p].pc = "scan" /\ tx'[p].todo = {}
               /\ Locked(tx'[p]) = {} \/ tx'[p].user = NoFilter
               /\ \A t \in Locked(tx'[p]) : row[t].family = tx'[p].family
               /\ tx'[p].lock = "none"
<1>1. tx \in [Proc -> Tx] /\ tx[p] \in Tx /\ Knows(tx[p])
  BY DEF IndInv, TypeOK
<1>2. Request(p) \/ Step(p) \/ RejectExpired(p) \/ Rollback(p) \/ DeadlockVictim(p)
  BY OwnTransaction DEF Next, vars
<1>3. CASE Request(p)
  <2>1. ASSUME NEW u \in User, Login(p, u) \/ ResetPassword(p, u) \/ Disable(p, u)
                                \/ Enable(p, u) \/ Delete(p, u)
        PROVE  FALSE
    BY <1>1, <2>1 DEF Start, Login, ResetPassword, Disable, Enable, Delete, Idle
  <2>2. ASSUME NEW u, NEW f, RevokeSessions(p, u, f)
        PROVE  /\ row' = row /\ tx'[p].pc = "scan" /\ tx'[p].todo = {}
               /\ Locked(tx'[p]) = {} /\ tx'[p].lock = "none"
    BY <1>1, <2>2 DEF Start, RevokeSessions, Idle, Locked
  <2>3. ASSUME NEW t, Refresh(p, t) PROVE FALSE
    BY <1>1, <2>3 DEF Start, Refresh, Idle
  <2>4. ASSUME NEW t, Replay(p, t) \/ Logout(p, t)
        PROVE  /\ row' = row /\ tx'[p].pc = "scan" /\ tx'[p].todo = {}
               /\ tx'[p].user = NoFilter /\ Locked(tx'[p]) = {t}
               /\ tx'[p].family = row[t].family /\ tx'[p].lock = "none"
    <3>1. PICK r : tx'[p] = [Idle EXCEPT !.pc = "scan", !.op = "revoke", !.held = {t},
                                        !.family = row[t].family, !.reason = r]
      BY <1>1, <2>4 DEF Start, Replay, Logout
    <3>2. row' = row
      BY <2>4 DEF Replay, Logout
    <3> QED BY <3>1, <3>2 DEF Idle, Locked
  <2> QED BY <1>3, <2>1, <2>2, <2>3, <2>4 DEF Request
<1>4. CASE \/ RejectLogin(p) \/ (\E t \in Token : CommitLogin(p, t))
           \/ (\E t, child \in Token : CommitRotation(p, t, child))
           \/ CommitRevocation(p) \/ CommitStatus(p) \/ CommitDelete(p) \/ RejectFlush(p)
           \/ RejectExpired(p) \/ Rollback(p) \/ DeadlockVictim(p)
  BY <1>4, EndingSteps DEF Idle
<1>5. CASE LockUser(p) \/ FlushChild(p) \/ FlushUser(p)
  <2>1. tx'[p].op = tx[p].op
    BY <1>1, <1>5 DEF LockUser, FlushChild, FlushUser, Tx
  <2> QED BY <1>1, <1>5, <2>1 DEF LockUser, FlushChild, FlushUser, Wants, Knows
<1>6. CASE ReadUser(p)
  <2>1. tx'[p] = IF account[tx[p].user] = "active" THEN [tx[p] EXCEPT !.pc = "flush"]
                 ELSE [tx[p] EXCEPT !.pc = "scan", !.op = "revoke", !.family = NoFilter,
                                    !.reason = "account_disabled"]
    BY <1>1, <1>6 DEF ReadUser
  <2>2. tx[p].op = "refresh"
    BY <1>1, <1>6 DEF ReadUser, Knows
  <2> QED BY <1>1, <2>1, <2>2 DEF Tx
<1>7. CASE Scan(p) \/ \E s \in Token : UpdateRow(p, s)
  BY <1>7 DEF Scan, UpdateRow
<1> QED BY <1>2, <1>3, <1>4, <1>5, <1>6, <1>7 DEF Step

LEMMA FamilySeen ==
  ASSUME IndInv, [Next]_vars, NEW p \in Proc, FamilySees(tx[p])
  PROVE  FamilySees(tx[p])'
<1>1. tx \in [Proc -> Tx] /\ tx[p] \in Tx /\ Knows(tx[p])
  BY DEF IndInv, TypeOK
<1> SUFFICES ASSUME tx'[p].op = "revoke", tx'[p].family # NoFilter
             PROVE  /\ \A t \in tx'[p].todo : Present(t)' /\ row'[t].family = tx'[p].family
                    /\ \A t \in Locked(tx'[p]) :
                         /\ row'[t].family = tx'[p].family
                         /\ tx'[p].pc \in {"scan", "update"}
                         /\ tx'[p].pc = "scan" => tx'[p].user = NoFilter
                         /\ tx'[p].pc = "update" /\ Live(t)' => t \in tx'[p].todo \cup tx'[p].hits
                    /\ tx'[p].lock = "none"
                    /\ \A s, t \in tx'[p].todo : s = t /\ tx'[p].hits = {}
  BY DEF FamilySees, Locked
<1>2. CASE tx'[p] = tx[p]
  <2>1. \A t \in tx[p].todo : t \in Token /\ Present(t) /\ row[t].family = tx[p].family
    BY <1>1, <1>2 DEF FamilySees, Tx
  <2>2. \A t \in Locked(tx[p]) : t \in Token /\ Present(t) /\ row[t].family = tx[p].family
    BY <1>1, <1>2 DEF FamilySees, Knows, Tx, Locked
  <2>3. ASSUME NEW t \in Locked(tx[p]), Live(t)' PROVE Live(t)
    BY <2>2, <2>3, LiveUnchanged DEF Live, Present
  <2> QED BY <1>2, <2>1, <2>2, <2>3, FamilyKept DEF FamilySees
<1>3. CASE tx'[p] # tx[p]
  <2>1. row' = row
    BY <1>3, FamilySteps
  <2>2. CASE Scan(p)
    <3>1. tx'[p] = [tx[p] EXCEPT !.pc = "update", !.todo = Scope(p)] /\ tx[p].pc = "scan"
      BY <1>1, <2>2 DEF Scan
    <3>2. /\ tx'[p].op = tx[p].op /\ tx'[p].family = tx[p].family /\ tx'[p].pc = "update"
          /\ tx'[p].held = tx[p].held /\ tx'[p].todo = Scope(p) /\ tx'[p].hits = tx[p].hits
          /\ tx[p].hits = {} /\ tx'[p].lock = tx[p].lock
      BY <1>1, <3>1 DEF Tx, Knows
    <3>6. Locked(tx'[p]) = Locked(tx[p])
      BY <3>2 DEF Locked
    <3>7. \A s, t \in Scope(p) : s = t
      BY <3>2, Sentinels DEF Scope, IndInv, OneLivePerFamily
    <3>3. \A t \in Locked(tx[p]) : /\ t \in Token /\ row[t].family = tx[p].family
                                /\ tx[p].user = NoFilter
      BY <1>1, <3>1, <3>2 DEF FamilySees, Tx, Locked
    <3>4. \A t \in Scope(p) : Present(t) /\ row[t].family = tx[p].family
      BY <3>2 DEF Scope, Live
    <3>5. \A t \in Locked(tx[p]) : Live(t) => t \in Scope(p)
      BY <3>3 DEF Scope
    <3>8. tx[p].lock = "none"
      BY <3>2 DEF FamilySees
    <3> QED BY <2>1, <3>2, <3>3, <3>4, <3>5, <3>6, <3>7, <3>8 DEF Present, Live
  <2>3. ASSUME NEW s \in Token, UpdateRow(p, s)
        PROVE  /\ \A t \in tx'[p].todo : Present(t)' /\ row'[t].family = tx'[p].family
               /\ \A t \in Locked(tx'[p]) :
                    /\ row'[t].family = tx'[p].family
                    /\ tx'[p].pc = "update"
                    /\ Live(t)' => t \in tx'[p].todo \cup tx'[p].hits
               /\ tx'[p].lock = "none" /\ tx'[p].todo = {}
    <3>1. /\ tx'[p] = [tx[p] EXCEPT !.todo = @ \ {s}, !.hits = @ \cup {s}]
          /\ tx[p].pc = "update" /\ s \in tx[p].todo
      BY <1>1, <2>3 DEF UpdateRow
    <3>2. /\ tx'[p].op = tx[p].op /\ tx'[p].family = tx[p].family /\ tx'[p].pc = "update"
          /\ tx'[p].todo = tx[p].todo \ {s} /\ tx'[p].lock = tx[p].lock
          /\ tx'[p].held = tx[p].held /\ tx'[p].hits = tx[p].hits \cup {s}
      BY <1>1, <3>1 DEF Tx
    <3>3. /\ \A t \in tx[p].todo : Present(t) /\ row[t].family = tx[p].family
          /\ \A t \in Locked(tx[p]) : /\ row[t].family = tx[p].family
                                      /\ Live(t) => t \in tx[p].todo \cup tx[p].hits
          /\ tx[p].lock = "none" /\ \A t \in tx[p].todo : s = t
      BY <3>1, <3>2 DEF FamilySees
    <3>4. Locked(tx'[p]) = Locked(tx[p]) \cup {s}
      BY <3>2 DEF Locked
    <3> QED BY <2>1, <3>1, <3>2, <3>3, <3>4 DEF Present, Live
  <2>4. CASE /\ tx'[p].pc = "scan" /\ tx'[p].todo = {}
             /\ Locked(tx'[p]) = {} \/ tx'[p].user = NoFilter
             /\ \A t \in Locked(tx'[p]) : row[t].family = tx'[p].family
             /\ tx'[p].lock = "none"
    BY <2>1, <2>4
  <2> QED BY <1>3, <2>2, <2>3, <2>4, FamilySteps
<1> QED BY <1>2, <1>3

Seen == \A p \in Proc : FamilySees(tx[p])

LEMMA EverySeen == Spec => []Seen
<1>1. Init => Seen
  BY DEF Init, Idle, FamilySees, Locked, Seen
<1>2. IndInv /\ Seen /\ [Next]_vars => Seen'
  BY FamilySeen DEF FamilySees, Locked, Seen
<1> QED BY <1>1, <1>2, Invariance, PTL DEF Spec

(* A logout or a replay with the usable token in hand closes the family.    *)
THEOREM CurrentCloses == Spec => CurrentTokenCloses
<1>1. ASSUME IndInv, Seen, NEW p \in Proc, NEW t \in Token, CommitRevocation(p),
             tx[p].op = "revoke", tx[p].family # NoFilter, t \in Locked(tx[p]), Live(t),
             NEW s \in Token, Present(s), row[s].family = tx[p].family
      PROVE  row'[s].revoked
  <2>1. row' = Revoked(p) /\ tx[p].pc = "update" /\ tx[p].todo = {}
    BY <1>1 DEF CommitRevocation
  <2>2. t \in tx[p].hits /\ row[t].family = tx[p].family
    BY <1>1, <2>1 DEF FamilySees, Seen
  <2>3. CASE Live(s)
    <3>1. s = t
      BY <1>1, <2>2, <2>3 DEF IndInv, OneLivePerFamily
    <3> QED BY <1>1, <2>1, <2>2, <3>1, RevokedRows
  <2>4. CASE ~Live(s)
    BY <1>1, <2>1, <2>4, RevokedRows DEF Live
  <2> QED BY <2>3, <2>4
<1>2. ASSUME IndInv, [Next]_vars, NEW p \in Proc, NEW t \in Token, ~CommitRevocation(p),
             tx[p].op = "revoke", t \in Locked(tx[p])
      PROVE  row'[t] = row[t]
  <2>1. \A s, child \in Token : ~CommitRotation(p, s, child)
    BY <1>2 DEF CommitRotation
  <2>2. ~CommitStatus(p)
    BY <1>2 DEF CommitStatus
  <2> QED BY <1>2, <2>1, <2>2, LockedKept
<1>3. IndInv /\ Seen /\ [Next]_vars =>
        [\A p \in Proc, t \in Token :
           tx[p].op = "revoke" /\ tx[p].family # NoFilter /\ t \in Locked(tx[p]) /\ Live(t) =>
             IF CommitRevocation(p)
             THEN \A s \in Token : Present(s) /\ row[s].family = tx[p].family => row'[s].revoked
             ELSE row'[t] = row[t]]_vars
  BY <1>1, <1>2
<1> QED BY <1>3, Invariance, EverySeen, PTL DEF Spec, CurrentTokenCloses

-----------------------------------------------------------------------------
(* Waiting.  A request with a lock on the account and nothing but its own   *)
(* family to do has no further lock to wait for; so two of them in a row    *)
(* wait for token rows.                                                     *)
WaitsByRows ==
  \A p, q, r \in Proc : Narrow(p) /\ Narrow(q) /\ WaitsFor(p, q) /\ WaitsFor(q, r) =>
    /\ tx[p].op = "revoke" /\ tx[p].family # NoFilter /\ tx[p].pc = "update"
    /\ q # p /\ \E t \in tx[p].todo : t \in Locked(tx[q])

LEMMA NarrowWaits == IndInv /\ Seen => WaitsByRows
<1> SUFFICES ASSUME IndInv, Seen, NEW p \in Proc, NEW q \in Proc, NEW r \in Proc,
                    Narrow(p), Narrow(q), WaitsFor(p, q), WaitsFor(q, r)
             PROVE  /\ tx[p].op = "revoke" /\ tx[p].family # NoFilter /\ tx[p].pc = "update"
                    /\ q # p /\ \E t \in tx[p].todo : t \in Locked(tx[q])
  BY DEF WaitsByRows
<1>1. Knows(tx[p]) /\ Knows(tx[q]) /\ tx[q] \in Tx
  BY DEF IndInv, TypeOK
<1>2. CASE tx[q].user = tx[p].user /\ Conflict(Wants(p), tx[q].lock)
  <2>1. tx[q].lock # "none"
    BY <1>2 DEF Conflict
  <2>2. tx[q].op # "revoke"
    BY <2>1 DEF Narrow, Seen, FamilySees
  <2>5. tx[q].op \in {"login", "refresh", "enable"}
    BY <2>2 DEF Narrow
  <2>6. tx[q].pc \notin {"idle", "lockUser", "readUser", "flush", "scan", "update"}
    BY <1>1, <2>1, <2>5 DEF Knows, Idle
  <2>3. tx[q].pc = "commit"
    BY <1>1, <2>6 DEF Tx
  <2>4. Wants(q) = "none"
    BY <2>3 DEF Wants
  <2> QED BY <2>2, <2>3, <2>4 DEF WaitsFor, Narrow, Conflict
<1>3. CASE ~(tx[q].user = tx[p].user /\ Conflict(Wants(p), tx[q].lock))
  <2>1. q # p /\ tx[p].pc = "update" /\ \E t \in tx[p].todo : t \in Locked(tx[q])
    BY <1>3 DEF WaitsFor, Narrow
  <2> QED BY <1>1, <2>1 DEF Narrow, Knows
<1> QED BY <1>2, <1>3

(* No step closes a circle: of the requests in it one has just begun its    *)
(* UPDATE, which found a usable row.  The request that holds this row has   *)
(* no other one to visit, so it waits for nobody.                           *)
LEMMA NoCircleCloses ==
  IndInv /\ Seen /\ (IndInv /\ Seen /\ WaitsByRows)' /\ [Next]_vars /\ DeadlockMeansAccount
    => DeadlockMeansAccount'
<1> SUFFICES ASSUME IndInv, Seen, IndInv', Seen', WaitsByRows', [Next]_vars, DeadlockMeansAccount,
                    NEW S \in SUBSET Proc, S # {}, \A p \in S : Narrow(p)',
                    NEW next \in [S -> S],
                    \A q \in S : WaitsFor(q, next[q])' /\ \A r \in S \ {q} : next[q] # next[r]
             PROVE  FALSE
  BY DEF DeadlockMeansAccount, Cycle
<1>1. CASE \A q \in S : tx'[q] = tx[q]
  <2>1. \A q \in S : Narrow(q)
    BY <1>1 DEF Narrow
  <2>2. ASSUME NEW q \in S PROVE WaitsFor(q, next[q])
    <3>1. tx'[q] = tx[q] /\ tx'[next[q]] = tx[next[q]] /\ WaitsFor(q, next[q])'
      BY <1>1
    <3> QED BY <3>1 DEF WaitsFor, Wants
  <2>3. Cycle(S)
    BY <2>2 DEF Cycle
  <2> QED BY <2>1, <2>3 DEF DeadlockMeansAccount
<1>2. ASSUME NEW p \in S, tx'[p] # tx[p] PROVE FALSE
  <2>1. ASSUME NEW q \in S
        PROVE  /\ tx'[q].op = "revoke" /\ tx'[q].family # NoFilter /\ tx'[q].pc = "update"
               /\ next[q] # q /\ \E t \in tx'[q].todo : t \in Locked(tx'[next[q]])
    <3> DEFINE r == next[q]
    <3>1. q \in Proc /\ r \in S /\ r \in Proc /\ next[r] \in Proc
      OBVIOUS
    <3>2. WaitsFor(q, r)' /\ WaitsFor(r, next[r])' /\ Narrow(q)' /\ Narrow(r)'
      BY <3>1
    <3> HIDE DEF r
    <3>3. /\ tx'[q].op = "revoke" /\ tx'[q].family # NoFilter /\ tx'[q].pc = "update"
          /\ r # q /\ \E t \in tx'[q].todo : t \in Locked(tx'[r])
      BY <3>1, <3>2 DEF WaitsByRows
    <3> QED BY <3>3 DEF r
  <2>2. PICK t \in tx'[p].todo : t \in Locked(tx'[next[p]])
    BY <2>1
  <2>3. row' = row /\ (Scan(p) \/ \E s \in Token : UpdateRow(p, s))
    BY <1>2, <2>1, FamilySteps
  <2>4. tx \in [Proc -> Tx] /\ tx[p] \in Tx
    BY DEF IndInv, TypeOK
  <2>5. ASSUME NEW s \in Token, UpdateRow(p, s) PROVE FALSE
    <3>1. /\ tx'[p].todo = tx[p].todo \ {s} /\ s \in tx[p].todo
          /\ tx'[p].op = tx[p].op /\ tx'[p].family = tx[p].family
      BY <2>4, <2>5 DEF UpdateRow, Tx
    <3>2. \A u \in tx[p].todo : u = s
      BY <2>1, <3>1 DEF Seen, FamilySees
    <3> QED BY <2>2, <3>1, <3>2
  <2>6. CASE Scan(p)
    <3> DEFINE q == next[p]
    <3>1. q \in S /\ q \in Proc /\ q # p /\ next[q] # q /\ next[q] \in Proc
      BY <2>1
    <3>2. tx'[p].todo = Scope(p)
      BY <2>4, <2>6 DEF Scan, Tx
    <3>3. Live(t)' /\ t \in Locked(tx'[q])
      BY <2>2, <2>3, <3>2 DEF Scope, Live, Present
    <3>4. PICK b \in tx'[q].todo : b \in Locked(tx'[next[q]])
      BY <2>1, <3>1
    <3>5. tx'[q].op = "revoke" /\ tx'[q].family # NoFilter /\ tx'[q].pc = "update"
      BY <2>1, <3>1
    <3> HIDE DEF q
    <3>6. t \in tx'[q].todo \cup tx'[q].hits /\ \A s, u \in tx'[q].todo : s = u /\ tx'[q].hits = {}
      BY <3>1, <3>3, <3>5 DEF Seen, FamilySees
    <3>7. t = b
      BY <3>4, <3>6
    <3>8. Locked(tx'[q]) \cap Locked(tx'[next[q]]) = {}
      BY <3>1 DEF IndInv, LocksExclusive
    <3> QED BY <3>3, <3>4, <3>7, <3>8
  <2> QED BY <2>3, <2>5, <2>6
<1> QED BY <1>1, <1>2

(* Whoever signs in, rotates, replays or ends one family never takes part   *)
(* in a deadlock with others that do the same.                              *)
THEOREM DeadlocksAreWide == Spec => []DeadlockMeansAccount
<1>1. Init => DeadlockMeansAccount
  BY DEF Init, Idle, DeadlockMeansAccount, Narrow
<1> QED BY <1>1, NoCircleCloses, NarrowWaits, Invariance, EverySeen, PTL DEF Spec

-----------------------------------------------------------------------------
(* The families behind the tables.                                          *)
LEMMA OneUsable ==
  ASSUME IndInv, NEW f \in Token, NEW t \in Usable(f)
  PROVE  Usable(f) = {t}
BY DEF IndInv, OneLivePerFamily, Usable, Family, Live

LEMMA OnlyMember == \A t : Only({t}) = t
BY DEF Only

LEMMA LoginOpens ==
  ASSUME IndInv, NEW p \in Proc, NEW t \in Token, CommitLogin(p, t)
  PROVE  Families!Open(t)
<1> DEFINE new == [user |-> tx[p].user, family |-> t, revoked |-> FALSE, reason |-> "none"]
<1>1. row' = [row EXCEPT ![t] = new] /\ row[t] = NoRow
  BY DEF CommitLogin, Present
<1>2. row \in [Token -> Row \cup {NoRow}] /\ FamilyRoots /\ tx[p].user \in User
  BY DEF IndInv, TypeOK, CommitLogin, Knows
<1>3. new \in Row /\ new # NoRow /\ new.family = t /\ ~new.revoked
  <2>1. new \in Row
    BY <1>2 DEF Row
  <2> QED BY <2>1, Sentinels
<1> HIDE DEF new
<1>4. \A s \in Token : row'[s] = IF s = t THEN new ELSE row[s]
  BY <1>1, <1>2
<1>5. Family(t) = {} /\ Family(t)' = {t} /\ Usable(t)' = {t}
  <2>1. \A s \in Token : row[s] # NoRow => row[s].family # t
    BY <1>1, <1>2 DEF FamilyRoots, Present
  <2> QED BY <1>1, <1>3, <1>4, <2>1 DEF Family, Usable, Present
<1>6. ASSUME NEW f \in Token, f # t PROVE Family(f)' = Family(f) /\ Usable(f)' = Usable(f)
  BY <1>1, <1>3, <1>4, <1>6 DEF Family, Usable, Present
<1>7. Life[t] = "none" /\ Life' = [Life EXCEPT ![t] = "open"]
  BY <1>5, <1>6 DEF Life
<1>8. Current' = [Current EXCEPT ![t] = t]
  <2>1. \A f \in Token : Current'[f] = IF f = t THEN t ELSE Current[f]
    BY <1>5, <1>6, OnlyMember DEF Current
  <2> QED BY <2>1 DEF Current
<1>9. t \notin Issued /\ Issued' = Issued \cup {t}
  BY <1>1, <1>3, <1>4 DEF Issued, Present
<1> QED BY <1>7, <1>8, <1>9 DEF Families!Open

LEMMA RotationRotates ==
  ASSUME IndInv, NEW p \in Proc, NEW t \in Token, NEW child \in Token,
         CommitRotation(p, t, child)
  PROVE  \E f \in Token : Families!Rotate(f, child)
<1> PICK g \in Token : g = tx[p].family
  BY DEF CommitRotation, IndInv, TypeOK, Knows, Live, Present, Locked, Owned, Row
<1> PICK u \in User : u = tx[p].user
  BY DEF CommitRotation, IndInv, TypeOK, Knows, Live, Present, Locked, Owned, Row
<1> DEFINE new == [user |-> u, family |-> g, revoked |-> FALSE, reason |-> "none"]
           old == [row[t] EXCEPT !.revoked = TRUE, !.reason = "rotated"]
<1>1. row' = [row EXCEPT ![t] = old, ![child] = new] /\ row[child] = NoRow
  BY DEF CommitRotation, Present
<1>2. row \in [Token -> Row \cup {NoRow}] /\ Live(t) /\ row[t].family = g /\ row[t].user = u
  BY DEF IndInv, TypeOK, CommitRotation, Knows
<1>3. row[t] \in Row /\ t # child
  BY <1>1, <1>2 DEF Live, Present, Row
<1>4. new # NoRow /\ new.family = g /\ ~new.revoked
  <2>1. new \in Row
    BY <1>3 DEF Row
  <2> QED BY <2>1, Sentinels
<1>5. old # NoRow /\ old.family = g /\ old.revoked
  <2>1. old \in Row
    BY <1>3 DEF Row, Reason
  <2> QED BY <1>2, <1>3, <2>1, Sentinels DEF Row
<1>6. Usable(g) = {t}
  BY <1>2, <1>3, OneUsable DEF Usable, Family, Live
<1> HIDE DEF new, old
<1>7. \A s \in Token : row'[s] = IF s = child THEN new ELSE IF s = t THEN old ELSE row[s]
  BY <1>1, <1>2, <1>3
<1>8. t \in Family(g) /\ child \in Family(g)' /\ Usable(g)' = {child}
  <2>1. t \in Family(g) /\ child \in Family(g)'
    BY <1>2, <1>4, <1>7 DEF Family, Present, Live
  <2>2. ASSUME NEW s \in Token PROVE s \in Usable(g)' <=> s = child
    <3>1. CASE s = child
      BY <1>4, <1>7, <3>1 DEF Family, Usable, Present
    <3>2. CASE s = t
      BY <1>3, <1>5, <1>7, <3>2 DEF Family, Usable, Present
    <3>3. CASE s # child /\ s # t
      BY <1>6, <1>7, <3>3 DEF Family, Usable, Present
    <3> QED BY <3>1, <3>2, <3>3
  <2>3. Usable(g)' \subseteq Token
    BY DEF Usable, Family
  <2> QED BY <2>1, <2>2, <2>3
<1>9. ASSUME NEW f \in Token, f # g PROVE Family(f)' = Family(f) /\ Usable(f)' = Usable(f)
  BY <1>1, <1>2, <1>4, <1>5, <1>7, <1>9 DEF Family, Usable, Present, Live
<1>10. Life[g] = "open" /\ Life' = Life
  BY <1>3, <1>6, <1>8, <1>9 DEF Life
<1>11. Current' = [Current EXCEPT ![g] = child]
  <2>1. \A f \in Token : Current'[f] = IF f = g THEN child ELSE Current[f]
    BY <1>8, <1>9, OnlyMember DEF Current
  <2> QED BY <2>1 DEF Current
<1>12. child \notin Issued /\ Issued' = Issued \cup {child}
  BY <1>1, <1>2, <1>4, <1>5, <1>7 DEF Issued, Present, Live
<1> QED BY <1>3, <1>10, <1>11, <1>12 DEF Families!Rotate

LEMMA RevocationCloses ==
  ASSUME IndInv, NEW p \in Proc, row' = Revoked(p)
  PROVE  \E S \in SUBSET Token : Families!Close(S)
<1> DEFINE S == {f \in Token : Usable(f) # {} /\ Usable(f)' = {}}
<1>1. ASSUME NEW f \in Token PROVE Family(f)' = Family(f) /\ Usable(f)' \subseteq Usable(f)
  BY RevokedRows DEF Family, Usable, Present, Live
<1>2. ASSUME NEW f \in Token, f \notin S PROVE Usable(f)' = Usable(f)
  <2>1. CASE Usable(f) = {}
    BY <1>1, <2>1
  <2>2. CASE Usable(f) # {}
    <3>1. PICK t \in Usable(f)' : TRUE
      BY <1>2, <2>2
    <3> QED BY <1>1, <3>1, OneUsable
  <2> QED BY <2>1, <2>2
<1>3. ASSUME NEW f \in Token, f \in S
      PROVE  Life[f] = "open" /\ Life'[f] = "closed" /\ Current'[f] = NoRow
  BY <1>1, <1>3 DEF Life, Current, Usable
<1>4. ASSUME NEW f \in Token, f \notin S PROVE Life'[f] = Life[f] /\ Current'[f] = Current[f]
  BY <1>1, <1>2, <1>4 DEF Life, Current
<1>5. Issued' = Issued
  BY RevokedRows DEF Issued, Present, Live
<1>6. S \in SUBSET Token
  OBVIOUS
<1> HIDE DEF S
<1>7. Families!Close(S)
  BY <1>3, <1>4, <1>5, <1>6 DEF Families!Close, Life, Current
<1> QED BY <1>6, <1>7

(* Requests on the tables are rotations of families that never reopen.      *)
THEOREM FamiliesImplemented == Spec => ImplementsFamilies
<1>1. Init => Families!Init
  BY DEF Init, Families!Init, Life, Current, Issued, Family, Usable, Present
<1>2. IndInv /\ [Next]_vars => [Families!Next]_(Families!vars)
  <2> SUFFICES ASSUME IndInv, [Next]_vars PROVE [Families!Next]_(Families!vars)
    OBVIOUS
  <2>1. CASE row' = row
    BY <2>1 DEF Families!vars, Life, Current, Issued, Family, Usable, Present
  <2>2. CASE Next /\ row' # row
    BY <2>2, RowSteps, LoginOpens, RotationRotates, RevocationCloses DEF Families!Next
  <2> QED BY <2>1, <2>2 DEF vars
<1> QED BY <1>1, <1>2, Invariance, PTL DEF Spec, ImplementsFamilies, Families!Spec
=============================================================================
