------------------------ MODULE OutboxWorkersProofs ------------------------
(***************************************************************************)
(* Proofs about OutboxWorkers, for any messages, worker processes and      *)
(* settings.  IndInv says what a worker's memory has to do with the table; *)
(* a step writes either the rows (a claim, a finalisation) or one worker's *)
(* memory, and the lemmas below take the steps in that order.              *)
(***************************************************************************)
EXTENDS OutboxWorkers, TLAPS

LEMMA InitIndInv == Init => IndInv
<1> SUFFICES ASSUME Init PROVE IndInv
  OBVIOUS
<1> USE Sentinels
<1>1. TypeOK
  <2>1. NoRow \in Row
    BY DEF NoRow, Row
  <2> QED BY <2>1 DEF Init, TypeOK, NoRow
<1>2. \A w \in Worker, m \in Msg : ~Holds(w, m)
  BY DEF Init, Holds
<1>3. ClaimsDisjoint /\ CopiesOld /\ Memory /\ Delivered
  BY <1>2 DEF Init, ClaimsDisjoint, CopiesOld, Memory, Delivered, NoRow
<1>4. OneWorkerPerAttempt /\ OwnerIsCurrent /\ PendingHasAttemptsLeft
  BY <1>2 DEF Init, OneWorkerPerAttempt, OwnerIsCurrent, PendingHasAttemptsLeft, NoRow
<1> QED BY <1>1, <1>3, <1>4 DEF IndInv

-----------------------------------------------------------------------------
(* What a step may do to a row that it does not claim or finalise.          *)
SameRow(m) == /\ row'[m].status = row[m].status /\ row'[m].owner = row[m].owner
              /\ row'[m].attempts = row[m].attempts
              /\ row[m].available = 0 => row'[m].available = 0
              /\ row[m].lease = 0 => row'[m].lease = 0

(* The worker w lets go of some claims and changes nothing else that the    *)
(* invariant speaks of.                                                     *)
Quiet(w) ==
  /\ \A m \in Msg : SameRow(m)
  /\ mailbox \subseteq mailbox' /\ \A m \in mailbox' \ mailbox : row[m].status # "none"
  /\ \A v \in Worker \ {w} : /\ pc'[v] = pc[v] /\ batch'[v] = batch[v]
                             /\ current'[v] = current[v] /\ attempt'[v] = attempt[v]
  /\ pc'[w] # "claiming"
  /\ \A m \in Msg : Holds(w, m)' => Holds(w, m) /\ attempt'[w][m] = attempt[w][m]
  /\ pc'[w] \in {"sending", "accepted", "failed", "rejected"} <=> current'[w] # NoMsg
  /\ current'[w] \notin batch'[w]
  /\ pc'[w] = "accepted" => current'[w] \in mailbox'

LEMMA QuietStep ==
  ASSUME IndInv, TypeOK', NEW w \in Worker, Quiet(w)
  PROVE  IndInv'
<1> USE DEF IndInv
<1>1. \A v \in Worker, m \in Msg :
        Holds(v, m)' => Holds(v, m) /\ attempt'[v][m] = attempt[v][m]
  BY DEF Quiet, Holds
<1>2. \A v \in Worker : pc'[v] = "claiming" => pc[v] = "claiming" /\ batch'[v] = batch[v]
  BY DEF Quiet
<1>3. \A m \in Msg : SameRow(m)
  BY DEF Quiet
<1>4. ClaimsDisjoint'
  BY <1>2, <1>3 DEF ClaimsDisjoint, Due, Locked, SameRow, TypeOK
<1>5. CopiesOld' /\ OneWorkerPerAttempt' /\ OwnerIsCurrent'
  BY <1>1, <1>3 DEF CopiesOld, OneWorkerPerAttempt, OwnerIsCurrent, SameRow
<1>6. PendingHasAttemptsLeft'
  BY <1>3 DEF PendingHasAttemptsLeft, SameRow
<1>7. Delivered'
  <2>1. mailbox \subseteq mailbox' /\ \A m \in mailbox' \ mailbox : row[m].status # "none"
    BY DEF Quiet
  <2> QED BY <1>3, <2>1 DEF Delivered, SameRow
<1>8. Memory'
  BY DEF Memory, Quiet
<1> QED BY <1>4, <1>5, <1>6, <1>7, <1>8

(* A finished message is held no longer, and the copies of the others stay. *)
LEMMA FinishForgets ==
  ASSUME TypeOK, Memory, NEW w \in Worker, Finish(w), current[w] # NoMsg
  PROVE  /\ pc' = [pc EXCEPT ![w] = "ready"] /\ current' = [current EXCEPT ![w] = NoMsg]
         /\ attempt' \in [Worker -> [Msg -> Nat]]
         /\ \A v \in Worker \ {w} : attempt'[v] = attempt[v]
         /\ \A m \in Msg : m # current[w] => attempt'[w][m] = attempt[w][m]
         /\ \A v \in Worker, m \in Msg :
              Holds(v, m)' => Holds(v, m) /\ attempt'[v][m] = attempt[v][m]
<1>1. /\ attempt' = [attempt EXCEPT ![w] = [attempt[w] EXCEPT ![current[w]] = 0]]
      /\ pc' = [pc EXCEPT ![w] = "ready"] /\ current' = [current EXCEPT ![w] = NoMsg]
      /\ batch' = batch
  BY DEF Finish
<1>2. /\ attempt \in [Worker -> [Msg -> Nat]] /\ pc[w] # "claiming"
      /\ current \in [Worker -> Msg \cup {NoMsg}] /\ current[w] \notin batch[w]
      /\ pc \in [Worker -> {"ready", "claiming", "sending", "accepted", "failed",
                            "rejected", "gone"}]
  BY DEF TypeOK, Memory
<1>3. attempt' \in [Worker -> [Msg -> Nat]]
  BY <1>1, <1>2
<1>4. /\ \A v \in Worker \ {w} : attempt'[v] = attempt[v]
      /\ \A m \in Msg : m # current[w] => attempt'[w][m] = attempt[w][m]
  BY <1>1, <1>2
<1>5. ASSUME NEW m \in Msg, m = current[w] PROVE ~Holds(w, m)'
  BY <1>1, <1>2, <1>5, Sentinels DEF Holds
<1>6. ASSUME NEW v \in Worker, NEW m \in Msg, Holds(v, m)'
      PROVE  Holds(v, m) /\ attempt'[v][m] = attempt[v][m]
  <2>1. CASE v = w
    BY <1>1, <1>2, <1>4, <1>5, <1>6, <2>1, Sentinels DEF Holds
  <2>2. CASE v # w
    BY <1>1, <1>2, <1>4, <1>6, <2>2 DEF Holds
  <2> QED BY <2>1, <2>2
<1> QED BY <1>1, <1>3, <1>4, <1>6

(* One worker takes a message further, forgets some, or ends.               *)
LEMMA MemoryStep ==
  ASSUME IndInv, NEW w \in Worker,
         (\E m \in Msg : Process(w, m)) \/ Accept(w) \/ SendFails(w) \/ StaleOwner(w)
           \/ LoopFails(w) \/ Exit(w)
  PROVE  IndInv'
<1> USE Sentinels
<1>1. \A m \in Msg : SameRow(m)
  BY DEF SameRow, Process, Accept, SendFails, StaleOwner, LoopFails, Exit
<1>2. TypeOK /\ Memory
  BY DEF IndInv
<1>3. ASSUME NEW m \in Msg, Process(w, m) PROVE IndInv'
  <2>1. TypeOK'
    BY <1>2, <1>3 DEF TypeOK, Process
  <2>2. Quiet(w)
    BY <1>1, <1>2, <1>3 DEF Quiet, TypeOK, Memory, Process, Holds
  <2> QED BY <2>1, <2>2, QuietStep
<1>4. ASSUME Accept(w) \/ SendFails(w) PROVE IndInv'
  <2>1. current[w] \in Msg /\ row[current[w]].status # "none"
    BY <1>2, <1>4 DEF TypeOK, Memory, Accept, SendFails, IndInv, CopiesOld, Holds
  <2>2. mailbox' \in {mailbox, mailbox \cup {current[w]}}
    BY <1>4 DEF Accept, SendFails
  <2>3. TypeOK'
    BY <1>2, <1>4, <2>1 DEF TypeOK, Accept, SendFails
  <2>4. Quiet(w)
    BY <1>1, <1>2, <1>4, <2>1, <2>2 DEF Quiet, TypeOK, Memory, Accept, SendFails, Holds
  <2> QED BY <2>3, <2>4, QuietStep
<1>5. ASSUME StaleOwner(w) PROVE IndInv'
  <2>1. TypeOK'
    BY <1>2, <1>5 DEF TypeOK, StaleOwner, Finish
  <2>2. Finish(w) /\ current[w] # NoMsg /\ mailbox' = mailbox /\ batch' = batch
    BY <1>2, <1>5 DEF StaleOwner, Finish, Memory
  <2>3. Quiet(w)
    BY <1>1, <1>2, <2>2, FinishForgets DEF Quiet, TypeOK
  <2> QED BY <2>1, <2>3, QuietStep
<1>6. ASSUME LoopFails(w) \/ Exit(w) PROVE IndInv'
  <2>1. TypeOK'
    <3>1. [m \in Msg |-> 0] \in [Msg -> Nat]
      OBVIOUS
    <3>6. /\ pc' \in {[pc EXCEPT ![w] = "ready"], [pc EXCEPT ![w] = "gone"]}
          /\ batch' = [batch EXCEPT ![w] = {}] /\ current' = [current EXCEPT ![w] = NoMsg]
          /\ term' = [term EXCEPT ![w] = 0]
          /\ UNCHANGED <<row, mailbox, stopping>>
      BY <1>6 DEF LoopFails, Exit
    <3>2. /\ UNCHANGED <<row, mailbox, stopping>>
          /\ pc' \in [Worker -> {"ready", "claiming", "sending", "accepted", "failed",
                                 "rejected", "gone"}]
          /\ batch' \in [Worker -> SUBSET Msg] /\ current' \in [Worker -> Msg \cup {NoMsg}]
          /\ term' \in [Worker -> Nat]
      BY <1>2, <3>6 DEF TypeOK
    <3>5. faults' \in Nat
      BY <1>2, <1>6 DEF TypeOK, LoopFails, Exit
    <3>3. attempt' = [attempt EXCEPT ![w] = [m \in Msg |-> 0]]
      BY <1>6 DEF LoopFails, Exit
    <3>4. attempt' \in [Worker -> [Msg -> Nat]]
      BY <1>2, <3>1, <3>3 DEF TypeOK
    <3> QED BY <1>2, <3>2, <3>4, <3>5 DEF TypeOK
  <2>2. Quiet(w)
    BY <1>1, <1>2, <1>6 DEF Quiet, TypeOK, Memory, LoopFails, Exit, Holds
  <2> QED BY <2>1, <2>2, QuietStep
<1> QED BY <1>3, <1>4, <1>5, <1>6

-----------------------------------------------------------------------------
(* A claim: every claimed message starts an attempt nobody has a copy of.   *)
LEMMA SelectStep ==
  ASSUME IndInv, NEW w \in Worker, NEW S \in SUBSET Msg, Select(w, S)
  PROVE  IndInv'
<1> USE DEF IndInv
<1>1. /\ pc' = [pc EXCEPT ![w] = "claiming"] /\ batch' = [batch EXCEPT ![w] = S]
      /\ UNCHANGED <<row, mailbox, current, attempt, stopping, faults>>
      /\ pc[w] = "ready" /\ \A m \in S : Due(m) /\ ~Locked(w, m)
      /\ term' = [term EXCEPT ![w] = LeaseSeconds]
  BY DEF Select
<1>2. TypeOK'
  BY <1>1, Settings DEF TypeOK
<1>3. \A v \in Worker, m \in Msg : Holds(v, m)' => Holds(v, m)
  BY <1>1 DEF Holds, TypeOK
<1>4. ClaimsDisjoint'
  BY <1>1 DEF ClaimsDisjoint, Due, Locked, TypeOK
<1>5. CopiesOld' /\ OneWorkerPerAttempt' /\ OwnerIsCurrent'
  BY <1>1, <1>3 DEF CopiesOld, OneWorkerPerAttempt, OwnerIsCurrent
<1>6. PendingHasAttemptsLeft' /\ Delivered'
  BY <1>1 DEF PendingHasAttemptsLeft, Delivered
<1>7. Memory'
  BY <1>1, Sentinels DEF Memory, TypeOK
<1> QED BY <1>2, <1>4, <1>5, <1>6, <1>7

LEMMA ClaimStep ==
  ASSUME IndInv, NEW w \in Worker, CommitClaim(w)
  PROVE  IndInv'
<1> USE DEF IndInv
<1>1. /\ pc[w] = "claiming" /\ pc' = [pc EXCEPT ![w] = "ready"] /\ current[w] = NoMsg
      /\ UNCHANGED <<mailbox, batch, current, stopping, faults>>
  BY DEF CommitClaim, Memory
<1>2. \A m \in Msg \ batch[w] : row'[m] = row[m]
  BY DEF CommitClaim
<1>3. \A m \in batch[w] :
        /\ row'[m] = [row[m] EXCEPT !.status = "processing", !.owner = w, !.lease = term[w],
                                    !.attempts = Counting(row[m].attempts)]
        /\ attempt'[w][m] = Counting(row[m].attempts)
  BY DEF CommitClaim, TypeOK
<1>4. \A v \in Worker \ {w} : attempt'[v] = attempt[v] /\ pc'[v] = pc[v]
  BY <1>1 DEF CommitClaim, TypeOK
<1>5. \A n \in Nat : Counting(n) \in Nat /\ n =< Counting(n) /\ Counting(n) > 0
                      /\ (Counting(n) < Counted => n < Counting(n))
  BY Settings DEF Counting
<1>6. \A m \in batch[w] :
        /\ row'[m].status = "processing" /\ row'[m].owner = w
        /\ row'[m].attempts = Counting(row[m].attempts) /\ row'[m] \in Row
        /\ row'[m].payload /\ row[m].status \in {"pending", "processing"}
  <2> SUFFICES ASSUME NEW m \in batch[w]
               PROVE  /\ row'[m].status = "processing" /\ row'[m].owner = w
                      /\ row'[m].attempts = Counting(row[m].attempts) /\ row'[m] \in Row
                      /\ row'[m].payload /\ row[m].status \in {"pending", "processing"}
    OBVIOUS
  <2>1. m \in Msg /\ row[m] \in Row /\ term[w] \in Nat
    BY DEF TypeOK
  <2>2. row[m].status \in {"pending", "processing"}
    BY <1>1 DEF ClaimsDisjoint, Due
  <2>3. row[m].payload
    BY <2>1, <2>2 DEF TypeOK
  <2>4. Counting(row[m].attempts) \in Nat
    BY <1>5, <2>1 DEF Row
  <2>5. row'[m] = [row[m] EXCEPT !.status = "processing", !.owner = w, !.lease = term[w],
                                 !.attempts = Counting(row[m].attempts)]
    BY <1>3
  <2>6. /\ row'[m].status = "processing" /\ row'[m].owner = w /\ row'[m].lease = term[w]
        /\ row'[m].attempts = Counting(row[m].attempts) /\ row'[m].payload = row[m].payload
    BY <2>1, <2>5 DEF Row
  <2>7. row'[m] \in Row
    BY <2>1, <2>4, <2>5 DEF Row
  <2> QED BY <2>2, <2>3, <2>6, <2>7
<1>7. TypeOK'
  <2>1. row' \in [Msg -> Row]
    BY <1>2, <1>6 DEF CommitClaim, TypeOK
  <2>2. attempt' \in [Worker -> [Msg -> Nat]]
    <3>1. [m \in Msg |-> IF m \in batch[w] THEN Counting(row[m].attempts) ELSE 0]
            \in [Msg -> Nat]
      BY <1>5 DEF TypeOK, Row
    <3> QED BY <3>1 DEF CommitClaim, TypeOK
  <2>3. \A m \in Msg : /\ row'[m].status = "processing" <=> row'[m].owner # NoWorker
                       /\ row'[m].payload <=> row'[m].status \in {"pending", "processing"}
    BY <1>2, <1>6, Sentinels DEF TypeOK
  <2>4. term' \in [Worker -> Nat]
    BY DEF CommitClaim, TypeOK
  <2> QED BY <1>1, <2>1, <2>2, <2>3, <2>4 DEF TypeOK
<1>8. \A v \in Worker, m \in Msg :
        Holds(v, m)' =>
          \/ v = w /\ m \in batch[w]
          \/ v # w /\ Holds(v, m) /\ attempt'[v][m] = attempt[v][m]
  <2> SUFFICES ASSUME NEW v \in Worker, NEW m \in Msg, Holds(v, m)'
               PROVE  \/ v = w /\ m \in batch[w]
                      \/ v # w /\ Holds(v, m) /\ attempt'[v][m] = attempt[v][m]
    BY DEF Holds
  <2>1. CASE v = w
    BY <1>1, <2>1, Sentinels DEF Holds
  <2>2. CASE v # w
    BY <1>1, <1>4, <2>2 DEF Holds
  <2> QED BY <2>1, <2>2
<1>9. \A m \in Msg : /\ row[m].attempts \in Nat /\ row[m].attempts =< row'[m].attempts
                     /\ \A v \in Worker : attempt[v][m] \in Nat
  BY <1>2, <1>5, <1>6 DEF TypeOK, Row
<1>10. ClaimsDisjoint'
  <2> SUFFICES ASSUME NEW v \in Worker, pc'[v] = "claiming", NEW m \in batch[v]
               PROVE  (Due(m) /\ ~Locked(v, m))'
    BY <1>1 DEF ClaimsDisjoint
  <2>1. v # w /\ pc[v] = "claiming"
    BY <1>1, <1>4 DEF TypeOK
  <2>2. m \notin batch[w]
    BY <1>1, <2>1 DEF ClaimsDisjoint, Locked
  <2>3. m \in Msg /\ row'[m] = row[m] /\ Due(m) /\ ~Locked(v, m)
    BY <1>2, <2>1, <2>2 DEF TypeOK, ClaimsDisjoint
  <2> QED BY <1>1, <1>4, <2>3 DEF Due, Locked, TypeOK
<1>11. CopiesOld'
  <2> SUFFICES ASSUME NEW v \in Worker, NEW m \in Msg, Holds(v, m)'
               PROVE  /\ row'[m].status # "none"
                      /\ attempt'[v][m] =< row'[m].attempts /\ attempt'[v][m] > 0
    BY DEF CopiesOld
  <2>1. CASE v = w /\ m \in batch[w]
    <3>1. row[m].attempts \in Nat
      BY <1>9
    <3>2. /\ row'[m].status = "processing" /\ row'[m].attempts = Counting(row[m].attempts)
          /\ attempt'[w][m] = Counting(row[m].attempts)
      BY <1>3, <1>6, <2>1
    <3> QED BY <1>5, <2>1, <3>1, <3>2
  <2>2. CASE v # w /\ Holds(v, m) /\ attempt'[v][m] = attempt[v][m]
    <3>1. row'[m].status # "none"
      BY <1>2, <1>6, <2>2 DEF CopiesOld
    <3>2. attempt[v][m] =< row[m].attempts /\ attempt[v][m] > 0
      BY <2>2 DEF CopiesOld
    <3>3. /\ row[m].attempts \in Nat /\ row'[m].attempts \in Nat /\ attempt[v][m] \in Nat
          /\ row[m].attempts =< row'[m].attempts
      BY <1>7, <1>9 DEF TypeOK, Row
    <3> QED BY <2>2, <3>1, <3>2, <3>3
  <2> QED BY <1>8, <2>1, <2>2
<1>12. OneWorkerPerAttempt'
  <2>1. ASSUME NEW v \in Worker, NEW m \in batch[w], v # w, Holds(v, m)', m \in Msg,
               attempt'[v][m] < Counted \/ attempt'[w][m] < Counted
        PROVE  attempt'[v][m] # attempt'[w][m]
    <3>1. attempt'[v][m] = attempt[v][m] /\ attempt[v][m] =< row[m].attempts
      BY <1>8, <2>1 DEF CopiesOld
    <3>2. /\ row[m].attempts \in Nat /\ attempt[v][m] \in Nat
          /\ attempt'[w][m] = Counting(row[m].attempts)
      BY <1>3, <1>9, <2>1
    <3> QED BY <1>5, <2>1, <3>1, <3>2, Settings
  <2> QED BY <1>8, <2>1 DEF OneWorkerPerAttempt, TypeOK
<1>13. OwnerIsCurrent'
  <2> SUFFICES ASSUME NEW v \in Worker, NEW m \in Msg, Holds(v, m)', row'[m].owner = v
               PROVE  attempt'[v][m] = row'[m].attempts
    BY DEF OwnerIsCurrent
  <2>1. CASE v = w /\ m \in batch[w]
    BY <1>3, <1>6, <2>1
  <2>2. CASE v # w /\ Holds(v, m) /\ attempt'[v][m] = attempt[v][m]
    BY <1>2, <1>6, <2>2 DEF OwnerIsCurrent
  <2> QED BY <1>8, <2>1, <2>2
<1>14. PendingHasAttemptsLeft' /\ Delivered'
  BY <1>1, <1>2, <1>6 DEF PendingHasAttemptsLeft, Delivered
<1>15. Memory'
  BY <1>1, <1>4, Sentinels DEF Memory, TypeOK
<1> QED BY <1>7, <1>10, <1>11, <1>12, <1>13, <1>14, <1>15

-----------------------------------------------------------------------------
(* A finalisation by the owner of the lease.                                *)
LEMMA FinaliseStep ==
  ASSUME IndInv, NEW w \in Worker, Updates(w), Finish(w),
         pc[w] \in {"accepted", "failed", "rejected"},
         NEW new \in Row, row' = [row EXCEPT ![current[w]] = new],
         new.status \in {"pending", "succeeded", "dead_letter"}, new.owner = NoWorker,
         new.payload <=> new.status = "pending", new.attempts = row[current[w]].attempts,
         new.status = "succeeded" => current[w] \in mailbox,
         new.status = "pending" => new.attempts < MaxAttempts
  PROVE  IndInv'
<1> USE DEF IndInv
<1>1. PICK c \in Msg : c = current[w]
  BY DEF TypeOK, Memory
<1>2. current[w] # NoMsg /\ ~Locked(w, c) /\ Holds(w, c)
  BY <1>1, Sentinels DEF Updates, Holds
<1>3. /\ pc' = [pc EXCEPT ![w] = "ready"] /\ current' = [current EXCEPT ![w] = NoMsg]
      /\ attempt' \in [Worker -> [Msg -> Nat]]
      /\ \A v \in Worker, m \in Msg :
           Holds(v, m)' => Holds(v, m) /\ attempt'[v][m] = attempt[v][m]
      /\ UNCHANGED <<mailbox, batch, term, stopping, faults>>
  BY <1>2, FinishForgets DEF Finish
<1>4. row'[c] = new /\ \A m \in Msg : m # c => row'[m] = row[m]
  BY <1>1 DEF TypeOK
<1>5. \A m \in Msg : row'[m].attempts = row[m].attempts
  BY <1>1, <1>4
<1>6. TypeOK'
  <2>1. row' \in [Msg -> Row]
    BY <1>1 DEF TypeOK
  <2>2. \A m \in Msg :
          /\ row'[m].status = "processing" <=> row'[m].owner # NoWorker
          /\ row'[m].payload <=> row'[m].status \in {"pending", "processing"}
    BY <1>4 DEF TypeOK
  <2> QED BY <1>3, <2>1, <2>2 DEF TypeOK
<1>7. ClaimsDisjoint'
  <2> SUFFICES ASSUME NEW v \in Worker, pc'[v] = "claiming", NEW m \in batch'[v]
               PROVE  (Due(m) /\ ~Locked(v, m))'
    BY DEF ClaimsDisjoint
  <2>1. v # w /\ pc[v] = "claiming" /\ m \in batch[v] /\ m \in Msg
    BY <1>3 DEF TypeOK
  <2>2. m # c
    BY <1>2, <2>1 DEF Locked
  <2>3. row'[m] = row[m] /\ Due(m) /\ ~Locked(v, m)
    BY <1>4, <2>1, <2>2 DEF ClaimsDisjoint
  <2> QED BY <1>3, <2>3 DEF Due, Locked, TypeOK
<1>8. CopiesOld'
  <2> SUFFICES ASSUME NEW v \in Worker, NEW m \in Msg, Holds(v, m)'
               PROVE  /\ row'[m].status # "none"
                      /\ attempt'[v][m] =< row'[m].attempts /\ attempt'[v][m] > 0
    BY DEF CopiesOld
  <2>1. Holds(v, m) /\ attempt'[v][m] = attempt[v][m]
    BY <1>3
  <2>2. row'[m].status # "none"
    BY <1>4, <2>1 DEF CopiesOld
  <2> QED BY <1>5, <2>1, <2>2 DEF CopiesOld
<1>9. OneWorkerPerAttempt'
  BY <1>3 DEF OneWorkerPerAttempt
<1>10. OwnerIsCurrent'
  BY <1>3, <1>4, Sentinels DEF OwnerIsCurrent
<1>11. PendingHasAttemptsLeft' /\ Delivered'
  BY <1>1, <1>3, <1>4, <1>5 DEF PendingHasAttemptsLeft, Delivered
<1>12. Memory'
  BY <1>3, Sentinels DEF Memory, TypeOK
<1> QED BY <1>6, <1>7, <1>8, <1>9, <1>10, <1>11, <1>12

LEMMA EndedRow ==
  ASSUME NEW r \in Row, NEW s \in Terminal
  PROVE  /\ Ended(r, s) \in Row /\ Ended(r, s).status = s /\ Ended(r, s).owner = NoWorker
         /\ ~Ended(r, s).payload /\ Ended(r, s).attempts = r.attempts
BY DEF Ended, Row, Terminal

(* A retry is allowed by the attempt_count of the worker's copy; owning the *)
(* lease makes it the row's.                                                *)
LEMMA RetryHasAttemptsLeft ==
  ASSUME IndInv, NEW w \in Worker, Retry(w)
  PROVE  row[current[w]].attempts < MaxAttempts
<1>1. current[w] \in Msg /\ Holds(w, current[w]) /\ row[current[w]].owner = w
  BY DEF Retry, IndInv, Memory, TypeOK, Holds, Updates, Owned
<1>2. attempt[w][current[w]] = row[current[w]].attempts
  BY <1>1 DEF IndInv, OwnerIsCurrent
<1>3. row[current[w]].attempts \in Nat
  BY <1>1 DEF IndInv, TypeOK, Row
<1> QED BY <1>2, <1>3, Settings DEF Retry, Exhausted

LEMMA MarkStep ==
  ASSUME IndInv, NEW w \in Worker, MarkSucceeded(w) \/ DeadLetter(w) \/ Retry(w)
  PROVE  IndInv'
<1>1. row \in [Msg -> Row] /\ current[w] \in Msg /\ row[current[w]] \in Row
  BY DEF IndInv, TypeOK, Memory, MarkSucceeded, DeadLetter, Retry
<1>2. ASSUME MarkSucceeded(w) PROVE IndInv'
  <2> DEFINE new == Ended(row[current[w]], "succeeded")
  <2>1. /\ new \in Row /\ new.status = "succeeded" /\ new.owner = NoWorker /\ ~new.payload
        /\ new.attempts = row[current[w]].attempts
    BY <1>1, EndedRow DEF Terminal
  <2>2. row' = [row EXCEPT ![current[w]] = new] /\ pc[w] = "accepted" /\ Updates(w) /\ Finish(w)
    BY <1>2 DEF MarkSucceeded
  <2>3. current[w] \in mailbox
    BY <2>2 DEF IndInv, Memory
  <2> HIDE DEF new
  <2> QED BY <2>1, <2>2, <2>3, FinaliseStep
<1>3. ASSUME DeadLetter(w) PROVE IndInv'
  <2> DEFINE new == Ended(row[current[w]], "dead_letter")
  <2>1. /\ new \in Row /\ new.status = "dead_letter" /\ new.owner = NoWorker /\ ~new.payload
        /\ new.attempts = row[current[w]].attempts
    BY <1>1, EndedRow DEF Terminal
  <2>2. /\ row' = [row EXCEPT ![current[w]] = new] /\ pc[w] \in {"failed", "rejected"}
        /\ Updates(w) /\ Finish(w)
    BY <1>3 DEF DeadLetter
  <2> HIDE DEF new
  <2> QED BY <2>1, <2>2, FinaliseStep
<1>4. ASSUME Retry(w) PROVE IndInv'
  <2>1. PICK d \in RetryDelay(attempt[w][current[w]]) :
          row' = [row EXCEPT ![current[w]] =
                    [row[current[w]] EXCEPT !.status = "pending", !.owner = NoWorker, !.lease = 0,
                                            !.available = d]]
    BY <1>4 DEF Retry
  <2>2. d \in Nat
    BY Settings DEF RetryDelay
  <2> DEFINE new == [row[current[w]] EXCEPT !.status = "pending", !.owner = NoWorker,
                                            !.lease = 0, !.available = d]
  <2>3. /\ new.status = "pending" /\ new.owner = NoWorker
        /\ new.payload = row[current[w]].payload /\ new.attempts = row[current[w]].attempts
    BY <1>1 DEF Row
  <2>4. new \in Row
    BY <1>1, <2>2 DEF Row
  <2>5. row[current[w]].payload
    BY <1>1, <1>4 DEF Retry, Updates, Owned, IndInv, TypeOK
  <2>6. pc[w] \in {"failed", "rejected"} /\ Updates(w) /\ Finish(w)
    BY <1>4 DEF Retry
  <2>7. row' = [row EXCEPT ![current[w]] = new] /\ new.attempts < MaxAttempts
    BY <1>4, <2>1, <2>3, RetryHasAttemptsLeft
  <2> HIDE DEF new
  <2> QED BY <2>3, <2>4, <2>5, <2>6, <2>7, FinaliseStep
<1> QED BY <1>2, <1>3, <1>4

-----------------------------------------------------------------------------
LEMMA EnqueueStep ==
  ASSUME IndInv, NEW m \in Msg, Enqueue(m)
  PROVE  IndInv'
<1> USE DEF IndInv
<1>1. /\ row[m] \in Row /\ row[m].status = "none" /\ UNCHANGED <<mailbox, worker, faults>>
      /\ row' = [row EXCEPT ![m] = [row[m] EXCEPT !.status = "pending", !.life = PayloadLife,
                                                  !.payload = TRUE]]
  BY DEF Enqueue, TypeOK
<1> DEFINE new == [row[m] EXCEPT !.status = "pending", !.life = PayloadLife, !.payload = TRUE]
<1>2. /\ new \in Row /\ new.status = "pending" /\ new.payload
      /\ new.owner = row[m].owner /\ new.attempts = row[m].attempts
  BY <1>1, Settings DEF Row
<1>3. row[m].owner = NoWorker /\ row[m].attempts = 0 /\ m \notin mailbox
  BY <1>1 DEF TypeOK, Delivered
<1> HIDE DEF new
<1>4. row'[m] = new /\ \A n \in Msg : n # m => row'[n] = row[n]
  BY <1>1 DEF TypeOK, new
<1>5. TypeOK'
  <2>1. row' \in [Msg -> Row]
    BY <1>1, <1>2 DEF TypeOK, new
  <2>2. \A n \in Msg :
          /\ row'[n].status = "processing" <=> row'[n].owner # NoWorker
          /\ row'[n].payload <=> row'[n].status \in {"pending", "processing"}
    BY <1>2, <1>3, <1>4 DEF TypeOK
  <2> QED BY <1>1, <2>1, <2>2 DEF TypeOK, worker
<1>6. \A w \in Worker : ~Holds(w, m) /\ (pc[w] = "claiming" => m \notin batch[w])
  BY <1>1 DEF CopiesOld, ClaimsDisjoint, Due
<1>7. \A w \in Worker, n \in Msg : Holds(w, n)' => Holds(w, n) /\ row'[n] = row[n]
  BY <1>1, <1>4, <1>6 DEF Holds, worker
<1>8. ClaimsDisjoint'
  BY <1>1, <1>4, <1>6 DEF ClaimsDisjoint, Due, Locked, TypeOK, worker
<1>9. CopiesOld' /\ OneWorkerPerAttempt' /\ OwnerIsCurrent'
  BY <1>1, <1>7 DEF CopiesOld, OneWorkerPerAttempt, OwnerIsCurrent, worker
<1>10. PendingHasAttemptsLeft' /\ Delivered'
  BY <1>1, <1>2, <1>3, <1>4, Settings DEF PendingHasAttemptsLeft, Delivered
<1>11. Memory'
  BY <1>1 DEF Memory, worker
<1> QED BY <1>5, <1>8, <1>9, <1>10, <1>11

(* What a step leaves alone when no worker takes or drops a message.        *)
LEMMA PassiveStep ==
  ASSUME IndInv, TypeOK', \A m \in Msg : SameRow(m),
         UNCHANGED <<mailbox, pc, batch, current, attempt>>
  PROVE  IndInv'
<1> USE DEF IndInv
<1>1. ClaimsDisjoint'
  BY DEF ClaimsDisjoint, Due, Locked, SameRow, TypeOK
<1>2. CopiesOld' /\ OneWorkerPerAttempt' /\ OwnerIsCurrent'
  BY DEF CopiesOld, OneWorkerPerAttempt, OwnerIsCurrent, Holds, SameRow
<1>3. PendingHasAttemptsLeft' /\ Delivered' /\ Memory'
  BY DEF PendingHasAttemptsLeft, Delivered, Memory, SameRow
<1> QED BY <1>1, <1>2, <1>3

LEMMA TickStep ==
  ASSUME IndInv, Tick
  PROVE  IndInv' /\ \A m \in Msg : SameRow(m)
<1>1. row \in [Msg -> Row] /\ TypeOK
  BY DEF IndInv, TypeOK
<1>2. \A n \in Nat : Less(n) \in Nat /\ (n = 0 => Less(n) = 0)
  BY DEF Less
<1>3. ASSUME NEW m \in Msg
      PROVE  /\ row'[m] \in Row /\ SameRow(m) /\ row'[m].payload = row[m].payload
  <2>1. row'[m] = [row[m] EXCEPT !.lease = Less(row[m].lease),
                     !.available = Less(row[m].available), !.life = Less(row[m].life)]
    BY DEF Tick
  <2>2. row[m] \in Row
    BY <1>1
  <2>3. Less(row[m].lease) \in Nat /\ Less(row[m].available) \in Nat /\ Less(row[m].life) \in Nat
    BY <1>2, <2>2 DEF Row
  <2>4. row'[m] \in Row
    BY <2>1, <2>2, <2>3 DEF Row
  <2>5. /\ row'[m].status = row[m].status /\ row'[m].owner = row[m].owner
        /\ row'[m].attempts = row[m].attempts /\ row'[m].payload = row[m].payload
        /\ row'[m].available = Less(row[m].available) /\ row'[m].lease = Less(row[m].lease)
    BY <2>1, <2>2 DEF Row
  <2>6. /\ row[m].available = 0 => row'[m].available = 0
        /\ row[m].lease = 0 => row'[m].lease = 0
    BY <1>2, <2>5
  <2> QED BY <2>4, <2>5, <2>6 DEF SameRow
<1>4. TypeOK'
  <2>1. row' \in [Msg -> Row]
    BY <1>3 DEF Tick
  <2>2. term' \in [Worker -> Nat]
    BY <1>1, <1>2 DEF Tick, TypeOK
  <2>3. \A m \in Msg :
          /\ row'[m].status = "processing" <=> row'[m].owner # NoWorker
          /\ row'[m].payload <=> row'[m].status \in {"pending", "processing"}
    BY <1>1, <1>3 DEF TypeOK, SameRow
  <2> QED BY <1>1, <2>1, <2>2, <2>3 DEF Tick, TypeOK
<1>5. IndInv'
  BY <1>3, <1>4, PassiveStep DEF Tick
<1> QED BY <1>3, <1>5

LEMMA StopStep ==
  ASSUME IndInv, NEW w \in Worker, RequestStop(w) PROVE IndInv'
<1>1. UNCHANGED <<row, mailbox, pc, batch, current, attempt, term, faults>>
  BY DEF RequestStop
<1>2. TypeOK' /\ \A m \in Msg : SameRow(m)
  BY <1>1 DEF IndInv, TypeOK, RequestStop, SameRow
<1> QED BY <1>1, <1>2, PassiveStep

LEMMA IndInvStep == IndInv /\ [Next]_vars => IndInv'
<1> SUFFICES ASSUME IndInv, [Next]_vars PROVE IndInv'
  OBVIOUS
<1>1. ASSUME NEW m \in Msg, Enqueue(m) PROVE IndInv'
  BY <1>1, EnqueueStep
<1>2. ASSUME NEW w \in Worker, Work(w) PROVE IndInv'
  BY <1>2, SelectStep, ClaimStep, MemoryStep, MarkStep DEF Work
<1>3. ASSUME NEW w \in Worker, Stray(w) PROVE IndInv'
  BY <1>3, MemoryStep, StopStep DEF Stray
<1>4. CASE Tick
  BY <1>4, TickStep
<1>5. CASE UNCHANGED vars
  <2>1. /\ UNCHANGED <<row, mailbox, pc, batch, current, attempt, term, stopping, faults>>
    BY <1>5 DEF vars, worker
  <2>2. TypeOK' /\ \A m \in Msg : SameRow(m)
    BY <2>1 DEF IndInv, TypeOK, SameRow
  <2> QED BY <2>1, <2>2, PassiveStep
<1> QED BY <1>1, <1>2, <1>3, <1>4, <1>5 DEF Next

-----------------------------------------------------------------------------
(* The invariant that carries the results below: what a worker remembers of *)
(* a message against what the table says.                                   *)
THEOREM Invariance == Spec => []IndInv
<1> QED BY InitIndInv, IndInvStep, PTL DEF Spec

(* The table's CHECK constraints never refuse a statement.                  *)
THEOREM TypeCorrect == Spec => []TypeOK
<1>1. IndInv => TypeOK
  BY DEF IndInv
<1> QED BY <1>1, Invariance, PTL

(* Two workers never run the same attempt of a message.                     *)
THEOREM AttemptsApart == Spec => []OneWorkerPerAttempt
<1>1. IndInv => OneWorkerPerAttempt
  BY DEF IndInv
<1> QED BY <1>1, Invariance, PTL

(* The owner of a lease holds the copy of its latest claim.                 *)
THEOREM OwnerHoldsLatest == Spec => []OwnerIsCurrent
<1>1. IndInv => OwnerIsCurrent
  BY DEF IndInv
<1> QED BY <1>1, Invariance, PTL

(* No message waits for an attempt beyond the last.                         *)
THEOREM RetriesBounded == Spec => []PendingHasAttemptsLeft
<1>1. IndInv => PendingHasAttemptsLeft
  BY DEF IndInv
<1> QED BY <1>1, Invariance, PTL

(* The steps that change more of a row than its clocks.                     *)
LEMMA RowSteps ==
  ASSUME Next, row' # row
  PROVE  \/ \E m \in Msg : Enqueue(m)
         \/ \E w \in Worker : CommitClaim(w)
         \/ \E w \in Worker : MarkSucceeded(w) \/ DeadLetter(w) \/ Retry(w)
         \/ Tick
BY DEF Next, Work, Stray, Select, Process, Accept, SendFails, StaleOwner, LoopFails, RequestStop,
   Exit

(* A message that has ended is never touched again.                         *)
THEOREM EndsOnce == Spec => EndIsFinal
<1>1. ASSUME IndInv, [Next]_vars, NEW m \in Msg, row[m].status \in Terminal
      PROVE  row'[m].status = row[m].status /\ row'[m].attempts = row[m].attempts
  <2> USE DEF Terminal
  <2>1. row \in [Msg -> Row]
    BY <1>1 DEF IndInv, TypeOK
  <2>2. ASSUME NEW n \in Msg, Enqueue(n) PROVE row'[m] = row[m]
    <3>1. m # n
      BY <1>1, <2>2 DEF Enqueue
    <3> QED BY <2>1, <2>2, <3>1 DEF Enqueue
  <2>3. ASSUME NEW w \in Worker, CommitClaim(w) PROVE row'[m] = row[m]
    <3>1. m \notin batch[w]
      BY <1>1, <2>3 DEF CommitClaim, IndInv, ClaimsDisjoint, Due
    <3> QED BY <2>3, <3>1 DEF CommitClaim
  <2>4. ASSUME NEW w \in Worker, MarkSucceeded(w) \/ DeadLetter(w) \/ Retry(w)
        PROVE  row'[m] = row[m]
    <3>1. m # current[w]
      BY <1>1, <2>4 DEF MarkSucceeded, DeadLetter, Retry, Updates, Owned
    <3> QED BY <2>1, <2>4, <3>1 DEF MarkSucceeded, DeadLetter, Retry
  <2>5. CASE Tick
    BY <1>1, <2>5, TickStep DEF SameRow
  <2> QED BY <1>1, <2>2, <2>3, <2>4, <2>5, RowSteps DEF vars
<1>2. IndInv /\ [Next]_vars
        => [\A m \in Msg : row[m].status \in Terminal
              => row'[m].status = row[m].status /\ row'[m].attempts = row[m].attempts]_vars
  BY <1>1
<1> QED BY <1>2, Invariance, PTL DEF Spec, EndIsFinal

-----------------------------------------------------------------------------
(* Outside the steps named here a message keeps its stage.                  *)
LEMMA StageKept ==
  ASSUME \A m \in Msg : row'[m].status = row[m].status
                        \/ {row'[m].status, row[m].status} \subseteq {"pending", "processing"}
  PROVE  Stage' = Stage
BY DEF Stage

LEMMA StepDelivers ==
  ASSUME IndInv, Next
  PROVE  Delivery!Next \/ UNCHANGED <<Stage, mailbox>>
<1>1. row \in [Msg -> Row] /\ TypeOK /\ Memory /\ CopiesOld /\ ClaimsDisjoint
  BY DEF IndInv, TypeOK
<1>2. ASSUME NEW m \in Msg, Enqueue(m) PROVE Delivery!Enqueue(m)
  <2>1. /\ row'[m].status = "pending" /\ row[m].status = "none"
        /\ \A n \in Msg : n # m => row'[n] = row[n]
        /\ mailbox' = mailbox
    BY <1>1, <1>2 DEF Enqueue, Row
  <2> QED BY <2>1 DEF Stage, Delivery!Enqueue
<1>3. ASSUME NEW w \in Worker, MarkSucceeded(w) PROVE Delivery!Succeed(current[w])
  <2>1. /\ current[w] \in Msg /\ current[w] \in mailbox /\ mailbox' = mailbox
        /\ row[current[w]].status = "processing"
    BY <1>1, <1>3 DEF TypeOK, Memory, MarkSucceeded, Updates, Owned, Finish
  <2>2. row' = [row EXCEPT ![current[w]] = Ended(row[current[w]], "succeeded")]
    BY <1>3 DEF MarkSucceeded
  <2>3. Ended(row[current[w]], "succeeded").status = "succeeded"
    BY <1>1, <2>1, EndedRow DEF Terminal
  <2> QED BY <1>1, <2>1, <2>2, <2>3 DEF Stage, Delivery!Succeed
<1>4. ASSUME NEW w \in Worker, DeadLetter(w) PROVE Delivery!GiveUp(current[w])
  <2>1. /\ current[w] \in Msg /\ mailbox' = mailbox /\ row[current[w]].status = "processing"
    BY <1>1, <1>4 DEF TypeOK, Memory, DeadLetter, Updates, Owned, Finish
  <2>2. row' = [row EXCEPT ![current[w]] = Ended(row[current[w]], "dead_letter")]
    BY <1>4 DEF DeadLetter
  <2>3. Ended(row[current[w]], "dead_letter").status = "dead_letter"
    BY <1>1, <2>1, EndedRow DEF Terminal
  <2> QED BY <1>1, <2>1, <2>2, <2>3 DEF Stage, Delivery!GiveUp
<1>5. ASSUME NEW w \in Worker, Retry(w) PROVE UNCHANGED <<Stage, mailbox>>
  <2>1. /\ current[w] \in Msg /\ mailbox' = mailbox /\ row[current[w]].status = "processing"
    BY <1>1, <1>5 DEF TypeOK, Memory, Retry, Updates, Owned, Finish
  <2>2. PICK d : row' = [row EXCEPT ![current[w]] =
                   [row[current[w]] EXCEPT !.status = "pending", !.owner = NoWorker, !.lease = 0,
                                           !.available = d]]
    BY <1>5 DEF Retry
  <2>3. /\ row'[current[w]].status = "pending"
        /\ \A n \in Msg : n # current[w] => row'[n] = row[n]
    BY <1>1, <2>1, <2>2 DEF Row
  <2> QED BY <2>1, <2>3, StageKept
<1>6. ASSUME NEW w \in Worker, Accept(w) \/ SendFails(w)
      PROVE  Delivery!Deliver(current[w]) \/ UNCHANGED <<Stage, mailbox>>
  <2>1. /\ current[w] \in Msg /\ row[current[w]].status # "none" /\ row' = row
        /\ mailbox' \in {mailbox, mailbox \cup {current[w]}}
    BY <1>1, <1>6 DEF TypeOK, Memory, CopiesOld, Holds, Accept, SendFails
  <2>2. Stage' = Stage /\ Stage[current[w]] # "none"
    BY <2>1 DEF Stage
  <2> QED BY <2>1, <2>2 DEF Delivery!Deliver
<1>7. ASSUME NEW w \in Worker, CommitClaim(w) PROVE UNCHANGED <<Stage, mailbox>>
  <2>1. \A m \in Msg : IF m \in batch[w] THEN row'[m].status = "processing"
                                       ELSE row'[m] = row[m]
    BY <1>1, <1>7 DEF CommitClaim, Row
  <2>2. \A m \in batch[w] : row[m].status \in {"pending", "processing"}
    BY <1>1, <1>7 DEF CommitClaim, ClaimsDisjoint, Due
  <2> QED BY <1>7, <2>1, <2>2, StageKept DEF CommitClaim
<1>8. CASE Tick
  BY <1>8, TickStep, StageKept DEF Tick, SameRow
<1>9. ASSUME NEW w \in Worker,
             \/ \E S \in SUBSET Msg : Select(w, S)
             \/ \E m \in Msg : Process(w, m)
             \/ StaleOwner(w) \/ Stray(w)
      PROVE  UNCHANGED <<Stage, mailbox>>
  <2>1. UNCHANGED <<row, mailbox>>
    BY <1>9 DEF Select, Process, StaleOwner, Finish, Stray, LoopFails, RequestStop, Exit
  <2> QED BY <2>1 DEF Stage
<1>10. \A w \in Worker : MarkSucceeded(w) \/ DeadLetter(w) \/ Accept(w) \/ SendFails(w)
                            => current[w] \in Msg
  BY <1>1 DEF TypeOK, Memory, MarkSucceeded, DeadLetter, Accept, SendFails
<1> QED BY <1>2, <1>3, <1>4, <1>5, <1>6, <1>7, <1>8, <1>9, <1>10 DEF Next, Work, Delivery!Next

(* Leases, retries and crashes implement at-least-once delivery.            *)
THEOREM DeliveryImplemented == Spec => ImplementsDelivery
<1>1. Init => Delivery!Init
  BY DEF Init, Delivery!Init, Stage, NoRow
<1>2. IndInv /\ [Next]_vars => [Delivery!Next]_(Delivery!vars)
  <2> SUFFICES ASSUME IndInv, [Next]_vars PROVE [Delivery!Next]_(Delivery!vars)
    OBVIOUS
  <2>1. CASE Next
    BY <2>1, StepDelivers DEF Delivery!vars
  <2>2. CASE UNCHANGED vars
    BY <2>2 DEF vars, Stage, Delivery!vars
  <2> QED BY <2>1, <2>2
<1> QED BY <1>1, <1>2, Invariance, PTL DEF Spec, ImplementsDelivery, Delivery!Spec
=============================================================================
