--------------------------- MODULE OutboxWorkers ---------------------------
(***************************************************************************)
(* The transactional e-mail outbox: rows enqueued by the API and delivered *)
(* by worker processes that claim them under a lease (app/services/        *)
(* outbox.py, app/services/outbox_worker.py, app/workers/outbox.py,        *)
(* app/models/outbox_message.py).                                          *)
(*                                                                         *)
(* `row' is the committed table; the other variables are what each process *)
(* holds in memory.  A timestamp is the time left until it is reached, 0   *)
(* once it has passed, so that time never ends.  A worker process has one  *)
(* life: its lease owner is a UUID made when it starts.                    *)
(***************************************************************************)
EXTENDS Integers, FiniteSets

CONSTANTS Msg, Worker,
          NoMsg, NoWorker,              \* "no message", "no lease owner"
          LeaseSeconds, MaxAttempts, BatchSize, BackoffBase, BackoffMax,
          PayloadLife,                  \* until a payload expires
          Counted,                      \* bound: attempts are counted this far
          MaxFaults                     \* bound: uncaught exceptions, all workers

ASSUME Settings ==
  /\ LeaseSeconds \in Nat \ {0} /\ MaxAttempts \in Nat \ {0} /\ BatchSize \in Nat \ {0}
  /\ BackoffBase \in Nat \ {0} /\ BackoffMax \in Nat /\ BackoffBase =< BackoffMax
  /\ PayloadLife \in Nat /\ Counted \in Nat /\ MaxAttempts =< Counted /\ MaxFaults \in Nat

ASSUME Sentinels == NoMsg \notin Msg /\ NoWorker \notin Worker

VARIABLES row,        \* outbox_messages
          mailbox,    \* the messages the SMTP provider has accepted
          pc,         \* where each worker process is
          batch,      \* the messages it has claimed and not yet taken up
          current,    \* the message it is busy with
          attempt,    \* attempt_count in its copy of each claimed message
          term,       \* its lease_expires_at while it claims
          stopping,   \* stop_requested_at is set
          faults

worker == <<pc, batch, current, attempt, term, stopping>>
vars == <<row, mailbox, worker, faults>>

Terminal == {"succeeded", "dead_letter"}

Row == [status: {"none", "pending", "processing"} \cup Terminal,
        owner: Worker \cup {NoWorker}, lease: Nat, available: Nat, life: Nat,
        attempts: Nat, payload: BOOLEAN]

(* With the table's CHECK constraints on the lease and on the payload. *)
TypeOK ==
  /\ row \in [Msg -> Row] /\ mailbox \in SUBSET Msg /\ faults \in Nat
  /\ pc \in [Worker -> {"ready", "claiming", "sending", "accepted", "failed", "rejected",
                        "gone"}]
  /\ batch \in [Worker -> SUBSET Msg] /\ current \in [Worker -> Msg \cup {NoMsg}]
  /\ attempt \in [Worker -> [Msg -> Nat]]
  /\ term \in [Worker -> Nat] /\ stopping \in [Worker -> BOOLEAN]
  /\ \A m \in Msg : /\ row[m].status = "processing" <=> row[m].owner # NoWorker
                    /\ row[m].payload <=> row[m].status \in {"pending", "processing"}

NoRow == [status |-> "none", owner |-> NoWorker, lease |-> 0, available |-> 0,
          life |-> 0, attempts |-> 0, payload |-> FALSE]

Init ==
  /\ row = [m \in Msg |-> NoRow] /\ mailbox = {} /\ faults = 0
  /\ pc = [w \in Worker |-> "ready"]
  /\ batch = [w \in Worker |-> {}] /\ current = [w \in Worker |-> NoMsg]
  /\ attempt = [w \in Worker |-> [m \in Msg |-> 0]]
  /\ term = [w \in Worker |-> 0] /\ stopping = [w \in Worker |-> FALSE]

-----------------------------------------------------------------------------
Least(a, b) == IF a < b THEN a ELSE b
Less(n) == IF n = 0 THEN 0 ELSE n - 1
Counting(n) == IF n < Counted THEN n + 1 ELSE n

Holds(w, m) == pc[w] # "claiming" /\ (m \in batch[w] \/ m = current[w])

(* m's row is locked FOR UPDATE by a worker other than w. *)
Locked(w, m) == \E v \in Worker \ {w} : pc[v] = "claiming" /\ m \in batch[v]

(* Faulty variant: an expired lease is not taken over. *)
DueUnleased(m) == row[m].status = "pending" /\ row[m].available = 0

Due(m) == \/ row[m].status = "pending" /\ row[m].available = 0
          \/ row[m].status = "processing" /\ row[m].lease = 0

Owned(w, m) == row[m].status = "processing" /\ row[m].owner = w

(* An exponential backoff with a jitter of at most a quarter. *)
RetryDelay(n) ==
  LET exponential == Least(BackoffMax, BackoffBase * 2^(n - 1))
      quarter == Least(BackoffBase, exponential \div 4)
      jitter == IF quarter < 1 THEN 1 ELSE quarter
  IN  {d \in 0..BackoffMax : exponential =< d /\ d =< exponential + jitter}

(* A row that has ended keeps its metadata and loses its payload. *)
Ended(r, s) ==
  [r EXCEPT !.status = s, !.payload = FALSE, !.owner = NoWorker, !.lease = 0]

-----------------------------------------------------------------------------
(* enqueue_email_delivery, in the transaction that stores the token. *)
Enqueue(m) ==
  /\ row[m].status = "none"
  /\ row' = [row EXCEPT ![m] = [@ EXCEPT !.status = "pending", !.life = PayloadLife,
                                         !.payload = TRUE]]
  /\ UNCHANGED <<mailbox, worker, faults>>

(* claim_messages: SELECT the due rows FOR UPDATE SKIP LOCKED, ...          *)
Select(w, S) ==
  /\ pc[w] = "ready" /\ batch[w] = {} /\ ~stopping[w]
  /\ LET D == {m \in Msg : Due(m) /\ ~Locked(w, m)}
     IN  /\ S # {} /\ S \subseteq D /\ Cardinality(S) =< BatchSize
         /\ S = D \/ Cardinality(S) = BatchSize
  /\ pc' = [pc EXCEPT ![w] = "claiming"]
  /\ batch' = [batch EXCEPT ![w] = S]
  /\ term' = [term EXCEPT ![w] = LeaseSeconds]
  /\ UNCHANGED <<row, mailbox, current, attempt, stopping, faults>>

(* Faulty variant: the attempt is counted in the copy only. *)
CommitClaimUncounted(w) ==
  /\ pc[w] = "claiming"
  /\ row' = [m \in Msg |-> IF m \in batch[w]
       THEN [row[m] EXCEPT !.status = "processing", !.owner = w, !.lease = term[w]]
       ELSE row[m]]
  /\ attempt' = [attempt EXCEPT ![w] = [m \in Msg |->
       IF m \in batch[w] THEN Counting(row[m].attempts) ELSE 0]]
  /\ pc' = [pc EXCEPT ![w] = "ready"]
  /\ term' = [term EXCEPT ![w] = 0]
  /\ UNCHANGED <<mailbox, batch, current, stopping, faults>>

(* ... and lease them; the copies are kept in memory after the commit.      *)
CommitClaim(w) ==
  /\ pc[w] = "claiming"
  /\ row' = [m \in Msg |-> IF m \in batch[w]
       THEN [row[m] EXCEPT !.status = "processing", !.owner = w, !.lease = term[w],
                           !.attempts = Counting(@)]
       ELSE row[m]]
  /\ attempt' = [attempt EXCEPT ![w] = [m \in Msg |->
       IF m \in batch[w] THEN Counting(row[m].attempts) ELSE 0]]
  /\ pc' = [pc EXCEPT ![w] = "ready"]
  /\ term' = [term EXCEPT ![w] = 0]
  /\ UNCHANGED <<mailbox, batch, current, stopping, faults>>

(* run_once takes up the next message of its batch: expired or undecipherable *)
(* it is rejected, else it goes out.  Nobody looks at the lease again.      *)
Process(w, m) ==
  /\ pc[w] = "ready" /\ m \in batch[w]
  /\ batch' = [batch EXCEPT ![w] = @ \ {m}]
  /\ current' = [current EXCEPT ![w] = m]
  /\ \/ pc' = [pc EXCEPT ![w] = "rejected"]
     \/ row[m].life > 0 /\ pc' = [pc EXCEPT ![w] = "sending"]
  /\ UNCHANGED <<row, mailbox, attempt, term, stopping, faults>>

(* send_outbox returns. *)
Accept(w) ==
  /\ pc[w] = "sending"
  /\ mailbox' = mailbox \cup {current[w]}
  /\ pc' = [pc EXCEPT ![w] = "accepted"]
  /\ UNCHANGED <<row, batch, current, attempt, term, stopping, faults>>

(* Faulty variant: an SMTP error is swallowed. *)
SendFailsSilently(w) ==
  /\ pc[w] = "sending"
  /\ mailbox' \in {mailbox, mailbox \cup {current[w]}}
  /\ pc' = [pc EXCEPT ![w] = "accepted"]
  /\ UNCHANGED <<row, batch, current, attempt, term, stopping, faults>>

(* It raises; the provider may have accepted the message all the same.      *)
SendFails(w) ==
  /\ pc[w] = "sending"
  /\ mailbox' \in {mailbox, mailbox \cup {current[w]}}
  /\ pc' = [pc EXCEPT ![w] = "failed"]
  /\ UNCHANGED <<row, batch, current, attempt, term, stopping, faults>>

-----------------------------------------------------------------------------
(* Faulty variant: one attempt too many. *)
ExhaustedLate(w) == \/ pc[w] = "rejected"
                    \/ attempt[w][current[w]] > MaxAttempts
                    \/ row[current[w]].life = 0

(* A failure is final: not retryable, or the last attempt, or expired. *)
Exhausted(w) == \/ pc[w] = "rejected"
                \/ attempt[w][current[w]] >= MaxAttempts
                \/ row[current[w]].life = 0

(* _owned_update finds the row, once no claim has it locked.                *)
Updates(w) == Owned(w, current[w]) /\ ~Locked(w, current[w])

(* The message leaves the worker's memory. *)
Finish(w) ==
  /\ pc' = [pc EXCEPT ![w] = "ready"]
  /\ current' = [current EXCEPT ![w] = NoMsg]
  /\ attempt' = [attempt EXCEPT ![w] = [@ EXCEPT ![current[w]] = 0]]
  /\ UNCHANGED <<mailbox, batch, term, stopping, faults>>

MarkSucceeded(w) ==
  /\ pc[w] = "accepted" /\ Updates(w)
  /\ row' = [row EXCEPT ![current[w]] = Ended(@, "succeeded")]
  /\ Finish(w)

DeadLetter(w) ==
  /\ pc[w] \in {"failed", "rejected"} /\ Updates(w) /\ Exhausted(w)
  /\ row' = [row EXCEPT ![current[w]] = Ended(@, "dead_letter")]
  /\ Finish(w)

Retry(w) ==
  /\ pc[w] \in {"failed", "rejected"} /\ Updates(w) /\ ~Exhausted(w)
  /\ \E d \in RetryDelay(attempt[w][current[w]]) :
       row' = [row EXCEPT ![current[w]] =
                 [@ EXCEPT !.status = "pending", !.owner = NoWorker, !.lease = 0,
                           !.available = d]]
  /\ Finish(w)

(* rowcount is 0: the lease went to somebody else, or the row has ended.    *)
StaleOwner(w) ==
  /\ pc[w] \in {"accepted", "failed", "rejected"} /\ ~Owned(w, current[w])
  /\ Finish(w) /\ UNCHANGED row

-----------------------------------------------------------------------------
(* An uncaught exception, caught by run_worker's loop: the rest of the batch *)
(* is forgotten, its rows stay leased; a claim is rolled back.              *)
LoopFails(w) ==
  /\ pc[w] # "gone" /\ (pc[w] # "ready" \/ batch[w] # {}) /\ faults < MaxFaults
  /\ faults' = faults + 1
  /\ pc' = [pc EXCEPT ![w] = "ready"]
  /\ batch' = [batch EXCEPT ![w] = {}] /\ current' = [current EXCEPT ![w] = NoMsg]
  /\ attempt' = [attempt EXCEPT ![w] = [m \in Msg |-> 0]]
  /\ term' = [term EXCEPT ![w] = 0]
  /\ UNCHANGED <<row, mailbox, stopping>>

(* Bound: one worker process is never stopped or killed. *)
Survivor(w) == \E v \in Worker \ {w} : pc[v] # "gone" /\ ~stopping[v]

(* SIGTERM, at any point. *)
RequestStop(w) ==
  /\ Survivor(w) /\ pc[w] # "gone" /\ ~stopping[w]
  /\ stopping' = [stopping EXCEPT ![w] = TRUE]
  /\ UNCHANGED <<row, mailbox, pc, batch, current, attempt, term, faults>>

(* The process ends: killed at any point, or stopped between two messages,  *)
(* because the batch is done or because the grace period is over.           *)
Exit(w) ==
  /\ Survivor(w) /\ pc[w] # "gone"
  /\ pc' = [pc EXCEPT ![w] = "gone"]
  /\ batch' = [batch EXCEPT ![w] = {}] /\ current' = [current EXCEPT ![w] = NoMsg]
  /\ attempt' = [attempt EXCEPT ![w] = [m \in Msg |-> 0]]
  /\ term' = [term EXCEPT ![w] = 0]
  /\ UNCHANGED <<row, mailbox, stopping, faults>>

Tick ==
  /\ row' = [m \in Msg |-> [row[m] EXCEPT !.lease = Less(@), !.available = Less(@),
                                          !.life = Less(@)]]
  /\ term' = [w \in Worker |-> Less(term[w])]
  /\ UNCHANGED <<mailbox, pc, batch, current, attempt, stopping, faults>>

Work(w) ==
  \/ \E S \in SUBSET Msg : Select(w, S)
  \/ CommitClaim(w) \/ \E m \in Msg : Process(w, m)
  \/ Accept(w) \/ SendFails(w)
  \/ MarkSucceeded(w) \/ DeadLetter(w) \/ Retry(w) \/ StaleOwner(w)

Stray(w) == LoopFails(w) \/ RequestStop(w) \/ Exit(w)

Next == \/ \E m \in Msg : Enqueue(m)
        \/ \E w \in Worker : Work(w) \/ Stray(w)
        \/ Tick

Spec == Init /\ [][Next]_vars

(* For liveness: a database transaction takes no time to speak of, only an  *)
(* SMTP exchange and the pause of an idle worker do.                        *)
Timely == \A w \in Worker : \/ pc[w] \in {"sending", "gone"}
                            \/ pc[w] = "ready" /\ batch[w] = {}

TimelyNext == \/ \E m \in Msg : Enqueue(m)
              \/ \E w \in Worker : Work(w) \/ Stray(w)
              \/ Timely /\ Tick

FairSpec == /\ Init /\ [][TimelyNext]_vars
            /\ \A w \in Worker : WF_vars(Work(w))
            /\ WF_vars(Timely /\ Tick)

-----------------------------------------------------------------------------
(* No two workers ever run the same attempt of a message: SKIP LOCKED and   *)
(* the leases give every claim to one of them.                              *)
OneWorkerPerAttempt ==
  \A v, w \in Worker, m \in Msg :
    v # w /\ Holds(v, m) /\ Holds(w, m) /\ attempt[v][m] < Counted
      => attempt[v][m] # attempt[w][m]

(* A worker that still owns the lease holds the copy of the latest claim:   *)
(* finalising by owner never finalises somebody else's attempt, nor one of  *)
(* its own that came later.                                                 *)
OwnerIsCurrent ==
  \A w \in Worker, m \in Msg :
    Holds(w, m) /\ row[m].owner = w => attempt[w][m] = row[m].attempts

(* A message waits for another attempt only when it has one left, though    *)
(* crashes and lost leases use up attempts that no failure was recorded for. *)
PendingHasAttemptsLeft ==
  \A m \in Msg : row[m].status = "pending" => row[m].attempts < MaxAttempts

(* A finished message is never claimed, retried or finalised again, however *)
(* late a worker comes back with its copy.                                  *)
EndIsFinal ==
  [][\A m \in Msg : row[m].status \in Terminal
       => row'[m].status = row[m].status /\ row'[m].attempts = row[m].attempts]_vars

(* Every enqueued message ends, as long as one worker keeps running.        *)
EveryMessageEnds ==
  \A m \in Msg : row[m].status = "pending" ~> row[m].status \in Terminal

(* Why the above hold.                                                      *)
ClaimsDisjoint ==
  \A w \in Worker : pc[w] = "claiming" =>
    \A m \in batch[w] : Due(m) /\ ~Locked(w, m)

CopiesOld ==
  \A w \in Worker, m \in Msg :
    Holds(w, m) => /\ row[m].status # "none"
                   /\ attempt[w][m] =< row[m].attempts
                   /\ attempt[w][m] > 0

Memory ==
  \A w \in Worker :
    /\ pc[w] \in {"sending", "accepted", "failed", "rejected"} <=> current[w] # NoMsg
    /\ current[w] \notin batch[w]
    /\ pc[w] = "accepted" => current[w] \in mailbox

Delivered ==
  \A m \in Msg : /\ m \in mailbox => row[m].status # "none"
                 /\ row[m].status = "succeeded" => m \in mailbox
                 /\ row[m].status = "none" => row[m].attempts = 0

IndInv == /\ TypeOK /\ ClaimsDisjoint /\ CopiesOld /\ Memory /\ Delivered
          /\ OneWorkerPerAttempt /\ OwnerIsCurrent /\ PendingHasAttemptsLeft

-----------------------------------------------------------------------------
Stage == [m \in Msg |-> IF row[m].status = "processing" \/ row[m].status = "pending"
                        THEN "queued" ELSE row[m].status]

Delivery == INSTANCE EmailDelivery WITH stage <- Stage

(* Leases and workers implement at-least-once delivery: a message ends once, *)
(* as succeeded only after the provider has accepted it.                    *)
ImplementsDelivery == Delivery!Spec
=============================================================================
