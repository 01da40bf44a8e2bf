--------------------------- MODULE EmailDelivery ---------------------------
(***************************************************************************)
(* What the transactional outbox promises, with no workers and no leases:  *)
(* a queued message is delivered any number of times, and ends exactly     *)
(* once, as succeeded only if it was delivered.  A copy can still arrive   *)
(* after the end.                                                          *)
(***************************************************************************)
CONSTANT Msg

VARIABLES stage,     \* stage[m] \in {"none", "queued", "succeeded", "dead_letter"}
          mailbox    \* the messages the recipients have got

vars == <<stage, mailbox>>

TypeOK ==
  /\ stage \in [Msg -> {"none", "queued", "succeeded", "dead_letter"}]
  /\ mailbox \in SUBSET Msg

Init == stage = [m \in Msg |-> "none"] /\ mailbox = {}

Enqueue(m) ==
  /\ stage[m] = "none"
  /\ stage' = [stage EXCEPT ![m] = "queued"]
  /\ UNCHANGED mailbox

Deliver(m) ==
  /\ stage[m] # "none"
  /\ mailbox' = mailbox \cup {m}
  /\ UNCHANGED stage

Succeed(m) ==
  /\ stage[m] = "queued" /\ m \in mailbox
  /\ stage' = [stage EXCEPT ![m] = "succeeded"]
  /\ UNCHANGED mailbox

GiveUp(m) ==
  /\ stage[m] = "queued"
  /\ stage' = [stage EXCEPT ![m] = "dead_letter"]
  /\ UNCHANGED mailbox

Next == \E m \in Msg : Enqueue(m) \/ Deliver(m) \/ Succeed(m) \/ GiveUp(m)

Spec == Init /\ [][Next]_vars
=============================================================================
