------------------------------ MODULE SingleUse ------------------------------
(***************************************************************************)
(* What one-time credentials promise (recovery codes, login challenges,    *)
(* e-mailed action tokens): each is issued once, and then either used once *)
(* or withdrawn; whatever happened to it, it is never usable again.        *)
(***************************************************************************)
EXTENDS Naturals

CONSTANT Item

VARIABLES stage,   \* stage[i] \in {"none", "open", "used", "withdrawn"}
          uses     \* how often i was accepted

vars == <<stage, uses>>

Init == stage = [i \in Item |-> "none"] /\ uses = [i \in Item |-> 0]

Open(i) == stage[i] = "open"

(* New items are issued; the older ones W are withdrawn with the same step. *)
Issue(N, W) ==
  /\ \A i \in N : stage[i] = "none"
  /\ \A i \in W : Open(i)
  /\ stage' = [i \in Item |-> IF i \in N THEN "open"
                              ELSE IF i \in W THEN "withdrawn" ELSE stage[i]]
  /\ UNCHANGED uses

(* One item is used, and others may be withdrawn along with it. *)
Use(i, W) ==
  /\ Open(i) /\ \A j \in W : Open(j)
  /\ stage' = [j \in Item |-> IF j = i THEN "used"
                              ELSE IF j \in W THEN "withdrawn" ELSE stage[j]]
  /\ uses' = [uses EXCEPT ![i] = @ + 1]

Next == \/ \E N, W \in SUBSET Item : Issue(N, W)
        \/ \E i \in Item, W \in SUBSET Item : Use(i, W)

Spec == Init /\ [][Next]_vars
=============================================================================
