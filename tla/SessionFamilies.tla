-------------------------- MODULE SessionFamilies --------------------------
(***************************************************************************)
(* What the refresh-token sessions promise, with no database underneath: a *)
(* sign-in opens a family with one current token; a rotation replaces the  *)
(* current token by one never issued before; a family that is closed stays *)
(* closed, and no token is ever issued into it again.                      *)
(***************************************************************************)
CONSTANTS Token,     \* refresh tokens; a family bears the name of its first one
          NoToken    \* "no current token"

VARIABLES life,      \* life[f] \in {"none", "open", "closed"}
          current,   \* the one usable token of an open family
          issued     \* every token handed out so far

vars == <<life, current, issued>>

TypeOK ==
  /\ life \in [Token -> {"none", "open", "closed"}]
  /\ current \in [Token -> Token \cup {NoToken}]
  /\ issued \in SUBSET Token

Init ==
  /\ life = [f \in Token |-> "none"]
  /\ current = [f \in Token |-> NoToken]
  /\ issued = {}

(* A sign-in: the new family is named after its first token. *)
Open(f) ==
  /\ life[f] = "none" /\ f \notin issued
  /\ life' = [life EXCEPT ![f] = "open"]
  /\ current' = [current EXCEPT ![f] = f]
  /\ issued' = issued \cup {f}

(* A rotation: the current token is spent, a fresh one takes its place. *)
Rotate(f, t) ==
  /\ life[f] = "open" /\ t \notin issued
  /\ current' = [current EXCEPT ![f] = t]
  /\ issued' = issued \cup {t}
  /\ UNCHANGED life

(* A revocation closes open families, several at once if need be. *)
Close(S) ==
  /\ \A f \in S : life[f] = "open"
  /\ life' = [f \in Token |-> IF f \in S THEN "closed" ELSE life[f]]
  /\ current' = [f \in Token |-> IF f \in S THEN NoToken ELSE current[f]]
  /\ UNCHANGED issued

Next ==
  \/ \E f \in Token : Open(f)
  \/ \E f, t \in Token : Rotate(f, t)
  \/ \E S \in SUBSET Token : Close(S)

Spec == Init /\ [][Next]_vars
=============================================================================
