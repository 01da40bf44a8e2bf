---------------------------- MODULE RateLimiter ----------------------------
(***************************************************************************)
(* The request quota per client address and fixed window of time           *)
(* (app/middlewares/rate_limit.py), with its two backends.                 *)
(*                                                                         *)
(* "redis": all processes count in Redis, one key per client and window,   *)
(* by a script that Redis runs in one step; the reply is on its way while  *)
(* others are counted, and may be late or lost.  "memory": each process    *)
(* counts in a table of its own, in one go but looking at the clock twice, *)
(* and the window may end between the two looks.  A member of Proc is a    *)
(* request with the first backend and a process with the second.           *)
(***************************************************************************)
EXTENDS Naturals

CONSTANTS Proc, Client,
          Limit,    \* RATE_LIMIT_LIMIT
          Window,   \* RATE_LIMIT_WINDOW_SECONDS
          Shared,   \* the store all processes share: Redis
          Nobody

ASSUME Settings == Limit \in Nat \ {0} /\ Window \in Nat \ {0}
ASSUME Sentinels == Shared \notin Proc /\ Nobody \notin Client

VARIABLES backend,   \* RATE_LIMIT_BACKEND
          phase,     \* seconds since the present window began
          counter,   \* Redis: the keys of the present and the two last windows
          table,     \* the table of each process: one window and count per client
          req,       \* the decision each member of Proc is about
          used       \* per store and client: numbers that have let a request pass

vars == <<backend, phase, counter, table, req, used>>

(* Bound: counts are told apart up to the first one that is refused. *)
Numbers == 0..Limit + 1
Next1(n) == IF n > Limit THEN n ELSE n + 1

(* A number in a window, the window as its age: 0 is the present one. *)
Ticket == (0..1) \X (1..Limit)

None == [n |-> 0, left |-> 0]
Blank == [age |-> 0, n |-> 0]
Idle == [pc |-> "idle", client |-> Nobody, age |-> 0, n |-> 0, retry |-> 0]

Request == [pc: {"idle", "sent", "abandoned", "decided", "counting"}, client: Client \cup {Nobody},
            age: 0..1, n: Numbers, retry: 0..Window]

TypeOK ==
  /\ backend \in {"memory", "redis"} /\ phase \in 0..Window - 1
  /\ counter \in [Client -> [0..2 -> [n: Numbers, left: 0..2 * Window]]]
  /\ table \in [Proc -> [Client -> [age: 0..1, n: Numbers]]]
  /\ req \in [Proc -> Request]
  /\ used \in [Proc \cup {Shared} -> [Client -> SUBSET Ticket]]

Init ==
  /\ backend \in {"memory", "redis"} /\ phase = 0
  /\ counter = [c \in Client |-> [a \in 0..2 |-> None]]
  /\ table = [p \in Proc |-> [c \in Client |-> Blank]]
  /\ req = [p \in Proc |-> Idle]
  /\ used = [s \in Proc \cup {Shared} |-> [c \in Client |-> {}]]

Store(p) == IF backend = "redis" THEN Shared ELSE p
At(p, pc) == req[p].pc = pc
End(p) == req' = [req EXCEPT ![p] = Idle]

(* The request passes, and its number in its window is used. *)
Use(p, c, a, n) == used' = [used EXCEPT ![Store(p)][c] = @ \cup {<<a, n>>}]

-----------------------------------------------------------------------------
(* Redis: the request is on the wire. *)
Send(p, c) ==
  /\ backend = "redis" /\ At(p, "idle")
  /\ req' = [req EXCEPT ![p] = [Idle EXCEPT !.pc = "sent", !.client = c]]
  /\ UNCHANGED <<backend, phase, counter, table, used>>

(* Faulty variant: Retry-After is the time since the window began. *)
ExecuteElapsed(p) ==
  LET c == req[p].client
      n == Next1(counter[c][0].n) IN
  /\ At(p, "sent") \/ At(p, "abandoned")
  /\ counter' = [counter EXCEPT ![c][0] =
       [n |-> n, left |-> IF @.left = 0 THEN 2 * Window ELSE @.left]]
  /\ req' = [req EXCEPT ![p] = IF At(p, "abandoned") THEN Idle ELSE
               [@ EXCEPT !.pc = "decided", !.n = n, !.retry = phase]]
  /\ UNCHANGED <<backend, phase, table, used>>

(* REDIS_RATE_LIMIT_SCRIPT: INCR, EXPIRE for a key without a time to live,  *)
(* the reply.  A command may be executed after its sender has given up.     *)
Execute(p) ==
  LET c == req[p].client
      n == Next1(counter[c][0].n) IN
  /\ At(p, "sent") \/ At(p, "abandoned")
  /\ counter' = [counter EXCEPT ![c][0] =
       [n |-> n, left |-> IF @.left = 0 THEN 2 * Window ELSE @.left]]
  /\ req' = [req EXCEPT ![p] = IF At(p, "abandoned") THEN Idle ELSE
               [@ EXCEPT !.pc = "decided", !.n = n, !.retry = Window - phase]]
  /\ UNCHANGED <<backend, phase, table, used>>

Pass(p) ==
  /\ At(p, "decided") /\ req[p].n <= Limit
  /\ Use(p, req[p].client, req[p].age, req[p].n)
  /\ End(p) /\ UNCHANGED <<backend, phase, counter, table>>

(* 429 with Retry-After. *)
Block(p) ==
  /\ At(p, "decided") /\ req[p].n > Limit
  /\ End(p) /\ UNCHANGED <<backend, phase, counter, table, used>>

(* No connection, an error, a time-out: the request passes without a number *)
(* or is answered 503, as RATE_LIMIT_FAILURE_MODE says.                     *)
Fail(p) ==
  /\ req[p].pc \in {"sent", "decided", "abandoned"}
  /\ \/ End(p)
     \/ At(p, "sent") /\ req' = [req EXCEPT ![p].pc = "abandoned"]
  /\ UNCHANGED <<backend, phase, counter, table, used>>

-----------------------------------------------------------------------------
(* Memory: RateLimiter.check looks at the clock ... *)
Check(p, c) ==
  /\ backend = "memory" /\ At(p, "idle")
  /\ req' = [req EXCEPT ![p] = [Idle EXCEPT !.pc = "counting", !.client = c,
                                            !.retry = Window - phase]]
  /\ UNCHANGED <<backend, phase, counter, table, used>>

(* Faulty variant: cleanup drops the present window as well. *)
CleanedEagerly(p) == [c \in Client |-> Blank]

(* ... and so does cleanup, which drops all entries of windows that are     *)
(* over by then.                                                            *)
Cleaned(p) == [c \in Client |-> IF table[p][c].age = 0 THEN table[p][c] ELSE Blank]

(* The count in the window of the first look; it starts again if cleanup    *)
(* has just dropped it.                                                     *)
Counted(p) ==
  LET e == Cleaned(p)[req[p].client] IN Next1(IF e.age = req[p].age THEN e.n ELSE 0)

Count(p) ==
  /\ At(p, "counting")
  /\ table' = [table EXCEPT ![p] =
       [Cleaned(p) EXCEPT ![req[p].client] = [age |-> req[p].age, n |-> Counted(p)]]]
  /\ IF Counted(p) <= Limit THEN Use(p, req[p].client, req[p].age, Counted(p))
                            ELSE UNCHANGED used
  /\ End(p) /\ UNCHANGED <<backend, phase, counter>>

(* A worker dies; its table is lost, and so is what it had counted. *)
Crash(p) ==
  /\ table' = [table EXCEPT ![p] = [c \in Client |-> Blank]]
  /\ used' = [used EXCEPT ![p] = [c \in Client |-> {}]]
  /\ End(p) /\ UNCHANGED <<backend, phase, counter>>

-----------------------------------------------------------------------------
Expire(k) == IF k.left <= 1 THEN None ELSE [k EXCEPT !.left = @ - 1]

(* Time passes within a window. *)
Tick ==
  /\ phase < Window - 1 /\ phase' = phase + 1
  /\ counter' = [c \in Client |-> [a \in 0..2 |-> Expire(counter[c][a])]]
  /\ UNCHANGED <<backend, table, req, used>>

(* A window ends.  Timely: a reply or a check under way belongs to this     *)
(* window, not to one before it.  This assumes a deployment whose socket    *)
(* time-outs (1 s, at most 30 s) are no longer than its window (60 s, at    *)
(* least 1 s): the configuration checks each by itself.                     *)
Roll ==
  /\ phase = Window - 1 /\ phase' = 0
  /\ \A p \in Proc : req[p].age = 0
  /\ counter' = [c \in Client |->
       [a \in 0..2 |-> IF a = 0 THEN None ELSE Expire(counter[c][a - 1])]]
  /\ table' = [p \in Proc |-> [c \in Client |-> [table[p][c] EXCEPT !.age = 1]]]
  /\ req' = [p \in Proc |-> [req[p] EXCEPT !.age = IF req[p].pc \in {"decided", "counting"} THEN 1 ELSE 0]]
  /\ used' = [s \in Proc \cup {Shared} |-> [c \in Client |->
       {t \in Ticket : t[1] = 1 /\ <<0, t[2]>> \in used[s][c]}]]
  /\ UNCHANGED backend

Next ==
  \/ \E p \in Proc : \/ \E c \in Client : Send(p, c) \/ Check(p, c)
                     \/ Execute(p) \/ Pass(p) \/ Block(p) \/ Fail(p) \/ Count(p) \/ Crash(p)
  \/ Tick \/ Roll

Spec == Init /\ [][Next]_vars

-----------------------------------------------------------------------------
(* The number with which p lets a request pass. *)
Passes(p, t) == \/ Pass(p) /\ t = <<req[p].age, req[p].n>>
                \/ Count(p) /\ Counted(p) <= Limit /\ t = <<req[p].age, Counted(p)>>

(* Each of the Limit numbers of a window lets one request pass, however     *)
(* late its reply is: Limit requests of a window pass, and no more than     *)
(* twice as many in any one window.  The exception is one request, whose    *)
(* check sees the window end between its two looks at the clock.            *)
QuotaKept ==
  [][\A p \in Proc, t \in Ticket : Passes(p, t) /\ ~(At(p, "counting") /\ req[p].age = 1) =>
       t \notin used[Store(p)][req[p].client]]_vars

(* A client that waits as long as its 429 says finds the window over that   *)
(* refused it, also when the reply was long under way.                      *)
RetryHonest ==
  \A p \in Proc : req[p].pc \in {"decided", "counting"} /\ req[p].age = 0 =>
    req[p].retry >= Window - phase

-----------------------------------------------------------------------------
(* Why the above hold.  A key outlives its window, and is gone two windows  *)
(* later, so the counter of a window starts at zero and never starts again. *)
Keys ==
  \A c \in Client :
    /\ \A a \in 0..2 : counter[c][a].n = 0 <=> counter[c][a].left = 0
    /\ counter[c][0].n > 0 => counter[c][0].left + phase >= 2 * Window
    /\ \A a \in 0..2 : counter[c][a].n > 0 =>
         counter[c][a].left + a * Window + phase < 3 * Window

(* The number a request has been given is its own and has not been used.    *)
Numbered(p) ==
  /\ req[p].pc = "idle" <=> req[p].client = Nobody
  /\ At(p, "idle") => req[p] = Idle
  /\ req[p].pc \in {"sent", "abandoned"} => req[p].age = 0
  /\ req[p].pc \in {"sent", "abandoned", "decided"} => backend = "redis"
  /\ At(p, "counting") => backend = "memory"
  /\ At(p, "counting") /\ req[p].age = 1 => \A c \in Client : table[p][c].age = 1
  /\ At(p, "decided") =>
       /\ <<req[p].age, req[p].n>> \notin used[Shared][req[p].client]
       /\ req[p].n > 0
       /\ req[p].age = 0 => req[p].n <= counter[req[p].client][0].n

Distinct ==
  \A p, q \in Proc : At(p, "decided") /\ At(q, "decided") /\ req[p].n <= Limit /\ p # q =>
    <<req[p].client, req[p].age, req[p].n>> # <<req[q].client, req[q].age, req[q].n>>

UsedCounted ==
  \A c \in Client, n \in 1..Limit :
    /\ <<0, n>> \in used[Shared][c] => n <= counter[c][0].n
    /\ \A p \in Proc : <<0, n>> \in used[p][c] => table[p][c].age = 0 /\ n <= table[p][c].n

IndInv == /\ TypeOK /\ Keys /\ Distinct /\ UsedCounted /\ RetryHonest
          /\ \A p \in Proc : Numbered(p)
=============================================================================
