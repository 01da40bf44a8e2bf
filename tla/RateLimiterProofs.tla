------------------------- MODULE RateLimiterProofs -------------------------
(***************************************************************************)
(* The safety properties of RateLimiter, for every set of processes and    *)
(* clients, every limit and every window.                                  *)
(***************************************************************************)
EXTENDS RateLimiter, Integers, TLAPS

LEMMA Nexts ==
  ASSUME NEW n \in Numbers
  PROVE  /\ Next1(n) \in Numbers /\ Next1(n) > 0 /\ n <= Next1(n)
         /\ Next1(n) <= Limit => Next1(n) > n
BY Settings DEF Next1, Numbers

LEMMA Typical ==
  /\ None \in [n: Numbers, left: 0..2 * Window]
  /\ Blank \in [age: 0..1, n: Numbers]
  /\ Idle \in Request
<1>1. 0 \in Numbers /\ 0 \in 0..Window /\ 0 \in 0..2 * Window
  BY Settings DEF Numbers
<1> QED BY <1>1 DEF None, Blank, Idle, Request

LEMMA InitIndInv == Init => IndInv
<1> SUFFICES ASSUME Init PROVE IndInv
  OBVIOUS
<1>1. TypeOK
  BY Typical, Settings DEF Init, TypeOK
<1>2. Keys
  BY DEF Init, Keys, None
<1>3. Distinct /\ UsedCounted /\ RetryHonest
  BY DEF Init, Distinct, UsedCounted, RetryHonest, At, Idle
<1>4. \A p \in Proc : Numbered(p)
  BY DEF Init, Numbered, At, Idle
<1> QED BY <1>1, <1>2, <1>3, <1>4 DEF IndInv

-----------------------------------------------------------------------------
(* A step in which p goes on with x and no number is given or used.         *)
LEMMA RequestStep ==
  ASSUME IndInv, NEW p \in Proc, NEW x \in Request, x.pc # "decided",
         req' = [req EXCEPT ![p] = x],
         UNCHANGED <<backend, phase, counter, table, used>>,
         (Numbered(p))', x.pc = "counting" /\ x.age = 0 => x.retry >= Window - phase
  PROVE  IndInv'
<1>1. TypeOK' /\ Keys' /\ UsedCounted' /\ req \in [Proc -> Request]
  BY DEF IndInv, TypeOK, Keys, UsedCounted
<1>2. Distinct' /\ RetryHonest'
  BY <1>1 DEF IndInv, Distinct, RetryHonest, At
<1>3. ASSUME NEW q \in Proc PROVE (Numbered(q))'
  BY <1>1 DEF IndInv, Numbered, At
<1> QED BY <1>1, <1>2, <1>3 DEF IndInv

(* ... to end the request.                                                  *)
LEMMA EndStep ==
  ASSUME IndInv, NEW p \in Proc, End(p), UNCHANGED <<backend, phase, counter, table, used>>
  PROVE  IndInv'
<1>1. (Numbered(p))'
  BY DEF End, Numbered, At, Idle, IndInv, TypeOK
<1>2. Idle \in Request /\ Idle.pc # "decided" /\ ~(Idle.pc = "counting" /\ Idle.age = 0)
  BY Typical DEF Idle
<1>3. req' = [req EXCEPT ![p] = Idle]
  BY DEF End
<1> QED BY <1>1, <1>2, <1>3, RequestStep

LEMMA WireStep ==
  ASSUME IndInv, NEW p \in Proc, NEW c \in Client, Send(p, c) \/ Check(p, c)
  PROVE  IndInv'
<1>1. req \in [Proc -> Request] /\ phase \in 0..Window - 1 /\ Numbered(p)
  BY DEF IndInv, TypeOK
<1>2. CASE Send(p, c)
  <2> DEFINE x == [Idle EXCEPT !.pc = "sent", !.client = c]
  <2>1. x \in Request
    BY Typical DEF Request
  <2>2. (Numbered(p))'
    BY <1>1, <1>2, Sentinels DEF Send, Numbered, At, Idle
  <2> QED BY <1>2, <2>1, <2>2, RequestStep DEF Send, Idle
<1>3. CASE Check(p, c)
  <2> DEFINE x == [Idle EXCEPT !.pc = "counting", !.client = c, !.retry = Window - phase]
  <2>1. Window - phase \in 0..Window
    BY <1>1, Settings
  <2>2. x \in Request
    BY <2>1, Typical DEF Request
  <2>3. (Numbered(p))'
    BY <1>1, <1>3, Sentinels DEF Check, Numbered, At, Idle
  <2>4. x.pc # "decided" /\ x.retry >= Window - phase
    BY <2>1 DEF Idle
  <2>5. req' = [req EXCEPT ![p] = x] /\ UNCHANGED <<backend, phase, counter, table, used>>
    BY <1>3 DEF Check
  <2> HIDE DEF x
  <2> QED BY <2>2, <2>3, <2>4, <2>5, RequestStep
<1> QED BY <1>2, <1>3

LEMMA EndingStep ==
  ASSUME IndInv, NEW p \in Proc, Block(p) \/ Fail(p)
  PROVE  IndInv'
<1>1. req \in [Proc -> Request] /\ phase \in 0..Window - 1 /\ Numbered(p)
  BY DEF IndInv, TypeOK
<1>2. CASE Block(p)
  BY <1>2, EndStep DEF Block
<1>3. CASE Fail(p)
  <2>1. CASE End(p)
    BY <1>3, <2>1, EndStep DEF Fail
  <2>2. CASE At(p, "sent") /\ req' = [req EXCEPT ![p].pc = "abandoned"]
    <3> DEFINE x == [req[p] EXCEPT !.pc = "abandoned"]
    <3>1. x \in Request
      BY <1>1 DEF Request
    <3>2. (Numbered(p))'
      BY <1>1, <1>3, <2>2 DEF Fail, Numbered, At, Request
    <3>3. x.pc = "abandoned"
      BY <1>1 DEF Request
    <3> QED BY <1>3, <2>2, <3>1, <3>2, <3>3, RequestStep DEF Fail
  <2> QED BY <1>3, <2>1, <2>2 DEF Fail
<1> QED BY <1>2, <1>3

-----------------------------------------------------------------------------
(* The script gives out the next number of the present window.              *)
LEMMA ExecuteStep == ASSUME IndInv, NEW p \in Proc, Execute(p) PROVE IndInv'
<1> DEFINE c == req[p].client
           m == Next1(counter[c][0].n)
           k == [n |-> m, left |-> IF counter[c][0].left = 0 THEN 2 * Window ELSE counter[c][0].left]
           x == [req[p] EXCEPT !.pc = "decided", !.n = m, !.retry = Window - phase]
<1>1. /\ req \in [Proc -> Request] /\ phase \in 0..Window - 1 /\ Numbered(p)
      /\ counter \in [Client -> [0..2 -> [n: Numbers, left: 0..2 * Window]]]
      /\ backend = "redis" /\ req[p].age = 0 /\ c \in Client
  BY DEF IndInv, TypeOK, Execute, Numbered, At, Request
<1>2. counter' = [counter EXCEPT ![c][0] = k] /\ UNCHANGED <<backend, phase, table, used>>
  BY DEF Execute
<1>3. /\ counter[c][0].n \in Numbers /\ counter[c][0].left \in 0..2 * Window /\ m \in Numbers /\ m > 0
      /\ counter[c][0].n <= m /\ (m <= Limit => m > counter[c][0].n)
  BY <1>1, Nexts
<1>4. k \in [n: Numbers, left: 0..2 * Window]
  BY <1>3, Settings
<1>5. /\ counter' \in [Client -> [0..2 -> [n: Numbers, left: 0..2 * Window]]]
      /\ counter'[c][0].n = m /\ counter'[c][0].left = k.left
      /\ \A d \in Client, a \in 0..2 : d # c \/ a # 0 => counter'[d][a] = counter[d][a]
  BY <1>1, <1>2, <1>4
<1>6. Keys'
  <2>1. k.left # 0 /\ k.left + phase >= 2 * Window /\ k.left + phase < 3 * Window
    <3>1. CASE counter[c][0].left = 0
      BY <1>1, <3>1, Settings
    <3>2. CASE counter[c][0].left # 0
      <4>1. counter[c][0].n > 0
        BY <1>1, <1>3, <3>2, Settings DEF IndInv, Keys, Numbers
      <4>2. counter[c][0].left + phase >= 2 * Window /\ counter[c][0].left + 0 * Window + phase < 3 * Window
        BY <1>1, <4>1 DEF IndInv, Keys
      <4> QED BY <1>1, <1>3, <3>2, <4>2, Settings
    <3> QED BY <3>1, <3>2
  <2>0. phase' = phase
    BY <1>2
  <2> HIDE DEF m, k
  <2> SUFFICES ASSUME NEW d \in Client
               PROVE  /\ \A a \in 0..2 : counter'[d][a].n = 0 <=> counter'[d][a].left = 0
                      /\ counter'[d][0].n > 0 => counter'[d][0].left + phase' >= 2 * Window
                      /\ \A a \in 0..2 : counter'[d][a].n > 0 =>
                           counter'[d][a].left + a * Window + phase' < 3 * Window
    BY DEF Keys
  <2>2. counter'[d][0].n > 0 => counter'[d][0].left + phase' >= 2 * Window
    BY <1>5, <2>0, <2>1 DEF IndInv, Keys
  <2>3. ASSUME NEW a \in 0..2
        PROVE  /\ counter'[d][a].n = 0 <=> counter'[d][a].left = 0
               /\ counter'[d][a].n > 0 => counter'[d][a].left + a * Window + phase' < 3 * Window
    <3>1. CASE d = c /\ a = 0
      BY <1>1, <1>3, <1>4, <1>5, <2>0, <2>1, <3>1, Settings
    <3>2. CASE ~(d = c /\ a = 0)
      <4>1. counter'[d][a] = counter[d][a]
        BY <1>5, <3>2
      <4>2. /\ counter[d][a].n = 0 <=> counter[d][a].left = 0
            /\ counter[d][a].n > 0 => counter[d][a].left + a * Window + phase < 3 * Window
        BY DEF IndInv, Keys
      <4> QED BY <2>0, <4>1, <4>2
    <3> QED BY <3>1, <3>2
  <2> QED BY <2>2, <2>3
<1>7. UsedCounted'
  <2> SUFFICES ASSUME NEW d \in Client, NEW n \in 1..Limit
               PROVE  /\ <<0, n>> \in used[Shared][d] => n <= counter'[d][0].n
                      /\ \A q \in Proc : <<0, n>> \in used[q][d] => table[q][d].age = 0 /\ n <= table[q][d].n
    BY <1>2 DEF UsedCounted
  <2>1. counter[d][0].n <= counter'[d][0].n /\ counter[d][0].n \in Nat /\ counter'[d][0].n \in Nat
    BY <1>1, <1>3, <1>5, Settings DEF Numbers
  <2> QED BY <2>1 DEF IndInv, UsedCounted
(* Whoever has a number of the present window has a smaller one. *)
<1>8. \A q \in Proc \ {p} : At(q, "decided") /\ req[q].client = c /\ req[q].age = 0 => req[q].n <= counter[c][0].n
  BY DEF IndInv, Numbered
<1>9. \A n \in 1..Limit : <<0, n>> \in used[Shared][c] => n <= counter[c][0].n
  BY <1>1 DEF IndInv, UsedCounted
<1>10. x \in Request
  <2>1. Window - phase \in 0..Window
    BY <1>1, Settings
  <2>2. req[p] \in Request
    BY <1>1
  <2> QED BY <1>3, <2>1, <2>2 DEF Request
<1>11. ASSUME NEW q \in Proc, q # p, req'[q] = req[q] PROVE (Numbered(q))'
  <2>1. Numbered(q) /\ req[q] \in Request
    BY <1>1 DEF IndInv
  <2>2. CASE At(q, "decided")
    <3>1. req[q].client \in Client /\ req[q].n \in Nat
      BY <2>1, <2>2, Settings DEF Numbered, Request, At, Numbers
    <3>0. \A d \in Client : counter[d][0] \in [n: Numbers, left: 0..2 * Window]
      BY <1>1
    <3>2. counter[req[q].client][0].n \in Nat /\ counter[req[q].client][0].n <= counter'[req[q].client][0].n
      <4>1. counter[req[q].client][0].n \in Nat
        BY <3>0, <3>1, Settings DEF Numbers
      <4> QED BY <1>3, <1>5, <3>1, <4>1
    <3>3. counter'[req[q].client][0].n \in Nat
      BY <1>5, <3>1, Settings DEF Numbers
    <3>4. req[q].age = 0 => req[q].n <= counter'[req[q].client][0].n
      BY <2>1, <2>2, <3>1, <3>2, <3>3 DEF Numbered
    <3> QED BY <1>2, <1>11, <2>1, <2>2, <3>4 DEF Numbered, At
  <2>3. CASE ~At(q, "decided")
    BY <1>2, <1>11, <2>1, <2>3 DEF Numbered, At
  <2> QED BY <2>2, <2>3
<1> HIDE DEF x, k
<1>12. CASE At(p, "abandoned")
  <2>1. req' = [req EXCEPT ![p] = Idle]
    BY <1>12 DEF Execute
  <2>0. /\ req' \in [Proc -> Request] /\ req'[p].pc = "idle"
        /\ \A q \in Proc \ {p} : req'[q] = req[q]
    BY <1>1, <2>1, Typical DEF Idle
  <2>2. TypeOK'
    BY <1>2, <1>5, <2>0 DEF IndInv, TypeOK
  <2>4. RetryHonest' /\ Distinct'
    BY <1>2, <2>0 DEF IndInv, RetryHonest, Distinct, At
  <2>3. ASSUME NEW q \in Proc PROVE (Numbered(q))'
    <3>1. CASE q = p
      BY <1>1, <2>1, <3>1 DEF Numbered, At, Idle
    <3>2. CASE q # p
      BY <1>11, <2>0, <3>2
    <3> QED BY <3>1, <3>2
  <2> QED BY <1>6, <1>7, <2>2, <2>3, <2>4 DEF IndInv
<1>13. CASE At(p, "sent")
  <2>1. req' = [req EXCEPT ![p] = x] /\ ~At(p, "abandoned")
    BY <1>13 DEF Execute, At, x
  <2>2. /\ req'[p] = x /\ x.pc = "decided" /\ x.n = m /\ x.age = 0 /\ x.client = c
        /\ x.retry = Window - phase /\ \A q \in Proc \ {p} : req'[q] = req[q]
    BY <1>1, <2>1 DEF Request, x
  <2>3. TypeOK'
    BY <1>1, <1>2, <1>5, <1>10, <2>1 DEF IndInv, TypeOK
  <2>4. RetryHonest'
    <3> SUFFICES ASSUME NEW q \in Proc, req'[q].pc \in {"decided", "counting"} /\ req'[q].age = 0
                 PROVE  req'[q].retry >= Window - phase
      BY <1>2 DEF RetryHonest
    <3>1. CASE q = p
      BY <1>1, <2>2, <3>1, Settings
    <3>2. CASE q # p
      BY <2>2, <3>2 DEF IndInv, RetryHonest
    <3> QED BY <3>1, <3>2
  <2>5. Distinct'
    <3> SUFFICES ASSUME NEW q \in Proc, NEW r \in Proc, At(q, "decided")', At(r, "decided")',
                        req'[q].n <= Limit, q # r,
                        <<req'[q].client, req'[q].age, req'[q].n>> = <<req'[r].client, req'[r].age, req'[r].n>>
                 PROVE  FALSE
      BY DEF Distinct
    <3>0. m <= Limit => m > counter[c][0].n
      BY <1>3
    <3>1. CASE q = p
      <4>1. r # p /\ req'[r] = req[r] /\ At(r, "decided") /\ req[r].client = c /\ req[r].age = 0
            /\ req[r].n = m /\ m <= Limit
        BY <2>2, <3>1 DEF At
      <4> QED BY <1>3, <1>8, <4>1, Settings DEF Numbers
    <3>2. CASE r = p
      <4>1. q # p /\ req'[q] = req[q] /\ At(q, "decided") /\ req[q].client = c /\ req[q].age = 0
            /\ req[q].n = m /\ m <= Limit
        BY <2>2, <3>2 DEF At
      <4> QED BY <1>3, <1>8, <4>1, Settings DEF Numbers
    <3>3. CASE q # p /\ r # p
      BY <2>2, <3>3 DEF IndInv, Distinct, At
    <3> QED BY <3>1, <3>2, <3>3
  <2>6. ASSUME NEW q \in Proc PROVE (Numbered(q))'
    <3>1. CASE q = p
      <4>1. <<0, m>> \notin used[Shared][c]
        <5>1. used[Shared][c] \in SUBSET Ticket
          BY <1>1 DEF IndInv, TypeOK
        <5> QED BY <1>3, <1>9, <5>1, Settings DEF Ticket, Numbers
      <4>2. m <= counter'[c][0].n
        BY <1>3, <1>5, Settings DEF Numbers
      <4>3. c # Nobody /\ m > 0 /\ backend' = "redis" /\ used' = used
        BY <1>1, <1>2, <1>3, Sentinels
      <4> HIDE DEF m, c
      <4> QED BY <2>2, <3>1, <4>1, <4>2, <4>3 DEF Numbered, At
    <3>2. CASE q # p
      BY <1>11, <2>2, <3>2
    <3> QED BY <3>1, <3>2
  <2> QED BY <1>6, <1>7, <2>3, <2>4, <2>5, <2>6 DEF IndInv
<1> QED BY <1>12, <1>13 DEF Execute

-----------------------------------------------------------------------------
(* The request that passes uses a number nobody else has.                   *)
LEMMA PassStep == ASSUME IndInv, NEW p \in Proc, Pass(p) PROVE IndInv'
<1> DEFINE c == req[p].client
           t == <<req[p].age, req[p].n>>
<1>1. /\ req \in [Proc -> Request] /\ req[p] \in Request /\ Numbered(p) /\ c \in Client /\ backend = "redis"
      /\ used \in [Proc \cup {Shared} -> [Client -> SUBSET Ticket]]
  BY DEF IndInv, TypeOK, Pass, Numbered, At, Request
<1>2. /\ used' = [used EXCEPT ![Shared][c] = @ \cup {t}]
      /\ req' \in [Proc -> Request] /\ req'[p] = Idle /\ \A q \in Proc \ {p} : req'[q] = req[q]
      /\ UNCHANGED <<backend, phase, counter, table>>
  BY <1>1, Typical DEF Pass, Use, Store, End
<1>3. t \in Ticket /\ req[p].n \in 1..Limit
  BY <1>1, Settings DEF Pass, Ticket, Request, Numbered, At, Numbers
<1>4. /\ used' \in [Proc \cup {Shared} -> [Client -> SUBSET Ticket]]
      /\ used'[Shared][c] = used[Shared][c] \cup {t}
      /\ \A d \in Client \ {c} : used'[Shared][d] = used[Shared][d]
      /\ \A q \in Proc : used'[q] = used[q]
  BY <1>1, <1>2, <1>3, Sentinels
<1>5. TypeOK' /\ Keys'
  BY <1>2, <1>4 DEF IndInv, TypeOK, Keys
<1>6. Distinct' /\ RetryHonest'
  BY <1>2 DEF IndInv, Distinct, RetryHonest, At, Idle
<1>7. UsedCounted'
  <2> SUFFICES ASSUME NEW d \in Client, NEW n \in 1..Limit
               PROVE  /\ <<0, n>> \in used'[Shared][d] => n <= counter[d][0].n
                      /\ \A q \in Proc : <<0, n>> \in used'[q][d] => table[q][d].age = 0 /\ n <= table[q][d].n
    BY <1>2 DEF UsedCounted
  <2>1. <<0, n>> \in used'[Shared][d] => n <= counter[d][0].n
    <3>1. CASE <<0, n>> = t /\ d = c
      BY <1>1, <3>1 DEF Numbered, Pass, At
    <3>2. CASE ~(<<0, n>> = t /\ d = c)
      BY <1>4, <3>2 DEF IndInv, UsedCounted
    <3> QED BY <3>1, <3>2
  <2> QED BY <1>4, <2>1 DEF IndInv, UsedCounted
<1>8. ASSUME NEW q \in Proc PROVE (Numbered(q))'
  <2>1. CASE q = p
    BY <1>1, <1>2, <2>1 DEF Numbered, At, Idle
  <2>2. CASE q # p
    <3>1. req'[q] = req[q] /\ Numbered(q)
      BY <1>2, <2>2 DEF IndInv
    <3>2. At(q, "decided") => <<req[q].age, req[q].n>> \notin used'[Shared][req[q].client]
      <4>1. SUFFICES ASSUME At(q, "decided") PROVE <<req[q].age, req[q].n>> \notin used'[Shared][req[q].client]
        OBVIOUS
      <4>2. req[q].client \in Client /\ <<req[q].age, req[q].n>> \notin used[Shared][req[q].client]
        BY <1>1, <3>1, <4>1 DEF Numbered, At, Request
      <4>3. ~(req[q].client = c /\ <<req[q].age, req[q].n>> = t)
        BY <2>2, <4>1 DEF IndInv, Distinct, Pass
      <4> QED BY <1>4, <4>2, <4>3
    <3> QED BY <1>2, <3>1, <3>2 DEF Numbered, At
  <2> QED BY <2>1, <2>2
<1> QED BY <1>5, <1>6, <1>7, <1>8 DEF IndInv

(* The number that Count gives is new, unless the window has ended.         *)
LEMMA Counting ==
  ASSUME IndInv, NEW p \in Proc, Count(p)
  PROVE  /\ backend = "memory" /\ req[p].client \in Client /\ req[p].age \in 0..1 /\ Counted(p) \in Numbers
         /\ Counted(p) > 0 /\ Cleaned(p) \in [Client -> [age: 0..1, n: Numbers]]
         /\ req[p].age = 0 => \A n \in 1..Limit : <<0, n>> \in used[p][req[p].client] =>
              /\ n <= Counted(p)
              /\ Counted(p) <= Limit => n # Counted(p)
<1> DEFINE c == req[p].client
           e == Cleaned(p)[c]
           base == IF e.age = req[p].age THEN e.n ELSE 0
<1>1. /\ backend = "memory" /\ c \in Client /\ req[p].age \in 0..1
      /\ table[p] \in [Client -> [age: 0..1, n: Numbers]]
  BY DEF IndInv, TypeOK, Count, Numbered, At, Request
<1>2. Cleaned(p) \in [Client -> [age: 0..1, n: Numbers]]
  BY <1>1, Typical DEF Cleaned
<1>3. base \in Numbers
  BY <1>1, <1>2, Settings DEF Numbers
<1>4. Counted(p) = Next1(base)
  BY DEF Counted
<1>5. /\ Counted(p) \in Numbers /\ Counted(p) > 0 /\ base <= Counted(p)
      /\ Counted(p) <= Limit => Counted(p) > base
  BY <1>3, <1>4, Nexts
<1>6. ASSUME req[p].age = 0, NEW n \in 1..Limit, <<0, n>> \in used[p][c]
      PROVE  n <= Counted(p) /\ (Counted(p) <= Limit => n # Counted(p))
  <2>1. table[p][c].age = 0 /\ n <= table[p][c].n
    BY <1>1, <1>6 DEF IndInv, UsedCounted
  <2>2. base = table[p][c].n
    BY <1>1, <1>6, <2>1 DEF Cleaned
  <2> HIDE DEF base
  <2> QED BY <1>3, <1>5, <2>1, <2>2, Settings DEF Numbers
<1> QED BY <1>1, <1>2, <1>5, <1>6

LEMMA CountStep == ASSUME IndInv, NEW p \in Proc, Count(p) PROVE IndInv'
<1> DEFINE c == req[p].client
           m == Counted(p)
           t == <<req[p].age, m>>
<1>1. /\ req \in [Proc -> Request] /\ table \in [Proc -> [Client -> [age: 0..1, n: Numbers]]]
      /\ used \in [Proc \cup {Shared} -> [Client -> SUBSET Ticket]] /\ p # Shared
  BY Sentinels DEF IndInv, TypeOK
<1>2. /\ backend = "memory" /\ c \in Client /\ req[p].age \in 0..1 /\ m \in Numbers /\ m > 0
      /\ Cleaned(p) \in [Client -> [age: 0..1, n: Numbers]]
      /\ req[p].age = 0 => \A n \in 1..Limit : <<0, n>> \in used[p][c] => n <= m
  BY Counting
<1> HIDE DEF m
<1>3. /\ table' = [table EXCEPT ![p] = [Cleaned(p) EXCEPT ![c] = [age |-> req[p].age, n |-> m]]]
      /\ used' = (IF m <= Limit THEN [used EXCEPT ![p][c] = @ \cup {t}] ELSE used)
      /\ req' \in [Proc -> Request] /\ req'[p] = Idle /\ \A q \in Proc \ {p} : req'[q] = req[q]
      /\ UNCHANGED <<backend, phase, counter>>
  BY <1>1, <1>2, Typical DEF Count, Use, Store, End, m
<1>4. m <= Limit => t \in Ticket
  BY <1>2, Settings DEF Ticket, Numbers
<1>5. /\ used' \in [Proc \cup {Shared} -> [Client -> SUBSET Ticket]]
      /\ used'[p][c] = (IF m <= Limit THEN used[p][c] \cup {t} ELSE used[p][c])
      /\ \A d \in Client \ {c} : used'[p][d] = used[p][d]
      /\ \A s \in (Proc \cup {Shared}) \ {p} : used'[s] = used[s]
  BY <1>1, <1>2, <1>3, <1>4
<1>6. /\ table' \in [Proc -> [Client -> [age: 0..1, n: Numbers]]]
      /\ table'[p][c] = [age |-> req[p].age, n |-> m]
      /\ \A d \in Client \ {c} : table'[p][d] = Cleaned(p)[d]
      /\ \A q \in Proc \ {p} : table'[q] = table[q]
  BY <1>1, <1>2, <1>3
<1>7. TypeOK' /\ Keys'
  BY <1>3, <1>5, <1>6 DEF IndInv, TypeOK, Keys
<1>8. Distinct' /\ RetryHonest'
  BY <1>3 DEF IndInv, Distinct, RetryHonest, At, Idle
<1>9. UsedCounted'
  <2> SUFFICES ASSUME NEW d \in Client, NEW n \in 1..Limit
               PROVE  /\ <<0, n>> \in used'[Shared][d] => n <= counter[d][0].n
                      /\ \A q \in Proc : <<0, n>> \in used'[q][d] => table'[q][d].age = 0 /\ n <= table'[q][d].n
    BY <1>3 DEF UsedCounted
  <2>1. <<0, n>> \in used'[Shared][d] => n <= counter[d][0].n
    BY <1>1, <1>5 DEF IndInv, UsedCounted
  <2>2. ASSUME NEW q \in Proc, <<0, n>> \in used'[q][d]
        PROVE  table'[q][d].age = 0 /\ n <= table'[q][d].n
    <3>1. CASE q # p
      BY <1>1, <1>5, <1>6, <2>2, <3>1 DEF IndInv, UsedCounted
    <3>2. CASE q = p /\ d # c
      <4>1. table[p][d].age = 0 /\ n <= table[p][d].n
        BY <1>5, <2>2, <3>2 DEF IndInv, UsedCounted
      <4> QED BY <1>6, <3>2, <4>1 DEF Cleaned
    <3>3. CASE q = p /\ d = c /\ req[p].age = 0
      BY <1>2, <1>4, <1>5, <1>6, <2>2, <3>3, Settings DEF Numbers
    <3>4. CASE q = p /\ d = c /\ req[p].age = 1
      <4>1. table[p][c].age = 1
        BY <1>2, <3>4 DEF IndInv, Numbered, Count
      <4> QED BY <1>2, <1>5, <2>2, <3>4, <4>1 DEF IndInv, UsedCounted
    <3> QED BY <1>2, <3>1, <3>2, <3>3, <3>4
  <2> QED BY <2>1, <2>2
<1>10. ASSUME NEW q \in Proc PROVE (Numbered(q))'
  <2>1. CASE q = p
    BY <1>3, <2>1 DEF Numbered, At, Idle
  <2>2. CASE q # p
    <3>1. req'[q] = req[q] /\ table'[q] = table[q] /\ Numbered(q) /\ ~At(q, "decided")
      BY <1>2, <1>3, <1>6, <2>2 DEF IndInv, Numbered, At
    <3>2. At(q, "counting") /\ req[q].age = 1 => \A d \in Client : table'[q][d].age = 1
      BY <3>1 DEF Numbered
    <3>3. req'[q].pc # "decided" /\ backend' = backend
      BY <1>3, <3>1 DEF At
    <3> QED BY <3>1, <3>2, <3>3 DEF Numbered, At
  <2> QED BY <2>1, <2>2
<1> QED BY <1>7, <1>8, <1>9, <1>10 DEF IndInv

LEMMA CrashStep == ASSUME IndInv, NEW p \in Proc, Crash(p) PROVE IndInv'
<1>1. /\ req' \in [Proc -> Request] /\ req'[p] = Idle /\ \A q \in Proc \ {p} : req'[q] = req[q]
      /\ UNCHANGED <<backend, phase, counter>>
  BY Typical DEF IndInv, TypeOK, Crash, End
<1>2. /\ used' \in [Proc \cup {Shared} -> [Client -> SUBSET Ticket]]
      /\ \A d \in Client : used'[p][d] = {}
      /\ \A s \in (Proc \cup {Shared}) \ {p} : used'[s] = used[s]
  BY DEF IndInv, TypeOK, Crash
<1>3. /\ table' \in [Proc -> [Client -> [age: 0..1, n: Numbers]]]
      /\ \A q \in Proc \ {p} : table'[q] = table[q]
  BY Typical DEF IndInv, TypeOK, Crash
<1>4. TypeOK' /\ Keys'
  BY <1>1, <1>2, <1>3 DEF IndInv, TypeOK, Keys
<1>5. Distinct' /\ RetryHonest'
  BY <1>1 DEF IndInv, Distinct, RetryHonest, At, Idle
<1>6. UsedCounted'
  <2> SUFFICES ASSUME NEW d \in Client, NEW n \in 1..Limit
               PROVE  /\ <<0, n>> \in used'[Shared][d] => n <= counter[d][0].n
                      /\ \A q \in Proc : <<0, n>> \in used'[q][d] => table'[q][d].age = 0 /\ n <= table'[q][d].n
    BY <1>1 DEF UsedCounted
  <2>1. <<0, n>> \in used'[Shared][d] => n <= counter[d][0].n
    BY <1>2, Sentinels DEF IndInv, UsedCounted
  <2>2. ASSUME NEW q \in Proc, <<0, n>> \in used'[q][d]
        PROVE  table'[q][d].age = 0 /\ n <= table'[q][d].n
    <3>1. q # p /\ used'[q] = used[q] /\ table'[q] = table[q]
      BY <1>2, <1>3, <2>2
    <3> QED BY <2>2, <3>1 DEF IndInv, UsedCounted
  <2> QED BY <2>1, <2>2
<1>7. ASSUME NEW q \in Proc PROVE (Numbered(q))'
  <2>1. CASE q = p
    BY <1>1, <2>1 DEF Numbered, At, Idle
  <2>2. CASE q # p
    <3>1. req'[q] = req[q] /\ table'[q] = table[q] /\ Numbered(q)
      BY <1>1, <1>3, <2>2 DEF IndInv
    <3>2. used'[Shared] = used[Shared]
      BY <1>2, Sentinels
    <3>3. CASE At(q, "decided")
      BY <1>1, <3>1, <3>2, <3>3 DEF Numbered, At
    <3>4. CASE ~At(q, "decided")
      BY <1>1, <3>1, <3>4 DEF Numbered, At
    <3> QED BY <3>3, <3>4
  <2> QED BY <2>1, <2>2
<1> QED BY <1>4, <1>5, <1>6, <1>7 DEF IndInv

-----------------------------------------------------------------------------
LEMMA Expiry ==
  ASSUME NEW k \in [n: Numbers, left: 0..2 * Window], k.n = 0 <=> k.left = 0
  PROVE  /\ Expire(k) \in [n: Numbers, left: 0..2 * Window]
         /\ Expire(k).n = 0 <=> Expire(k).left = 0
         /\ Expire(k).n > 0 => Expire(k).n = k.n /\ Expire(k).left = k.left - 1
         /\ k.left > 1 => Expire(k).n = k.n
<1>1. CASE k.left <= 1
  BY <1>1, Typical, Settings DEF Expire, None
<1>2. CASE k.left > 1
  <2>1. Expire(k) = [k EXCEPT !.left = @ - 1] /\ k.left \in 0..2 * Window /\ k.n \in Numbers
    BY <1>2 DEF Expire
  <2> QED BY <1>2, <2>1, Settings DEF Numbers
<1> QED BY <1>1, <1>2, Settings

(* The key of the present window does not expire while the window lasts.    *)
LEMMA TickStep == ASSUME IndInv, Tick PROVE IndInv'
<1>1. /\ phase \in 0..Window - 1 /\ phase' = phase + 1 /\ phase' \in 0..Window - 1
      /\ counter \in [Client -> [0..2 -> [n: Numbers, left: 0..2 * Window]]]
      /\ counter' = [d \in Client |-> [a \in 0..2 |-> Expire(counter[d][a])]]
      /\ UNCHANGED <<backend, table, req, used>>
  BY Settings DEF IndInv, TypeOK, Tick
<1>2. ASSUME NEW d \in Client, NEW a \in 0..2
      PROVE  /\ counter'[d][a] \in [n: Numbers, left: 0..2 * Window]
             /\ counter'[d][a].n = 0 <=> counter'[d][a].left = 0
             /\ counter'[d][a].n > 0 => counter'[d][a].n = counter[d][a].n /\ counter'[d][a].left = counter[d][a].left - 1
             /\ counter[d][a].left > 1 => counter'[d][a].n = counter[d][a].n
  BY <1>1, Expiry DEF IndInv, Keys
<1>3. TypeOK'
  <2>1. counter' \in [Client -> [0..2 -> [n: Numbers, left: 0..2 * Window]]]
    BY <1>1, <1>2
  <2> QED BY <1>1, <2>1 DEF IndInv, TypeOK
<1>4. ASSUME NEW d \in Client, NEW a \in 0..2
      PROVE  /\ counter[d][a].n \in Nat /\ counter[d][a].left \in Nat
             /\ counter'[d][a].n \in Nat /\ counter'[d][a].left \in Nat
  BY <1>1, <1>2, Settings DEF Numbers
<1>5. Keys'
  <2> SUFFICES ASSUME NEW d \in Client
               PROVE  /\ \A a \in 0..2 : counter'[d][a].n = 0 <=> counter'[d][a].left = 0
                      /\ counter'[d][0].n > 0 => counter'[d][0].left + phase' >= 2 * Window
                      /\ \A a \in 0..2 : counter'[d][a].n > 0 =>
                           counter'[d][a].left + a * Window + phase' < 3 * Window
    BY DEF Keys
  <2>1. counter'[d][0].n > 0 => counter'[d][0].left + phase' >= 2 * Window
    <3>1. counter[d][0].n > 0 => counter[d][0].left + phase >= 2 * Window
      BY DEF IndInv, Keys
    <3> QED BY <1>1, <1>2, <1>4, <3>1, Settings
  <2>2. ASSUME NEW a \in 0..2, counter'[d][a].n > 0
        PROVE  counter'[d][a].left + a * Window + phase' < 3 * Window
    <3>1. counter[d][a].n > 0 => counter[d][a].left + a * Window + phase < 3 * Window
      BY DEF IndInv, Keys
    <3>2. a * Window \in Int
      BY Settings
    <3> QED BY <1>1, <1>2, <1>4, <2>2, <3>1, <3>2, Settings
  <2> QED BY <1>2, <2>1, <2>2
<1>6. \A d \in Client : counter'[d][0].n = counter[d][0].n
  <2> SUFFICES ASSUME NEW d \in Client PROVE counter'[d][0].n = counter[d][0].n
    OBVIOUS
  <2>1. CASE counter[d][0].n = 0
    BY <1>2, <1>4, <2>1
  <2>2. CASE counter[d][0].n # 0
    <3>1. counter[d][0].left + phase >= 2 * Window
      BY <1>4, <2>2 DEF IndInv, Keys
    <3>2. counter[d][0].left > 1
      BY <1>1, <1>4, <3>1, Settings DEF Tick
    <3> QED BY <1>2, <3>2
  <2> QED BY <2>1, <2>2
<1>7. RetryHonest'
  <2>1. \A p \in Proc : req[p].retry \in Nat
    <3>1. \A p \in Proc : req[p] \in Request
      BY DEF IndInv, TypeOK
    <3>2. 0..Window \subseteq Nat
      BY Settings
    <3> QED BY <3>1, <3>2 DEF Request
  <2> QED BY <1>1, <2>1, Settings DEF IndInv, RetryHonest
<1>8. UsedCounted' /\ Distinct'
  BY <1>1, <1>6 DEF IndInv, UsedCounted, Distinct, At
<1>9. ASSUME NEW p \in Proc PROVE (Numbered(p))'
  <2>1. Numbered(p) /\ req[p] \in Request
    BY DEF IndInv, TypeOK
  <2>2. At(p, "decided") => req[p].client \in Client
    BY <2>1 DEF Numbered, At, Request
  <2> QED BY <1>1, <1>6, <2>1, <2>2 DEF Numbered, At
<1> QED BY <1>3, <1>5, <1>7, <1>8, <1>9 DEF IndInv

(* A new window: its keys do not exist yet, and the oldest are gone.        *)
LEMMA RollStep == ASSUME IndInv, Roll PROVE IndInv'
<1>1. /\ phase = Window - 1 /\ phase' = 0 /\ phase' \in 0..Window - 1 /\ UNCHANGED backend
      /\ counter \in [Client -> [0..2 -> [n: Numbers, left: 0..2 * Window]]]
      /\ counter' = [d \in Client |-> [a \in 0..2 |-> IF a = 0 THEN None ELSE Expire(counter[d][a - 1])]]
  BY Settings DEF IndInv, TypeOK, Roll
<1>2. ASSUME NEW d \in Client, NEW a \in 0..2
      PROVE  /\ counter'[d][a] \in [n: Numbers, left: 0..2 * Window]
             /\ counter'[d][a].n = 0 <=> counter'[d][a].left = 0
             /\ a = 0 => counter'[d][a].n = 0
             /\ counter'[d][a].n > 0 => counter'[d][a].left + a * Window + phase' < 3 * Window
  <2>1. CASE a = 0
    BY <1>1, <2>1, Typical, Settings DEF None
  <2>2. CASE a # 0
    <3>1. a - 1 \in 0..2 /\ counter[d][a - 1] \in [n: Numbers, left: 0..2 * Window]
          /\ (counter[d][a - 1].n = 0 <=> counter[d][a - 1].left = 0)
          /\ counter'[d][a] = Expire(counter[d][a - 1])
      <4>1. a - 1 \in 0..2
        BY <2>2
      <4> QED BY <1>1, <2>2, <4>1 DEF IndInv, Keys
    <3>2. /\ counter'[d][a] \in [n: Numbers, left: 0..2 * Window]
          /\ counter'[d][a].n = 0 <=> counter'[d][a].left = 0
          /\ counter'[d][a].n > 0 => /\ counter'[d][a].n = counter[d][a - 1].n
                                     /\ counter'[d][a].left = counter[d][a - 1].left - 1
      BY <3>1, Expiry
    <3>3. counter[d][a - 1].n > 0 => counter[d][a - 1].left + (a - 1) * Window + phase < 3 * Window
      BY <3>1 DEF IndInv, Keys
    <3>4. (a - 1) * Window + phase + 1 = a * Window
      <4>1. a = 1 \/ a = 2
        BY <2>2
      <4> QED BY <1>1, <4>1, Settings
    <3>5. a * Window \in Int /\ (a - 1) * Window \in Int /\ counter[d][a - 1].left \in Nat /\ counter[d][a - 1].n \in Nat
      BY <3>1, Settings DEF Numbers
    <3> QED BY <1>1, <2>2, <3>2, <3>3, <3>4, <3>5, Settings
  <2> QED BY <2>1, <2>2
<1>3. /\ req \in [Proc -> Request] /\ table \in [Proc -> [Client -> [age: 0..1, n: Numbers]]]
      /\ \A p \in Proc : Numbered(p) /\ req[p].age = 0
  BY DEF IndInv, TypeOK, Roll
<1>4. req' = [p \in Proc |-> [req[p] EXCEPT !.age = IF req[p].pc \in {"decided", "counting"} THEN 1 ELSE 0]]
  BY DEF Roll
<1>5. ASSUME NEW p \in Proc
      PROVE  /\ req'[p] \in Request /\ req'[p].pc = req[p].pc /\ req'[p].client = req[p].client
             /\ req'[p].n = req[p].n
             /\ req'[p].age = (IF req[p].pc \in {"decided", "counting"} THEN 1 ELSE 0)
             /\ At(p, "idle") => req'[p] = Idle
  <2>1. req[p] \in Request
    BY <1>3
  <2>2. req'[p] = [req[p] EXCEPT !.age = IF req[p].pc \in {"decided", "counting"} THEN 1 ELSE 0]
    BY <1>4
  <2>3. /\ req'[p].pc = req[p].pc /\ req'[p].client = req[p].client /\ req'[p].n = req[p].n
        /\ req'[p].age = (IF req[p].pc \in {"decided", "counting"} THEN 1 ELSE 0)
    BY <2>1, <2>2 DEF Request
  <2>4. req'[p] \in Request
    BY <2>1, <2>2 DEF Request
  <2>5. At(p, "idle") => req'[p] = Idle
    <3> SUFFICES ASSUME At(p, "idle") PROVE req'[p] = Idle
      OBVIOUS
    <3>1. req[p] = Idle /\ req[p].pc \notin {"decided", "counting"}
      BY <1>3 DEF Numbered, At
    <3>2. req'[p] = [Idle EXCEPT !.age = 0]
      BY <2>2, <3>1
    <3> QED BY <3>2 DEF Idle
  <2> QED BY <2>3, <2>4, <2>5
<1>6. /\ table' \in [Proc -> [Client -> [age: 0..1, n: Numbers]]]
      /\ \A p \in Proc, d \in Client : table'[p][d].age = 1
  <2>1. table' = [p \in Proc |-> [d \in Client |-> [table[p][d] EXCEPT !.age = 1]]]
    BY DEF Roll
  <2>2. ASSUME NEW p \in Proc, NEW d \in Client
        PROVE  /\ table'[p][d] \in [age: 0..1, n: Numbers] /\ table'[p][d].age = 1
               /\ DOMAIN table'[p] = Client /\ table'[p] \in [Client -> [age: 0..1, n: Numbers]]
    <3>1. \A e \in Client : table[p][e] \in [age: 0..1, n: Numbers]
      BY <1>3
    <3>2. table'[p] = [e \in Client |-> [table[p][e] EXCEPT !.age = 1]]
      BY <2>1
    <3> QED BY <3>1, <3>2
  <2>3. ASSUME NEW p \in Proc PROVE table'[p] \in [Client -> [age: 0..1, n: Numbers]]
    <3>1. table'[p] = [e \in Client |-> [table[p][e] EXCEPT !.age = 1]]
      BY <2>1
    <3>2. \A e \in Client : table'[p][e] \in [age: 0..1, n: Numbers]
      BY <2>2
    <3> QED BY <3>1, <3>2
  <2> QED BY <2>1, <2>2, <2>3
<1>7. /\ used' \in [Proc \cup {Shared} -> [Client -> SUBSET Ticket]]
      /\ \A s \in Proc \cup {Shared}, d \in Client, n \in Nat :
           <<0, n>> \notin used'[s][d] /\ (<<1, n>> \in used'[s][d] => <<0, n>> \in used[s][d])
  <2>1. used' = [s \in Proc \cup {Shared} |-> [d \in Client |->
                  {t \in Ticket : t[1] = 1 /\ <<0, t[2]>> \in used[s][d]}]]
    BY DEF Roll
  <2> QED BY <2>1 DEF Ticket
<1>8. TypeOK'
  <2>1. counter' \in [Client -> [0..2 -> [n: Numbers, left: 0..2 * Window]]]
    BY <1>1, <1>2
  <2>2. req' \in [Proc -> Request]
    BY <1>4, <1>5
  <2> QED BY <1>1, <1>6, <1>7, <2>1, <2>2 DEF IndInv, TypeOK
<1>9. Keys'
  BY <1>2, Settings DEF Keys
<1>10. RetryHonest'
  BY <1>5 DEF RetryHonest
<1>11. UsedCounted'
  <2>1. \A n \in 1..Limit : n \in Nat
    BY Settings
  <2> QED BY <1>7, <2>1 DEF UsedCounted
<1>12. Distinct'
  BY <1>3, <1>5 DEF IndInv, Distinct, At
<1>13. ASSUME NEW p \in Proc PROVE (Numbered(p))'
  <2>1. Numbered(p) /\ req[p].age = 0 /\ req[p] \in Request
    BY <1>3
  <2>2. At(p, "decided") => req[p].client \in Client /\ req[p].n \in Nat
    BY <2>1, Settings DEF Numbered, At, Request, Numbers
  <2>3. At(p, "decided") => <<1, req[p].n>> \notin used'[Shared][req[p].client]
    BY <1>7, <2>1, <2>2 DEF Numbered
  <2>4. /\ req'[p].pc = req[p].pc /\ req'[p].client = req[p].client /\ req'[p].n = req[p].n
        /\ req'[p].age = (IF req[p].pc \in {"decided", "counting"} THEN 1 ELSE 0)
        /\ req[p].pc = "idle" => req'[p] = Idle
    BY <1>5 DEF At
  <2>5. CASE At(p, "decided")
    BY <1>1, <2>1, <2>3, <2>4, <2>5 DEF Numbered, At
  <2>6. CASE At(p, "counting")
    BY <1>1, <1>6, <2>1, <2>4, <2>6 DEF Numbered, At
  <2>7. CASE ~At(p, "decided") /\ ~At(p, "counting")
    BY <1>1, <2>1, <2>4, <2>7 DEF Numbered, At
  <2> QED BY <2>5, <2>6, <2>7
<1> QED BY <1>8, <1>9, <1>10, <1>11, <1>12, <1>13 DEF IndInv

LEMMA NextIndInv == IndInv /\ [Next]_vars => IndInv'
<1> SUFFICES ASSUME IndInv, [Next]_vars PROVE IndInv'
  OBVIOUS
<1>1. ASSUME NEW p \in Proc, NEW c \in Client, Send(p, c) \/ Check(p, c)
      PROVE  IndInv'
  BY <1>1, WireStep
<1>2. ASSUME NEW p \in Proc, Block(p) \/ Fail(p)
      PROVE  IndInv'
  BY <1>2, EndingStep
<1>3. ASSUME NEW p \in Proc, Execute(p) \/ Pass(p) \/ Count(p) \/ Crash(p)
      PROVE  IndInv'
  BY <1>3, ExecuteStep, PassStep, CountStep, CrashStep
<1>4. CASE Tick \/ Roll
  BY <1>4, TickStep, RollStep
<1>5. CASE UNCHANGED vars
  <2>1. TypeOK' /\ Keys' /\ Distinct' /\ UsedCounted' /\ RetryHonest'
    BY <1>5 DEF IndInv, vars, TypeOK, Keys, Distinct, UsedCounted, RetryHonest, At
  <2>2. \A p \in Proc : (Numbered(p))'
    BY <1>5 DEF IndInv, vars, Numbered, At
  <2> QED BY <2>1, <2>2 DEF IndInv
<1> QED BY <1>1, <1>2, <1>3, <1>4, <1>5 DEF Next

-----------------------------------------------------------------------------
(* A key outlives its window and is gone two windows later, and every       *)
(* number on its way to a request is that request's own.                    *)
THEOREM InvariantHolds == Spec => []IndInv
BY InitIndInv, NextIndInv, PTL DEF Spec

(* No Retry-After ends before the window does.                              *)
THEOREM RetryIsHonest == Spec => []RetryHonest
<1>1. IndInv => RetryHonest
  BY DEF IndInv
<1> QED BY <1>1, InvariantHolds, PTL

(* No number of a window lets two requests pass.                            *)
THEOREM QuotaIsKept == Spec => QuotaKept
<1>1. ASSUME IndInv, [Next]_vars
      PROVE  [\A p \in Proc, t \in Ticket :
                Passes(p, t) /\ ~(At(p, "counting") /\ req[p].age = 1) =>
                  t \notin used[Store(p)][req[p].client]]_vars
  <2> SUFFICES ASSUME NEW p \in Proc, NEW t \in Ticket, Passes(p, t),
                      ~(At(p, "counting") /\ req[p].age = 1)
               PROVE  t \notin used[Store(p)][req[p].client]
    OBVIOUS
  <2>1. CASE Pass(p) /\ t = <<req[p].age, req[p].n>>
    BY <1>1, <2>1 DEF IndInv, Numbered, Pass, At, Store
  <2>2. CASE Count(p) /\ Counted(p) <= Limit /\ t = <<req[p].age, Counted(p)>>
    <3>1. /\ backend = "memory" /\ req[p].age \in 0..1 /\ Counted(p) \in 1..Limit
          /\ req[p].age = 0 => \A n \in 1..Limit : <<0, n>> \in used[p][req[p].client] => n # Counted(p)
      BY <1>1, <2>2, Counting, Settings DEF Numbers
    <3>2. req[p].age = 0
      BY <2>2, <3>1 DEF Count
    <3> QED BY <2>2, <3>1, <3>2 DEF Store
  <2> QED BY <2>1, <2>2 DEF Passes
<1> QED BY <1>1, InvariantHolds, PTL DEF Spec, QuotaKept
=============================================================================
