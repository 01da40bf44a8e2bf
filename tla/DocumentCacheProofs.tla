----------------------- MODULE DocumentCacheProofs -----------------------
(***************************************************************************)
(* The safety properties of DocumentCache, for every set of requests,      *)
(* documents and keys and all durations.  The steps of a request leave the *)
(* age of the documents alone (RequestStep); Tick and Rotate change only   *)
(* what time changes.                                                      *)
(***************************************************************************)
EXTENDS DocumentCache, TLAPS

LEMMA HorizonNat == Horizon \in Nat /\ Horizon = Ttl + 2 * Slow + 1
BY Durations DEF Horizon

LEMMA IdleKnows == Idle \in Load /\ Knows(Idle)
BY Durations, Sentinels DEF Idle, Load, Knows

LEMMA Empty == /\ Miss \in [doc: Doc \cup {Bad, Nothing}, left: 0..Ttl]
               /\ Free \in [owner: Proc \cup {Nothing}, left: 0..LockSeconds]
BY Durations DEF Miss, Free

LEMMA InitIndInv == Init => IndInv
<1> SUFFICES ASSUME Init PROVE IndInv
  OBVIOUS
<1>1. TypeOK
  BY Empty, IdleKnows, HorizonNat DEF Init, TypeOK
<1>2. Entries
  BY Sentinels DEF Init, Entries, Miss, Free
<1>3. \A p \in Proc : Knows(pr[p])
  BY IdleKnows DEF Init
<1> QED BY <1>1, <1>2, <1>3 DEF IndInv

-----------------------------------------------------------------------------
(* A step of one request: p goes on, no document grows older, and the cache *)
(* and the lock are what such a step may make of them.                      *)
Kept == UNCHANGED <<published, age>>
CacheSound == /\ cache' \in [doc: Doc \cup {Bad, Nothing}, left: 0..Ttl]
              /\ cache'.doc = Nothing <=> cache'.left = 0
              /\ cache'.doc \in Doc => age[cache'.doc] + cache'.left <= Ttl + Slow
LockSound == /\ lock' \in [owner: Proc \cup {Nothing}, left: 0..LockSeconds]
             /\ lock'.owner = Nothing <=> lock'.left = 0

LEMMA CacheKept == ASSUME IndInv, cache' \in {cache, Miss} PROVE CacheSound
BY Empty, Sentinels DEF IndInv, TypeOK, Entries, CacheSound, Miss

LEMMA LockKept ==
  ASSUME IndInv, NEW p \in Proc,
         lock' \in {lock, Free, [owner |-> p, left |-> LockSeconds]}
  PROVE  LockSound
BY Empty, Durations, Sentinels DEF IndInv, TypeOK, Entries, LockSound, Free

LEMMA RequestStep ==
  ASSUME IndInv, NEW p \in Proc, NEW x \in Load, Knows(x),
         pr' = [pr EXCEPT ![p] = x], Kept, CacheSound, LockSound
  PROVE  IndInv'
<1>1. TypeOK'
  BY DEF IndInv, TypeOK, Kept, CacheSound, LockSound
<1>2. Entries'
  BY DEF IndInv, Entries, Kept, CacheSound, LockSound
<1>3. ASSUME NEW q \in Proc PROVE (Knows(pr[q]))'
  <2>1. Knows(pr'[q])
    BY DEF IndInv, TypeOK
  <2> QED BY <2>1 DEF Knows, Kept
<1> QED BY <1>1, <1>2, <1>3 DEF IndInv

(* The steps that change nothing but the request.                           *)
LEMMA OnlyStep ==
  ASSUME IndInv, NEW p \in Proc, NEW x \in Load, Knows(x), Only(p, x)
  PROVE  IndInv'
<1>1. CacheSound
  BY CacheKept DEF Only
<1>2. LockSound
  BY LockKept DEF Only
<1> QED BY <1>1, <1>2, RequestStep DEF Only, Kept

LEMMA Known == ASSUME IndInv, NEW p \in Proc PROVE pr[p] \in Load /\ Knows(pr[p])
BY DEF IndInv, TypeOK

LEMMA AskKnows ==
  ASSUME IndInv, NEW p \in Proc, pr[p].doc = Nothing, pr[p].pc \in {"drop", "lock", "wait"}
  PROVE  /\ Ask(p) \in Load /\ Knows(Ask(p))
         /\ [Ask(p) EXCEPT !.mine = TRUE] \in Load /\ Knows([Ask(p) EXCEPT !.mine = TRUE])
<1>1. pr[p] \in Load /\ Knows(pr[p])
  BY Known
<1>2. Ask(p) \in Load /\ [Ask(p) EXCEPT !.mine = TRUE] \in Load
  <2>1. 0 \in 0..WaitSeconds
    BY Durations
  <2>2. Ask(p) \in Load
    BY <1>1, <2>1 DEF Ask, Load
  <2> QED BY <2>2 DEF Load
<1>3. Knows(Ask(p)) /\ Knows([Ask(p) EXCEPT !.mine = TRUE])
  BY <1>1 DEF Ask, Load, Knows
<1> QED BY <1>2, <1>3

-----------------------------------------------------------------------------
LEMMA ReadStep ==
  ASSUME IndInv, NEW p \in Proc, ReadHit(p) \/ ReadInvalid(p) \/ ReadMiss(p)
  PROVE  IndInv'
<1>1. CASE ReadHit(p)
  <2> DEFINE x == [Idle EXCEPT !.pc = "check", !.doc = cache.doc, !.cached = TRUE]
  <2>1. cache.doc \in Doc /\ age[cache.doc] <= Ttl + Slow
    BY <1>1, Durations DEF ReadHit, IndInv, TypeOK, Entries
  <2>2. x \in Load
    BY <2>1, IdleKnows DEF Idle, Load
  <2>3. Knows(x)
    BY <2>1, Sentinels, Durations DEF Idle, Knows
  <2> QED BY <1>1, <2>2, <2>3, OnlyStep DEF ReadHit
<1>2. CASE ReadInvalid(p)
  <2>1. [Idle EXCEPT !.pc = "discard"] \in Load
    BY IdleKnows DEF Load
  <2>2. Knows([Idle EXCEPT !.pc = "discard"])
    BY Sentinels DEF Idle, Knows
  <2> QED BY <1>2, <2>1, <2>2, OnlyStep DEF ReadInvalid
<1>3. CASE ReadMiss(p)
  <2>1. [Idle EXCEPT !.pc = "lock"] \in Load
    BY IdleKnows DEF Load
  <2>2. Knows([Idle EXCEPT !.pc = "lock"])
    BY Sentinels DEF Idle, Knows
  <2> QED BY <1>3, <2>1, <2>2, OnlyStep DEF ReadMiss
<1> QED BY <1>1, <1>2, <1>3

LEMMA DiscardStep == ASSUME IndInv, NEW p \in Proc, Discard(p) PROVE IndInv'
<1> DEFINE x == IF At(p, "drop") THEN Ask(p) ELSE [pr[p] EXCEPT !.pc = "lock"]
<1>1. pr[p] \in Load /\ Knows(pr[p]) /\ pr[p].pc \in {"discard", "drop"} /\ pr[p].doc = Nothing
  BY Known DEF Discard, At, Knows
<1>2. x \in Load /\ Knows(x)
  <2>1. CASE At(p, "drop")
    BY <1>1, <2>1, AskKnows DEF At
  <2>2. CASE ~At(p, "drop")
    BY <1>1, <2>2 DEF At, Load, Knows
  <2> QED BY <2>1, <2>2
<1>3. pr' = [pr EXCEPT ![p] = x] /\ Kept /\ lock' = lock /\ cache' \in {cache, Miss}
  BY DEF Discard, Kept
<1>4. CacheSound /\ LockSound
  BY <1>3, CacheKept, LockKept
<1> QED BY <1>2, <1>3, <1>4, RequestStep

LEMMA LockStep ==
  ASSUME IndInv, NEW p \in Proc, Acquire(p) \/ NoLock(p) \/ Release(p)
  PROVE  IndInv'
<1>1. pr[p] \in Load /\ Knows(pr[p])
  BY Known
<1>2. CASE Acquire(p)
  <2> DEFINE x == [Ask(p) EXCEPT !.mine = TRUE]
  <2>1. pr' = [pr EXCEPT ![p] = x] /\ Kept /\ cache' = cache
        /\ lock' = [owner |-> p, left |-> LockSeconds]
    BY <1>2 DEF Acquire, Kept
  <2>2. x \in Load /\ Knows(x)
    BY <1>1, <1>2, AskKnows DEF Acquire, At, Knows
  <2>3. CacheSound /\ LockSound
    BY <2>1, CacheKept, LockKept
  <2> QED BY <2>1, <2>2, <2>3, RequestStep
<1>3. CASE NoLock(p)
  <2> DEFINE x == [pr[p] EXCEPT !.pc = "wait", !.left = WaitSeconds]
  <2>1. /\ pr' = [pr EXCEPT ![p] = x] /\ Kept /\ cache' = cache
        /\ lock' \in {lock, Free, [owner |-> p, left |-> LockSeconds]}
    BY <1>3 DEF NoLock, Kept
  <2>2. WaitSeconds \in 0..WaitSeconds
    BY Durations
  <2>3. x \in Load
    BY <1>1, <2>2 DEF Load
  <2>4. Knows(x)
    BY <1>1, <1>3 DEF NoLock, At, Load, Knows
  <2>5. CacheSound /\ LockSound
    BY <2>1, CacheKept, LockKept
  <2> QED BY <2>1, <2>3, <2>4, <2>5, RequestStep
<1>4. CASE Release(p)
  <2>1. /\ pr' = [pr EXCEPT ![p] = Released(p)] /\ Kept /\ cache' = cache
        /\ lock' \in {lock, Free, [owner |-> p, left |-> LockSeconds]}
    BY <1>4 DEF Release, Kept
  <2>2. Released(p) \in Load /\ Knows(Released(p))
    <3>1. CASE pr[p].doc = Nothing
      BY <3>1, IdleKnows DEF Released
    <3>2. CASE pr[p].doc # Nothing
      BY <1>1, <1>4, <3>2 DEF Released, Release, At, Load, Knows
    <3> QED BY <3>1, <3>2
  <2>3. CacheSound /\ LockSound
    BY <2>1, CacheKept, LockKept
  <2> QED BY <2>1, <2>2, <2>3, RequestStep
<1> QED BY <1>2, <1>3, <1>4

LEMMA WaitStep ==
  ASSUME IndInv, NEW p \in Proc, WaitHit(p) \/ WaitInvalid(p) \/ WaitError(p) \/ GiveUp(p)
  PROVE  IndInv'
<1>1. pr[p] \in Load /\ Knows(pr[p]) /\ pr[p].pc = "wait" /\ pr[p].doc = Nothing
  BY Known DEF WaitHit, WaitInvalid, WaitError, GiveUp, At, Knows
<1>2. 0 \in 0..WaitSeconds
  BY Durations
<1>3. CASE WaitHit(p)
  <2> DEFINE x == [pr[p] EXCEPT !.pc = "check", !.doc = cache.doc, !.cached = TRUE, !.left = 0]
  <2>1. cache.doc \in Doc \ {pr[p].prev} /\ age[cache.doc] <= Ttl + Slow
    BY <1>3, Durations DEF WaitHit, IndInv, TypeOK, Entries
  <2>2. x \in Load
    BY <1>1, <1>2, <2>1 DEF Load
  <2>3. Knows(x)
    BY <1>1, <2>1, Sentinels, Durations DEF Load, Knows
  <2> QED BY <1>3, <2>2, <2>3, OnlyStep DEF WaitHit
<1>4. CASE WaitInvalid(p)
  <2> DEFINE x == [pr[p] EXCEPT !.pc = "drop", !.left = 0]
  <2>1. x \in Load
    BY <1>1, <1>2 DEF Load
  <2>2. Knows(x)
    BY <1>1 DEF Load, Knows
  <2> QED BY <1>4, <2>1, <2>2, OnlyStep DEF WaitInvalid
<1>5. CASE WaitError(p) \/ GiveUp(p)
  BY <1>1, <1>5, AskKnows, OnlyStep DEF WaitError, GiveUp
<1> QED BY <1>3, <1>4, <1>5

LEMMA FetchStep ==
  ASSUME IndInv, NEW p \in Proc, FetchAnswer(p) \/ FetchError(p) \/ Write(p)
  PROVE  IndInv'
<1>1. pr[p] \in Load /\ Knows(pr[p])
  BY Known
<1>2. CASE FetchAnswer(p)
  <2> DEFINE x == [pr[p] EXCEPT !.pc = "write", !.doc = published, !.cached = FALSE, !.hold = 0]
  <2>1. published \in Doc /\ age[published] = 0 /\ 0 \in 0..Slow
    BY Durations DEF IndInv, TypeOK, Entries
  <2>2. x \in Load
    BY <1>1, <2>1 DEF Load
  <2>3. Knows(x)
    BY <1>1, <1>2, <2>1, Sentinels DEF FetchAnswer, At, Load, Knows
  <2> QED BY <1>2, <2>2, <2>3, OnlyStep DEF FetchAnswer
<1>3. CASE FetchError(p)
  <2>1. CASE pr[p].mine
    <3> DEFINE x == [pr[p] EXCEPT !.pc = "release"]
    <3>1. x \in Load
      BY <1>1 DEF Load
    <3>2. Knows(x)
      BY <1>1, <1>3 DEF FetchError, At, Load, Knows
    <3> QED BY <1>3, <2>1, <3>1, <3>2, OnlyStep DEF FetchError
  <2>2. CASE ~pr[p].mine
    BY <1>3, <2>2, IdleKnows, OnlyStep DEF FetchError
  <2> QED BY <2>1, <2>2
<1>4. CASE Write(p)
  <2> DEFINE x == [pr[p] EXCEPT !.pc = Then(p, "check")]
  <2>1. pr' = [pr EXCEPT ![p] = x] /\ Kept /\ lock' = lock
        /\ cache' \in {cache, [doc |-> pr[p].doc, left |-> Ttl]}
    BY <1>4 DEF Write, Kept
  <2>2. pr[p].doc \in Doc /\ age[pr[p].doc] <= pr[p].hold /\ pr[p].hold \in 0..Slow
    BY <1>1, <1>4, Sentinels, Durations DEF Write, At, Load, Knows, IndInv, TypeOK
  <2>3. x \in Load
    BY <1>1 DEF Then, Load
  <2>4. Knows(x)
    <3>1. CASE pr[p].mine
      BY <1>1, <1>4, <2>2, <3>1, Sentinels DEF Write, At, Then, Load, Knows
    <3>2. CASE ~pr[p].mine
      BY <1>1, <1>4, <2>2, <3>2, Sentinels DEF Write, At, Then, Load, Knows
    <3> QED BY <3>1, <3>2
  <2>5. CacheSound
    <3>1. CASE cache' = cache
      BY <3>1, CacheKept
    <3>2. CASE cache' = [doc |-> pr[p].doc, left |-> Ttl]
      <4>1. age[pr[p].doc] \in Nat
        BY <2>2, HorizonNat DEF IndInv, TypeOK
      <4> QED BY <2>2, <3>2, <4>1, Durations, Sentinels DEF CacheSound
    <3> QED BY <2>1, <3>1, <3>2
  <2>6. LockSound
    BY <2>1, LockKept
  <2> QED BY <2>1, <2>3, <2>4, <2>5, <2>6, RequestStep
<1> QED BY <1>2, <1>3, <1>4

LEMMA CheckStep ==
  ASSUME IndInv, NEW p \in Proc, NEW k \in Key, Accept(p, k) \/ Retry(p, k) \/ Refuse(p, k)
  PROVE  IndInv'
<1>1. CASE Accept(p, k) \/ Refuse(p, k)
  BY <1>1, IdleKnows, OnlyStep DEF Accept, Refuse
<1>2. CASE Retry(p, k)
  <2> DEFINE x == [Idle EXCEPT !.pc = "lock", !.key = k, !.prev = pr[p].doc]
  <2>1. pr[p].doc \in Doc /\ ~Has(pr[p].doc, k)
    BY <1>2, Known DEF Retry, At, Knows
  <2>2. x \in Load
    BY <2>1, IdleKnows DEF Load
  <2>3. Knows(x)
    BY <2>1, Sentinels DEF Idle, Knows
  <2> QED BY <1>2, <2>2, <2>3, OnlyStep DEF Retry
<1> QED BY <1>1, <1>2

-----------------------------------------------------------------------------
LEMMA CrashStep == ASSUME IndInv, NEW p \in Proc, Crash(p) PROVE IndInv'
BY IdleKnows, OnlyStep DEF Crash

LEMMA CacheStep == ASSUME IndInv, Invalidate \/ Spoil PROVE IndInv'
<1>1. UNCHANGED <<published, age, lock, pr>> /\ CacheSound
  <2>1. CASE Invalidate
    BY <2>1, CacheKept DEF Invalidate
  <2>2. CASE Spoil
    <3>1. PICK n \in 1..Ttl : cache' = [doc |-> Bad, left |-> n]
      BY <2>2 DEF Spoil
    <3> QED BY <2>2, <3>1, Durations, Sentinels DEF Spoil, CacheSound
  <2> QED BY <2>1, <2>2
<1>2. TypeOK' /\ Entries'
  BY <1>1 DEF IndInv, TypeOK, Entries, CacheSound
<1>3. \A p \in Proc : (Knows(pr[p]))'
  BY <1>1 DEF IndInv, Knows
<1> QED BY <1>2, <1>3 DEF IndInv

LEMMA RotateStep == ASSUME IndInv, NEW d \in Doc, Rotate(d) PROVE IndInv'
<1>1. age \in [Doc -> 0..Horizon] /\ age' = [age EXCEPT ![d] = 0] /\ published' = d
  BY DEF IndInv, TypeOK, Rotate
<1>2. /\ age' \in [Doc -> 0..Horizon] /\ age'[d] = 0
      /\ \A e \in Doc : age'[e] <= age[e] /\ age[e] \in Nat /\ age'[e] \in Nat
  BY <1>1, HorizonNat
<1>3. TypeOK'
  BY <1>1, <1>2 DEF IndInv, TypeOK, Rotate
<1>4. Entries'
  BY <1>1, <1>2, Durations DEF IndInv, TypeOK, Entries, Rotate
<1>5. ASSUME NEW p \in Proc PROVE (Knows(pr[p]))'
  <2>1. pr'[p] = pr[p] /\ pr[p] \in Load /\ Knows(pr[p])
    BY Known DEF Rotate
  <2>2. pr[p].doc # Nothing => /\ age[pr[p].doc] <= pr[p].hold + (IF pr[p].cached THEN Ttl + Slow ELSE 0)
                               /\ pr[p].doc \in Doc /\ pr[p].hold \in Nat
    BY <2>1, Durations DEF Knows, Load
  <2>3. pr[p].doc # Nothing => age'[pr[p].doc] <= pr[p].hold + (IF pr[p].cached THEN Ttl + Slow ELSE 0)
    BY <1>2, <2>2, Durations
  <2> QED BY <2>1, <2>3 DEF Knows
<1> QED BY <1>3, <1>4, <1>5 DEF IndInv

(* What time adds to the age of a document it takes from the entry's rest, *)
(* or adds to the time the document has been in hand.                      *)
LEMMA TickStep == ASSUME IndInv, Tick PROVE IndInv'
<1>1. TypeOK /\ Entries /\ Horizon \in Nat /\ Horizon = Ttl + 2 * Slow + 1
  BY HorizonNat DEF IndInv
<1>2. \A d \in Doc : /\ age[d] \in 0..Horizon /\ age'[d] \in 0..Horizon
                     /\ age'[d] <= age[d] + 1
  <2> TAKE d \in Doc
  <2>1. age[d] \in 0..Horizon /\ age'[d] = IF d = published THEN 0 ELSE Older(age[d])
    BY <1>1 DEF Tick, TypeOK
  <2>2. Older(age[d]) \in 0..Horizon /\ Older(age[d]) <= age[d] + 1
    BY <1>1, <2>1 DEF Older
  <2> QED BY <1>1, <2>1, <2>2
<1>3. age' \in [Doc -> 0..Horizon] /\ age'[published] = 0
  BY <1>1, <1>2 DEF Tick, TypeOK
<1>4. /\ cache' \in [doc: Doc \cup {Bad, Nothing}, left: 0..Ttl]
      /\ cache'.doc = Nothing <=> cache'.left = 0
      /\ cache'.doc \in Doc => age'[cache'.doc] + cache'.left <= Ttl + Slow
  <2>1. CASE cache.left <= 1
    BY <2>1, Empty, Sentinels DEF Tick, Miss
  <2>2. CASE ~(cache.left <= 1)
    <3>1. cache' = [cache EXCEPT !.left = @ - 1]
      BY <2>2 DEF Tick
    <3>2. cache.left \in 0..Ttl /\ cache.left - 1 \in 0..Ttl /\ cache.left - 1 # 0 /\ cache.left # 0
      BY <1>1, <2>2, Durations DEF TypeOK
    <3>3. cache'.doc = cache.doc /\ cache'.left = cache.left - 1
          /\ cache' \in [doc: Doc \cup {Bad, Nothing}, left: 0..Ttl]
      BY <1>1, <3>1, <3>2 DEF TypeOK
    <3>4. cache.doc \in Doc => age'[cache.doc] + (cache.left - 1) <= Ttl + Slow
      BY <1>1, <1>2, <3>2, Durations DEF Entries
    <3> QED BY <1>1, <3>2, <3>3, <3>4 DEF Entries
  <2> QED BY <2>1, <2>2
<1>5. /\ lock' \in [owner: Proc \cup {Nothing}, left: 0..LockSeconds]
      /\ lock'.owner = Nothing <=> lock'.left = 0
  <2>1. CASE lock.left <= 1
    BY <2>1, Empty DEF Tick, Free
  <2>2. CASE ~(lock.left <= 1)
    <3>1. lock' = [lock EXCEPT !.left = @ - 1]
      BY <2>2 DEF Tick
    <3>2. lock.left \in 0..LockSeconds /\ lock.left - 1 \in 0..LockSeconds
          /\ lock.left - 1 # 0 /\ lock.left # 0
      BY <1>1, <2>2, Durations DEF TypeOK
    <3> QED BY <1>1, <3>1, <3>2 DEF TypeOK, Entries
  <2> QED BY <2>1, <2>2
<1>6. ASSUME NEW p \in Proc PROVE pr'[p] \in Load /\ (Knows(pr[p]))'
  <2> DEFINE h == IF pr[p].doc = Nothing THEN 0 ELSE pr[p].hold + 1
  <2>1. pr[p] \in Load /\ Knows(pr[p])
    BY Known
  <2>2. pr'[p] = [pr[p] EXCEPT !.left = Minus1(pr[p].left), !.hold = h]
    BY <2>1 DEF Tick
  <2>3. Minus1(pr[p].left) \in 0..WaitSeconds /\ (pr[p].left = 0 => Minus1(pr[p].left) = 0)
    BY <2>1, Durations DEF Load, Minus1
  <2>4. h \in 0..Slow
    <3>1. pr[p].doc # Nothing => pr[p].hold < Slow
      BY DEF Tick
    <3>2. pr[p].hold \in 0..Slow
      BY <2>1 DEF Load
    <3> QED BY <3>1, <3>2, Durations
  <2>5. pr'[p] \in Load
    BY <2>1, <2>2, <2>3, <2>4 DEF Load
  <2>6. pr[p].doc # Nothing => age'[pr[p].doc] <= h + (IF pr[p].cached THEN Ttl + Slow ELSE 0)
    BY <1>2, <2>1, Durations, HorizonNat DEF Knows, Load
  <2>7. pr[p].pc = "idle" => pr'[p] = Idle
    <3> SUFFICES ASSUME pr[p] = Idle PROVE pr'[p] = Idle
      BY <2>1 DEF Knows
    <3>1. Minus1(pr[p].left) = 0 /\ h = 0
      BY DEF Idle, Minus1
    <3>2. pr'[p] = [Idle EXCEPT !.left = 0, !.hold = 0]
      BY <2>2, <3>1
    <3> QED BY <3>2 DEF Idle
  <2>8. (Knows(pr[p]))'
    BY <2>1, <2>2, <2>6, <2>7 DEF Knows, Load
  <2> QED BY <2>5, <2>8
<1>7. TypeOK'
  BY <1>1, <1>3, <1>4, <1>5, <1>6 DEF TypeOK, Tick
<1>8. Entries'
  BY <1>3, <1>4, <1>5 DEF Entries, Tick
<1> QED BY <1>6, <1>7, <1>8 DEF IndInv

-----------------------------------------------------------------------------
LEMMA NextIndInv == ASSUME IndInv, [Next]_vars PROVE IndInv'
<1>1. ASSUME NEW p \in Proc, Step(p) PROVE IndInv'
  BY <1>1, DiscardStep, LockStep, WaitStep, FetchStep, CheckStep DEF Step
<1>2. ASSUME NEW p \in Proc, ReadHit(p) \/ ReadInvalid(p) \/ ReadMiss(p) \/ WaitError(p) \/ Crash(p)
      PROVE  IndInv'
  BY <1>2, ReadStep, WaitStep, CrashStep
<1>3. CASE UNCHANGED vars
  BY <1>3 DEF vars, IndInv, TypeOK, Entries, Knows
<1> QED BY <1>1, <1>2, <1>3, CacheStep, RotateStep, TickStep DEF Next

(* The invariant of the cache, the lock and what each check knows.          *)
THEOREM InvariantHolds == Spec => []IndInv
<1>1. Init => IndInv
  BY InitIndInv
<1>2. IndInv /\ [Next]_vars => IndInv'
  BY NextIndInv
<1> QED BY <1>1, <1>2, PTL DEF Spec

(* A key is looked for only in documents published at most Ttl + 2 * Slow   *)
(* ago, whatever way they took to the check.                                *)
THEOREM RecentDocuments == Spec => []OldKeysDie
<1>1. IndInv => OldKeysDie
  <2> SUFFICES ASSUME IndInv, NEW p \in Proc, At(p, "check")
               PROVE  age[pr[p].doc] <= Ttl + 2 * Slow
    BY DEF OldKeysDie
  <2>1. pr[p] \in Load /\ Knows(pr[p]) /\ pr[p].doc \in Doc
    BY Known DEF At, Knows
  <2>2. age[pr[p].doc] <= pr[p].hold + (IF pr[p].cached THEN Ttl + Slow ELSE 0)
    BY <2>1, Sentinels DEF Knows
  <2>3. pr[p].hold \in 0..Slow /\ age[pr[p].doc] \in 0..Horizon
    BY <2>1 DEF Load, IndInv, TypeOK
  <2> QED BY <2>2, <2>3, Durations, HorizonNat
<1> QED BY <1>1, InvariantHolds, PTL

(* Only its owner, or time, ends the refresh lock.                          *)
THEOREM LockEnds == Spec => LockEndsByOwner
<1> DEFINE A == lock.owner # Nothing /\ lock'.owner # lock.owner =>
                  lock.left <= 1 \/ \E p \in Proc : lock.owner = p /\ Release(p)
<1>1. IndInv /\ [Next]_vars => [A]_vars
  <2> SUFFICES ASSUME IndInv, Next, lock.owner # Nothing, lock'.owner # lock.owner,
                      ~(lock.left <= 1)
               PROVE  \E p \in Proc : lock.owner = p /\ Release(p)
    OBVIOUS
  <2>1. lock' # lock /\ lock # Free
    BY DEF Free
  <2>2. ~Tick
    <3> SUFFICES ASSUME Tick PROVE FALSE
      OBVIOUS
    <3>1. lock' = [lock EXCEPT !.left = @ - 1] /\ lock \in [owner: Proc \cup {Nothing}, left: 0..LockSeconds]
      BY DEF Tick, IndInv, TypeOK
    <3> QED BY <3>1
  <2>3. ASSUME NEW p \in Proc, Step(p) PROVE Release(p) /\ lock.owner = p
    <3>1. Release(p)
      BY <2>1, <2>3 DEF Step, Discard, Acquire, NoLock, WaitHit, WaitInvalid, GiveUp, FetchAnswer,
         FetchError, Write, Accept, Retry, Refuse, Only
    <3> QED BY <2>1, <3>1 DEF Release
  <2>4. PICK p \in Proc : Step(p)
    BY <2>1, <2>2 DEF Next, ReadHit, ReadInvalid, ReadMiss, WaitError, Crash, Only, Invalidate,
       Spoil, Rotate
  <2> QED BY <2>3, <2>4
<1>2. LockEndsByOwner <=> [][A]_vars
  BY DEF LockEndsByOwner
<1> QED BY <1>1, <1>2, InvariantHolds, PTL DEF Spec

-----------------------------------------------------------------------------
(* Where a step of a check goes when it does not end it.                    *)
Follows(x, y) ==
  \/ /\ y.key = x.key
     /\ \/ x.pc = "discard" /\ y.pc = "lock"
        \/ x.pc = "lock" /\ y.pc \in {"wait", "fetch"}
        \/ x.pc = "wait" /\ y.pc \in {"drop", "fetch", "check"}
        \/ x.pc = "drop" /\ y.pc = "fetch"
        \/ x.pc = "fetch" /\ y.pc \in {"write", "release"}
        \/ x.pc = "write" /\ y.pc \in {"release", "check"}
        \/ x.pc = "release" /\ y.pc = "check"
  \/ x.pc = "check" /\ x.key = Nothing /\ y.pc = "lock" /\ y.key \in Key

LEMMA Onward ==
  ASSUME IndInv, NEW p \in Proc, Step(p) \/ WaitError(p), pr'[p] # Idle
  PROVE  Follows(pr[p], pr'[p])
<1>1. pr \in [Proc -> Load] /\ pr[p] \in Load /\ Knows(pr[p])
  BY Known DEF IndInv, TypeOK
<1>2. Ask(p).pc = "fetch" /\ Ask(p).key = pr[p].key
  BY <1>1 DEF Ask, Load
<1>3. CASE Discard(p)
  <2>1. CASE At(p, "drop")
    <3>1. pr'[p] = Ask(p)
      BY <1>1, <1>3, <2>1 DEF Discard
    <3> QED BY <1>2, <2>1, <3>1 DEF Follows, At
  <2>2. CASE At(p, "discard")
    <3>1. pr'[p] = [pr[p] EXCEPT !.pc = "lock"]
      BY <1>1, <1>3, <2>2 DEF Discard, At
    <3>2. pr'[p].pc = "lock" /\ pr'[p].key = pr[p].key
      BY <1>1, <3>1 DEF Load
    <3> QED BY <2>2, <3>2 DEF At, Follows
  <2> QED BY <1>3, <2>1, <2>2 DEF Discard
<1>4. CASE Acquire(p)
  <2>1. pr'[p] = [Ask(p) EXCEPT !.mine = TRUE]
    BY <1>1, <1>4 DEF Acquire
  <2>2. pr'[p].pc = "fetch" /\ pr'[p].key = pr[p].key
    BY <1>1, <2>1 DEF Ask, Load
  <2> QED BY <1>4, <2>2 DEF Acquire, At, Follows
<1>5. CASE NoLock(p)
  <2>1. pr'[p] = [pr[p] EXCEPT !.pc = "wait", !.left = WaitSeconds]
    BY <1>1, <1>5 DEF NoLock
  <2>2. pr'[p].pc = "wait" /\ pr'[p].key = pr[p].key
    BY <1>1, <2>1 DEF Load
  <2> QED BY <1>5, <2>2 DEF NoLock, At, Follows
<1>6. CASE WaitHit(p)
  <2>1. pr'[p] = [pr[p] EXCEPT !.pc = "check", !.doc = cache.doc, !.cached = TRUE, !.left = 0]
    BY <1>1, <1>6 DEF WaitHit, Only
  <2>2. pr'[p].pc = "check" /\ pr'[p].key = pr[p].key
    BY <1>1, <2>1 DEF Load
  <2> QED BY <1>6, <2>2 DEF WaitHit, At, Follows
<1>7. CASE WaitInvalid(p)
  <2>1. pr'[p] = [pr[p] EXCEPT !.pc = "drop", !.left = 0]
    BY <1>1, <1>7 DEF WaitInvalid, Only
  <2>2. pr'[p].pc = "drop" /\ pr'[p].key = pr[p].key
    BY <1>1, <2>1 DEF Load
  <2> QED BY <1>7, <2>2 DEF WaitInvalid, At, Follows
<1>8. CASE WaitError(p) \/ GiveUp(p)
  BY <1>1, <1>2, <1>8 DEF WaitError, GiveUp, At, Only, Follows
<1>9. CASE FetchAnswer(p)
  <2>1. pr'[p] = [pr[p] EXCEPT !.pc = "write", !.doc = published, !.cached = FALSE, !.hold = 0]
    BY <1>1, <1>9 DEF FetchAnswer, Only
  <2>2. pr'[p].pc = "write" /\ pr'[p].key = pr[p].key
    BY <1>1, <2>1 DEF Load
  <2> QED BY <1>9, <2>2 DEF FetchAnswer, At, Follows
<1>10. CASE FetchError(p)
  <2>1. pr'[p] = [pr[p] EXCEPT !.pc = "release"]
    BY <1>1, <1>10 DEF FetchError, Only
  <2>2. pr'[p].pc = "release" /\ pr'[p].key = pr[p].key
    BY <1>1, <2>1 DEF Load
  <2> QED BY <1>10, <2>2 DEF FetchError, At, Follows
<1>11. CASE Write(p)
  <2>1. pr'[p] = [pr[p] EXCEPT !.pc = IF pr[p].mine THEN "release" ELSE "check"]
    BY <1>1, <1>11 DEF Write, Then
  <2>2. pr'[p].pc \in {"release", "check"} /\ pr'[p].key = pr[p].key
    BY <1>1, <2>1 DEF Load
  <2> QED BY <1>11, <2>2 DEF Write, At, Follows
<1>12. CASE Release(p)
  <2>1. pr'[p] = [pr[p] EXCEPT !.pc = "check", !.mine = FALSE]
    BY <1>1, <1>12 DEF Release, Released
  <2>2. pr'[p].pc = "check" /\ pr'[p].key = pr[p].key
    BY <1>1, <2>1 DEF Load
  <2> QED BY <1>12, <2>2 DEF Release, At, Follows
<1>13. ASSUME NEW k \in Key, Accept(p, k) \/ Refuse(p, k) PROVE FALSE
  BY <1>1, <1>13 DEF Accept, Refuse, Only
<1>14. ASSUME NEW k \in Key, Retry(p, k) PROVE Follows(pr[p], pr'[p])
  <2>1. pr[p].pc = "check" /\ pr[p].key = Nothing
    BY <1>1, <1>14 DEF Retry, At, Knows
  <2>2. pr'[p].pc = "lock" /\ pr'[p].key = k
    BY <1>1, <1>14 DEF Retry, Only, Idle
  <2> QED BY <2>1, <2>2 DEF Follows
<1> QED BY <1>3, <1>4, <1>5, <1>6, <1>7, <1>8, <1>9, <1>10, <1>11, <1>12,
          <1>13, <1>14 DEF Step

(* A check ends, whatever it meets: every step leaves fewer to take.        *)
THEOREM ChecksTerminate == Spec => ChecksEnd
<1> DEFINE A == \A p \in Proc : Step(p) \/ WaitError(p) =>
                  pr'[p] = Idle \/ StepsLeft(pr'[p]) < StepsLeft(pr[p])
<1>1. IndInv => A
  <2> SUFFICES ASSUME IndInv, NEW p \in Proc, Step(p) \/ WaitError(p), pr'[p] # Idle
               PROVE  StepsLeft(pr'[p]) < StepsLeft(pr[p])
    OBVIOUS
  <2>1. Follows(pr[p], pr'[p])
    BY Onward
  <2> QED BY <2>1, Sentinels DEF Follows, StepsLeft
<1>2. IndInv /\ [Next]_vars => [A]_vars
  BY <1>1
<1>3. ChecksEnd <=> [][A]_vars
  BY DEF ChecksEnd
<1> QED BY <1>2, <1>3, InvariantHolds, PTL DEF Spec
==========================================================================
