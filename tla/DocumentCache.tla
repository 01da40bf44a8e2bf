--------------------------- MODULE DocumentCache ---------------------------
(***************************************************************************)
(* The Redis cache of the OpenID provider's public key document            *)
(* (app/services/oidc_cache.py), as the ID-token check uses it             *)
(* (app/services/oidc_provider.py) and as the operator empties it          *)
(* (app/commands/oidc_cache.py).                                           *)
(*                                                                         *)
(* Cache-aside: a check reads the cached document; on a miss one process   *)
(* takes a refresh lock that expires by itself, asks the provider and      *)
(* writes the answer back, while the others wait a moment for it and then  *)
(* ask the provider themselves.  A key the cached document does not have   *)
(* starts the refresh once more.  One step is one Redis command or one     *)
(* answer of the provider; any command may fail, having been executed or   *)
(* not.  The discovery document goes the same way without the keys.        *)
(***************************************************************************)
EXTENDS Naturals

CONSTANTS Proc,          \* requests that check an ID token, one at a time
          Doc,           \* the documents the provider publishes in turn
          Key, KeysOf,   \* the keys that tokens name, and those in a document
          Ttl,           \* OIDC_JWKS_CACHE_TTL_SECONDS
          LockSeconds,   \* OIDC_CACHE_REFRESH_LOCK_SECONDS
          WaitSeconds,   \* OIDC_CACHE_REFRESH_WAIT_SECONDS
          Slow,          \* how long a document can be in a request's hands
          Nothing,       \* Redis has no such key, nobody has the lock
          Bad            \* a cached value that is no valid document

ASSUME Durations == /\ Ttl \in Nat \ {0} /\ LockSeconds \in Nat \ {0}
                    /\ WaitSeconds \in Nat /\ Slow \in Nat
ASSUME Keys == KeysOf \in [Doc -> SUBSET Key]
ASSUME Sentinels == Bad \notin Doc /\ Nothing \notin Doc \cup Proc \cup Key \cup {Bad}

VARIABLES published,   \* what the provider answers now
          age,         \* time since a document was last published
          cache,       \* the cached document and the time it has left
          lock,        \* the refresh lock: whose token, and the time it has left
          pr           \* what each request is about

vars == <<published, age, cache, lock, pr>>

(* Bound: a document is at most this old; older ones are not told apart. *)
Horizon == Ttl + 2 * Slow + 1

Idle == [pc |-> "idle", key |-> Nothing, doc |-> Nothing, prev |-> Nothing,
         cached |-> FALSE, mine |-> FALSE, left |-> 0, hold |-> 0]

Load == [pc: {"idle", "discard", "lock", "wait", "drop", "fetch", "write", "release", "check"},
         key: Key \cup {Nothing},
         doc: Doc \cup {Nothing},    \* the document in hand
         prev: Doc \cup {Nothing},   \* previous_payload: it has not the key
         cached: BOOLEAN,            \* the document in hand is from the cache
         mine: BOOLEAN,              \* the request believes to have the lock
         left: 0..WaitSeconds, hold: 0..Slow]

TypeOK ==
  /\ published \in Doc
  /\ age \in [Doc -> 0..Horizon]
  /\ cache \in [doc: Doc \cup {Bad, Nothing}, left: 0..Ttl]
  /\ lock \in [owner: Proc \cup {Nothing}, left: 0..LockSeconds]
  /\ pr \in [Proc -> Load]

Miss == [doc |-> Nothing, left |-> 0]
Free == [owner |-> Nothing, left |-> 0]

Init ==
  /\ published \in Doc
  /\ age = [d \in Doc |-> IF d = published THEN 0 ELSE Horizon]
  /\ cache = Miss /\ lock = Free
  /\ pr = [p \in Proc |-> Idle]

At(p, pc) == pr[p].pc = pc
Has(d, k) == k \in KeysOf[d]

(* A request goes on with x; nothing else changes. *)
Only(p, x) == pr' = [pr EXCEPT ![p] = x] /\ UNCHANGED <<published, age, cache, lock>>

-----------------------------------------------------------------------------
(* Faulty variant: what was found is written back. *)
ReadAndRenew(p) ==
  /\ At(p, "idle") /\ cache.doc \in Doc
  /\ Only(p, [Idle EXCEPT !.pc = "write", !.doc = cache.doc, !.cached = TRUE])

(* A check begins with a GET: it finds a valid document, one to be thrown   *)
(* away, or none (an error counts as none).                                 *)
ReadHit(p) ==
  /\ At(p, "idle") /\ cache.doc \in Doc
  /\ Only(p, [Idle EXCEPT !.pc = "check", !.doc = cache.doc, !.cached = TRUE])

ReadInvalid(p) == At(p, "idle") /\ cache.doc = Bad /\ Only(p, [Idle EXCEPT !.pc = "discard"])
ReadMiss(p) == At(p, "idle") /\ Only(p, [Idle EXCEPT !.pc = "lock"])

(* On to the provider; previous_payload has done its work. *)
Ask(p) == [pr[p] EXCEPT !.pc = "fetch", !.prev = Nothing, !.left = 0]

(* DEL of an entry that was invalid when it was read, whatever it is now.  *)
Discard(p) ==
  /\ At(p, "discard") \/ At(p, "drop")
  /\ pr' = [pr EXCEPT ![p] = IF At(p, "drop") THEN Ask(p) ELSE [@ EXCEPT !.pc = "lock"]]
  /\ cache' \in {cache, Miss}   \* an error is logged and ignored
  /\ UNCHANGED <<published, age, lock>>

-----------------------------------------------------------------------------
(* SET NX EX with a fresh token. *)
Acquire(p) ==
  /\ At(p, "lock") /\ lock = Free
  /\ lock' = [owner |-> p, left |-> LockSeconds]
  /\ pr' = [pr EXCEPT ![p] = [Ask(p) EXCEPT !.mine = TRUE]]
  /\ UNCHANGED <<published, age, cache>>

(* Somebody has the lock, or the command failed: without a lock the request *)
(* waits, even if the command was executed and the lock is its own.         *)
NoLock(p) ==
  /\ At(p, "lock")
  /\ lock' \in {lock} \cup (IF lock = Free THEN {[owner |-> p, left |-> LockSeconds]} ELSE {})
  /\ pr' = [pr EXCEPT ![p].pc = "wait", ![p].left = WaitSeconds]
  /\ UNCHANGED <<published, age, cache>>

(* wait_for_value: a document other than the previous one, an invalid one,  *)
(* an error; a read that finds neither is repeated until the deadline.      *)
WaitHit(p) ==
  /\ At(p, "wait") /\ WaitSeconds > 0 /\ cache.doc \in Doc \ {pr[p].prev}
  /\ Only(p, [pr[p] EXCEPT !.pc = "check", !.doc = cache.doc, !.cached = TRUE, !.left = 0])

WaitInvalid(p) ==
  /\ At(p, "wait") /\ WaitSeconds > 0 /\ cache.doc = Bad
  /\ Only(p, [pr[p] EXCEPT !.pc = "drop", !.left = 0])

WaitError(p) ==
  /\ At(p, "wait") /\ WaitSeconds > 0
  /\ Only(p, Ask(p))

(* Faulty variant: the waiter waits for as long as somebody has the lock. *)
GiveUpWhenFree(p) ==
  /\ At(p, "wait") /\ lock = Free
  /\ Only(p, Ask(p))

GiveUp(p) ==
  /\ At(p, "wait") /\ pr[p].left = 0
  /\ Only(p, Ask(p))

-----------------------------------------------------------------------------
(* What the finally clause does next. *)
Then(p, pc) == IF pr[p].mine THEN "release" ELSE pc

(* GET of the provider's document: its answer, or an error (no answer, a   *)
(* status, an oversized or invalid document) that ends the load.           *)
FetchAnswer(p) ==
  /\ At(p, "fetch")
  /\ Only(p, [pr[p] EXCEPT !.pc = "write", !.doc = published, !.cached = FALSE, !.hold = 0])

FetchError(p) ==
  /\ At(p, "fetch")
  /\ Only(p, IF pr[p].mine THEN [pr[p] EXCEPT !.pc = "release"] ELSE Idle)

(* SET EX.  An error, or a document whose re-encoding is too large, does   *)
(* not stop the load.                                                      *)
Write(p) ==
  /\ At(p, "write")
  /\ pr' = [pr EXCEPT ![p].pc = Then(p, "check")]
  /\ cache' \in {cache, [doc |-> pr[p].doc, left |-> Ttl]}
  /\ UNCHANGED <<published, age, lock>>

Released(p) == IF pr[p].doc = Nothing THEN Idle ELSE [pr[p] EXCEPT !.pc = "check", !.mine = FALSE]

(* Faulty variant: DEL without the comparison. *)
ReleaseAny(p) ==
  /\ At(p, "release")
  /\ pr' = [pr EXCEPT ![p] = Released(p)]
  /\ lock' \in {lock, Free}
  /\ UNCHANGED <<published, age, cache>>

(* _RELEASE_LOCK_SCRIPT: DEL if the lock still has this request's token.   *)
Release(p) ==
  /\ At(p, "release")
  /\ pr' = [pr EXCEPT ![p] = Released(p)]
  /\ lock' \in {lock} \cup (IF lock.owner = p THEN {Free} ELSE {})
  /\ UNCHANGED <<published, age, cache>>

(* The key the token names.  It makes no difference before a document is   *)
(* looked through, so it is chosen there, and remembered from then on.      *)
Names(p) == IF pr[p].key = Nothing THEN Key ELSE {pr[p].key}

(* The key is in the document and the token can be verified.                *)
Accept(p, k) == At(p, "check") /\ k \in Names(p) /\ Has(pr[p].doc, k) /\ Only(p, Idle)

(* Faulty variant: the next load may answer with the same document.         *)
RetryAnything(p, k) ==
  /\ At(p, "check") /\ k \in Names(p) /\ ~Has(pr[p].doc, k)
  /\ pr[p].cached /\ pr[p].prev = Nothing
  /\ Only(p, [Idle EXCEPT !.pc = "lock", !.key = k])

(* The key is not in a cached document: one more load, past the cache.      *)
Retry(p, k) ==
  /\ At(p, "check") /\ k \in Names(p) /\ ~Has(pr[p].doc, k)
  /\ pr[p].cached /\ pr[p].prev = Nothing
  /\ Only(p, [Idle EXCEPT !.pc = "lock", !.key = k, !.prev = pr[p].doc])

(* "OIDC signing key was not found". *)
Refuse(p, k) ==
  /\ At(p, "check") /\ k \in Names(p) /\ ~Has(pr[p].doc, k)
  /\ pr[p].cached => pr[p].prev # Nothing
  /\ Only(p, Idle)

-----------------------------------------------------------------------------
(* The worker dies: its lock stays. *)
Crash(p) == ~At(p, "idle") /\ Only(p, Idle)

(* fastapi-production-cache invalidate-oidc. *)
Invalidate == cache' = Miss /\ UNCHANGED <<published, age, lock, pr>>

(* Another writer of the key: another release, other limits, an operator.  *)
Spoil ==
  /\ \E n \in 1..Ttl : cache' = [doc |-> Bad, left |-> n]
  /\ UNCHANGED <<published, age, lock, pr>>

(* The provider rotates its keys. *)
Rotate(d) ==
  /\ published' = d /\ age' = [age EXCEPT ![d] = 0]
  /\ UNCHANGED <<cache, lock, pr>>

Minus1(n) == IF n = 0 THEN 0 ELSE n - 1
Older(n) == IF n = Horizon THEN n ELSE n + 1

(* Time passes; Redis drops what has expired.  Timely: a document is in a  *)
(* request's hands for at most Slow.                                       *)
Tick ==
  /\ \A p \in Proc : pr[p].doc # Nothing => pr[p].hold < Slow
  /\ age' = [d \in Doc |-> IF d = published THEN 0 ELSE Older(age[d])]
  /\ cache' = IF cache.left <= 1 THEN Miss ELSE [cache EXCEPT !.left = @ - 1]
  /\ lock' = IF lock.left <= 1 THEN Free ELSE [lock EXCEPT !.left = @ - 1]
  /\ pr' = [p \in Proc |-> [pr[p] EXCEPT !.left = Minus1(@),
                                        !.hold = IF pr[p].doc = Nothing THEN 0 ELSE @ + 1]]
  /\ UNCHANGED published

(* What the code does of its own accord, once a check has begun. *)
Step(p) ==
  \/ Discard(p) \/ Acquire(p) \/ NoLock(p)
  \/ WaitHit(p) \/ WaitInvalid(p) \/ GiveUp(p) \/ FetchAnswer(p) \/ FetchError(p)
  \/ Write(p) \/ Release(p) \/ \E k \in Key : Accept(p, k) \/ Retry(p, k) \/ Refuse(p, k)

Next ==
  \/ \E p \in Proc : \/ ReadHit(p) \/ ReadInvalid(p) \/ ReadMiss(p)
                     \/ Step(p) \/ WaitError(p) \/ Crash(p)
  \/ Invalidate \/ Spoil \/ Tick \/ \E d \in Doc \ {published} : Rotate(d)

Spec == Init /\ [][Next]_vars

-----------------------------------------------------------------------------
(* Whatever a token's key is looked for in was published at most Ttl and    *)
(* twice Slow ago, through any chain of fetches, writes, waits and reads:   *)
(* a withdrawn key stops to work, a key long published is found.            *)
OldKeysDie == \A p \in Proc : At(p, "check") => age[pr[p].doc] <= Ttl + 2 * Slow

(* The refresh lock ends with its time or by its owner, never by a request  *)
(* whose own lock had expired in the meantime.                              *)
LockEndsByOwner ==
  [][lock.owner # Nothing /\ lock'.owner # lock.owner =>
       lock.left <= 1 \/ \E p \in Proc : lock.owner = p /\ Release(p)]_vars

(* "An unknown cached `kid` forces one provider JWKS refresh"                *)
(* (ARCHITECTURE.md), "the application performs one direct JWKS refresh"    *)
(* (DEPLOYMENT.md): a token whose key the provider publishes is not refused *)
(* on the word of the cache.                                                *)
UnknownKeyAsksProvider ==
  [][\A p \in Proc, k \in Key : Refuse(p, k) /\ Has(published, k) => ~pr[p].cached]_vars

(* A check can always go on by itself; only the wait for another request's  *)
(* document depends on anything else, and that for WaitSeconds at the most: *)
(* a dead lock owner, or one whose fetch failed, holds nobody up.           *)
NobodyStuck ==
  \A p \in Proc : ~At(p, "idle") => ENABLED Step(p) \/ pr[p].left > 0

(* How many steps a check has before it at the most: a load may take all of *)
(* these, and until the check has settled on a key it may load twice.       *)
StepsLeft(x) ==
  (CASE x.pc = "discard" -> 7 [] x.pc = "lock" -> 6 [] x.pc = "wait" -> 5 [] x.pc = "drop" -> 4
     [] x.pc = "fetch" -> 3 [] x.pc = "write" -> 2 [] x.pc = "release" -> 1 [] OTHER -> 0)
  + (IF x.key = Nothing THEN 7 ELSE 0)

(* A check ends: whatever the cache, the lock and the provider answer, each *)
(* of its steps is its last or leaves fewer to take, so tokens that name    *)
(* unknown keys make nobody load again and again.                           *)
ChecksEnd ==
  [][\A p \in Proc : Step(p) \/ WaitError(p) =>
       pr'[p] = Idle \/ StepsLeft(pr'[p]) < StepsLeft(pr[p])]_vars

-----------------------------------------------------------------------------
(* Why the above hold. *)
Entries ==
  /\ cache.doc = Nothing <=> cache.left = 0
  /\ lock.owner = Nothing <=> lock.left = 0
  /\ age[published] = 0
  /\ cache.doc \in Doc => age[cache.doc] + cache.left <= Ttl + Slow

Knows(x) ==
  /\ x.pc = "idle" => x = Idle
  /\ x.prev # Nothing => x.key # Nothing
  /\ x.pc \in {"write", "check"} => x.doc \in Doc
  /\ x.pc \notin {"write", "release", "check"} => x.doc = Nothing
  /\ x.mine => x.pc \in {"fetch", "write", "release"}
  /\ x.doc = Nothing => x.hold = 0
  /\ x.doc # Nothing => age[x.doc] <= x.hold + (IF x.cached THEN Ttl + Slow ELSE 0)
  /\ x.cached => x.pc = "check"
  /\ x.pc \in {"fetch", "write", "release"} => x.prev = Nothing
  /\ x.prev # Nothing => ~Has(x.prev, x.key)
  /\ x.cached /\ x.doc # Nothing => x.doc # x.prev
  /\ x.pc = "discard" => x.key = Nothing
  /\ x.key # Nothing /\ (x.cached \/ x.pc \in {"lock", "wait"}) => x.prev # Nothing

IndInv == TypeOK /\ Entries /\ \A p \in Proc : Knows(pr[p])
=============================================================================
