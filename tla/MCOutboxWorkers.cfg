\* Two workers whose batches hold both messages, and one exception; a lease may
\* run out in between, and one of the workers may be stopped or killed.  No
\* symmetry: liveness is checked.
SPECIFICATION FairSpec
CONSTANTS
  Msg = {m1, m2}
  Worker = {w1, w2}
  NoMsg = NoMsg
  NoWorker = NoWorker
  LeaseSeconds = 2
  MaxAttempts = 2
  BatchSize = 2
  BackoffBase = 1
  BackoffMax = 1
  PayloadLife = 2
  Counted = 3
  MaxFaults = 1
INVARIANTS OneWorkerPerAttempt OwnerIsCurrent PendingHasAttemptsLeft
PROPERTIES ImplementsDelivery EveryMessageEnds
