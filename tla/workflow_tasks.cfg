SPECIFICATION Spec
CONSTANTS
  Task = {t1, t2}
  Worker = {w1, w2}
  MaxRetries <- MixedAttempts
  LeaseDuration = 1
  Delays = {0, 1}
  MaxClock = 1
  MaxPushes = 2
  MaxFaults = 1
SYMMETRY WorkerSymmetry
INVARIANTS
  LeaseMatchesStatus
  BudgetRespected
  OneOwner
  CompletedByLatestClaim
  LocksProtectClaims
PROPERTIES
  TakeoverOnlyAfterExpiry
  CancellationSticks
  ImplementsLifecycle
