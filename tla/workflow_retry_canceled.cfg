SPECIFICATION Spec
CONSTANTS
  Task = {t1}
  Worker = {w1, w2}
  MaxRetries <- OneAttempt
  LeaseDuration = 1
  Delays = {0}
  MaxClock = 1
  MaxPushes = 2
  MaxFaults = 1
INVARIANT PendingIsClaimable
