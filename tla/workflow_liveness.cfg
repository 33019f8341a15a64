SPECIFICATION FairSpec
CONSTANTS
  Task = {t1}
  Worker = {w1, w2}
  MaxRetries <- TwoAttempts
  LeaseDuration = 1
  Delays = {0}
  MaxClock = 2
  MaxPushes = 1
  MaxFaults = 1
PROPERTY TasksProgress
