SPECIFICATION FairSpec
CONSTANTS
  Producer = {p1}
  Worker = {w1}
  Capacity = 2
  MaxRetries = 2
  MaxJobs = 3
  MaxCancels = 1
INVARIANT QueueSound
PROPERTY CloseReturns
