SPECIFICATION FairSpec
CONSTANTS
  Caller = {c1, c2}
  Goroutine = {g1, g2}
  MaxJobs = 1
  MaxStarts = 2
  MaxEach = 1
INVARIANT StoppedIsQuiet
PROPERTY StopReturns
