SPECIFICATION Spec
CONSTANTS
  pNeeded = pNeeded
  pNeeding = pNeeding
  Plugin = {pNeeded, pNeeding}
  Theme = {pNeeding}
  Absent = Absent
  MaxFaults = 1
  Base = Base
  Optional = {o1, o2, o3}
  Stranger = Stranger
  CoreAssets = {core}
  Shell = {h1}
  Minutes = {0, 5, 9, 10, 59}
  Hours = {0, 9, 10, 23}
  Days = {1, 10, 31}
  MaxCalls = 2
  Row = {1, 2, 3}
  Stamp = {1, 2}
  PageAsked = {0, 2, 7}
  PerPageAsked = {0, 1, 9}
  DefaultPerPage = 1
  MaxPerPage = 2
  MaxInt = 7
  MaxChanges = 4
  CacheKey = {c1, c2, c3}
  Shared = c1
  Rememberer = {r1, r2}
  Nil = Nil
  MaxEntries = 2
  MaxBytes = 5
  MaxItemBytes = 2
  CacheTTL = 1
  MaxSecond = 1
  Priority = {0, 1}
  Publisher = {s1}
  MaxSubscriptions = 2
  MaxRetries = 1
CHECK_DEADLOCK FALSE
INVARIANTS
  
  CacheSound
  BusSound

  
  
