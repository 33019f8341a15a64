SPECIFICATION FairSpec
CONSTANTS
  Event = {e1, e2}
  WithoutOverlap = {e1}
  InBackground = {e2}
  Runner = {r1, r2}
  MaxStops = 1
  MaxBackground = 1
  MaxCancels = 1
INVARIANT FlagGuardsRun
PROPERTY OverlapGuardReleased
