SPECIFICATION FairSpec
CONSTANTS
  Event = {e1}
  WithoutOverlap = {e1}
  InBackground = {e1}
  Runner = {r1, r2}
  MaxStops = 1
  MaxBackground = 2
  MaxCancels = 0
PROPERTY StopStops
