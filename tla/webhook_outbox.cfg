SPECIFICATION Spec
CONSTANTS
  Endpoint = {e1}
  Event = {v1, v2}
  Type = {t1}
  Url = {u1, u2}
  Worker = {w1, w2}
  MaxAttempts = 2
  DisableAfter = 2
  MaxReplays = 1
  Batch = 2
  PruneBatch = 1
  MaxVersion = 2
  MaxClaims = 2
PROPERTY OutboxSound
CHECK_DEADLOCK FALSE
SYMMETRY Interchangeable
