SPECIFICATION Spec
CONSTANTS
  EventId = {k1, k2}
  Amount = {1}
  Meter = {m1, m2}
  MaxSafe = 2
  DefaultLimit = 1
  NoLimit = NoLimit
  MaxEventAge = 1
  FutureSkew = 0
  Retention = 1
  Period = 2
  MaxMoment = 2
  MaxQuotas = 2
  SettingScope = {"app", "user"}
  Choice = {d, x, y}
  Default = d
  Editor = {e1, e2}
  MaxEdits = 3
  Good = {g1, g2}
  Bad = {b1}
  NoObject = NoObject
  AssetWorker = {w1, w2}
  AssetLease = 1
  PendingTTL = 2
  GrantTTL = 1
  Overrun = FALSE
  MaxTick = 3
  Identity = {i1, i2}
  Replica = {p1}
  Desks = 2
  NoBucket = NoBucket
  Quota = 1
  Window = 1
  MaxBuckets = 1
  CleanupEvery = 1
  CleanupBatch = 1
  FailureIs = "local"
  MaxTime = 1
  Author = {a, b}
  Mentionable = {b}
  Moderator = {b}
  Resource = {r}
  CommentId = {1, 2, 3}
  NoComment = NoComment
  Nobody = Nobody
  MaxPosts = 4
  Tag = {t1, t2}
  TagName = {"n", "m"}
  Tagged = {"r"}
  Tagger = {h1, h2}
  MaxTagVersion = 2
  MaxTagIds = 1
  ArticleId = {1, 2, 3}
  Manager = {n1, n2}
  ArticlePage = 1
  MaxRevisions = 2
  Migration = {1, 2, 3}
  MaxOperations = 5
  Environment = {prod, dev}
  Production = {prod}
  Number = {0, 3}
  Junk = 9
  NoConfig = NoConfig
CHECK_DEADLOCK FALSE
INVARIANTS
  MigrationsSound
  ConfigurationSound
PROPERTIES
  UsageSound
  SettingsSound
  
  RatesSound
  ContentSound
