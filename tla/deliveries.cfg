SPECIFICATION Spec
CONSTANTS
  Note = {1}
  Address = {a1, a2}
  Mailer = {m1, m2}
  MailAttempts = 2
  MailBatch = 2
  Client = {c1, c2}
  Key = {k1}
  NoKey = NoKey
  Content = {a, b}
  MaxCalls = 3
  MaxFaults = 1
  Job = {plain, held}
  Retries <- RetriesOf
  OwnQueue <- QueueOf
  HasDelay = {held}
  Queue = {q1, q2}
  NoQueue = NoQueue
  Caller = {u1}
  Poller = Poller
  MaxBootstraps = 1
  Policy <- Policies
  Bare = Bare
  Entry = {e1, e2, e3}
  Mine = {e1, e2}
  Unstorable = {e3}
  AuditQueueSize = 1
  AuditBatch = 2
  AuditRange = 1
  PageLimit = 1
  MaxDay = 3
  MaxTimeouts = 1
  Request = {r1}
  Checker = {"database", "disk"}
  Budget = 1
  CanMigrate = TRUE
CHECK_DEADLOCK FALSE
INVARIANTS
  MailSound
  IntakeSound
  WorkflowSound
  AuditSound
  ServerSound
PROPERTY DeliveriesEnd
