SPECIFICATION Spec
CONSTANTS
  Person = {u1, u2}
  Invitation = {i1, i2}
  Clerk = {c1, c2}
  Session = {s1}
  ResetToken = {t1}
  Visitor = {v1, v2}
  SessionTTL = 2
  SessionIdle = 2
  TouchInterval = 1
  SessionRetention = 1
  TokenTTL = 1
  ResetSlots = 1
  MaxHour = 3
  MaxPassword = 2
  Boss = Boss
  Member = {n1, n2}
  AccessRole = {r1, r2}
  Permission = {manage, other}
  Manage = manage
  Desk = {d1, d2}
  ApiKey = {k1}
  Scope = {all, some}
  AnyScope = all
  Caller = {l1, l2}
  UseThrottle = 1
  MaxMinute = 3
  Account = {a1, a2}
  OpSession = {o1, o2}
  Request = {q1, q2}
  Console = {x1, x2}
  Selected = {"setting", "quota", "operator", "usage", "test", "delivery"}
  MaxCommands = 2
  MaxBatch = 1
  Polls = {4}
  MaxDelay = 3
  MaxArrivals = 1
SYMMETRY Symmetry
CHECK_DEADLOCK FALSE
INVARIANTS
  OperatorsSound
  ConsoleSound
PROPERTIES
  OrganizationSound
  AccountsSound
  PermissionsSound
  ApiKeysSound
