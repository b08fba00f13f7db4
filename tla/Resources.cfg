CONSTANTS
  Callers = {c1, c2, c3}
  MaxFailures = 2
  MaxHalfOpenCalls = 2
  MaxLost = 2
  Consumers = 3
  Probes = {q1, q2}
  NameOf <- MCNameOf
  Unconfigured = {}
  MaxProbes = 3
  MaxDepFailures = 1
  Tabs = {t1, t2}
  Writers = {t1}
  CsrfTokens = {1, 2, 3, 4, 5, 6, 7, 8}
  NoToken = 0
  TokenExpiry = 2
  MaxLoads = 2
  MaxCsrfFaults = 1
  MaxCsrfTicks = 2
  MaxWishes = 2

SPECIFICATION ResourcesSpec
INVARIANT NotWedged
INVARIANT AnswersTellChecks
CHECK_DEADLOCK FALSE
PROPERTY RecoveryCloses
PROPERTY GoroutinesEnd
PROPERTY NobodyWaitsForever
PROPERTY AcceptedIsCurrent
PROPERTY WriteSucceeds
