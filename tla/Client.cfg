SPECIFICATION ClientSpec
CONSTANTS
  Callers = {c1, c2}
  Methods <- TwoMethods
  RetryAllMethods = FALSE
  RetryableMethods <- UsersWildcard
  MaxRetries = 1
  Timeout = FALSE
  MaxFailures = 1
  MaxHalfOpenCalls = 1

  Depth = 2
  MaxCalls = 2
  ServerTimeout = 2
  ClientTimeout = 3
  NoDeadline = 3

  DelayWidth = 4
  MaxAttempt = 5
  DefaultMaxWait = 3
INVARIANT SafeResend
INVARIANT SharedBreaker
INVARIANT OpenedByFailures
INVARIANT DeadlineInherited
INVARIANT DelayBounded
PROPERTY UsesBreaker
PROPERTY BoundedCallsReturn
PROPERTY StopReturns
CHECK_DEADLOCK FALSE
