SPECIFICATION ChainSpec
CONSTANTS
  Depth = 2
  MaxCalls = 2
  ServerTimeout = 2
  ClientTimeout = 3
  NoDeadline = 3
INVARIANT OneRequestID
CHECK_DEADLOCK FALSE
