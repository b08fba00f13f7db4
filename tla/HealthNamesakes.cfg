SPECIFICATION HealthSpec
CONSTANTS
  Probes = {q1, q2}
  NameOf <- MCNameOf
  Unconfigured = {}
  MaxProbes = 2
  MaxDepFailures = 1
INVARIANT ReadyMeansPassed
CHECK_DEADLOCK FALSE
