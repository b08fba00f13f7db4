CONSTANTS
  Callers = {c1, c2, c3}
  MaxFailures = 2
  MaxHalfOpenCalls = 2
  MaxLost = 0
SPECIFICATION Spec
INVARIANT DocumentedProbeLimit
SYMMETRY CallerSymmetry
