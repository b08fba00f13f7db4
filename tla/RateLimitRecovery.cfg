CONSTANTS
  Calls = {c1, c2}
  Sizes = {1, 2}
  Limit = 2
  Window = 3
  MaxDelay = 1
  MaxTime = 5
  MaxBatches = 4
  MaxFaults = 1
SPECIFICATION Spec
SYMMETRY CallSymmetry
CHECK_DEADLOCK FALSE
INVARIANT DeletedKeyHadWrongType
