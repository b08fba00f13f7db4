CONSTANTS
  Instances = {i1}
  Nobody = Nobody
  Last = 3
  MaxErrors = 0
  MaxCrashes = 2
SPECIFICATION Spec
PROPERTY SuccessMeansMigrated
CHECK_DEADLOCK FALSE
