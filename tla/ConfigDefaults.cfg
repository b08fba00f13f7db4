SPECIFICATION ConfigSpec
CONSTANTS
  Fields <- MCFields
  Numbers = {9}
  IntWidth = 3
INVARIANT FileHolds
CHECK_DEADLOCK FALSE
