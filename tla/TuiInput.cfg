SPECIFICATION FairSpec
CONSTANTS
  InputCap = 1
  MaxBytes = 5
INVARIANTS
  TypeOK
  InputAccounted
PROPERTIES
  InputDrains
CHECK_DEADLOCK FALSE
