SPECIFICATION FairSpec
CONSTANTS
  k1 = k1
  k2 = k2
  Key <- MCKey
  ShowTimeWait = FALSE
  Built <- MCBuilt
  MaxEvents = 4
INVARIANTS
  TypeOK
  ShownIsPrefix
  WrittenBeforeShown
  FileIsFirstSightings
PROPERTIES
  CapturedIsShown
  ShutdownCompletes
