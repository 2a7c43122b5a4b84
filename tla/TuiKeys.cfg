SPECIFICATION FairSpec
CONSTANTS
  Keys <- AllKeys
  Heights <- TallOrTiny
  InputCap = 2
  MaxKeys = 3
  FilterMax = 2
INVARIANTS
  TypeOK
PROPERTIES
  SignalExits
  QuitExits
  KeysAreHandled
