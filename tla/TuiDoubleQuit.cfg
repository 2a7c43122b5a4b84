SPECIFICATION Spec
CONSTANTS
  Keys <- QuitKeys
  Heights <- Tall
  InputCap = 2
  MaxKeys = 2
  FilterMax = 1
INVARIANTS
  QuitNeverPanics
