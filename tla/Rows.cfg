SPECIFICATION Spec
CONSTANTS
  k1 = k1
  k2 = k2
  k3 = k3
  k4 = k4
  Key <- MCKey
  MaxConns = 3
  MaxAlerts = 3
  EventAlerts = 2
INVARIANTS
  TypeOK
  RowsAreNewestOpen
  MarkIsRecentAlert
PROPERTIES
  RowsLostOnlyWhenFull
SYMMETRY KeySymmetry
