SPECIFICATION MCSpec
CONSTANTS
  Nbr = {b, c, d}
  Far = {x, y, z}
  Local = {me}
  Wills = {0, 1, 3, 7}
  b = b
  c = c
  d = d
  x = x
  y = y
  z = z
  me = me
INVARIANTS
  TypeOK
  Coverage
  OnlyWillingSymmetric
  WillingnessRespected
  MatchesSelections
PROPERTY Terminates
CHECK_DEADLOCK FALSE
