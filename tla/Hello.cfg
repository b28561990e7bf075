SPECIFICATION FairSpec
CONSTANTS
  A = A
  B = B
  X = X
  Will = 3
  VTime = 3
  HoldTime = 3
INVARIANTS SymmetricMeansHeard HellosValid
PROPERTIES Converges OneWayNoticed
