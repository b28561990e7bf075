SPECIFICATION MCSpec
CONSTANTS
  Self = me
  Addr = {n1, n2, f1, f2, f3, i1}
  n1 = n1
  n2 = n2
  f1 = f1
  f2 = f2
  f3 = f3
  i1 = i1
INVARIANTS
  NextHopConsistent
  RoutesChain
  ShortestRoutes
  MostWillingNextHop
PROPERTY Terminates
CHECK_DEADLOCK FALSE
