SPECIFICATION FairSpec
CONSTANTS
  hello = hello
  tc = tc
  mid = mid
  passA = passA
  passB = passB
  Periodic = {hello, tc, mid}
  Mid = mid
  Passing = {passA, passB}
  HelloIval = 2
  MaxDelay = 4
  InMacLayer = TRUE
INVARIANTS
  NeverFails
PROPERTIES
  OnTime
  PeriodicForever
