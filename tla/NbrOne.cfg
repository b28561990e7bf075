SPECIFICATION FairSpec
CONSTANTS
  me = me
  nbrB = nbrB
  nbrC = nbrC
  farX = farX
  Self = me
  Nbr = {nbrB}
  Far = {farX}
  Hellos <- OneHellos
  VTime = 2
  HoldTime = 4
  UseMac = FALSE
INVARIANTS
  LinkHasNeighbor
  LapseBounded
  LinkTimerInTime
PROPERTY SilentNeighbourForgotten
