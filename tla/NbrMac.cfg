SPECIFICATION Spec
CONSTANTS
  me = me
  nbrB = nbrB
  nbrC = nbrC
  farX = farX
  Self = me
  Nbr = {nbrB, nbrC}
  Far = {farX}
  Hellos <- TwoHellos
  VTime = 1
  HoldTime = 2
  UseMac = TRUE
INVARIANTS
  AdvertisedLinksValid
  
  DerivedFollowStatus
