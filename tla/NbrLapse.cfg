SPECIFICATION Spec
CONSTANTS
  me = me
  nbrB = nbrB
  nbrC = nbrC
  farX = farX
  Self = me
  Nbr = {nbrB}
  Far = {farX}
  Hellos <- OneHellos
  VTime = 3
  HoldTime = 3
  UseMac = FALSE
INVARIANT LapseIsLoss
