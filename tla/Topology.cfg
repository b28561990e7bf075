SPECIFICATION FairSpec
CONSTANTS
  selA = selA
  selB = selB
  slot1 = slot1
  Sel = {selA, selB}
  Slot = {slot1}
  AnsnMod = 3
  SelHold = 1
  TopHold = 2
  TcMin = 1
  TcMax = 1
  Flight = 1
INVARIANTS
  OneAnsn
  SilentWithdrawalPending
  StaleBounded
PROPERTIES
  WholeAnnouncement
  Converges
