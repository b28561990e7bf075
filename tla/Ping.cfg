SPECIFICATION FairSpec
CONSTANTS
  Dests = 2
  History = 2
  Counts <- NoLimitOrTwo
  MaxSeq = 5
  MaxStarts = 2
INVARIANTS
  NoTimerWhenDown
  
  RttOfItsPing

  
CHECK_DEADLOCK FALSE
