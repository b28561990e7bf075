SPECIFICATION RestSpec
CONSTANTS
  n1 = n1
  n2 = n2
  n3 = n3
  n4 = n4
  n5 = n5
  m1 = m1
  m2 = m2
  Node = {n1, n2, n3, n4, n5}
  Msg = {m1}
  orig <- SameOrigin
  Ttl = 4
  MaxMsgs = 4
  Lossy = FALSE
  Dynamic = FALSE
  Prompt = TRUE
PROPERTIES FloodComplete
CHECK_DEADLOCK FALSE
