SPECIFICATION FaultySpec
CONSTANTS
  n1 = n1
  n2 = n2
  n3 = n3
  n4 = n4
  n5 = n5
  m1 = m1
  m2 = m2
  Node = {n1, n2, n3}
  Msg = {m1, m2}
  orig <- SameOrigin
  Ttl = 3
  MaxMsgs = 1
  Lossy = TRUE
  Dynamic = TRUE
  Prompt = FALSE
INVARIANTS TypeOK BufferHasTimer AtMostOnce
PROPERTIES ImplementsFlood FloodEnds
