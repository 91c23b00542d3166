SPECIFICATION FairSpec
CONSTANTS
  p1 = p1
  a1 = a1
  a2 = a2
  s1 = s1
  s2 = s2
  c1 = c1
  c2 = c2
  Post <- MCPost
  Size <- MCSize
  Aircraft <- MCAircraft
  Of <- MCOf
  Reader <- MCReader
  SessionOf <- MCSessionOf
  Session <- MCSession
  Chunk = 2
  Count = 2
INVARIANTS
  TypeOK
  DeliveredOnce
PROPERTIES
  PostsReachStore
  TracksOnlyGrow
CHECK_DEADLOCK FALSE
