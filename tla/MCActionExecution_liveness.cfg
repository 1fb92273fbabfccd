SPECIFICATION FairSpec
CONSTANTS
  r1 = r1
  u1 = u1
  u2 = u2
  x1 = x1
  x2 = x2
  Recs <- OneRec
  Users <- OneUser
  Recipients <- OneAddress
  Kinds <- SomeKinds
  MaxAttempts = 2
  MaxCrashes = 1
  MaxTimeouts = 1
  MaxLost = 1
CHECK_DEADLOCK FALSE
INVARIANTS
PROPERTIES
  OpenSettles
