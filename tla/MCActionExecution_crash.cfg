SPECIFICATION Spec
CONSTANTS
  r1 = r1
  u1 = u1
  u2 = u2
  x1 = x1
  x2 = x2
  Recs <- OneRec
  Users <- OneUser
  Recipients <- OneAddress
  Kinds <- EmailKind
  MaxAttempts = 2
  MaxCrashes = 1
  MaxTimeouts = 0
  MaxLost = 0
CHECK_DEADLOCK FALSE
INVARIANTS
  SentOnce
