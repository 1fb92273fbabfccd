SPECIFICATION FairSpec
CONSTANTS
  w1 = w1  w2 = w2
  Audiences = {0, 3}
  BatchSize = 2
  Limit = 3
  Malformed = {1}
  Leaving = {2}
  Workers = {w1, w2}
  Attempts = 2
  Remembers = FALSE
  MaxFaults = 1
INVARIANT SentIsComplete
PROPERTY SuppressionHolds
PROPERTY Ends
CHECK_DEADLOCK FALSE
