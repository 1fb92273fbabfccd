SPECIFICATION FairSpec
CONSTANTS
  m1 = m1  m2 = m2  g1 = g1  g2 = g2  w1 = w1  w2 = w2
  NoGroup = NoGroup
  Modules = {m1, m2}
  Passes <- MCPlan
  Groups = {g1}
  Daily = {m1}
  Manual = {m2}
  Workers = {w1, w2}
  Attempts = 2
  Remembers = FALSE
  MaxRequests = 2
  MaxFaults = 1
INVARIANT CompletedIsWhole
PROPERTY FullSyncRefreshes
CHECK_DEADLOCK FALSE
