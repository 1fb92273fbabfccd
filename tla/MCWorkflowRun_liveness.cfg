SPECIFICATION FairSpec
CONSTANTS
  trig = trig  act1 = act1  act2 = act2  act3 = act3  cond = cond  dly = dly
  m1 = m1  m2 = m2  w1 = w1  w2 = w2  t1 = t1
  Nodes = {trig, act2, dly}
  Root = trig
  Kind <- MCKind
  After <- MCChain
  Branch <- MCBranch
  Manual = {}
  Yes = {}
  Workers = {w1, w2}
  Ticks = {t1}
  Attempts = 2
  Remembers = FALSE
  MaxTime = 1
  MaxFaults = 1
  MaxChanges = 3
PROPERTY DelayEnds
CHECK_DEADLOCK FALSE
