SPECIFICATION Spec
CONSTANTS
  trig = trig  act1 = act1  act2 = act2  act3 = act3  cond = cond  dly = dly
  m1 = m1  m2 = m2  w1 = w1  w2 = w2  t1 = t1
  Nodes = {trig, act1, act2, act3, cond, dly}
  Root = trig
  Kind <- MCKind
  After <- MCJoin
  Branch <- MCBranch
  Manual = {m1, m2}
  Yes = {m2}
  Workers = {w1, w2}
  Ticks = {t1}
  Attempts = 2
  Remembers = FALSE
  MaxTime = 0
  MaxFaults = 1
  MaxChanges = 1
INVARIANT OneWalker
INVARIANT ActsOnce
INVARIANT WalksItsBranch
PROPERTY OverIsFinal
CHECK_DEADLOCK FALSE
