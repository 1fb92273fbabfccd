SPECIFICATION SubFairSpec
CONSTANTS
  ch1 = ch1  ch2 = ch2  u1 = u1  u2 = u2  k1 = k1
  NoCharge = NoCharge
  Charges = {ch1, ch2}
  Members = {u1}
  Ticks = {k1}
  Listed = {"CREATED", "PENDING", "ACTIVE"}
  TrialDays = 1
  Grace = 1
  Cycle = 1
  Limit = 1
  MaxTrial = 1
  MaxFaults = 1
INVARIANT UnpaidAccessEnds
INVARIANT PaidByAcceptance
PROPERTY NothingLingers
CHECK_DEADLOCK FALSE
