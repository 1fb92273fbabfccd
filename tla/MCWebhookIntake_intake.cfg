SPECIFICATION FairSpec
CONSTANTS
  d1 = d1
  w1 = w1
  w2 = w2
  Deliveries <- OneDelivery
  Listeners <- TwoListeners
  MaxAttempts = 3
  MaxErrors = 3
  MaxOverruns = 2
  MaxUninstalls = 1
CHECK_DEADLOCK FALSE
INVARIANTS
  ProcessedIsApplied
  FollowedUp
PROPERTIES
  Settles
