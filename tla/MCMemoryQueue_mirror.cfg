SPECIFICATION FairSpec
CONSTANTS
  a = a  b = b  f = f  q1 = q1  q2 = q2
  Ids = {a, b}
  Queues = {q1, q2}
  QueueOf <- MCQueueOf
  Unhandled = {}
  Invalid = {}
  Fired = {}
  Attached = TRUE
  Producers = {p1}
  Schedules = {}
  Concurrency = 1
  MaxAttempts = 2
  MaxLives = 1
  MaxTimeouts = 0
  MaxCrashes = 1
  MaxIntervals = 0
INVARIANT MirrorInventsNothing
PROPERTY JobEnds
CHECK_DEADLOCK FALSE
