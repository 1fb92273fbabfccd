SPECIFICATION Spec
CONSTANTS
  a = a  b = b  f = f  q1 = q1  q2 = q2
  Ids = {a, b, f}
  Queues = {q1, q2}
  QueueOf <- MCQueueOf
  Unhandled = {f}
  Invalid = {}
  Fired = {f}
  Attached = FALSE
  Producers = {p1}
  Schedules = {s}
  Concurrency = 1
  MaxAttempts = 2
  MaxLives = 2
  MaxTimeouts = 1
  MaxCrashes = 1
  MaxIntervals = 1
INVARIANT InFlightExact
INVARIANT SlotsBounded
PROPERTY ImplementsLifecycle
CHECK_DEADLOCK FALSE
