SPECIFICATION Spec
CONSTANTS
  Users = {u1}
  Tabs = {t1, t2}
  Browser <- OneBrowser
  AccountOwner = u1
  Calls = {k1, k2}
  MaxSessions = 2
  MaxTokens = 3
  MaxFaults = 1
  Pages = {p1, p2}
  MaxSockets = 3
  MaxFailures = 1
  Readers = {r1, r2}
  Writers = {w1, w2}
  MaxChanges = 3
  MaxBumps = 2
  Exports = {e1, e2}
  Attempts = 2
  Limit = 1
  MaxMishaps = 2
  Merchants = {m1, m2}
  Operators = {o1, o2}
  MaxMessages = 3
  MaxCrashes = 1
  States = {s1, s2, s3}
  Callbacks = {c1, c2}
  MaxTroubles = 2
  Kinds = {1, 2}
  Handlers = {h1, h2}
  Clicks = {q1}
  Tries = 2
  MaxTicks = 1
  MaxFlaws = 1
  Shapes <- FewShapes
  MaxEdges = 3
  Hours = 2
  Minutes = 3
  WeekDays = 2
  Months = 2
  MonthDays <- ShortYears
  Leap = 2
  Terms <- FewTerms
  Starts = {2, 3, 6, 8}
  Horizon = 11
  Callers = {b1, b2}
  MaxCalls = 1
  MaxRows = 3
  MaxRuns = 2
  MaxDeaths = 1
  Things = {"product", "customer", "order", "rule", "code", "checkout"}
  Pieces = {x1, x2}
  MaxEdits = 3
  MaxReads = 2
  Members = {n1, n2}
  Texts = {1, 2}
  Recipients = {"y1", "y2"}
  MaxActive = 1
  MaxDrafts = 2
  MaxRevisions = 2
  MaxLosses = 1
  MaxActs = 2
  Senders = {"execution", "workflow"}
  Source <- OwnLedger
  Ask <- OneUnit
  Hand <- OneOrTwo
  Quota = 1
  TrialDays = 1
  Grace = 1
  Cycle = 1
  FinalDay = 2
  MaxUnits = 4
  MaxDeeds = 1
  Sources <- TwoSources
  LastDay = 3
  MostUsed = 3
  MaxNodes = 4
  MaxLinks = 3
SYMMETRY Symmetry
INVARIANT ReuseIsTheft
INVARIANT EventsArrive
INVARIANT FreshUnlessCrossed
INVARIANT NoneStranded
INVARIANT CountsMessages
INVARIANT ProvisionedOnce
INVARIANT MailedOnce
INVARIANT GraphsAgree
INVARIANT FiresNext
INVARIANT AdvisedOnce
INVARIANT MirrorsShop
INVARIANT SnapshotsHold
INVARIANT ShowsWhatItKnows
INVARIANT MetersTrue
INVARIANT PagesTrue
CHECK_DEADLOCK FALSE
