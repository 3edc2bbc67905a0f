CONSTANTS
  Calls = {k1, k2}
  Sessions = {s1, s2, s3}
  None = None
  Half = 4
  FirstLast = 2
  MaxOps = 1
  Allowed = {"refuse", "block", "drop", "close", "other", "error"}
  CacheEntries = {e1, e2}
  Readers = {r1, r2}
  Warmer = w
  NoEntry = none
  TTL = 1
  StaleMax = 2
  Backoff = 1
  WarmWindow = 1
  Requests = {"c", "b", "e"}
  ClassOf <- ClassOfSvc
  WeightOf <- WeightOfSvc
  HardCeiling = 4
  SoftCeiling = 3
  Headroom = 1
  BackgroundCap = 2
  WindowTicks = 2
  MaxWait <- MaxWaitSvc
  BreakerMax <- BreakerMaxSvc
  Extras = {1}
  RetryAfter = {3}
  MaxRefused = 1
  Alerts = {a1}
  Digest = digest
  Callers = {g1, g2}
  OutRows = {o1}
  LogRows = {l1, l2}
  Nil = nil
  KeyWindow = 0
  LogWindow = 2
  HourlyLimit = 1
  MaxQueue = 1
  MaxRetries = 1
  MaxMishaps = 1
  Attempts = {p1, p2}
  Tabs = {t1, t2}
  Nothing = nothing
  Lots = 2
  MaxGlitches = 1
  MaxFaults = 1
  Strategies = {x1, x2}
  Models = {m1}
  Markets <- MarketsSvc
  Slots = {q1, q2, q3}
  MaxConcurrent = 2
  LossLimit = 2
  PauseTicks = 2
  Prices = {0, 1, 2, 3, 4, 5, 6, 7}
  Setups <- SetupsSvc
  Whole = 5
  NoTarget = 9
  MaxTape = 2
  Fills = {"f1", "f2", "f3"}
  KeyOf <- KeyOfSvc
  Recoveries = {v1, v2}
  MaxDrops = 2
  MaxFails = 1
  Holdings <- HoldingsSvc
  ReadTrades = 1
  BufTrades = 1
  MaxTrades = 3
  MaxLost = 1
  Stakes <- StakesSvc
  Tids = {1, 2, 3}
  FirstTid = 2
  MaxFills = 4
  PageSize = 1
  PagesMax = 2
  FirstWindow = 9
  FeedWindow = 1
  Margin = 1
  Ahead = 1
  MaxClock = 5
  MaxHistory = 3
  PaperSubs = {u1}
  Marks = {1}
  NoMark = 0
  MaxLots = 2
  MaxMoves = 3
  MaxSlips = 2
VIEW FocusView
SPECIFICATION SvcSpec
INVARIANTS
  
  AtMostOnce  SentOutsideBand
  ServedValid
  WaitsBounded
  
  OutcomesAreReal
  ConcurrencyKept
  PartsAddUp
   HandedRight
  
  TripsHold
  NoneLeftBehind
  PaperFollows
PROPERTIES
  SharedBuild ExplorerHasRoom  StopNeverLoosens HistoryIsSilent ChangesAreReal
CHECK_DEADLOCK FALSE
