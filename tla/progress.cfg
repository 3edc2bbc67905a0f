CONSTANTS
  Calls = {k1, k2}
  Sessions = {s1}
  None = None
  Half = 4
  FirstLast = 2
  MaxOps = 1
  Allowed = {"block", "drop", "close", "error"}
  CacheEntries = {e1}
  Readers = {r1, r2}
  Warmer = w
  NoEntry = none
  TTL = 1
  StaleMax = 2
  Backoff = 1
  WarmWindow = 1
  Requests = {"b", "c"}
  ClassOf <- ClassOfFew
  WeightOf <- WeightOfFew
  HardCeiling = 3
  SoftCeiling = 3
  Headroom = 1
  BackgroundCap = 2
  WindowTicks = 2
  MaxWait <- MaxWaitFew
  BreakerMax <- BreakerMaxFew
  Extras = {1}
  RetryAfter = {}
  MaxRefused = 1
  Alerts = {a1}
  Digest = digest
  Callers = {g1}
  OutRows = {o1}
  LogRows = {l1}
  Nil = nil
  KeyWindow = 0
  LogWindow = 1
  HourlyLimit = 1
  MaxQueue = 1
  MaxRetries = 1
  MaxMishaps = 1
  Attempts = {p1, p2}
  Tabs = {t1}
  Nothing = nothing
  Lots = 2
  MaxGlitches = 0
  MaxFaults = 1
  Holdings <- HoldingsFew
  ReadTrades = 1
  BufTrades = 1
  MaxTrades = 1
  MaxLost = 1
  PageSize = 1
  PagesMax = 1
  FirstWindow = 9
  FeedWindow = 1
  Margin = 1
  Ahead = 1
  MaxClock = 3
  MaxHistory = 2
SPECIFICATION ProgressSpec
PROPERTIES CallsEnd AnswersCome CriticalGoesOut NotifyDrains GoneRowsEnd SizesHeal HistoryFills
CHECK_DEADLOCK FALSE
