CONSTANTS
  Subs = {s1}
  Coins = {c1}
  Events = {e1, e2}
  Copies = {1}
  None = None
  MirrorOn = {"adds", "reduces", "flips"}
  MaxPositions = 1
  Allocation = 4
  OpenLots = 2
  FailsBeforePause = 2
  MaxLead = 1
  MaxOps = 1
  Allowed = {"reject", "key", "unconfirmed", "cancel", "stop", "mode", "restart", "reconcile", "chain_fail", "user"}
SPECIFICATION FairSpec
PROPERTIES EventsDone GhostRowsEnd
CHECK_DEADLOCK FALSE
