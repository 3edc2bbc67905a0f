CONSTANTS
  Subs = {s1}
  Coins = {c1}
  Events = {e1, e2}
  Copies = {1, 2}
  None = None
  MirrorOn = {"adds", "reduces", "flips"}
  MaxPositions = 2
  Allocation = 4
  OpenLots = 2
  FailsBeforePause = 2
  MaxLead = 2
  MaxOps = 1
  Allowed = {"gates", "reject", "key", "unconfirmed", "partial", "partial_close", "restart", "reorder", "reconcile"}
SPECIFICATION Spec
INVARIANTS AtMostOneOrder OwnOpenKept OneOpenRow
PROPERTIES MirrorsOnce 
SYMMETRY Symmetry
CHECK_DEADLOCK FALSE
