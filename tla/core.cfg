CONSTANTS
  Subs = {s1}
  Coins = {c1, c2}
  Events = {e1, e2, e3}
  Copies = {1}
  None = None
  MirrorOn = {"adds", "reduces", "flips"}
  MaxPositions = 1
  Allocation = 4
  OpenLots = 3
  FailsBeforePause = 2
  MaxLead = 2
  MaxOps = 1
  Allowed = {"gates", "partial", "loss", "liquidated", "pause", "resume", "toggle", "shadow"}
SPECIFICATION Spec
INVARIANTS BooksMatchVenue NoOrphanCopy 
SYMMETRY Symmetry
CHECK_DEADLOCK FALSE
