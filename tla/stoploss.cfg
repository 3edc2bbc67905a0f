CONSTANTS
  Subs = {s1}
  Coins = {c1}
  Events = {e1, e2, e3}
  Copies = {1}
  None = None
  MirrorOn = {"adds", "reduces", "flips"}
  MaxPositions = 1
  Allocation = 4
  OpenLots = 2
  FailsBeforePause = 2
  MaxLead = 2
  MaxOps = 1
  Allowed = {"fire", "reconcile", "loss"}
SPECIFICATION Spec
PROPERTY LossStopsEntries
SYMMETRY Symmetry
CHECK_DEADLOCK FALSE
