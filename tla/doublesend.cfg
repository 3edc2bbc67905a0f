CONSTANTS
  Calls = {k1, k2}
  Sessions = {s1, s2}
  None = None
  Half = 4
  FirstLast = 2
  MaxOps = 0
  Allowed = {"mute"}
SPECIFICATION Spec
INVARIANT AtMostOnce
CHECK_DEADLOCK FALSE
