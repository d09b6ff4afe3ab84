SPECIFICATION Spec
CONSTANTS
  Tabs = {t1, t2}
  Opened = {t1, t2}
  Calls = {c1}
  MaxRequests = 3
  Faults = FALSE
  Null = Null
SYMMETRY Symmetry
CHECK_DEADLOCK FALSE
INVARIANT
  OneLiveToken
  RevokedForGood
  SessionKept
  UserShown
