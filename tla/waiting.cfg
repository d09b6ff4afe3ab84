SPECIFICATION Spec
CONSTANTS
  Tabs = {t1}
  Opened = {}
  Calls = {c1, c2}
  MaxRequests = 2
  Faults = TRUE
  Null = Null
CHECK_DEADLOCK FALSE
INVARIANT
  OneRefreshPerPage
PROPERTY
  CallsSettle
  LoadingEnds
