SPECIFICATION Spec
CONSTANTS
  c1 = c1
  c2 = c2
  p1 = p1
  Null = Null
  Certs = {c1, c2}
  Placements = {p1}
  Periods <- MCPeriods
  Starts <- MCStarts
  MaxWrites = 3
CHECK_DEADLOCK FALSE
INVARIANT SeesOwn ButtonsWork OneCallPerRow
