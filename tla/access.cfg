SPECIFICATION Spec
CONSTANTS
  MaxChanges = 1
INVARIANT
  Served
  OfferedOpens
  OneHop
