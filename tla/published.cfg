SPECIFICATION Spec
CONSTANTS
  Requests = {r1, r2, r3, r4}
  Opportunities = {o1}
  Enrollments = {e1, e2}
  Tables <- EntityTables
  Concurrency = 3
  Faults = TRUE
  Null = Null
SYMMETRY Symmetry
CHECK_DEADLOCK FALSE
INVARIANT
  TypeOK
  OneParticipation
  RegisteredAfterPublishing
  DeletedUnused
  OneCallsRows
PROPERTY
  FollowsPublication
