SPECIFICATION Spec
CONSTANTS
  Requests = {r1, r2, r3}
  Participations = {p1, p2}
  Users = {student, leader}
  student = student
  leader = leader
  Owner <- OneOwner
  Leader <- OneLeader
  MaxFiles = 2
  Concurrency = 3
  StatusColumn <- EntityColumn
  Faults = TRUE
  Null = Null
SYMMETRY Symmetry
INVARIANT
  TypeOK
  StoredFiles
  DecisionOnce
PROPERTY
  SettledIsFinal
  QuietUntouched
  FollowsLifecycle
