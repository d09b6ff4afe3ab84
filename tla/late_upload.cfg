SPECIFICATION Spec
CONSTANTS
  Requests = {r1, r2, r3}
  Participations = {p1}
  Users = {student, leader}
  student = student
  leader = leader
  Owner <- OneOwner
  Leader <- OneLeader
  MaxFiles = 1
  Concurrency = 2
  StatusColumn <- EntityColumn
  Faults = FALSE
  Null = Null
SYMMETRY Symmetry
PROPERTY
  StaysLocked
