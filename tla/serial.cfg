SPECIFICATION Spec
CONSTANTS
  Requests = {r1, r2, r3, r4, r5}
  Participations = {p1}
  Users = {student, leader}
  student = student
  leader = leader
  Owner <- OneOwner
  Leader <- OneLeader
  MaxFiles = 1
  Concurrency = 1
  StatusColumn <- EntityColumn
  Faults = TRUE
  Null = Null
SYMMETRY Symmetry
INVARIANT
  OneSubmission
  VerifiedHasEvidence
  DecisionsLand
  IntactSubmission
