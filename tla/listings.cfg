SPECIFICATION Spec
CONSTANTS
  ann = ann
  bob = bob
  eve = eve
  e1 = e1
  e2 = e2
  e3 = e3
  a = a
  b = b
  o1 = o1
  o2 = o2
  o3 = o3
  Null = Null
  Users = {ann, bob, eve}
  Staff = {bob, eve}
  Enrollments = {e1, e2, e3}
  Sections = {a, b}
  Groups = {1, 2, 3}
  Opportunities = {o1, o2, o3}
  UserOf <- MCUserOf
  PeriodOf <- MCPeriodOf
  SectionOf <- MCSectionOf
  NameOf <- MCNameOf
  TypeOf <- MCTypeOf
  Target <- MCTarget
  Databases <- MCDatabases
  Limits = {1}
  MaxLimit = 3
  DefaultLimit = 2
  MaxFollowUps = 1
  MaxBefore = 0
  MaxWrites = 3
CHECK_DEADLOCK FALSE
INVARIANT QueueAccountedFor AnalyticsAddUp OfferedIsTakeable RatesInRange NothingMissed DashboardAddsUp
