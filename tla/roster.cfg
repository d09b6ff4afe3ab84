SPECIFICATION Spec
CONSTANTS
  ann = ann
  bob = bob
  Null = Null
  Requests = {1, 2, 3}
  MaxActive = 2
  MaxRows = 6
  Emails <- MCEmails
  Names <- MCNames
  Files <- MCFiles
  Organisations <- MCOrganisations
CHECK_DEADLOCK FALSE
INVARIANT NoOrphans NothingUnreported LeaderHoldsRole DeciderSees
PROPERTY SuccessIsComplete
