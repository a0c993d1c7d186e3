CONSTANTS
  a1 = a1  p1 = p1  p2 = p2
  None = None
  Applicant = {a1}
  Proc <- TwoProcs
  Ops = {"register", "remove", "assign", "login", "logout", "post", "export", "import"}
  Together = {"register", "post"}
  Change <- SomeChanges
  StartLists <- PdsOrReserved
  Limit <- LimitOne
  VipLimit = 2
  MaxEvents = 2
  MaxRequests = 3
  MaxFaults = 1
SPECIFICATION Spec
SYMMETRY Symmetry
CHECK_DEADLOCK FALSE
INVARIANTS TypeOK BansRespected GuardsHonest LogInWriteOrder ScreenUpToDate
PROPERTY EntriesStay
