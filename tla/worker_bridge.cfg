CONSTANTS
  d1 = d1  d2 = d2  s1 = s1  s2 = s2  x1 = x1  x2 = x2  p1 = p1  p2 = p2
  None = None
  DID <- TwoDids
  Sub <- TwoSubs
  Key = {x1}
  Proc <- TwoProcs
  Ops = {"register", "manage", "sync", "claim", "setHandle", "changeHandle", "accountDeleted", "signup", "updateHandle", "deleteAccount"}
  Together = {"manage","setHandle"}
  Vip = {}
  MaxHandles = 1
  MaxFaults = 1
SPECIFICATION Spec
SYMMETRY Symmetry
INVARIANTS TypeOK ListedWhileSerial
PROPERTIES DeletedAccountGone NoTakeoverWhileSerial
