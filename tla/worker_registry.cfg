CONSTANTS
  d1 = d1  d2 = d2  s1 = s1  s2 = s2  x1 = x1  x2 = x2  p1 = p1  p2 = p2
  None = None
  DID <- TwoDids
  Sub <- TwoSubs
  Key <- TwoKeys
  Proc <- TwoProcs
  Ops = {"register", "delete", "manage", "list", "assign", "adminDelete", "adminDrop", "backfill", "export", "import"}
  Together = {"register", "delete"}
  Vip = {}
  MaxHandles = 1
  MaxFaults = 1
SPECIFICATION Spec
SYMMETRY Symmetry
INVARIANTS ListedWhileSerial KeyCustody RecordWithinCap KeysReachClients
PROPERTY BackfillRepairs
