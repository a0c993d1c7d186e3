CONSTANTS
  d1 = d1  d2 = d2  s1 = s1  s2 = s2  x1 = x1  x2 = x2  x3 = x3  c1 = c1  c2 = c2
  None = None
  DID <- OneDid
  Sub <- TwoSubs
  Hash <- TwoHashes
  Conn <- TwoConns
  Ops = {"register", "claim", "delete", "drop", "export", "import"}
  MaxFaults = 1
SPECIFICATION FairSpec
INVARIANTS TypeOK HandlesHaveDids
PROPERTIES ImplementsHandleStore LockGivenBack
