CONSTANTS
  r1 = r1  r2 = r2  r3 = r3  i1 = i1  i2 = i2  d1 = d1  h1 = h1
  None = None
  Req <- TwoReqs
  Ip <- TwoIps
  Trusted <- OneTrusted
  Did <- OneDid
  Host <- OneHost
  Kinds = {"register", "login"}
  Window <- ShortWindows
  Limit <- LimitTwoThenOne
  VipLimit = 2
  MaxTime = 1
  MaxRequests = 3
  MaxFaults = 1
SPECIFICATION Spec
SYMMETRY Symmetry
INVARIANTS NthCallIsLast UpstreamRationed
