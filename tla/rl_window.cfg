CONSTANTS
  r1 = r1  r2 = r2  r3 = r3  i1 = i1  i2 = i2  d1 = d1  h1 = h1
  None = None
  Req <- TwoReqs
  Ip <- OneIp
  Trusted = {}
  Did = {}
  Host = {}
  Kinds = {"manage"}
  Window <- ShortWindows
  Limit <- LimitOne
  VipLimit = 2
  MaxTime = 4
  MaxRequests = 5
  MaxFaults = 1
SPECIFICATION FairSpec
INVARIANTS HonestCounter OverrunBounded
PROPERTY ExpiredSwept
