CONSTANTS
  d1 = d1  d2 = d2  s1 = s1  s2 = s2  s3 = s3  s4 = s4  h1 = h1  k1 = k1
  p1 = p1  p2 = p2  p3 = p3  x1 = x1  x2 = x2  x3 = x3
  None = None
  DID <- OneDid
  Sub <- OneSub
  Host = {h1}
  Keyword = {k1}
  Hits <- HitsS1
  Secret <- TwoSecrets
  Proc <- TwoProcs
  Ops = {"register", "list"}
  Listable <- Bans
  HandleLimit = 2
  Faults = {"database", "disconnect"}
  MaxFaults = 1
SPECIFICATION FairSpec
INVARIANT BansRespected
PROPERTY RequestsAnswered
