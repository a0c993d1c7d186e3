CONSTANTS
  d1 = d1  d2 = d2  s1 = s1  s2 = s2  s3 = s3  x1 = x1  x2 = x2  x3 = x3
  None = None
  DID <- TwoDids
  Sub <- ThreeSubs
  Hash <- ThreeHashes
SPECIFICATION Spec
CHECK_DEADLOCK FALSE
INVARIANT TablesAgree
INVARIANT OneKeyPerDid
PROPERTY NoTakeover
