CONSTANTS
  p1 = p1  p2 = p2  p3 = p3
  None = None
  Proc <- ThreeProcs
  Event = {"register", "delete"}
  Cap = 4
  MaxTime = 2
  MaxId = 6
SPECIFICATION Spec
SYMMETRY Symmetry
INVARIANTS LatestKept DisorderBounded
PROPERTY OnlyForgets
