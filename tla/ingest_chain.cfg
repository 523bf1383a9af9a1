CONSTANTS
  Conns = {c1, c2}
  Identities = {a, b}
  RealIds = {k1, k2}
  Spots = {1, 2}
  FlushPatches = 2
  QueueDepth = 2
  MaxEvents = 3
  MaxFailures = 1
SPECIFICATION Spec
SYMMETRY Symmetry
CHECK_DEADLOCK FALSE
INVARIANTS IndexInverse PlaceholderForever BookCurrent RefsWithoutFault PointsAccounted
PROPERTY OiSurvives
