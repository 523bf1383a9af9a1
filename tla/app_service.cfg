CONSTANTS
  Operators = {p, q}
  Defaults = {d}
  Others = {x}
  MaxVersion = 2
  MaxRequests = 3
  MaxSims = 2
  MaxComputing = 1
SPECIFICATION Spec
CHECK_DEADLOCK FALSE
INVARIANTS WatchlistSound OneLoopEach FrozenIsSaved
PROPERTY DisconnectReturns
