CONSTANTS
  p1 = p1
  p2 = p2
  r1 = r1
  r2 = r2
  u1 = u1
  Passes = {p1, p2}
  ChainSize = 1
  Rotators = {r1, r2}
  Underlyings = {u1}
  Capacity = 3
  SweepInFlight = 1
  OiLines = 2
  MayCancel = TRUE
SPECIFICATION FairSpec
INVARIANTS LinesBalance SlotBalance
PROPERTIES SlotsReturn PassEnds
CHECK_DEADLOCK FALSE
