CONSTANTS
  t1 = t1
  t2 = t2
  o1 = o1
  o2 = o2
  Tickers = {t1, t2}
  IndexTickers = {}
  Covered = {t1, t2}
  Operators = {o1, o2}
  Monitor = Monitor
  None = None
  MaxTickers = 1
  MaxLive = 2
  MaxClicks = 2
  MaxConns = 1
  MaxRestarts = 0
  StartClocks <- Late
  LastClock = 3
SPECIFICATION Spec
INVARIANTS InFlightCap KillReaches
SYMMETRY Symmetry
CHECK_DEADLOCK FALSE
