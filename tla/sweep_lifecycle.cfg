CONSTANTS
  t1 = t1
  t2 = t2
  o1 = o1
  o2 = o2
  Tickers = {t1}
  IndexTickers = {t1}
  Covered = {t1}
  Operators = {o1}
  Monitor = Monitor
  None = None
  MaxTickers = 1
  MaxLive = 1
  MaxClicks = 1
  MaxConns = 2
  MaxRestarts = 1
  StartClocks <- Regular
  LastClock = 3
SPECIFICATION CoreSpec
INVARIANT NothingAutoArms
PROPERTY StickyShutoff
CHECK_DEADLOCK FALSE
