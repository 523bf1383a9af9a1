CONSTANTS
  a = a
  b = b
  c = c
  None = None
  Tickers = {a, b, c}
  Defaults = {a}
  Customs = {b}
  Seed <- ASeed
  MaxLegs = 2
  MaxClock = 2
  MaxEdits = 1
SPECIFICATION Spec
CHECK_DEADLOCK FALSE
INVARIANT TargetUsesBenchmark
