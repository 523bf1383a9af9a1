CONSTANTS
  Listed = {k}
  Unlisted = {u}
  Identities = {a, b}
  Dailies = {a}
  MaxDay = 1
  MaxEvents = 3
  MaxBoots = 3
  MaxQueue = 4
  MaxLosses = 1
SPECIFICATION BootSpec
CHECK_DEADLOCK FALSE
PROPERTIES CleanRestartKeepsBook RestoredTradable
