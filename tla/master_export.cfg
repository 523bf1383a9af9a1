CONSTANTS
  MaxRows = 4
  MaxFaults = 2
  MaxCrashes = 2
SPECIFICATION LogFairSpec
INVARIANTS SkipsAreTorn HeaderOnce
PROPERTIES CursorNeverRewinds EventuallyExported
