CONSTANTS
  Points = 4
  Width = 12
  Spot = 17
  Values <- SmallValues
  Identities <- SmallIdentities
  Data <- SmallData
  Spots <- SmallSpots
  MaxContracts = 3
  Listings <- SmallListings
  Days <- SmallDays
  Instants <- SmallInstants
  Tol = 1
  MaxIter = 4
SPECIFICATION AlgoSpec
CHECK_DEADLOCK FALSE
INVARIANTS FlipIsSignChange CountedOnce OrderIrrelevant SelectionStable ReopensWhenTold
