SPECIFICATION Spec
CONSTANTS
  Requests = {r1}
  Null = Null
  MaxRows = 4
  MaxAmount = 11
  NewRates <- MCNewRates
  Changes <- MCChanges
  Horizon = {1}
  Occupancies = {30, 90}
  CompetitorAmounts = {8}
INVARIANTS DerivedFollowParents NoRateDerivesFromItself
CHECK_DEADLOCK FALSE
