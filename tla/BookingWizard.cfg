SPECIFICATION WizardSpec
CONSTANTS
  Properties = {"A","B"}
  NoProperty = NoProperty
  Rooms = {"A1","A2","B1"}
  NoRoom = NoRoom
  PropertyOf <- MCPropertyOf
  TypeOf <- MCTypeOf
  RateOf <- MCRateOf
  Purposes = {"STANDARD", "HOUSE_USE"}
  CycleDays = 2
  LastDay = 2
  Lists <- MCLists
  MaxLoads = 1
INVARIANTS SentIsCoherent TotalAgrees
CHECK_DEADLOCK FALSE
