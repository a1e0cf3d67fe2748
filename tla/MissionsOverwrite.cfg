SPECIFICATION Spec
CONSTANTS
  Ids = {"m1"}
  Names = {"n1", "n2"}
  Plans <- SomePlans
  Zones <- SomeZones
  Grid <- Points
  Catalogue <- Templated
  Params <- SomeParams
  maxAltitude = 2
  Calls = {k1, k2}
  MaxVersion = 2
CHECK_DEADLOCK FALSE
PROPERTY PriorVersionsKept
