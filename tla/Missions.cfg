SPECIFICATION Spec
CONSTANTS
  Ids = {"m1"}
  Names = {"n1"}
  Plans <- SomePlans
  Zones <- SomeZones
  Grid <- Points
  Catalogue <- Templated
  Params <- SomeParams
  maxAltitude = 2
  Calls = {k1, k2}
  MaxVersion = 3
SYMMETRY Interchangeable
CHECK_DEADLOCK FALSE
INVARIANTS VersionsContiguous StoredFlyable ExportsAreSafe ZonesSound
