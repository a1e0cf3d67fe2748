SPECIFICATION FairSpec
CONSTANTS
  Drones = {"s1"}
  Statuses = {"active", "maintenance"}
  Models = {"m1"}
  Components = {"battery", "motor"}
  Deltas <- UpOrDown
  Thresholds = {2}
  Default = 3
  Calls = {"k1", "k2"}
  Flushes = {"f1", "f2"}
  MaxCalls = 3
  MaxCrashes = 1
CHECK_DEADLOCK FALSE
INVARIANTS EachEventOnce EventsMatchRows
PROPERTIES EventsDelivered
