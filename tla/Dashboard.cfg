SPECIFICATION Spec
CONSTANTS
  Points = {p1, p2}
  Slots = {1, 2}
  MaxWaypoints = 3
  MaxGeofences = 1
  MaxEdits = 4
  Alerts = {"a1"}
  MaxLevel = 1
  MaxPushed = 2
  Drones = {1, 2}
  DroneStatus = {"active", "maintenance"}
  MaxTs = 3
  Reading <- Altitudes
  Capacity = 2
  Stored <- Detections
  Inputs = {0, 8, 9}
  Blank = Blank
  Steps = 4
  Half = 1
INVARIANTS WorkIsKept FeedIsHonest LiveViewsCurrent ReplayShowsRange
PROPERTIES FeedNeverRegresses
