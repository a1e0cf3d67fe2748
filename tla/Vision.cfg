SPECIFICATION Spec
CONSTANTS
  NoId = NoId
  Batches <- Sent
  MaxRequests = 3
  Queries <- Asked
  Sightings <- Seen
  MaxPerFrame = 2
  MaxFrames = 3
  Intervals = {1, 2}
  Gate = 30
  MaxAge = 2
  Zones <- AllZones
  MoveEps = 2
  StoppedSeconds = 2
  GroupThreshold = 1
INVARIANTS IngestOnce QueryExact TracksSound EventsHaveEvidence
CHECK_DEADLOCK FALSE
