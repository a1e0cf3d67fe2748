SPECIFICATION FairSpec
CONSTANTS
  Drones = {d1, d2}
  NoDrone = NoDrone
  Conns = {c1, c2}
  Frames <- FewFrames
  Wires <- FewWires
  Queries <- FewQueries
  Seeded <- FewSeeded
  NotFinite = NotFinite
  MicrosPerMs = 2
  Second = 1
  ONE_MINUTE_SECONDS = 2
  ONE_HOUR_SECONDS = 4
  DEFAULT_BUCKETS = 2
  MAX_BUCKETS = 4
  Blank = Blank
  BatchSize = 2
  WindowSize = 2
  AltDropThreshold = 10
  BatteryDrainThreshold = 1
  MaxInputs = 5
  MaxStarts = 2
CHECK_DEADLOCK FALSE
INVARIANTS HandedOverOnce FramesAccountedFor RowsWellFormed HistoryConserves
PROPERTIES GpsLossReportedOnce BufferDrains
