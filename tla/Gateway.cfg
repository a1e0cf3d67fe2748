SPECIFICATION Spec
CONSTANTS
  Slots = {s1, s2}
  Requests <- Traffic
  Configured = {"fleet-registry", "mission-planning"}
  limit <- OneEach
  windowSec = 2
  TicksPerSec = 2
  MaxNow = 6
  MaxRequests = 4
SYMMETRY Interchangeable
CHECK_DEADLOCK FALSE
INVARIANTS WindowQuota LockoutEnds ForwardedWasGranted OnlyTwoUpstreamsAnswer
