SPECIFICATION FairSpec
CONSTANTS
  Calls = {x1}
  ChannelLists <- Rules
  maxAttempts = 3
  baseDelayMs = 100
  backoffFactor = 2
  maxDelayMs = 150
CHECK_DEADLOCK FALSE
INVARIANTS ExactFanOut FallbackWhileInAppWorks ReportsAreTrue
PROPERTIES AlwaysResolves
