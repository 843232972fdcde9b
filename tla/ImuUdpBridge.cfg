SPECIFICATION StreamSpec
CONSTANTS
  PacketLen = 4
  MaxPackets = 6
  MaxGaps = 2
  MaxLookalikes = 2
  Depth = 2
  MinPeriod = 2
  MaxClock = 7
  MaxSteps = 2
INVARIANTS ResyncBound
PROPERTIES RateLimit
\* the bounds end the behaviour
CHECK_DEADLOCK FALSE
