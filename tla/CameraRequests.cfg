SPECIFICATION FairSpec
CONSTANTS
  N = 3
  MaxSpurious = 1
  MaxFails = 1
INVARIANTS TypeOK BufferExclusive
PROPERTIES CameraNeverStuck QuietShutdownEnds
CHECK_DEADLOCK FALSE
