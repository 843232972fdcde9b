SPECIFICATION ServoSpec
CONSTANTS
  MaxPlugs = 3
  MaxRefused = 2
PROPERTIES LivePortKept GuardFed
