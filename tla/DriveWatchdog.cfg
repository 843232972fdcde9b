SPECIFICATION FairSpec
CONSTANTS
  MaxSpeed = 2
  Scale = 2
  NonFinite = NonFinite
  Packets <- Fatal
  WatchdogTicks = 0
  TtyCap = 2
  MaxPkts = 2
CHECK_DEADLOCK FALSE
PROPERTIES WatchdogStops
