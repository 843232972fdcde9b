SPECIFICATION Spec
CONSTANTS
  MaxSpeed = 2
  Scale = 2
  NonFinite = NonFinite
  Packets <- Basic
  WatchdogTicks = 0
  TtyCap = 2
  MaxPkts = 2
CHECK_DEADLOCK FALSE
INVARIANTS ShutdownStops
