\* All kinds of packets, three of them.
SPECIFICATION Spec
CONSTANTS
  MaxSpeed = 2
  Scale = 2
  NonFinite = NonFinite
  Packets <- Mixed
  WatchdogTicks = 0
  TtyCap = 2
  MaxPkts = 3
INVARIANTS TypeOK GarbledOnlyStop LockLostOnlyByStop
PROPERTIES ImplementsMotorCommands UnlockThenMove
\* the bridge ends after Ctrl+C
CHECK_DEADLOCK FALSE
