SPECIFICATION SessionSpec
CONSTANTS
  Depth = 1
  MaxMaps = 2
  MaxDetections = 2
INVARIANTS OneSlam ExportOwnMap NoOrphan IdsIncrease AtMostOneStale EveryMarkerShown
PROPERTIES StopAnswered
\* the node may have ended, and the bounds end the behaviour
CHECK_DEADLOCK FALSE
