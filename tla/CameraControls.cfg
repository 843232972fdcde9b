SPECIFICATION Spec
CONSTANTS
  n1 = n1
  n2 = n2
  Names = {n1, n2}
  Cameras <- MCCameras
  Inputs <- MCInputs
  Width = 8
  NaN = NaN
SYMMETRY Symmetry
INVARIANTS AppliedInRange DefaultsAccepted PendingIsShown
PROPERTIES SyncShowsSent
\* the node ends when rclcpp throws
CHECK_DEADLOCK FALSE
