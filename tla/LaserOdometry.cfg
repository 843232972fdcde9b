SPECIFICATION Spec
CONSTANTS
  MaxTime = 5
  MaxTurn = 1
  Circle = 5
  StartPoses <- MCStartPoses
INVARIANTS MotionAccounted SpeedOverItsInterval
PROPERTIES TurnReported
