SPECIFICATION FairSpec
CONSTANTS
  Times = {"t0", "t1"}
  Workers = {w1, w2}
  Defaults <- MCDefaults
  Overrides <- MCOverrides
  UserSets <- Both
  MaxSets = 2
  None = None
INVARIANTS OnlyUnsetBreaks NoTimeInAuto
PROPERTIES LoneSetApplied
CHECK_DEADLOCK FALSE
