SPECIFICATION FairSpec
CONSTANTS
  Stable = 2
  MaxRestarts = 2
  MaxExternal = 1
INVARIANTS BeliefCorrect ToggleLandsOnGoal ActiveHonest
PROPERTIES ResumeOnlyAfterSettled WantedStateReached
