CONSTANTS
  MaxTargeted = 2
  MaxUntargeted = 3
SPECIFICATION FairSpec
INVARIANT OnePollTimer
CHECK_DEADLOCK FALSE
