CONSTANTS
  MaxTargeted = 2
  MaxUntargeted = 3
SPECIFICATION FairSpec
INVARIANTS TypeOK  NeverScansPastTarget
PROPERTY Recovers
CHECK_DEADLOCK FALSE
