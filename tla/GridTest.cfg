CONSTANTS
  Http = {h1}
  Maint = maint
  Recovery = recovery
  MaxCrashes = 1
SPECIFICATION GridFairSpec
INVARIANTS GridTypeOK SafetyNet
PROPERTIES RecoveryRestores CheckerEndsLowTest
