CONSTANTS
  Http = {h1}
  Maint = maint
  Recovery = recovery
  MaxCrashes = 1
SPECIFICATION GridSpec
INVARIANT CrashLeavesRecord
