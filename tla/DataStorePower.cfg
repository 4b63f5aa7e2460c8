CONSTANTS
  Battery = battery
  Charger = charger
  MaxHistory = 2
  MaxReadings = 4
  MaxCrashes = 1
  MaxFaults = 1
SPECIFICATION Spec
PROPERTY CommitIsDurable
