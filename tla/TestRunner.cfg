CONSTANTS
  Kinds = {capacity, other}
  Capacity = capacity
  Scheds = {s1}
  NoSched = none
  BatchSize = 2
  MaxRuns = 2
  MaxSamples = 3
  MaxCrashes = 1
  MaxFaults = 1
SPECIFICATION FairSpec
INVARIANTS TypeOK OneOpenRow TelemetryIntact LossBound 
PROPERTIES EndedIsFinal DueIsServed LedgerSpec
