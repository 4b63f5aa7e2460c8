CONSTANTS
  Ble = ble
  Maint = maint
  Others = {o1}
  Nobody = nobody
  Deployments = {"monitor", "bench"}
SPECIFICATION FairSpec
INVARIANTS TypeOK NoWaitCycle
PROPERTY EveryCallReturns
