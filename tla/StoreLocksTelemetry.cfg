CONSTANTS
  Ble = ble
  Maint = maint
  Others = {o1}
  Nobody = nobody
  Deployments = {"full"}
SPECIFICATION Spec
INVARIANT TelemetryArrives
CHECK_DEADLOCK FALSE
