CONSTANTS
  \* TxDetection
  MaxTxEvents = 1 MaxSamples = 2 MaxProcessed = 2 TxHeard = 4 TxHistory = 2
  TxBatteries <- MCTxBatteries
  TxChargers <- MCTxChargers
  \* EnergyMeter
  HourLen = 2 DayLen = 4 Gap = 3 KeptDays = 3 KeptHours = 3 MaxMinutes = 1 MeterReadings = 4
  MeterBatteries <- MCMeterBatteries
  MeterChargers <- MCMeterChargers
  \* Alerts
  ModeConfirm = 2 PsuConfirm = 2 SlowConfirm = 2 LowConfirm = 2 RateWindow = 1 Plateau = 1
  AlertClock = 2
  AlertBatteries <- MCAlertBatteries
  AlertChargers <- MCAlertChargers
  \* TrendRings
  TrendN = 2 TrendMin = 2 LoadN = 2 LoadEvery = 1 IdleWatts = 15 TrendSamples = 3
  \* EventLog
  MaxEvents = 2 LogReadings = 3 LogRestarts = 1
  LogBatteries <- MCLogBatteries
  LogChargers <- MCLogChargers
  \* Anomalies
  LoadWindow = 3 LoadEnough = 2 MaxAnomalies = 3 MaxResist = 3 MaxChargeHist = 2 ExtCalls = 4
  ExtReadings <- MCExtReadings
  \* Outage
  Timeout = 1 MaxTime = 3 UserActs = 2 MaxEventsG = 2 Crashes = 1
  \* Forecast
  CacheAge = 2 DbAge = 2 UsageAge = 1 PanelHour = 10 ChargeHour = 8 Capacity = 100
  ForecastTime = 4
  Lists <- MCLists
  Dailies <- MCDailies
  Acceptance <- MCAcceptance
  LevelsWx <- MCLevels
  \* Startup
  Plain = {"device", "daemon"}
  Sticky = {"poll"}
  Fallback = {"bind"}
  DeviceKeys = {"device"}
  Daemon = "daemon"
  Vals = {"b"}
  Cuts = {0, 7}
  Starts = 3 Saves = 1
  Order <- MCOrder
  Sources <- MCSources
  \* Records
  PageRuns = 1 PageSamples = 1 HistoryN = 1 Retention = 1 Back = 1 MaxRows = 2 MaxDay = 2
  Passes = 1
  \* Readers
  MaxLine = 4 Notifications = 2 MenuLength = 1 Reports = 3 Polls = 2 SerialLosses = 1
  BleLosses = 1 Wire = 4 Sessions = 2 Fetches = 1
SPECIFICATION Spec
INVARIANTS
  TypeOK TxEventsAreRuns   BooksAgree  
  RepeatsNeedAnother  ForecastIsRecent ConfigKept IdsNameTheirRows WholeReadings
PROPERTIES AlertsAreDebounced WindowsEnd
CHECK_DEADLOCK FALSE
