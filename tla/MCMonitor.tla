----------------------------- MODULE MCMonitor -----------------------------
(***************************************************************************)
(* The components around the store, each on its own: they share no state,   *)
(* so a behaviour is one of one component, and the others stay where they   *)
(* start.  `part` says which.                                               *)
(***************************************************************************)
EXTENDS TxDetection, EnergyMeter, Alerts, TrendRings, EventLog, Anomalies,
        Outage, Forecast, Startup, Records, Readers

\* TX detection: at rest, 2 A (a transmission or not, by the threshold), no reading;
\* a charger that discharges, one that charges hard, none
MCTxBatteries == {[valid |-> TRUE, cur |-> 0, v |-> 13], [valid |-> TRUE, cur |-> 2, v |-> 12],
                  [valid |-> FALSE, cur |-> 0, v |-> 0]}
MCTxChargers == {[valid |-> TRUE, a |-> -4, v |-> 12], [valid |-> TRUE, a |-> 6, v |-> 14],
                 [valid |-> FALSE, a |-> 0, v |-> 0]}

\* Energy: discharging and charging, with and without a state of charge
MCMeterBatteries == {[power |-> 1, soc |-> 60, ah |-> 20], [power |-> 1, soc |-> 0, ah |-> 10],
                     [power |-> -1, soc |-> 70, ah |-> 10]}
MCMeterChargers == {[power |-> -1, sol |-> TRUE, on |-> FALSE], [power |-> 1, sol |-> TRUE, on |-> TRUE]}

\* Alerts: charging, discharging low and warm, at rest, no reading; a supply at its
\* limit, a slow plateau, a charger at rest, none
MCAlertBatteries == {[valid |-> TRUE, cur |-> -10, soc |-> 50, mv |-> 25, temp |-> 30],
                     [valid |-> TRUE, cur |-> 10, soc |-> 10, mv |-> 5, temp |-> 40],
                     [valid |-> TRUE, cur |-> 0, soc |-> 50, mv |-> 5, temp |-> 30],
                     [valid |-> FALSE, cur |-> 0, soc |-> 0, mv |-> 0, temp |-> 0]}
MCCharging(state, a, v, maxed) ==
  [valid |-> TRUE, state |-> state, a |-> a, v |-> v, target |-> 280, targetA |-> 200,
   maxed |-> maxed, ps |-> 400, at |-> 0]
MCAlertChargers == {MCCharging("Charging", 180, 220, FALSE), MCCharging("Charging", 4, 276, TRUE),
                    MCCharging("Idle", 0, 280, FALSE), NoCharger}

\* Events: both directions of each of them
MCLogBatteries == {[charging |-> TRUE, soc |-> 95, bad |-> FALSE],
                   [charging |-> FALSE, soc |-> 80, bad |-> TRUE]}
MCLogChargers == {[solar |-> TRUE, stage |-> "Bulk"], [solar |-> FALSE, stage |-> "Idle"],
                  [solar |-> TRUE, stage |-> "Absorption"]}

\* Anomalies: usual, a spike, a slow charge with more resistance, a spike with no charger
MCBulk(valid, targetA, a) ==
  [valid |-> valid, bulk |-> TRUE, targetA |-> targetA, a |-> a, sol |-> TRUE]
MCReading(watts, chg, r, cloud) ==
  [load |-> watts, chg |-> chg, r |-> r, new |-> watts = 100, eff |-> TRUE, cloud |-> cloud]
MCExtReadings == {MCReading(10, MCBulk(TRUE, 10, 8), 10, 20), MCReading(100, MCBulk(TRUE, 10, 8), 0, -1),
                  MCReading(0, MCBulk(TRUE, 0, 2), 40, 100), MCReading(100, MCBulk(FALSE, 0, 0), 40, 20)}

\* Weather: a list of two days with the night of the first, and a cloudier one; a forecast
\* of two days; a battery never and often seen near full
MCSlot(d, cloud, light) == [day |-> d, cloud |-> cloud, light |-> light]
MCLists == {<<MCSlot(1, 0, TRUE), MCSlot(1, 0, FALSE), MCSlot(2, 20, TRUE)>>,
            <<MCSlot(2, 80, TRUE)>>}
MCDailies == {<<[day |-> 2, cloud |-> 0, hours |-> 12], [day |-> 3, cloud |-> 20, hours |-> 9]>>}
MCAcceptance == {[i \in 0..9 |-> [n |-> 0, ratio |-> 0]],
                 [i \in 0..9 |-> IF i \in {3, 8} THEN [n |-> 5, ratio |-> 120 - 10 * i]
                                 ELSE [n |-> 1, ratio |-> 0]]}
MCLevels == {50}

\* Starts: nothing given, two keys, a flag and an address, a number that does not parse
MCOrder == <<"device", "poll", "bind", "daemon">>
MCSources == {[k \in Keys |-> None],
              [k \in Keys |-> IF k \in {"device", "poll"} THEN "b" ELSE None],
              [k \in Keys |-> IF k = "daemon" THEN "1" ELSE IF k = "bind" THEN "b" ELSE None],
              [k \in Keys |-> IF k = "poll" THEN Bad ELSE None]}

-----------------------------------------------------------------------------
VARIABLE part

vars == <<txVars, meterVars, alertVars, trendVars, logVars, extVars, outageVars, forecastVars,
          startupVars, recordsVars, readersVars, part>>

Parts == {"tx", "meter", "alerts", "trends", "log", "anomalies", "outage", "forecast", "startup",
          "records", "charger", "bms"}

Init ==
  /\ part \in Parts
  /\ TxInit /\ MeterInit /\ AlertInit /\ TrendInit /\ LogInit /\ ExtInit /\ OutageInit
  /\ ForecastInit /\ StartupInit /\ RecordsInit /\ ReadersInit

\* The other components keep their state
Alone(p) ==
  /\ part = p /\ UNCHANGED part
  /\ p # "tx" => UNCHANGED txVars
  /\ p # "meter" => UNCHANGED meterVars
  /\ p # "alerts" => UNCHANGED alertVars
  /\ p # "trends" => UNCHANGED trendVars
  /\ p # "log" => UNCHANGED logVars
  /\ p # "anomalies" => UNCHANGED extVars
  /\ p # "outage" => UNCHANGED outageVars
  /\ p # "forecast" => UNCHANGED forecastVars
  /\ p # "startup" => UNCHANGED startupVars
  /\ p # "records" => UNCHANGED recordsVars
  /\ p \notin {"charger", "bms"} => UNCHANGED readersVars

Next ==
  \/ Alone("tx") /\ TxNext
  \/ Alone("meter") /\ MeterNext
  \/ Alone("alerts") /\ AlertNext
  \/ Alone("trends") /\ TrendNext
  \/ Alone("log") /\ LogNext
  \/ Alone("anomalies") /\ ExtNext
  \/ Alone("outage") /\ OutageNext
  \/ Alone("forecast") /\ ForecastNext
  \/ Alone("startup") /\ StartupNext
  \/ Alone("records") /\ RecordsNext
  \/ Alone("charger") /\ ChargerNext
  \/ Alone("bms") /\ BmsNext

\* Time passes and the threads of the outage component run; a request is finished
\* once it has begun.  Nobody is bound to make one, nor to crash.
OutageFairness ==
  /\ WF_vars(Alone("outage") /\ Tick)
  /\ WF_vars(Alone("outage") /\ PollSteps)
  /\ WF_vars(Alone("outage") /\ GuardSteps)
  /\ WF_vars(Alone("outage") /\ (StartWindowTime \/ LogRequest))

Spec == Init /\ [][Next]_vars /\ OutageFairness

-----------------------------------------------------------------------------
\* The component that takes the steps: the state of the others is that of Init
TypeOK ==
  CASE part = "tx" -> TxTypeOK
    [] part = "meter" -> MeterTypeOK
    [] part = "alerts" -> AlertTypeOK
    [] part = "trends" -> TrendTypeOK
    [] part = "log" -> LogTypeOK
    [] part = "anomalies" -> ExtTypeOK
    [] part = "outage" -> OutageTypeOK
    [] part = "forecast" -> ForecastTypeOK
    [] part = "startup" -> StartupTypeOK
    [] part = "records" -> RecordsTypeOK
    [] part \in {"charger", "bms"} -> ReadersTypeOK
=============================================================================
