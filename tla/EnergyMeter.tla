----------------------------- MODULE EnergyMeter -----------------------------
(***************************************************************************)
(* The counters of AnalyticsEngine (analytics.cpp): energy by day and by    *)
(* hour, charger runtime, depth of discharge and observed capacity, fed by  *)
(* two streams of readings.  Each thread stamps its reading before it takes *)
(* the store's mutex, and history is replayed one stream after the other,   *)
(* so times may step back.  Days are those of the local calendar.           *)
(*                                                                          *)
(* Times are in units of which an hour and a day have HourLen and DayLen;   *)
(* power is in units too, and energy is power times time.                   *)
(***************************************************************************)
EXTENDS Windows

CONSTANTS
  HourLen, DayLen,
  Gap,             \* 5 minutes: longer intervals are not integrated
  KeptDays,        \* 8, the size of energy_by_day_
  KeptHours,       \* DISCHARGE_HOURS
  MaxMinutes,      \* 10, the largest step of the charger's minutes taken
  MeterBatteries,  \* readings of the BMS: [power, soc, ah]
  MeterChargers,   \* readings of the charger: [power, sol, on]
  MeterReadings    \* bound of the model: readings

ASSUME MeterAssumption ==
  /\ HourLen \in Nat \ {0} /\ DayLen \in Nat \ {0} /\ Gap \in Nat
  /\ KeptDays \in Nat \ {0} /\ KeptHours \in Nat \ {0}
  /\ MaxMinutes \in Nat /\ MeterReadings \in Nat
  /\ \A r \in MeterBatteries : r \in [power : Int, soc : Nat, ah : Int]
  /\ \A r \in MeterChargers : r \in [power : Int, sol : BOOLEAN, on : BOOLEAN]

VARIABLES
  meter,    \* the members of AnalyticsEngine this is about
  charger,  \* the charger's own counter of minutes
  road      \* what really went on: see MeterInit

meterVars == <<meter, charger, road>>

Hour(ts) == ts \div HourLen      \* local_hour_id
Day(ts) == ts \div DayLen        \* unix_day

Wh(x) == x.wh

\* reset_daily_if_needed
ResetDaily_NoArchive(e, ts) ==   \* mutant: yesterday's energy is dropped
  IF e.day = Day(ts) THEN e
  ELSE [e EXCEPT !.day = Day(ts), !.charged = 0, !.discharged = 0, !.solar = 0,
                 !.soc = <<>>, !.runtime = 0, !.minutes = -1, !.integrated = ts]
ResetDaily(e, ts) ==
  IF e.day = Day(ts) THEN e
  ELSE [e EXCEPT
         !.days = IF e.day >= 0 THEN Push(@, [day |-> e.day, wh |-> e.discharged], KeptDays)
                  ELSE @,
         !.day = Day(ts), !.charged = 0, !.discharged = 0, !.solar = 0,
         !.soc = <<>>, !.runtime = 0, !.minutes = -1, !.integrated = ts]

\* Time since a stamp, when it is one that is integrated.
Step(ts, since) == IF ts > since /\ ts - since < Gap THEN ts - since ELSE 0

\* integrate_discharge_wh
Integrate_OwnStamp(e, ts, watts) ==   \* mutant: one stamp for each stream
  LET wh == watts * Step(ts, e.batAt)
  IN  [e EXCEPT !.discharged = @ + wh, !.thisHour = @ + wh, !.integrated = ts]
Integrate(e, ts, watts) ==
  LET wh == watts * Step(ts, IF e.integrated >= 0 THEN e.integrated ELSE ts)
  IN  [e EXCEPT !.discharged = @ + wh, !.thisHour = @ + wh, !.integrated = ts]

\* on_battery: the energy between two readings
BatteryEnergy(e, r, ts) ==
  IF e.batAt < 0 \/ Step(ts, e.batAt) = 0 \/ r.power = 0 THEN e
  ELSE IF r.power > 0 THEN Integrate(e, ts, r.power)
  ELSE [e EXCEPT !.charged = @ + (-r.power) * (ts - e.batAt)]

\* on_battery: the hourly archive
HourTurns(e, ts) ==
  IF e.hour < 0 \/ e.hour = Hour(ts) THEN [e EXCEPT !.hour = Hour(ts)]
  ELSE [e EXCEPT !.hours = Push(@, [hour |-> e.hour, wh |-> e.thisHour], KeptHours),
                 !.thisHour = 0, !.hour = Hour(ts)]

\* on_battery: extremes of the state of charge (<<min, max>>), readings near zero skipped
SocSeen(e, r) ==
  IF r.soc = 0 THEN e
  ELSE [e EXCEPT !.soc = IF @ = <<>> THEN <<r.soc, r.soc>>
                         ELSE <<Min({@[1], r.soc}), Max({@[2], r.soc})>>]

\* depth_of_discharge_pct: before the day's first reading, 0 - 100
DepthOfDischarge(e) == IF e.soc = <<>> THEN -100 ELSE e.soc[2] - e.soc[1]

\* on_battery: the largest discharge that has ended
CapacitySeen(e, r) ==
  LET used == e.fromAh - r.ah IN
  IF r.power > 0 /\ ~e.draining THEN [e EXCEPT !.draining = TRUE, !.fromAh = r.ah]
  ELSE IF r.power <= 0 /\ e.draining
  THEN [e EXCEPT !.draining = FALSE,
                 !.bestAh = IF used > 5 /\ used > @ THEN used ELSE @]
  ELSE e

\* on_charger: runtime from the minutes the charger reports while it is on
Runtime(e, r, m) ==
  IF ~r.on THEN [e EXCEPT !.minutes = -1]
  ELSE [e EXCEPT
         !.runtime = IF e.minutes >= 0 /\ m - e.minutes \in 0..MaxMinutes
                     THEN @ + (m - e.minutes) ELSE @,
         !.minutes = m]

OnBattery(e, r, ts) ==
  LET counted == HourTurns(BatteryEnergy(ResetDaily(e, ts), r, ts), ts)
  IN  [CapacitySeen(SocSeen(counted, r), r) EXCEPT !.batAt = ts]

OnCharger(e, r, ts, m) ==
  LET today  == ResetDaily(e, ts)
      solar  == IF today.chgAt >= 0 /\ r.sol /\ r.power > 0
                THEN [today EXCEPT !.solar = @ + r.power * Step(ts, today.chgAt)] ELSE today
      loaded == IF r.power < 0 THEN Integrate(solar, ts, -r.power) ELSE solar
  IN  [Runtime(loaded, r, m) EXCEPT !.chgAt = ts]

\* compute_extended_analytics: energy_used_week_wh, avg_discharge_24h_w
WeekWh(e) == e.discharged + SumOf(Trim(e.days, 6), Wh)

-----------------------------------------------------------------------------
\* road: the first and the newest time read, how far times stepped back
\* altogether, the time the last stepped from, and the minutes the charger was on.
MeterInit ==
  /\ meter = [day |-> -1, charged |-> 0, discharged |-> 0, solar |-> 0, days |-> <<>>,
              hour |-> -1, thisHour |-> 0, hours |-> <<>>, integrated |-> -1,
              batAt |-> -1, chgAt |-> -1, soc |-> <<>>, draining |-> FALSE,
              fromAh |-> 0, bestAh |-> 0, runtime |-> 0, minutes |-> -1]
  /\ charger = [on |-> FALSE, minutes |-> 0]
  /\ road = [n |-> 0, first |-> -1, now |-> 0, back |-> 0, on |-> 0]

Travel(ts) ==
  [road EXCEPT !.n = @ + 1, !.first = IF @ < 0 THEN ts ELSE @, !.now = ts,
               !.back = @ + Positive(road.now - ts)]

ReadBattery(r, ts) ==
  /\ meter' = OnBattery(meter, r, ts)
  /\ road' = Travel(ts)
  /\ UNCHANGED charger

\* The charger counts minutes from the start of each charge.
ReadCharger(r, ts, k) ==
  LET m == IF charger.on THEN charger.minutes + k ELSE k IN
  /\ charger' = [on |-> r.on, minutes |-> IF r.on THEN m ELSE 0]
  /\ meter' = OnCharger(meter, r, ts, charger'.minutes)
  /\ road' = [Travel(ts) EXCEPT !.on = @ + (IF r.on THEN k ELSE 0)]

\* Nobody was listening when one charge ended and the next began.
ChargeRestarts ==
  /\ charger.on /\ charger.minutes > 0
  /\ charger' = [charger EXCEPT !.minutes = 0]
  /\ UNCHANGED <<meter, road>>

MeterNext ==
  \/ /\ road.n < MeterReadings
     /\ \E ts \in {road.now - 1, road.now + 1, road.now + Gap} \ {-1} :
          \/ \E r \in MeterBatteries : ReadBattery(r, ts)
          \/ \E r \in MeterChargers, k \in {0, MaxMinutes + 1} : ReadCharger(r, ts, k)
  \/ ChargeRestarts

MeterSpec == MeterInit /\ [][MeterNext]_meterVars

-----------------------------------------------------------------------------
MeterTypeOK ==
  /\ Len(meter.days) <= KeptDays /\ Len(meter.hours) <= KeptHours
  /\ meter.day >= -1 /\ meter.charged >= 0 /\ meter.discharged >= 0 /\ meter.solar >= 0
  /\ DepthOfDischarge(meter) \in -100..100
  /\ meter.bestAh >= 0

Discharged == meter.discharged + SumOf(meter.days, Wh)

\* Both streams see the same load, and no stretch of time is counted for both:
\* with a load of at most 1, the energy discharged is at most the time that
\* passed, however the two streams interleave.  Only a time that steps back is
\* lived twice.  And the charger's runtime is made of minutes it was on.
NoDoubleCount ==
  /\ Discharged <= (road.now - road.first) + road.back
  /\ meter.runtime \in 0..road.on

\* Energy is booked twice, by day and by hour, and the archives are shifted at
\* different times by different streams: while nothing was shifted out the two
\* books agree, and so does the week with the days it is made of.
BooksAgree ==
  /\ Len(meter.days) < KeptDays /\ Len(meter.hours) < KeptHours =>
       Discharged = meter.thisHour + SumOf(meter.hours, Wh)
  /\ Len(meter.days) <= 6 => WeekWh(meter) = Discharged
=============================================================================
