------------------------------ MODULE Anomalies ------------------------------
(***************************************************************************)
(* AnalyticsExtensions: the anomaly detector (analytics/                    *)
(* anomaly_detection.cpp) and the samples kept for the long term            *)
(* (analytics/extensions.cpp).  update() runs on each reading of either     *)
(* stream, so a state of things that lasts is found again and again.        *)
(*                                                                          *)
(* Times are in minutes, power in W, resistances in mOhm.                   *)
(***************************************************************************)
EXTENDS Windows

CONSTANTS
  LoadWindow,      \* 360 samples of the load
  LoadEnough,      \* 72 of them before a spike can be told
  MaxAnomalies,    \* ANOMALIES_MAX
  MaxResist,       \* R_DAYS * 100 samples of the resistance
  MaxChargeHist,   \* MAX_CHARGE_HISTORY
  ExtReadings,     \* what update() may be given: [load, chg, r, new, eff, cloud]
  ExtCalls         \* bound of the model: calls

ASSUME ExtAssumption ==
  /\ LoadEnough \in 1..LoadWindow /\ LoadWindow \in Nat
  /\ {MaxAnomalies, MaxResist, MaxChargeHist} \subseteq Nat \ {0} /\ ExtCalls \in Nat

VARIABLES
  ext,       \* the members of AnomalyDetector and AnalyticsExtensions
  extRows,   \* the tables of resistance, efficiency and solar performance
  extTime,   \* the clock
  extCount   \* calls so far

extVars == <<ext, extRows, extTime, extCount>>

DayOf(t) == t \div 1440
Window(type) ==
  CASE type = "load_spike" -> 2 [] type = "slow_charging" -> 15 [] type = "resistance_increase" -> 1440

\* The debouncing: only the anomalies of this type at the end of the list count.
Recent_None(list, type) == FALSE          \* mutant
Recent(list, type) ==
  \E i \in DOMAIN list :
     /\ \A j \in i..Len(list) : list[j].type = type
     /\ extTime - list[i].at < Window(type)

Report(list, cond, type) ==
  IF cond /\ ~Recent(list, type)
  THEN Push(list, [type |-> type, at |-> extTime], MaxAnomalies) ELSE list

\* r_internal_avgs, as <<sum, count>> over the last 30 days and over today
Avg30(rs) ==
  LET s == SelectSeq(rs, LAMBDA x : DayOf(extTime) - x.day <= 30) IN <<SumOf(s, LAMBDA x : x.r), Len(s)>>
AvgToday(rs) ==
  LET s == SelectSeq(rs, LAMBDA x : x.day = DayOf(extTime)) IN <<SumOf(s, LAMBDA x : x.r), Len(s)>>

Spike(loads, load) ==      \* above 1.8 times the rolling average
  /\ Len(loads) >= LoadEnough /\ SumSeq(loads) > 5 * Len(loads)
  /\ 10 * load * Len(loads) > 18 * SumSeq(loads)

\* A charger in bulk that gives less than 0.6 of what it should, at a battery
\* half full (at least 0.5 A)
SlowCharge(chg, maxA) ==
  /\ chg.valid /\ chg.bulk
  /\ LET expected2 == Max({1, IF chg.targetA > 0 THEN chg.targetA ELSE maxA})   \* twice
     IN  10 * 2 * Abs(chg.a) < 6 * expected2

Worse(rs) ==               \* today's average above 1.5 times the 30-day average
  LET t == AvgToday(rs)
      a == Avg30(rs)
  IN  t[2] > 0 /\ t[1] > 0 /\ 10 * t[1] * a[2] > 15 * a[1] * t[2]

\* AnomalyDetector::update; the resistance comes with every call once it is known
Detector(e, x) ==
  LET loads  == IF x.load > 0 THEN Push(e.loads, x.load, LoadWindow) ELSE e.loads
      rs     == IF x.r > 0 THEN Push(e.rs, [r |-> x.r, day |-> DayOf(extTime)], MaxResist) ELSE e.rs
      first  == Report(e.list, Spike(loads, x.load), "load_spike")
      second == Report(first, SlowCharge(x.chg, e.maxA), "slow_charging")
  IN  [e EXCEPT !.loads = loads, !.rs = rs,
                !.list = Report(second, Worse(rs), "resistance_increase")]

\* effective_max_charge_a_: the charger's target, else the largest kept one
MaxCharge(e, chg) ==
  IF chg.valid /\ chg.targetA > 0
  THEN [e EXCEPT !.hist = Push(@, chg.targetA, MaxChargeHist), !.maxA = chg.targetA]
  ELSE IF e.hist = <<>> THEN e
  ELSE [e EXCEPT !.maxA = Max({0} \union Range(e.hist))]

\* A resistance and an efficiency sample, each at most once an hour.  The time
\* compared is that of the newest TX event, and of the charger's reading.
KeepResistance(e, x) == x.r > 0 /\ e.eventAt > e.keptR + 60
KeepEfficiency(e, x) == x.chg.valid /\ x.eff /\ x.chg.a > 0 /\ extTime > e.keptEff + 60

\* maybe_record_solar_performance: every SOLAR_PERF_INTERVAL_SEC, here 15 minutes,
\* while the sun gives something and its forecast is known and not hopeless
KeepSolar(e, x) ==
  /\ x.chg.valid /\ extTime - e.keptSolar >= 15
  /\ x.chg.sol /\ x.chg.a > 0 /\ x.cloud \in 0..99

\* AnalyticsExtensions::update
ExtUpdate(x) ==
  LET seen == [MaxCharge(ext, x.chg) EXCEPT !.eventAt = IF x.new THEN extTime ELSE @]
      e    == Detector(seen, x)
  IN
  /\ extCount < ExtCalls /\ extCount' = extCount + 1
  /\ ext' = [e EXCEPT !.keptR = IF KeepResistance(e, x) THEN e.eventAt ELSE @,
                      !.keptEff = IF KeepEfficiency(e, x) THEN extTime ELSE @,
                      !.keptSolar = IF KeepSolar(e, x) THEN extTime ELSE @]
  /\ extRows' = [r   |-> IF KeepResistance(e, x) THEN Append(extRows.r, e.eventAt) ELSE extRows.r,
                 eff |-> IF KeepEfficiency(e, x) THEN Append(extRows.eff, extTime) ELSE extRows.eff,
                 sol |-> IF KeepSolar(e, x) THEN Append(extRows.sol, extTime) ELSE extRows.sol]
  /\ \E dt \in {1, 61, 1500} : extTime' = extTime + dt

NewExt(at) ==
  [loads |-> <<>>, rs |-> <<>>, list |-> <<>>, hist |-> <<>>, maxA |-> 10,
   eventAt |-> 0, keptR |-> 0, keptEff |-> 0, keptSolar |-> at - 15]

ExtInit ==
  /\ extTime = 10000 /\ extCount = 0
  /\ ext = NewExt(extTime)
  /\ extRows = [r |-> <<>>, eff |-> <<>>, sol |-> <<>>]

ExtNext == \E x \in ExtReadings : ExtUpdate(x)

ExtSpec == ExtInit /\ [][ExtNext]_extVars

-----------------------------------------------------------------------------
ExtTypeOK ==
  /\ Len(ext.loads) <= LoadWindow /\ Len(ext.list) <= MaxAnomalies
  /\ Len(ext.rs) <= MaxResist /\ Len(ext.hist) <= MaxChargeHist

\* "Avoid duplicate ... within 2 min" (15 min, 24 h): while a condition lasts
\* every reading finds it again, and the list names it again within its window
\* only after an anomaly of another type.  Samples for the long term are an hour
\* apart, whatever mixture of readings the calls come from.
RepeatsNeedAnother ==
  /\ \A i \in DOMAIN ext.list, j \in DOMAIN ext.list :
        (i < j /\ ext.list[i].type = ext.list[j].type
               /\ ext.list[j].at - ext.list[i].at < Window(ext.list[i].type)) =>
          \E k \in (i + 1)..(j - 1) : ext.list[k].type # ext.list[i].type
  /\ \A rows \in {extRows.r, extRows.eff} :
        \A i \in 1..(Len(rows) - 1) : rows[i + 1] - rows[i] > 60
=============================================================================
