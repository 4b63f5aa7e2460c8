-------------------------------- MODULE Alerts --------------------------------
(***************************************************************************)
(* What AnalyticsEngine makes of the readings for the user (analytics.cpp): *)
(* the charging stage, the warnings and the system mode with their          *)
(* debouncing, the health alerts, and the score of HealthScorer             *)
(* (analytics/health_score.cpp).  compute_extended_analytics runs on each   *)
(* reading of either stream, with the latest reading of the other one, so   *)
(* a reading is looked at more than once.                                   *)
(*                                                                          *)
(* Currents and voltages are in units of 0.05 A and 0.05 V; the counts that *)
(* a warning takes, and the windows of the charge rate, are parameters.     *)
(***************************************************************************)
EXTENDS Windows

CONSTANTS
  ModeConfirm,     \* 4 calls to change the mode
  PsuConfirm,      \* 4 to show or clear the PSU warning
  SlowConfirm,     \* 6 to show or clear the slowdown warning
  LowConfirm,      \* 3 for "current extremely low"
  RateWindow,      \* 18 samples, recent and, two windows back, baseline
  Plateau,         \* 900 s, in units of the model's clock
  AlertBatteries,  \* readings of the BMS
  AlertChargers,   \* readings of the charger
  AlertClock       \* bound of the model: charger readings

ASSUME AlertsAssumption ==
  /\ {ModeConfirm, PsuConfirm, SlowConfirm, LowConfirm, RateWindow} \subseteq Nat \ {0}
  /\ Plateau \in Nat /\ AlertClock \in Nat
  /\ \A r \in AlertBatteries : r.mv \in Int /\ r.temp \in Int
  /\ \A r \in AlertChargers : r.v \in Int /\ r.ps \in Int

VARIABLES
  seen,     \* the latest readings, and how often the charger was read
  al,       \* the members of AnalyticsEngine this is about
  said      \* what the last calls found: the newest verdicts on each warning

alertVars == <<seen, al, said>>

-----------------------------------------------------------------------------
ChargerOn(chg) == chg.state \in {"Charging", "Float"}

\* update_charging_stage: a falling current makes no difference near the target
ChargingStage(r) ==
  LET near(d) == r.target > 0 /\ r.v >= r.target - d IN
  IF ~ChargerOn(r) /\ r.a <= 1 THEN "Idle"
  ELSE IF r.state = "Float" \/ (near(1) /\ r.a < 10) THEN "Float"
  ELSE IF near(3) THEN "Absorption"
  ELSE "Bulk"

CellBalance(mv) ==
  IF mv < 10 THEN "Excellent" ELSE IF mv < 25 THEN "Good"
  ELSE IF mv < 50 THEN "Warning" ELSE "Imbalance"

TempStatus(t) == IF t < 40 THEN "Normal" ELSE IF t < 50 THEN "Warm" ELSE "Warning"

Bump(n, limit) == IF n < limit THEN n + 1 ELSE n     \* counters stop at their limit

\* The debouncing of a warning: shown after `limit` calls in a row that find
\* the condition, cleared after as many that do not.
Debounce_NoReset(w, found, limit) ==   \* mutant: a call that differs does not reset
  IF found THEN [w EXCEPT !.confirm = Bump(@, limit), !.clear = 0,
                          !.shown = @ \/ w.confirm + 1 >= limit]
  ELSE [w EXCEPT !.clear = IF w.shown /\ w.clear + 1 < limit THEN w.clear + 1 ELSE 0,
                 !.shown = @ /\ w.clear + 1 < limit]
Debounce(w, found, limit) ==
  IF found
  THEN [confirm |-> Bump(w.confirm, limit), clear |-> 0,
        shown |-> w.shown \/ w.confirm + 1 >= limit]
  ELSE [confirm |-> 0, clear |-> IF w.shown /\ w.clear + 1 < limit THEN w.clear + 1 ELSE 0,
        shown |-> w.shown /\ w.clear + 1 < limit]

Quiet == [confirm |-> 0, clear |-> 0, shown |-> FALSE]

-----------------------------------------------------------------------------
\* The charge rate has fallen below half of what it was two windows ago.
Slower(rates) ==
  LET Avg(from, to) == SumSeq(SubSeq(rates, Len(rates) - to + 1, Len(rates) - from))
      recent   == Avg(0, RateWindow)
      baseline == Avg(2 * RateWindow, 3 * RateWindow)
  IN  baseline > 0 /\ 2 * recent < baseline

IsCharging(bat) == bat.valid /\ bat.cur < -2

SlowdownStep(e, bat, rate) ==
  IF ~IsCharging(bat) THEN [e EXCEPT !.rates = <<>>, !.slow = Quiet]
  ELSE LET rates == Push(e.rates, rate, 4 * RateWindow)
       IN  [e EXCEPT !.rates = rates,
                     !.slow = IF Len(rates) >= 3 * RateWindow
                              THEN Debounce(@, Slower(rates), SlowConfirm) ELSE @]

\* "Current extremely low" or "Voltage unstable" (a moving average, rounded).
\* chg_low_current_count_ is left as it is while there is no valid reading.
AbnormalStep(e, chg) ==
  IF ~chg.valid THEN [e EXCEPT !.prevV = -1, !.ema = 0, !.warned = FALSE]
  ELSE LET low   == ChargerOn(chg) /\ chg.a < 6 /\ chg.targetA > 40
           n     == IF low THEN Bump(e.low, LowConfirm) ELSE 0
           moved == e.prevV >= 0 /\ ChargerOn(chg)
           ema   == IF moved THEN (4 * e.ema + Abs(chg.v - e.prevV)) \div 5 ELSE e.ema
       IN  [e EXCEPT !.low = n, !.ema = ema, !.prevV = chg.v,
                     !.warned = n >= LowConfirm \/ (moved /\ ema > 10)]

\* Charging flat out, and for a plateau of time the voltage does not rise.
AtLimit(chg, stage, rising) ==
  /\ stage = "Bulk" /\ ChargerOn(chg) /\ ~rising
  /\ chg.v < chg.target - 3
  /\ chg.maxed \/ (chg.targetA > 10 /\ 20 * chg.a >= 17 * chg.targetA)

PlateauAt(e, chg, rising) ==
  IF ~AtLimit(chg, e.stage, rising) THEN -1
  ELSE IF e.plateau < 0 THEN chg.at ELSE e.plateau

PsuLimited(e, chg, rising) ==
  LET from == PlateauAt(e, chg, rising) IN from >= 0 /\ chg.at - from >= Plateau

PsuStep(e, chg, rising) ==
  IF ~(chg.valid /\ chg.target > 10) THEN [e EXCEPT !.plateau = -1, !.psu = Quiet]
  ELSE [e EXCEPT !.plateau = PlateauAt(e, chg, rising),
                 !.psu = Debounce(@, PsuLimited(e, chg, rising), PsuConfirm)]

\* compute_system_status
Pending(bat) == IF bat.cur < -2 THEN "charging" ELSE IF bat.cur > 2 THEN "discharging" ELSE "idle"

ModeStep(e, bat) ==
  IF ~bat.valid \/ Pending(bat) = e.mode THEN [e EXCEPT !.confirm = 0]
  ELSE IF e.confirm + 1 >= ModeConfirm THEN [e EXCEPT !.mode = Pending(bat), !.confirm = 0]
  ELSE [e EXCEPT !.confirm = @ + 1]

\* health_alerts
HealthAlerts(e, bat) ==
  {a \in {"cells", "temp", "efficiency", "voltage", "current", "psu", "slow"} :
     CASE a = "cells"      -> CellBalance(e.mv) \in {"Imbalance", "Warning"}
       [] a = "temp"       -> TempStatus(e.temp) \in {"Warning", "Warm"}
       [] a = "efficiency" -> e.efficiency >= 0 /\ e.efficiency < 75
       [] a = "voltage"    -> e.falling /\ bat.soc < 20
       [] a = "current"    -> e.warned
       [] a = "psu"        -> e.psu.shown
       [] a = "slow"       -> e.slow.shown}

\* HealthScorer::compute: what is taken off 100
CellPenalty(mv) == IF mv > 50 THEN 20 ELSE IF mv > 25 THEN 10 ELSE IF mv > 10 THEN 5 ELSE 0
HealthScore(e, health, anomalies) ==
  100 - (IF health < 0 \/ health >= 90 THEN 0 ELSE IF health >= 80 THEN 5
         ELSE IF health >= 70 THEN 15 ELSE 25)
      - CellPenalty(e.mv)
      - (IF e.efficiency < 0 \/ e.efficiency >= 90 THEN 0 ELSE IF e.efficiency >= 80 THEN 10 ELSE 20)
      - (IF e.temp >= 50 THEN 20 ELSE IF e.temp >= 40 THEN 10 ELSE 0)
      - (IF anomalies > 0 THEN 15 ELSE 0)

-----------------------------------------------------------------------------
\* compute_extended_analytics on the latest readings; rate and trend come from
\* the rings of TrendRings.
Extended(e, bat, chg, rate, trend) ==
  LET warned == PsuStep(AbnormalStep(SlowdownStep(e, bat, rate), chg), chg, trend = "up")
  IN  ModeStep([warned EXCEPT !.falling = trend = "down"], bat)

NoCharger == [valid |-> FALSE, state |-> "Idle", a |-> 0, v |-> 0, target |-> 0,
              targetA |-> 0, maxed |-> FALSE, ps |-> 0, at |-> 0]

AlertInit ==
  /\ seen = [bat |-> <<>>, chg |-> NoCharger, n |-> 0]
  /\ al = [rates |-> <<>>, slow |-> Quiet, low |-> 0, ema |-> 0, warned |-> FALSE,
           prevV |-> -1, plateau |-> -1, psu |-> Quiet, mode |-> "idle", confirm |-> 0,
           stage |-> "", efficiency |-> -1, mv |-> 0, temp |-> 0, falling |-> FALSE]
  /\ said = [slow |-> <<>>, psu |-> <<>>, mode |-> <<>>]

\* The verdicts of one call, for the property
Verdicts(before, bat, chg, rate, trend) ==
  LET rates == Push(before.rates, rate, 4 * RateWindow)
      Say(s, x, n) == Push(s, x, n)
  IN  [slow |-> IF ~IsCharging(bat) THEN <<>>
                ELSE IF Len(rates) >= 3 * RateWindow
                THEN Say(said.slow, Slower(rates), SlowConfirm) ELSE said.slow,
       psu  |-> IF ~(chg.valid /\ chg.target > 10) THEN <<>>
                ELSE Say(said.psu, PsuLimited(before, chg, trend = "up"), PsuConfirm),
       mode |-> IF ~bat.valid THEN <<>> ELSE Say(said.mode, Pending(bat), ModeConfirm)]

\* on_battery
AlertBattery(bat, rate, trend) ==
  LET before == [al EXCEPT !.mv = bat.mv, !.temp = bat.temp] IN
  /\ seen' = [seen EXCEPT !.bat = <<bat>>]
  /\ IF bat.valid
     THEN /\ al' = Extended(before, bat, seen.chg, rate, trend)
          /\ said' = Verdicts(before, bat, seen.chg, rate, trend)
     ELSE UNCHANGED <<al, said>>

\* on_charger; the efficiency is kept from the last reading that had one
AlertCharger(r, rate, trend) ==
  LET chg    == [r EXCEPT !.at = seen.n + 1]
      before == [al EXCEPT !.stage = ChargingStage(chg),
                           !.efficiency = IF chg.a > 10 /\ chg.v > 20 /\ chg.ps > chg.v
                                          THEN (100 * chg.v) \div chg.ps ELSE @]
  IN  /\ seen.n < AlertClock
      /\ seen' = [seen EXCEPT !.chg = chg, !.n = @ + 1]
      /\ IF chg.valid /\ seen.bat # <<>>
         THEN /\ al' = Extended(before, seen.bat[1], chg, rate, trend)
              /\ said' = Verdicts(before, seen.bat[1], chg, rate, trend)
         ELSE al' = (IF chg.valid THEN before ELSE al) /\ UNCHANGED said

AlertNext ==
  \E rate \in {1, 4}, trend \in {"up", "down"} :
     \/ \E bat \in AlertBatteries : AlertBattery(bat, rate, trend)
     \/ \E chg \in AlertChargers : AlertCharger(chg, rate, trend)

AlertSpec == AlertInit /\ [][AlertNext]_alertVars

-----------------------------------------------------------------------------
\* The alerts and the score judge the same figures by thresholds of their own, in two
\* files: an alert about cells, temperature or efficiency costs points.
AlertTypeOK ==
  /\ Len(al.rates) <= 4 * RateWindow
  /\ al.mode \in {"idle", "charging", "discharging"} /\ al.confirm \in 0..(ModeConfirm - 1)
  /\ al.stage \in {"", "Idle", "Float", "Absorption", "Bulk"}
  /\ al.low \in 0..LowConfirm /\ al.efficiency \in -1..99
  /\ HealthScore(al, 0, 1) \in 0..100
  /\ seen.bat # <<>> =>
       \A a \in HealthAlerts(al, seen.bat[1]) \intersect {"cells", "temp", "efficiency"} :
          HealthScore(al, 100, 0) <= 95

Agreed(verdicts, n, ok(_)) == Len(verdicts) = n /\ \A i \in DOMAIN verdicts : ok(verdicts[i])

\* "Require 6 consecutive to show, 6 to clear" (4 for the PSU warning): a warning
\* appears only after that many calls in a row that found its condition, and
\* goes only after as many that did not, or at once when what it is about is
\* over: the battery no longer charges, the charger is gone.  The mode leaves a
\* value only after 4 calls in a row that differ from it.  The calls of both
\* streams count, and between them conditions come and go.
AlertsAreDebounced ==
  [][/\ al'.slow.shown # al.slow.shown =>
          said'.slow = <<>> \/ Agreed(said'.slow, SlowConfirm, LAMBDA x : x = al'.slow.shown)
     /\ al'.psu.shown # al.psu.shown =>
          said'.psu = <<>> \/ Agreed(said'.psu, PsuConfirm, LAMBDA x : x = al'.psu.shown)
     /\ al'.mode # al.mode => Agreed(said'.mode, ModeConfirm, LAMBDA x : x # al.mode)
    ]_alertVars
=============================================================================
