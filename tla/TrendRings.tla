------------------------------ MODULE TrendRings ------------------------------
(***************************************************************************)
(* The rings of AnalyticsEngine (analytics.cpp): voltage and state of       *)
(* charge with cached sums for their trends, the load profile and the       *)
(* charger's power.  The sums are never computed anew: a sample is added    *)
(* when it enters the ring and taken off when it is overwritten, for as     *)
(* long as the program runs.                                                *)
(***************************************************************************)
EXTENDS Windows

CONSTANTS
  TrendN,       \* VOLTAGE_N, 12
  TrendMin,     \* samples a trend takes, 6
  LoadN,        \* LOAD_N and CHG_PWR_N, 720
  LoadEvery,    \* MIN_LOAD_INTERVAL, 2.5 s, in units of time
  IdleWatts,    \* 15 W
  TrendSamples  \* bound of the model

ASSUME TrendAssumption ==
  /\ TrendMin \in 2..TrendN /\ TrendN \in Nat /\ LoadN \in Nat \ {0}
  /\ LoadEvery \in Nat /\ IdleWatts \in Nat /\ TrendSamples \in Nat

VARIABLES
  ring,     \* voltage_ring_, soc_ring_, voltage_ring_ts_ with head, count and sums
  load,     \* load_ring_ with its statistics
  chgPower, \* chg_pwr_ring_
  fed       \* everything pushed so far, oldest first

trendVars == <<ring, load, chgPower, fed>>

\* A ring of n slots whose head is the next one to be written (from 1)
Put(r, x, n) ==
  [r EXCEPT !.slot = IF r.count < n THEN Append(@, x) ELSE [@ EXCEPT ![r.head] = x],
            !.head = (r.head % n) + 1, !.count = IF @ < n THEN @ + 1 ELSE @]

NoSums == [x |-> 0, x2 |-> 0, v |-> 0, xv |-> 0, soc |-> 0, xsoc |-> 0]
Plus(s, k, p) ==      \* the sums with sample p taken k times more
  [x |-> s.x + k * p.ts, x2 |-> s.x2 + k * p.ts * p.ts,
   v |-> s.v + k * p.v, xv |-> s.xv + k * p.ts * p.v,
   soc |-> s.soc + k * p.soc, xsoc |-> s.xsoc + k * p.ts * p.soc]

\* push_voltage_soc_sample
PushSample_KeepsOld(r, p) ==      \* mutant: the overwritten sample stays in the sums
  [Put(r, p, TrendN) EXCEPT !.sums = Plus(@, 1, p)]
PushSample(r, p) ==
  [Put(r, p, TrendN) EXCEPT
     !.sums = Plus(IF r.count = TrendN THEN Plus(@, -1, r.slot[r.head]) ELSE @, 1, p)]

\* compute_voltage_trend, compute_soc_trend: the sign of the regression line
Slope(n, s, y, xy) ==
  IF n * s.x2 = s.x * s.x THEN 0 ELSE n * xy - s.x * y
Trend(n, slope) ==
  IF n < TrendMin THEN "-" ELSE IF slope > 0 THEN "up" ELSE IF slope < 0 THEN "down" ELSE "stable"
VoltageTrend(r) == Trend(r.count, Slope(r.count, r.sums, r.sums.v, r.sums.xv))
SocTrend(r) == Trend(r.count, Slope(r.count, r.sums, r.sums.soc, r.sums.xsoc))

\* push_load_sample: not more often than LoadEvery; recompute_load_stats
PushLoad(l, ts, w) ==
  IF l.at >= 0 /\ ts - l.at < LoadEvery THEN l
  ELSE [Put(l, w, LoadN) EXCEPT !.at = ts]
LoadStats(l) ==
  LET all  == [i \in 1..l.count |-> l.slot[i]]
      idle == SelectSeq(all, LAMBDA w : w < IdleWatts)
  IN  [total |-> SumSeq(all), peak |-> Max({0} \union Range(all)),
       idleTotal |-> IF idle = <<>> THEN SumSeq(all) ELSE SumSeq(idle),
       idleCount |-> IF idle = <<>> THEN l.count ELSE Len(idle)]

\* avg_charger_power_w, as <<sum, count>>
ChargerPower(c) == <<SumSeq([i \in 1..c.count |-> c.slot[i]]), c.count>>

-----------------------------------------------------------------------------
TrendInit ==
  /\ ring = [slot |-> <<>>, head |-> 1, count |-> 0, sums |-> NoSums]
  /\ load = [slot |-> <<>>, head |-> 1, count |-> 0, at |-> -1]
  /\ chgPower = [slot |-> <<>>, head |-> 1, count |-> 0]
  /\ fed = [samples |-> <<>>, loads |-> <<>>, powers |-> <<>>]

TrendClock == IF fed.samples = <<>> THEN 0 ELSE Last(fed.samples).ts

\* on_battery: the load of a discharging battery, then voltage and charge
TrendBattery(ts, v, soc, w) ==
  LET p == [ts |-> ts, v |-> v, soc |-> soc]
      l == IF w > 0 THEN PushLoad(load, ts, w) ELSE load
  IN  /\ load' = l
      /\ ring' = PushSample(ring, p)
      /\ fed' = [fed EXCEPT !.samples = Append(@, p),
                            !.loads = IF l = load THEN @ ELSE Append(@, w)]
      /\ UNCHANGED chgPower

\* on_charger: the load it carries, or the power it gives
TrendCharger(ts, w) ==
  LET l == IF w < 0 THEN PushLoad(load, ts, -w) ELSE load IN
  /\ load' = l
  /\ chgPower' = IF w > 0 THEN Put(chgPower, w, LoadN) ELSE chgPower
  /\ fed' = [fed EXCEPT !.loads = IF l = load THEN @ ELSE Append(@, -w),
                        !.powers = IF w > 0 THEN Append(@, w) ELSE @]
  /\ UNCHANGED ring

TrendNext ==
  \/ /\ Len(fed.samples) < TrendSamples
     /\ \E dt \in {0, 1}, v \in {130, 131}, soc \in {50, 52}, w \in {0, 20} :
          TrendBattery(TrendClock + dt, v, soc, w)
  \/ /\ Len(fed.loads) + Len(fed.powers) < LoadN + 1
     /\ \E w \in {-10, -20, 30} : TrendCharger(TrendClock, w)

TrendSpec == TrendInit /\ [][TrendNext]_trendVars

-----------------------------------------------------------------------------
TrendTypeOK ==
  /\ ring.count \in 0..TrendN /\ ring.head \in 1..TrendN
  /\ load.count \in 0..LoadN /\ load.head \in 1..LoadN /\ chgPower.count \in 0..LoadN
  /\ VoltageTrend(ring) \in {"-", "up", "down", "stable"}

\* The sums over a window, computed anew
SumsOver(w) ==
  [x |-> SumOf(w, LAMBDA p : p.ts), x2 |-> SumOf(w, LAMBDA p : p.ts * p.ts),
   v |-> SumOf(w, LAMBDA p : p.v), xv |-> SumOf(w, LAMBDA p : p.ts * p.v),
   soc |-> SumOf(w, LAMBDA p : p.soc), xsoc |-> SumOf(w, LAMBDA p : p.ts * p.soc)]

Rises(s) == \A i \in 1..(Len(s) - 1) : s[i + 1] > s[i]

\* After any number of samples the rings hold the newest ones and the cached
\* sums are the sums over them, so that the shown trend is the trend of that
\* window: a charge that only rose is "up".
RingsMatchWindow ==
  LET window == Trim(fed.samples, TrendN) IN
  /\ ring.sums = SumsOver(window)
  /\ LoadStats(load).total = SumSeq(Trim(fed.loads, LoadN))
  /\ LoadStats(load).peak = Max({0} \union Range(Trim(fed.loads, LoadN)))
  /\ ChargerPower(chgPower)[1] = SumSeq(Trim(fed.powers, LoadN))
  /\ (/\ Len(window) >= TrendMin /\ Rises([i \in DOMAIN window |-> window[i].ts])
      /\ Rises([i \in DOMAIN window |-> window[i].soc])) => SocTrend(ring) = "up"
=============================================================================
