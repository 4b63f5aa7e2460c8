------------------------------- MODULE Forecast -------------------------------
(***************************************************************************)
(* The solar forecast (analytics/weather_forecast.cpp): the two answers of  *)
(* the weather service kept in memory and in the database, what the week is *)
(* made of, and the requests of http_server.cpp that ask for it together    *)
(* with what the database knows about charging and use.  The database       *)
(* outlives the program, the program's clock starts with the machine.       *)
(*                                                                          *)
(* Energies are in units in which an hour of sun gives PanelHour; clouds    *)
(* and ratios are in percent.                                               *)
(***************************************************************************)
EXTENDS Windows

CONSTANTS
  CacheAge,       \* CACHE_SEC, 30 min
  DbAge,          \* DB_CACHE_MAX_AGE, 2 h
  UsageAge,       \* USAGE_PROFILE_CACHE_TTL_S, 60 s
  PanelHour,      \* panel_watts * efficiency
  ChargeHour,     \* max_charge_w
  Capacity,       \* nominal_ah * battery_voltage
  Lists,          \* lists of 3 h slots, by time
  Dailies,        \* lists of days
  Acceptance,     \* measured acceptance: functions from 0..9 to [n, ratio]
  LevelsWx,       \* states of charge, in units of energy
  ForecastTime    \* bound of the model: the clock

\* parse_forecast_list, parse_daily_entries (hours of daylight are cut to 4..18),
\* and what the database counts by tenths of the charge
Percent  == 0..100
Daylight == 4..18
Slot     == [day : Nat, cloud : Percent, light : BOOLEAN]
FarDay   == [day : Nat, cloud : Percent, hours : Daylight]
Measured == [0..9 -> [n : Nat, ratio : Nat]]

ASSUME ForecastAssumption ==
  /\ {CacheAge, DbAge, UsageAge, PanelHour, ChargeHour, ForecastTime} \subseteq Nat
  /\ CacheAge <= DbAge
  /\ Capacity \in Nat \ {0} /\ LevelsWx \subseteq 0..Capacity

ASSUME WeatherAssumption ==
  /\ Acceptance \subseteq Measured /\ Dailies \subseteq Seq(FarDay) /\ Lists \subseteq Seq(Slot)
  /\ \A list \in Lists : \A i, j \in DOMAIN list : i <= j => list[i].day <= list[j].day

VARIABLES
  wx,       \* the members of WeatherForecast, and when the machine was started
  wxDisk,   \* weather_cache, weather_daily, and what usage is computed from
  usage,    \* usage_profile_cache_
  wxNow,    \* the clock
  answer    \* the last forecast, and how it came about

forecastVars == <<wx, wxDisk, usage, wxNow, answer>>

-----------------------------------------------------------------------------
\* What the service answers, now: nothing, an error in words, or a forecast
NoJson == [kind |-> "none", data |-> <<>>, at |-> 0]
Fetched(kind, data) == [kind |-> kind, data |-> data, at |-> wxNow]
Answers(forecasts) == {NoJson, Fetched("error", <<>>)} \union {Fetched("good", f) : f \in forecasts}

\* steady_clock, which the stamps of the two caches are from
Steady == wxNow - wx.boot
Older(at) == Steady - at > CacheAge

\* load_weather_cache
LoadCache_AnyAge(row) == row.json          \* mutant: however old
LoadCache(row) == IF row.at > wxNow - DbAge THEN row.json ELSE NoJson
SaveCache(json) == [json |-> json, at |-> wxNow]

\* The constructor: what was fetched not long ago is used for half the time
Loaded(disk, boot) ==
  LET list  == LoadCache(disk.list)
      daily == LoadCache(disk.daily)
      At(json) == IF json.kind = "none" THEN 0 ELSE (wxNow - boot) - CacheAge \div 2
  IN  [list |-> list, listAt |-> At(list), daily |-> daily, dailyAt |-> At(daily), boot |-> boot]

\* fetch_api, unless what is kept is still good.  An error that the service
\* sends as text is kept, in the database too, like a forecast.
ListDue(w) == w.list.kind = "none" \/ Older(w.listAt)
WithList(w, json) ==
  IF ListDue(w) /\ json.kind # "none" THEN [w EXCEPT !.list = json, !.listAt = Steady] ELSE w

\* fetch_daily_api: whether there is one or not; a refusal is as good as no answer
DailyDue(w) == Older(w.dailyAt)
WithDaily(w, json) ==
  IF DailyDue(w) /\ json.kind # "none"
  THEN [w EXCEPT !.daily = json, !.dailyAt = Steady] ELSE w

Saved(disk, w) ==
  [disk EXCEPT !.list = IF w.list # wx.list THEN SaveCache(w.list) ELSE @,
               !.daily = IF w.daily # wx.daily THEN SaveCache(w.daily) ELSE @]

-----------------------------------------------------------------------------
Part(x, pct) == (x * pct) \div 100

\* get_charge_acceptance_profile: ratios to 100, buckets with few samples filled
\* from the nearest that has enough, the lower one first
Nearest(p, i, far) ==
  LET D == {d \in 1..far : \E j \in {i - d, i + d} \cap 0..9 : p[j].n >= 3}
      d == Min(D)
  IN  IF D = {} THEN -1 ELSE IF i - d >= 0 /\ p[i - d].n >= 3 THEN i - d ELSE i + d
AcceptanceProfile(measured) ==
  LET p == [i \in 0..9 |-> [measured[i] EXCEPT !.ratio = Min({@, 100})]] IN
  [i \in 0..9 |-> IF p[i].n >= 3 \/ Nearest(p, i, 9) = -1 THEN p[i]
                  ELSE [p[i] EXCEPT !.ratio = p[Nearest(p, i, 9)].ratio]]

\* the handler: with fewer than ten samples a profile of its own
Taper == <<100, 100, 100, 100, 100, 100, 95, 80, 45, 15>>
FromHistory(p) == SumOf([i \in 1..10 |-> p[i - 1].n], LAMBDA n : n) >= 10
ChargeProfile(measured) ==
  LET p == AcceptanceProfile(measured) IN
  IF FromHistory(p) THEN p ELSE [i \in 0..9 |-> [n |-> 100, ratio |-> Taper[i + 1]]]
Profiles == {ChargeProfile(measured) : measured \in Acceptance}

\* acceptance_at_soc: by the samples of the bucket, not by what was filled in
Accepts(profile, level) ==
  LET b == Min({(10 * level) \div Capacity, 9}) IN
  IF profile = <<>> THEN 100
  ELSE IF profile[b].n >= 3 THEN profile[b].ratio
  ELSE IF Nearest(profile, b, 4) = -1 THEN 100 ELSE profile[Nearest(profile, b, 4)].ratio

-----------------------------------------------------------------------------
\* get_forecast_week, day by day from the slots: what the panel gives, what the
\* battery takes, and the level after it (as it was, without a profile)
Charged(profile, level, wh) ==
  IF profile = <<>> THEN level ELSE Min({level + wh, Capacity})

OfSlot(s) ==
  IF s.light THEN Min({Part(3 * PanelHour, 100 - s.cloud), 3 * ChargeHour}) ELSE 0
AddSlot(profile, acc, s) ==
  LET nominal == OfSlot(s)
      taken   == Part(nominal, Accepts(profile, acc.level))
      level   == Charged(profile, acc.level, taken)
      new     == acc.days = <<>> \/ Last(acc.days).day # s.day
      day     == IF new THEN [day |-> s.day, wh |-> 0, taken |-> 0, level |-> 0, ext |-> FALSE]
                 ELSE Last(acc.days)
      sum     == [day EXCEPT !.wh = @ + nominal, !.taken = @ + taken, !.level = level]
  IN  [level |-> level, days |-> Append(IF new THEN acc.days ELSE Front(acc.days), sum)]

\* then the days that only the longer forecast has, in three steps of a day each
OfDay(e) == Min({Part(PanelHour * e.hours, 100 - e.cloud), ChargeHour * e.hours})
InThirds(profile, level, nominal) ==
  LET at(k) == Min({level + (k * nominal) \div 3, Capacity}) IN
  Part(nominal, Accepts(profile, at(0)) + Accepts(profile, at(1)) + Accepts(profile, at(2))) \div 3
AddDay(profile, acc, e) ==
  LET nominal == OfDay(e)
      taken   == InThirds(profile, acc.level, nominal)
      level   == Charged(profile, acc.level, taken)
  IN  IF \E i \in DOMAIN acc.days : acc.days[i].day = e.day THEN acc
      ELSE [level |-> level,
            days |-> Append(acc.days, [day |-> e.day, wh |-> nominal, taken |-> taken,
                                       level |-> level, ext |-> TRUE])]

\* max_recovery_pct: not more than what is missing when the day is over (for an
\* extended day, now); 95 % margins
Share(missing, wh) == Min({100 * missing, 100 * wh}) \div Capacity
RecoveryPct(level, day) ==
  LET missing == Capacity - (IF day.ext THEN level ELSE day.level)
  IN  [lo |-> Share(missing, Part(day.taken, 80)), mid |-> Share(missing, day.taken),
       hi |-> Share(missing, Part(day.taken, 120))]

\* days_to_full
Recovered(days, i) == SumOf(SubSeq(days, 1, i), LAMBDA d : d.taken)
Given(days) == SumOf(days, LAMBDA d : d.wh)
DaysToFull(days, level) ==
  LET enough == {i \in DOMAIN days : Recovered(days, i) >= Capacity - level} IN
  IF enough # {} THEN Min(enough)
  ELSE IF Given(days) > 0 THEN Len(days) ELSE 0

\* The days of the slots, one slot after the other, and those after them
Near(profile, level, list) ==
  LET after[n \in 0..Len(list)] ==
        IF n = 0 THEN [level |-> level, days |-> <<>>] ELSE AddSlot(profile, after[n - 1], list[n])
  IN  after[Len(list)]
Further(profile, near, daily) ==
  LET after[n \in 0..Len(daily)] ==
        IF n = 0 THEN near ELSE AddDay(profile, after[n - 1], daily[n])
  IN  after[Len(daily)]

NoWeek == [valid |-> FALSE, days |-> <<>>, toFull |-> 0]
Week(w, profile, level) ==
  IF w.list.kind # "good" THEN NoWeek
  ELSE LET all == Further(profile, Near(profile, level, w.list.data), w.daily.data)
       IN  [valid |-> TRUE, days |-> all.days, toFull |-> DaysToFull(all.days, level)]

\* upsert_weather_daily, one row a date
Upserted(rows, week) ==
  [day \in DOMAIN rows \union {week.days[i].day : i \in DOMAIN week.days} |->
     IF \E i \in DOMAIN week.days : week.days[i].day = day
     THEN (CHOOSE i \in DOMAIN week.days : week.days[i].day = day) \* its place in this forecast
     ELSE rows[day]]

-----------------------------------------------------------------------------
\* get_usage_profile: what the readings said at most UsageAge ago
UsageNow == IF usage.at >= 0 /\ wxNow - usage.at < UsageAge THEN usage
            ELSE [at |-> wxNow, rows |-> wxDisk.readings]

NoAnswer == [shown |-> {}, failed |-> FALSE, week |-> NoWeek, plain |-> NoWeek, same |-> TRUE,
             level |-> 0, lag |-> 0]

ForecastInit ==
  /\ wxNow = 0
  /\ wx = [list |-> NoJson, listAt |-> 0, daily |-> NoJson, dailyAt |-> 0, boot |-> 0]
  /\ wxDisk = [list |-> [json |-> NoJson, at |-> 0], daily |-> [json |-> NoJson, at |-> 0],
               days |-> <<>>, readings |-> 0]
  /\ usage = [at |-> -1, rows |-> 0]
  /\ answer = NoAnswer

\* get_forecast_week: both answers, where they are due; nobody is asked otherwise
Asked(w, list, daily) ==
  LET near == WithList(w, list) IN IF near.list.kind = "good" THEN WithDaily(near, daily) ELSE near
AnswersDue(w, list, daily) ==
  /\ list.kind # "none" => ListDue(w)
  /\ daily.kind # "none" => DailyDue(w) /\ WithList(w, list).list.kind = "good"

\* /api/solar_forecast_week: the nominal forecast, then the realistic one, which
\* asks again for what the first did not get
AskWeek ==
  \E list, list2 \in Answers(Lists), daily, daily2 \in Answers(Dailies),
     level \in LevelsWx, profile \in Profiles :
     LET first  == Asked(wx, list, daily)
         second == Asked(first, list2, daily2)
         plain  == Week(first, <<>>, level)
         week   == Week(second, profile, level)
     IN  /\ AnswersDue(wx, list, daily) /\ AnswersDue(first, list2, daily2)
         /\ wx' = second
         /\ wxDisk' = [Saved(wxDisk, second) EXCEPT !.days = Upserted(Upserted(@, plain), week)]
         /\ usage' = UsageNow
         /\ answer' = [shown |-> IF week.valid
                                 THEN {second.list.at} \union
                                      (IF second.daily.kind = "none" THEN {} ELSE {second.daily.at})
                                 ELSE {},
                       failed |-> ListDue(second) \/ DailyDue(second),
                       week |-> week, plain |-> plain, same |-> second = first,
                       level |-> level,
                       lag |-> wxDisk.readings - UsageNow.rows]
         /\ UNCHANGED wxNow

\* /api/solar_forecast (get_forecast) and /api/weather_refresh (invalidate_cache)
AskTomorrow ==
  \E list \in Answers(Lists) :
     LET w == WithList(wx, list) IN
     /\ wx' = w /\ wxDisk' = Saved(wxDisk, w)
     /\ answer' = [NoAnswer EXCEPT !.shown = IF w.list.kind = "good" THEN {w.list.at} ELSE {},
                                   !.failed = ListDue(w)]
     /\ UNCHANGED <<usage, wxNow>>
Invalidate ==
  /\ wx' = [wx EXCEPT !.list = NoJson, !.daily = NoJson, !.listAt = 0, !.dailyAt = 0]
  /\ answer' = NoAnswer
  /\ UNCHANGED <<wxDisk, usage, wxNow>>

\* A reading is stored, time passes, the program or the machine starts again
TimePasses ==
  /\ wxNow < ForecastTime /\ wxNow' = wxNow + 1
  /\ wxDisk' = [wxDisk EXCEPT !.readings = @ + 1]
  /\ answer' = NoAnswer
  /\ UNCHANGED <<wx, usage>>
ForecastRestart ==
  /\ \E boot \in {wx.boot, wxNow} :
       wx' = Loaded(wxDisk, boot)
  /\ usage' = [at |-> -1, rows |-> 0]
  /\ answer' = NoAnswer
  /\ UNCHANGED <<wxDisk, wxNow>>

ForecastNext == AskWeek \/ AskTomorrow \/ Invalidate \/ TimePasses \/ ForecastRestart

ForecastSpec == ForecastInit /\ [][ForecastNext]_forecastVars

-----------------------------------------------------------------------------
\* And what a week adds up to
Sound(week, level) ==
  /\ \A i, j \in DOMAIN week.days : week.days[i].day = week.days[j].day => i = j
  /\ \A i \in DOMAIN week.days :
       /\ week.days[i].taken \in 0..week.days[i].wh /\ week.days[i].level \in 0..Capacity
       /\ LET r == RecoveryPct(level, week.days[i]) IN 0 <= r.lo /\ r.lo <= r.mid /\ r.mid <= r.hi
  /\ week.toFull \in 0..Len(week.days)
  /\ week.toFull \in 1..(Len(week.days) - 1) => Recovered(week.days, week.toFull) >= Capacity - level

\* The realistic forecast never promises more than the nominal one, unless the
\* service answered again between them: then they are of different answers.
ForecastTypeOK ==
  /\ Sound(answer.week, answer.level) /\ Sound(answer.plain, answer.level)
  /\ answer.same =>
       /\ DOMAIN answer.week.days = DOMAIN answer.plain.days
       /\ \A i \in DOMAIN answer.plain.days :
            LET w == answer.week.days[i]
                p == answer.plain.days[i] IN w.day = p.day /\ w.taken <= p.taken
  /\ \A i \in DOMAIN answer.week.days : answer.week.days[i].day \in DOMAIN wxDisk.days

\* However often the program and the machine are started again: as long as the
\* service answers, the forecast shown is at most as old as the database may
\* keep it and half the time the memory does; and the use it is set against is
\* that of at most UsageAge ago.
ForecastIsRecent ==
  /\ ~answer.failed => \A at \in answer.shown : wxNow - at <= DbAge + CacheAge \div 2
  /\ answer.lag <= UsageAge
=============================================================================
