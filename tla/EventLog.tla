------------------------------- MODULE EventLog -------------------------------
(***************************************************************************)
(* The log of system events (data_store.cpp) with its table in the          *)
(* database: what is logged when readings change, in memory and on disk,    *)
(* and how a restart finds its way back into the log, by replaying the      *)
(* stored readings of the BMS, then those of the charger, in silence.       *)
(*                                                                          *)
(* Readings stand for what is logged about them; times are in minutes.      *)
(***************************************************************************)
EXTENDS Windows

CONSTANTS
  MaxEvents,      \* SYSTEM_EVENTS_MAX, and the limit of load_system_events
  LogBatteries,   \* readings of the BMS: [charging, soc, bad]
  LogChargers,    \* readings of the charger: [solar, stage]
  LogReadings,    \* bounds of the model: readings,
  LogRestarts     \* and restarts

ASSUME LogAssumption ==
  /\ MaxEvents \in Nat \ {0} /\ LogReadings \in Nat /\ LogRestarts \in Nat
  /\ \A r \in LogBatteries : r \in [charging : BOOLEAN, soc : Nat, bad : BOOLEAN]
  /\ \A r \in LogChargers :
        r \in [solar : BOOLEAN, stage : {"Idle", "Float", "Absorption", "Bulk"}]

VARIABLES
  log,       \* the members of DataStore this is about
  disk,      \* the tables: events, readings of the BMS and of the charger
  logTime,   \* the clock
  lostSome   \* a restart has lost readings that were not written yet

logVars == <<log, disk, logTime, lostSome>>

Once == 60       \* an hour: deduplication and debouncing
Throttle == 1    \* 60 s between charging events

\* push_system_event
Say_Always(m, msg) ==          \* mutant: also while history is loaded
  [m EXCEPT !.events = Push(@, [at |-> logTime, msg |-> msg], MaxEvents),
            !.out = Append(@, [at |-> logTime, msg |-> msg])]
Say(m, msg) ==
  IF \/ m.loading
     \/ m.events # <<>> /\ Last(m.events).msg = msg /\ logTime - Last(m.events).at < Once
  THEN m
  ELSE [m EXCEPT !.events = Push(@, [at |-> logTime, msg |-> msg], MaxEvents),
                 !.out = Append(@, [at |-> logTime, msg |-> msg])]

SayIf(m, cond, msg) == IF cond THEN Say(m, msg) ELSE m

\* "Charging started" and "stopped": from the stage, else from the current
ChargingEvent(m, bat) ==
  LET changed == m.stage # m.prevStage /\ m.prevStage # ""
      msg == IF changed
             THEN IF m.stage \in {"Bulk", "Float"} THEN "started"
                  ELSE IF m.stage = "Idle" THEN "stopped" ELSE "entered"
             ELSE IF bat.charging /\ ~m.charging THEN "started"
             ELSE IF ~bat.charging /\ m.charging THEN "stopped" ELSE ""
      logged == IF msg = "" \/ logTime - m.chargingAt < Throttle THEN m
                ELSE [Say(m, msg) EXCEPT !.chargingAt = logTime]
  IN  [logged EXCEPT !.charging = bat.charging, !.prevStage = m.stage]

SolarEvent(m, solar) ==
  [SayIf(SayIf(m, solar /\ ~m.solar, "solar"), ~solar /\ m.solar, "dark") EXCEPT !.solar = solar]

\* Cell imbalance and high temperature: when it begins, then once an hour
WarningEvent(m) ==
  LET say == m.bad /\ (~m.prevBad \/ logTime - m.badAt >= Once) IN
  [SayIf(m, say, "warning") EXCEPT !.badAt = IF say THEN logTime ELSE @, !.prevBad = m.bad]

FullEvent(m, soc) ==
  IF soc >= 90 /\ ~m.full THEN [Say(m, "full") EXCEPT !.full = TRUE]
  ELSE IF soc < 85 THEN [m EXCEPT !.full = FALSE] ELSE m

\* process_system_events
Process(m, bat, solar) == FullEvent(WarningEvent(SolarEvent(ChargingEvent(m, bat), solar)), bat.soc)

NoReading == [charging |-> FALSE, soc |-> 0, bad |-> FALSE]

\* What analytics makes of a reading, and then update() or update_pwrgate()
OnBms(m, bat) ==
  LET seen == [m EXCEPT !.bad = bat.bad]
  IN  [Process(seen, bat, m.chg # <<>> /\ m.chg[1].solar) EXCEPT !.bat = <<bat>>]
OnChg(m, chg) ==
  LET seen == [m EXCEPT !.stage = chg.stage]
  IN  [Process(seen, IF m.bat = <<>> THEN NoReading ELSE m.bat[1], chg.solar) EXCEPT !.chg = <<chg>>]

NewStore ==
  [events |-> <<>>, out |-> <<>>, loading |-> TRUE, stage |-> "", prevStage |-> "",
   charging |-> FALSE, chargingAt |-> -Once, solar |-> FALSE, bad |-> FALSE, prevBad |-> FALSE,
   badAt |-> -Once, full |-> FALSE, bat |-> <<>>, chg |-> <<>>]

\* load_system_events: the newest by time, oldest first (times do not step back
\* here, so the table is in order)
LoadEvents(rows) == Trim(rows, MaxEvents)

\* load_system_events_from_db: what it is given, up to the limit, from the front
LoadInto(rows) == SubSeq(rows, 1, Min({Len(rows), MaxEvents}))

\* load_history: the stored readings again, in silence
ReplayBms(m, list) ==
  LET upTo[n \in 0..Len(list)] == IF n = 0 THEN m ELSE OnBms(upTo[n - 1], list[n])
  IN  upTo[Len(list)]
ReplayChg(m, list) ==
  LET upTo[n \in 0..Len(list)] == IF n = 0 THEN m ELSE OnChg(upTo[n - 1], list[n])
  IN  upTo[Len(list)]

\* main: open the database, load history, then the events
Startup(d) ==
  LET opened == Append(d.events, [at |-> logTime, msg |-> "opened"])
      both   == ReplayChg(ReplayBms(NewStore, d.bms), d.chg)
      table  == opened \o both.out
  IN  [store |-> [both EXCEPT !.events = LoadInto(@ \o LoadEvents(table)),
                              !.loading = FALSE, !.out = <<>>],
       disk  |-> [d EXCEPT !.events = table]]

LogInit ==
  /\ logTime = 0 /\ lostSome = FALSE
  /\ disk = [events |-> <<[at |-> 0, msg |-> "opened"]>>, bms |-> <<>>, chg |-> <<>>]
  /\ log = [NewStore EXCEPT !.loading = FALSE, !.events = disk.events]

LogReading ==
  /\ Len(disk.bms) + Len(disk.chg) < LogReadings
  /\ \E dt \in {0, Once} : logTime' = logTime + dt
  /\ \/ \E bat \in LogBatteries :
          LET m == OnBms(log, bat) IN
          /\ log' = [m EXCEPT !.out = <<>>]
          /\ disk' = [disk EXCEPT !.events = @ \o m.out, !.bms = Append(@, bat)]
     \/ \E chg \in LogChargers :
          LET m == OnChg(log, chg) IN
          /\ log' = [m EXCEPT !.out = <<>>]
          /\ disk' = [disk EXCEPT !.events = @ \o m.out, !.chg = Append(@, chg)]
  /\ UNCHANGED lostSome

\* Readings still in the buffers are lost, events never wait.
LogRestart ==
  /\ Cardinality({i \in DOMAIN disk.events : disk.events[i].msg = "opened"}) <= LogRestarts
  /\ \E kept \in {disk.chg} \union (IF disk.chg = <<>> THEN {} ELSE {Front(disk.chg)}) :
       LET s == Startup([disk EXCEPT !.chg = kept]) IN
       /\ log' = s.store /\ disk' = s.disk
       /\ lostSome' = (lostSome \/ kept # disk.chg)
  /\ UNCHANGED logTime

LogNext == LogReading \/ LogRestart

LogSpec == LogInit /\ [][LogNext]_logVars

-----------------------------------------------------------------------------
LogTypeOK ==
  /\ Len(log.events) <= MaxEvents /\ log.out = <<>> /\ ~log.loading
  /\ log.prevStage \in {"", "Idle", "Float", "Absorption", "Bulk"}

OfSolar(e) == e.msg \in {"solar", "dark"}

\* The first event of solar input is its detection, and of two with none of the
\* kind between them one is detection and one is loss.
TakeTurns(events) ==
  /\ \A j \in DOMAIN events :
        OfSolar(events[j]) /\ (\A i \in 1..(j - 1) : ~OfSolar(events[i])) => events[j].msg = "solar"
  /\ \A i, j \in DOMAIN events :
        /\ i < j /\ OfSolar(events[i]) /\ OfSolar(events[j])
        /\ \A k \in (i + 1)..(j - 1) : ~OfSolar(events[k])
        => events[i].msg # events[j].msg

\* On disk "Solar input detected" and "lost" take turns, beginning with the
\* first, over restarts as well: the replay of the charger's readings, after
\* those of the BMS, ends where the log left off and adds nothing to it, as
\* long as no restart lost readings that had been logged about.  And what is
\* listed in memory is what is in the table.
SolarAlternates ==
  /\ ~lostSome => TakeTurns(disk.events)
  /\ log.events = Trim(disk.events, MaxEvents)
=============================================================================
