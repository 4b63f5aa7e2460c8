------------------------------- MODULE Records -------------------------------
(***************************************************************************)
(* The rows of the database that are written by one part of the program     *)
(* and read, changed or removed by another that knows them by their ids:    *)
(* schedules, test runs with their notes and telemetry, and the samples     *)
(* behind the health figures.  Every call of Database is one step: it holds *)
(* mu_ and its statement commits by itself.  Between two calls a page, the  *)
(* scheduler and the maintenance thread hold what they have read.           *)
(***************************************************************************)
EXTENDS Windows

CONSTANTS
  PageRuns, PageSamples,   \* limits of load_test_runs (100) and load_test_telemetry (5000)
  HistoryN,                \* history_size
  Retention, Back,         \* days kept, and days a history goes back
  MaxRows, MaxDay, Passes  \* bounds of the model: rows made, the clock, scheduler passes

ASSUME RecordsAssumption ==
  /\ {PageRuns, PageSamples, HistoryN, Retention, Back} \subseteq Nat \ {0}
  /\ {MaxRows, MaxDay, Passes} \subseteq Nat

VARIABLES
  rec,      \* the tables, each with its sqlite_sequence, and the last rowid given
  held,     \* rows the page shows, and the rest of the scheduler's pass
  day,      \* the clock
  made      \* how many rows were ever made: the property tells rows apart by it

recordsVars == <<rec, held, day, made>>

-----------------------------------------------------------------------------
\* what cleanup removes rows from, by max_age_days
Samples == {"battery_readings", "charger_readings", "battery_resistance", "battery_capacity_tests",
            "voltage_sag_samples", "charger_efficiency_samples", "solar_performance", "test_telemetry"}
Tables == Samples \union {"test_schedules", "test_runs"}

\* AUTOINCREMENT: an id is never given twice
NextId_Reused(table) ==        \* mutant: the largest rowid there is, plus one
  Max({0} \union {r.id : r \in rec.rows[table]}) + 1
NextId(table) == rec.seq[table] + 1

Row(table, of) == [id |-> NextId(table), at |-> day, born |-> made + 1, of |-> of, due |-> day + 1,
                   notes |-> 0]

With(table, of) ==
  [rec EXCEPT !.rows[table] = @ \union {Row(table, of)}, !.seq[table] = NextId(table),
              !.last = NextId(table)]

\* UPDATE and DELETE WHERE id = ?
Updated(table, id, F(_)) ==
  [rec EXCEPT !.rows[table] = {IF r.id = id THEN F(r) ELSE r : r \in @}]
Without(table, id) == [rec EXCEPT !.rows[table] = {r \in @ : r.id # id}]

\* ORDER BY ts DESC LIMIT n, and ORDER BY ts LIMIT n: ties fall anyhow
NewestRows(rows, n) ==
  {S \in SUBSET rows : /\ Cardinality(S) = Min({n, Cardinality(rows)})
                       /\ \A r \in S, s \in rows \ S : r.at >= s.at}
OldestRows(rows, n) ==
  {S \in SUBSET rows : /\ Cardinality(S) = Min({n, Cardinality(rows)})
                       /\ \A r \in S, s \in rows \ S : r.at <= s.at}
Since(table) == {r \in rec.rows[table] : r.at > day - Back}

load_test_schedules == rec.rows["test_schedules"]
load_test_runs(n) == NewestRows(rec.rows["test_runs"], n)
load_test_run(id) == {r \in rec.rows["test_runs"] : r.id = id}
load_test_telemetry(id, n) == OldestRows({r \in rec.rows["test_telemetry"] : r.of = id}, n)
load_battery_history(n) == NewestRows(rec.rows["battery_readings"], n)
load_charger_history(n) == NewestRows(rec.rows["charger_readings"], n)
load_battery_capacity_history == Since("battery_capacity_tests")
load_solar_performance == Since("solar_performance")

insert_battery_resistance == With("battery_resistance", 0)
insert_battery_capacity_test == With("battery_capacity_tests", 0)
insert_charger_efficiency == With("charger_efficiency_samples", 0)
insert_solar_performance == With("solar_performance", 0)
insert_test_telemetry(id) == With("test_telemetry", id)
insert_reading(table) == With(table, 0)

RecordsInit ==
  /\ rec = [rows |-> [t \in Tables |-> {}], seq |-> [t \in Tables |-> 0], last |-> 0]
  /\ held = [page |-> {}, of |-> "test_runs", history |-> {}, pass |-> {}, turn |-> {}, passes |-> 0,
             answer |-> "none"]
  /\ day = 0 /\ made = 0

-----------------------------------------------------------------------------
Create(table, of) == made < MaxRows /\ rec' = With(table, of) /\ made' = made + 1

\* Requests.  A schedule whose INSERT fails is answered with the id some other
\* row was given last, and "ok" unless there is none
PostSchedule(fails) ==
  /\ IF fails THEN UNCHANGED <<rec, made>> ELSE Create("test_schedules", 0)
  /\ held' = [held EXCEPT !.answer = IF rec'.last > 0 THEN "ok" ELSE "insert failed"]
  /\ UNCHANGED day

DeleteSchedule(id) ==
  /\ rec' = Without("test_schedules", id)
  /\ held' = [held EXCEPT !.answer = IF rec' # rec THEN "ok" ELSE "not found"]
  /\ UNCHANGED <<day, made>>

\* "ok" also when no run has the id
Noted(r) == [r EXCEPT !.notes = 1]
PostNotes(id) ==
  /\ rec' = Updated("test_runs", id, Noted)
  /\ held' = [held EXCEPT !.answer = "ok"]
  /\ UNCHANGED <<day, made>>

Show(table, rows) ==
  held' = [held EXCEPT !.page = rows, !.of = table, !.answer = "page"] /\ UNCHANGED <<rec, day, made>>

GetSchedules == Show("test_schedules", load_test_schedules)
GetTests == \E rows \in load_test_runs(PageRuns) : Show("test_runs", rows)
GetTest(id) == Show("test_runs", load_test_run(id))
GetTelemetry(id) == \E rows \in load_test_telemetry(id, PageSamples) : Show("test_telemetry", rows)
GetCapacity == Show("battery_capacity_tests", load_battery_capacity_history)
GetSolarPerformance == Show("solar_performance", load_solar_performance)

PageIds(table) == IF held.of = table THEN {r.id : r \in held.page} ELSE {}

-----------------------------------------------------------------------------
\* check_scheduled_tests, one call of the database a step
LoadPass ==
  /\ held.pass = {} /\ held.passes < Passes
  /\ held' = [held EXCEPT !.pass = {r \in load_test_schedules : r.due <= day}, !.passes = @ + 1]
  /\ UNCHANGED <<rec, day, made>>

\* whose turn it is: ORDER BY next_run_ts
Due(r) == held.turn = {} /\ r \in held.pass /\ \A s \in held.pass : r.due <= s.due

\* update_test_schedule_skip, and then update_test_schedule_next_run
Skip ==
  \E r \in held.pass :
    /\ Due(r) /\ held' = [held EXCEPT !.turn = {r}]
    /\ rec' = Updated("test_schedules", r.id, Noted)
    /\ UNCHANGED <<day, made>>

NextRun(r) == [r EXCEPT !.due = day + 1]
Postpone ==
  \E r \in held.turn :
    /\ rec' = Updated("test_schedules", r.id, NextRun)
    /\ held' = [held EXCEPT !.pass = @ \ {r}, !.turn = {}]
    /\ UNCHANGED <<day, made>>

\* start_test makes the run; the pass ends with the schedule's next time
StartRun ==
  \E r \in held.pass :
    /\ Due(r) /\ Create("test_runs", r.born)
    /\ held' = [held EXCEPT !.pass = {r}, !.turn = {r}]
    /\ UNCHANGED day

\* a test somebody starts by hand: insert_test_run
StartTest == Create("test_runs", 0) /\ UNCHANGED <<held, day>>

\* the observer, the extensions and the end of a capacity test
Keep ==
  /\ made < MaxRows /\ made' = made + 1
  /\ rec' \in {insert_battery_resistance, insert_battery_capacity_test, insert_charger_efficiency,
               insert_solar_performance, insert_reading("battery_readings"),
               insert_reading("charger_readings")}
  /\ UNCHANGED <<held, day>>

Telemetry(id) ==
  /\ made < MaxRows /\ made' = made + 1
  /\ rec' = insert_test_telemetry(id)
  /\ UNCHANGED <<held, day>>

\* cleanup: each DELETE a statement of its own, a failing one is passed over
Cleanup(failed) ==
  /\ rec' = [rec EXCEPT !.rows = [t \in Tables |->
                IF t \in Samples \ failed THEN {r \in @[t] : r.at >= day - Retention} ELSE @[t]]]
  /\ UNCHANGED <<held, day, made>>

NextDay == day < MaxDay /\ day' = day + 1 /\ UNCHANGED <<rec, held, made>>

\* the program is restarted: its pass is gone, an open page stays
RestartProgram ==
  /\ rec' = [rec EXCEPT !.last = 0]
  /\ \E bms \in load_battery_history(HistoryN), chg \in load_charger_history(HistoryN) :
       held' = [held EXCEPT !.pass = {}, !.turn = {}, !.history = bms \union chg]
  /\ UNCHANGED <<day, made>>

RecordsNext ==
  \/ \E fails \in BOOLEAN : PostSchedule(fails)
  \/ \E id \in PageIds("test_schedules") : DeleteSchedule(id)
  \/ \E id \in PageIds("test_runs") : PostNotes(id)
  \/ GetSchedules \/ GetTests \/ GetCapacity \/ GetSolarPerformance
  \/ \E id \in PageIds("test_runs") : GetTest(id)
  \/ \E id \in PageIds("test_runs") : GetTelemetry(id)
  \/ LoadPass \/ Skip \/ Postpone \/ StartRun
  \/ StartTest
  \/ Keep
  \/ \E r \in rec.rows["test_runs"] : Telemetry(r.id)
  \/ \E failed \in {{}, {"test_telemetry"}} : Cleanup(failed)
  \/ NextDay
  \/ RestartProgram

RecordsSpec == RecordsInit /\ [][RecordsNext]_recordsVars

-----------------------------------------------------------------------------
Rows == [id : 1..MaxRows, at : 0..MaxDay, born : 1..MaxRows, of : 0..MaxRows, due : 0..MaxDay + 1,
         notes : {0, 1}]

RecordsTypeOK ==
  /\ \A t \in Tables : rec.rows[t] \subseteq Rows /\ rec.seq[t] \in 0..MaxRows
  /\ rec.last \in 0..MaxRows /\ day \in 0..MaxDay /\ made \in 0..MaxRows
  /\ held.page \union held.pass \union held.history \subseteq Rows
  /\ held.of \in Tables /\ held.turn \subseteq held.pass /\ held.passes \in 0..Passes
  /\ held.answer \in {"none", "ok", "insert failed", "not found", "page"}

\* Whoever acts on an id acts on the row it has read: whatever was removed, inserted,
\* cleaned up or restarted since, the ids a page shows and the ids of a scheduler's
\* pass name the rows they were read from, or no row (delete_test_schedule,
\* update_test_run_notes, update_test_schedule_next_run and _skip match by id alone).
Names(row, table) == \A x \in rec.rows[table] : x.id = row.id => x.born = row.born
IdsNameTheirRows ==
  /\ \A row \in held.page : Names(row, held.of)
  /\ \A row \in held.pass : Names(row, "test_schedules")
=============================================================================
