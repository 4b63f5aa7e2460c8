# limonitor in TLA+

limonitor is a daemon for a Raspberry Pi that watches a LiFePO4 battery (BLE),
an EpicPowerGate charger (serial or HTTP) and a Shelly relay in the grid supply
(HTTP), keeps the readings in SQLite, shows a dashboard, and runs battery tests,
one of which switches the grid off. This directory holds a model of it:
TLA+ modules, TLC runs on small instances, and TLAPS proofs for all instances.
All source paths below are relative to the repository root.

## 1. Inventory

| Part | State it keeps | Operations | Talks to |
|---|---|---|---|
| `DataStore` (`src/data_store.cpp`) | rings of the last `history_size` readings, write buffers, TX and system events, observers; one mutex | `update`, `update_pwrgate`, `flush_db`, readers, `on_update` | called by BLE, serial, PwrGate client, demo thread, HTTP; calls `Database` and the observers under its mutex |
| `Database` (`src/database.cpp`) | SQLite connection, settings cache; one mutex | batch inserts, settings, test tables, grid events, checkpoint, cleanup, backup | called by everything, calls nobody |
| `testing::TestRunner` (`src/testing/`) | the running test, telemetry buffer; one mutex | `start_test`, `stop_test`, `on_telemetry_tick`, constructor, destructor; `check_scheduled_tests` beside it | HTTP, maintenance thread, second store observer; calls store and database under its mutex |
| Grid-off test (`src/shelly_client.cpp`, relay handler in `src/http_server.cpp`) | settings `shelly_test_active`, `shelly_test_start_ts`; the relay itself | relay command, `check_test_conditions`, recovery at startup | HTTP request threads, maintenance thread, first store observer, recovery thread |
| `main()` (`src/main.cpp`) | `g_quit` | startup, history reload, observers, maintenance thread, shutdown | owns all of the above |
| `HttpServer` (`src/http_server.cpp`) | Shelly status cache, outage detection | about 40 request handlers, one detached thread each; `shelly_poll_loop` | store, database, runner |
| `BleManager` (`src/ble_manager_linux.cpp`) | connection state, D-Bus proxies, timers | GLib callbacks on one thread; `start`, `stop`, `connect_to` | BlueZ over D-Bus; `DataStore::update` |
| Serial reader, PwrGate client, frame parsers | line and frame buffers | `read_loop`, `poll_loop`, `feed` | `update_pwrgate`, `update` |
| TX detection and `ResistanceEstimator` (`src/data_store.cpp`, `src/analytics/resistance_estimator.cpp`) | the burst under way, the list of transmissions, samples of the resistance | `process_tx_detection`, `update` | called by the store under its mutex, with both streams |
| System event log (`src/data_store.cpp`) | list of events, what was last logged about | `push_system_event`, `process_system_events`, the reload | table `system_events` |
| `AnalyticsEngine`, `HealthScorer` (`src/analytics.cpp`, `src/analytics/`) | counters by day and hour, rings with cached sums, debounce counters | `on_battery`, `on_charger`, `compute_extended_analytics` | called by the store under its mutex |
| `AnalyticsExtensions`, `AnomalyDetector` | loads, resistances, anomalies, times of the last samples | `update` | tables of samples |
| `WeatherForecast` (`src/analytics/weather_forecast.cpp`) | two cached answers of the service | `get_forecast_week`, `get_forecast`, `invalidate_cache` | `weather_cache`, `weather_daily`; request handlers |
| Maintenance mode, outage events | settings, `grid_events`, `ops_events`, members of `HttpServer` | requests, `shelly_poll_loop`, the maintenance thread | the Shelly switch |
| Configuration (`src/main.cpp`) | `Config`, settings | file, command line, migration, dialog, page | the database |
| Terminal UI, logger | drawing state | | store |

Threads: the GLib thread of the BLE manager, the serial reader, the PwrGate
client, the Shelly poller, the maintenance thread (daemon mode), one detached
thread per HTTP request, the recovery thread at startup, main().

What makes these parts correct, and what is hard about it:

* **Grid-off test.** The grid must come back: when the battery is low, when the
  hours are over, when the user says so, and after a crash. The relay is a
  machine of its own, the record of the test is two settings written after the
  command, and three kinds of threads do both without a common lock.
* **Test runner.** At most one test; the row of a test is ended once, rightly,
  also when the process dies; its telemetry is complete and its own; a schedule
  starts its test once for each time it is due.
* **Readings.** Stored once, in order, none lost without a cause, over flushes
  that fail, crashes, power loss, retention, shutdown and reload.
* **Mutexes.** Three mutexes, callbacks under one of them: no circle of waiting
  threads, every operation comes to its end.
* **BLE.** Whatever BlueZ answers and however late, something is always under way
  that leads back to a connection, and the battery is polled while it is ready.
* **Outages and maintenance windows.** Every outage that nothing excuses is on
  record once and closed; a window somebody forgets ends. Three threads write the
  same settings one at a time, inserts fail, and the program may crash between.
* **What is found in two streams** (transmissions, energy, warnings, anomalies).
  Each reading is judged with the latest one of the other stream, and the same
  facts are looked at again with the next; nothing may be counted twice, forgotten
  at midnight or when a ring wraps, or announced on a single reading.
* **What outlives a restart** (event log, weather cache, configuration, rows known
  by their ids). A start finds what an earlier one left, wherever it was cut off.
* **Parsers.** A reading is one report, whatever arrives in which pieces.

PROJECT.json lists every hazard at its line with the properties that look at it.

## 2. Modules

### GridTest: the relay and its two settings

Variables `active`, `startTs`, `config` are settings in the database (they
survive a crash), `relay` and `late` are outside the process, `op[t]` is where
thread `t` is in its relay operation. `testOff` and `disturbed` are history.

| Code | Actions |
|---|---|
| `POST /api/shelly/relay` (`http_server.cpp` 236-317) | `HttpRelay`, `SendHeard` / `SendUnheard` / `SendFails`, `WriteActive`, `WriteStartTs`, `Snapshot` |
| `check_test_conditions` (`shelly_client.cpp` 173-232) in the maintenance thread | `MaintCheck`, `MaintDecide`, then the send and write actions |
| the same in the first store observer (`main.cpp` 517-526) | `BleUpdate`: the call never gets beyond `store.analytics()` while a test is active, because its caller holds the store mutex (`storeStuck`) |
| startup recovery (`main.cpp` 464-482) | `Restart`, then send and write actions of thread `Recovery` |
| `POST /api/settings` | `SaveSettings` |
| the relay, the network, time | `LateArrival`, `SendUnheard`, `Expire`; process death is `Crash` |

The three `Send` actions cover the whole of connect, send and the wait for an
answer: the command arrives (`SendHeard`), arrives later or never
(`SendUnheard`, the code counts it as done), or was not sent (`SendFails`).
`faulty` is chosen once: on a faultless path only `SendHeard` is possible.

* `SafetyNet`: the two settings agree with the relay whenever no operation is
  between its command and its last write, unless operations overlapped, a crash
  hit one there or the relay did not do as told. The code really has those
  windows, so the property names them; what it excludes is everything else.
* `RecoveryRestores`, `CheckerEndsLowTest`: the two safety nets do bring the grid
  back, by steps of other threads. The escapes in them are the code's own: the
  single attempt at recovery, the user editing the settings, a BLE thread that
  has locked the store against itself.
* `LowBatteryRestoresGrid` and `CrashLeavesRecord` are what a header and a comment
  promise; both are violated (section 5).

### TestRunner and TestLedger

One action per method, because each method holds the runner's mutex throughout;
the scheduler (`check_scheduled_tests`) locks only inside the calls it makes and
is the actions `ScheduleScan`, `ScheduleSkip`, `ScheduleStart`,
`ScheduleAdvance`, `ScheduleEnd`, between which requests may come. `rows`,
`tele` and `caps` are the tables `test_runs`, `test_telemetry`,
`battery_capacity_tests`; `taken`, `lost`, `orphans`, `ran` are history. `Fault`
is the database refusing a write whose result the runner ignores. `Destroy` is
the destructor, which runs after `db->close()`, so a test that still runs then
leaves its row open (`orphans`) for the constructor of the next process
(`Sweep`, `Restart`). `CrashInTick` is the death of the process inside the
row-by-row insert of a full batch.

In production the second observer never reaches `on_telemetry_tick` (see
StoreLocks); TestRunner models the contract of the class as its unit tests
(`tests/unit/test_runner_test.cpp`) and the observer's code drive it.

TestLedger is the abstract specification: a list of open and closed rows with
`Open`, `Finish`, `Abandon`, `Settle`. TestRunner implements it under the mapping
at its end (`LedgerSpec`): `finished` and `swept` are closed, `running` is open.

Properties: `OneOpenRow` (who may be marked running), `EndedIsFinal`,
`TelemetryIntact` (no sample under another test's id, nothing left in the
buffer, nothing lost or repeated without a fault), `LossBound` (a crash costs at
most a batch), `DueRunsOnce` and `DueIsServed` (a due schedule starts once, and
is started or skipped in the end).

### StoreLocks

The three mutexes and who takes which under which. An operation is a program,
a sequence of lock and unlock steps with branches on the two flags that decide
about locks and choices for everything else; the definitions between `StoreRead`
and `Shutdown` follow the code line by line in their order of calls.
`Deployments` names how the daemon is run: `monitor` (BLE readings, nobody
starts tests), `bench` (`--no-ble`, with tests), `full`. In the first two
`NoWaitCycle` and `EveryCallReturns` hold; in `full` the telemetry observer locks
the store mutex under itself (`TelemetryArrives` is violated).
With three mutexes a circle has at most three threads, and one of each kind is
in the run. `Others` stands for the serial reader, the poller, main() at its end
and the request threads: each runs any of their operations.

### DataStore and ReadingFates

The way of the readings of the two streams: `ring`, `buf`, `table`; `onDisk` is the
set of contents a loss of power may leave, which grows with every commit and
shrinks to the present content at a checkpoint (WAL mode, `synchronous=NORMAL`).
`Update` is `update` and `update_pwrgate` whole, including the flush by
`maybe_flush_db` with its two transactions, each of which may be refused or
lose a row (`Fault`). `ShutdownFlush`, `CloseDb`, `Exit` are the end of main() in
its order: readings still arrive between them. `Restart` is the reload, through
`update` with `loading_history_` set.

Properties: `InOrder` (nothing twice, nothing out of order, over restarts),
`OnlyLateReadingsLost` (what an orderly life loses), `HistoryComplete` (the ring
is the end of the table, without holes), `AppendOrTrim` (what a step may do to a
table); `CommitIsDurable` is what a comment claims, and is violated.

ReadingFates is the abstract specification: a reading waits, is stored, was deleted by
age, or was lost, and the sets of these change by arrivals (`Arrive`, `TurnAway`),
saves (`SaveWaiting`, `ArriveAndSave`), `Age`, and the ends of the process (`End`,
`LosePower`). It says of a save that all that waits is written at once, that a fault is
one of one stream and costs its batch or the oldest reading of it, and that a closed
database takes nothing; rings, transactions, contents of the disk and the order of the shutdown
do not occur in it. DataStore implements it under the mapping at its end (`FatesSpec`):
`buf` is what waits, `table` what is stored, `wiped` what was deleted. So a buffer that
keeps a refused batch for the next flush, a reload that buffers again what it loads, or
a second fault in one flush is not a step of it.

### BleManager

One GLib thread, so one action per callback: `ManagerReady`, `ObjAdded`,
`RetryFires`, `PollFires`, `ConnectTo` (what `connect_to` asks for), and the
dispatch of what BlueZ sent, in its order: `ConnectAnswer`, `NotifyAnswer`,
`DeviceProps`. The methods they call (`connect_device`, `on_services_resolved`,
`start_discovery`, `schedule_reconnect`) are operators from the members `m` of
`Impl` to the set of their outcomes, because they nest. BlueZ, the battery and the
user are the actions from `ObjRemoved` to `UserPicks`; they are modelled from what
the callbacks can meet: calls answered late, refused or failed, signals sent to
every proxy that has a handler, a link that drops at any moment.

Two facts about GLib shape the module. `g_source_remove` searches the default
context while the timers are in `gctx`, so no timer is ever cancelled: `retries`
and `polls` count the running ones. And a proxy that is overwritten keeps its
handler: `hooked` is the set of proxies whose signals still arrive.

* `NotForgotten`: when nothing is left to dispatch, something is under way that
  leads on. It has one escape, `LateAnswer`, which the code needs: a retry goes back
  to scanning while answers to an earlier Connect or StartNotify are still on their
  way, and these then set the state to discovering or ready with no device and no
  timer. Without a configured device a pick at the wrong moment is enough; with one
  it takes three disturbances. The run fails without the escape.
* `NeverScansPastTarget`: `object-added` does not come for a battery BlueZ already shows.
* `Recovers`: with a device configured, it ends polling over a live connection,
  in spite of doubled timers and left-over proxies. The exceptions are two calls
  the code makes once, the object manager and `StartDiscovery`, and `LateAnswer`.
* `OnePollTimer` is violated (section 5).

### The components around the store

These modules share no variables. `MCMonitor` puts them side by side: a behaviour
picks one of them (`part`) and the others keep their first state, so that each has
the state space it would have alone. What couples the parts in the program is an
input here: the trend of `TrendRings` in `Alerts`, the test of `GridTest` in
`Outage`, the transmission time in `Anomalies` range over what the other may give.
All the store's work on one reading happens under one mutex, so a reading is one
step; the interleaving is that of the readings. `Windows` holds the bounded lists
they use (`Push` is push_back and trim).

| Module | Code | State and actions |
|---|---|---|
| `TxDetection` | `run_tx_detection`, `process_tx_detection`, `ResistanceEstimator::update` | `latest`, `burst` (`tx_active_` with its peak), `txEvents`, `estimator`; `TxBattery` and `TxCharger` are the two `update`s, each followed by the estimator over the whole list, `SetTxThreshold` the setting |
| `EnergyMeter` | `AnalyticsEngine`: `reset_daily_if_needed`, `integrate_discharge_wh`, the hourly archive, runtime, capacity | `meter`; `ReadBattery`, `ReadCharger` with times that may step back, `ChargeRestarts` |
| `Alerts` | `update_charging_stage`, `compute_extended_analytics`, `compute_system_status`, `HealthScorer` | `al`; `AlertBattery`, `AlertCharger`: both run the same computation on the latest pair |
| `TrendRings` | the rings, `push_voltage_soc_sample`, `compute_*_trend`, `recompute_load_stats` | `ring` with its sums, `load`, `chgPower`; `TrendBattery`, `TrendCharger` |
| `EventLog` | `process_system_events`, `push_system_event`, `load_system_events*`, the startup of main() | `log` (memory), `disk` (tables); `LogReading`, `LogRestart` with the replay (`ReplayBms`, `ReplayChg`) |
| `Anomalies` | `AnomalyDetector::update`, `AnalyticsExtensions::update` | `ext`, `extRows`; `ExtUpdate` is one call |
| `Outage` | `shelly_poll_loop`, `/api/maintenance/*`, `/api/note`, `/api/event/reclassify`, the maintenance thread, `grid_events` | `set`, `events`, `ops` (tables), `poller`, `request`, `guard` (three threads); one action for each write or read of a setting, `CrashAndStart` |
| `Forecast` | `WeatherForecast`, `get_charge_acceptance_profile`, `get_usage_profile`, the two forecast requests | `wx` (memory), `wxDisk`, `usage`; `AskWeek`, `AskTomorrow`, `Invalidate`, `ForecastRestart` of the program or the machine |
| `Startup` | `load_config_file`, `parse_args`, `Database::open` and `migrate`, `migrate_and_load_config`, `run_tui_settings`, `POST /api/settings`, settings.txt | `file` (database), `text`, `prog`; one key of the migration or of the dialog a step, `Stop` at any of them |
| `Records` | the insert, load, update and delete functions of `Database` and the handlers and scheduler pass that use ids | `rec` (tables as sets of rows, with `sqlite_sequence`), `held` (what a page and a pass have read); `ORDER BY ts LIMIT` is any set of newest rows, since ties fall anyhow |
| `Readers` | `SerialReader::read_loop`, `pwrgate::parse`, `litime::Parser`, `PwrGateClient` | `serial`, `parser`, `client` inside; `gate`, `bms` are the devices and lines outside |

Properties:

* `TxEventsAreRuns`: the list is the newest maximal runs of readings above the
  threshold, with the bounds and the first strongest reading of each, whichever
  stream brought them. The reference is computed from everything heard.
* `OneSamplePerTx`: the estimator weighs a transmission once although it is given
  the list again with every reading; and it never gets a sample from one that
  lasts and the BMS opened, because "before" and "during" are then the same reading.
* `NoDoubleCount`, `BooksAgree`: energy is not more than load times the time that
  passed (plus the time lived twice when clocks step back), runtime is made of
  minutes the charger was on; the books by day and by hour agree over resets.
* `AlertsAreDebounced`: a warning or the mode changes only after its number of
  calls in a row, or when what it is about is over. `said` keeps the last verdicts.
* `RingsMatchWindow`: the sums that are only ever updated equal the sums over the window.
* `SolarAlternates`: over restarts "detected" and "lost" take turns on disk and the
  list in memory is the end of the table. The escape, a restart that lost readings
  that had been logged about, is the code's: events are written at once, readings later.
* `RepeatsNeedAnother`: the same anomaly within its window only after one of another
  type. The escape is the code's: its search of the list stops at another type.
* `OutagesAreRecorded`, `WindowsEnd`: see above. Two escapes, both the code's: an
  insert that fails after it was prepared returns the id of another row; a crash
  between the two writes that open the very first window leaves a mode without start.
* `ForecastIsRecent`: as long as the service answers, a forecast is at most
  `DbAge + CacheAge / 2` old over any restarts, and the usage at most `UsageAge`.
* `ConfigKept`: "database is the source of truth after the first run" (`README.md:88`).
  The escape, a value saved by the page before the next start, is the code's.
* `IdsNameTheirRows`: who acts on an id acts on the row it has read.
* `WholeReadings`: all fields of a reading come from one report as long as the session
  missed at most one piece: one that the line lost, or one that a prompt took with it
  when it cut a line in two (`Answered`). Two can mix two reports; one lost BLE
  notification spoils the responses until the connection ends.

The type invariants also carry what is checked of the pure functions: the score and
the alerts judge the same figures alike (`AlertTypeOK`), a week's forecast adds up
(`Sound`), and the realistic forecast takes no more than the nominal one, day by day, as
long as both are made from the same answers.

## 3. Runs

| Run | Instance | What it shows |
|---|---|---|
| `grid_test` | one request thread, maintenance, recovery; 1 crash | the settings tell the truth, both nets work |
| `grid_low_battery`, `grid_crash_window` | the same | the two findings |
| `test_runner` | 2 kinds, 1 schedule, batch of 2, 2 tests, 3 samples, 1 crash, 1 refused write | rows, telemetry, schedule; refinement of TestLedger |
| `runner_capacity` | the same | a finding |
| `store_locks` | BLE, maintenance, one other thread; `monitor` and `bench` | no circle of waiting, every call returns |
| `locks_telemetry` | the same, `full` | a finding; deadlock is not checked as a separate error because it is what the run shows |
| `data_store` | rings of 2, 4 readings over 2 streams, 1 crash or loss of power, 1 refused write | order, completeness, losses; refinement of ReadingFates |
| `data_store_power` | the same | a finding |
| `ble_manager` | 2 disturbances with a configured device, 3 without | nothing is forgotten; the connection comes back |
| `ble_poll_timer` | the same | a finding |
| `monitor` | `Monitor.cfg`, below | the components around the store; `CHECK_DEADLOCK FALSE`, because each of them stops at its bounds |

Why the bounds are enough. GridTest: an operation is disturbed by any one other,
so three threads that operate at once and one crash give every pair of
overlaps; its state is otherwise finite. TestRunner: a batch of 2 has the three
fillings that matter (empty, partly, full); with 3 samples one batch is written
and one is begun, with 2 tests samples of one may meet the other; the second
start after the crash sees rows of every kind. DataStore: 4 readings fill one
ring of 2 twice over; the run also holds with 5 (3.0 million states).
BleManager: one disturbance is enough to double a timer or leave a proxy behind, the
second meets the doubled ones; `LateAnswer` needs three. With three for a configured
device too, the states (over 25 million) do not fit into a run; a random simulation of
200 million states found the invariants to hold.
Monitor (0.6 million states): rings and lists of 1 to 3, so that each is filled,
wraps and is trimmed. TxDetection: 4 readings make two transmissions of a list of 1,
or one with a peak that moves. EnergyMeter: an hour of 2 and a day of 4 units with
steps of -1, 1 and a gap pass hours and days in 4 readings. Alerts: confirmations of
2, so that a warning may be shown, cleared and interrupted. EventLog: 3 readings
around one restart; a solar event, its end, and the replay of both. Outage: 3 units of
time with polls between them, 2 requests, a crash, 2 outages; a timeout of 1 and a
window that starts again before it fires. Forecast: caches of 2 in a time of 4; two
lists, a daily forecast, an error or nothing as answers, again for the second pass of a
request; restarts of program and machine at any moment. Startup: 3 starts
of 4 keys, one of each class the code treats differently, cut off anywhere. Records: 2
rows ever made are enough for an id to be reused. Readers: 3 reports of 2 lines of 2
pieces, 4 pieces on the way, 2 sessions, a prompt anywhere, a loss; a response of 2
notifications. Its inductive invariant was checked with longer lines and 2 losses
before it was proved.
Bounds of the other modules are constants named `Max...`, each in the guard of one
action, and the proofs hold for all of them.

Fairness. GridTest: threads that are running go on, and a restarted service
comes up (`deploy-pi.sh:156`, `Restart=on-failure`); the relay, the user and the
BMS do as they like. TestRunner: the maintenance thread makes its pass every
minute; ticks and requests are not assumed. StoreLocks: a runnable thread runs
(WF), and a thread waiting for a mutex that becomes free again and again gets it
(SF on `Acquire`): `std::mutex` does not promise this, the Linux scheduler gives
it in practice. DataStore states no liveness: nothing in the code promises when
a quiet stream is flushed.
BleManager: the loop dispatches what it has, BlueZ answers every call one way or
the other (its own timeouts see to that), and a battery in reach appears while
discovery is on.
Outage (`OutageFairness`, for `WindowsEnd`): time passes, the poller and the
maintenance thread run (each is a loop with a bounded sleep), and a request that has
begun is finished; nobody is bound to make one, and crashes come as they like, at most
`Crashes`. After a crash the service is up again at once, so `Restart=on-failure`
is assumed here as well.

Each property of a passing run has a mutant, an operator beside the definition
it replaces (`Sweep_Never` beside `Sweep`), that TLC finds with that property.

## 4. Proofs

The theorems are in `MonitorProofs` (GridTest, Outage, Records, Startup, TxDetection,
EventLog, Readers), `TestRunnerProofs` (with TestLedger), `StoreLocksProofs`,
`DataStoreProofs` (with ReadingFates), `BleManagerProofs`, `AnalyticsProofs` (Alerts,
Anomalies, Forecast, EnergyMeter, TrendRings), `CompositionProofs` (MCMonitor), and `WindowProofs` with
lemmas about bounded lists and sums. The only assumptions are the ones the modules state
on their constants, and the hypotheses of `NoWaitCycleHolds`, `NoDoubleCountHolds` and
`MeterTypes` below, the last two again in `MonitorIsSafe` and `MonitorTypes`.

* `GridTestTypes`, `SafetyNetHolds`. `SafetyNet` says nothing of the inside of a
  window, so it is not inductive: `NetInv` adds that while nothing is disturbed at
  most one thread is in its window, that the relay already is what its command
  says, and that after the first write `active` agrees with the relay.
* `RunnerTypes`, `OneOpenRowHolds`, `EndedStaysFinal`, `TelemetryIntactHolds`,
  `LossBoundHolds`, `DueRunsOnceHolds`, `RunnerImplementsLedger`. `RowsInv` adds
  that the running test is the newest row and not an orphan, and that only rows
  that exist are orphans; `TelemetryIntact` and `LossBound` are inductive together. The refinement maps every action to a step of the
  ledger or a stutter: a crash is `Abandon` or nothing, the sweep is `Settle`.
* `LedgerLive`: in the ledger the run under way is the newest row; with the
  refinement this holds of `test_runs`.
* `StoreTypes`, `InOrderHolds`, `AppendOrTrimHolds`, `NothingVanishesHolds`,
  `OnlyLateReadingsLostHolds`. `InOrder` is not inductive because a loss of power
  puts an older table back: `StoreInv` adds that every content in `onDisk` is a
  beginning of the table. `LateInv` adds what is buffered at each stage of the
  shutdown.
* `StoreImplementsFates`, on `NothingVanishes` (every reading is somewhere or has met its
  cause; `FatesSpec` says it again). The mapping turns sequences into sets, so that the row a fault
  takes, the first of its batch, is its least only because buffers are in order; and a
  reading lost with the power is one the table had and the content left has not. Both
  need `StoreInv`, and the reload is a stutter because it fills nothing but rings.
* `FatesKeepOrder`, `FatesAreFinal`: what ReadingFates is for, with `FatesInv` as the
  inductive invariant: a reading has one fate, those that wait are the newest, those
  deleted the oldest, and what is deleted or lost stays so. `StoreImplementsFates`
  carries all of it over to the store.
* `HistoryCompleteHolds`. `HistoryInv` adds the readings that wait in the buffers, which
  the next flush makes rows, and that nothing in the ring is newer than the last arrival.
* `LocksTypes` for every deployment, and `NoWaitCycleHolds` for those in which not
  both BLE readings and tests occur, which is what `TelemetryArrives` is about: for
  any number of threads. A program is `Orderly` when some set of programs holds it and
  is closed under all its steps, branches and choices, each of them in the order of
  `Rank` (store, runner, database in `monitor`; runner, store, database in `bench`).
  That is shown of each operation from its parts (`Keeps`), so `LocksInv` says that
  what any thread has left is orderly from the mutexes it holds; then who waits for
  whom asks for a higher mutex, and there are only three.
* `ConfigKeptHolds`, of `StartupSpec`. `KeptInv` adds that what a key is owed is in the
  database, and that during the migration a key already passed is empty only when the
  start was given nothing for it: so a start cut off anywhere can be repeated.
* `AlertsAreDebouncedHolds`, of `AlertSpec`, for any counts: `DebounceInv` says that the
  two counters of a warning count the equal verdicts at the end of the last `limit`,
  and that the counter of the mode counts the calls at the end that differ from it.
* `RepeatsNeedAnotherHolds`, of `ExtSpec`. `AnomalyInv` adds that no row is newer than
  the stamp compared with before a sample is kept; that an entry is pushed off the list
  at its other end takes nothing from between two others.
* `OutagesAreRecordedHolds`, of `OutageSpec`. `OutageInv` relates the poller's counters,
  across its two steps, to the history (`truth`): the row it has open is the last of
  this run, begins after the last answer, and all others are closed before it.
* `IdsNameTheirRowsHolds`, of `RecordsSpec`. `IdsInv` adds that an id anybody holds is
  not above `sqlite_sequence`, so that a row inserted later cannot get it.
* `WholeReadingsHold`, of `ReadersSpec`. `ChargerInv` adds where the halves of a report
  may be (on the wire, in the line, in the kept status line), in which order, and how
  many may be missing between them; `BmsInv` that what the parser has buffered is the
  beginning of one response and the wire goes on where it ends. The first attempt at this
  proof failed for a reason: the property then counted only pieces lost on the line, and
  with longer reports a prompt that cuts a line in two had the effect of a second loss.
  The property now counts both. The proof needs `MaxLine > 2` (the code has 1024).
* `ForecastIsRecentHolds`, of `ForecastSpec`, for any ages of the caches with
  `CacheAge <= DbAge`. A start stamps what it finds as half of `CacheAge` old: the
  invariant bounds how much older than its stamp an answer can be.
* `BleTypes`, `NotForgottenHolds`, `NeverScansPastTargetHolds`, for any numbers of
  disturbances, proxies and messages. `BleInv` adds what carries a device in use on, for
  each state of its link (`Attached`): a call, an answer or a signal on its way, or a
  StartNotify whose answer has the last word; and what a manager without one does
  (`Detached`). Because the methods nest, each has a lemma about all its outcomes, and an
  action cites those of the methods it calls.

* `NoDoubleCountHolds`, `BooksAgreeHolds`, of `MeterSpec`. `MeterInv` relates what is
  booked to the times of the streams: with loads of at most 1 (`LightLoads`, a choice of
  the unit, the only hypothesis) the energy booked plus the time still to be integrated
  is at most the time that passed; the minutes of the charger are counted from those it
  was on; and the two books hold the same amounts, which move from the day and the hour
  into the archives by steps of their own.
* `RingsMatchWindowHolds`, of `TrendSpec`. `TrendInv` says that each ring, read from its
  head, is the end of what was pushed, so that a sum which loses the oldest sample and
  gains the newest stays the sum over it. That a charge which only rose is shown as "up"
  for any number of samples at any distances is Chebyshev's inequality between the two
  rising sequences, proved in `WindowProofs`.
* `TxEventsAreRunsHolds`, `OneSamplePerTxHolds`, `TxTypes`, of `TxSpec`. `TxInv` names
  all transmissions of what was heard in their order: the list is the end of that list,
  and the burst the run that has not ended. Each sample of the estimator has its own
  transmission; every event still listed whose transmission was weighed is struck off:
  the set drops only its oldest member, and only when it holds more than the list, so
  what it drops is older than all that is listed. A transmission that begins with a
  reading of the BMS gives no sample, because this reading is both the last before and
  the first during it. The first attempt at the second theorem failed for a reason: a
  sample is known by the time its transmission ended, and one that begins and ends within
  a single time stamp may share it with another. TLC then showed the statement to be false
  with 6 readings; the property now speaks of transmissions that last.
* `SolarAlternatesHolds`, `LogTypes`, of `LogSpec`. `LogInv` adds that what the store
  believes about the sun is what the last event of the kind on disk says, and what the
  last stored reading of the charger says. So a restart, whose replay logs nothing
  (`Quiet`) and ends at that reading (`Knows`), finds the belief again. An event that is
  dropped as a repetition cannot be one of these: the last one listed is never the one
  that is due (`TurnsDue`).

* The type invariants of the components of `monitor`, each of its own specification:
  `TxTypes`, `LogTypes`, `MeterTypes`, `AlertTypes`, `TrendTypes`, `ExtTypes`,
  `OutageTypes`, `ForecastTypes`, `StartupTypes`, `RecordsTypes`, `ReadersTypes`. What is
  in them beyond types: an alert about cells, temperature or efficiency costs points in
  the score, although the two judge by thresholds of their own (`AlertTypes`, with
  `Figures` for what the figures can be); the depth of discharge and the observed capacity
  stay in their ranges (`MeterTypes`; with `Percents` as hypothesis, that the BMS reports
  states of charge of at most 100, without which the depth has no bound); the threads of
  `Outage` stand where their code can stand (`Placed`); a configuration holds only what
  somebody gave (`StartupTypes`); no buffer of `Readers` outgrows its limit. The proof of
  `ReadersTypes` corrected a type: prompts and halves of reports had one range for their
  numbers, which with no reports to send was too small for a prompt. Each is proved
  together with the invariant of its component above.
* `ForecastTypes`, of `ForecastSpec`, for any lists in the order of time and any measured
  acceptance (`WeatherAssumption`: OpenWeather sends its slots in that order). `Sane` goes
  through the slots and the extended days one by one: the days are all different, what
  the battery takes is not more than what the panel gives, the level stays within the
  capacity; `Alike` goes through the nominal and the realistic pass side by side. What
  memory and database hold are answers the service gave (`WeatherInv`). The first attempt
  failed for a reason: the property said that the realistic week never exceeds the nominal
  one, but the handler makes two passes and each may ask the service, so they can be of
  different answers. The model had one answer for both; it has two now, TLC showed the
  old statement to be false with a second list, and the property compares weeks of the
  same answers (`answer.same`).
* `MonitorImplementsParts`, of the composed specification `MCMonitor!Spec`: it implements
  the specification of each component. The components share no variable, and each step
  is a step of one that leaves the others unchanged. So every theorem above carries over,
  and `MonitorTypes` (the run's `TypeOK`, with `Percents`) and `MonitorIsSafe` (its other
  twelve invariants and `AlertsAreDebounced`, with `LightLoads`) hold for all constants.

Induction over data is not within reach of the provers, but least elements of sets of
numbers are (`NatMin`, `UpTo` in `WindowProofs`), and so is a recursive function once
its existence is proved that way: this carries the sums (`SumSeq`), the replay of the
stored readings, the estimator's pass over the list and the days of a forecast.

Only model-checked is liveness: `RecoveryRestores`, `CheckerEndsLowTest`, `DueIsServed`,
`EveryCallReturns`, `Recovers`, `WindowsEnd`. TLAPS 1.4.5 proves no ENABLED and no
fairness. Every other property of a passing run is a theorem.

## 5. Findings

* `CrashLeavesRecord`: the relay is switched off up to 5 s before the test is on
  record (`src/http_server.cpp:286`).
* `LowBatteryRestoresGrid` and `TelemetryArrives`: both observers lock the store
  mutex that `DataStore::update` holds while it runs them (`src/main.cpp:524`, 556).
* `CapacityKnowsItsTest`: the test id is reset before it is stored
  (`src/testing/runner.cpp:231`, 257).
* `CommitIsDurable`: `synchronous=NORMAL` under a comment that says EXTRA
  (`src/database.cpp:107`).
* `OnePollTimer`: timers are removed from the wrong context, so the battery is
  polled more often than `poll_interval` says (`src/ble_manager_linux.cpp:353`).

Behaviour met while modelling that no line of the repository contradicts, so that
it is in the models and in no finding:

* A crash during an outage leaves its event open for ever; the banner never asks
  about it. An outage whose insert failed is not recorded at all, or closes the row
  of another one (`src/database.cpp:1593`).
* `POST /api/grid_events/{id}/classify` (`src/http_server.cpp:678`) cannot be reached: every
  method but GET is refused before it (571). The page posts to it.
* A request for both forecasts asks the service twice (`src/http_server.cpp:1032`): when the
  first pass got no answer the realistic week may be of newer data than the nominal one
  beside it, and exceed it.
* Error texts of the weather service are kept for `CACHE_SEC` and saved over the last
  good forecast; the fill-in of the acceptance profile is ignored by `acceptance_at_soc`.
* A setting saved by the page is overwritten with the old one by Enter in the terminal's
  dialog later in the same run (`src/main.cpp:153`). After the first start command line and
  config file count for nothing. settings.txt is rewritten in place and never read
  again once the database opens.
* A `/api/charger` body cut after `"valid": true` becomes a reading with zeros, and a
  stale one is stamped as new (`src/pwrgate_client.cpp:76`).
* `chg_low_current_count_` survives the time without a charger reading; the mode counts
  calls that differ from it, not calls that agree; the depth of discharge is -100 until
  the first charge level of a day.
* `insert_test_schedule` that fails answers "ok" with the id of another row;
  `update_test_run_notes` answers "ok" when no row matched.

## 6. Plan and limits

Done: GridTest, TestRunner with TestLedger, StoreLocks, DataStore, BleManager, the
components around the store, and the proofs of section 4. What could still be added:

1. A database connection that is stuck in a transaction after a failed commit, under
   the flush of DataStore (hazard at `src/database.cpp:545`).
2. `compute_next_run` over local time with its changes (hazard at
   `src/testing/runner.cpp:285`), and the end of the terminal UI (`src/main.cpp:775`).
3. Outage and GridTest composed, instead of a test that begins and ends at will.
4. Proofs: that the outages of `Outage` implement an abstract record of silences.

Not modelled, and why:

* HTML pages, JSON rendering, socket code, drawing in the terminal, logging: output.
* Arithmetic without state: estimates of runtime and time to full, battery stress,
  solar readiness (`analytics.cpp` 380-423, 512-561), the simulation of a solar day,
  `project_battery_soc`, the figures of the health queries.
* The decoding of single fields (numbers in a line, bytes of a response, the JSON of
  the weather service): `Readers` and `Forecast` treat a field as where it came from.
* `src/jbd_protocol.cpp` is compiled but nothing calls it; neither does anything call
  `insert_voltage_sag`, `get_test_min_voltage` and the long-term readers.
* Data races on plain members (`current_cloud_cover` of the forecast, the descriptor
  that `SerialReader::stop()` closes under its thread): the outcome is the compiler's.
* The macOS BLE manager: the daemon's target is Linux.
