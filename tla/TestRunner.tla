----------------------------- MODULE TestRunner -----------------------------
(***************************************************************************)
(* testing::TestRunner (src/testing/runner.cpp) with its tables test_runs,  *)
(* test_telemetry and battery_capacity_tests, its callers in the HTTP       *)
(* server, and the scheduler of the maintenance thread.  Every method runs  *)
(* under the runner's mutex, so it is one action; the scheduler locks only  *)
(* inside the calls it makes, so it is several.                             *)
(*                                                                          *)
(* Abstractions: a telemetry sample is the id of its test; the battery is   *)
(* "good" (a test may start), "margin" (between the floors and the start    *)
(* margins), "danger" (a safety limit is broken) or "none" (no valid        *)
(* reading); timeUp is the maximal duration reached.  A row of test_runs is *)
(* "running", "finished" (by finish_test) or "swept" (by                    *)
(* abort_interrupted_tests): both of the latter have the result "aborted".  *)
(***************************************************************************)
EXTENDS Naturals, Sequences

CONSTANTS
  Kinds,       \* the test types
  Capacity,    \* the type battery_capacity
  Scheds,      \* the rows of test_schedules
  NoSched,     \* none of them
  BatchSize,   \* size of the telemetry buffer, 50 in the code
  MaxRuns, MaxSamples, MaxCrashes, MaxFaults   \* bounds of the model

ASSUME RunnerAssumption ==
  /\ Capacity \in Kinds /\ NoSched \notin Scheds
  /\ BatchSize \in Nat \ {0}
  /\ MaxRuns \in Nat /\ MaxSamples \in Nat /\ MaxCrashes \in Nat /\ MaxFaults \in Nat

VARIABLES
  up, dbOpen,          \* the process runs; the database is open
  running, cur, kind,  \* running_, current_test_id_, current_test_type_
  timeUp,              \* the maximal duration of the running test is over
  buf,                 \* telemetry_buffer_
  bat, maintenance,    \* store.latest(); setting maintenance_mode = "1"
  rows, tele, caps,    \* the three tables, by id or in order of insertion
  due,                 \* schedules with next_run_ts in the past
  scan,                \* the pass of check_scheduled_tests under way
  taken,               \* history: every sample captured
  ran,                 \* history: schedules whose present occurrence started a test
  lost,                \* history: samples the database did not take
  orphans,             \* history: rows whose run ended without a record
  crashes, faults

runner  == <<running, cur, kind, timeUp, buf>>
tables  == <<rows, tele, caps>>
world   == <<bat, maintenance>>
plan    == <<due, scan, ran>>
history == <<taken, lost, orphans>>
vars    == <<up, dbOpen, running, cur, kind, timeUp, buf, bat, maintenance, rows, tele, caps,
             due, scan, ran, taken, lost, orphans, crashes, faults>>

NoScan == [on |-> FALSE, todo |-> {}, seen |-> "none", started |-> NoSched]
Levels == {"good", "margin", "danger", "none"}
-----------------------------------------------------------------------------
Init ==
  /\ up = TRUE /\ dbOpen = TRUE
  /\ running = FALSE /\ cur = 0 /\ kind = Capacity /\ timeUp = FALSE /\ buf = <<>>
  /\ bat = "none" /\ maintenance = FALSE
  /\ rows = <<>> /\ tele = <<>> /\ caps = <<>>
  /\ due = {} /\ scan = NoScan /\ ran = {}
  /\ taken = <<>> /\ lost = 0 /\ orphans = {}
  /\ crashes = 0 /\ faults = 0

(* A BMS reading, and POST /api/maintenance/start and end.                  *)
Battery(b) ==
  /\ up /\ bat' = b
  /\ UNCHANGED <<up, dbOpen, runner, maintenance, tables, plan, history, crashes, faults>>

SetMaintenance ==
  /\ up /\ maintenance' = ~maintenance
  /\ UNCHANGED <<up, dbOpen, runner, bat, tables, plan, history, crashes, faults>>

CanStart_RunningUnchecked == up /\ dbOpen /\ bat = "good" /\ ~maintenance
(* start_test: the pre-flight checks and the row that is inserted.  When a  *)
(* check or the insertion fails nothing changes.                            *)
CanStart == up /\ ~running /\ dbOpen /\ bat = "good" /\ ~maintenance

StartTest(k) ==
  /\ CanStart /\ Len(rows) < MaxRuns
  /\ rows' = Append(rows, "running")
  /\ running' = TRUE /\ cur' = Len(rows) + 1 /\ kind' = k /\ timeUp' = FALSE
  /\ UNCHANGED <<up, dbOpen, buf, world, tele, caps, history, crashes, faults>>

HttpStart(k) == StartTest(k) /\ UNCHANGED plan

(* The database refuses a write that the runner does not check.             *)
Fault(bad) ==
  /\ bad # "none" => dbOpen /\ faults < MaxFaults
  /\ faults' = IF bad = "none" THEN faults ELSE faults + 1

Insert_OneShort(batch, bad) ==
  /\ tele' = tele \o SubSeq(batch, 1, Len(batch) - 1)
  /\ UNCHANGED lost
(* The telemetry batch goes to the table, or is gone: the buffer has been   *)
(* swapped out before.                                                      *)
Insert(batch, bad) ==
  IF dbOpen /\ bad # "telemetry"
  THEN tele' = tele \o batch /\ UNCHANGED lost
  ELSE lost' = lost + Len(batch) /\ UNCHANGED tele

FinishTest_NoFlush(measured, bad) ==
  /\ running /\ Fault(bad)
  /\ measured => kind = Capacity /\ dbOpen
  /\ running' = FALSE /\ cur' = 0
  /\ caps' = IF measured THEN Append(caps, cur') ELSE caps
  /\ IF dbOpen /\ bad # "row"
     THEN rows' = [rows EXCEPT ![cur] = "finished"] /\ UNCHANGED orphans
     ELSE orphans' = orphans \cup {cur} /\ UNCHANGED rows
  /\ UNCHANGED <<dbOpen, kind, timeUp, world, plan, taken, crashes, buf, tele, lost>>
(* finish_test: forgets the test, flushes its telemetry, stores a measured  *)
(* capacity with whatever current_test_id_ is by then, closes the row.      *)
FinishTest(measured, bad) ==
  /\ running /\ Fault(bad)
  /\ measured => kind = Capacity /\ dbOpen
  /\ running' = FALSE /\ cur' = 0
  /\ buf' = <<>> /\ Insert(buf, bad)
  /\ caps' = IF measured THEN Append(caps, cur') ELSE caps
  /\ IF dbOpen /\ bad # "row"
     THEN rows' = [rows EXCEPT ![cur] = "finished"] /\ UNCHANGED orphans
     ELSE orphans' = orphans \cup {cur} /\ UNCHANGED rows
  /\ UNCHANGED <<dbOpen, kind, timeUp, world, plan, taken, crashes>>

(* POST /api/tests/stop                                                     *)
HttpStop(measured, bad) == up /\ FinishTest(measured, bad) /\ UNCHANGED up

(* on_telemetry_tick: a broken limit or the maximal duration ends the test, *)
TickAbort(measured, bad) ==
  /\ up /\ (bat = "danger" \/ timeUp)
  /\ FinishTest(measured, bad) /\ UNCHANGED up

(* ... otherwise, every TELEMETRY_INTERVAL_SEC, a sample is captured, and   *)
(* a full buffer is written.                                                *)
TickSample(bad) ==
  /\ up /\ running /\ bat # "danger" /\ ~timeUp /\ Len(taken) < MaxSamples
  /\ Fault(bad) /\ bad # "row"
  /\ taken' = Append(taken, cur)
  /\ LET full == Append(buf, cur) IN
     IF Len(full) >= BatchSize
     THEN buf' = <<>> /\ Insert(full, bad)
     ELSE buf' = full /\ bad = "none" /\ UNCHANGED <<tele, lost>>
  /\ UNCHANGED <<up, dbOpen, running, cur, kind, timeUp, world, rows, caps, plan, orphans,
                 crashes>>

DurationOver ==
  /\ running /\ ~timeUp /\ timeUp' = TRUE
  /\ UNCHANGED <<up, dbOpen, running, cur, kind, buf, world, tables, plan, history, crashes,
                 faults>>
-----------------------------------------------------------------------------
(* Time makes a schedule due (again).                                       *)
BecomesDue(s) ==
  /\ s \notin due /\ due' = due \cup {s} /\ ran' = ran \ {s}
  /\ UNCHANGED <<up, dbOpen, runner, world, tables, scan, history, crashes, faults>>

(* check_scheduled_tests: no test is running and there is a valid reading;  *)
(* the schedules and that reading are kept for the whole pass.              *)
ScheduleScan ==
  /\ up /\ dbOpen /\ ~scan.on /\ ~running /\ bat # "none" /\ due # {}
  /\ scan' = [on |-> TRUE, todo |-> due, seen |-> bat, started |-> NoSched]
  /\ UNCHANGED <<up, dbOpen, runner, world, tables, due, ran, history, crashes, faults>>

ScheduleSkip_StaysDue(s) ==
  /\ up /\ scan.on /\ scan.started = NoSched /\ s \in scan.todo
  /\ scan.seen # "good" \/ ~CanStart \/ Len(rows) = MaxRuns
  /\ scan' = [scan EXCEPT !.todo = @ \ {s}]
  /\ UNCHANGED <<up, dbOpen, runner, world, tables, due, ran, history, crashes, faults>>
(* The reading or start_test itself says no, or the row cannot be inserted  *)
(* (the table has room for MaxRuns): the skip is recorded and the schedule  *)
(* moves on to its next run.                                                *)
ScheduleSkip(s) ==
  /\ up /\ scan.on /\ scan.started = NoSched /\ s \in scan.todo
  /\ scan.seen # "good" \/ ~CanStart \/ Len(rows) = MaxRuns
  /\ due' = due \ {s} /\ scan' = [scan EXCEPT !.todo = @ \ {s}]
  /\ UNCHANGED <<up, dbOpen, runner, world, tables, ran, history, crashes, faults>>

ScheduleStart(s, k) ==
  /\ scan.on /\ scan.started = NoSched /\ s \in scan.todo /\ scan.seen = "good"
  /\ StartTest(k)
  /\ scan' = [scan EXCEPT !.started = s] /\ ran' = ran \cup {s}
  /\ UNCHANGED due

ScheduleAdvance_NotSaved ==
  /\ up /\ scan.on /\ scan.started # NoSched
  /\ scan' = NoScan
  /\ UNCHANGED <<up, dbOpen, runner, world, tables, due, ran, history, crashes, faults>>
(* next_run_ts of the schedule that started a test; the pass ends there.    *)
ScheduleAdvance ==
  /\ up /\ scan.on /\ scan.started # NoSched
  /\ due' = due \ {scan.started} /\ scan' = NoScan
  /\ UNCHANGED <<up, dbOpen, runner, world, tables, ran, history, crashes, faults>>

ScheduleEnd ==
  /\ up /\ scan.on /\ scan.started = NoSched /\ scan.todo = {}
  /\ scan' = NoScan
  /\ UNCHANGED <<up, dbOpen, runner, world, tables, due, ran, history, crashes, faults>>
-----------------------------------------------------------------------------
(* The end of main(): the maintenance thread is joined, then the database   *)
(* is closed while readings may still arrive, ...                           *)
CloseDb ==
  /\ up /\ dbOpen /\ ~scan.on
  /\ dbOpen' = FALSE
  /\ UNCHANGED <<up, runner, world, tables, plan, history, crashes, faults>>

(* ... then ~TestRunner stops a running test.                               *)
Destroy ==
  /\ up /\ ~dbOpen /\ up' = FALSE
  /\ \/ FinishTest(FALSE, "none")
     \/ /\ ~running
        /\ UNCHANGED <<dbOpen, runner, world, tables, plan, history, crashes, faults>>

(* The process dies, possibly while it writes the buffer row by row.        *)
Die(pending, written) ==
  /\ up /\ crashes < MaxCrashes
  /\ up' = FALSE /\ dbOpen' = FALSE /\ crashes' = crashes + 1
  /\ tele' = tele \o SubSeq(pending, 1, IF dbOpen THEN written ELSE 0)
  /\ running' = FALSE /\ cur' = 0 /\ timeUp' = FALSE /\ buf' = <<>> /\ scan' = NoScan
  /\ orphans' = IF running THEN orphans \cup {cur} ELSE orphans
  /\ UNCHANGED <<kind, world, rows, caps, due, ran, lost, faults>>

Crash(written) ==
  /\ written \in 0..Len(buf) /\ Die(buf, written)
  /\ UNCHANGED taken

CrashInTick(written) ==
  /\ running /\ Len(buf) + 1 >= BatchSize /\ Len(taken) < MaxSamples
  /\ written \in 0..(Len(buf) + 1) /\ Die(Append(buf, cur), written)
  /\ taken' = Append(taken, cur)

Sweep_Never(opened) == rows' = rows
Sweep_Everything(opened) ==
  rows' = IF opened THEN [id \in DOMAIN rows |-> "swept"] ELSE rows
Sweep_OddResult(opened) ==
  rows' = IF opened
          THEN [id \in DOMAIN rows |-> IF rows[id] = "running" THEN "interrupted" ELSE rows[id]]
          ELSE rows
(* The constructor in the next process: abort_interrupted_tests.  Without a *)
(* database the runner starts no test.                                      *)
Sweep(opened) ==
  rows' = IF opened
          THEN [id \in DOMAIN rows |-> IF rows[id] = "running" THEN "swept" ELSE rows[id]]
          ELSE rows

Restart(opened) ==
  /\ ~up /\ up' = TRUE /\ dbOpen' = opened
  /\ Sweep(opened) /\ orphans' = IF opened THEN {} ELSE orphans
  /\ bat' = "none"
  /\ UNCHANGED <<runner, maintenance, tele, caps, plan, taken, lost, crashes, faults>>

Faults == {"none", "telemetry", "row"}

Next ==
  \/ \E b \in Levels : Battery(b)
  \/ SetMaintenance \/ DurationOver
  \/ \E k \in Kinds : HttpStart(k)
  \/ \E m \in BOOLEAN, bad \in Faults : HttpStop(m, bad) \/ TickAbort(m, bad)
  \/ \E bad \in Faults : TickSample(bad)
  \/ \E s \in Scheds : BecomesDue(s) \/ ScheduleSkip(s) \/ \E k \in Kinds : ScheduleStart(s, k)
  \/ ScheduleScan \/ ScheduleAdvance \/ ScheduleEnd
  \/ CloseDb \/ Destroy
  \/ \E w \in 0..BatchSize : Crash(w) \/ CrashInTick(w)
  \/ \E o \in BOOLEAN : Restart(o)

(* The maintenance thread makes its pass every minute.                      *)
Fairness ==
  /\ WF_vars(ScheduleScan) /\ WF_vars(ScheduleAdvance) /\ WF_vars(ScheduleEnd)
  /\ \A s \in Scheds : WF_vars(ScheduleSkip(s) \/ \E k \in Kinds : ScheduleStart(s, k))

Spec     == Init /\ [][Next]_vars
FairSpec == Spec /\ Fairness
-----------------------------------------------------------------------------
TypeOK ==
  /\ up \in BOOLEAN /\ dbOpen \in BOOLEAN /\ running \in BOOLEAN /\ timeUp \in BOOLEAN
  /\ cur \in Nat /\ kind \in Kinds /\ buf \in Seq(Nat)
  /\ bat \in Levels /\ maintenance \in BOOLEAN
  /\ rows \in Seq({"running", "finished", "swept"}) /\ tele \in Seq(Nat) /\ caps \in Seq(Nat)
  /\ due \in SUBSET Scheds /\ ran \in SUBSET Scheds
  /\ scan \in [on : BOOLEAN, todo : SUBSET Scheds, seen : Levels,
               started : Scheds \cup {NoSched}]
  /\ taken \in Seq(Nat) /\ lost \in Nat /\ orphans \in SUBSET Nat
  /\ crashes \in 0..MaxCrashes /\ faults \in 0..MaxFaults

OpenRows == {id \in DOMAIN rows : rows[id] = "running"}

(* A reader of test_runs who sees "running" while the process is up sees    *)
(* the test under way, or a row whose end the database refused or missed    *)
(* because it was closed: never a second test (start_test, finish_test,     *)
(* abort_interrupted_tests).                                                *)
OneOpenRow ==
  up => OpenRows = (IF running THEN {cur} ELSE {}) \cup orphans

(* The samples of one test never reach the table under the id of another,   *)
(* and none outlives its test in the buffer: the buffer is below its batch  *)
(* size, belongs to the running test, and, as long as the process lives and *)
(* the database takes what it is given, table and buffer are exactly what   *)
(* was captured, in order.                                                  *)
TelemetryIntact ==
  /\ Len(buf) < BatchSize
  /\ \A i \in DOMAIN buf : running /\ buf[i] = cur
  /\ crashes = 0 /\ lost = 0 => tele \o buf = taken

(* A crash costs at most one batch of samples.                              *)
LossBound == Len(taken) <= Len(tele) + Len(buf) + lost + crashes * BatchSize

(* A schedule that is still due has not started its test yet, except        *)
(* between start_test and the update of next_run_ts, or when the process    *)
(* died there.                                                              *)
DueRunsOnce == crashes = 0 => \A s \in due \cap ran : scan.on /\ scan.started = s

(* What finish_test wrote stays: the sweep of the next start and later      *)
(* tests leave an ended run alone.                                          *)
EndedIsFinal ==
  [][\A id \in DOMAIN rows : rows[id] # "running" => rows'[id] = rows[id]]_vars

(* Every due schedule is served, started or skipped with a reason, unless   *)
(* another test is running, there is no reading or no database.             *)
DueIsServed ==
  \A s \in Scheds :
    s \in due ~> (s \notin due \/ running \/ bat = "none" \/ ~up \/ ~dbOpen)

(* The runner keeps the promises of the ledger.                             *)
Ledger == INSTANCE TestLedger WITH
  status <- [id \in DOMAIN rows |-> IF rows[id] = "running" THEN "open" ELSE "closed"],
  live   <- IF running THEN cur ELSE 0
LedgerSpec == Ledger!LedgerSpec

(* insert_battery_capacity_test stores the id of the test that measured it. *)
CapacityKnowsItsTest == \A i \in DOMAIN caps : caps[i] \in DOMAIN rows
=============================================================================
