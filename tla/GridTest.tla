------------------------------ MODULE GridTest ------------------------------
(***************************************************************************)
(* The grid-off battery test of limonitor: a Shelly relay is switched off   *)
(* so that the battery carries the load, two settings remember that the     *)
(* test is running, and three parties are there to switch the grid on       *)
(* again: the user (POST /api/shelly/relay, one detached thread a request), *)
(* shelly::check_test_conditions (called by the maintenance thread of the   *)
(* daemon and by a store observer on the BLE thread) and the recovery       *)
(* thread that main() starts when it finds the settings of an interrupted   *)
(* test.                                                                    *)
(*                                                                          *)
(* Abstractions: the relay is a switch that applies a command, now, later   *)
(* or never; the state of charge is a class; the age of the start time is   *)
(* "recent" or "expired" (shelly_battery_test_max_hours); shelly_host and   *)
(* shelly_enabled are the one variable config.  A crash is the end of the   *)
(* process: what set_setting committed survives it.                         *)
(***************************************************************************)
EXTENDS Naturals

CONSTANTS
  Http,        \* the detached request threads of the HTTP server
  Maint,       \* the maintenance thread of main(), daemon mode
  Recovery,    \* the startup thread of main() that restores the grid
  MaxCrashes   \* bound of the model on the number of crashes

ASSUME ThreadAssumption ==
  /\ Maint \notin Http /\ Recovery \notin Http /\ Maint # Recovery
  /\ MaxCrashes \in Nat

VARIABLES
  up,          \* the process runs
  relay,       \* the real relay, outside the process
  testOff,     \* history: the relay is off because of a test
  late,        \* a command sent that the relay has not applied
  active,      \* setting shelly_test_active = "1"
  startTs,     \* setting shelly_test_start_ts
  config,      \* settings shelly_host and shelly_enabled
  soc,         \* what the store says of the battery, as far as the checks care
  storeStuck,  \* the BLE thread waits, inside update(), for the store mutex it holds
  op,          \* the relay operation of each thread: where it is, its command
  disturbed,   \* history: see WriteWindow below
  faulty,      \* chosen at the start: the path to the relay may fail
  crashes

outside == <<relay, testOff, late>>
flags   == <<active, startTs>>
battery == <<soc, storeStuck>>
gridVars ==
  <<up, relay, testOff, late, active, startTs, config, soc, storeStuck, op,
    disturbed, faulty, crashes>>

Threads  == Http \cup {Maint, Recovery}
Commands == {"on", "off", "offTest"}
Stages   == {"idle", "check", "send", "mode", "start", "snap", "failed"}
At(t, stage)      == op[t].at = stage
Does(stage, c)    == [at |-> stage, cmd |-> c]
Goto(t, stage, c) == op' = [op EXCEPT ![t] = Does(stage, c)]
Leave(t, stage)   == Goto(t, stage, "on")   \* its command does not matter any more

(* The battery calls for the end of the test: its charge is below           *)
(* shelly_battery_test_low_soc, or shelly_battery_test_auto has enough      *)
(* discharge data; or it does not.  It does not when there is no valid      *)
(* reading: soc is 0 then and the low-charge check is skipped.              *)
Charge   == {"end", "quiet"}

(* A relay operation sends the command first and writes the settings after. *)
(* It is in its window from the send to the last write.                     *)
WriteWindow == {"mode", "start"}
InWindow  == {t \in Threads : op[t].at \in WriteWindow}

(* What the settings must say when no operation is in its window.           *)
NetHolds  == /\ active <=> testOff
             /\ active <=> startTs # "none"
-----------------------------------------------------------------------------
GridInit ==
  /\ up = TRUE /\ relay = "on" /\ testOff = FALSE /\ late = "none"
  /\ active = FALSE /\ startTs = "none" /\ config = "enabled"
  /\ soc = "quiet" /\ storeStuck = FALSE
  /\ op = [t \in Threads |-> Does("idle", "on")]
  /\ disturbed = FALSE /\ faulty \in BOOLEAN /\ crashes = 0

(* The relay applies command c.                                             *)
Apply(c) ==
  /\ relay' = IF c = "on" THEN "on" ELSE "off"
  /\ testOff' = CASE c = "on" -> FALSE [] c = "offTest" -> TRUE [] c = "off" -> testOff

(* POST /api/shelly/relay with a reason; the host must be configured.       *)
HttpRelay(t, c) ==
  /\ up /\ At(t, "idle") /\ config # "none"
  /\ Goto(t, "send", c)
  /\ UNCHANGED <<up, outside, flags, config, battery, disturbed, faulty, crashes>>

(* POST /api/settings: the user edits shelly_host and shelly_enabled.       *)
SaveSettings(c) ==
  /\ up /\ config' = c
  /\ UNCHANGED <<up, outside, flags, battery, op,
    disturbed, faulty, crashes>>

(* The maintenance thread enters check_test_conditions: a test is active    *)
(* and Shelly is configured and enabled.                                    *)
MaintCheck ==
  /\ up /\ At(Maint, "idle") /\ active /\ config = "enabled"
  /\ Leave(Maint, "check")
  /\ UNCHANGED <<up, outside, flags, config, battery, disturbed, faulty, crashes>>

EndTest_HoursOnly == startTs = "expired"
(* Low charge, hours exceeded, or enough data for the estimate.             *)
EndTest == soc = "end" \/ startTs = "expired"

(* ... and goes on once it has the store mutex (analytics(), latest()).     *)
MaintDecide ==
  /\ up /\ At(Maint, "check") /\ ~storeStuck
  /\ Goto(Maint, IF EndTest THEN "send" ELSE "idle", "on")
  /\ UNCHANGED <<up, outside, flags, config, battery, disturbed, faulty, crashes>>

(* Connect, send, wait up to 5 s for any reply.  The request counts as done *)
(* when bytes were sent, whatever the relay does with them.                 *)
Sent(t) == IF op[t].cmd = "off" THEN Leave(t, "snap") ELSE Goto(t, "mode", op[t].cmd)

SendHeard(t) ==
  /\ up /\ At(t, "send") /\ (t \in Http \/ config # "none")
  /\ Sent(t)
  /\ Apply(op[t].cmd)
  /\ disturbed' = IF op[t].cmd = "off" THEN disturbed ELSE InWindow # {}
  /\ UNCHANGED <<up, late, flags, config, battery, faulty, crashes>>

SendUnheard(t) ==
  /\ up /\ At(t, "send") /\ (t \in Http \/ config # "none") /\ faulty
  /\ Sent(t)
  /\ late' = op[t].cmd
  /\ disturbed' = TRUE
  /\ UNCHANGED <<up, relay, testOff, flags, config, battery, faulty, crashes>>

(* No host any more, or no connection: nothing is written.  The recovery    *)
(* thread logs and ends; it does not try again.                             *)
SendFails(t) ==
  /\ up /\ At(t, "send")
  /\ faulty \/ (t \notin Http /\ config = "none")
  /\ Leave(t, IF t = Recovery THEN "failed" ELSE "idle")
  /\ UNCHANGED <<up, outside, flags, config, battery, disturbed, faulty, crashes>>

WriteActive_AnyOff(t) ==
  /\ up /\ At(t, "mode")
  /\ active' = TRUE
  /\ Goto(t, "start", op[t].cmd)
  /\ UNCHANGED <<up, outside, startTs, config, battery, disturbed, faulty, crashes>>
(* set_setting("shelly_test_active", ...)                                   *)
WriteActive(t) ==
  /\ up /\ At(t, "mode")
  /\ active' = (op[t].cmd = "offTest")
  /\ Goto(t, "start", op[t].cmd)
  /\ UNCHANGED <<up, outside, startTs, config, battery, disturbed, faulty, crashes>>

WriteStartTs_Zero(t) ==
  /\ up /\ At(t, "start")
  /\ startTs' = IF op[t].cmd = "offTest" THEN "recent" ELSE "0"
  /\ Leave(t, IF t \in Http THEN "snap" ELSE "idle")
  /\ UNCHANGED <<up, outside, active, config, battery, disturbed, faulty, crashes>>
(* set_setting("shelly_test_start_ts", ...)                                 *)
WriteStartTs(t) ==
  /\ up /\ At(t, "start")
  /\ startTs' = IF op[t].cmd = "offTest" THEN "recent" ELSE "none"
  /\ Leave(t, IF t \in Http THEN "snap" ELSE "idle")
  /\ UNCHANGED <<up, outside, active, config, battery, disturbed, faulty, crashes>>

(* The handler takes the store mutex for the snapshot of its ops event.     *)
Snapshot(t) ==
  /\ up /\ At(t, "snap") /\ ~storeStuck
  /\ Leave(t, "idle")
  /\ UNCHANGED <<up, outside, flags, config, battery, disturbed, faulty, crashes>>

(* DataStore::update on the BLE thread.  When the 60 s of the first         *)
(* observer are over it calls check_test_conditions under the store mutex,  *)
(* which locks that mutex again as soon as a test is active.                *)
BleUpdate(s, due) ==
  /\ up /\ ~storeStuck
  /\ soc' = s /\ storeStuck' = (due /\ active /\ config = "enabled")
  /\ UNCHANGED <<up, outside, flags, config, op,
    disturbed, faulty, crashes>>

(* Time passes beyond the maximal length of the test.                       *)
Expire ==
  /\ startTs = "recent" /\ startTs' = "expired"
  /\ UNCHANGED <<up, outside, active, config, battery, op,
    disturbed, faulty, crashes>>

(* The relay applies a command after the sender gave up waiting for it.     *)
LateArrival ==
  /\ late # "none" /\ Apply(late)
  /\ late' = "none" /\ disturbed' = TRUE
  /\ UNCHANGED <<up, flags, config, battery, op, faulty, crashes>>

Crash ==
  /\ up /\ crashes < MaxCrashes
  /\ up' = FALSE /\ crashes' = crashes + 1
  /\ op' = [t \in Threads |-> Does("idle", "on")]
  /\ disturbed' = (disturbed \/ InWindow # {})
  /\ UNCHANGED <<outside, flags, config, battery, faulty>>

Restart_NoRecovery ==
  /\ ~up /\ up' = TRUE
  /\ storeStuck' = FALSE /\ soc' \in {"quiet", soc}
  /\ UNCHANGED <<outside, flags, config, op,
    disturbed, faulty, crashes>>
(* main() after a crash: history is loaded, the recovery thread is started  *)
(* when the settings say so.                                                *)
Restart ==
  /\ ~up /\ up' = TRUE
  /\ storeStuck' = FALSE /\ soc' \in {"quiet", soc}
  /\ Leave(Recovery, IF active /\ config = "enabled" THEN "send" ELSE "idle")
  /\ UNCHANGED <<outside, flags, config, disturbed, faulty, crashes>>

GridNext ==
  \/ \E t \in Http, c \in Commands : HttpRelay(t, c)
  \/ \E c \in {"none", "disabled", "enabled"} : SaveSettings(c)
  \/ MaintCheck \/ MaintDecide
  \/ \E t \in Threads : \/ SendHeard(t) \/ SendUnheard(t) \/ SendFails(t)
                        \/ WriteActive(t) \/ WriteStartTs(t) \/ Snapshot(t)
  \/ \E s \in Charge, due \in BOOLEAN : BleUpdate(s, due)
  \/ Expire \/ LateArrival \/ Crash \/ Restart

(* Threads that hold the processor go on; systemd restarts the service; the *)
(* BMS answers and the user acts when they like.                            *)
GridFairness ==
  /\ WF_gridVars(MaintCheck) /\ WF_gridVars(MaintDecide) /\ WF_gridVars(Restart)
  /\ \A t \in Threads : /\ WF_gridVars(SendHeard(t) \/ SendUnheard(t) \/ SendFails(t))
                        /\ WF_gridVars(WriteActive(t) \/ WriteStartTs(t))
                        /\ WF_gridVars(Snapshot(t))

GridSpec == GridInit /\ [][GridNext]_gridVars
GridFairSpec == GridSpec /\ GridFairness
-----------------------------------------------------------------------------
GridTypeOK ==
  /\ up \in BOOLEAN /\ relay \in {"on", "off"} /\ testOff \in BOOLEAN
  /\ late \in Commands \cup {"none"}
  /\ active \in BOOLEAN /\ startTs \in {"none", "recent", "expired"}
  /\ config \in {"none", "disabled", "enabled"}
  /\ soc \in Charge /\ storeStuck \in BOOLEAN
  /\ op \in [Threads -> [at : Stages, cmd : Commands]]
  /\ disturbed \in BOOLEAN /\ faulty \in BOOLEAN /\ crashes \in 0..MaxCrashes

(* The safety net of a grid-off test (http_server.cpp relay handler,        *)
(* shelly_client.cpp, startup recovery): unless two relay operations        *)
(* overlapped, a crash cut one in its window or the relay did not do as     *)
(* told since the last undisturbed operation, the settings tell the truth:  *)
(* the grid is off for a test iff shelly_test_active is "1", and then, and  *)
(* only then, the start time that limits the test is known.                 *)
SafetyNet == ~disturbed /\ InWindow = {} => NetHolds

(* main.cpp startup recovery: after a crash with an active test on record   *)
(* the grid comes back, unless the user switches Shelly off in the          *)
(* settings, or the single attempt fails on a faulty path.                  *)
RecoveryRestores ==
  (~up /\ active /\ config = "enabled")
    ~> \/ relay = "on" \/ config # "enabled"
       \/ faulty /\ (At(Recovery, "failed") \/ late = "on")

(* check_test_conditions in the maintenance thread: a test that runs the    *)
(* battery low is ended, as long as the BLE thread has not locked the store *)
(* against itself, the charge stays low and the relay can be reached.       *)
CheckerEndsLowTest ==
  (active /\ config = "enabled" /\ soc = "end" /\ ~faulty)
    ~> (relay = "on" \/ ~active \/ config # "enabled" \/ soc # "end" \/ storeStuck)

(* The same without the escape for the locked store: what shelly_client.hpp *)
(* promises of check_test_conditions when it is called from the observer.   *)
LowBatteryRestoresGrid ==
  (active /\ config = "enabled" /\ soc = "end" /\ ~faulty)
    ~> (relay = "on" \/ ~active \/ config # "enabled" \/ soc # "end")

(* What the comment above the recovery code in main() says: a crash during  *)
(* a grid-off test leaves a record for the next start to restore the grid.  *)
CrashLeavesRecord == ~up /\ testOff => active
=============================================================================
