-------------------------------- MODULE Startup --------------------------------
(***************************************************************************)
(* How the program finds its configuration: the config file, then the       *)
(* command line, then (once the schema is there) the settings of the        *)
(* database, into which the first start migrates them key by key; the       *)
(* dialog of the terminal and the web page save settings later; without a   *)
(* database settings go to settings.txt.  Every statement commits by        *)
(* itself, and the program may crash between any two.                       *)
(***************************************************************************)
EXTENDS Windows

CONSTANTS
  Plain,       \* keys whose value is the database's, empty or not,
  Sticky,      \* keys that keep what the start gave them when it has none,
  Fallback,    \* and keys that then get their default
  DeviceKeys,  \* device_address, device_name, serial_device, pwrgate_remote
  Daemon,      \* daemon_mode
  Order,       \* the order of migrate_and_load_config, and of the dialog
  Vals,        \* values of a key other than Daemon
  Sources,     \* what a config file or a command line may say
  Cuts,        \* after how many tables a migration may stop
  Starts, Saves    \* bounds of the model: starts, settings saved

Keys == Plain \union Sticky \union Fallback
None == ""
Bad == "bad"       \* what stoi or stod does not take
Values(k) == IF k = Daemon THEN {"0", "1"} ELSE Vals

ASSUME StartupAssumption ==
  /\ DeviceKeys \subseteq Plain /\ Daemon \in Plain \ DeviceKeys
  /\ Plain \intersect (Sticky \union Fallback) = {} /\ Sticky \intersect Fallback = {}
  /\ Order \in Seq(Keys) /\ Range(Order) = Keys /\ Len(Order) = Cardinality(Keys)
  /\ \A s \in Sources : /\ s \in [Keys -> Vals \union {None, Bad, "0", "1"}]
                        /\ s[Daemon] \in {None, "0", "1"}
  /\ None \notin Vals /\ Bad \notin Vals /\ {Starts, Saves} \subseteq Nat

VARIABLES
  file,     \* the database: tables made, settings, config_migrated, settings_initialized
  text,     \* settings.txt
  prog,     \* the process: where it is, its configuration, whether db_ is open
  promise   \* what the properties compare with: values the settings owe each key,
            \* keys saved by the page since this start; the counts of the bounds

startupVars == <<file, text, prog, promise>>

-----------------------------------------------------------------------------
CoreTables == <<"battery_readings", "charger_readings", "system_events", "ops_events",
                "settings", "weather_cache", "solar_performance", "weather_daily">>
TestTables == <<"test_runs", "test_telemetry", "battery_resistance", "battery_capacity_tests",
                "voltage_sag_samples", "charger_efficiency_samples", "test_schedules",
                "grid_events">>
Schema == CoreTables \o TestTables

\* members of Config
Defaults == [k \in Keys |-> IF k = Daemon THEN "0" ELSE IF k \in Plain THEN None ELSE "default"]

\* load_config_file: a number that does not parse leaves the key as it is
FromFile(source) == [k \in Keys |-> IF source[k] \in {None, Bad} THEN Defaults[k] ELSE source[k]]

\* parse_args
WithArgs(cfg, args) == [k \in Keys |-> IF args[k] = None THEN cfg[k] ELSE args[k]]

StartupInit ==
  /\ file = [made |-> 0, settings |-> [k \in Keys |-> None], migrated |-> FALSE, asked |-> FALSE]
  /\ text = [k \in Keys |-> None]
  /\ prog = [at |-> "down", cfg |-> Defaults, given |-> Defaults, open |-> FALSE, step |-> 0]
  /\ promise = [value |-> [k \in Keys |-> None], stale |-> {}, starts |-> 0, saves |-> 0]

-----------------------------------------------------------------------------
Launch(source, args) ==
  /\ prog.at = "down" /\ promise.starts < Starts
  /\ Bad \notin Range(args)                     \* stoul throws: the start ends here
  /\ LET cfg == WithArgs(FromFile(source), args)
     IN  prog' = [prog EXCEPT !.at = "opening", !.cfg = cfg, !.given = cfg]
  /\ promise' = [promise EXCEPT !.starts = @ + 1, !.stale = {}]
  /\ UNCHANGED <<file, text>>

\* Database::open and migrate: CREATE TABLE IF NOT EXISTS, one after another; when
\* one fails db_ is closed again, and the program runs without it
OpenDatabase(n) ==
  /\ prog.at = "opening" /\ n \in Cuts \union {Len(Schema)}
  /\ file' = [file EXCEPT !.made = IF n > @ THEN n ELSE @]
  /\ prog' = IF n = Len(Schema)
             THEN [prog EXCEPT !.open = TRUE, !.step = 1,
                               !.at = IF file.migrated THEN "loading" ELSE "migrating"]
             ELSE [prog EXCEPT !.at = "up"]
  /\ UNCHANGED <<text, promise>>

\* set_if_missing, one key a step; at last config_migrated
Migrate_FlagFirst ==           \* mutant: marked as migrated before the values are
  /\ prog.at = "migrating"
  /\ IF prog.step = 1 /\ ~file.migrated
     THEN /\ file' = [file EXCEPT !.migrated = TRUE]
          /\ promise' = [promise EXCEPT !.value = [k \in Keys |->
               IF file.settings[k] # None THEN file.settings[k] ELSE prog.given[k]]]
          /\ UNCHANGED <<text, prog>>
     ELSE IF prog.step <= Len(Order)
     THEN LET k == Order[prog.step]
          IN  /\ file' = [file EXCEPT !.settings[k] = IF @ = None THEN prog.cfg[k] ELSE @]
              /\ prog' = [prog EXCEPT !.step = @ + 1]
              /\ UNCHANGED <<text, promise>>
     ELSE prog' = [prog EXCEPT !.at = "loading"] /\ UNCHANGED <<file, text, promise>>
Migrate ==
  /\ prog.at = "migrating"
  /\ IF prog.step <= Len(Order)
     THEN LET k == Order[prog.step]
          IN  /\ file' = [file EXCEPT !.settings[k] = IF @ = None THEN prog.cfg[k] ELSE @]
              /\ prog' = [prog EXCEPT !.step = @ + 1]
              /\ UNCHANGED promise
     ELSE /\ file' = [file EXCEPT !.migrated = TRUE]
          /\ prog' = [prog EXCEPT !.at = "loading"]
          /\ promise' = [promise EXCEPT !.value = [k \in Keys |->
               IF file.settings[k] # None THEN file.settings[k] ELSE prog.given[k]]]
  /\ UNCHANGED text

\* the apply lambda
Applied(cfg) ==
  [k \in Keys |->
     IF k = Daemon THEN IF file.settings[k] = "1" THEN "1" ELSE "0"
     ELSE IF file.settings[k] # None \/ k \in Plain THEN file.settings[k]
     ELSE IF k \in Sticky THEN cfg[k] ELSE Defaults[k]]

needs_setup(cfg) == \A k \in DeviceKeys : cfg[k] = None

Load ==
  /\ prog.at = "loading"
  /\ LET cfg == Applied(prog.cfg)
     IN  prog' = [prog EXCEPT !.cfg = cfg, !.step = 1,
                    !.at = IF needs_setup(cfg) /\ cfg[Daemon] # "1" THEN "setup" ELSE "up"]
  /\ UNCHANGED <<file, text, promise>>

\* run_tui_settings: Enter saves what the prompt showed
Answer(k, answer) ==
  /\ prog.at \in {"setup", "dialog"} /\ prog.step <= Len(Order) /\ k = Order[prog.step]
  /\ \/ answer = None
     \/ answer = Bad /\ k \in Sticky                   \* where a number is asked for
     \/ answer \in Values(k) /\ promise.saves < Saves
  /\ LET v == IF answer = None THEN prog.cfg[k] ELSE answer
     IN  IF v \in {None, Bad}
         THEN prog' = [prog EXCEPT !.step = @ + 1] /\ UNCHANGED <<file, promise>>
         ELSE /\ prog' = [prog EXCEPT !.step = @ + 1, !.cfg[k] = v]
              /\ file' = [file EXCEPT !.settings[k] = v]
              /\ promise' = [promise EXCEPT !.value[k] = v, !.stale = @ \ {k},
                                            !.saves = IF answer = None THEN @ ELSE @ + 1]
  /\ UNCHANGED text

AnswersGiven ==
  /\ prog.at \in {"setup", "dialog"} /\ prog.step > Len(Order)
  /\ prog' = [prog EXCEPT !.at = "up", !.step = 0]
  /\ file' = [file EXCEPT !.asked = TRUE]
  /\ UNCHANGED <<text, promise>>

\* 's' in the terminal UI
OpenDialog ==
  /\ prog.at = "up" /\ prog.open /\ prog.cfg[Daemon] # "1" /\ promise.saves < Saves
  /\ prog' = [prog EXCEPT !.at = "dialog", !.step = 1]
  /\ UNCHANGED <<file, text, promise>>

\* a key of POST /api/settings: the configuration in memory stays as it is
SaveSetting(k, v) ==
  /\ prog.at \in {"up", "dialog"} /\ promise.saves < Saves
  /\ IF prog.open
     THEN /\ file' = [file EXCEPT !.settings[k] = v]
          /\ promise' = [promise EXCEPT !.saves = @ + 1, !.value[k] = v, !.stale = @ \union {k}]
          /\ UNCHANGED text
     ELSE /\ text' = [text EXCEPT ![k] = v]
          /\ promise' = [promise EXCEPT !.saves = @ + 1]
          /\ UNCHANGED file
  /\ UNCHANGED prog

\* write_setting_to_file truncates settings.txt before it writes it again
TornSave ==
  /\ prog.at = "up" /\ ~prog.open /\ promise.saves < Saves
  /\ text' = [k \in Keys |-> None]
  /\ prog' = [prog EXCEPT !.at = "down", !.open = FALSE]
  /\ UNCHANGED <<file, promise>>

\* the end of main, a signal or a crash
Stop ==
  /\ prog.at # "down"
  /\ prog' = [prog EXCEPT !.at = "down", !.open = FALSE, !.step = 0]
  /\ UNCHANGED <<file, text, promise>>

StartupNext ==
  \/ \E source, args \in Sources : Launch(source, args)
  \/ \E n \in 0..Len(Schema) : OpenDatabase(n)
  \/ Migrate
  \/ Load
  \/ \E k \in Keys, answer \in Vals \union {"0", "1", None, Bad} : Answer(k, answer)
  \/ AnswersGiven
  \/ OpenDialog
  \/ \E k \in Keys : \E v \in Values(k) \union {None} : SaveSetting(k, v)
  \/ TornSave
  \/ Stop

StartupSpec == StartupInit /\ [][StartupNext]_startupVars

-----------------------------------------------------------------------------
Configs == [Keys -> Vals \union {None, "default", "0", "1"}]

StartupTypeOK ==
  /\ file \in [made : 0..Len(Schema), settings : Configs, migrated : BOOLEAN, asked : BOOLEAN]
  /\ text \in Configs
  /\ prog \in [at : {"down", "opening", "migrating", "loading", "setup", "dialog", "up"},
               cfg : Configs, given : Configs, open : BOOLEAN, step : 0..Len(Order) + 1]
  /\ promise \in [value : Configs, stale : SUBSET Keys, starts : 0..Starts, saves : 0..Saves]

\* The database is the source of truth after the first run (README.md:88): a program
\* that runs with it has, for every key the first complete migration was given a value
\* for or a user has saved since, that very value, whatever its own command line says
\* and wherever earlier starts were cut short (migrate_and_load_config).  A value the
\* page saves takes effect at the next start only.
ConfigKept ==
  prog.open /\ prog.at \in {"setup", "dialog", "up"} =>
    \A k \in Keys : promise.value[k] # None /\ k \notin promise.stale =>
                      prog.cfg[k] = promise.value[k]
=============================================================================
