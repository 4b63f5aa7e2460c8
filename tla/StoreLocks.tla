----------------------------- MODULE StoreLocks -----------------------------
(***************************************************************************)
(* The three mutexes that the threads of limonitor share, DataStore::mu_,   *)
(* TestRunner::mu_ and Database::mu_, and the order in which the operations *)
(* of each thread take them.                                                *)
(*                                                                          *)
(* An operation is a program: the sequence of locks and unlocks its code    *)
(* goes through, with a Branch where the path depends on whether a test     *)
(* runs (the flag is read when the program gets there) and a Choice where   *)
(* it depends on data that is not modelled: a timer, the charge, an input.  *)
(* The observers of DataStore::update run under DataStore::mu_.  No mutex   *)
(* of limonitor is recursive: a thread that locks the one it holds waits    *)
(* for itself.                                                              *)
(***************************************************************************)
EXTENDS Naturals, Sequences

CONSTANTS
  Ble,          \* the GLib thread of the BLE manager (with --no-ble one of Others)
  Maint,        \* the maintenance thread of main()
  Others,       \* the serial reader, the Shelly poller, main() at its end, and
                \* the detached request threads: any of them runs any of theirs
  Nobody,       \* holds a free mutex
  Deployments   \* the ways of running limonitor that are looked at:
                \* "monitor": BLE readings, nobody starts or schedules a test
                \* "bench": --no-ble, with tests;  "full": both

ASSUME LocksAssumption ==
  /\ Deployments \subseteq {"monitor", "bench", "full"}
  /\ Nobody \notin Others \cup {Ble, Maint}

Threads == Others \cup {Ble, Maint}
Mutexes == {"store", "runner", "db"}
Flags   == {"grid",   \* setting shelly_test_active = "1", Shelly configured
            "test"}   \* running_ of the test runner

VARIABLES
  deployed, \* chosen at the start
  todo,    \* todo[t]: what is left of the operation of thread t
  holder,  \* holder[m]: the thread that holds mutex m
  flag
vars == <<deployed, todo, holder, flag>>
-----------------------------------------------------------------------------
(* The steps of programs.                                                   *)
Lock(m)             == <<[do |-> "lock",   what |-> m, yes |-> <<>>, no |-> <<>>]>>
Unlock(m)           == <<[do |-> "unlock", what |-> m, yes |-> <<>>, no |-> <<>>]>>
TurnOn(f)           == <<[do |-> "on",     what |-> f, yes |-> <<>>, no |-> <<>>]>>
TurnOff(f)          == <<[do |-> "off",    what |-> f, yes |-> <<>>, no |-> <<>>]>>
Branch(f, yes, no)  == <<[do |-> "branch", what |-> f, yes |-> yes,  no |-> no]>>
Choice(yes, no)     == <<[do |-> "choice", what |-> "", yes |-> yes, no |-> no]>>
Locked(m, body)     == Lock(m) \o body \o Unlock(m)

StoreRead == Locked("store", <<>>)   \* latest(), analytics(), tx_events(), ...

DbCall_Reports == Locked("db", StoreRead)
(* Every public method of Database locks its mutex and calls nobody.        *)
DbCall == Locked("db", <<>>)

(* TestRunner.  finish_test runs under the mutex of its caller.             *)
FinishTest == TurnOff("test") \o DbCall \o StoreRead \o DbCall \o DbCall
Tick       == Locked("runner", Branch("test", Choice(FinishTest, Choice(DbCall, <<>>)), <<>>))
StopTest   == Locked("runner", Branch("test", FinishTest, <<>>))
StartTest_DbFirst ==
  Locked("db", Locked("runner", Branch("test", <<>>, StoreRead \o TurnOn("test"))))
StartTest  == Locked("runner",
                Branch("test", <<>>,
                       StoreRead \o Choice(DbCall \o DbCall \o TurnOn("test"), <<>>)))
IfRunning(yes, no) ==    \* is_running(), then what the caller does
  Lock("runner") \o Branch("test", Unlock("runner") \o yes, Unlock("runner") \o no)

(* shelly::check_test_conditions                                            *)
CheckConditions ==
  DbCall \o Branch("grid", DbCall \o StoreRead \o StoreRead \o DbCall
                             \o Choice(DbCall \o TurnOff("grid"), <<>>),
                   <<>>)

(* The two observers main() registers.                                      *)
MaintenanceObserver == Choice(CheckConditions, <<>>) \o Choice(DbCall, <<>>)
TelemetryObserver   == IfRunning(StoreRead \o StoreRead \o Tick, <<>>)

ChargerView_Public == StoreRead
(* update() reads the charger with latest_pwrgate_locked(), without a lock. *)
ChargerView == <<>>

(* DataStore::update and update_pwrgate, set_ble_state.                     *)
Update        == Locked("store", ChargerView \o Choice(DbCall, <<>>)
                                   \o MaintenanceObserver \o TelemetryObserver)
UpdatePwrgate == Locked("store", Choice(DbCall, <<>>))

(* check_scheduled_tests                                                    *)
Scheduled ==
  IfRunning(<<>>,
            DbCall \o StoreRead \o Choice(DbCall \o DbCall, Choice(StartTest \o DbCall, <<>>)))

(* The request handlers: the dashboard, a relay command, tests.             *)
Dashboard == StoreRead \o DbCall \o Choice(StoreRead, <<>>)
RelayTest == DbCall \o TurnOn("grid") \o StoreRead \o DbCall
RelayOn   == DbCall \o TurnOff("grid") \o StoreRead \o DbCall
TestStart == IfRunning(<<>>, StartTest)

(* The other parts of a maintenance pass (timeout of the maintenance mode;  *)
(* checkpoint, cleanup, backup), a pass of shelly_poll_loop, the end of     *)
(* main().                                                                  *)
Housekeeping == Choice(DbCall \o StoreRead, <<>>) \o DbCall
PollPass  == DbCall \o Choice(StoreRead \o DbCall, <<>>)
Shutdown  == Locked("store", DbCall) \o DbCall

HasBle   == deployed \in {"monitor", "full"}
HasTests == deployed \in {"bench", "full"}

(* What a thread runs, again and again.                                     *)
Jobs(t) ==
  IF t = Ble /\ HasBle THEN {Update, StoreRead}
  ELSE IF t = Maint THEN {CheckConditions, Housekeeping} \cup IF HasTests THEN {Scheduled} ELSE {}
  ELSE {UpdatePwrgate, PollPass, Shutdown, Dashboard, RelayOn}
         \cup IF HasTests THEN {RelayTest, TestStart, StopTest} ELSE {}
-----------------------------------------------------------------------------
Init ==
  /\ deployed \in Deployments
  /\ todo = [t \in Threads |-> <<>>]
  /\ holder = [m \in Mutexes |-> Nobody]
  /\ flag = [f \in Flags |-> FALSE]

Runs(t, do) == todo[t] # <<>> /\ Head(todo[t]).do = do
Object(t)   == Head(todo[t]).what
GoOn(t, first) == todo' = [todo EXCEPT ![t] = first \o Tail(@)]

Begin(t, job) ==
  /\ todo[t] = <<>> /\ todo' = [todo EXCEPT ![t] = job]
  /\ UNCHANGED <<deployed, holder, flag>>

Acquire(t) ==
  /\ Runs(t, "lock") /\ holder[Object(t)] = Nobody
  /\ holder' = [holder EXCEPT ![Object(t)] = t] /\ GoOn(t, <<>>)
  /\ UNCHANGED <<deployed, flag>>

Release_Late(t) ==
  /\ Runs(t, "unlock") /\ GoOn(t, <<>>)
  /\ holder' = [holder EXCEPT ![Object(t)] = IF Object(t) = "db" THEN @ ELSE Nobody]
  /\ UNCHANGED <<deployed, flag>>
Release(t) ==
  /\ Runs(t, "unlock")
  /\ holder' = [holder EXCEPT ![Object(t)] = Nobody] /\ GoOn(t, <<>>)
  /\ UNCHANGED <<deployed, flag>>

Turn(t) ==
  /\ Runs(t, "on") \/ Runs(t, "off")
  /\ flag' = [flag EXCEPT ![Object(t)] = Runs(t, "on")] /\ GoOn(t, <<>>)
  /\ UNCHANGED <<deployed, holder>>

Decide(t) ==
  \/ /\ Runs(t, "branch")
     /\ GoOn(t, IF flag[Object(t)] THEN Head(todo[t]).yes ELSE Head(todo[t]).no)
     /\ UNCHANGED <<deployed, holder, flag>>
  \/ /\ Runs(t, "choice")
     /\ GoOn(t, Head(todo[t]).yes) \/ GoOn(t, Head(todo[t]).no)
     /\ UNCHANGED <<deployed, holder, flag>>

Next == \E t \in Threads :
  \/ \E job \in Jobs(t) : Begin(t, job)
  \/ Acquire(t) \/ Release(t) \/ Turn(t) \/ Decide(t)

(* A thread that can run runs; a thread that asks for a mutex gets it when  *)
(* it is free again and again.                                              *)
Fairness == \A t \in Threads : /\ WF_vars(Release(t) \/ Turn(t) \/ Decide(t))
                               /\ SF_vars(Acquire(t))

Spec     == Init /\ [][Next]_vars
FairSpec == Spec /\ Fairness
-----------------------------------------------------------------------------
TypeOK ==
  /\ deployed \in Deployments
  /\ holder \in [Mutexes -> Threads \cup {Nobody}] /\ flag \in [Flags -> BOOLEAN]
  /\ DOMAIN todo = Threads
  /\ \A t \in Threads : todo[t] = <<>> => \A m \in Mutexes : holder[m] # t

WaitsFor(t, u) == Runs(t, "lock") /\ holder[Object(t)] = u

(* The threads never come to wait in a circle, alone or with each other,    *)
(* for the mutexes of the store, the runner and the database.               *)
NoWaitCycle ==
  \A S \in (SUBSET Threads) \ {{}} : \E t \in S : \A u \in S : ~WaitsFor(t, u)

(* Every operation a thread begins comes to its end: readings, requests,    *)
(* the maintenance pass and the shutdown of main().                         *)
EveryCallReturns == \A t \in Threads : todo[t] # <<>> ~> todo[t] = <<>>

(* What main() says of the second observer, "live telemetry": a reading     *)
(* that arrives while the runner runs a test, and no grid-off test, gets    *)
(* through the observer.                                                    *)
TelemetryArrives == flag["test"] /\ ~flag["grid"] => ~WaitsFor(Ble, Ble)
=============================================================================
