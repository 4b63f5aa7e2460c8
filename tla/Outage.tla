-------------------------------- MODULE Outage --------------------------------
(***************************************************************************)
(* Grid outages and maintenance windows.  The poll loop of HttpServer asks  *)
(* the Shelly switch, takes its silence for an outage unless a test or a    *)
(* window excuses it, and writes grid_events; requests open and close       *)
(* windows; the maintenance thread of main closes one that lasts too long.  *)
(* The three threads share settings, written one at a time, and the         *)
(* program may crash between any two writes.                                *)
(*                                                                          *)
(* Time is in units of 10 s; a row of grid_events is known by its place.    *)
(***************************************************************************)
EXTENDS Windows

CONSTANTS
  Timeout,     \* maintenance_auto_timeout_minutes
  MaxTime,     \* bounds of the model: the clock (polls go on without it),
  UserActs,    \* requests,
  MaxEventsG,  \* outages logged,
  Crashes      \* and crashes

ASSUME OutageAssumption ==
  {Timeout, MaxTime, UserActs, MaxEventsG, Crashes} \subseteq Nat /\ Timeout > 0

VARIABLES
  set,       \* settings: maintenance_mode, maintenance_start_time (0: none), shelly_test_active
  events,    \* the table grid_events
  ops,       \* the table ops_events
  poller,    \* members of HttpServer the poll loop uses, and the answer in hand
  request,   \* the request being handled
  guard,     \* the maintenance thread
  clock,
  truth      \* what the properties compare with: see OutageInit

outageVars == <<set, events, ops, poller, request, guard, clock, truth>>

-----------------------------------------------------------------------------
\* shelly::get_status: what the requests for the Gen2 status, and then for the
\* relay and the meter of a Gen1 device, bring back.  Any text counts as an answer.
Status(gen2, relay, meter) ==
  IF gen2 \in {"on", "off"} THEN [ok |-> TRUE, on |-> gen2 = "on"]
  ELSE IF relay = "" /\ meter = "" THEN [ok |-> FALSE, on |-> FALSE]
  ELSE [ok |-> TRUE, on |-> relay = "on"]

Replies ==     \* Gen2; Gen1; Gen1 of which only the meter answered; nobody
  {<<"on", "", "">>, <<"off", "", "">>, <<"", "on", "w">>, <<"", "", "w">>, <<"", "", "">>}

NewPoller == [pc |-> "sleep", st |-> Status("", "", ""), due |-> 1, fails |-> 0,
              active |-> 0, since |-> 0, wasOn |-> FALSE]

\* insert_grid_event: a row and its id, 0 when the statement cannot be prepared,
\* and the id of some earlier INSERT of the connection when it fails later on
Inserted(id) == IF id = 0 THEN "none" ELSE IF id > Len(events) THEN "row" ELSE "stale"
InsertIds == {Len(events) + 1, 0} \union (IF Len(events) > 0 THEN {1} ELSE {})

CloseRow(id) == IF id \in DOMAIN events THEN [events EXCEPT ![id].end = clock.now] ELSE events

\* load_unclassified_grid_events: the ids of what the banner asks for
Unclassified(rows) == {i \in DOMAIN rows : rows[i].cls = "unclassified" /\ rows[i].end > 0}

OutageInit ==
  /\ set = [mode |-> FALSE, start |-> 0, test |-> FALSE]
  /\ events = <<>> /\ ops = <<>>
  /\ poller = NewPoller
  /\ request = [pc |-> "none", n |-> 0, at |-> 0]
  /\ guard = "sleep"
  /\ clock = [now |-> 1, crashes |-> 0]
  /\ truth = [counted |-> 0,      \* failures counted since the last answer
              lastOk |-> 0,       \* when the last answer came in
              first |-> 1,        \* the first row this run of the program may write
              missed |-> FALSE,   \* an INSERT of this outage failed
              stale |-> FALSE,    \* and gave the id of another row
              cut |-> FALSE]      \* a crash cut the first start of a window in two

Tick == /\ clock.now < MaxTime
        /\ clock' = [clock EXCEPT !.now = @ + 1]
        /\ UNCHANGED <<set, events, ops, poller, request, guard, truth>>

\* shelly_poll_loop: ask, and keep the answer for the requests
PollAsk ==
  /\ poller.pc = "sleep" /\ (clock.now >= poller.due \/ clock.now = MaxTime)
  /\ \E r \in Replies :
       LET st == Status(r[1], r[2], r[3]) IN
       /\ poller' = [poller EXCEPT !.pc = "decide", !.st = st,
                                   !.wasOn = @ \/ (st.ok /\ st.on),
                                   !.due = clock.now + (IF st.ok THEN 3 ELSE 1)]
       /\ truth' = [truth EXCEPT !.lastOk = IF st.ok THEN clock.now ELSE @]
  /\ UNCHANGED <<set, events, ops, request, guard, clock>>

Excused == set.test \/ set.mode

\* shelly_poll_loop: with the settings as they are by now
PollFailed ==
  /\ poller.pc = "decide" /\ ~poller.st.ok
  /\ IF Excused
     THEN poller' = [poller EXCEPT !.pc = "sleep"] /\ UNCHANGED <<events, truth>>
     ELSE IF poller.fails + 1 = 2 /\ poller.active = 0 /\ poller.wasOn
     THEN \E id \in InsertIds :
            /\ Len(events) < MaxEventsG
            /\ poller' = [poller EXCEPT !.pc = "sleep", !.fails = 2, !.active = id, !.since = clock.now]
            /\ events' = IF Inserted(id) = "row"
                         THEN Append(events, [start |-> clock.now, end |-> 0, cls |-> "unclassified"])
                         ELSE events
            /\ truth' = [truth EXCEPT !.counted = 2, !.missed = Inserted(id) # "row",
                                      !.stale = @ \/ Inserted(id) = "stale"]
     ELSE /\ poller' = [poller EXCEPT !.pc = "sleep", !.fails = Min({@ + 1, 3})]
          /\ truth' = [truth EXCEPT !.counted = Min({@ + 1, 3})]
          /\ UNCHANGED events
  /\ UNCHANGED <<set, ops, request, guard, clock>>

AnswerIn_KeepsCount(p) ==     \* mutant: only the event is reset
  [p EXCEPT !.pc = "sleep", !.active = 0, !.since = 0]
AnswerIn(p) == [p EXCEPT !.pc = "sleep", !.active = 0, !.since = 0, !.fails = 0]

PollAnswered ==
  /\ poller.pc = "decide" /\ poller.st.ok
  /\ events' = IF poller.active > 0 THEN CloseRow(poller.active) ELSE events
  /\ poller' = AnswerIn(poller)
  /\ truth' = [truth EXCEPT !.counted = 0, !.missed = FALSE]
  /\ UNCHANGED <<set, ops, request, guard, clock>>

-----------------------------------------------------------------------------
\* The handlers of HttpServer, one setting at a time
Idle == request.pc = "none" /\ request.n < UserActs
Log(type, subtype) == ops' = Append(ops, [type |-> type, subtype |-> subtype])

\* POST /api/maintenance/start
StartWindow ==
  /\ Idle /\ clock.now + Timeout <= MaxTime
  /\ request' = [pc |-> "time", n |-> request.n + 1, at |-> clock.now]
  /\ set' = [set EXCEPT !.mode = TRUE]
  /\ UNCHANGED <<events, ops, poller, guard, clock, truth>>
StartTime_Forgotten == set         \* mutant: the window has no start
StartTime == [set EXCEPT !.start = request.at]
StartWindowTime ==
  /\ request.pc = "time" /\ request' = [request EXCEPT !.pc = "log start"]
  /\ set' = StartTime
  /\ UNCHANGED <<events, ops, poller, guard, clock, truth>>

\* POST /api/maintenance/end, whether a window is open or not
EndWindow ==
  /\ Idle /\ request' = [request EXCEPT !.pc = "log end", !.n = @ + 1]
  /\ set' = [set EXCEPT !.mode = FALSE]
  /\ UNCHANGED <<events, ops, poller, guard, clock, truth>>

LogRequest ==
  /\ request.pc \in {"log start", "log end"} /\ request' = [request EXCEPT !.pc = "none", !.at = 0]
  /\ Log(IF request.pc = "log start" THEN "maintenance_start" ELSE "maintenance_end", "maintenance")
  /\ UNCHANGED <<set, events, poller, guard, clock, truth>>

\* POST /api/note
WriteNote ==
  /\ Idle /\ request' = [request EXCEPT !.n = @ + 1] /\ Log("note", "")
  /\ UNCHANGED <<set, events, poller, guard, clock, truth>>

\* POST /api/event/reclassify: a row that is not there is no error
Reclassify ==
  /\ Idle /\ request' = [request EXCEPT !.n = @ + 1]
  /\ \E id \in 1..2 : ops' = [i \in DOMAIN ops |-> IF i = id THEN [ops[i] EXCEPT !.subtype = "test"]
                                                  ELSE ops[i]]
  /\ UNCHANGED <<set, events, poller, guard, clock, truth>>

\* A test of the relay begins or ends (GridTest)
TestSwitches ==
  /\ Idle /\ request' = [request EXCEPT !.n = @ + 1]
  /\ set' = [set EXCEPT !.test = ~@]
  /\ UNCHANGED <<events, ops, poller, guard, clock, truth>>

-----------------------------------------------------------------------------
\* main: the maintenance thread reads the mode, then the start of the window
GuardMode ==
  /\ guard = "sleep" /\ set.mode /\ guard' = "start"
  /\ UNCHANGED <<set, events, ops, poller, request, clock, truth>>
GuardStart ==
  /\ guard = "start"
  /\ guard' = IF set.start > 0 /\ clock.now - set.start >= Timeout THEN "end" ELSE "sleep"
  /\ UNCHANGED <<set, events, ops, poller, request, clock, truth>>
GuardEnds ==
  /\ guard = "end" /\ guard' = "log"
  /\ set' = [set EXCEPT !.mode = FALSE]
  /\ UNCHANGED <<events, ops, poller, request, clock, truth>>
GuardLogs ==
  /\ guard = "log" /\ guard' = "sleep"
  /\ Log("maintenance_end", "maintenance")
  /\ UNCHANGED <<set, events, poller, request, clock, truth>>

CrashAndStart ==
  /\ clock.crashes < Crashes
  /\ clock' = [clock EXCEPT !.crashes = @ + 1]
  /\ poller' = [NewPoller EXCEPT !.due = clock.now] /\ request' = [request EXCEPT !.pc = "none", !.at = 0]
  /\ guard' = "sleep"
  /\ truth' = [truth EXCEPT !.counted = 0, !.missed = FALSE, !.first = Len(events) + 1,
                            !.cut = @ \/ (request.pc = "time" /\ set.start = 0)]
  /\ UNCHANGED <<set, events, ops>>

Requests == StartWindow \/ StartWindowTime \/ EndWindow \/ LogRequest \/ WriteNote \/ Reclassify
            \/ TestSwitches
GuardSteps == GuardMode \/ GuardStart \/ GuardEnds \/ GuardLogs
PollSteps == PollAsk \/ PollFailed \/ PollAnswered

OutageNext == Tick \/ PollSteps \/ Requests \/ GuardSteps \/ CrashAndStart

OutageSpec == OutageInit /\ [][OutageNext]_outageVars

-----------------------------------------------------------------------------
OutageTypeOK ==
  /\ poller.pc \in {"sleep", "decide"} /\ guard \in {"sleep", "start", "end", "log"}
  /\ request.pc \in {"none", "time", "log start", "log end"}
  /\ poller.active \in 0..MaxEventsG /\ Len(events) <= MaxEventsG

\* Two silences in a row that nothing excuses, from a switch that was seen on,
\* are an outage, and it is on record, once: the rows of this run of the
\* program are all closed except that of an outage that still lasts; in the
\* order they were written they do not overlap, and no answer of the switch
\* falls into one.  Closed ones are what the banner asks the user about.
\* (An INSERT that fails loses the outage, and may close a stranger's row.)
OutagesAreRecorded ==
  /\ truth.counted >= 2 /\ poller.wasOn /\ ~truth.missed /\ ~(poller.pc = "decide" /\ poller.st.ok) =>
       poller.active > 0
  /\ ~truth.stale =>
       LET mine == truth.first .. Len(events) IN
       /\ \A i \in mine : events[i].end = 0 => i = poller.active
       /\ \A i \in mine : i > truth.first => events[i].start >= events[i - 1].end
       /\ poller.active > 0 =>
            truth.lastOk <= events[poller.active].start \/ (poller.pc = "decide" /\ poller.st.ok)
       /\ Unclassified(events) = {i \in DOMAIN events : events[i].end > 0}

\* A window that somebody forgets ends by itself, whatever the requests and the
\* maintenance thread do to one another's settings: without it no outage is
\* noticed any more.  Only when a crash cuts the very first start of a window in
\* two the mode is left on with no start to count from.
WindowsEnd == set.mode ~> (~set.mode \/ truth.cut)
=============================================================================
