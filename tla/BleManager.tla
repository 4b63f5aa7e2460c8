----------------------------- MODULE BleManager -----------------------------
(***************************************************************************)
(* BleManager on Linux (ble_manager_linux.cpp): one GLib thread that finds  *)
(* the battery through BlueZ, connects, looks up its characteristics, turns *)
(* on notifications and polls, and that starts over, by a timer, whenever   *)
(* something fails.  Each callback of GLib is one action, the D-Bus calls   *)
(* it waits for included; BlueZ answers the others later, and what it sends *)
(* is dispatched in the order sent.                                         *)
(*                                                                          *)
(* Timers are never cancelled: g_source_remove looks for its source in the  *)
(* default context, and the timers are attached to gctx.  A device proxy    *)
(* that is overwritten keeps its signal handler.  There is one battery in   *)
(* reach at most; answers to WriteValue change nothing, and send() and its  *)
(* queue have no caller in the program.  The end of the thread (stop) is    *)
(* left out.                                                                *)
(***************************************************************************)
EXTENDS Naturals, Sequences, FiniteSets

CONSTANTS
  MaxTargeted,     \* bounds of the model on how often something goes wrong
  MaxUntargeted    \* or the user picks a device, with and without a target

ASSUME BleAssumption == MaxTargeted \in Nat /\ MaxUntargeted \in Nat

VARIABLES
  target,    \* chosen at the start: target is not empty and fits the battery
  objMgr,    \* obj_mgr is there
  seen,      \* the battery is among the objects of obj_mgr
  m,         \* the members of Impl, the sources of its context, its calls
  link,      \* BlueZ: the connection to the battery
  inbox      \* what BlueZ sent and the thread has not dispatched

vars == <<target, objMgr, seen, m, link, inbox>>

Members ==
  [state : {"disconnected", "scanning", "connecting", "discovering", "ready", "error"},
   dev : Nat,            \* device_proxy, 0 for none
   hooked : SUBSET Nat,  \* the proxies whose signals call cb_device_props
   chars : BOOLEAN,      \* notify_char and write_char
   path : BOOLEAN,       \* device_path is not empty
   listed : BOOLEAN,     \* the battery is in the list of the device picker
   picked : Nat,         \* calls of connect_to not yet dispatched
   retries : Nat,        \* reconnect timers running
   polls : Nat,          \* poll timers running
   connects : Nat,       \* calls of Connect not answered
   notifies : Nat,       \* calls of StartNotify not answered
   scan : {"off", "on", "refused"},   \* the discovery BlueZ makes for us
   disturbed : Nat]      \* how often something went wrong or the user picked

Messages == [kind : {"connected", "refused", "notifying", "mute"}]
              \cup [kind : {"resolved", "lost"}, to : Nat]
-----------------------------------------------------------------------------
(* What the methods make of the members: the set of possible outcomes.      *)

(* A number for a new device proxy, one that nothing refers to.             *)
New(s) ==
  LET used == s.hooked \cup
              {inbox[i].to : i \in {j \in DOMAIN inbox : inbox[j].kind \in {"resolved", "lost"}}}
  IN  CHOOSE p \in 1..(Cardinality(used) + 1) : p \notin used

(* s, when something outside goes wrong or the user interferes.             *)
Disturbed(s) ==
  IF s.disturbed < IF target THEN MaxTargeted ELSE MaxUntargeted
  THEN {[s EXCEPT !.disturbed = @ + 1]} ELSE {}

ScheduleReconnect_DropsTimer(s) ==
  [s EXCEPT !.chars = FALSE, !.path = FALSE, !.hooked = @ \ {s.dev}, !.dev = 0]
ScheduleReconnect_KeepsProxy(s) ==
  [s EXCEPT !.chars = FALSE, !.path = FALSE, !.hooked = @ \ {s.dev}, !.retries = @ + 1]
ScheduleReconnect(s) ==
  [s EXCEPT !.chars = FALSE, !.path = FALSE, !.hooked = @ \ {s.dev}, !.dev = 0,
            !.retries = @ + 1]

(* on_services_resolved with find_characteristics, which fails without a    *)
(* path.  Its five attempts see the same objects: the thread that would     *)
(* learn of new ones sleeps.                                                *)
OnServicesResolved(s) ==
  LET t == [s EXCEPT !.state = "discovering"] IN
  IF t.path
  THEN {[t EXCEPT !.chars = TRUE, !.notifies = @ + 1]} \cup Disturbed(ScheduleReconnect(t))
  ELSE {ScheduleReconnect(t)}

(* connect_device: without a proxy it gives up; a proxy may already show    *)
(* the services as resolved, in the properties it is made with.             *)
ConnectDevice_NoPath(s) ==
  LET t == [s EXCEPT !.state = "connecting"]
      p == [t EXCEPT !.dev = New(s), !.hooked = @ \cup {New(s)}]
  IN  Disturbed(ScheduleReconnect([t EXCEPT !.dev = 0]))
        \cup IF link = "resolved" THEN OnServicesResolved(p)
             ELSE {[p EXCEPT !.connects = @ + 1]}
ConnectDevice(s) ==
  LET t == [s EXCEPT !.path = TRUE, !.state = "connecting"]
      p == [t EXCEPT !.dev = New(s), !.hooked = @ \cup {New(s)}]
  IN  Disturbed(ScheduleReconnect([t EXCEPT !.dev = 0]))
        \cup IF link = "resolved" THEN OnServicesResolved(p)
             ELSE {[p EXCEPT !.connects = @ + 1]}

(* start_discovery: no adapter, StartDiscovery refused, or scanning.  The   *)
(* state callback empties the list of the picker.                           *)
StartDiscovery(s) ==
  LET t == [s EXCEPT !.state = "scanning", !.listed = FALSE] IN
  {[t EXCEPT !.scan = "on"]} \cup Disturbed(ScheduleReconnect(t))
                             \cup Disturbed([t EXCEPT !.scan = "refused"])

(* if (!try_find_device()) start_discovery();                               *)
FindOrScan_ScansOnly(s) == StartDiscovery([s EXCEPT !.listed = @ \/ seen])
FindOrScan(s) ==
  LET t == [s EXCEPT !.listed = @ \/ seen] IN
  IF seen /\ target THEN ConnectDevice(t) ELSE StartDiscovery(t)

(* Before connecting to what appears or is picked: StopDiscovery, which may *)
(* fail without notice.                                                     *)
StopAndConnect(s) == ConnectDevice(s) \cup ConnectDevice([s EXCEPT !.scan = "off"])
-----------------------------------------------------------------------------
Init ==
  /\ target \in BOOLEAN
  /\ objMgr = FALSE
  /\ seen \in BOOLEAN
  /\ m = [state |-> "disconnected", dev |-> 0, hooked |-> {}, chars |-> FALSE,
          path |-> FALSE, listed |-> FALSE, picked |-> 0, retries |-> 0, polls |-> 0,
          connects |-> 0, notifies |-> 0, scan |-> "off", disturbed |-> 0]
  /\ link = "down"
  /\ inbox = <<>>

(* The callbacks of the GLib thread.                                        *)

(* cb_obj_mgr_ready                                                         *)
ManagerReady ==
  /\ ~objMgr /\ m.state # "error"
  /\ \/ /\ objMgr' = TRUE /\ m' \in FindOrScan(m)
     \/ /\ objMgr' = FALSE /\ m' \in Disturbed([m EXCEPT !.state = "error"])
  /\ UNCHANGED <<target, seen, link, inbox>>

(* cb_reconnect, cb_poll with do_poll                                       *)
RetryFires ==
  /\ m.retries > 0
  /\ m' \in FindOrScan([m EXCEPT !.retries = @ - 1])
  /\ UNCHANGED <<target, objMgr, seen, link, inbox>>
PollFires ==
  /\ m.polls > 0
  /\ \/ m.state = "ready" /\ m.chars /\ m' = m    \* polls, and starts the timer anew
     \/ ~(m.state = "ready" /\ m.chars) /\ m' = [m EXCEPT !.polls = @ - 1]
  /\ UNCHANGED <<target, objMgr, seen, link, inbox>>

(* cb_do_connect_to: the device was in the list, so it is in discovered.    *)
ConnectTo ==
  /\ m.picked > 0
  /\ m' \in StopAndConnect([m EXCEPT !.picked = @ - 1])
  /\ UNCHANGED <<target, objMgr, seen, link, inbox>>

Dispatch(kinds) ==
  /\ inbox # <<>> /\ Head(inbox).kind \in kinds /\ inbox' = Tail(inbox)
  /\ UNCHANGED <<target, objMgr, seen, link>>

(* The answer to Connect.                                                   *)
ConnectAnswer ==
  \/ Dispatch({"connected"}) /\ m' = [m EXCEPT !.state = "discovering"]
  \/ Dispatch({"refused"}) /\ m' = ScheduleReconnect([m EXCEPT !.state = "disconnected"])

(* The answer to StartNotify, with schedule_poll.                           *)
NotifyAnswer ==
  \/ Dispatch({"notifying"}) /\ m' = [m EXCEPT !.state = "ready", !.polls = @ + 1]
  \/ Dispatch({"mute"}) /\ m' = ScheduleReconnect(m)

(* cb_device_props: a signal for a proxy that has lost its handler is       *)
(* dispatched to nobody.                                                    *)
DeviceProps ==
  \/ /\ Dispatch({"resolved"})
     /\ m' \in IF Head(inbox).to \in m.hooked THEN OnServicesResolved(m) ELSE {m}
  \/ /\ Dispatch({"lost"})
     /\ m' = IF Head(inbox).to \in m.hooked
             THEN ScheduleReconnect([m EXCEPT !.state = "disconnected"]) ELSE m
-----------------------------------------------------------------------------
(* BlueZ, the battery and the user.                                         *)

(* A device appears; cb_obj_added.                                          *)
ObjAdded ==
  /\ ~seen /\ seen' = TRUE
  /\ LET t == [m EXCEPT !.listed = TRUE] IN
     \/ (~objMgr \/ m.state # "scanning") /\ m' = m
     \/ objMgr /\ m.state = "scanning" /\ target /\ m' \in StopAndConnect(t)
     \/ objMgr /\ m.state = "scanning" /\ ~target /\ m' = t
  /\ UNCHANGED <<target, objMgr, link, inbox>>

(* BlueZ forgets a device it has not heard of for some time, and that it is *)
(* not asked to connect.                                                    *)
ObjRemoved ==
  /\ seen /\ link = "down" /\ m.connects = 0 /\ seen' = FALSE
  /\ m' \in Disturbed(m)
  /\ UNCHANGED <<target, objMgr, link, inbox>>

(* What BlueZ signals is sent to every proxy with a handler.                *)
ToAll(kind) ==
  [i \in 1..Cardinality(m.hooked) |->
     [kind |-> kind,
      to |-> CHOOSE p \in m.hooked : Cardinality({q \in m.hooked : q < p}) = i - 1]]

Connected ==
  /\ m.connects > 0 /\ seen
  /\ link' = IF link = "down" THEN "up" ELSE link
  /\ inbox' = Append(inbox, [kind |-> "connected"])
  /\ m' = [m EXCEPT !.connects = @ - 1]
  /\ UNCHANGED <<target, objMgr, seen>>

(* A refusal is a disturbance, also one because another Connect is under    *)
(* way; a device BlueZ has forgotten cannot be connected to.                *)
Refused ==
  /\ m.connects > 0
  /\ LET t == [m EXCEPT !.connects = @ - 1] IN m' \in IF seen THEN Disturbed(t) ELSE {t}
  /\ inbox' = Append(inbox, [kind |-> "refused"])
  /\ UNCHANGED <<target, objMgr, seen, link>>

ServicesResolved ==
  /\ link = "up" /\ link' = "resolved"
  /\ inbox' = inbox \o ToAll("resolved")
  /\ UNCHANGED <<target, objMgr, seen, m>>

(* The battery is gone; StartNotify calls under way fail, before or after   *)
(* the signal.                                                              *)
LinkDown ==
  /\ link # "down" /\ link' = "down"
  /\ m' \in Disturbed([m EXCEPT !.notifies = 0])
  /\ LET mutes == [i \in 1..m.notifies |-> [kind |-> "mute"]] IN
     \/ inbox' = inbox \o mutes \o ToAll("lost")
     \/ inbox' = inbox \o ToAll("lost") \o mutes
  /\ UNCHANGED <<target, objMgr, seen>>

(* BlueZ answers a Connect before a later StartNotify.                      *)
Notifying ==
  /\ m.notifies > 0 /\ link = "resolved" /\ m.connects = 0
  /\ inbox' = Append(inbox, [kind |-> "notifying"])
  /\ m' = [m EXCEPT !.notifies = @ - 1]
  /\ UNCHANGED <<target, objMgr, seen, link>>
Mute ==
  /\ m.notifies > 0
  /\ LET t == [m EXCEPT !.notifies = @ - 1] IN
     m' \in IF link = "resolved" THEN Disturbed(t) ELSE {t}
  /\ inbox' = Append(inbox, [kind |-> "mute"])
  /\ UNCHANGED <<target, objMgr, seen, link>>

(* Enter in the terminal UI takes the chosen device of the list, whatever   *)
(* is on the screen; connect_to.                                            *)
UserPicks ==
  /\ m.listed /\ m' \in Disturbed([m EXCEPT !.picked = @ + 1])
  /\ UNCHANGED <<target, objMgr, seen, link, inbox>>
-----------------------------------------------------------------------------
Callback == ManagerReady \/ RetryFires \/ ConnectTo \/ ConnectAnswer \/ NotifyAnswer \/ DeviceProps
World    == \/ ObjAdded \/ ObjRemoved \/ Connected \/ Refused \/ ServicesResolved
            \/ LinkDown \/ Notifying \/ Mute \/ UserPicks
Next == Callback \/ PollFires \/ World

(* The main loop of the thread dispatches every source in its turn; BlueZ   *)
(* answers every call; a battery in reach is seen while we scan.            *)
Fairness ==
  /\ WF_vars(ManagerReady) /\ WF_vars(RetryFires) /\ WF_vars(PollFires) /\ WF_vars(ConnectTo)
  /\ WF_vars(ConnectAnswer \/ NotifyAnswer \/ DeviceProps)
  /\ WF_vars(Connected \/ Refused)
  /\ WF_vars(ServicesResolved) /\ WF_vars(Notifying \/ Mute)
  /\ WF_vars(ObjAdded /\ m.scan = "on")

Spec     == Init /\ [][Next]_vars
FairSpec == Spec /\ Fairness
-----------------------------------------------------------------------------
(* The members keep their types, and device_proxy is a proxy whose signals  *)
(* arrive, or none: never one that was let go.                              *)
TypeOK ==
  /\ target \in BOOLEAN /\ objMgr \in BOOLEAN /\ seen \in BOOLEAN
  /\ m \in Members /\ m.dev \in m.hooked \cup {0}
  /\ link \in {"down", "up", "resolved"} /\ inbox \in Seq(Messages)

(* The battery is polled, over a connection whose end would be noticed.     *)
Serving == m.state = "ready" /\ m.chars /\ m.dev \in m.hooked /\ link = "resolved" /\ m.polls > 0

(* The answer to Connect or StartNotify came after the device was given up  *)
(* and a retry had gone back to scanning: it says connected, or ready, of   *)
(* no device, and no timer runs.  The code does not rule this out.          *)
LateAnswer == m.dev = 0 /\ m.retries = 0 /\ m.state \in {"discovering", "ready"}

(* The manager never sits idle: once the object manager is there, and       *)
(* nothing is left to dispatch, a timer runs, a call is unanswered, it      *)
(* scans, it waits for the services of a connection it would hear the end   *)
(* of, or it polls a battery over a connection it would hear the end of.    *)
NotForgotten ==
  objMgr /\ inbox = <<>> =>
    \/ m.retries > 0 \/ m.picked > 0 \/ m.connects > 0 \/ m.notifies > 0
    \/ m.state = "scanning" /\ m.scan # "off"
    \/ link = "up" /\ m.dev \in m.hooked
    \/ Serving
    \/ LateAnswer

(* It never scans for a battery that BlueZ already shows: object-added      *)
(* would not come.                                                          *)
NeverScansPastTarget ==
  target /\ objMgr /\ m.state = "scanning" /\ m.retries = 0 => ~seen

(* With a device configured the manager comes, in whatever order answers,   *)
(* signals and timers arrive, to a connection that it polls, and stays      *)
(* there, once nothing goes wrong outside.  Except when the object manager  *)
(* or the discovery was refused, which the code does not try again, or when *)
(* an answer came too late.                                                 *)
Recovers ==
  target => \/ <>[]Serving
            \/ <>[](m.state = "error")
            \/ <>[](m.state = "scanning" /\ m.scan = "refused")
            \/ <>[]LateAnswer

(* README.md: the poll interval is the BLE poll interval; schedule_poll     *)
(* removes the timer before it starts another.                              *)
OnePollTimer == m.polls <= 1
=============================================================================
