---------------------------- MODULE MonitorProofs ----------------------------
(***************************************************************************)
(* What main() and its threads keep, for any numbers of threads, rows and   *)
(* restarts: the safety net of the grid-off test; the rows that pages and   *)
(* the scheduler know by their ids; the outages of the maintenance mode;    *)
(* the settings a start reads and saves, wherever it is cut off; the        *)
(* transmissions found in the current, each weighed once; the log of events,*)
(* with what a restart makes of it; and the readings put together from the  *)
(* pieces of the lines.                                                     *)
(***************************************************************************)
EXTENDS GridTest, Outage, Records, Startup, TxDetection, EventLog, Readers,
        WindowProofs, SequenceTheorems, FiniteSetTheorems, TLAPS

(* SafetyNet says nothing of the states inside a window, so it is not       *)
(* inductive.  What carries it: while nothing disturbs, one operation at    *)
(* most is in its window, the relay already did what that operation writes, *)
(* and its two writes come one after the other.                             *)
NetInv ==
  /\ \A t \in InWindow : up /\ op[t].cmd # "off"
  /\ ~disturbed =>
       /\ \A t, u \in InWindow : t = u
       /\ \A t \in InWindow : testOff <=> op[t].cmd = "offTest"
       /\ \A t \in Threads : At(t, "start") => (active <=> testOff)
       /\ InWindow = {} => NetHolds

(* Moving one thread to another place keeps the type of op.                 *)
LEMMA GotoTypes ==
  ASSUME op \in [Threads -> [at : Stages, cmd : Commands]],
         NEW t, NEW stage \in Stages, NEW c \in Commands,
         Goto(t, stage, c)
  PROVE  op' \in [Threads -> [at : Stages, cmd : Commands]]
<1> Does(stage, c) \in [at : Stages, cmd : Commands]
  BY DEF Does
<1> QED BY DEF Goto

(* Every state of every behaviour is of its type, for all constants.        *)
THEOREM GridTestTypes == GridSpec => []GridTypeOK
<1>1. GridInit => GridTypeOK
  <2> SUFFICES ASSUME GridInit PROVE GridTypeOK
    OBVIOUS
  <2>1. op \in [Threads -> [at : Stages, cmd : Commands]]
    BY DEF GridInit, Does, Stages, Commands
  <2>2. crashes \in 0..MaxCrashes
    BY ThreadAssumption DEF GridInit
  <2> QED BY <2>1, <2>2, Zenon DEF GridInit, GridTypeOK, Charge, Commands
<1>2. GridTypeOK /\ [GridNext]_gridVars => GridTypeOK'
  <2> SUFFICES ASSUME GridTypeOK, [GridNext]_gridVars PROVE GridTypeOK'
    OBVIOUS
  <2> USE DEF GridTypeOK, outside, flags, battery
  <2>a. /\ \A t, stage, c : stage \in Stages /\ c \in Commands /\ Goto(t, stage, c)
             => op' \in [Threads -> [at : Stages, cmd : Commands]]
        /\ \A t, stage : stage \in Stages /\ Leave(t, stage)
             => op' \in [Threads -> [at : Stages, cmd : Commands]]
        /\ \A t \in Threads : op[t].cmd \in Commands
    BY GotoTypes DEF Leave, Commands
  <2>1. ASSUME NEW t \in Http, NEW c \in Commands, HttpRelay(t, c) PROVE GridTypeOK'
    BY <2>1, <2>a DEF HttpRelay, Stages
  <2>2. ASSUME NEW c \in {"none", "disabled", "enabled"}, SaveSettings(c) PROVE GridTypeOK'
    BY <2>2 DEF SaveSettings
  <2>3. CASE MaintCheck \/ MaintDecide
    BY <2>3, <2>a DEF MaintCheck, MaintDecide, Stages, Commands
  <2>4. ASSUME NEW t \in Threads, SendHeard(t) \/ SendUnheard(t) PROVE GridTypeOK'
    <3>1. op' \in [Threads -> [at : Stages, cmd : Commands]]
      BY <2>4, <2>a DEF SendHeard, SendUnheard, Sent, Stages
    <3>2. op[t].cmd \in Commands
      BY <2>a
    <3>3. CASE SendHeard(t)
      BY <2>a, <3>1, <3>2, <3>3 DEF SendHeard, Apply, Commands
    <3>4. CASE SendUnheard(t)
      BY <2>a, <3>1, <3>2, <3>4 DEF SendUnheard, Commands
    <3> QED BY <2>4, <3>3, <3>4
  <2>5. ASSUME NEW t \in Threads, SendFails(t) PROVE GridTypeOK'
    BY <2>5, <2>a DEF SendFails, Stages
  <2>6. ASSUME NEW t \in Threads, WriteActive(t) PROVE GridTypeOK'
    BY <2>6, <2>a DEF WriteActive, Stages
  <2>7. ASSUME NEW t \in Threads, WriteStartTs(t) \/ Snapshot(t) PROVE GridTypeOK'
    BY <2>7, <2>a DEF WriteStartTs, Snapshot, Stages
  <2>8. ASSUME NEW s \in Charge, NEW due \in BOOLEAN, BleUpdate(s, due) PROVE GridTypeOK'
    BY <2>8 DEF BleUpdate
  <2>9. CASE Expire
    BY <2>9 DEF Expire
  <2>10. CASE LateArrival
    BY <2>10 DEF LateArrival, Apply, Commands
  <2>11. CASE Crash
    <3>1. op' \in [Threads -> [at : Stages, cmd : Commands]]
      BY <2>11 DEF Crash, Does, Stages, Commands
    <3>2. crashes' \in 0..MaxCrashes
      BY <2>11, ThreadAssumption DEF Crash
    <3> QED BY <2>11, <3>1, <3>2 DEF Crash
  <2>12. CASE Restart
    <3>1. op' \in [Threads -> [at : Stages, cmd : Commands]]
      BY <2>12, <2>a DEF Restart, Stages
    <3>2. soc' \in Charge
      BY <2>12 DEF Restart, Charge
    <3> QED BY <2>12, <3>1, <3>2 DEF Restart
  <2>13. CASE UNCHANGED gridVars
    BY <2>13 DEF gridVars
  <2> QED BY <2>1, <2>2, <2>3, <2>4, <2>5, <2>6, <2>7, <2>8, <2>9, <2>10, <2>11, <2>12,
             <2>13 DEF GridNext
<1> QED BY <1>1, <1>2, PTL DEF GridSpec

(* Outside its window an operation leaves the windows of the others alone.  *)
LEMMA OutsideKeepsNet ==
  ASSUME GridTypeOK, NetInv, NEW t \in Threads, NEW stage \in Stages, NEW c \in Commands,
         Goto(t, stage, c), stage \notin WriteWindow, t \notin InWindow,
         UNCHANGED <<testOff, flags, disturbed>>, up'
  PROVE  NetInv'
<1>1. InWindow' = InWindow /\ \A u \in InWindow : op'[u] = op[u]
  BY DEF GridTypeOK, Goto, Does, InWindow, WriteWindow
<1>2. \A u \in Threads : At(u, "start")' => u \in InWindow /\ At(u, "start")
  BY <1>1 DEF At, InWindow, WriteWindow
<1> QED BY <1>1, <1>2 DEF NetInv, NetHolds, flags

LEMMA NetInvStep == GridTypeOK /\ NetInv /\ [GridNext]_gridVars => NetInv'
<1> SUFFICES ASSUME GridTypeOK, NetInv, [GridNext]_gridVars PROVE NetInv'
  OBVIOUS
<1> USE DEF flags, outside, battery
<1>1. ASSUME NEW t \in Http, NEW c \in Commands, HttpRelay(t, c) PROVE NetInv'
  BY <1>1, OutsideKeepsNet DEF HttpRelay, At, InWindow, WriteWindow, Threads, Stages
<1>2. ASSUME NEW c \in {"none", "disabled", "enabled"}, SaveSettings(c) PROVE NetInv'
  BY <1>2 DEF SaveSettings, NetInv, NetHolds, InWindow, At
<1>3. CASE MaintCheck
  BY <1>3, OutsideKeepsNet DEF MaintCheck, Leave, At, InWindow, WriteWindow, Threads, Stages, Commands
<1>4. CASE MaintDecide
  BY <1>4, OutsideKeepsNet DEF MaintDecide, At, InWindow, WriteWindow, Threads, Stages, Commands
<1>5. ASSUME NEW t \in Threads, SendHeard(t) PROVE NetInv'
  <2>1. CASE op[t].cmd = "off"
    <3>1. UNCHANGED testOff
      BY <1>5, <2>1 DEF SendHeard, Apply
    <3> QED BY <1>5, <2>1, <3>1, OutsideKeepsNet
            DEF SendHeard, Sent, Leave, At, InWindow, WriteWindow, Stages, Commands
  <2>2. CASE op[t].cmd # "off"
    <3>1. /\ InWindow' = InWindow \cup {t}
          /\ op'[t] = Does("mode", op[t].cmd)
          /\ \A u \in Threads \ {t} : op'[u] = op[u]
      BY <1>5, <2>2 DEF SendHeard, Sent, Goto, InWindow, WriteWindow, Does, GridTypeOK
    <3>2. testOff' <=> op[t].cmd = "offTest"
      BY <1>5, <2>2 DEF SendHeard, Apply, GridTypeOK, Commands
    <3>3. (disturbed' <=> InWindow # {}) /\ up'
      BY <1>5, <2>2 DEF SendHeard
    <3> QED BY <2>2, <3>1, <3>2, <3>3 DEF NetInv, NetHolds, At, Does, InWindow, WriteWindow
  <2> QED BY <2>1, <2>2
<1>6. ASSUME NEW t \in Threads, SendUnheard(t) PROVE NetInv'
  <2>1. \A u \in InWindow' : op'[u].cmd # "off"
    BY <1>6 DEF SendUnheard, Sent, Leave, Goto, Does, InWindow, WriteWindow, GridTypeOK, NetInv
  <2> QED BY <1>6, <2>1 DEF SendUnheard, NetInv
<1>7. ASSUME NEW t \in Threads, SendFails(t) PROVE NetInv'
  BY <1>7, OutsideKeepsNet DEF SendFails, Leave, At, InWindow, WriteWindow, Stages, Commands
<1>8. ASSUME NEW t \in Threads, WriteActive(t) PROVE NetInv'
  <2>1. /\ InWindow' = InWindow /\ t \in InWindow
        /\ op'[t] = Does("start", op[t].cmd)
        /\ \A u \in Threads \ {t} : op'[u] = op[u]
    BY <1>8 DEF WriteActive, Goto, Does, InWindow, WriteWindow, GridTypeOK, At
  <2>2. active' <=> op[t].cmd = "offTest"
    BY <1>8 DEF WriteActive
  <2>3. UNCHANGED <<testOff, disturbed, startTs, up>>
    BY <1>8 DEF WriteActive
  <2> QED BY <2>1, <2>2, <2>3 DEF NetInv, NetHolds, At, Does, InWindow, WriteWindow
<1>9. ASSUME NEW t \in Threads, WriteStartTs(t) PROVE NetInv'
  <2>1. /\ InWindow' = InWindow \ {t} /\ t \in InWindow /\ At(t, "start")
        /\ \A u \in Threads \ {t} : op'[u] = op[u]
        /\ ~At(t, "start")'
    BY <1>9 DEF WriteStartTs, Leave, Goto, Does, InWindow, WriteWindow, GridTypeOK, At
  <2>2. startTs' # "none" <=> op[t].cmd = "offTest"
    BY <1>9 DEF WriteStartTs
  <2>3. UNCHANGED <<testOff, disturbed, active, up>>
    BY <1>9 DEF WriteStartTs
  <2> QED BY <2>1, <2>2, <2>3 DEF NetInv, NetHolds, At, InWindow
<1>10. ASSUME NEW t \in Threads, Snapshot(t) PROVE NetInv'
  BY <1>10, OutsideKeepsNet DEF Snapshot, Leave, At, InWindow, WriteWindow, Stages, Commands
<1>11. ASSUME NEW s \in Charge, NEW due \in BOOLEAN, BleUpdate(s, due) PROVE NetInv'
  BY <1>11 DEF BleUpdate, NetInv, NetHolds, InWindow, At
<1>12. CASE Expire
  BY <1>12 DEF Expire, NetInv, NetHolds, InWindow, At
<1>13. CASE LateArrival
  BY <1>13 DEF LateArrival, NetInv, InWindow
<1>14. CASE Crash
  <2>1. InWindow' = {} /\ \A u \in Threads : ~At(u, "start")'
    BY <1>14 DEF Crash, InWindow, WriteWindow, Does, At
  <2>2. disturbed' <=> disturbed \/ InWindow # {}
    BY <1>14 DEF Crash
  <2> QED BY <1>14, <2>1, <2>2 DEF Crash, NetInv, NetHolds
<1>15. CASE Restart
  <2>1. InWindow = {}
    BY <1>15 DEF Restart, NetInv
  <2> QED BY <1>15, <2>1, OutsideKeepsNet DEF Restart, Leave, WriteWindow, Stages, Commands, Threads
<1>16. CASE UNCHANGED gridVars
  BY <1>16 DEF gridVars, NetInv, NetHolds, InWindow, At
<1> QED BY <1>1, <1>2, <1>3, <1>4, <1>5, <1>6, <1>7, <1>8, <1>9, <1>10, <1>11, <1>12,
           <1>13, <1>14, <1>15, <1>16 DEF GridNext

(* Whatever the threads, their requests and the crashes: outside the        *)
(* windows, and unless something disturbed it, the settings of the grid-off *)
(* test agree with the relay.                                               *)
THEOREM SafetyNetHolds == GridSpec => []SafetyNet
<1>1. GridInit => NetInv
  BY DEF GridInit, NetInv, NetHolds, InWindow, WriteWindow, Does, At
<1>2. NetInv => SafetyNet
  BY DEF NetInv, SafetyNet
<1> QED BY <1>1, <1>2, NetInvStep, GridTestTypes, PTL DEF GridSpec

-----------------------------------------------------------------------------
(* An id that anybody holds has been given before, so the next one is new;  *)
(* and what has the same id has the same origin.                            *)
GivenTo(row, table) ==
  /\ {"id", "born"} \subseteq DOMAIN row
  /\ row.id \in Nat /\ row.id <= rec.seq[table] /\ Names(row, table)

RowsInv ==
  /\ DOMAIN rec = {"rows", "seq", "last"} /\ DOMAIN rec.rows = Tables /\ DOMAIN rec.seq = Tables
  /\ \A t \in Tables : rec.seq[t] \in Nat /\ \A row \in rec.rows[t] : GivenTo(row, t)

IdsInv ==
  /\ RowsInv
  /\ DOMAIN held = {"page", "of", "history", "pass", "turn", "passes", "answer"}
  /\ held.of \in Tables /\ \A row \in held.page : GivenTo(row, held.of)
  /\ held.turn \subseteq held.pass
  /\ \A row \in held.pass : GivenTo(row, "test_schedules")

(* What a statement may do to a table: rows keep their ids and origins, or  *)
(* go; one may come, with the next id.                                      *)
Descends(t) ==
  /\ rec'.seq[t] \in Nat /\ rec.seq[t] <= rec'.seq[t]
  /\ \A x \in rec'.rows[t] :
       /\ {"id", "born"} \subseteq DOMAIN x
       /\ \/ \E y \in rec.rows[t] : x.id = y.id /\ x.born = y.born
          \/ x.id = rec.seq[t] + 1 /\ x.id = rec'.seq[t] /\ x.born = made + 1

Statement ==
  /\ DOMAIN rec' = DOMAIN rec /\ DOMAIN rec'.rows = Tables /\ DOMAIN rec'.seq = Tables
  /\ \A t \in Tables : Descends(t)

-----------------------------------------------------------------------------
(* Whoever held an id before a statement still holds it after it.           *)
LEMMA StillGiven ==
  ASSUME RowsInv, Statement, NEW t \in Tables, NEW row, GivenTo(row, t)
  PROVE  GivenTo(row, t)'
<1>1. /\ rec.seq[t] \in Nat /\ rec'.seq[t] \in Nat /\ rec.seq[t] <= rec'.seq[t]
      /\ row.id \in Nat /\ row.id <= rec.seq[t] /\ {"id", "born"} \subseteq DOMAIN row
  BY DEF RowsInv, Statement, Descends, GivenTo
<1>2. ASSUME NEW x \in rec'.rows[t], x.id = row.id
      PROVE  x.born = row.born
  <2>1. x.id # rec.seq[t] + 1
    BY <1>1, <1>2
  <2>2. PICK y \in rec.rows[t] : x.id = y.id /\ x.born = y.born
    BY <2>1 DEF Statement, Descends
  <2> QED BY <1>2, <2>2 DEF GivenTo, Names
<1> QED BY <1>1, <1>2 DEF GivenTo, Names

LEMMA RowsKept ==
  ASSUME RowsInv, Statement
  PROVE  RowsInv'
<1>1. ASSUME NEW t \in Tables, NEW x \in rec'.rows[t]
      PROVE  GivenTo(x, t)'
  <2>1. /\ rec.seq[t] \in Nat /\ rec'.seq[t] \in Nat /\ rec.seq[t] <= rec'.seq[t]
        /\ {"id", "born"} \subseteq DOMAIN x
    BY DEF RowsInv, Statement, Descends
  <2>2. CASE \E y \in rec.rows[t] : x.id = y.id /\ x.born = y.born
    <3>1. PICK y \in rec.rows[t] : x.id = y.id /\ x.born = y.born
      BY <2>2
    <3>2. GivenTo(y, t)'
      BY <3>1, StillGiven DEF RowsInv
    <3> QED BY <2>1, <3>1, <3>2 DEF GivenTo, Names
  <2>3. CASE x.id = rec.seq[t] + 1 /\ x.id = rec'.seq[t] /\ x.born = made + 1
    <3>1. ASSUME NEW z \in rec'.rows[t], z.id = x.id
          PROVE  z.born = x.born
      <4>1. \A y \in rec.rows[t] : y.id \in Nat /\ y.id <= rec.seq[t]
        BY DEF RowsInv, GivenTo
      <4>2. ~\E y \in rec.rows[t] : z.id = y.id
        BY <2>1, <2>3, <3>1, <4>1
      <4> QED BY <2>3, <4>2 DEF Statement, Descends
    <3> QED BY <2>1, <2>3, <3>1 DEF GivenTo, Names
  <2> QED BY <2>2, <2>3 DEF Statement, Descends
<1>2. \A t \in Tables : rec'.seq[t] \in Nat
  BY DEF Statement, Descends
<1> QED BY <1>1, <1>2 DEF RowsInv, Statement

(* The statements: SELECT, UPDATE and DELETE, whose rows all were there.    *)
LEMMA OldRowsOnly ==
  ASSUME RowsInv, DOMAIN rec' = DOMAIN rec, DOMAIN rec'.rows = Tables, rec'.seq = rec.seq,
         \A t \in Tables : \A x \in rec'.rows[t] :
           \E y \in rec.rows[t] : x.id = y.id /\ x.born = y.born /\ DOMAIN x = DOMAIN y
  PROVE  Statement
<1>1. ASSUME NEW t \in Tables
      PROVE  Descends(t)
  <2>1. rec.seq[t] \in Nat /\ rec'.seq[t] = rec.seq[t]
    BY DEF RowsInv
  <2>2. ASSUME NEW x \in rec'.rows[t]
        PROVE  {"id", "born"} \subseteq DOMAIN x
               /\ \E y \in rec.rows[t] : x.id = y.id /\ x.born = y.born
    BY DEF RowsInv, GivenTo
  <2> QED BY <2>1, <2>2 DEF Descends
<1> QED BY <1>1 DEF RowsInv, Statement

LEMMA RowInserted ==
  ASSUME RowsInv, NEW table \in Tables, NEW of, rec' = With(table, of)
  PROVE  Statement
<1>1. /\ DOMAIN rec' = DOMAIN rec /\ DOMAIN rec'.rows = Tables /\ DOMAIN rec'.seq = Tables
      /\ \A t \in Tables : /\ rec'.rows[t] = IF t = table THEN rec.rows[t] \union {Row(t, of)}
                                             ELSE rec.rows[t]
                           /\ rec'.seq[t] = IF t = table THEN rec.seq[t] + 1 ELSE rec.seq[t]
  BY DEF With, RowsInv, NextId
<1>2. ASSUME NEW t \in Tables
      PROVE  Descends(t)
  <2>1. /\ {"id", "born"} \subseteq DOMAIN Row(t, of)
        /\ Row(t, of).id = rec.seq[t] + 1 /\ Row(t, of).born = made + 1
    BY DEF Row, NextId
  <2>2. rec.seq[t] \in Nat /\ \A x \in rec.rows[t] : {"id", "born"} \subseteq DOMAIN x
    BY DEF RowsInv, GivenTo
  <2>3. rec'.seq[t] \in Nat /\ rec.seq[t] <= rec'.seq[t]
    <3>1. rec'.seq[t] \in {rec.seq[t], rec.seq[t] + 1}
      BY <1>1
    <3> QED BY <2>2, <3>1
  <2>4. ASSUME NEW x \in rec'.rows[t]
        PROVE  /\ {"id", "born"} \subseteq DOMAIN x
               /\ \/ \E y \in rec.rows[t] : x.id = y.id /\ x.born = y.born
                  \/ x.id = rec.seq[t] + 1 /\ x.id = rec'.seq[t] /\ x.born = made + 1
    <3>1. CASE x \in rec.rows[t]
      BY <2>2, <3>1
    <3>2. CASE x \notin rec.rows[t]
      <4>1. t = table /\ x = Row(t, of)
        BY <1>1, <3>2
      <4>2. rec'.seq[t] = rec.seq[t] + 1
        BY <1>1, <4>1
      <4> QED BY <2>1, <4>1, <4>2
    <3> QED BY <3>1, <3>2
  <2> QED BY <2>3, <2>4 DEF Descends
<1> QED BY <1>1, <1>2 DEF Statement

LEMMA UpdatedRows ==
  ASSUME RowsInv, NEW table \in Tables, NEW id,
         rec' = Updated(table, id, Noted) \/ rec' = Updated(table, id, NextRun)
  PROVE  Statement
<1>1. ASSUME NEW x, {"id", "born"} \subseteq DOMAIN x
      PROVE  /\ DOMAIN Noted(x) = DOMAIN x /\ Noted(x).id = x.id /\ Noted(x).born = x.born
             /\ DOMAIN NextRun(x) = DOMAIN x /\ NextRun(x).id = x.id /\ NextRun(x).born = x.born
  BY <1>1 DEF Noted, NextRun
<1>2. \A t \in Tables : \A x \in rec.rows[t] : {"id", "born"} \subseteq DOMAIN x
  BY DEF RowsInv, GivenTo
<1>3. CASE rec' = Updated(table, id, Noted)
  <2>1. /\ DOMAIN rec' = DOMAIN rec /\ DOMAIN rec'.rows = Tables /\ rec'.seq = rec.seq
        /\ \A t \in Tables : rec'.rows[t] = IF t = table
                                            THEN {IF r.id = id THEN Noted(r) ELSE r : r \in rec.rows[t]}
                                            ELSE rec.rows[t]
    BY <1>3 DEF Updated, RowsInv
  <2>2. ASSUME NEW t \in Tables, NEW x \in rec'.rows[t]
        PROVE  \E y \in rec.rows[t] : x = y \/ x = Noted(y)
    <3>1. CASE t = table
      <4>1. x \in {IF r.id = id THEN Noted(r) ELSE r : r \in rec.rows[t]}
        BY <2>1, <3>1
      <4> QED BY <4>1
    <3>2. CASE t # table
      <4>1. x \in rec.rows[t]
        BY <2>1, <3>2
      <4> QED BY <4>1
    <3> QED BY <3>1, <3>2
  <2> QED BY <1>1, <1>2, <2>1, <2>2, OldRowsOnly
<1>4. CASE rec' = Updated(table, id, NextRun)
  <2>1. /\ DOMAIN rec' = DOMAIN rec /\ DOMAIN rec'.rows = Tables /\ rec'.seq = rec.seq
        /\ \A t \in Tables : rec'.rows[t] = IF t = table
                                            THEN {IF r.id = id THEN NextRun(r) ELSE r : r \in rec.rows[t]}
                                            ELSE rec.rows[t]
    BY <1>4 DEF Updated, RowsInv
  <2>2. ASSUME NEW t \in Tables, NEW x \in rec'.rows[t]
        PROVE  \E y \in rec.rows[t] : x = y \/ x = NextRun(y)
    <3>1. CASE t = table
      <4>1. x \in {IF r.id = id THEN NextRun(r) ELSE r : r \in rec.rows[t]}
        BY <2>1, <3>1
      <4> QED BY <4>1
    <3>2. CASE t # table
      <4>1. x \in rec.rows[t]
        BY <2>1, <3>2
      <4> QED BY <4>1
    <3> QED BY <3>1, <3>2
  <2> QED BY <1>1, <1>2, <2>1, <2>2, OldRowsOnly
<1> QED BY <1>3, <1>4

-----------------------------------------------------------------------------
(* One step: what is done to the tables, and whose rows are held then.      *)
LEMMA RecStep ==
  ASSUME IdsInv, RecordsNext
  PROVE  Statement
<1> USE DEF IdsInv
<1>1. \A t \in Tables : t \in DOMAIN rec.rows
  BY DEF RowsInv
<1>2. ASSUME UNCHANGED rec PROVE Statement
  BY <1>2, OldRowsOnly DEF RowsInv
<1>3. ASSUME NEW table \in Tables, NEW of, Create(table, of) PROVE Statement
  BY <1>3, RowInserted DEF Create
<1>4. "test_schedules" \in Tables /\ "test_runs" \in Tables /\ "test_telemetry" \in Tables
      /\ Samples \subseteq Tables
  BY DEF Tables, Samples
<1>5. ASSUME NEW fails \in BOOLEAN, PostSchedule(fails) PROVE Statement
  BY <1>2, <1>3, <1>4, <1>5 DEF PostSchedule
<1>6. ASSUME NEW id, DeleteSchedule(id) PROVE Statement
  <2>1. /\ DOMAIN rec' = DOMAIN rec /\ DOMAIN rec'.rows = Tables /\ rec'.seq = rec.seq
        /\ \A t \in Tables : rec'.rows[t] \subseteq rec.rows[t]
    BY <1>6 DEF DeleteSchedule, Without, RowsInv
  <2> QED BY <2>1, OldRowsOnly
<1>7. ASSUME NEW id, PostNotes(id) PROVE Statement
  BY <1>4, <1>7, UpdatedRows DEF PostNotes
<1>8. ASSUME \/ GetSchedules \/ GetTests \/ GetCapacity \/ GetSolarPerformance
             \/ \E id \in PageIds("test_runs") : GetTest(id)
             \/ \E id \in PageIds("test_runs") : GetTelemetry(id)
      PROVE  Statement
  BY <1>2, <1>8 DEF GetSchedules, GetTests, GetCapacity, GetSolarPerformance, GetTest, GetTelemetry, Show
<1>9. ASSUME LoadPass PROVE Statement
  BY <1>2, <1>9 DEF LoadPass
<1>10. ASSUME Skip PROVE Statement
  BY <1>4, <1>10, UpdatedRows DEF Skip
<1>11. ASSUME Postpone PROVE Statement
  BY <1>4, <1>11, UpdatedRows DEF Postpone
<1>12. ASSUME StartRun PROVE Statement
  BY <1>3, <1>4, <1>12 DEF StartRun
<1>13. ASSUME StartTest PROVE Statement
  BY <1>3, <1>4, <1>13 DEF StartTest
<1>14. ASSUME Keep PROVE Statement
  <2>1. \E table \in Samples : rec' = With(table, 0)
    BY <1>14 DEF Keep, Samples, insert_battery_resistance, insert_battery_capacity_test,
          insert_charger_efficiency, insert_solar_performance, insert_reading
  <2> QED BY <1>4, <2>1, RowInserted
<1>15. ASSUME NEW id, Telemetry(id) PROVE Statement
  BY <1>4, <1>15, RowInserted DEF Telemetry, insert_test_telemetry
<1>16. ASSUME NEW failed, Cleanup(failed) PROVE Statement
  <2>1. /\ DOMAIN rec' = DOMAIN rec /\ DOMAIN rec'.rows = Tables /\ rec'.seq = rec.seq
        /\ \A t \in Tables : rec'.rows[t] \subseteq rec.rows[t]
    BY <1>16 DEF Cleanup, RowsInv
  <2> QED BY <2>1, OldRowsOnly
<1>17. ASSUME NextDay PROVE Statement
  BY <1>2, <1>17 DEF NextDay
<1>18. ASSUME RestartProgram PROVE Statement
  <2>1. rec'.rows = rec.rows /\ rec'.seq = rec.seq /\ DOMAIN rec' = DOMAIN rec
    BY <1>18 DEF RestartProgram, RowsInv
  <2> QED BY <2>1, OldRowsOnly DEF RowsInv
<1> QED BY <1>5, <1>6, <1>7, <1>8, <1>9, <1>10, <1>11, <1>12, <1>13, <1>14, <1>15, <1>16, <1>17,
         <1>18 DEF RecordsNext

(* What anybody holds was held before or has just been read.                *)
Holding ==
  /\ DOMAIN held' = DOMAIN held /\ held'.turn \subseteq held'.pass
  /\ \/ held'.of = held.of /\ held'.page = held.page
     \/ held'.of \in Tables /\ held'.page \subseteq rec.rows[held'.of]
  /\ held'.pass \subseteq held.pass \union rec.rows["test_schedules"]

LEMMA HeldStep ==
  ASSUME IdsInv, RecordsNext
  PROVE  Holding
<1> USE DEF IdsInv
<1>1. {"test_schedules", "test_runs", "test_telemetry", "battery_capacity_tests", "solar_performance"}
        \subseteq Tables
  BY DEF Tables, Samples
<1>2. ASSUME UNCHANGED held PROVE Holding
  BY <1>2 DEF Holding
<1>3. ASSUME NEW answer, held' = [held EXCEPT !.answer = answer] PROVE Holding
  BY <1>3 DEF Holding
<1>4. ASSUME NEW table \in Tables, NEW rows \in SUBSET rec.rows[table], Show(table, rows) PROVE Holding
  BY <1>4 DEF Holding, Show
<1>5. ASSUME NEW fails \in BOOLEAN, PostSchedule(fails) PROVE Holding
  BY <1>3, <1>5 DEF PostSchedule
<1>6. ASSUME NEW id, DeleteSchedule(id) \/ PostNotes(id) PROVE Holding
  BY <1>3, <1>6 DEF DeleteSchedule, PostNotes
<1>7. ASSUME GetSchedules PROVE Holding
  BY <1>1, <1>4, <1>7 DEF GetSchedules, load_test_schedules
<1>8. ASSUME GetTests PROVE Holding
  BY <1>1, <1>4, <1>8 DEF GetTests, load_test_runs, NewestRows
<1>9. ASSUME GetCapacity \/ GetSolarPerformance PROVE Holding
  <2>1. \A table \in Tables : Since(table) \subseteq rec.rows[table]
    BY DEF Since
  <2> QED BY <1>1, <1>4, <1>9, <2>1
          DEF GetCapacity, GetSolarPerformance, load_battery_capacity_history, load_solar_performance
<1>10. ASSUME NEW id, GetTest(id) PROVE Holding
  <2>1. load_test_run(id) \subseteq rec.rows["test_runs"]
    BY DEF load_test_run
  <2> QED BY <1>1, <1>4, <1>10, <2>1 DEF GetTest
<1>11. ASSUME NEW id, GetTelemetry(id) PROVE Holding
  <2>1. \A rows \in load_test_telemetry(id, PageSamples) : rows \subseteq rec.rows["test_telemetry"]
    BY DEF load_test_telemetry, OldestRows
  <2> QED BY <1>1, <1>4, <1>11, <2>1 DEF GetTelemetry
<1>12. ASSUME LoadPass PROVE Holding
  <2>1. {r \in load_test_schedules : r.due <= day} \subseteq rec.rows["test_schedules"]
    BY DEF load_test_schedules
  <2> QED BY <1>12, <2>1 DEF LoadPass, Holding
<1>13. ASSUME Skip \/ StartRun PROVE Holding
  <2>1. CASE Skip
    BY <2>1 DEF Skip, Holding
  <2>2. CASE StartRun
    <3>1. PICK r \in held.pass : held' = [held EXCEPT !.pass = {r}, !.turn = {r}]
      BY <2>2 DEF StartRun
    <3>2. held'.pass = {r} /\ held'.turn = {r} /\ held'.of = held.of /\ held'.page = held.page
          /\ DOMAIN held' = DOMAIN held
      BY <3>1
    <3> QED BY <3>2 DEF Holding
  <2> QED BY <1>13, <2>1, <2>2
<1>14. ASSUME Postpone PROVE Holding
  BY <1>14 DEF Postpone, Holding
<1>15. ASSUME RestartProgram PROVE Holding
  BY <1>15 DEF RestartProgram, Holding
<1>16. ASSUME \/ StartTest \/ Keep \/ (\E id : Telemetry(id)) \/ (\E failed : Cleanup(failed)) \/ NextDay
       PROVE  Holding
  BY <1>2, <1>16 DEF StartTest, Keep, Telemetry, Cleanup, NextDay
<1> QED BY <1>5, <1>6, <1>7, <1>8, <1>9, <1>10, <1>11, <1>12, <1>13, <1>14, <1>15, <1>16
        DEF RecordsNext

LEMMA IdsStep ==
  ASSUME IdsInv, [RecordsNext]_recordsVars
  PROVE  IdsInv'
<1>1. CASE UNCHANGED recordsVars
  BY <1>1 DEF recordsVars, IdsInv, RowsInv, GivenTo, Names
<1>2. CASE RecordsNext
  <2>1. Statement /\ Holding /\ RowsInv /\ RowsInv'
    BY <1>2, RecStep, HeldStep, RowsKept DEF IdsInv
  <2>2. \A t \in Tables : \A row \in rec.rows[t] : GivenTo(row, t)
    BY DEF IdsInv, RowsInv
  <2>3. held'.of \in Tables /\ "test_schedules" \in Tables
    BY <2>1 DEF Holding, IdsInv, Tables
  <2>4. \A row \in held'.page : GivenTo(row, held'.of)
    BY <2>1, <2>2 DEF Holding, IdsInv
  <2>5. \A row \in held'.pass : GivenTo(row, "test_schedules")
    BY <2>1, <2>2, <2>3 DEF Holding, IdsInv
  <2>6. \A row \in held'.page : GivenTo(row, held.of)'
    <3> DEFINE table == held'.of
    <3>1. ASSUME NEW t \in Tables, NEW row, GivenTo(row, t) PROVE GivenTo(row, t)'
      BY <2>1, <3>1, StillGiven
    <3>2. ASSUME NEW t \in Tables, t = held'.of, NEW row \in held'.page PROVE GivenTo(row, held.of)'
      BY <2>4, <3>1, <3>2 DEF GivenTo, Names
    <3> QED BY <2>3, <3>2
  <2>7. \A row \in held'.pass : GivenTo(row, "test_schedules")'
    BY <2>1, <2>3, <2>5, StillGiven
  <2> QED BY <2>1, <2>3, <2>6, <2>7 DEF Holding, IdsInv
<1> QED BY <1>1, <1>2

(* The ids in the tables and those that are held, in every state.           *)
LEMMA IdsInvHolds == RecordsSpec => []IdsInv
<1>1. RecordsInit => IdsInv
  BY DEF RecordsInit, IdsInv, RowsInv, Tables
<1>2. IdsInv /\ [RecordsNext]_recordsVars => IdsInv'
  BY IdsStep
<1> QED BY <1>1, <1>2, PTL DEF RecordsSpec

(* Whatever was removed, inserted, cleaned up or restarted since a page was *)
(* shown or a pass of the scheduler has begun, their ids name the rows they *)
(* were read from or no row: an id is never given twice (AUTOINCREMENT in   *)
(* Database::migrate), and rows keep theirs.                                *)
THEOREM IdsNameTheirRowsHolds == RecordsSpec => []IdsNameTheirRows
<1>1. IdsInv => IdsNameTheirRows
  BY DEF IdsInv, GivenTo, IdsNameTheirRows
<1> QED BY <1>1, IdsInvHolds, PTL

\* What the tables, the pages and the scheduler's pass hold
TablesAre ==
  /\ day \in 0..MaxDay /\ made \in 0..MaxRows /\ rec.last \in 0..MaxRows
  /\ \A t \in Tables : rec.rows[t] \subseteq Rows /\ rec.seq[t] <= made

AnswersGivenOut == {"none", "ok", "insert failed", "not found", "page"}
HeldIs ==
  /\ held.page \subseteq Rows /\ held.pass \subseteq Rows /\ held.history \subseteq Rows
  /\ held.passes \in 0..Passes /\ held.answer \in AnswersGivenOut

(* A row, and what the two kinds of UPDATE make of it.                      *)
LEMMA RowFields ==
  /\ MaxRows \in Nat /\ MaxDay \in Nat /\ Passes \in Nat
  /\ \A id \in 1..MaxRows, at \in 0..MaxDay, born \in 1..MaxRows, of \in 0..MaxRows,
        due \in 0..MaxDay + 1, notes \in {0, 1} :
       [id |-> id, at |-> at, born |-> born, of |-> of, due |-> due, notes |-> notes] \in Rows
  /\ \A r \in Rows :
       /\ r.id \in 1..MaxRows /\ r.at \in 0..MaxDay /\ r.born \in 1..MaxRows
       /\ r.of \in 0..MaxRows /\ r.due \in 0..MaxDay + 1 /\ r.notes \in {0, 1}
       /\ r = [id |-> r.id, at |-> r.at, born |-> r.born, of |-> r.of, due |-> r.due,
               notes |-> r.notes]
<1>1. MaxRows \in Nat /\ MaxDay \in Nat /\ Passes \in Nat
  BY RecordsAssumption
<1>2. ASSUME NEW id \in 1..MaxRows, NEW at \in 0..MaxDay, NEW born \in 1..MaxRows,
             NEW of \in 0..MaxRows, NEW due \in 0..MaxDay + 1, NEW notes \in {0, 1}
      PROVE  [id |-> id, at |-> at, born |-> born, of |-> of, due |-> due, notes |-> notes] \in Rows
  BY DEF Rows
<1>3. ASSUME NEW r \in Rows
      PROVE  /\ r.id \in 1..MaxRows /\ r.at \in 0..MaxDay /\ r.born \in 1..MaxRows
             /\ r.of \in 0..MaxRows /\ r.due \in 0..MaxDay + 1 /\ r.notes \in {0, 1}
             /\ r = [id |-> r.id, at |-> r.at, born |-> r.born, of |-> r.of, due |-> r.due,
                     notes |-> r.notes]
  BY DEF Rows
<1> QED BY <1>1, <1>2, <1>3

(* A row with its notes, or put off to tomorrow, is a row.                  *)
LEMMA RowChanged ==
  ASSUME day \in 0..MaxDay, NEW r \in Rows
  PROVE  Noted(r) \in Rows /\ NextRun(r) \in Rows
<1>1. /\ Noted(r) = [id |-> r.id, at |-> r.at, born |-> r.born, of |-> r.of, due |-> r.due, notes |-> 1]
      /\ NextRun(r) = [id |-> r.id, at |-> r.at, born |-> r.born, of |-> r.of, due |-> day + 1,
                       notes |-> r.notes]
  <2>1. r = [id |-> r.id, at |-> r.at, born |-> r.born, of |-> r.of, due |-> r.due, notes |-> r.notes]
    BY RowFields
  <2> QED BY <2>1 DEF Noted, NextRun
<1>2. day + 1 \in 0..MaxDay + 1
  BY RowFields
<1>3. /\ r.id \in 1..MaxRows /\ r.at \in 0..MaxDay /\ r.born \in 1..MaxRows
      /\ r.of \in 0..MaxRows /\ r.due \in 0..MaxDay + 1 /\ r.notes \in {0, 1}
  BY RowFields
<1>4. 1 \in {0, 1}
  OBVIOUS
<1>5. Noted(r) \in Rows
  <2>1. [id |-> r.id, at |-> r.at, born |-> r.born, of |-> r.of, due |-> r.due, notes |-> 1] \in Rows
    BY <1>3, <1>4 DEF Rows
  <2> QED BY <1>1, <2>1, Zenon
<1>6. NextRun(r) \in Rows
  <2>1. [id |-> r.id, at |-> r.at, born |-> r.born, of |-> r.of, due |-> day + 1, notes |-> r.notes]
          \in Rows
    BY <1>2, <1>3 DEF Rows
  <2> QED BY <1>1, <2>1, Zenon
<1> QED BY <1>5, <1>6

(* One step: every row that is made has its fields.                         *)
LEMMA TablesStep ==
  ASSUME IdsInv, TablesAre, HeldIs, RecordsNext
  PROVE  TablesAre'
<1>1. /\ DOMAIN rec = {"rows", "seq", "last"} /\ DOMAIN rec.rows = Tables /\ DOMAIN rec.seq = Tables
      /\ \A t \in Tables : rec.seq[t] \in Nat
  BY DEF IdsInv, RowsInv
<1>2. {"test_schedules", "test_runs", "test_telemetry"} \subseteq Tables /\ Samples \subseteq Tables
  BY DEF Tables, Samples
<1>3. ASSUME NEW table \in Tables, NEW of \in 0..MaxRows, rec' = With(table, of), made < MaxRows,
             made' = made + 1, UNCHANGED day
      PROVE  TablesAre'
  <2>1. /\ \A t \in Tables : /\ rec'.rows[t] = IF t = table THEN rec.rows[t] \union {Row(t, of)}
                                               ELSE rec.rows[t]
                             /\ rec'.seq[t] = IF t = table THEN rec.seq[t] + 1 ELSE rec.seq[t]
        /\ rec'.last = rec.seq[table] + 1
    BY <1>1, <1>3 DEF With, NextId
  <2>2. ASSUME NEW t \in Tables PROVE Row(t, of) \in Rows
    <3>1. /\ rec.seq[t] + 1 \in 1..MaxRows /\ day \in 0..MaxDay /\ made + 1 \in 1..MaxRows
          /\ day + 1 \in 0..MaxDay + 1
      BY <1>1, <1>3, RowFields DEF TablesAre
    <3> QED BY <3>1, RowFields DEF Row, NextId
  <2>3. made' \in 0..MaxRows /\ rec'.last \in 0..MaxRows
    BY <1>1, <1>3, <2>1, RowFields DEF TablesAre
  <2>4. \A t \in Tables : rec'.rows[t] \subseteq Rows
    BY <2>1, <2>2 DEF TablesAre
  <2>5. ASSUME NEW t \in Tables PROVE rec'.seq[t] <= made'
    <3>1. rec'.seq[t] = rec.seq[t] \/ rec'.seq[t] = rec.seq[t] + 1
      BY <2>1
    <3>2. rec.seq[t] \in Nat /\ rec.seq[t] <= made /\ made \in Nat
      BY <1>1 DEF TablesAre
    <3> QED BY <1>3, <3>1, <3>2
  <2> QED BY <1>3, <2>3, <2>4, <2>5 DEF TablesAre
<1>4. ASSUME \A t \in Tables : rec'.rows[t] \subseteq rec.rows[t], rec'.seq = rec.seq,
             rec'.last = rec.last \/ rec'.last = 0, UNCHANGED made, day' \in 0..MaxDay
      PROVE  TablesAre'
  BY <1>4, RowFields DEF TablesAre
<1>5. ASSUME UNCHANGED <<rec, made, day>> PROVE TablesAre'
  BY <1>5 DEF TablesAre
<1>6. ASSUME NEW table \in Tables, NEW id, UNCHANGED <<made, day>>,
             rec' = Updated(table, id, Noted) \/ rec' = Updated(table, id, NextRun)
      PROVE  TablesAre'
  <2>1. /\ rec'.seq = rec.seq /\ rec'.last = rec.last
        /\ \A t \in Tables : t # table => rec'.rows[t] = rec.rows[t]
        /\ \/ rec'.rows[table] = {IF r.id = id THEN Noted(r) ELSE r : r \in rec.rows[table]}
           \/ rec'.rows[table] = {IF r.id = id THEN NextRun(r) ELSE r : r \in rec.rows[table]}
    BY <1>1, <1>6 DEF Updated
  <2>2. rec.rows[table] \subseteq Rows /\ day \in 0..MaxDay
    BY DEF TablesAre
  <2>3. \A r \in rec.rows[table] : r \in Rows /\ Noted(r) \in Rows /\ NextRun(r) \in Rows
    BY <2>2, RowChanged
  <2>4. rec'.rows[table] \subseteq Rows
    BY <2>1, <2>3
  <2> QED BY <1>6, <2>1, <2>4 DEF TablesAre
<1>7. ASSUME NEW table \in Tables, NEW of \in 0..MaxRows, Create(table, of), UNCHANGED day
      PROVE  TablesAre'
  BY <1>3, <1>7 DEF Create
<1>8. 0 \in 0..MaxRows
  BY RowFields
<1>9. ASSUME NEW fails \in BOOLEAN, PostSchedule(fails) PROVE TablesAre'
  <2>1. CASE fails
    <3>1. UNCHANGED <<rec, made, day>>
      BY <1>9, <2>1, Zenon DEF PostSchedule
    <3> QED BY <1>5, <3>1
  <2>2. CASE ~fails
    <3>1. Create("test_schedules", 0) /\ UNCHANGED day
      BY <1>9, <2>2, Zenon DEF PostSchedule
    <3> QED BY <1>2, <1>7, <1>8, <3>1
  <2> QED BY <2>1, <2>2
<1>10. ASSUME NEW id, DeleteSchedule(id) PROVE TablesAre'
  <2>1. rec' = Without("test_schedules", id) /\ UNCHANGED <<made, day>>
    BY <1>10, Zenon DEF DeleteSchedule
  <2>2. /\ rec'.seq = rec.seq /\ rec'.last = rec.last
        /\ \A t \in Tables : rec'.rows[t] \subseteq rec.rows[t]
    BY <1>1, <2>1 DEF Without
  <2> QED BY <1>4, <2>1, <2>2 DEF TablesAre
<1>11. ASSUME NEW id, PostNotes(id) PROVE TablesAre'
  <2>1. rec' = Updated("test_runs", id, Noted) /\ UNCHANGED <<made, day>>
    BY <1>11, Zenon DEF PostNotes
  <2>2. "test_runs" \in Tables
    BY <1>2
  <2> QED BY <1>6, <2>1, <2>2, Zenon
<1>12. ASSUME \/ GetSchedules \/ GetTests \/ GetCapacity \/ GetSolarPerformance
              \/ \E id \in PageIds("test_runs") : GetTest(id)
              \/ \E id \in PageIds("test_runs") : GetTelemetry(id)
       PROVE  TablesAre'
  <2>1. UNCHANGED <<rec, made, day>>
    BY <1>12, Zenon DEF GetSchedules, GetTests, GetCapacity, GetSolarPerformance, GetTest, GetTelemetry,
          Show
  <2> QED BY <1>5, <2>1
<1>13. ASSUME LoadPass PROVE TablesAre'
  BY <1>5, <1>13 DEF LoadPass
<1>14. ASSUME Skip PROVE TablesAre'
  BY <1>2, <1>6, <1>14 DEF Skip
<1>15. ASSUME Postpone PROVE TablesAre'
  BY <1>2, <1>6, <1>15 DEF Postpone
<1>16. ASSUME StartRun PROVE TablesAre'
  <2>1. PICK r \in held.pass : Create("test_runs", r.born) /\ UNCHANGED day
    BY <1>16 DEF StartRun
  <2>2. r \in Rows
    BY DEF HeldIs
  <2>3. r.born \in 0..MaxRows
    BY <2>2, RowFields
  <2> QED BY <1>2, <1>7, <2>1, <2>3
<1>17. ASSUME StartTest PROVE TablesAre'
  BY <1>2, <1>7, <1>8, <1>17 DEF StartTest
<1>18. ASSUME Keep PROVE TablesAre'
  <2>1. /\ \E table \in Samples : rec' = With(table, 0)
        /\ made < MaxRows /\ made' = made + 1 /\ UNCHANGED day
    BY <1>18 DEF Keep, Samples, insert_battery_resistance, insert_battery_capacity_test,
          insert_charger_efficiency, insert_solar_performance, insert_reading
  <2> QED BY <1>2, <1>3, <1>8, <2>1
<1>19. ASSUME NEW r \in rec.rows["test_runs"], Telemetry(r.id) PROVE TablesAre'
  <2>1. r \in Rows
    BY <1>2 DEF TablesAre
  <2>2. r.id \in 0..MaxRows
    BY <2>1, RowFields
  <2> QED BY <1>2, <1>3, <1>19, <2>2 DEF Telemetry, insert_test_telemetry
<1>20. ASSUME NEW failed, Cleanup(failed) PROVE TablesAre'
  <2>1. /\ rec'.seq = rec.seq /\ rec'.last = rec.last /\ UNCHANGED <<made, day>>
        /\ \A t \in Tables : rec'.rows[t] \subseteq rec.rows[t]
    BY <1>1, <1>20 DEF Cleanup
  <2> QED BY <1>4, <2>1 DEF TablesAre
<1>21. ASSUME NextDay PROVE TablesAre'
  <2>1. day' \in 0..MaxDay
    BY <1>21, RowFields DEF NextDay, TablesAre
  <2> QED BY <1>4, <1>21, <2>1 DEF NextDay
<1>22. ASSUME RestartProgram PROVE TablesAre'
  <2>1. rec'.rows = rec.rows /\ rec'.seq = rec.seq /\ rec'.last = 0 /\ UNCHANGED <<made, day>>
    BY <1>1, <1>22 DEF RestartProgram
  <2> QED BY <1>4, <2>1 DEF TablesAre
<1> QED BY <1>9, <1>10, <1>11, <1>12, <1>13, <1>14, <1>15, <1>16, <1>17, <1>18, <1>19, <1>20, <1>21,
         <1>22 DEF RecordsNext

LEMMA HeldIsStep ==
  ASSUME IdsInv, TablesAre, HeldIs, RecordsNext
  PROVE  HeldIs'
<1>1. DOMAIN held = {"page", "of", "history", "pass", "turn", "passes", "answer"}
  BY DEF IdsInv
<1>2. {"ok", "page"} \subseteq AnswersGivenOut /\ held.answer \in AnswersGivenOut
  BY Zenon DEF AnswersGivenOut, HeldIs
<1>3. Holding
  BY HeldStep
<1>4. \A t \in Tables : rec.rows[t] \subseteq Rows
  BY DEF TablesAre
<1>5. held'.page \subseteq Rows /\ held'.pass \subseteq Rows
  <2>1. "test_schedules" \in Tables
    BY DEF Tables
  <2> QED BY <1>3, <1>4, <2>1 DEF Holding, HeldIs
<1> DEFINE Rest == held'.history \subseteq Rows /\ held'.passes \in 0..Passes
                   /\ held'.answer \in AnswersGivenOut
<1>6. ASSUME UNCHANGED held PROVE Rest
  BY <1>6 DEF HeldIs
<1>7. ASSUME NEW answer \in AnswersGivenOut, held' = [held EXCEPT !.answer = answer] PROVE Rest
  BY <1>1, <1>7 DEF HeldIs
<1>8. ASSUME NEW table, NEW rows, Show(table, rows) PROVE Rest
  BY <1>1, <1>2, <1>8 DEF Show, HeldIs
<1>9. ASSUME NEW fails \in BOOLEAN, PostSchedule(fails) PROVE Rest
  <2>1. \E answer \in AnswersGivenOut : held' = [held EXCEPT !.answer = answer]
    <3>1. CASE rec'.last > 0
      <4>1. held' = [held EXCEPT !.answer = "ok"]
        BY <1>9, <3>1, Zenon DEF PostSchedule
      <4> QED BY <1>2, <4>1, Zenon
    <3>2. CASE ~(rec'.last > 0)
      BY <1>9, <3>2, Zenon DEF PostSchedule, AnswersGivenOut
    <3> QED BY <3>1, <3>2
  <2> QED BY <1>7, <2>1
<1>10. ASSUME NEW id, DeleteSchedule(id) PROVE Rest
  <2>1. \E answer \in AnswersGivenOut : held' = [held EXCEPT !.answer = answer]
    <3>1. CASE rec' # rec
      BY <1>10, <3>1, Zenon DEF DeleteSchedule, AnswersGivenOut
    <3>2. CASE rec' = rec
      BY <1>10, <3>2, Zenon DEF DeleteSchedule, AnswersGivenOut
    <3> QED BY <3>1, <3>2
  <2> QED BY <1>7, <2>1
<1>11. ASSUME NEW id, PostNotes(id) PROVE Rest
  BY <1>2, <1>7, <1>11 DEF PostNotes
<1>12. ASSUME GetSchedules \/ GetTests \/ GetCapacity \/ GetSolarPerformance
              \/ (\E id : GetTest(id)) \/ (\E id : GetTelemetry(id))
       PROVE  Rest
  BY <1>8, <1>12, Zenon DEF GetSchedules, GetTests, GetCapacity, GetSolarPerformance, GetTest, GetTelemetry
<1>13. ASSUME LoadPass PROVE Rest
  <2>1. held' = [held EXCEPT !.pass = {r \in load_test_schedules : r.due <= day}, !.passes = @ + 1]
        /\ held.passes < Passes
    BY <1>13 DEF LoadPass
  <2> QED BY <1>1, <2>1, RowFields DEF HeldIs
<1>14. ASSUME Skip \/ StartRun \/ Postpone PROVE Rest
  <2>1. CASE Skip
    BY <1>1, <2>1 DEF Skip, HeldIs
  <2>2. CASE StartRun
    BY <1>1, <2>2 DEF StartRun, HeldIs
  <2>3. CASE Postpone
    BY <1>1, <2>3 DEF Postpone, HeldIs
  <2> QED BY <1>14, <2>1, <2>2, <2>3
<1>15. ASSUME RestartProgram PROVE Rest
  <2>1. "battery_readings" \in Tables /\ "charger_readings" \in Tables
    BY DEF Tables, Samples
  <2>2. PICK batteries \in load_battery_history(HistoryN), chg \in load_charger_history(HistoryN) :
          held' = [held EXCEPT !.pass = {}, !.turn = {}, !.history = batteries \union chg]
    BY <1>15, Zenon DEF RestartProgram
  <2>3. batteries \subseteq Rows /\ chg \subseteq Rows
    BY <1>4, <2>1 DEF load_battery_history, load_charger_history, NewestRows
  <2> QED BY <1>1, <2>2, <2>3 DEF HeldIs
<1>16. ASSUME StartTest \/ Keep \/ (\E id : Telemetry(id)) \/ (\E failed : Cleanup(failed)) \/ NextDay
       PROVE  Rest
  <2>1. UNCHANGED held
    BY <1>16, Zenon DEF StartTest, Keep, Telemetry, Cleanup, NextDay
  <2> QED BY <1>6, <2>1
<1>17. Rest
  BY <1>9, <1>10, <1>11, <1>12, <1>13, <1>14, <1>15, <1>16 DEF RecordsNext
<1> QED BY <1>5, <1>17 DEF HeldIs

(* The rows of every table, and those that pages and passes hold, have ids, *)
(* days and origins within what was ever made; no id is ahead of the rows   *)
(* made so far (Database, AUTOINCREMENT).                                   *)
THEOREM RecordsTypes == RecordsSpec => []RecordsTypeOK
<1>1. RecordsInit => TablesAre /\ HeldIs
  <2> SUFFICES ASSUME RecordsInit PROVE TablesAre /\ HeldIs
    OBVIOUS
  <2>1. TablesAre
    BY RowFields DEF RecordsInit, TablesAre
  <2>2. /\ held.page = {} /\ held.history = {} /\ held.pass = {} /\ held.passes = 0
        /\ held.answer = "none"
    BY DEF RecordsInit
  <2>3. "none" \in AnswersGivenOut
    BY Zenon DEF AnswersGivenOut
  <2> QED BY <2>1, <2>2, <2>3, RowFields DEF HeldIs
<1>2. IdsInv /\ TablesAre /\ HeldIs /\ [RecordsNext]_recordsVars => TablesAre' /\ HeldIs'
  <2>1. CASE UNCHANGED recordsVars
    BY <2>1 DEF recordsVars, TablesAre, HeldIs
  <2> QED BY <2>1, TablesStep, HeldIsStep
<1>3. IdsInv /\ TablesAre /\ HeldIs => RecordsTypeOK
  <2> SUFFICES ASSUME IdsInv, TablesAre, HeldIs PROVE RecordsTypeOK
    OBVIOUS
  <2>1. \A t \in Tables : rec.rows[t] \subseteq Rows /\ rec.seq[t] \in 0..MaxRows
    BY RowFields DEF IdsInv, RowsInv, TablesAre
  <2>2. rec.last \in 0..MaxRows /\ day \in 0..MaxDay /\ made \in 0..MaxRows
    BY DEF TablesAre
  <2>3. held.page \union held.pass \union held.history \subseteq Rows
    BY DEF HeldIs
  <2>4. held.of \in Tables /\ held.turn \subseteq held.pass /\ held.passes \in 0..Passes
    BY DEF IdsInv, HeldIs
  <2>5. held.answer \in {"none", "ok", "insert failed", "not found", "page"}
    BY Zenon DEF HeldIs, AnswersGivenOut
  <2> QED BY <2>1, <2>2, <2>3, <2>4, <2>5, Zenon DEF RecordsTypeOK
<1> QED BY <1>1, <1>2, <1>3, IdsInvHolds, PTL DEF RecordsSpec
-----------------------------------------------------------------------------
(***** Outage *****)
GridEvents == [start : Nat, end : Nat, cls : {"unclassified"}]
Answering == poller.pc = "decide" /\ poller.st.ok = TRUE

\* Failures are counted as they happen, and the second in a row is an outage.
NoticedInv ==
  /\ DOMAIN poller = {"pc", "st", "due", "fails", "active", "since", "wasOn"}
  /\ DOMAIN truth = {"counted", "lastOk", "first", "missed", "stale", "cut"}
  /\ poller.wasOn \in BOOLEAN /\ poller.st.ok \in BOOLEAN /\ truth.missed \in BOOLEAN
  /\ poller.fails \in 0..3 /\ truth.counted = poller.fails /\ poller.active \in Nat
  /\ truth.counted >= 2 /\ poller.wasOn = TRUE /\ truth.missed = FALSE /\ ~Answering
       => poller.active > 0

\* The rows, and the times in them.
TableInv ==
  /\ DOMAIN clock = {"now", "crashes"} /\ clock.now \in Nat \ {0}
  /\ events \in Seq(GridEvents)
  /\ \A i \in 1..Len(events) : events[i].start <= clock.now /\ events[i].end <= clock.now
  /\ truth.lastOk \in 0..clock.now /\ truth.first \in Nat \ {0} /\ truth.stale \in BOOLEAN

\* The outage the poll loop is in is the newest row, and the only open one.
OpenRow ==
  /\ \A i \in truth.first .. Len(events) : events[i].end = 0 => i = poller.active
  /\ \A i \in truth.first .. Len(events) :
        i > truth.first => events[i].start >= events[i - 1].end
  /\ poller.active > 0 =>
       /\ poller.active = Len(events) /\ events[poller.active].end = 0
       /\ truth.lastOk <= events[poller.active].start \/ Answering

OutageInv == NoticedInv /\ TableInv /\ (truth.stale = FALSE => OpenRow)

-----------------------------------------------------------------------------
(* One row more, which is open; and a row closed, if it is there.           *)
LEMMA EventLogged ==
  ASSUME TableInv,
         NEW new, new = Append(events, [start |-> clock.now, end |-> 0, cls |-> "unclassified"])
  PROVE  /\ new \in Seq(GridEvents) /\ Len(new) = Len(events) + 1 /\ Len(events) \in Nat
         /\ \A i \in 1..Len(events) : new[i] = events[i]
         /\ new[Len(new)] = [start |-> clock.now, end |-> 0, cls |-> "unclassified"]
<1> DEFINE e == [start |-> clock.now, end |-> 0, cls |-> "unclassified"]
<1>1. e \in GridEvents
  BY DEF TableInv, GridEvents
<1> HIDE DEF e
<1> QED BY <1>1, AppendProperties, LenProperties DEF TableInv, e

LEMMA EventClosed ==
  ASSUME TableInv, NEW id
  PROVE  /\ CloseRow(id) \in Seq(GridEvents) /\ Len(CloseRow(id)) = Len(events)
         /\ \A i \in 1..Len(events) :
              /\ CloseRow(id)[i].start = events[i].start
              /\ CloseRow(id)[i].end = IF i = id THEN clock.now ELSE events[i].end
<1>1. Len(events) \in Nat /\ DOMAIN events = 1..Len(events)
      /\ events = [i \in 1..Len(events) |-> events[i]]
      /\ \A i \in 1..Len(events) : events[i] \in GridEvents
  BY LenProperties, ElementOfSeq DEF TableInv
<1>2. CASE id \notin DOMAIN events
  BY <1>1, <1>2 DEF CloseRow, TableInv
<1>3. CASE id \in DOMAIN events
  <2> DEFINE closed == [events EXCEPT ![id].end = clock.now]
  <2>1. CloseRow(id) = closed
    BY <1>3 DEF CloseRow
  <2>2. /\ DOMAIN closed = 1..Len(events)
        /\ \A i \in 1..Len(events) :
             closed[i] = IF i = id THEN [events[i] EXCEPT !.end = clock.now] ELSE events[i]
    BY <1>1, <1>3
  <2>3. closed = [i \in 1..Len(events) |-> closed[i]]
    BY <1>1
  <2> HIDE DEF closed
  <2>4. ASSUME NEW i \in 1..Len(events)
        PROVE  /\ closed[i] \in GridEvents /\ closed[i].start = events[i].start
               /\ closed[i].end = IF i = id THEN clock.now ELSE events[i].end
    <3>1. events[i] \in GridEvents /\ clock.now \in Nat
      BY <1>1 DEF TableInv
    <3>2. CASE i = id
      <4>1. closed[i] = [events[i] EXCEPT !.end = clock.now]
        BY <2>2, <3>2
      <4> QED BY <3>1, <3>2, <4>1 DEF GridEvents
    <3>3. CASE i # id
      BY <2>2, <3>1, <3>3
    <3> QED BY <3>2, <3>3
  <2>5. closed \in Seq(GridEvents) /\ Len(closed) = Len(events)
    BY <1>1, <2>2, <2>3, <2>4, LenProperties
  <2> QED BY <2>1, <2>4, <2>5
<1> QED BY <1>2, <1>3

(* Requests and the maintenance thread leave rows and poll loop alone.      *)
LEMMA OthersLeave ==
  ASSUME Requests \/ GuardSteps \/ UNCHANGED outageVars
  PROVE  UNCHANGED <<clock, poller, events, truth>>
  BY DEF Requests, GuardSteps, StartWindow, StartWindowTime, EndWindow, LogRequest, WriteNote,
         Reclassify, TestSwitches, GuardMode, GuardStart, GuardEnds, GuardLogs, outageVars

LEMMA LeftAlone ==
  ASSUME OutageInv, UNCHANGED <<clock, poller, events, truth>>
  PROVE  OutageInv'
  BY DEF OutageInv, NoticedInv, TableInv, OpenRow, Answering

LEMMA TickStep ==
  ASSUME OutageInv, Tick
  PROVE  OutageInv'
<1>1. /\ DOMAIN clock' = DOMAIN clock /\ clock'.now = clock.now + 1
      /\ UNCHANGED <<events, poller, truth>>
  BY DEF Tick, OutageInv, TableInv
<1>2. NoticedInv'
  BY <1>1 DEF OutageInv, NoticedInv, Answering
<1>3. ASSUME NEW i \in 1..Len(events)
      PROVE  events[i].start <= clock'.now /\ events[i].end <= clock'.now
  <2>1. events[i] \in GridEvents
    BY ElementOfSeq DEF OutageInv, TableInv
  <2>2. events[i].start \in Nat /\ events[i].end \in Nat
    BY <2>1 DEF GridEvents
  <2> QED BY <1>1, <2>2 DEF OutageInv, TableInv
<1>4. TableInv'
  BY <1>1, <1>3 DEF OutageInv, TableInv
<1> QED BY <1>1, <1>2, <1>4 DEF OutageInv, OpenRow, Answering

(* An answer is in hand until it is decided about.                          *)
LEMMA AskStep ==
  ASSUME OutageInv, PollAsk
  PROVE  OutageInv'
<1>1. PICK r \in Replies :
        LET st == Status(r[1], r[2], r[3]) IN
        /\ poller' = [poller EXCEPT !.pc = "decide", !.st = st, !.wasOn = @ \/ (st.ok /\ st.on),
                                    !.due = clock.now + (IF st.ok THEN 3 ELSE 1)]
        /\ truth' = [truth EXCEPT !.lastOk = IF st.ok THEN clock.now ELSE @]
  BY DEF PollAsk
<1> DEFINE st == Status(r[1], r[2], r[3])
<1>2. st.ok \in BOOLEAN
  BY DEF Status
<1> HIDE DEF st
<1>3. /\ DOMAIN poller' = DOMAIN poller /\ DOMAIN truth' = DOMAIN truth
      /\ poller'.pc = "decide" /\ poller'.st = st /\ poller'.active = poller.active
      /\ poller'.fails = poller.fails
      /\ \A f \in {"counted", "first", "missed", "stale"} : truth'[f] = truth[f]
  BY <1>1 DEF st, OutageInv, NoticedInv
<1>4. truth'.lastOk = IF st.ok = TRUE THEN clock.now ELSE truth.lastOk
  BY <1>1, <1>2 DEF st, OutageInv, NoticedInv
<1>5. poller'.wasOn \in BOOLEAN /\ (st.ok = FALSE => poller'.wasOn = poller.wasOn)
  <2>1. poller'.wasOn = (poller.wasOn \/ (st.ok /\ st.on))
    BY <1>1 DEF st, OutageInv, NoticedInv
  <2>2. poller.wasOn \in BOOLEAN
    BY DEF OutageInv, NoticedInv
  <2> HIDE DEF st
  <2> QED BY <1>2, <2>1, <2>2, Zenon
<1>6. poller.pc = "sleep" /\ UNCHANGED <<events, clock>>
  BY DEF PollAsk
<1>7. NoticedInv'
  BY <1>2, <1>3, <1>5, <1>6 DEF OutageInv, NoticedInv, Answering
<1>8. TableInv'
  BY <1>3, <1>4, <1>6 DEF OutageInv, TableInv
<1>9. ASSUME truth.stale = FALSE PROVE OpenRow'
  <2>1. CASE st.ok = TRUE
    BY <1>3, <1>6, <1>9, <2>1 DEF OutageInv, OpenRow, Answering
  <2>2. CASE st.ok # TRUE
    BY <1>3, <1>4, <1>6, <1>9, <2>2 DEF OutageInv, OpenRow, Answering
  <2> QED BY <2>1, <2>2
<1> QED BY <1>3, <1>7, <1>8, <1>9 DEF OutageInv

(* Silence: excused, counted, or the beginning of an outage.                *)
LEMMA FailedStep ==
  ASSUME OutageInv, PollFailed
  PROVE  OutageInv'
<1>1. /\ poller.pc = "decide" /\ ~poller.st.ok /\ UNCHANGED clock /\ ~Answering
  BY DEF PollFailed, Answering
<1>2. CASE Excused
  <2>1. poller' = [poller EXCEPT !.pc = "sleep"] /\ UNCHANGED <<events, truth, clock>>
    BY <1>1, <1>2 DEF PollFailed
  <2>2. /\ DOMAIN poller' = DOMAIN poller /\ poller'.pc = "sleep"
        /\ \A f \in {"st", "fails", "active", "wasOn"} : poller'[f] = poller[f]
    BY <2>1 DEF OutageInv, NoticedInv
  <2> QED BY <1>1, <2>1, <2>2 DEF OutageInv, NoticedInv, TableInv, OpenRow, Answering
<1> DEFINE begins == poller.fails + 1 = 2 /\ poller.active = 0 /\ poller.wasOn
<1>3. CASE ~Excused /\ begins
  <2>1. PICK id \in InsertIds :
          /\ poller' = [poller EXCEPT !.pc = "sleep", !.fails = 2, !.active = id, !.since = clock.now]
          /\ events' = IF Inserted(id) = "row"
                       THEN Append(events, [start |-> clock.now, end |-> 0, cls |-> "unclassified"])
                       ELSE events
          /\ truth' = [truth EXCEPT !.counted = 2, !.missed = Inserted(id) # "row",
                                    !.stale = @ \/ Inserted(id) = "stale"]
    BY <1>3 DEF PollFailed
  <2>2. Len(events) \in Nat /\ id \in Nat
    BY LenProperties DEF InsertIds, OutageInv, TableInv
  <2>3. /\ DOMAIN poller' = DOMAIN poller /\ DOMAIN truth' = DOMAIN truth
        /\ poller'.pc = "sleep" /\ poller'.fails = 2 /\ poller'.active = id
        /\ poller'.st = poller.st /\ poller'.wasOn = poller.wasOn /\ truth'.counted = 2
        /\ truth'.lastOk = truth.lastOk /\ truth'.first = truth.first
    BY <2>1 DEF OutageInv, NoticedInv
  <2>4. /\ truth'.missed = (Inserted(id) # "row")
        /\ truth'.stale = (truth.stale \/ Inserted(id) = "stale")
    BY <2>1 DEF OutageInv, NoticedInv
  <2>5. /\ truth'.missed \in BOOLEAN /\ truth'.stale \in BOOLEAN
        /\ truth'.missed = FALSE <=> Inserted(id) = "row"
        /\ truth'.stale = FALSE => truth.stale = FALSE /\ Inserted(id) # "stale"
    <3>1. truth.stale \in BOOLEAN
      BY DEF OutageInv, TableInv
    <3> QED BY <2>4, <3>1, Zenon
  <2>6. /\ Inserted(id) = "row" => id = Len(events) + 1
        /\ Inserted(id) \notin {"row", "stale"} => id = 0
    BY <2>2 DEF Inserted, InsertIds
  <2>7. NoticedInv'
    BY <2>2, <2>3, <2>5, <2>6 DEF OutageInv, NoticedInv
  <2>8. CASE Inserted(id) # "row"
    <3>1. UNCHANGED events
      BY <2>1, <2>8
    <3>2. TableInv'
      BY <1>1, <2>3, <2>5, <3>1 DEF OutageInv, TableInv
    <3>3. ASSUME truth'.stale = FALSE PROVE OpenRow'
      <4>1. truth.stale = FALSE /\ id = 0
        BY <2>5, <2>6, <2>8, <3>3
      <4> QED BY <1>3, <2>3, <3>1, <4>1 DEF OutageInv, OpenRow
    <3> QED BY <2>7, <3>2, <3>3 DEF OutageInv
  <2>9. CASE Inserted(id) = "row"
    <3>1. events' = Append(events, [start |-> clock.now, end |-> 0, cls |-> "unclassified"])
          /\ id = Len(events) + 1
      BY <2>1, <2>6, <2>9
    <3>2. /\ events' \in Seq(GridEvents) /\ Len(events') = Len(events) + 1
          /\ \A i \in 1..Len(events) : events'[i] = events[i]
          /\ events'[Len(events) + 1] = [start |-> clock.now, end |-> 0, cls |-> "unclassified"]
      BY <3>1, EventLogged DEF OutageInv
    <3>3. events'[Len(events) + 1].start = clock.now /\ events'[Len(events) + 1].end = 0
      BY <3>2
    <3>4. clock.now \in Nat \ {0} /\ truth.lastOk \in 0..clock.now /\ truth.first \in Nat \ {0}
          /\ \A i \in 1..Len(events) : events[i].start <= clock.now /\ events[i].end <= clock.now
      BY DEF OutageInv, TableInv
    <3>5. TableInv'
      <4>1. ASSUME NEW i \in 1..Len(events')
            PROVE  events'[i].start <= clock.now /\ events'[i].end <= clock.now
        <5>1. CASE i = Len(events) + 1
          BY <3>3, <3>4, <5>1
        <5>2. CASE i # Len(events) + 1
          <6>1. i \in 1..Len(events)
            BY <2>2, <3>2, <5>2
          <6> QED BY <3>2, <3>4, <6>1
        <5> QED BY <5>1, <5>2
      <4> QED BY <1>1, <2>3, <2>5, <3>2, <4>1 DEF OutageInv, TableInv
    <3>6. ASSUME truth'.stale = FALSE PROVE OpenRow'
      <4>1. OpenRow /\ poller.active = 0
        BY <1>3, <2>5, <3>6 DEF OutageInv
      <4>2. ASSUME NEW i \in truth.first .. (Len(events) + 1), i # Len(events) + 1
            PROVE  i \in truth.first .. Len(events) /\ i \in 1..Len(events)
        BY <2>2, <3>4, <4>2
      <4>3. \A i \in truth.first .. Len(events') : events'[i].end = 0 => i = poller'.active
        BY <2>3, <3>1, <3>2, <3>4, <4>1, <4>2 DEF OpenRow
      <4>4. ASSUME NEW i \in truth.first .. Len(events'), i > truth.first
            PROVE  events'[i].start >= events'[i - 1].end
        <5>1. i - 1 \in 1..Len(events)
          BY <2>2, <3>2, <3>4, <4>4
        <5>2. CASE i = Len(events) + 1
          BY <3>2, <3>3, <3>4, <5>1, <5>2
        <5>3. CASE i # Len(events) + 1
          BY <3>2, <4>1, <4>2, <4>4, <5>1, <5>3 DEF OpenRow
        <5> QED BY <5>2, <5>3
      <4> QED BY <2>3, <3>1, <3>2, <3>3, <3>4, <4>3, <4>4 DEF OpenRow
    <3> QED BY <2>7, <3>5, <3>6 DEF OutageInv
  <2> QED BY <2>8, <2>9
<1>4. CASE ~Excused /\ ~begins
  <2>1. /\ poller' = [poller EXCEPT !.pc = "sleep", !.fails = Min({@ + 1, 3})]
        /\ truth' = [truth EXCEPT !.counted = Min({@ + 1, 3})]
        /\ UNCHANGED events
    BY <1>4 DEF PollFailed
  <2>2. ASSUME NEW n \in 0..3 PROVE Min({n + 1, 3}) = IF n = 3 THEN 3 ELSE n + 1
    BY DEF Min
  <2>3. /\ DOMAIN poller' = DOMAIN poller /\ DOMAIN truth' = DOMAIN truth /\ poller'.pc = "sleep"
        /\ \A f \in {"st", "active", "wasOn"} : poller'[f] = poller[f]
        /\ \A f \in {"lastOk", "first", "missed", "stale"} : truth'[f] = truth[f]
        /\ poller'.fails = Min({poller.fails + 1, 3}) /\ truth'.counted = Min({truth.counted + 1, 3})
    BY <2>1 DEF OutageInv, NoticedInv
  <2>4. /\ poller'.fails = truth'.counted /\ poller'.fails \in 0..3
        /\ truth'.counted >= 2 => truth.counted >= 2 \/ poller.fails = 1
    BY <2>2, <2>3 DEF OutageInv, NoticedInv
  <2>5. NoticedInv'
    <3>1. poller.fails = 1 /\ poller.wasOn = TRUE => poller.active # 0
      BY <1>4
    <3> QED BY <1>1, <2>3, <2>4, <3>1 DEF OutageInv, NoticedInv, Answering
  <2> QED BY <1>1, <2>1, <2>3, <2>5 DEF OutageInv, TableInv, OpenRow, Answering
<1> QED BY <1>2, <1>3, <1>4

(* An answer ends the outage, and its row is closed.                        *)
LEMMA AnsweredStep ==
  ASSUME OutageInv, PollAnswered
  PROVE  OutageInv'
<1>1. /\ UNCHANGED clock
      /\ poller' = AnswerIn(poller) /\ truth' = [truth EXCEPT !.counted = 0, !.missed = FALSE]
      /\ events' = IF poller.active > 0 THEN CloseRow(poller.active) ELSE events
  BY DEF PollAnswered
<1>2. /\ DOMAIN poller' = DOMAIN poller /\ DOMAIN truth' = DOMAIN truth
      /\ poller'.pc = "sleep" /\ poller'.active = 0 /\ poller'.fails = 0
      /\ poller'.st = poller.st /\ poller'.wasOn = poller.wasOn
      /\ truth'.counted = 0 /\ truth'.missed = FALSE
      /\ \A f \in {"lastOk", "first", "stale"} : truth'[f] = truth[f]
  BY <1>1 DEF AnswerIn, OutageInv, NoticedInv
<1>3. NoticedInv'
  <2>1. poller'.wasOn \in BOOLEAN /\ poller'.st.ok \in BOOLEAN
    <3>1. poller.wasOn \in BOOLEAN /\ poller.st.ok \in BOOLEAN
      BY DEF OutageInv, NoticedInv
    <3> QED BY <1>2, <3>1
  <2>2. truth'.missed \in BOOLEAN
    BY <1>2
  <2>3. DOMAIN poller' = {"pc", "st", "due", "fails", "active", "since", "wasOn"}
        /\ DOMAIN truth' = {"counted", "lastOk", "first", "missed", "stale", "cut"}
    BY <1>2 DEF OutageInv, NoticedInv
  <2> QED BY <1>2, <2>1, <2>2, <2>3 DEF NoticedInv
<1>4. /\ events' \in Seq(GridEvents) /\ Len(events') = Len(events)
      /\ \A i \in 1..Len(events) :
           /\ events'[i].start = events[i].start
           /\ events'[i].end = IF poller.active > 0 /\ i = poller.active THEN clock.now
                               ELSE events[i].end
  BY <1>1, EventClosed DEF OutageInv, TableInv
<1>5. /\ clock.now \in Nat \ {0} /\ truth.first \in Nat \ {0} /\ Len(events) \in Nat
      /\ \A i \in 1..Len(events) : events[i].start <= clock.now /\ events[i].end <= clock.now
  BY LenProperties DEF OutageInv, TableInv
<1>6. TableInv'
  BY <1>1, <1>2, <1>4, <1>5 DEF OutageInv, TableInv
<1>7. ASSUME truth'.stale = FALSE PROVE OpenRow'
  <2>1. OpenRow /\ poller.active \in Nat
    BY <1>2, <1>7 DEF OutageInv, NoticedInv
  <2>2. ASSUME NEW i \in truth.first .. Len(events)
        PROVE  events'[i].end # 0
               /\ (i > truth.first => events'[i].start >= events'[i - 1].end)
    <3>1. i \in 1..Len(events) /\ (i > truth.first => i - 1 \in 1..Len(events))
      BY <1>5, <2>2
    <3>2. events'[i].end # 0
      BY <1>4, <1>5, <2>1, <2>2, <3>1 DEF OpenRow
    <3>3. ASSUME i > truth.first PROVE events'[i - 1].end = events[i - 1].end
      BY <1>4, <1>5, <2>1, <2>2, <3>1, <3>3 DEF OpenRow
    <3> QED BY <1>4, <2>1, <2>2, <3>1, <3>2, <3>3 DEF OpenRow
  <2> QED BY <1>2, <1>4, <2>2 DEF OpenRow
<1> QED BY <1>3, <1>6, <1>7 DEF OutageInv

(* After a crash the open row of the last run is nobody's.                  *)
LEMMA CrashStep ==
  ASSUME OutageInv, CrashAndStart
  PROVE  OutageInv'
<1>1. /\ UNCHANGED events /\ poller' = [NewPoller EXCEPT !.due = clock.now]
      /\ DOMAIN clock' = DOMAIN clock /\ clock'.now = clock.now
      /\ truth' = [truth EXCEPT !.counted = 0, !.missed = FALSE, !.first = Len(events) + 1,
                                !.cut = @ \/ (request.pc = "time" /\ set.start = 0)]
  BY DEF CrashAndStart, OutageInv, TableInv
<1>2. /\ DOMAIN truth' = DOMAIN truth /\ truth'.counted = 0 /\ truth'.missed = FALSE
      /\ truth'.first = Len(events) + 1 /\ truth'.lastOk = truth.lastOk /\ truth'.stale = truth.stale
  BY <1>1 DEF OutageInv, NoticedInv
<1>3. /\ DOMAIN poller' = {"pc", "st", "due", "fails", "active", "since", "wasOn"}
      /\ poller'.pc = "sleep" /\ poller'.fails = 0 /\ poller'.active = 0 /\ poller'.wasOn = FALSE
      /\ poller'.st.ok = FALSE
  BY <1>1 DEF NewPoller, Status
<1>4. Len(events) \in Nat
  BY LenProperties DEF OutageInv, TableInv
<1>5. NoticedInv'
  <2>1. poller'.wasOn \in BOOLEAN /\ poller'.st.ok \in BOOLEAN
    BY <1>3
  <2>2. truth'.missed \in BOOLEAN
    BY <1>2
  <2>3. DOMAIN truth' = {"counted", "lastOk", "first", "missed", "stale", "cut"}
    BY <1>2 DEF OutageInv, NoticedInv
  <2> QED BY <1>2, <1>3, <2>1, <2>2, <2>3 DEF NoticedInv
<1>6. TableInv'
  BY <1>1, <1>2, <1>4 DEF OutageInv, TableInv
<1>7. OpenRow'
  BY <1>1, <1>2, <1>3, <1>4 DEF OpenRow
<1> QED BY <1>5, <1>6, <1>7 DEF OutageInv

(* The table and what the poll loop takes for an outage, in every state.    *)
LEMMA OutageInvHolds == OutageSpec => []OutageInv
<1>1. OutageInit => OutageInv
  <2> SUFFICES ASSUME OutageInit PROVE OutageInv
    OBVIOUS
  <2>1. /\ events = <<>> /\ poller = NewPoller /\ clock = [now |-> 1, crashes |-> 0]
        /\ truth = [counted |-> 0, lastOk |-> 0, first |-> 1, missed |-> FALSE, stale |-> FALSE,
                    cut |-> FALSE]
    BY DEF OutageInit
  <2>2. /\ DOMAIN poller = {"pc", "st", "due", "fails", "active", "since", "wasOn"}
        /\ poller.pc = "sleep" /\ poller.fails = 0 /\ poller.active = 0 /\ poller.wasOn = FALSE
        /\ poller.st.ok = FALSE
    BY <2>1 DEF NewPoller, Status
  <2>3. events \in Seq(GridEvents) /\ Len(events) = 0
    BY <2>1, EmptySeq
  <2>4. NoticedInv
    <3>1. poller.wasOn \in BOOLEAN /\ poller.st.ok \in BOOLEAN /\ truth.missed \in BOOLEAN
          /\ truth.counted = 0
      BY <2>1, <2>2
    <3> QED BY <2>1, <2>2, <3>1 DEF NoticedInv
  <2>5. TableInv
    BY <2>1, <2>3 DEF TableInv
  <2>6. OpenRow
    BY <2>1, <2>2, <2>3 DEF OpenRow
  <2> QED BY <2>4, <2>5, <2>6 DEF OutageInv
<1>2. OutageInv /\ [OutageNext]_outageVars => OutageInv'
  BY OthersLeave, LeftAlone, TickStep, AskStep, FailedStep, AnsweredStep, CrashStep
     DEF OutageNext, PollSteps
<1> QED BY <1>1, <1>2, PTL DEF OutageSpec

(* An outage that nothing excuses is on record, once, with the time it      *)
(* lasted: the rows of a run do not overlap, all but that of an outage that *)
(* still lasts are closed, and no answer of the switch falls into it        *)
(* (shelly_poll_loop), whatever requests, the maintenance thread and        *)
(* crashes do in between.  Only an INSERT that fails may lose one.          *)
THEOREM OutagesAreRecordedHolds == OutageSpec => []OutagesAreRecorded
<1>1. OutageInv => OutagesAreRecorded
  <2> SUFFICES ASSUME OutageInv PROVE OutagesAreRecorded
    OBVIOUS
  <2>1. ASSUME NEW i \in DOMAIN events PROVE events[i].cls = "unclassified" /\ events[i].end \in Nat
    <3>1. events[i] \in GridEvents
      BY ElementOfSeq, LenProperties DEF OutageInv, TableInv
    <3> QED BY <3>1 DEF GridEvents
  <2>2. Unclassified(events) = {i \in DOMAIN events : events[i].end > 0}
    BY <2>1 DEF Unclassified
  <2> QED BY <2>2 DEF OutageInv, NoticedInv, TableInv, OpenRow, OutagesAreRecorded, Answering
<1> QED BY <1>1, OutageInvHolds, PTL

\* Where the request, the poll loop and the maintenance thread are
RequestAt == {"none", "time", "log start", "log end"}
GuardAt == {"sleep", "start", "end", "log"}
Placed ==
  /\ DOMAIN request = {"pc", "n", "at"} /\ request.pc \in RequestAt
  /\ guard \in GuardAt /\ poller.pc \in {"sleep", "decide"}
  /\ poller.active \in 0..MaxEventsG /\ Len(events) <= MaxEventsG

(* What a step makes of the request.                                        *)
LEMMA RequestStep ==
  ASSUME DOMAIN request = {"pc", "n", "at"}, request.pc \in RequestAt, [OutageNext]_outageVars
  PROVE  DOMAIN request' = {"pc", "n", "at"} /\ request'.pc \in RequestAt
<1>1. {"none", "time"} \subseteq RequestAt
  BY Zenon DEF RequestAt
<1>2. CASE UNCHANGED request
  BY <1>2
<1>3. CASE StartWindow
  BY <1>1, <1>3 DEF StartWindow
<1>4. ASSUME NEW to \in RequestAt, request' = [request EXCEPT !.pc = to]
      PROVE  DOMAIN request' = {"pc", "n", "at"} /\ request'.pc \in RequestAt
  BY <1>4
<1>5. CASE StartWindowTime
  <2>1. \E to \in RequestAt : request' = [request EXCEPT !.pc = to]
    BY <1>5, Zenon DEF StartWindowTime, RequestAt
  <2> QED BY <1>4, <2>1
<1>6. CASE EndWindow
  <2>1. \E to \in RequestAt : request' = [request EXCEPT !.pc = to, !.n = @ + 1]
    BY <1>6, Zenon DEF EndWindow, RequestAt
  <2> QED BY <2>1
<1>7. CASE LogRequest
  <2>1. request' = [request EXCEPT !.pc = "none", !.at = 0]
    BY <1>7, Zenon DEF LogRequest
  <2> QED BY <1>1, <2>1
<1>8. CASE WriteNote \/ Reclassify \/ TestSwitches
  <2>1. request' = [request EXCEPT !.n = @ + 1]
    BY <1>8, Zenon DEF WriteNote, Reclassify, TestSwitches
  <2> QED BY <2>1
<1>9. CASE CrashAndStart
  <2>1. request' = [request EXCEPT !.pc = "none", !.at = 0]
    BY <1>9, Zenon DEF CrashAndStart
  <2> QED BY <1>1, <2>1
<1>10. CASE Tick \/ PollSteps \/ GuardSteps \/ UNCHANGED outageVars
  <2>1. UNCHANGED request
    BY <1>10, Zenon DEF Tick, PollSteps, PollAsk, PollFailed, PollAnswered, GuardSteps, GuardMode,
       GuardStart, GuardEnds, GuardLogs, outageVars
  <2> QED BY <2>1
<1> QED BY <1>3, <1>5, <1>6, <1>7, <1>8, <1>9, <1>10, Zenon DEF OutageNext, Requests

(* The threads are where the code can be, and no event is taken for the     *)
(* current one whose row cannot exist (shelly_poll_loop, insert_grid_event).*)
THEOREM OutageTypes == OutageSpec => []OutageTypeOK
<1>1. OutageInit => Placed
  <2> SUFFICES ASSUME OutageInit PROVE Placed
    OBVIOUS
  <2>1. DOMAIN request = {"pc", "n", "at"} /\ request.pc \in RequestAt
    <3>1. request = [pc |-> "none", n |-> 0, at |-> 0] /\ "none" \in RequestAt
      BY Zenon DEF OutageInit, RequestAt
    <3> QED BY <3>1
  <2>2. guard \in GuardAt /\ Len(events) = 0 /\ MaxEventsG \in Nat
    BY EmptySeq, OutageAssumption DEF OutageInit, GuardAt
  <2>3. poller.pc \in {"sleep", "decide"} /\ poller.active = 0
    BY DEF OutageInit, NewPoller, Status
  <2> QED BY <2>1, <2>2, <2>3 DEF Placed
<1>2. ASSUME OutageInv, Placed, [OutageNext]_outageVars
      PROVE  Placed'
  <2>1. DOMAIN request' = {"pc", "n", "at"} /\ request'.pc \in RequestAt
    BY <1>2, RequestStep DEF Placed
  <2>2. guard' \in GuardAt
    <3>1. CASE GuardSteps \/ CrashAndStart
      BY <3>1, Zenon DEF GuardAt, GuardSteps, GuardMode, GuardStart, GuardEnds, GuardLogs, CrashAndStart
    <3>2. CASE Tick \/ PollSteps \/ Requests \/ UNCHANGED outageVars
      <4>1. UNCHANGED guard
        BY <3>2, Zenon DEF Tick, PollSteps, PollAsk, PollFailed, PollAnswered, Requests, StartWindow,
           StartWindowTime, EndWindow, LogRequest, WriteNote, Reclassify, TestSwitches, outageVars
      <4> QED BY <1>2, <4>1, Zenon DEF Placed
    <3> QED BY <1>2, <3>1, <3>2, Zenon DEF OutageNext
  <2> DEFINE Rest == /\ poller'.pc \in {"sleep", "decide"} /\ poller'.active \in 0..MaxEventsG
                     /\ Len(events') <= MaxEventsG
  <2>3. Rest
    <3>0. /\ DOMAIN poller = {"pc", "st", "due", "fails", "active", "since", "wasOn"}
          /\ Len(events) \in Nat /\ MaxEventsG \in Nat
      BY <1>2, LenProperties, OutageAssumption DEF OutageInv, NoticedInv, TableInv
    <3>1. CASE UNCHANGED <<poller, events>>
      BY <1>2, <3>1 DEF Placed
    <3>2. CASE PollAsk
      BY <1>2, <3>0, <3>2 DEF PollAsk, Placed
    <3>3. CASE PollFailed
      <4>1. CASE Excused
        BY <1>2, <3>0, <3>3, <4>1 DEF PollFailed, Placed
      <4>2. CASE ~Excused /\ poller.fails + 1 = 2 /\ poller.active = 0 /\ poller.wasOn
        <5>1. PICK id \in InsertIds :
                /\ Len(events) < MaxEventsG
                /\ poller' = [poller EXCEPT !.pc = "sleep", !.fails = 2, !.active = id,
                                            !.since = clock.now]
                /\ events' = IF Inserted(id) = "row"
                             THEN Append(events, [start |-> clock.now, end |-> 0,
                                                  cls |-> "unclassified"])
                             ELSE events
          BY <3>3, <4>2, Zenon DEF PollFailed
        <5>2. id \in 0..MaxEventsG
          BY <3>0, <5>1 DEF InsertIds
        <5>3. Len(events') <= MaxEventsG
          BY <1>2, <3>0, <5>1, EventLogged DEF OutageInv
        <5> QED BY <3>0, <5>1, <5>2, <5>3
      <4>3. CASE ~Excused /\ ~(poller.fails + 1 = 2 /\ poller.active = 0 /\ poller.wasOn)
        <5>1. PICK n : poller' = [poller EXCEPT !.pc = "sleep", !.fails = n] /\ UNCHANGED events
          BY <3>3, <4>3, Zenon DEF PollFailed
        <5> QED BY <1>2, <3>0, <5>1 DEF Placed
      <4> QED BY <4>1, <4>2, <4>3
    <3>4. CASE PollAnswered
      <4>1. poller' = AnswerIn(poller)
            /\ (events' = events \/ events' = CloseRow(poller.active))
        BY <3>4 DEF PollAnswered
      <4>2. Len(events') = Len(events)
        BY <1>2, <4>1, EventClosed DEF OutageInv
      <4>3. poller'.pc = "sleep" /\ poller'.active = 0
        BY <3>0, <4>1 DEF AnswerIn
      <4> QED BY <1>2, <3>0, <4>2, <4>3 DEF Placed
    <3>5. CASE CrashAndStart
      <4>1. poller' = [NewPoller EXCEPT !.due = clock.now] /\ UNCHANGED events
        BY <3>5, Zenon DEF CrashAndStart
      <4>2. poller'.pc = "sleep" /\ poller'.active = 0
        BY <4>1 DEF NewPoller, Status
      <4> QED BY <1>2, <3>0, <4>1, <4>2 DEF Placed
    <3>6. CASE Tick \/ Requests \/ GuardSteps \/ UNCHANGED outageVars
      <4>1. UNCHANGED <<poller, events>>
        BY <3>6, OthersLeave, Zenon DEF Tick
      <4> QED BY <3>1, <4>1
    <3> QED BY <1>2, <3>2, <3>3, <3>4, <3>5, <3>6 DEF OutageNext, PollSteps
  <2> QED BY <2>1, <2>2, <2>3 DEF Placed
<1>3. Placed => OutageTypeOK
  BY Zenon DEF Placed, OutageTypeOK, RequestAt, GuardAt
<1>4. OutageSpec => []OutageInv
  BY OutageInvHolds
<1> QED BY <1>1, <1>2, <1>3, <1>4, PTL DEF OutageSpec

-----------------------------------------------------------------------------
(* ConfigKept is about a program that runs; what carries it there: what a   *)
(* key is owed is in the database, and while the migration is under way     *)
(* the keys it has passed by are those it was given nothing for.            *)
KeptInv ==
  /\ DOMAIN file = {"made", "settings", "migrated", "asked"}
  /\ DOMAIN prog = {"at", "cfg", "given", "open", "step"}
  /\ DOMAIN promise = {"value", "stale", "starts", "saves"}
  /\ {file.settings, prog.cfg, prog.given, promise.value} \subseteq Configs
  /\ prog.step \in Nat
  /\ file.settings[Daemon] \in {None, "0", "1"} /\ prog.cfg[Daemon] \in {"0", "1"}
  /\ \A k \in Keys : promise.value[k] # None => file.settings[k] = promise.value[k]
  /\ prog.at \in {"down", "opening"} => ~prog.open
  /\ prog.at \in {"opening", "migrating"} => prog.cfg = prog.given
  /\ prog.at = "migrating" =>
       /\ prog.step > 0
       /\ \A i \in 1..Len(Order) :
            i < prog.step /\ file.settings[Order[i]] = None => prog.given[Order[i]] = None

(* Every key is somewhere in the order.                                     *)
LEMMA OrderHasKeys ==
  /\ Len(Order) \in Nat
  /\ \A i \in 1..Len(Order) : Order[i] \in Keys
  /\ \A k \in Keys : \E i \in 1..Len(Order) : Order[i] = k
<1>1. Order \in Seq(Keys) /\ Range(Order) = Keys
  BY StartupAssumption
<1> QED BY <1>1 DEF Range

(* What a start is given is a configuration.                                *)
LEMMA GivenTypes ==
  ASSUME NEW source \in Sources, NEW args \in Sources, Bad \notin Range(args)
  PROVE  /\ WithArgs(FromFile(source), args) \in Configs
         /\ WithArgs(FromFile(source), args)[Daemon] \in {"0", "1"}
<1>1. Daemon \in Keys /\ Daemon \in Plain
  BY StartupAssumption DEF Keys
<1>2. Defaults \in Configs /\ Defaults[Daemon] = "0"
  BY <1>1 DEF Defaults, Configs, None
<1>3. FromFile(source) \in Configs /\ FromFile(source)[Daemon] \in {"0", "1"}
  BY <1>1, <1>2, StartupAssumption DEF FromFile, Configs, None, Bad
<1>4. args \in [Keys -> Vals \union {None, "0", "1"}] /\ args[Daemon] \in {None, "0", "1"}
  BY StartupAssumption DEF Range
<1> QED BY <1>1, <1>3, <1>4 DEF WithArgs, Configs, None

(* What the stored settings leave of it is one, with what is owed.          *)
LEMMA AppliedTypes ==
  ASSUME file.settings \in Configs, file.settings[Daemon] \in {None, "0", "1"},
         NEW cfg \in Configs
  PROVE  /\ Applied(cfg) \in Configs
         /\ Applied(cfg)[Daemon] \in {"0", "1"}
         /\ \A k \in Keys : file.settings[k] # None => Applied(cfg)[k] = file.settings[k]
<1>1. Daemon \in Keys
  BY StartupAssumption DEF Keys
<1>2. Defaults \in Configs
  BY DEF Defaults, Configs, None
<1> QED BY <1>1, <1>2 DEF Applied, Configs, None

(* One step keeps both.                                                     *)
LEMMA KeptStep ==
  ASSUME KeptInv, ConfigKept, [StartupNext]_startupVars
  PROVE  KeptInv' /\ ConfigKept'
<1>a. Daemon \in Keys /\ Daemon \notin Sticky
  BY StartupAssumption DEF Keys
<1> USE DEF KeptInv, ConfigKept
<1>1. CASE UNCHANGED startupVars
  BY <1>1 DEF startupVars, Configs
<1>2. ASSUME NEW source \in Sources, NEW args \in Sources, Launch(source, args)
      PROVE  KeptInv' /\ ConfigKept'
  BY <1>2, GivenTypes DEF Launch
<1>3. ASSUME NEW n \in 0..Len(Schema), OpenDatabase(n)
      PROVE  KeptInv' /\ ConfigKept'
  <2>1. CASE n = Len(Schema)
    BY <1>3, <2>1 DEF OpenDatabase
  <2>2. CASE n # Len(Schema)
    BY <1>3, <2>2 DEF OpenDatabase
  <2> QED BY <2>1, <2>2
<1>4. CASE Migrate
  <2>1. CASE prog.step <= Len(Order)
    <3> DEFINE k == Order[prog.step]
    <3>1. k \in Keys /\ prog.cfg = prog.given
      BY <1>4, <2>1, OrderHasKeys DEF Migrate
    <3>2. /\ file' = [file EXCEPT !.settings[k] = IF @ = None THEN prog.cfg[k] ELSE @]
          /\ prog' = [prog EXCEPT !.step = @ + 1] /\ UNCHANGED promise
      BY <1>4, <2>1 DEF Migrate
    <3>3. file'.settings = [file.settings EXCEPT ![k] = IF @ = None THEN prog.cfg[k] ELSE @]
      BY <3>2
    <3>4. file'.settings \in Configs
      BY <3>1, <3>3 DEF Configs
    <3>5. /\ prog.at = "migrating" /\ prog'.step = prog.step + 1 /\ UNCHANGED promise
          /\ UNCHANGED <<prog.at, prog.cfg, prog.given, prog.open>>
          /\ DOMAIN prog' = DOMAIN prog /\ DOMAIN file' = DOMAIN file
      BY <1>4, <3>2 DEF Migrate
    <3>6. file'.settings[Daemon] \in {None, "0", "1"}
      BY <1>a, <3>1, <3>3 DEF Configs
    <3>7. \A key \in Keys : promise.value[key] # None => file'.settings[key] = promise.value[key]
      BY <3>1, <3>3 DEF Configs
    <3>8. ASSUME NEW i \in 1..Len(Order), i < prog.step + 1, file'.settings[Order[i]] = None
          PROVE  prog.given[Order[i]] = None
      <4>1. file.settings[Order[i]] = None /\ Order[i] \in Keys
        BY <3>1, <3>3, <3>8, OrderHasKeys DEF Configs
      <4>2. CASE i < prog.step
        BY <1>4, <4>1, <4>2 DEF Migrate
      <4>3. CASE i = prog.step
        BY <3>1, <3>3, <3>8, <4>1, <4>3 DEF Configs
      <4> QED BY <3>8, <4>2, <4>3
    <3> QED BY <3>4, <3>5, <3>6, <3>7, <3>8
  <2>2. CASE prog.step > Len(Order)
    <3>1. \A k \in Keys : file.settings[k] = None => prog.given[k] = None
      BY <1>4, <2>2, OrderHasKeys DEF Migrate
    <3>2. /\ file' = [file EXCEPT !.migrated = TRUE] /\ prog' = [prog EXCEPT !.at = "loading"]
          /\ promise' = [promise EXCEPT !.value = [k \in Keys |->
               IF file.settings[k] # None THEN file.settings[k] ELSE prog.given[k]]]
      BY <1>4, <2>2, OrderHasKeys DEF Migrate
    <3>3. promise'.value = [k \in Keys |-> IF file.settings[k] # None THEN file.settings[k]
                                           ELSE prog.given[k]]
      BY <3>2
    <3>4. promise'.value \in Configs
      BY <3>3 DEF Configs
    <3> QED BY <3>1, <3>2, <3>3, <3>4
  <2> QED BY <2>1, <2>2, OrderHasKeys
<1>5. CASE Load
  BY <1>5, AppliedTypes DEF Load
<1>6. ASSUME NEW k \in Keys, NEW answer \in Vals \union {"0", "1", None, Bad}, Answer(k, answer)
      PROVE  KeptInv' /\ ConfigKept'
  <2> DEFINE v == IF answer = None THEN prog.cfg[k] ELSE answer
  <2>1. CASE v \in {None, Bad}
    BY <1>6, <2>1 DEF Answer
  <2>2. CASE v \notin {None, Bad}
    <3>1. v \in Vals \union {None, "default", "0", "1"} /\ (k = Daemon => v \in {"0", "1"})
      BY <1>6, <2>2, <1>a DEF Answer, Configs, Values, Bad
    <3>2. /\ prog' = [prog EXCEPT !.step = @ + 1, !.cfg[k] = v]
          /\ file' = [file EXCEPT !.settings[k] = v]
          /\ promise' = [promise EXCEPT !.value[k] = v, !.stale = @ \ {k},
                                        !.saves = IF answer = None THEN @ ELSE @ + 1]
          /\ prog.at \in {"setup", "dialog"}
      BY <1>6, <2>2 DEF Answer
    <3>3. /\ prog'.cfg = [prog.cfg EXCEPT ![k] = v] /\ file'.settings = [file.settings EXCEPT ![k] = v]
          /\ promise'.value = [promise.value EXCEPT ![k] = v] /\ promise'.stale = promise.stale \ {k}
      BY <3>2
    <3>4. {prog'.cfg, file'.settings, promise'.value} \subseteq Configs
      BY <3>1, <3>3 DEF Configs
    <3>5. UNCHANGED <<prog.at, prog.given, prog.open>> /\ prog'.step = prog.step + 1
      BY <3>2
    <3>6. /\ DOMAIN file' = DOMAIN file /\ DOMAIN prog' = DOMAIN prog
          /\ DOMAIN promise' = DOMAIN promise
      BY <3>2
    <3>7. file'.settings[Daemon] \in {None, "0", "1"} /\ prog'.cfg[Daemon] \in {"0", "1"}
      BY <3>1, <3>3, <1>a DEF Configs
    <3>8. \A key \in Keys : promise'.value[key] # None => file'.settings[key] = promise'.value[key]
      BY <3>3 DEF Configs
    <3>9. \A key \in Keys : promise'.value[key] # None /\ key \notin promise'.stale
                              /\ prog.open => prog'.cfg[key] = promise'.value[key]
      BY <3>2, <3>3 DEF Configs
    <3> QED BY <3>2, <3>4, <3>5, <3>6, <3>7, <3>8, <3>9
  <2> QED BY <2>1, <2>2
<1>7. CASE AnswersGiven
  BY <1>7 DEF AnswersGiven
<1>8. CASE OpenDialog
  BY <1>8 DEF OpenDialog
<1>9. ASSUME NEW k \in Keys, NEW v \in Values(k) \union {None}, SaveSetting(k, v)
      PROVE  KeptInv' /\ ConfigKept'
  <2>1. CASE prog.open
    <3>1. v \in Vals \union {None, "default", "0", "1"} /\ (k = Daemon => v \in {None, "0", "1"})
      BY DEF Values
    <3>2. /\ file' = [file EXCEPT !.settings[k] = v] /\ UNCHANGED prog
          /\ promise' = [promise EXCEPT !.saves = @ + 1, !.value[k] = v, !.stale = @ \union {k}]
          /\ prog.at \in {"up", "dialog"}
      BY <1>9, <2>1 DEF SaveSetting
    <3>3. /\ file'.settings = [file.settings EXCEPT ![k] = v]
          /\ promise'.value = [promise.value EXCEPT ![k] = v]
          /\ promise'.stale = promise.stale \union {k}
      BY <3>2
    <3>4. {file'.settings, promise'.value} \subseteq Configs
      BY <3>1, <3>3 DEF Configs
    <3> QED BY <3>1, <3>2, <3>3, <3>4, <1>a DEF Configs
  <2>2. CASE ~prog.open
    BY <1>9, <2>2 DEF SaveSetting
  <2> QED BY <2>1, <2>2
<1>10. CASE TornSave
  BY <1>10 DEF TornSave
<1>11. CASE Stop
  BY <1>11 DEF Stop
<1> QED BY <1>1, <1>2, <1>3, <1>4, <1>5, <1>6, <1>7, <1>8, <1>9, <1>10,
         <1>11 DEF StartupNext

(* The settings and the configuration, in every state.                      *)
LEMMA KeptInvHolds == StartupSpec => [](KeptInv /\ ConfigKept)
<1>1. StartupInit => KeptInv /\ ConfigKept
  <2>1. Daemon \in Keys /\ [k \in Keys |-> None] \in Configs
    BY StartupAssumption DEF Keys, Configs
  <2>2. Defaults \in Configs /\ Defaults[Daemon] = "0"
    BY <2>1 DEF Defaults, Configs, None
  <2> QED BY <2>1, <2>2 DEF StartupInit, KeptInv, ConfigKept
<1>2. KeptInv /\ ConfigKept /\ [StartupNext]_startupVars => (KeptInv /\ ConfigKept)'
  BY KeptStep
<1> QED BY <1>1, <1>2, PTL DEF StartupSpec

(* The database is the source of truth after the first run: a program that  *)
(* runs with it has, for every key, the value the first complete migration  *)
(* was given or a user has saved since, over any number of starts, cut off  *)
(* anywhere (migrate_and_load_config).                                      *)
THEOREM ConfigKeptHolds == StartupSpec => []ConfigKept
  BY KeptInvHolds, PTL

(* What the start, the dialog and the page make of the records.             *)
LEMMA StartupStep ==
  ASSUME StartupTypeOK, KeptInv, KeptInv', [StartupNext]_startupVars
  PROVE  StartupTypeOK'
<1> DEFINE Mades == 0..Len(Schema)
           Steps == 0..Len(Order) + 1
           StartCounts == 0..Starts
           SaveCounts == 0..Saves
           Files == [made : Mades, settings : Configs, migrated : BOOLEAN, asked : BOOLEAN]
           Progs == [at : {"down", "opening", "migrating", "loading", "setup", "dialog", "up"},
                     cfg : Configs, given : Configs, open : BOOLEAN, step : Steps]
           Promises == [value : Configs, stale : SUBSET Keys, starts : StartCounts, saves : SaveCounts]
<1>0. Len(Order) \in Nat /\ Starts \in Nat /\ Saves \in Nat /\ Len(Schema) = 16
  BY OrderHasKeys, StartupAssumption DEF Schema, CoreTables, TestTables
<1>1. /\ 0 \in Steps /\ 1 \in Steps /\ 0 \in SaveCounts
      /\ \A n \in Steps : n <= Len(Order) => n + 1 \in Steps
      /\ \A n \in StartCounts : n < Starts => n + 1 \in StartCounts
      /\ \A n \in SaveCounts : n < Saves => n + 1 \in SaveCounts
  BY <1>0
<1>2. Steps \subseteq Nat
  BY <1>0
<1>3. file \in Files /\ prog \in Progs /\ promise \in Promises /\ text \in Configs
  BY DEF StartupTypeOK
<1>4. /\ file' \in Files /\ prog' \in Progs /\ promise' \in Promises /\ text' \in Configs
        => StartupTypeOK'
  BY DEF StartupTypeOK
<1>5. /\ file'.settings \in Configs /\ prog'.cfg \in Configs /\ prog'.given \in Configs
      /\ promise'.value \in Configs
  BY DEF KeptInv
<1> HIDE DEF Mades, Steps, StartCounts, SaveCounts
<1>6. ASSUME NEW source \in Sources, NEW args \in Sources, Launch(source, args)
      PROVE  prog' \in Progs /\ promise' \in Promises
  <2> DEFINE cfg == WithArgs(FromFile(source), args)
  <2>1. /\ prog' = [prog EXCEPT !.at = "opening", !.cfg = cfg, !.given = cfg]
        /\ promise' = [promise EXCEPT !.starts = @ + 1, !.stale = {}] /\ promise.starts < Starts
    BY <1>6 DEF Launch
  <2> HIDE DEF cfg
  <2>2. prog' \in Progs
    BY <1>3, <1>5, <2>1
  <2>3. promise' \in Promises
    BY <1>1, <1>3, <2>1
  <2> QED BY <2>2, <2>3
<1>7. ASSUME NEW n \in 0..Len(Schema), OpenDatabase(n)
      PROVE  file' \in Files /\ prog' \in Progs
  <2>1. n \in Mades
    BY DEF Mades
  <2>2. PICK m \in Mades : file' = [file EXCEPT !.made = m]
    BY <1>3, <1>7, <2>1 DEF OpenDatabase
  <2>3. \/ \E at \in {"loading", "migrating"} :
             prog' = [prog EXCEPT !.open = TRUE, !.step = 1, !.at = at]
        \/ prog' = [prog EXCEPT !.at = "up"]
    BY <1>7 DEF OpenDatabase
  <2>4. prog' \in Progs
    BY <1>1, <1>3, <2>3
  <2>5. file' \in Files
    BY <1>3, <2>2
  <2> QED BY <2>4, <2>5
<1>8. ASSUME Migrate
      PROVE  file' \in Files /\ prog' \in Progs /\ promise' \in Promises
  <2>1. CASE prog.step <= Len(Order)
    <3> DEFINE k == Order[prog.step]
               settings == [file.settings EXCEPT ![k] = IF @ = None THEN prog.cfg[k] ELSE @]
    <3>1. /\ file' = [file EXCEPT !.settings[k] = IF @ = None THEN prog.cfg[k] ELSE @]
          /\ prog' = [prog EXCEPT !.step = @ + 1] /\ UNCHANGED promise
      BY <1>8, <2>1 DEF Migrate
    <3>4. file' = [file EXCEPT !.settings = settings]
      BY <1>3, <3>1
    <3> HIDE DEF k, settings
    <3>2. file' \in Files
      BY <1>3, <1>5, <3>4
    <3>3. prog' \in Progs
      BY <1>1, <1>3, <2>1, <3>1
    <3> QED BY <1>3, <3>1, <3>2, <3>3
  <2>2. CASE ~(prog.step <= Len(Order))
    <3> DEFINE value == [k \in Keys |-> IF file.settings[k] # None THEN file.settings[k]
                                        ELSE prog.given[k]]
    <3>1. /\ file' = [file EXCEPT !.migrated = TRUE] /\ prog' = [prog EXCEPT !.at = "loading"]
          /\ promise' = [promise EXCEPT !.value = value]
      BY <1>8, <2>2 DEF Migrate
    <3> HIDE DEF value
    <3>2. file' \in Files
      BY <1>3, <3>1
    <3>3. prog' \in Progs
      BY <1>3, <3>1
    <3>4. promise' \in Promises
      BY <1>3, <1>5, <3>1
    <3> QED BY <3>2, <3>3, <3>4
  <2> QED BY <2>1, <2>2
<1>9. ASSUME Load
      PROVE  prog' \in Progs
  <2> DEFINE cfg == Applied(prog.cfg)
             at == IF needs_setup(cfg) /\ cfg[Daemon] # "1" THEN "setup" ELSE "up"
  <2>1. prog' = [prog EXCEPT !.cfg = cfg, !.step = 1, !.at = at] /\ at \in {"setup", "up"}
    BY <1>9 DEF Load
  <2> HIDE DEF cfg, at
  <2> QED BY <1>1, <1>3, <1>5, <2>1
<1>10. ASSUME NEW k \in Keys, NEW answer, Answer(k, answer)
       PROVE  file' \in Files /\ prog' \in Progs /\ promise' \in Promises
  <2>1. prog.step <= Len(Order) /\ (answer # None /\ answer # Bad => promise.saves < Saves)
    BY <1>10 DEF Answer
  <2>2. CASE prog' = [prog EXCEPT !.step = @ + 1] /\ UNCHANGED <<file, promise>>
    <3>1. prog' \in Progs
      BY <1>1, <1>3, <2>1, <2>2
    <3> QED BY <1>3, <2>2, <3>1
  <2>3. ASSUME NEW v, answer = Bad => v = Bad, v # Bad,
               prog' = [prog EXCEPT !.step = @ + 1, !.cfg[k] = v],
               file' = [file EXCEPT !.settings[k] = v],
               promise' = [promise EXCEPT !.value[k] = v, !.stale = @ \ {k},
                                          !.saves = IF answer = None THEN @ ELSE @ + 1]
        PROVE  file' \in Files /\ prog' \in Progs /\ promise' \in Promises
    <3> DEFINE cfg == [prog.cfg EXCEPT ![k] = v]
               settings == [file.settings EXCEPT ![k] = v]
               value == [promise.value EXCEPT ![k] = v]
               stale == promise.stale \ {k}
               saves == IF answer = None THEN promise.saves ELSE promise.saves + 1
    <3>1. prog' = [prog EXCEPT !.step = @ + 1, !.cfg = cfg]
      BY <1>3, <2>3
    <3>2. file' = [file EXCEPT !.settings = settings]
      BY <1>3, <2>3
    <3>3. promise' = [promise EXCEPT !.value = value, !.stale = stale, !.saves = saves]
      BY <1>3, <2>3
    <3>4. stale \in SUBSET Keys /\ saves \in SaveCounts
      <4>1. promise.saves \in SaveCounts /\ promise.stale \in SUBSET Keys
        BY <1>3
      <4> QED BY <1>1, <2>1, <2>3, <4>1
    <3> HIDE DEF cfg, settings, value, stale, saves
    <3>5. file' \in Files
      BY <1>3, <1>5, <3>2
    <3>6. prog' \in Progs
      BY <1>1, <1>3, <1>5, <2>1, <3>1
    <3>7. promise' \in Promises
      BY <1>3, <1>5, <3>3, <3>4
    <3> QED BY <3>5, <3>6, <3>7
  <2> DEFINE v == IF answer = None THEN prog.cfg[k] ELSE answer
  <2>4. answer = Bad => v = Bad
    BY DEF Bad, None
  <2>5. IF v \in {None, Bad}
        THEN prog' = [prog EXCEPT !.step = @ + 1] /\ UNCHANGED <<file, promise>>
        ELSE /\ prog' = [prog EXCEPT !.step = @ + 1, !.cfg[k] = v]
             /\ file' = [file EXCEPT !.settings[k] = v]
             /\ promise' = [promise EXCEPT !.value[k] = v, !.stale = @ \ {k},
                                           !.saves = IF answer = None THEN @ ELSE @ + 1]
    BY <1>10 DEF Answer
  <2> HIDE DEF v
  <2>6. CASE v \in {None, Bad}
    BY <2>2, <2>5, <2>6
  <2>7. CASE v \notin {None, Bad}
    <3>1. /\ prog' = [prog EXCEPT !.step = @ + 1, !.cfg[k] = v]
          /\ file' = [file EXCEPT !.settings[k] = v]
          /\ promise' = [promise EXCEPT !.value[k] = v, !.stale = @ \ {k},
                                        !.saves = IF answer = None THEN @ ELSE @ + 1]
          /\ v # Bad
      BY <2>5, <2>7, Zenon
    <3> QED BY <2>3, <2>4, <3>1, Zenon
  <2> QED BY <2>6, <2>7
<1>11. ASSUME AnswersGiven
       PROVE  file' \in Files /\ prog' \in Progs
  <2>1. file' = [file EXCEPT !.asked = TRUE] /\ prog' = [prog EXCEPT !.at = "up", !.step = 0]
    BY <1>11 DEF AnswersGiven
  <2>2. file' \in Files
    BY <1>3, <2>1
  <2>3. prog' \in Progs
    BY <1>1, <1>3, <2>1
  <2> QED BY <2>2, <2>3
<1>12. ASSUME OpenDialog
       PROVE  prog' \in Progs
  <2>1. prog' = [prog EXCEPT !.at = "dialog", !.step = 1]
    BY <1>12 DEF OpenDialog
  <2> QED BY <1>1, <1>3, <2>1
<1>13. ASSUME NEW k \in Keys, NEW v \in Values(k) \union {None}, SaveSetting(k, v)
       PROVE  file' \in Files /\ promise' \in Promises /\ text' \in Configs
  <2>1. v \in Vals \union {None, "default", "0", "1"}
    BY DEF Values
  <2>2. promise.saves < Saves
    BY <1>13 DEF SaveSetting
  <2>3. CASE prog.open
    <3> DEFINE settings == [file.settings EXCEPT ![k] = v]
               value == [promise.value EXCEPT ![k] = v]
               stale == promise.stale \union {k}
    <3>1. /\ file' = [file EXCEPT !.settings[k] = v]
          /\ promise' = [promise EXCEPT !.saves = @ + 1, !.value[k] = v, !.stale = @ \union {k}]
          /\ UNCHANGED text
      BY <1>13, <2>3 DEF SaveSetting
    <3>4. file' = [file EXCEPT !.settings = settings]
      BY <1>3, <3>1
    <3>5. promise' = [promise EXCEPT !.saves = @ + 1, !.value = value, !.stale = stale]
      BY <1>3, <3>1
    <3>6. stale \in SUBSET Keys
      BY <1>3
    <3> HIDE DEF settings, value, stale
    <3>2. file' \in Files
      BY <1>3, <1>5, <3>4
    <3>3. promise' \in Promises
      BY <1>1, <1>3, <1>5, <2>2, <3>5, <3>6
    <3> QED BY <1>3, <3>1, <3>2, <3>3
  <2>4. CASE ~prog.open
    <3>1. /\ text' = [text EXCEPT ![k] = v] /\ promise' = [promise EXCEPT !.saves = @ + 1]
          /\ UNCHANGED file
      BY <1>13, <2>4 DEF SaveSetting
    <3>2. text' \in Configs
      BY <1>3, <2>1, <3>1 DEF Configs
    <3>3. promise' \in Promises
      BY <1>1, <1>3, <2>2, <3>1
    <3> QED BY <1>3, <3>1, <3>2, <3>3
  <2> QED BY <2>3, <2>4
<1>14. ASSUME TornSave
       PROVE  text' \in Configs /\ prog' \in Progs
  <2>1. [k \in Keys |-> None] \in Configs
    BY DEF Configs
  <2>2. text' = [k \in Keys |-> None] /\ prog' = [prog EXCEPT !.at = "down", !.open = FALSE]
    BY <1>14 DEF TornSave
  <2>3. prog' \in Progs
    BY <1>3, <2>2
  <2> QED BY <2>1, <2>2, <2>3
<1>15. ASSUME Stop
       PROVE  prog' \in Progs
  <2>1. prog' = [prog EXCEPT !.at = "down", !.open = FALSE, !.step = 0]
    BY <1>15 DEF Stop
  <2> QED BY <1>1, <1>3, <2>1
<1> HIDE DEF Files, Progs, Promises
<1>16. file' \in Files /\ prog' \in Progs /\ promise' \in Promises /\ text' \in Configs
  <2>1. CASE UNCHANGED startupVars
    BY <1>3, <2>1 DEF startupVars
  <2>2. CASE \E source, args \in Sources : Launch(source, args)
    <3>1. PICK source, args \in Sources : Launch(source, args)
      BY <2>2, Zenon
    <3>2. UNCHANGED <<file, text>>
      BY <3>1, Zenon DEF Launch
    <3>3. prog' \in Progs /\ promise' \in Promises
      BY <1>6, <3>1, Zenon
    <3> QED BY <1>3, <3>2, <3>3
  <2>3. CASE \E n \in 0..Len(Schema) : OpenDatabase(n)
    BY <1>3, <1>7, <2>3 DEF OpenDatabase
  <2>4. CASE Migrate
    BY <1>3, <1>8, <2>4 DEF Migrate
  <2>5. CASE Load
    BY <1>3, <1>9, <2>5 DEF Load
  <2>6. CASE \E k \in Keys, answer \in Vals \union {"0", "1", None, Bad} : Answer(k, answer)
    <3>1. PICK k \in Keys, answer \in Vals \union {"0", "1", None, Bad} : Answer(k, answer)
      BY <2>6, Zenon
    <3>2. UNCHANGED text
      BY <3>1, Zenon DEF Answer
    <3>3. file' \in Files /\ prog' \in Progs /\ promise' \in Promises
      BY <1>10, <3>1, Zenon
    <3> QED BY <1>3, <3>2, <3>3
  <2>7. CASE AnswersGiven
    BY <1>3, <1>11, <2>7 DEF AnswersGiven
  <2>8. CASE OpenDialog
    BY <1>3, <1>12, <2>8 DEF OpenDialog
  <2>9. CASE \E k \in Keys : \E v \in Values(k) \union {None} : SaveSetting(k, v)
    <3>1. PICK k \in Keys : \E v \in Values(k) \union {None} : SaveSetting(k, v)
      BY <2>9, Zenon
    <3>2. PICK v \in Values(k) \union {None} : SaveSetting(k, v)
      BY <3>1, Zenon
    <3>3. UNCHANGED prog
      BY <3>2, Zenon DEF SaveSetting
    <3>4. file' \in Files /\ promise' \in Promises /\ text' \in Configs
      BY <1>13, <3>2, Zenon
    <3> QED BY <1>3, <3>3, <3>4
  <2>10. CASE TornSave
    BY <1>3, <1>14, <2>10 DEF TornSave
  <2>11. CASE Stop
    BY <1>3, <1>15, <2>11 DEF Stop
  <2> QED BY <2>1, <2>2, <2>3, <2>4, <2>5, <2>6, <2>7, <2>8, <2>9, <2>10, <2>11 DEF StartupNext
<1> QED BY <1>4, <1>16

(* Whatever files, command lines, dialogs and pages say, a configuration    *)
(* and the settings hold values that were given, defaults, or nothing; no   *)
(* dialog and no migration goes beyond the last key.                        *)
THEOREM StartupTypes == StartupSpec => []StartupTypeOK
<1>1. StartupInit => StartupTypeOK
  <2>1. Len(Order) \in Nat /\ Starts \in Nat /\ Saves \in Nat /\ Len(Schema) = 16
    BY OrderHasKeys, StartupAssumption DEF Schema, CoreTables, TestTables
  <2>2. Defaults \in Configs /\ [k \in Keys |-> None] \in Configs
    BY DEF Defaults, Configs, None
  <2> QED BY <2>1, <2>2 DEF StartupInit, StartupTypeOK
<1>2. StartupTypeOK /\ KeptInv /\ KeptInv' /\ [StartupNext]_startupVars => StartupTypeOK'
  BY StartupStep
<1> QED BY <1>1, <1>2, KeptInvHolds, PTL DEF StartupSpec
-----------------------------------------------------------------------------
(* The transmissions.  What was heard has runs above the threshold; the     *)
(* list is the newest of them, told by an invariant that names all of them  *)
(* in their order, and the burst is the run that has not ended.             *)
Hearing == [at : Nat, above : BOOLEAN, amps : Int, power : Int]
TxEvent == [start : Nat, end : Nat, amps : Int, power : Int]

\* A transmission is under way at n since i.
Opens(h, i, n) ==
  i \in 1..n /\ (\A k \in i..n : h[k].above) /\ (i = 1 \/ ~h[i - 1].above)
\* k is the first strongest reading from i on and before j.
Peak(h, i, j, k) ==
  /\ k \in i..(j - 1)
  /\ \A q \in i..(j - 1) : h[q].amps <= h[k].amps
  /\ \A q \in i..(k - 1) : h[q].amps < h[k].amps

BurstIs(b, h) ==
  \/ b = <<>> /\ (Len(h) = 0 \/ ~h[Len(h)].above)
  \/ \E i, k : /\ Opens(h, i, Len(h)) /\ Peak(h, i, Len(h) + 1, k)
               /\ b = <<[start |-> h[i].at, amps |-> h[k].amps, power |-> h[k].power]>>

\* all lists the transmissions in their order, Events what is said of them.
InOrder(all, h) ==
  /\ all \in Seq(Runs(h)) /\ Runs(h) \subseteq Range(all)
  /\ \A a, b \in 1..Len(all) : a < b => all[a][2] < all[b][2]
  /\ \A r \in Runs(h) : \E k : Peak(h, r[1], r[2], k)
Events(h, all) == [k \in DOMAIN all |-> EventOf(h, all[k][1], all[k][2])]

ListIs(evs, h) ==
  \E all : InOrder(all, h) /\ Events(h, all) \in Seq(TxEvent) /\ evs = Trim(Events(h, all), MaxTxEvents)

\* g is h and one more reading.
Grown(g, h) ==
  g \in Seq(Hearing) /\ Len(g) = Len(h) + 1 /\ \A i \in 1..Len(h) : g[i] = h[i]

After(g, h, x) == x \in Hearing /\ g = Append(h, x)

-----------------------------------------------------------------------------
(* What a run is.                                                           *)
LEMMA RunIs ==
  ASSUME NEW h \in Seq(Hearing), NEW n \in Nat, Len(h) = n, NEW r
  PROVE  r \in Runs(h) <=>
           \E i, j \in 1..n : /\ r = <<i, j>> /\ i < j /\ ~h[j].above
                              /\ \A k \in i..(j - 1) : h[k].above
                              /\ i = 1 \/ ~h[i - 1].above
<1>1. DOMAIN h = 1..n
  BY LenProperties
<1>2. ASSUME r \in Runs(h)
      PROVE  \E i, j \in 1..n : /\ r = <<i, j>> /\ i < j /\ ~h[j].above
                                /\ \A k \in i..(j - 1) : h[k].above
                                /\ i = 1 \/ ~h[i - 1].above
  <2>1. /\ r \in (1..n) \X (1..n)
        /\ r[1] < r[2] /\ ~h[r[2]].above
        /\ \A k \in r[1]..(r[2] - 1) : h[k].above
        /\ r[1] = 1 \/ ~h[r[1] - 1].above
    BY <1>1, <1>2 DEF Runs
  <2>2. r = <<r[1], r[2]>> /\ r[1] \in 1..n /\ r[2] \in 1..n
    BY <2>1
  <2> QED BY <2>1, <2>2
<1>3. ASSUME NEW i \in 1..n, NEW j \in 1..n, r = <<i, j>>, i < j, ~h[j].above,
             \A k \in i..(j - 1) : h[k].above, i = 1 \/ ~h[i - 1].above
      PROVE  r \in Runs(h)
  <2>1. r \in (1..n) \X (1..n) /\ r[1] = i /\ r[2] = j
    BY <1>3
  <2> QED BY <1>1, <1>3, <2>1 DEF Runs
<1> QED BY <1>2, <1>3

(* There is one first strongest reading.                                    *)
LEMMA PeakIs ==
  ASSUME NEW h \in Seq(Hearing), NEW i \in 1..Len(h), NEW j \in 1..Len(h), NEW k, Peak(h, i, j, k)
  PROVE  EventOf(h, i, j) =
           [start |-> h[i].at, end |-> h[j].at, amps |-> h[k].amps, power |-> h[k].power]
<1> DEFINE P(m) == /\ \A q \in i..(j - 1) : h[q].amps <= h[m].amps
                   /\ \A q \in i..(m - 1) : h[q].amps < h[m].amps
           first == CHOOSE m \in i..(j - 1) : P(m)
<1>0. Len(h) \in Nat
  BY LenProperties
<1>1. k \in i..(j - 1) /\ P(k)
  BY DEF Peak
<1>2. first \in i..(j - 1) /\ P(first)
  <2> HIDE DEF P
  <2> QED BY <1>1
<1>3. \A m \in 1..Len(h) : h[m].amps \in Int
  <2>1. \A m \in 1..Len(h) : h[m] \in Hearing
    BY ElementOfSeq
  <2> QED BY <2>1 DEF Hearing
<1> HIDE DEF first
<1>4. first = k
  <2>1. h[first].amps \in Int /\ h[k].amps \in Int
    BY <1>0, <1>1, <1>2, <1>3
  <2>2. ~(first < k)
    <3>1. first < k => first \in i..(k - 1)
      BY <1>1, <1>2
    <3>2. first < k => h[first].amps < h[k].amps
      BY <1>1, <3>1
    <3>3. h[k].amps <= h[first].amps
      BY <1>1, <1>2
    <3> QED BY <2>1, <3>2, <3>3
  <2>3. ~(k < first)
    <3>1. k < first => k \in i..(first - 1)
      BY <1>1, <1>2
    <3>2. k < first => h[k].amps < h[first].amps
      BY <1>2, <3>1
    <3>3. h[first].amps <= h[k].amps
      BY <1>1, <1>2
    <3> QED BY <2>1, <3>2, <3>3
  <2> QED BY <1>1, <1>2, <2>2, <2>3
<1> QED BY <1>4 DEF EventOf, first

(* There is one reading a transmission is under way from.                   *)
LEMMA OpensOnce ==
  ASSUME NEW h, NEW n \in Nat, NEW i, NEW j, Opens(h, i, n), Opens(h, j, n)
  PROVE  i = j
<1>1. i \in 1..n /\ j \in 1..n
  BY DEF Opens
<1>2. ~(i < j)
  <2>1. i < j => j # 1 /\ j - 1 \in i..n
    BY <1>1
  <2> QED BY <2>1 DEF Opens
<1>3. ~(j < i)
  <2>1. j < i => i # 1 /\ i - 1 \in j..n
    BY <1>1
  <2> QED BY <2>1 DEF Opens
<1> QED BY <1>1, <1>2, <1>3

(* One more reading: the runs so far stay, and one may have ended.          *)
LEMMA RunsGrow ==
  ASSUME NEW h \in Seq(Hearing), NEW n \in Nat, Len(h) = n, NEW x \in Hearing
  PROVE  LET g == Append(h, x) IN
         /\ g \in Seq(Hearing) /\ Len(g) = n + 1 /\ g[n + 1] = x
         /\ \A i \in 1..n : g[i] = h[i]
         /\ Runs(h) \subseteq Runs(g)
         /\ \A r \in Runs(g) : r \notin Runs(h) => ~x.above /\ \E i : Opens(h, i, n) /\ r = <<i, n + 1>>
         /\ ~x.above => \A i : Opens(h, i, n) => <<i, n + 1>> \in Runs(g)
<1> DEFINE g == Append(h, x)
<1>1. /\ g \in Seq(Hearing) /\ Len(g) = n + 1 /\ g[n + 1] = x
      /\ \A i \in 1..n : g[i] = h[i]
  BY AppendProperties
<1> HIDE DEF g
<1>2. n + 1 \in Nat
  OBVIOUS
<1>3. ASSUME NEW r \in Runs(h)
      PROVE  r \in Runs(g)
  <2>1. PICK i, j \in 1..n : /\ r = <<i, j>> /\ i < j /\ ~h[j].above
                             /\ \A k \in i..(j - 1) : h[k].above
                             /\ i = 1 \/ ~h[i - 1].above
    BY RunIs
  <2>2. /\ i \in 1..(n + 1) /\ j \in 1..(n + 1) /\ ~g[j].above
        /\ \A k \in i..(j - 1) : g[k].above
        /\ i = 1 \/ ~g[i - 1].above
    BY <1>1, <2>1
  <2> QED BY <1>1, <1>2, <2>1, <2>2, RunIs
<1>4. ASSUME NEW r \in Runs(g), r \notin Runs(h)
      PROVE  ~x.above /\ \E i : Opens(h, i, n) /\ r = <<i, n + 1>>
  <2>1. PICK i, j \in 1..(n + 1) : /\ r = <<i, j>> /\ i < j /\ ~g[j].above
                                   /\ \A k \in i..(j - 1) : g[k].above
                                   /\ i = 1 \/ ~g[i - 1].above
    BY <1>1, <1>2, RunIs
  <2>2. CASE j = n + 1
    <3>1. i \in 1..n /\ \A k \in i..n : h[k].above
      BY <1>1, <2>1, <2>2
    <3>2. i = 1 \/ ~h[i - 1].above
      BY <1>1, <2>1, <3>1
    <3> QED BY <1>1, <2>1, <2>2, <3>1, <3>2 DEF Opens
  <2>3. CASE j # n + 1
    <3>1. /\ i \in 1..n /\ j \in 1..n /\ ~h[j].above
          /\ \A k \in i..(j - 1) : h[k].above
          /\ i = 1 \/ ~h[i - 1].above
      BY <1>1, <2>1, <2>3
    <3>2. r \in Runs(h)
      BY <2>1, <3>1, RunIs
    <3> QED BY <1>4, <3>2
  <2> QED BY <2>2, <2>3
<1>5. ASSUME ~x.above, NEW i, Opens(h, i, n)
      PROVE  <<i, n + 1>> \in Runs(g)
  <2>1. i \in 1..n /\ (\A k \in i..n : h[k].above) /\ (i = 1 \/ ~h[i - 1].above)
    BY <1>5 DEF Opens
  <2>2. /\ i \in 1..(n + 1) /\ n + 1 \in 1..(n + 1) /\ i < n + 1 /\ ~g[n + 1].above
        /\ \A k \in i..((n + 1) - 1) : g[k].above
        /\ i = 1 \/ ~g[i - 1].above
    BY <1>1, <1>5, <2>1
  <2> QED BY <1>1, <1>2, <2>2, RunIs
<1> QED BY <1>1, <1>3, <1>4, <1>5 DEF g

(* The same, for a reading more.                                            *)
LEMMA RunsAfter ==
  ASSUME NEW h \in Seq(Hearing), NEW x, NEW g, After(g, h, x), NEW m, m = Len(h) + 1
  PROVE  /\ Grown(g, h) /\ Len(g) = m /\ g[m] = x
         /\ Runs(h) \subseteq Runs(g)
         /\ x.above => Runs(g) = Runs(h)
         /\ (\A i : ~Opens(h, i, Len(h))) => Runs(g) = Runs(h)
         /\ \A i : Opens(h, i, Len(h)) /\ ~x.above => Runs(g) = Runs(h) \union {<<i, m>>}
<1>1. PICK n \in Nat : Len(h) = n
  BY LenProperties
<1>2. /\ g \in Seq(Hearing) /\ Len(g) = n + 1 /\ g[n + 1] = x
      /\ \A i \in 1..n : g[i] = h[i]
      /\ Runs(h) \subseteq Runs(g)
      /\ \A r \in Runs(g) : r \notin Runs(h) => ~x.above /\ \E i : Opens(h, i, n) /\ r = <<i, n + 1>>
      /\ ~x.above => \A i : Opens(h, i, n) => <<i, n + 1>> \in Runs(g)
  BY <1>1, RunsGrow DEF After
<1>3. Grown(g, h) /\ Len(g) = m /\ g[m] = x /\ m = n + 1
  BY <1>1, <1>2 DEF Grown
<1>4. \A r \in Runs(g) : r \notin Runs(h) => ~x.above /\ \E i : Opens(h, i, n) /\ r = <<i, m>>
  BY <1>2, <1>3
<1>5. ~x.above => \A i : Opens(h, i, n) => <<i, m>> \in Runs(g)
  BY <1>2, <1>3
<1>6. Runs(h) \subseteq Runs(g)
  BY <1>2
<1>7. x.above => Runs(g) = Runs(h)
  BY <1>4, <1>6
<1>8. (\A i : ~Opens(h, i, n)) => Runs(g) = Runs(h)
  BY <1>4, <1>6
<1>9. ASSUME NEW i, Opens(h, i, n), ~x.above
      PROVE  Runs(g) = Runs(h) \union {<<i, m>>}
  <2>1. <<i, m>> \in Runs(g)
    BY <1>5, <1>9
  <2>2. \A r \in Runs(g) : r \in Runs(h) \/ r = <<i, m>>
    BY <1>4, <1>9, OpensOnce
  <2> QED BY <1>6, <2>1, <2>2
<1> QED BY <1>1, <1>3, <1>6, <1>7, <1>8, <1>9

(* Of a run that has ended nothing changes.                                 *)
LEMMA EventKept ==
  ASSUME NEW h \in Seq(Hearing), NEW g, Grown(g, h),
         NEW r \in Runs(h), NEW k, Peak(h, r[1], r[2], k)
  PROVE  /\ Peak(g, r[1], r[2], k)
         /\ EventOf(g, r[1], r[2]) = EventOf(h, r[1], r[2])
<1>0. PICK n \in Nat : Len(h) = n
  BY LenProperties
<1>g. g \in Seq(Hearing) /\ Len(g) = n + 1 /\ \A q \in 1..n : g[q] = h[q]
  BY <1>0 DEF Grown
<1>1. PICK i, j \in 1..n : r = <<i, j>> /\ i < j
  BY <1>0, RunIs
<1>2. Peak(h, i, j, k)
  BY <1>1
<1>3. k \in i..(j - 1) /\ \A q \in i..(j - 1) : g[q] = h[q]
  BY <1>1, <1>2, <1>g DEF Peak
<1>4. Peak(g, i, j, k)
  <2>1. \A q \in i..(k - 1) : q \in i..(j - 1)
    BY <1>3
  <2> QED BY <1>2, <1>3, <2>1 DEF Peak
<1>5. EventOf(h, i, j) =
        [start |-> h[i].at, end |-> h[j].at, amps |-> h[k].amps, power |-> h[k].power]
  BY <1>0, <1>2, PeakIs
<1>6. EventOf(g, i, j) =
        [start |-> g[i].at, end |-> g[j].at, amps |-> g[k].amps, power |-> g[k].power]
  <2>1. i \in 1..Len(g) /\ j \in 1..Len(g)
    BY <1>g
  <2> QED BY <1>g, <1>4, <2>1, PeakIs
<1>7. EventOf(g, i, j) = EventOf(h, i, j)
  BY <1>1, <1>3, <1>5, <1>6, <1>g
<1> QED BY <1>1, <1>4, <1>7

(* What is said of a run that has ended is an event.                        *)
LEMMA EventTypes ==
  ASSUME NEW h \in Seq(Hearing), NEW r \in Runs(h), NEW k, Peak(h, r[1], r[2], k)
  PROVE  EventOf(h, r[1], r[2]) \in TxEvent
<1>1. PICK n \in Nat : Len(h) = n
  BY LenProperties
<1>2. PICK i, j \in 1..n : r = <<i, j>> /\ i < j
  BY <1>1, RunIs
<1>3. k \in i..(j - 1) /\ Peak(h, i, j, k)
  BY <1>2 DEF Peak
<1>4. EventOf(h, i, j) =
        [start |-> h[i].at, end |-> h[j].at, amps |-> h[k].amps, power |-> h[k].power]
  BY <1>1, <1>3, PeakIs
<1>5. h[i] \in Hearing /\ h[j] \in Hearing /\ h[k] \in Hearing
  BY <1>1, <1>2, <1>3, ElementOfSeq
<1>6. h[i].at \in Nat /\ h[j].at \in Nat /\ h[k].amps \in Int /\ h[k].power \in Int
  BY <1>5 DEF Hearing
<1>7. EventOf(h, i, j) \in TxEvent
  BY <1>4, <1>6 DEF TxEvent
<1> QED BY <1>2, <1>7

(* What is said of all the runs is a list of events, one for each.          *)
LEMMA EventsSeq ==
  ASSUME NEW h \in Seq(Hearing), NEW all, InOrder(all, h)
  PROVE  /\ Events(h, all) \in Seq(TxEvent) /\ Len(Events(h, all)) = Len(all)
         /\ \A k \in 1..Len(all) : Events(h, all)[k] = EventOf(h, all[k][1], all[k][2])
                                   /\ all[k] \in Runs(h)
<1>1. all \in Seq(Runs(h)) /\ \A r \in Runs(h) : \E k : Peak(h, r[1], r[2], k)
  BY DEF InOrder
<1>2. DOMAIN all = 1..Len(all) /\ Len(all) \in Nat /\ \A k \in 1..Len(all) : all[k] \in Runs(h)
  BY <1>1, LenProperties, ElementOfSeq
<1>3. \A r \in Runs(h) : EventOf(h, r[1], r[2]) \in TxEvent
  BY <1>1, EventTypes
<1>4. Events(h, all) \in [1..Len(all) -> TxEvent]
  BY <1>2, <1>3 DEF Events
<1>5. Events(h, all) \in Seq(TxEvent) /\ Len(Events(h, all)) = Len(all)
  BY <1>2, <1>4
<1> QED BY <1>2, <1>5 DEF Events

(* A reading that ends nothing leaves the list.                             *)
LEMMA ListKept ==
  ASSUME NEW h \in Seq(Hearing), NEW g, Grown(g, h), Runs(g) = Runs(h), NEW evs, ListIs(evs, h)
  PROVE  ListIs(evs, g)
<1>1. PICK all : InOrder(all, h) /\ evs = Trim(Events(h, all), MaxTxEvents)
  BY DEF ListIs
<1>3. g \in Seq(Hearing)
  BY DEF Grown
<1>4. \A r \in Runs(h) : \E k : Peak(h, r[1], r[2], k)
  BY <1>1 DEF InOrder
<1>5. ASSUME NEW r \in Runs(h)
      PROVE  /\ \E k : Peak(g, r[1], r[2], k)
             /\ EventOf(g, r[1], r[2]) = EventOf(h, r[1], r[2])
  <2>1. PICK k : Peak(h, r[1], r[2], k)
    BY <1>4
  <2> QED BY <2>1, EventKept
<1>6. InOrder(all, g)
  BY <1>1, <1>5 DEF InOrder
<1>7. Events(g, all) = Events(h, all)
  <2>1. all \in Seq(Runs(h))
    BY <1>1 DEF InOrder
  <2>2. \A k \in DOMAIN all : all[k] \in Runs(h)
    BY <2>1, LenProperties, ElementOfSeq
  <2> QED BY <1>5, <2>2 DEF Events
<1>8. Events(g, all) \in Seq(TxEvent)
  BY <1>3, <1>6, EventsSeq
<1> QED BY <1>1, <1>6, <1>7, <1>8 DEF ListIs

(* A transmission ends and becomes the newest event.                        *)
LEMMA ListPushed ==
  ASSUME NEW h \in Seq(Hearing), NEW x, NEW g, After(g, h, x), ~x.above,
         NEW m, m = Len(h) + 1, NEW evs, ListIs(evs, h),
         NEW i, Opens(h, i, Len(h)), NEW k, Peak(h, i, m, k),
         NEW e, e = [start |-> h[i].at, end |-> x.at, amps |-> h[k].amps, power |-> h[k].power]
  PROVE  ListIs(Push(evs, e, MaxTxEvents), g)
<1>1. PICK all : InOrder(all, h) /\ evs = Trim(Events(h, all), MaxTxEvents)
  BY DEF ListIs
<1>n. PICK n \in Nat : Len(h) = n
  BY LenProperties
<1>m. m \in Nat /\ m = n + 1 /\ m - 1 = n
  BY <1>n
<1> DEFINE r == <<i, m>>
           more == Append(all, r)
<1>2. /\ Grown(g, h) /\ Len(g) = m /\ g[m] = x
      /\ Runs(h) \subseteq Runs(g)
      /\ Runs(g) = Runs(h) \union {r}
  <2>1. /\ Grown(g, h) /\ Len(g) = m /\ g[m] = x
        /\ Runs(h) \subseteq Runs(g)
        /\ \A j : Opens(h, j, Len(h)) /\ ~x.above => Runs(g) = Runs(h) \union {<<j, m>>}
    BY RunsAfter
  <2> QED BY <2>1
<1>g. g \in Seq(Hearing) /\ \A q \in 1..n : g[q] = h[q]
  BY <1>2, <1>n DEF Grown
<1>3. \A s \in Runs(g) : s \in Runs(h) \/ s = r
  BY <1>2
<1>i. /\ i \in 1..n /\ k \in i..n
      /\ \A q \in i..n : h[q].amps <= h[k].amps
      /\ \A q \in i..(k - 1) : h[q].amps < h[k].amps
  BY <1>n, <1>m DEF Opens, Peak
<1>4. Peak(g, i, m, k)
  <2>2. \A q \in i..n : g[q] = h[q]
    BY <1>n, <1>g, <1>i
  <2>3. \A q \in i..(k - 1) : q \in i..n
    BY <1>i
  <2>4. k \in i..n
    BY <1>i
  <2>5. \A q \in i..n : g[q].amps <= g[k].amps
    BY <1>i, <2>2
  <2>6. \A q \in i..(k - 1) : g[q].amps < g[k].amps
    BY <1>i, <2>2, <2>3
  <2> QED BY <1>m, <2>4, <2>5, <2>6 DEF Peak
<1>5. EventOf(g, i, m) = e
  <2>1. EventOf(g, i, m) =
          [start |-> g[i].at, end |-> g[m].at, amps |-> g[k].amps, power |-> g[k].power]
    <3>1. i \in 1..Len(g) /\ m \in 1..Len(g)
      BY <1>2, <1>i, <1>m
    <3>2. i \in 1..Len(g) /\ m \in 1..Len(g) /\ Peak(g, i, m, k)
      BY <1>4, <3>1
    <3> HIDE DEF r, more
    <3> QED BY <1>g, <3>2, PeakIs
  <2>2. g[i] = h[i] /\ g[k] = h[k]
    BY <1>n, <1>g, <1>i
  <2> QED BY <1>2, <2>1, <2>2
<1>6. \A s \in Runs(h) : \E q : Peak(h, s[1], s[2], q)
  BY <1>1 DEF InOrder
<1>7. ASSUME NEW s \in Runs(h)
      PROVE  /\ \E q : Peak(g, s[1], s[2], q)
             /\ EventOf(g, s[1], s[2]) = EventOf(h, s[1], s[2])
  <2>1. PICK q : Peak(h, s[1], s[2], q)
    BY <1>6
  <2> HIDE DEF r, more
  <2> QED BY <1>2, <2>1, EventKept
<1>8. PICK a \in Nat : Len(all) = a
  BY <1>1, LenProperties DEF InOrder
<1>9. /\ all \in Seq(Runs(h)) /\ \A q \in 1..a : all[q] \in Runs(h)
      /\ \A q \in 1..a : all[q][2] \in 1..n
  <2>1. all \in Seq(Runs(h)) /\ \A q \in 1..a : all[q] \in Runs(h)
    BY <1>1, <1>8, ElementOfSeq DEF InOrder
  <2>2. \A s \in Runs(h) : s[2] \in 1..n
    BY <1>n, RunIs
  <2> QED BY <2>1, <2>2
<1>10. /\ more \in Seq(Runs(g)) /\ Len(more) = a + 1
       /\ \A q \in 1..a : more[q] = all[q]
       /\ more[a + 1] = r
  <2>1. all \in Seq(Runs(g))
    <3>1. all \in [1..a -> Runs(g)]
      BY <1>2, <1>8, <1>9, LenProperties
    <3> QED BY <3>1
  <2>2. r \in Runs(g)
    BY <1>2
  <2> HIDE DEF r
  <2> QED BY <1>8, <2>1, <2>2, AppendProperties
<1>11. r[1] = i /\ r[2] = m
  OBVIOUS
<1> HIDE DEF r, more
<1>12. InOrder(more, g)
  <2>1. DOMAIN more = 1..(a + 1) /\ DOMAIN all = 1..a
    BY <1>8, <1>9, <1>10, LenProperties
  <2>2. Runs(g) \subseteq Range(more)
    <3> SUFFICES ASSUME NEW s \in Runs(g)
                 PROVE  \E q \in DOMAIN more : more[q] = s
      BY DEF Range
    <3>1. CASE s \in Runs(h)
      <4>1. PICK q \in DOMAIN all : all[q] = s
        BY <1>1, <3>1 DEF InOrder, Range
      <4> QED BY <1>10, <2>1, <4>1
    <3>2. CASE s = r
      <4>1. a + 1 \in DOMAIN more
        BY <2>1
      <4> QED BY <1>10, <3>2, <4>1
    <3> QED BY <1>3, <3>1, <3>2
  <2>3. ASSUME NEW b \in 1..(a + 1), NEW c \in 1..(a + 1), b < c
        PROVE  more[b][2] < more[c][2]
    <3>1. CASE c = a + 1
      <4>1. b \in 1..a
        BY <2>3, <3>1
      <4>2. more[b][2] \in 1..n
        BY <1>9, <1>10, <4>1
      <4> QED BY <1>10, <1>11, <1>m, <3>1, <4>2
    <3>2. CASE c # a + 1
      <4>1. b \in 1..a /\ c \in 1..a
        BY <2>3, <3>2
      <4> QED BY <1>1, <1>8, <1>10, <2>3, <4>1 DEF InOrder
    <3> QED BY <3>1, <3>2
  <2>4. \A s \in Runs(g) : \E q : Peak(g, s[1], s[2], q)
    BY <1>3, <1>4, <1>7, <1>11
  <2> QED BY <1>10, <2>2, <2>3, <2>4 DEF InOrder
<1> DEFINE old == Events(h, all)
           new == Events(g, more)
<1>13. /\ old \in Seq(TxEvent) /\ Len(old) = a
       /\ \A q \in 1..a : old[q] = EventOf(h, all[q][1], all[q][2])
  <2>1. /\ Events(h, all) \in Seq(TxEvent) /\ Len(Events(h, all)) = Len(all)
        /\ \A q \in 1..Len(all) : Events(h, all)[q] = EventOf(h, all[q][1], all[q][2])
    BY <1>1, EventsSeq
  <2> QED BY <1>8, <2>1
<1>14. /\ new \in Seq(TxEvent) /\ Len(new) = a + 1
       /\ \A q \in 1..(a + 1) : new[q] = EventOf(g, more[q][1], more[q][2])
  <2>1. /\ Events(g, more) \in Seq(TxEvent) /\ Len(Events(g, more)) = Len(more)
        /\ \A q \in 1..Len(more) : Events(g, more)[q] = EventOf(g, more[q][1], more[q][2])
    BY <1>g, <1>12, EventsSeq
  <2> QED BY <1>10, <2>1
<1> HIDE DEF old, new
<1>15. \A q \in 1..a : new[q] = old[q]
  <2>1. \A q \in 1..a : q \in 1..(a + 1)
    OBVIOUS
  <2> QED BY <1>7, <1>9, <1>10, <1>13, <1>14, <2>1
<1>16. new[a + 1] = e
  <2>1. a + 1 \in 1..(a + 1)
    OBVIOUS
  <2> QED BY <1>5, <1>10, <1>11, <1>14, <2>1
<1>17. e \in TxEvent
  BY <1>14, <1>16, ElementOfSeq
<1>18. new = Append(old, e)
  <2>1. /\ Append(old, e) \in Seq(TxEvent) /\ Len(Append(old, e)) = a + 1
        /\ \A q \in 1..a : Append(old, e)[q] = old[q]
        /\ Append(old, e)[a + 1] = e
    BY <1>13, <1>17, AppendProperties
  <2>2. \A q \in 1..(a + 1) : new[q] = Append(old, e)[q]
    BY <1>15, <1>16, <2>1
  <2> QED BY <1>14, <2>1, <2>2, SeqEqual
<1>19. Trim(new, MaxTxEvents) = Push(evs, e, MaxTxEvents)
  <2>1. Trim(Append(old, e), MaxTxEvents) = Push(Trim(old, MaxTxEvents), e, MaxTxEvents)
    BY <1>13, <1>17, TxAssumption, TrimAppend
  <2> QED BY <1>1, <1>18, <2>1 DEF old
<1> QED BY <1>12, <1>14, <1>19 DEF ListIs, new

(* A reading above the threshold opens a transmission...                    *)
LEMMA BurstOpens ==
  ASSUME NEW h \in Seq(Hearing), NEW x, NEW g, After(g, h, x), x.above,
         Len(h) = 0 \/ ~h[Len(h)].above
  PROVE  BurstIs(<<[start |-> x.at, amps |-> x.amps, power |-> x.power]>>, g)
<1>1. PICK n \in Nat : Len(h) = n
  BY LenProperties
<1>2. PICK m \in Nat : m = n + 1
  OBVIOUS
<1>3. Len(g) = m /\ g[m] = x /\ \A q \in 1..n : g[q] = h[q]
  BY <1>1, <1>2, AppendProperties DEF After
<1>4. Opens(g, m, m)
  <2>1. m = 1 \/ ~g[m - 1].above
    <3>1. n = 0 => m = 1
      BY <1>2
    <3>2. n # 0 => n \in 1..n /\ m - 1 = n
      BY <1>2
    <3> QED BY <1>1, <1>3, <3>1, <3>2
  <2>2. m \in 1..m /\ \A q \in m..m : q = m
    BY <1>2
  <2> QED BY <1>3, <2>1, <2>2 DEF Opens
<1>5. Peak(g, m, m + 1, m)
  <2>1. m \in m..((m + 1) - 1) /\ (\A q \in m..((m + 1) - 1) : q = m)
        /\ \A q \in m..(m - 1) : FALSE
    BY <1>2
  <2>2. x.amps \in Int
    BY DEF Hearing, After
  <2> QED BY <1>3, <2>1, <2>2 DEF Peak
<1> QED BY <1>3, <1>4, <1>5 DEF BurstIs

(* ... or is another one of it, with its peak or without.                   *)
LEMMA BurstGoesOn ==
  ASSUME NEW h \in Seq(Hearing), NEW x, NEW g, After(g, h, x), x.above,
         NEW n, n = Len(h), NEW i, Opens(h, i, n), NEW k, Peak(h, i, n + 1, k)
  PROVE  /\ x.amps > h[k].amps =>
              BurstIs(<<[start |-> h[i].at, amps |-> x.amps, power |-> x.power]>>, g)
         /\ ~(x.amps > h[k].amps) =>
              BurstIs(<<[start |-> h[i].at, amps |-> h[k].amps, power |-> h[k].power]>>, g)
<1>1. n \in Nat
  BY LenProperties
<1>2. PICK m \in Nat : m = n + 1
  BY <1>1
<1>3. Len(g) = m /\ g[m] = x /\ (\A q \in 1..n : g[q] = h[q])
  BY <1>1, <1>2, AppendProperties DEF After
<1>4. /\ i \in 1..n /\ k \in i..n
      /\ \A q \in i..n : h[q].above
      /\ \A q \in i..n : h[q].amps <= h[k].amps
      /\ \A q \in i..(k - 1) : h[q].amps < h[k].amps
      /\ i = 1 \/ ~h[i - 1].above
  <2>1. (n + 1) - 1 = n
    BY <1>1
  <2> QED BY <2>1 DEF Opens, Peak
<1>5. /\ x.amps \in Int
      /\ \A q \in 1..n : h[q].amps \in Int
  <2>1. \A q \in 1..n : h[q] \in Hearing
    BY ElementOfSeq
  <2>2. x.amps \in Int
    BY DEF Hearing, After
  <2> QED BY <2>1, <2>2 DEF Hearing
<1>6. \A q \in i..m : q = m \/ q \in i..n
  BY <1>1, <1>2, <1>4
<1>7. i \in 1..m /\ k \in i..m /\ m \in i..m /\ i \in 1..n /\ k \in 1..n
      /\ (\A q \in i..n : q \in 1..n) /\ (\A q \in i..(k - 1) : q \in i..n)
  BY <1>1, <1>2, <1>4
<1>8. Opens(g, i, m)
  <2>1. \A q \in i..m : g[q].above
    BY <1>3, <1>4, <1>6, <1>7
  <2>2. i = 1 \/ ~g[i - 1].above
    <3>1. i # 1 => i - 1 \in 1..n
      BY <1>4
    <3> QED BY <1>3, <1>4, <3>1
  <2> QED BY <1>7, <2>1, <2>2 DEF Opens
<1>9. (m + 1) - 1 = m /\ m - 1 = n
  BY <1>1, <1>2
<1>10. \A q \in i..n : g[q].amps = h[q].amps
  BY <1>3, <1>7
<1>11. ASSUME x.amps > h[k].amps
       PROVE  Peak(g, i, m + 1, m)
  <2>1. \A q \in i..n : g[q].amps < g[m].amps
    <3> SUFFICES ASSUME NEW q \in i..n PROVE g[q].amps < g[m].amps
      OBVIOUS
    <3>1. h[q].amps \in Int /\ h[k].amps \in Int /\ h[q].amps <= h[k].amps
      BY <1>4, <1>5, <1>7
    <3>2. h[q].amps < x.amps
      BY <1>5, <1>11, <3>1
    <3> QED BY <1>3, <1>10, <3>2
  <2>2. \A q \in i..m : g[q].amps <= g[m].amps
    <3> SUFFICES ASSUME NEW q \in i..m PROVE g[q].amps <= g[m].amps
      OBVIOUS
    <3>1. CASE q = m
      BY <1>3, <1>5, <3>1
    <3>2. CASE q \in i..n
      <4>1. g[q].amps \in Int /\ g[m].amps \in Int
        BY <1>3, <1>5, <1>7, <1>10, <3>2
      <4>2. g[q].amps < g[m].amps
        BY <2>1, <3>2
      <4> QED BY <4>1, <4>2
    <3> QED BY <1>6, <3>1, <3>2
  <2> QED BY <1>7, <1>9, <2>1, <2>2 DEF Peak
<1>12. ASSUME ~(x.amps > h[k].amps)
       PROVE  Peak(g, i, m + 1, k)
  <2>1. x.amps <= h[k].amps
    BY <1>5, <1>7, <1>12
  <2>2. \A q \in i..m : g[q].amps <= g[k].amps
    BY <1>3, <1>4, <1>6, <1>7, <2>1
  <2>3. \A q \in i..(k - 1) : g[q].amps < g[k].amps
    BY <1>3, <1>4, <1>7
  <2> QED BY <1>7, <1>9, <2>2, <2>3 DEF Peak
<1>13. g[i] = h[i] /\ g[k] = h[k]
  BY <1>3, <1>7
<1>14. ASSUME x.amps > h[k].amps
       PROVE  BurstIs(<<[start |-> h[i].at, amps |-> x.amps, power |-> x.power]>>, g)
  BY <1>3, <1>8, <1>11, <1>13, <1>14 DEF BurstIs
<1>15. ASSUME ~(x.amps > h[k].amps)
       PROVE  BurstIs(<<[start |-> h[i].at, amps |-> h[k].amps, power |-> h[k].power]>>, g)
  BY <1>3, <1>8, <1>12, <1>13, <1>15 DEF BurstIs
<1> QED BY <1>14, <1>15

(* One valid reading, with the strength s: the burst and the list follow.   *)
LEMMA HearStep ==
  ASSUME heard \in Seq(Hearing), BurstIs(burst, heard), ListIs(txEvents, heard),
         NEW now \in Int, NEW above \in BOOLEAN, NEW s, s.amps \in Int, s.power \in Int,
         NEW x, x.at = now, x.above = above, x.amps = s.amps, x.power = s.power,
         NEW g, After(g, heard, x)
  PROVE  /\ BurstIs(IF above THEN Rising(now, s) ELSE <<>>, g)
         /\ ListIs(IF above THEN txEvents ELSE Ended(now), g)
<1>1. PICK n \in Nat : Len(heard) = n
  BY LenProperties
<1>2. x.above = above /\ x.at = now /\ x.amps = s.amps /\ x.power = s.power
  BY DEF Hearing
<1>3. PICK m : m = n + 1
  OBVIOUS
<1>4. /\ Grown(g, heard) /\ Len(g) = m /\ g[m] = x
      /\ x.above => Runs(g) = Runs(heard)
      /\ (\A i : ~Opens(heard, i, n)) => Runs(g) = Runs(heard)
  <2>1. m = Len(heard) + 1
    BY <1>1, <1>3
  <2>2. /\ Grown(g, heard) /\ Len(g) = m /\ g[m] = x
        /\ x.above => Runs(g) = Runs(heard)
        /\ (\A i : ~Opens(heard, i, Len(heard))) => Runs(g) = Runs(heard)
    BY <1>2, <2>1, RunsAfter
  <2> QED BY <1>1, <2>2
<1>5. ~above => BurstIs(<<>>, g)
  BY <1>2, <1>4 DEF BurstIs
<1>6. above => ListIs(txEvents, g)
  BY <1>2, <1>4, ListKept
<1>7. CASE burst = <<>>
  <2>1. n = 0 \/ ~heard[n].above
    BY <1>1, <1>7 DEF BurstIs
  <2>2. \A i : ~Opens(heard, i, n)
    BY <2>1 DEF Opens
  <2>3. ListIs(txEvents, g)
    BY <1>4, <2>2, ListKept
  <2>4. Rising(now, s) = <<[start |-> x.at, amps |-> x.amps, power |-> x.power]>>
    BY <1>2, <1>7 DEF Rising
  <2>5. Ended(now) = txEvents
    BY <1>7 DEF Ended
  <2>6. above => BurstIs(Rising(now, s), g)
    BY <1>1, <1>2, <2>1, <2>4, BurstOpens
  <2> QED BY <1>5, <2>3, <2>5, <2>6
<1>8. CASE burst # <<>>
  <2>1. PICK i, k : /\ Opens(heard, i, n) /\ Peak(heard, i, n + 1, k)
                    /\ burst = <<[start |-> heard[i].at, amps |-> heard[k].amps,
                                  power |-> heard[k].power]>>
    BY <1>1, <1>8 DEF BurstIs
  <2>2. /\ burst[1].start = heard[i].at /\ burst[1].amps = heard[k].amps
        /\ burst[1].power = heard[k].power
    BY <2>1
  <2>3. Rising(now, s) =
          IF x.amps > heard[k].amps
          THEN <<[start |-> heard[i].at, amps |-> x.amps, power |-> x.power]>>
          ELSE <<[start |-> heard[i].at, amps |-> heard[k].amps, power |-> heard[k].power]>>
    BY <1>2, <1>8, <2>1, <2>2 DEF Rising, Stronger
  <2>4. above => /\ x.amps > heard[k].amps =>
                      BurstIs(<<[start |-> heard[i].at, amps |-> x.amps, power |-> x.power]>>, g)
                 /\ ~(x.amps > heard[k].amps) =>
                      BurstIs(<<[start |-> heard[i].at, amps |-> heard[k].amps,
                                 power |-> heard[k].power]>>, g)
    <3> QED BY <1>1, <1>2, <2>1, BurstGoesOn
  <2>5. Ended(now) = Push(txEvents, AsEvent(burst[1], now), MaxTxEvents)
    BY <1>8 DEF Ended
  <2>6. AsEvent(burst[1], now) =
          [start |-> heard[i].at, end |-> x.at, amps |-> heard[k].amps, power |-> heard[k].power]
    BY <1>2, <2>2 DEF AsEvent
  <2>7. Peak(heard, i, m, k) /\ m = Len(heard) + 1 /\ Opens(heard, i, Len(heard))
    BY <1>1, <1>3, <2>1
  <2>8. ~above => ListIs(Ended(now), g)
    BY <1>2, <2>5, <2>6, <2>7, ListPushed
  <2> QED BY <1>5, <1>6, <2>3, <2>4, <2>8
<1> QED BY <1>7, <1>8

(* A transmission that lasts: it ends later than it starts.                 *)
Long(h, r) == r \in Runs(h) /\ h[r[1]].at < h[r[2]].at
Timely(h) == \A a, b \in 1..Len(h) : a <= b => h[a].at <= h[b].at

(* Of two of them one ends before the other, and later ends are later runs. *)
LEMMA LongsApart ==
  ASSUME NEW h \in Seq(Hearing), Timely(h), NEW r, NEW s, Long(h, r), Long(h, s)
  PROVE  /\ r[2] < s[2] => h[r[2]].at < h[s[2]].at
         /\ h[r[2]].at = h[s[2]].at => r = s
<1>1. PICK n \in Nat : Len(h) = n
  BY LenProperties
<1>2. PICK i, j \in 1..n : /\ r = <<i, j>> /\ i < j /\ ~h[j].above
                           /\ \A k \in i..(j - 1) : h[k].above
                           /\ i = 1 \/ ~h[i - 1].above
  BY <1>1, RunIs DEF Long
<1>3. PICK a, b \in 1..n : /\ s = <<a, b>> /\ a < b /\ ~h[b].above
                           /\ \A k \in a..(b - 1) : h[k].above
                           /\ a = 1 \/ ~h[a - 1].above
  BY <1>1, RunIs DEF Long
<1>4. /\ h[i].at < h[j].at /\ h[a].at < h[b].at
      /\ r[1] = i /\ r[2] = j /\ s[1] = a /\ s[2] = b
  BY <1>2, <1>3 DEF Long
<1>5. \A q \in 1..n : h[q].at \in Nat
  <2>1. \A q \in 1..n : h[q] \in Hearing
    BY <1>1, ElementOfSeq
  <2> QED BY <2>1 DEF Hearing
<1>6. \A p, q \in 1..n : p <= q => h[p].at <= h[q].at
  BY <1>1 DEF Timely
<1>7. j < b => h[j].at < h[b].at
  <2>1. j < b => j <= a
    <3>1. ~(j \in a..(b - 1))
      BY <1>2, <1>3
    <3> QED BY <1>2, <1>3, <3>1
  <2>2. j <= a => h[j].at <= h[a].at
    BY <1>6
  <2>3. ASSUME j < b PROVE h[j].at < h[b].at
    <3>1. h[j].at <= h[a].at /\ h[a].at < h[b].at
      BY <1>4, <2>1, <2>2, <2>3
    <3>2. h[j].at \in Nat /\ h[a].at \in Nat /\ h[b].at \in Nat
      BY <1>2, <1>3, <1>5
    <3> QED BY <3>1, <3>2
  <2> QED BY <2>3
<1>8. b < j => h[b].at < h[j].at
  <2>1. b < j => b <= i
    <3>1. ~(b \in i..(j - 1))
      BY <1>2, <1>3
    <3> QED BY <1>2, <1>3, <3>1
  <2>2. b <= i => h[b].at <= h[i].at
    BY <1>6
  <2>3. ASSUME b < j PROVE h[b].at < h[j].at
    <3>1. h[b].at <= h[i].at /\ h[i].at < h[j].at
      BY <1>4, <2>1, <2>2, <2>3
    <3>2. h[b].at \in Nat /\ h[i].at \in Nat /\ h[j].at \in Nat
      BY <1>2, <1>3, <1>5
    <3> QED BY <3>1, <3>2
  <2> QED BY <2>3
<1>9. j = b => i = a
  <2>1. j = b /\ i < a => FALSE
    <3>1. j = b /\ i < a => a # 1 /\ a - 1 \in i..(j - 1)
      BY <1>2, <1>3
    <3> QED BY <1>2, <1>3, <3>1
  <2>2. j = b /\ a < i => FALSE
    <3>1. j = b /\ a < i => i # 1 /\ i - 1 \in a..(b - 1)
      BY <1>2, <1>3
    <3> QED BY <1>2, <1>3, <3>1
  <2> QED BY <2>1, <2>2
<1>10. h[j].at = h[b].at => j = b
  BY <1>5, <1>7, <1>8
<1> QED BY <1>2, <1>3, <1>4, <1>7, <1>9, <1>10

(* What the list is good for: its entries are transmissions, and of those   *)
(* that lasted it misses none that ended after one it holds.                *)
Describes(ev, h, r) == r \in Runs(h) /\ ev.start = h[r[1]].at /\ ev.end = h[r[2]].at
Lasting(ev) == ev.start < ev.end
Newer(evs, h) ==
  \A k \in 1..Len(evs) : Lasting(evs[k]) =>
    \A r : Long(h, r) /\ evs[k].end <= h[r[2]].at => \E q \in 1..Len(evs) : evs[q].end = h[r[2]].at

(* The list has this from its invariant.                                    *)
LEMMA ListFacts ==
  ASSUME NEW h \in Seq(Hearing), Timely(h), NEW evs, ListIs(evs, h)
  PROVE  /\ evs \in Seq(TxEvent) /\ Len(evs) <= MaxTxEvents
         /\ \A k \in 1..Len(evs) : \E r : Describes(evs[k], h, r)
         /\ Newer(evs, h)
<1>1. PICK all : InOrder(all, h) /\ evs = Trim(Events(h, all), MaxTxEvents)
  BY DEF ListIs
<1> DEFINE old == Events(h, all)
<1>2. /\ old \in Seq(TxEvent) /\ Len(old) = Len(all)
      /\ \A k \in 1..Len(all) : old[k] = EventOf(h, all[k][1], all[k][2]) /\ all[k] \in Runs(h)
  BY <1>1, EventsSeq
<1>3. evs = Trim(old, MaxTxEvents)
  BY <1>1
<1> HIDE DEF old
<1>4. PICK m \in Nat : Len(old) = m
  BY <1>2, LenProperties
<1>5. /\ evs \in Seq(TxEvent) /\ Len(evs) = IF m > MaxTxEvents THEN MaxTxEvents ELSE m
      /\ \A i \in 1..Len(evs) : evs[i] = IF m > MaxTxEvents THEN old[(m - MaxTxEvents) + i] ELSE old[i]
  <2>1. PICK x \in Nat : x = MaxTxEvents
    BY TxAssumption
  <2>2. old \in Seq(TxEvent) /\ Len(old) = m
    BY <1>2, <1>4
  <2>3. /\ Trim(old, x) \in Seq(TxEvent) /\ Len(Trim(old, x)) = IF m > x THEN x ELSE m
        /\ \A i \in 1..Len(Trim(old, x)) : Trim(old, x)[i] = IF m > x THEN old[(m - x) + i] ELSE old[i]
    BY <2>2, TrimSeq
  <2> QED BY <1>3, <2>1, <2>3
<1>6. PICK d \in 0..m : /\ Len(evs) = m - d
                        /\ \A i \in 1..(m - d) : evs[i] = old[d + i]
  <2>1. MaxTxEvents \in Nat
    BY TxAssumption
  <2>2. CASE m > MaxTxEvents
    <3>1. PICK d \in 0..m : d = m - MaxTxEvents /\ m - d = MaxTxEvents
      BY <2>1, <2>2
    <3>2. Len(evs) = m - d /\ \A i \in 1..(m - d) : evs[i] = old[d + i]
      BY <1>5, <2>2, <3>1
    <3> QED BY <3>2
  <2>3. CASE ~(m > MaxTxEvents)
    <3>1. PICK d \in 0..m : d = 0
      OBVIOUS
    <3>2. m - d = m /\ \A i \in 1..m : d + i = i
      BY <3>1
    <3>3. Len(evs) = m /\ \A i \in 1..m : evs[i] = old[i]
      BY <1>5, <2>3
    <3>4. Len(evs) = m - d /\ \A i \in 1..(m - d) : evs[i] = old[d + i]
      BY <3>2, <3>3
    <3> QED BY <3>4
  <2> QED BY <2>2, <2>3
<1>7. \A k \in 1..m : old[k].start = h[all[k][1]].at /\ old[k].end = h[all[k][2]].at
  <2> SUFFICES ASSUME NEW k \in 1..m
               PROVE  old[k].start = h[all[k][1]].at /\ old[k].end = h[all[k][2]].at
    OBVIOUS
  <2>1. old[k] = EventOf(h, all[k][1], all[k][2])
    BY <1>2, <1>4
  <2>2. EventOf(h, all[k][1], all[k][2]).start = h[all[k][1]].at
    BY DEF EventOf
  <2>3. EventOf(h, all[k][1], all[k][2]).end = h[all[k][2]].at
    BY DEF EventOf
  <2> QED BY <2>1, <2>2, <2>3
<1>8. \A k \in 1..(m - d) : Describes(evs[k], h, all[d + k])
  <2> SUFFICES ASSUME NEW k \in 1..(m - d) PROVE Describes(evs[k], h, all[d + k])
    OBVIOUS
  <2>1. d + k \in 1..m
    OBVIOUS
  <2> QED BY <1>2, <1>4, <1>6, <1>7, <2>1 DEF Describes
<1>9. ASSUME NEW k \in 1..(m - d), Lasting(evs[k]), NEW r, Long(h, r), evs[k].end <= h[r[2]].at
      PROVE  \E q \in 1..(m - d) : evs[q].end = h[r[2]].at
  <2>1. PICK t \in 1..m : t = d + k
    OBVIOUS
  <2>2. Describes(evs[k], h, all[t])
    BY <1>8, <2>1
  <2>3. Long(h, all[t]) /\ evs[k].end = h[all[t][2]].at
    BY <1>9, <2>2 DEF Long, Describes, Lasting
  <2>4. PICK p \in 1..m : all[p] = r
    <3>1. r \in Range(all) /\ DOMAIN all = 1..m
      BY <1>1, <1>2, <1>4, <1>9, LenProperties DEF InOrder, Long
    <3> QED BY <3>1 DEF Range
  <2>5. d + 1 <= p
    <3> SUFFICES ASSUME p < t PROVE FALSE
      BY <2>1
    <3>1. all[p][2] < all[t][2]
      BY <1>1, <1>2, <1>4 DEF InOrder
    <3>2. h[r[2]].at < h[all[t][2]].at
      BY <1>9, <2>3, <2>4, <3>1, LongsApart
    <3>3. h[r[2]].at \in Nat /\ h[all[t][2]].at \in Nat
      <4>1. r \in Runs(h) /\ all[t] \in Runs(h)
        BY <1>9, <2>3 DEF Long
      <4>2. PICK n \in Nat : Len(h) = n
        BY LenProperties
      <4>3. r[2] \in 1..n /\ all[t][2] \in 1..n
        BY <4>1, <4>2, RunIs
      <4>4. h[r[2]] \in Hearing /\ h[all[t][2]] \in Hearing
        BY <4>2, <4>3, ElementOfSeq
      <4> QED BY <4>4 DEF Hearing
    <3> QED BY <1>9, <2>3, <3>2, <3>3
  <2>6. PICK q \in 1..(m - d) : p = d + q
    <3>1. p - d \in 1..(m - d) /\ p = d + (p - d)
      BY <2>5
    <3> QED BY <3>1
  <2>7. evs[q].end = h[all[p][2]].at
    BY <1>8, <2>6 DEF Describes
  <2> QED BY <2>4, <2>7
<1>10. Newer(evs, h)
  BY <1>6, <1>9 DEF Newer
<1>11. Len(evs) <= MaxTxEvents
  BY <1>5, TxAssumption
<1> QED BY <1>5, <1>6, <1>8, <1>10, <1>11

TxReading == [valid : BOOLEAN, cur : Int, v : Nat, at : Nat]
\* No reading of the BMS was taken when r began.
Unread(h, ring, r) == \A k \in 1..Len(ring) : ring[k].valid => ring[k].at # h[r[1]].at

\* The estimator: what it has weighed, and the samples it took.
Done(P, h) ==
  /\ P \in SUBSET Nat /\ IsFiniteSet(P)
  /\ \A p \in P : \E r : Long(h, r) /\ h[r[2]].at = p
Took(samples, h, ring) ==
  /\ \E T : samples \in Seq(T)
  /\ Len(samples) <= MaxSamples
  /\ \A i \in 1..Len(samples) :
        \E r : Long(h, r) /\ h[r[2]].at = samples[i].end /\ Unread(h, ring, r)
  /\ \A i, j \in 1..Len(samples) : samples[i].end = samples[j].end => i = j
Struck(samples, evs, P) ==
  \A i \in 1..Len(samples), k \in 1..Len(evs) :
    Lasting(evs[k]) /\ evs[k].end = samples[i].end => evs[k].end \in P
EstimatorIs(e, h, evs, ring) ==
  /\ e = [samples |-> e.samples, processed |-> e.processed]
  /\ Done(e.processed, h) /\ Cardinality(e.processed) <= MaxProcessed
  /\ Took(e.samples, h, ring)
  /\ Struck(e.samples, evs, e.processed)

\* What is known of the list.
ListOk(evs, h) ==
  /\ evs \in Seq(TxEvent) /\ Len(evs) <= MaxTxEvents
  /\ \A k \in 1..Len(evs) : \E r : Describes(evs[k], h, r)
  /\ Newer(evs, h)

-----------------------------------------------------------------------------
(* The set of what was weighed never forgets a transmission of the list:    *)
(* what it drops is older than all of them, since it holds more than they.  *)
LEMMA OldestDropped ==
  ASSUME NEW h, NEW evs, ListOk(evs, h), NEW P, Done(P, h), Cardinality(P) > MaxProcessed,
         NEW k \in 1..Len(evs), Lasting(evs[k])
  PROVE  evs[k].end # Min(P)
<1> SUFFICES ASSUME evs[k].end = Min(P) PROVE FALSE
  OBVIOUS
<1>1. PICK n \in Nat : Len(evs) = n
  BY LenProperties DEF ListOk
<1>2. P \subseteq Nat /\ IsFiniteSet(P) /\ Cardinality(P) \in Nat
  BY FS_CardinalityType DEF Done
<1>3. MaxTxEvents \in Nat /\ MaxProcessed \in Nat /\ MaxProcessed >= MaxTxEvents
  BY TxAssumption
<1>4. n <= MaxTxEvents
  BY <1>1 DEF ListOk
<1>5. \A x \in P : Min(P) <= x
  <2>1. P # {}
    <3>1. P = {} => Cardinality(P) = 0
      BY FS_EmptySet
    <3> QED BY <1>2, <1>3, <3>1
  <2>2. \E p \in P : \A x \in P : p <= x
    BY <1>2, <2>1, NatMin
  <2> QED BY <2>2 DEF Min
<1> DEFINE T == {evs[q].end : q \in 1..n}
<1>6. P \subseteq T
  <2> SUFFICES ASSUME NEW x \in P PROVE x \in T
    OBVIOUS
  <2>1. PICK r : Long(h, r) /\ h[r[2]].at = x
    BY DEF Done
  <2>2. evs[k].end <= h[r[2]].at
    BY <1>5, <2>1
  <2>3. \E q \in 1..Len(evs) : evs[q].end = h[r[2]].at
    BY <2>1, <2>2 DEF ListOk, Newer
  <2> QED BY <1>1, <2>1, <2>3
<1>7. IsFiniteSet(T) /\ Cardinality(T) <= n
  <2> DEFINE f == [q \in 1..n |-> evs[q].end]
  <2>1. f \in Surjection(1..n, T)
    BY DEF Surjection
  <2>2. IsFiniteSet(1..n) /\ Cardinality(1..n) = n
    <3>1. 1 \in Int /\ n \in Int
      OBVIOUS
    <3>2. IsFiniteSet(1..n) /\ Cardinality(1..n) = IF 1 > n THEN 0 ELSE (n - 1) + 1
      BY ONLY <3>1, FS_Interval
    <3> QED BY <3>2
  <2> HIDE DEF f, T
  <2>3. IsFiniteSet(T) /\ Cardinality(T) <= Cardinality(1..n)
    BY <2>1, <2>2, FS_Surjection
  <2> QED BY <2>2, <2>3
<1> HIDE DEF T
<1>8. Cardinality(P) <= Cardinality(T) /\ Cardinality(T) \in Nat
  BY <1>6, <1>7, FS_Subset, FS_CardinalityType
<1> QED BY <1>2, <1>3, <1>4, <1>7, <1>8

(* So striking one off keeps the others struck off.                         *)
LEMMA MarkKeeps ==
  ASSUME NEW h \in Seq(Hearing), NEW evs, ListOk(evs, h), NEW ring, NEW e, EstimatorIs(e, h, evs, ring),
         NEW k \in 1..Len(evs), Lasting(evs[k])
  PROVE  /\ Mark(e, evs[k]) = [samples |-> e.samples, processed |-> Mark(e, evs[k]).processed]
         /\ Done(Mark(e, evs[k]).processed, h)
         /\ Cardinality(Mark(e, evs[k]).processed) <= MaxProcessed
         /\ \A q \in 1..Len(evs) : Lasting(evs[q]) /\ evs[q].end \in e.processed \union {evs[k].end}
                                     => evs[q].end \in Mark(e, evs[k]).processed
<1> DEFINE S == e.processed \union {evs[k].end}
           P == IF Cardinality(S) > MaxProcessed THEN S \ {Min(S)} ELSE S
<1>1. Mark(e, evs[k]) = [samples |-> e.samples, processed |-> P]
  <2>1. e = [samples |-> e.samples, processed |-> e.processed]
    BY DEF EstimatorIs
  <2>2. Mark(e, evs[k]) = [e EXCEPT !.processed = P]
    BY DEF Mark
  <2> HIDE DEF P
  <2> QED BY <2>1, <2>2
<1>2. Mark(e, evs[k]).processed = P
  BY <1>1
<1>3. evs[k].end \in Nat
  <2>1. evs \in Seq(TxEvent)
    BY DEF ListOk
  <2>2. evs[k] \in TxEvent
    BY <2>1, ElementOfSeq
  <2> QED BY <2>2 DEF TxEvent
<1>4. /\ e.processed \subseteq Nat /\ IsFiniteSet(e.processed)
      /\ \A p \in e.processed : \E r : Long(h, r) /\ h[r[2]].at = p
      /\ Cardinality(e.processed) <= MaxProcessed /\ Cardinality(e.processed) \in Nat
  BY FS_CardinalityType DEF EstimatorIs, Done
<1>5. /\ IsFiniteSet(S)
      /\ Cardinality(S) = IF evs[k].end \in e.processed THEN Cardinality(e.processed)
                          ELSE Cardinality(e.processed) + 1
  BY <1>4, FS_AddElement
<1>6. \E r : Long(h, r) /\ h[r[2]].at = evs[k].end
  <2>1. PICK r : Describes(evs[k], h, r)
    BY DEF ListOk
  <2> QED BY <2>1 DEF Describes, Long, Lasting
<1>7. Done(S, h)
  BY <1>3, <1>4, <1>5, <1>6 DEF Done
<1>8. MaxProcessed \in Nat
  BY TxAssumption
<1> HIDE DEF S
<1>9. CASE Cardinality(S) > MaxProcessed
  <2>1. P = S \ {Min(S)}
    BY <1>9
  <2> HIDE DEF P
  <2>2. Min(S) \in S
    <3>1. S # {}
      BY DEF S
    <3>2. S \subseteq Nat
      BY <1>7 DEF Done
    <3>3. \E p \in S : \A x \in S : p <= x
      BY <3>1, <3>2, NatMin
    <3> QED BY <3>3 DEF Min
  <2>3. IsFiniteSet(P) /\ Cardinality(P) = Cardinality(S) - 1
    BY <1>5, <2>1, <2>2, FS_RemoveElement
  <2>4. Cardinality(P) <= MaxProcessed
    BY <1>4, <1>5, <1>8, <2>3
  <2>5. Done(P, h)
    BY <1>7, <2>1, <2>3 DEF Done
  <2>6. \A q \in 1..Len(evs) : Lasting(evs[q]) /\ evs[q].end \in S => evs[q].end \in P
    BY <1>7, <1>9, <2>1, OldestDropped
  <2> QED BY <1>1, <1>2, <2>4, <2>5, <2>6 DEF S
<1>10. CASE ~(Cardinality(S) > MaxProcessed)
  <2>1. P = S
    BY <1>10
  <2>2. Cardinality(S) <= MaxProcessed
    BY <1>4, <1>5, <1>8, <1>10
  <2> HIDE DEF P
  <2> QED BY <1>1, <1>2, <1>7, <2>1, <2>2 DEF S
<1> QED BY <1>9, <1>10

(* A reading of the BMS at the very start of a transmission is both the one *)
(* before it and the first one during it: there is no dip to see.           *)
LEMMA NoDip ==
  ASSUME NEW ring \in Seq(TxReading), NEW ev, ev.start \in Nat, ev.end \in Nat, Lasting(ev),
         NEW k \in 1..Len(ring), ring[k].valid, ring[k].at = ev.start
  PROVE  Newest(ring, Pre(ring, ev)) = Oldest(ring, During(ring, ev))
         /\ Newest(ring, Pre(ring, ev)) \in 1..Len(ring)
<1>1. PICK n \in Nat : Len(ring) = n /\ DOMAIN ring = 1..n
  BY LenProperties
<1>2. \A i \in 1..n : ring[i].at \in Nat
  <2>1. \A i \in 1..n : ring[i] \in TxReading
    BY <1>1, ElementOfSeq
  <2> QED BY <2>1 DEF TxReading
<1> DEFINE A == {i \in 1..n : ring[i].valid /\ ring[i].at = ev.start}
<1>3. PICK m \in A : \A i \in A : m <= i
  <2>1. A \subseteq Nat /\ A # {}
    BY <1>1
  <2> HIDE DEF A
  <2> QED BY <2>1, NatMin
<1> DEFINE B == Pre(ring, ev)
           D == During(ring, ev)
<1>4. /\ B = {i \in 1..n : ring[i].valid /\ ring[i].at <= ev.start}
      /\ D = {i \in 1..n : ring[i].valid /\ ring[i].at >= ev.start /\ ring[i].at <= ev.end}
  BY <1>1 DEF Pre, During
<1> HIDE DEF B, D
<1>5. m \in 1..n /\ ring[m].valid /\ ring[m].at = ev.start /\ m \in B /\ m \in D
  BY <1>2, <1>3, <1>4 DEF Lasting
<1> DEFINE N(i) == \A j \in B : ring[j].at < ring[i].at \/ (ring[j].at = ring[i].at /\ i <= j)
           O(i) == \A j \in D : ring[j].at > ring[i].at \/ (ring[j].at = ring[i].at /\ i <= j)
<1>6. N(m)
  <2> SUFFICES ASSUME NEW j \in B
               PROVE  ring[j].at < ring[m].at \/ (ring[j].at = ring[m].at /\ m <= j)
    OBVIOUS
  <2>1. j \in 1..n /\ ring[j].valid /\ ring[j].at <= ev.start /\ ring[j].at \in Nat
    BY <1>2, <1>4
  <2>2. ring[j].at = ev.start => m <= j
    BY <1>3, <2>1
  <2> QED BY <1>5, <2>1, <2>2
<1>7. O(m)
  <2> SUFFICES ASSUME NEW j \in D
               PROVE  ring[j].at > ring[m].at \/ (ring[j].at = ring[m].at /\ m <= j)
    OBVIOUS
  <2>1. j \in 1..n /\ ring[j].valid /\ ring[j].at >= ev.start /\ ring[j].at \in Nat
    BY <1>2, <1>4
  <2>2. ring[j].at = ev.start => m <= j
    BY <1>3, <2>1
  <2> QED BY <1>5, <2>1, <2>2
<1>8. \A i \in B : N(i) => i = m
  <2> SUFFICES ASSUME NEW i \in B, N(i) PROVE i = m
    OBVIOUS
  <2>1. i \in 1..n /\ ring[i].valid /\ ring[i].at <= ev.start /\ ring[i].at \in Nat
    BY <1>2, <1>4
  <2>2. ring[m].at < ring[i].at \/ (ring[m].at = ring[i].at /\ i <= m)
    BY <1>5
  <2>3. ring[i].at = ev.start /\ i <= m
    BY <1>5, <2>1, <2>2
  <2>4. m <= i
    BY <1>3, <2>1, <2>3
  <2> QED BY <1>5, <2>1, <2>3, <2>4
<1>9. \A i \in D : O(i) => i = m
  <2> SUFFICES ASSUME NEW i \in D, O(i) PROVE i = m
    OBVIOUS
  <2>1. i \in 1..n /\ ring[i].valid /\ ring[i].at >= ev.start /\ ring[i].at \in Nat
    BY <1>2, <1>4
  <2>2. ring[m].at > ring[i].at \/ (ring[m].at = ring[i].at /\ i <= m)
    BY <1>5
  <2>3. ring[i].at = ev.start /\ i <= m
    BY <1>5, <2>1, <2>2
  <2>4. m <= i
    BY <1>3, <2>1, <2>3
  <2> QED BY <1>5, <2>1, <2>3, <2>4
<1>10. Newest(ring, B) = m
  <2>1. Newest(ring, B) = CHOOSE i \in B : N(i)
    BY DEF Newest
  <2> HIDE DEF N
  <2> QED BY <1>5, <1>6, <1>8, <2>1
<1>11. Oldest(ring, D) = m
  <2>1. Oldest(ring, D) = CHOOSE i \in D : O(i)
    BY DEF Oldest
  <2> HIDE DEF O
  <2> QED BY <1>5, <1>7, <1>9, <2>1
<1> QED BY <1>1, <1>5, <1>10, <1>11 DEF B, D

\* x has no sample; it is the only one that samples p adds to old.
Unsampled(samples, x) == \A i \in 1..Len(samples) : samples[i].end # x.end
Adds(p, old, x) ==
  \A i \in 1..Len(p) : p[i].end = x.end \/ \E j \in 1..Len(old) : p[i].end = old[j].end
TookOf(h, r, ring, x) == Long(h, r) /\ h[r[2]].at = x.end /\ Unread(h, ring, r)

(* A sample of a transmission that has none yet is one more sample.         *)
LEMMA SampleKeeps ==
  ASSUME NEW h, NEW ring, NEW samples, Took(samples, h, ring), NEW x,
         NEW r, TookOf(h, r, ring, x), Unsampled(samples, x)
  PROVE  /\ Took(Push(samples, x, MaxSamples), h, ring)
         /\ Adds(Push(samples, x, MaxSamples), samples, x)
<1>u. /\ Long(h, r) /\ h[r[2]].at = x.end /\ Unread(h, ring, r)
      /\ \A i \in 1..Len(samples) : samples[i].end # x.end
  BY DEF TookOf, Unsampled
<1> DEFINE p == Push(samples, x, MaxSamples)
<1>1. PICK S : samples \in Seq(S)
  BY DEF Took
<1>2. PICK T : T = S \union {x}
  OBVIOUS
<1>3. samples \in Seq(T) /\ x \in T
  <2>1. samples \in [1..Len(samples) -> S] /\ Len(samples) \in Nat
    BY <1>1, LenProperties
  <2>2. samples \in [1..Len(samples) -> T]
    BY <1>2, <2>1
  <2> QED BY <1>2, <2>1, <2>2
<1>4. PICK M \in Nat \ {0} : M = MaxSamples
  BY TxAssumption
<1>5. PICK n \in Nat : n = Len(samples) /\ n <= M
  BY <1>1, <1>4, LenProperties DEF Took
<1>6. /\ p \in Seq(T) /\ Len(p) = IF n < M THEN n + 1 ELSE M
      /\ \A i \in 1..Len(p) : p[i] = IF i = Len(p) THEN x ELSE IF n < M THEN samples[i] ELSE samples[i + 1]
  BY <1>3, <1>4, <1>5, PushKept
<1> HIDE DEF p
<1>7. PICK d \in {0, 1} : Len(p) = n + 1 - d /\ Len(p) <= M
                          /\ \A i \in 1..Len(p) : p[i] = IF i = n + 1 - d THEN x ELSE samples[i + d]
  <2>1. CASE n < M
    <3>1. Len(p) = n + 1 - 0 /\ Len(p) <= M
          /\ \A i \in 1..Len(p) : p[i] = IF i = n + 1 - 0 THEN x ELSE samples[i + 0]
      BY <1>6, <2>1
    <3> QED BY <3>1
  <2>2. CASE ~(n < M)
    <3>1. n = M
      BY <1>5, <2>2
    <3>2. Len(p) = n + 1 - 1 /\ Len(p) <= M
          /\ \A i \in 1..Len(p) : p[i] = IF i = n + 1 - 1 THEN x ELSE samples[i + 1]
      BY <1>6, <2>2, <3>1
    <3> QED BY <3>2
  <2> QED BY <2>1, <2>2
<1>8. \A i \in 1..Len(p) : \/ i = n + 1 - d /\ p[i] = x
                           \/ i + d \in 1..n /\ p[i] = samples[i + d]
  BY <1>7
<1>9. \A i \in 1..Len(p) : \E s : Long(h, s) /\ h[s[2]].at = p[i].end /\ Unread(h, ring, s)
  <2> SUFFICES ASSUME NEW i \in 1..Len(p)
               PROVE  \E s : Long(h, s) /\ h[s[2]].at = p[i].end /\ Unread(h, ring, s)
    OBVIOUS
  <2>1. CASE p[i] = x
    BY <1>u, <2>1
  <2>2. CASE i + d \in 1..n /\ p[i] = samples[i + d]
    <3>1. PICK j \in 1..Len(samples) : p[i] = samples[j]
      BY <1>5, <2>2
    <3> QED BY <3>1 DEF Took
  <2> QED BY <1>8, <2>1, <2>2
<1>10. \A i, j \in 1..Len(p) : p[i].end = p[j].end => i = j
  <2> SUFFICES ASSUME NEW i \in 1..Len(p), NEW j \in 1..Len(p), p[i].end = p[j].end
               PROVE  i = j
    OBVIOUS
  <2>1. CASE i = n + 1 - d /\ p[i] = x /\ j + d \in 1..n /\ p[j] = samples[j + d]
    BY <1>5, <1>u, <2>1
  <2>2. CASE j = n + 1 - d /\ p[j] = x /\ i + d \in 1..n /\ p[i] = samples[i + d]
    BY <1>5, <1>u, <2>2
  <2>3. CASE i = n + 1 - d /\ j = n + 1 - d
    BY <2>3
  <2>4. CASE i + d \in 1..n /\ p[i] = samples[i + d] /\ j + d \in 1..n /\ p[j] = samples[j + d]
    <3>1. PICK a, b \in 1..Len(samples) : a = i + d /\ b = j + d
      BY <1>5, <2>4
    <3>2. samples[a].end = samples[b].end
      BY <2>4, <3>1
    <3>3. a = b
      BY <3>2 DEF Took
    <3> QED BY <3>1, <3>3
  <2> QED BY <1>8, <2>1, <2>2, <2>3, <2>4
<1>11. \A i \in 1..Len(p) : p[i].end = x.end \/ \E j \in 1..Len(samples) : p[i].end = samples[j].end
  BY <1>5, <1>8
<1>12. Took(p, h, ring)
  BY <1>4, <1>6, <1>7, <1>9, <1>10 DEF Took
<1> QED BY <1>11, <1>12 DEF p, Adds

(* Weighing one transmission of the list.                                   *)
LEMMA EstimateKeeps ==
  ASSUME NEW h \in Seq(Hearing), Timely(h), NEW evs, ListOk(evs, h), NEW ring \in Seq(TxReading),
         NEW e, EstimatorIs(e, h, evs, ring), NEW k \in 1..Len(evs)
  PROVE  EstimatorIs(Estimate(ring, e, evs[k]), h, evs, ring)
<1> DEFINE ev == evs[k]
           d  == Mark(e, ev)
           B  == Pre(ring, ev)
           D  == During(ring, ev)
           idle == ring[Newest(ring, B)]
           tx   == ring[Oldest(ring, D)]
           dI   == ev.amps - Positive(idle.cur)
           new  == WithSample(d.samples, ev, idle.v - tx.v, dI)
<1>1. ev.start \in Nat /\ ev.end \in Nat
  <2>1. evs \in Seq(TxEvent)
    BY DEF ListOk
  <2>2. evs[k] \in TxEvent
    BY <2>1, ElementOfSeq
  <2> QED BY <2>2 DEF TxEvent
<1>2. CASE ev.amps < 1 \/ ev.end - ev.start < 1 \/ ev.end \in e.processed
  BY <1>2 DEF Estimate
<1>3. CASE ~(ev.amps < 1 \/ ev.end - ev.start < 1 \/ ev.end \in e.processed)
  <2>1. Lasting(ev) /\ ev.end \notin e.processed
    BY <1>1, <1>3 DEF Lasting
  <2>2. Estimate(ring, e, ev) =
          IF B = {} \/ D = {} THEN d
          ELSE IF dI < 1 THEN d ELSE [d EXCEPT !.samples = new]
    BY <1>3 DEF Estimate
  <2> HIDE DEF ev, B, D
  <2>3. /\ d = [samples |-> e.samples, processed |-> d.processed]
        /\ Done(d.processed, h) /\ Cardinality(d.processed) <= MaxProcessed
        /\ \A q \in 1..Len(evs) : Lasting(evs[q]) /\ evs[q].end \in e.processed \union {ev.end}
                                    => evs[q].end \in d.processed
    BY <2>1, MarkKeeps DEF ev
  <2> HIDE DEF d
  <2>4. d.samples = e.samples
    BY <2>3
  <2>5. Took(e.samples, h, ring) /\ Struck(e.samples, evs, e.processed)
    BY DEF EstimatorIs
  <2>6. Struck(e.samples, evs, d.processed)
    BY <2>3, <2>5 DEF Struck
  <2>7. EstimatorIs(d, h, evs, ring)
    BY <2>3, <2>4, <2>5, <2>6 DEF EstimatorIs
  <2>8. Took(new, h, ring) /\ Struck(new, evs, d.processed)
    <3> DEFINE dV == idle.v - tx.v
               x  == [end |-> ev.end, dV |-> dV, dI |-> dI]
    <3>1. new = IF dV > 0 /\ 2 * dV <= dI THEN Push(e.samples, x, MaxSamples) ELSE e.samples
      BY <2>4 DEF WithSample
    <3> HIDE DEF dI, new
    <3>2. CASE ~(dV > 0)
      BY <2>5, <2>6, <3>1, <3>2
    <3>3. CASE dV > 0
      <4>1. ~\E m \in 1..Len(ring) : ring[m].valid /\ ring[m].at = ev.start
        <5> SUFFICES ASSUME NEW m \in 1..Len(ring), ring[m].valid, ring[m].at = ev.start
                     PROVE  FALSE
          OBVIOUS
        <5>1. Newest(ring, B) = Oldest(ring, D) /\ Newest(ring, B) \in 1..Len(ring)
          BY <1>1, <2>1, NoDip DEF B, D
        <5>2. idle = tx /\ idle \in TxReading
          BY <5>1, ElementOfSeq
        <5>3. idle.v \in Nat /\ tx.v = idle.v
          BY <5>2 DEF TxReading
        <5> HIDE DEF idle, tx
        <5> QED BY <3>3, <5>3
      <4> HIDE DEF dV
      <4>2. PICK r : Describes(ev, h, r)
        BY DEF ListOk, ev
      <4>3. Long(h, r) /\ h[r[2]].at = ev.end /\ Unread(h, ring, r)
        BY <2>1, <4>1, <4>2 DEF Describes, Long, Lasting, Unread
      <4>4. \A i \in 1..Len(e.samples) : e.samples[i].end # ev.end
        BY <2>1, <2>5 DEF Struck, ev
      <4>5. x.end = ev.end
        OBVIOUS
      <4> DEFINE p == Push(e.samples, x, MaxSamples)
      <4> HIDE DEF x
      <4>6. /\ Took(p, h, ring)
            /\ \A i \in 1..Len(p) : p[i].end = x.end \/ \E j \in 1..Len(e.samples) : p[i].end = e.samples[j].end
        <5>1. TookOf(h, r, ring, x) /\ Unsampled(e.samples, x)
          BY <4>3, <4>4, <4>5 DEF TookOf, Unsampled
        <5> HIDE DEF idle, tx, p
        <5>2. /\ Took(Push(e.samples, x, MaxSamples), h, ring)
              /\ Adds(Push(e.samples, x, MaxSamples), e.samples, x)
          BY <2>5, <5>1, SampleKeeps
        <5> QED BY <5>2 DEF Adds, p
      <4> HIDE DEF p
      <4>7. Struck(p, evs, d.processed)
        <5> SUFFICES ASSUME NEW i \in 1..Len(p), NEW q \in 1..Len(evs),
                            Lasting(evs[q]), evs[q].end = p[i].end
                     PROVE  evs[q].end \in d.processed
          BY DEF Struck
        <5>1. CASE p[i].end = x.end
          BY <2>3, <4>5, <5>1
        <5>2. CASE \E j \in 1..Len(e.samples) : p[i].end = e.samples[j].end
          BY <2>6, <5>2 DEF Struck
        <5> QED BY <4>6, <5>1, <5>2
      <4> QED BY <2>5, <2>6, <3>1, <4>6, <4>7 DEF p
    <3> QED BY <3>2, <3>3
  <2> HIDE DEF new
  <2>9. EstimatorIs([d EXCEPT !.samples = new], h, evs, ring)
    <3>1. [d EXCEPT !.samples = new] = [samples |-> new, processed |-> d.processed]
      BY <2>3
    <3> QED BY <2>3, <2>8, <3>1 DEF EstimatorIs
  <2> QED BY <2>2, <2>7, <2>9 DEF ev
<1> QED BY <1>2, <1>3

(* Weighing them all.                                                       *)
Weighs(ring, e, evs, n, f) ==
  f = [m \in 0..n |-> IF m = 0 THEN e ELSE Estimate(ring, f[m - 1], evs[m])]

(* The recursive function of EstimateAll exists, for any list.              *)
LEMMA WeighsExist ==
  ASSUME NEW ring, NEW e, NEW evs
  PROVE  \A n \in Nat : \E f : Weighs(ring, e, evs, n, f)
<1> SUFFICES ASSUME NEW N \in Nat PROVE \E f : Weighs(ring, e, evs, N, f)
  OBVIOUS
<1> DEFINE T == {k \in 0..N : \E f : Weighs(ring, e, evs, k, f)}
<1>1. 0 \in T
  <2>1. Weighs(ring, e, evs, 0, [k \in 0..0 |-> e])
    BY DEF Weighs
  <2> QED BY <2>1
<1>2. ASSUME NEW m \in Nat, m \in T, m < N
      PROVE  m + 1 \in T
  <2>1. PICK f : Weighs(ring, e, evs, m, f)
    BY <1>2
  <2> DEFINE g == [k \in 0..(m + 1) |-> IF k = m + 1 THEN Estimate(ring, f[m], evs[m + 1]) ELSE f[k]]
  <2>2. Weighs(ring, e, evs, m + 1, g)
    <3>1. ASSUME NEW k \in 0..(m + 1)
          PROVE  g[k] = IF k = 0 THEN e ELSE Estimate(ring, g[k - 1], evs[k])
      BY <1>2, <2>1 DEF Weighs
    <3> QED BY <3>1 DEF Weighs
  <2> HIDE DEF g
  <2>3. \E f2 : Weighs(ring, e, evs, m + 1, f2)
    BY <2>2
  <2> QED BY <1>2, <2>3
<1>3. \A k \in 0..N : k \in T
  <2> HIDE DEF T
  <2> QED BY <1>1, <1>2, UpTo
<1> QED BY <1>3

(* Weighing each transmission of the list in turn keeps the estimator.      *)
LEMMA EstimateAllKeeps ==
  ASSUME NEW h \in Seq(Hearing), Timely(h), NEW evs, ListOk(evs, h), NEW ring \in Seq(TxReading),
         EstimatorIs(estimator, h, evs, ring)
  PROVE  EstimatorIs(EstimateAll(ring, evs), h, evs, ring)
<1>1. CASE ring = <<>>
  BY <1>1 DEF EstimateAll
<1>2. CASE ring # <<>>
  <2> DEFINE f == CHOOSE f : f = [m \in 0..Len(evs) |->
                                    IF m = 0 THEN estimator ELSE Estimate(ring, f[m - 1], evs[m])]
  <2>1. EstimateAll(ring, evs) = f[Len(evs)]
    BY <1>2 DEF EstimateAll
  <2>2. PICK n \in Nat : Len(evs) = n
    BY LenProperties DEF ListOk
  <2>3. Weighs(ring, estimator, evs, n, f)
    <3>1. \E g : Weighs(ring, estimator, evs, n, g)
      BY WeighsExist
    <3> QED BY <2>2, <3>1 DEF Weighs
  <2> HIDE DEF f
  <2> DEFINE T == {m \in 0..n : EstimatorIs(f[m], h, evs, ring)}
  <2>4. 0 \in T
    BY <2>3 DEF Weighs
  <2>5. ASSUME NEW m \in Nat, m \in T, m < n
        PROVE  m + 1 \in T
    <3>1. PICK k \in 1..Len(evs) : k = m + 1
      BY <2>2, <2>5
    <3>2. f[k] = Estimate(ring, f[m], evs[k])
      BY <2>2, <2>3, <3>1 DEF Weighs
    <3>3. EstimatorIs(f[m], h, evs, ring)
      BY <2>5
    <3>4. EstimatorIs(f[k], h, evs, ring)
      BY <3>2, <3>3, EstimateKeeps
    <3> QED BY <2>2, <3>1, <3>4
  <2>6. \A m \in 0..n : m \in T
    <3> HIDE DEF T
    <3> QED BY <2>4, <2>5, UpTo
  <2> QED BY <2>1, <2>2, <2>6
<1> QED BY <1>1, <1>2

\* Each entry of evs2 is one of evs or the transmission that ended at m.
Fresh(evs2, evs, g, m) ==
  \A k \in 1..Len(evs2) : \/ \E j \in 1..Len(evs) : evs2[k] = evs[j]
                          \/ \E i : Describes(evs2[k], g, <<i, m>>)
Latest(h, t) == t \in Nat /\ \A a \in 1..Len(h) : h[a].at <= t

(* What is heard no earlier than all before it keeps the times in order.    *)
LEMMA AfterTimely ==
  ASSUME NEW h \in Seq(Hearing), Timely(h), NEW x, NEW g, After(g, h, x), Latest(h, x.at)
  PROVE  Timely(g)
<1>1. PICK n \in Nat : Len(h) = n
  BY LenProperties
<1>2. /\ Len(g) = n + 1 /\ g[n + 1] = x /\ \A q \in 1..n : g[q] = h[q]
  BY <1>1, AppendProperties DEF After
<1>3. x.at \in Nat
  BY DEF Latest
<1>4. \A a, b \in 1..(n + 1) : a <= b => g[a].at <= g[b].at
  <2> SUFFICES ASSUME NEW a \in 1..(n + 1), NEW b \in 1..(n + 1), a <= b
               PROVE  g[a].at <= g[b].at
    OBVIOUS
  <2>1. CASE b = n + 1 /\ a = n + 1
    BY <1>2, <1>3, <2>1
  <2>2. CASE b = n + 1 /\ a \in 1..n
    BY <1>1, <1>2, <2>2 DEF Latest
  <2>3. CASE b \in 1..n
    <3>1. a \in 1..n
      BY <2>3
    <3> QED BY <1>1, <1>2, <2>3, <3>1 DEF Timely
  <2> QED BY <2>1, <2>2, <2>3
<1> QED BY <1>2, <1>4 DEF Timely

(* The transmissions that lasted still do.                                  *)
LEMMA LongKept ==
  ASSUME NEW h \in Seq(Hearing), NEW x, NEW g, After(g, h, x), NEW r, Long(h, r)
  PROVE  Long(g, r) /\ g[r[1]] = h[r[1]] /\ g[r[2]] = h[r[2]] /\ r[2] <= Len(h)
<1>1. PICK n \in Nat : Len(h) = n
  BY LenProperties
<1>2. PICK m : m = n + 1
  OBVIOUS
<1>3. Runs(h) \subseteq Runs(g) /\ Grown(g, h)
  <2>1. m = Len(h) + 1
    BY <1>1, <1>2
  <2> QED BY <2>1, RunsAfter
<1>4. \A q \in 1..n : g[q] = h[q]
  BY <1>1, <1>3 DEF Grown
<1>5. PICK i, j \in 1..n : r = <<i, j>>
  BY <1>1, RunIs DEF Long
<1>6. r[1] \in 1..n /\ r[2] \in 1..n
  BY <1>5
<1> QED BY <1>1, <1>3, <1>4, <1>6 DEF Long

(* One reading more was heard.                                              *)
LEMMA HeardKeeps ==
  ASSUME NEW h \in Seq(Hearing), Timely(h), NEW x, NEW g, After(g, h, x), Latest(h, x.at),
         NEW ring, NEW evs, NEW e, EstimatorIs(e, h, evs, ring),
         NEW m, m = Len(h) + 1, NEW evs2, Fresh(evs2, evs, g, m)
  PROVE  EstimatorIs(e, g, evs2, ring)
<1>1. Timely(g) /\ g \in Seq(Hearing)
  BY AfterTimely, AppendProperties DEF After
<1>2. Done(e.processed, g)
  <2>1. \A p \in e.processed : \E r : Long(h, r) /\ h[r[2]].at = p
    BY DEF EstimatorIs, Done
  <2>2. \A p \in e.processed : \E r : Long(g, r) /\ g[r[2]].at = p
    <3> SUFFICES ASSUME NEW p \in e.processed PROVE \E r : Long(g, r) /\ g[r[2]].at = p
      OBVIOUS
    <3>1. PICK r : Long(h, r) /\ h[r[2]].at = p
      BY <2>1
    <3>2. Long(g, r) /\ g[r[2]] = h[r[2]]
      BY <3>1, LongKept
    <3> QED BY <3>1, <3>2
  <2> QED BY <2>2 DEF EstimatorIs, Done
<1>3. \A i \in 1..Len(e.samples) :
         \E r : Long(g, r) /\ g[r[2]].at = e.samples[i].end /\ Unread(g, ring, r) /\ r[2] <= Len(h)
  <2> SUFFICES ASSUME NEW i \in 1..Len(e.samples)
               PROVE  \E r : Long(g, r) /\ g[r[2]].at = e.samples[i].end /\ Unread(g, ring, r) /\ r[2] <= Len(h)
    OBVIOUS
  <2>1. PICK r : Long(h, r) /\ h[r[2]].at = e.samples[i].end /\ Unread(h, ring, r)
    BY DEF EstimatorIs, Took
  <2>2. Long(g, r) /\ g[r[1]] = h[r[1]] /\ g[r[2]] = h[r[2]] /\ r[2] <= Len(h)
    BY <2>1, LongKept
  <2>3. Unread(g, ring, r)
    BY <2>1, <2>2 DEF Unread
  <2> QED BY <2>1, <2>2, <2>3
<1>4. Took(e.samples, g, ring)
  <2>1. \A i \in 1..Len(e.samples) :
           \E r : Long(g, r) /\ g[r[2]].at = e.samples[i].end /\ Unread(g, ring, r)
    BY <1>3
  <2> QED BY <2>1 DEF EstimatorIs, Took
<1>5. Struck(e.samples, evs2, e.processed)
  <2> SUFFICES ASSUME NEW i \in 1..Len(e.samples), NEW k \in 1..Len(evs2),
                      Lasting(evs2[k]), evs2[k].end = e.samples[i].end
               PROVE  evs2[k].end \in e.processed
    BY DEF Struck
  <2>1. CASE \E j \in 1..Len(evs) : evs2[k] = evs[j]
    BY <2>1 DEF EstimatorIs, Struck
  <2>2. CASE \E j : Describes(evs2[k], g, <<j, m>>)
    <3>1. PICK j : Describes(evs2[k], g, <<j, m>>)
      BY <2>2
    <3>2. PICK s : s = <<j, m>>
      OBVIOUS
    <3>3. Long(g, s) /\ g[s[2]].at = evs2[k].end
      BY <3>1, <3>2 DEF Describes, Long, Lasting
    <3>4. PICK r : Long(g, r) /\ g[r[2]].at = e.samples[i].end /\ r[2] <= Len(h)
      BY <1>3
    <3>5. r = s
      BY <1>1, <3>3, <3>4, LongsApart
    <3>6. Len(h) \in Nat /\ s[2] = m
      BY <3>2, LenProperties
    <3> QED BY <3>4, <3>5, <3>6
  <2> QED BY <2>1, <2>2 DEF Fresh
<1> QED BY <1>2, <1>4, <1>5 DEF EstimatorIs

(* One reading more is in the ring.                                         *)
LEMMA ReadKeeps ==
  ASSUME NEW h \in Seq(Hearing), NEW ring \in Seq(TxReading), NEW y \in TxReading, Latest(h, y.at),
         NEW evs, NEW e, EstimatorIs(e, h, evs, ring)
  PROVE  EstimatorIs(e, h, evs, Append(ring, y))
<1> DEFINE more == Append(ring, y)
<1>1. PICK n \in Nat : Len(ring) = n
  BY LenProperties
<1>2. Len(more) = n + 1 /\ more[n + 1] = y /\ \A k \in 1..n : more[k] = ring[k]
  BY <1>1, AppendProperties
<1> HIDE DEF more
<1>3. PICK t \in Nat : t = Len(h)
  BY LenProperties
<1>4. \A a \in 1..t : h[a].at \in Nat
  <2>1. \A a \in 1..t : h[a] \in Hearing
    BY <1>3, ElementOfSeq
  <2> QED BY <2>1 DEF Hearing
<1>5. ASSUME NEW r, Long(h, r), Unread(h, ring, r)
      PROVE  Unread(h, more, r)
  <2>1. PICK i, j \in 1..t : r = <<i, j>>
    BY <1>3, <1>5, RunIs DEF Long
  <2>2. r[1] = i /\ r[2] = j /\ h[i].at < h[j].at /\ h[j].at <= y.at
    BY <1>3, <1>5, <2>1 DEF Long, Latest
  <2>3. y.at \in Nat /\ h[i].at \in Nat /\ h[j].at \in Nat
    BY <1>4 DEF Latest
  <2>4. y.at # h[r[1]].at
    BY <2>2, <2>3
  <2> SUFFICES ASSUME NEW k \in 1..(n + 1), more[k].valid PROVE more[k].at # h[r[1]].at
    BY <1>2 DEF Unread
  <2>5. k \in 1..n \/ k = n + 1
    OBVIOUS
  <2> QED BY <1>1, <1>2, <1>5, <2>4, <2>5 DEF Unread
<1>6. Took(e.samples, h, more)
  <2>1. Took(e.samples, h, ring)
    BY DEF EstimatorIs
  <2>2. \A i \in 1..Len(e.samples) :
           \E r : Long(h, r) /\ h[r[2]].at = e.samples[i].end /\ Unread(h, more, r)
    BY <1>5, <2>1 DEF Took
  <2> QED BY <2>1, <2>2 DEF Took
<1> QED BY <1>6 DEF EstimatorIs, more

(* The list after a reading: what it held and what just ended.              *)
LEMMA FreshHeard ==
  ASSUME heard \in Seq(Hearing), Timely(heard), BurstIs(burst, heard), ListIs(txEvents, heard),
         NEW now \in Nat, NEW above \in BOOLEAN, NEW x, x.at = now, x.above = above,
         NEW g, After(g, heard, x), NEW m, m = Len(heard) + 1
  PROVE  Fresh(IF above THEN txEvents ELSE Ended(now), txEvents, g, m)
<1>1. Fresh(txEvents, txEvents, g, m)
  BY DEF Fresh
<1>2. CASE above \/ burst = <<>>
  BY <1>1, <1>2 DEF Ended
<1>3. CASE ~above /\ burst # <<>>
  <2>1. PICK n \in Nat : Len(heard) = n
    BY LenProperties
  <2>2. PICK i, k : /\ Opens(heard, i, n) /\ Peak(heard, i, n + 1, k)
                    /\ burst = <<[start |-> heard[i].at, amps |-> heard[k].amps,
                                  power |-> heard[k].power]>>
    BY <1>3, <2>1 DEF BurstIs
  <2>3. PICK ev : ev = AsEvent(burst[1], now)
    OBVIOUS
  <2>4. Ended(now) = Push(txEvents, ev, MaxTxEvents)
    BY <1>3, <2>3 DEF Ended
  <2>5. /\ Grown(g, heard) /\ g[m] = x /\ Runs(g) = Runs(heard) \union {<<i, m>>}
    <3>1. Opens(heard, i, Len(heard)) /\ ~x.above
      BY <1>3, <2>1, <2>2
    <3>2. /\ Grown(g, heard) /\ g[m] = x
          /\ \A j : Opens(heard, j, Len(heard)) /\ ~x.above => Runs(g) = Runs(heard) \union {<<j, m>>}
      BY RunsAfter
    <3> QED BY <3>1, <3>2
  <2>6. i \in 1..n /\ k \in 1..n
    <3>1. i \in 1..n /\ k \in i..((n + 1) - 1)
      BY <2>2 DEF Opens, Peak
    <3> QED BY <3>1
  <2>7. ev.start = heard[i].at /\ ev.end = now /\ ev \in TxEvent
    <3>1. heard[i] \in Hearing /\ heard[k] \in Hearing
      BY <2>1, <2>6, ElementOfSeq
    <3>2. ev = [start |-> heard[i].at, end |-> now, amps |-> heard[k].amps, power |-> heard[k].power]
      BY <2>2, <2>3 DEF AsEvent
    <3>3. heard[i].at \in Nat /\ heard[k].amps \in Int /\ heard[k].power \in Int
      BY <3>1 DEF Hearing
    <3> QED BY <3>2, <3>3 DEF TxEvent
  <2>8. Describes(ev, g, <<i, m>>)
    <3>1. <<i, m>> \in Runs(g) /\ <<i, m>>[1] = i /\ <<i, m>>[2] = m
      BY <2>5
    <3>2. g[i] = heard[i]
      BY <2>1, <2>5, <2>6 DEF Grown
    <3> QED BY <2>5, <2>7, <3>1, <3>2 DEF Describes
  <2>9. txEvents \in Seq(TxEvent) /\ Len(txEvents) <= MaxTxEvents
    BY ListFacts
  <2>10. PICK M \in Nat \ {0} : M = MaxTxEvents
    BY TxAssumption
  <2>11. PICK a \in Nat : a = Len(txEvents) /\ a <= M
    BY <2>9, <2>10, LenProperties
  <2> DEFINE p == Push(txEvents, ev, M)
  <2>12. /\ Len(p) = IF a < M THEN a + 1 ELSE M
         /\ \A q \in 1..Len(p) : p[q] = IF q = Len(p) THEN ev
                                        ELSE IF a < M THEN txEvents[q] ELSE txEvents[q + 1]
    <3>1. ev \in TxEvent /\ txEvents \in Seq(TxEvent) /\ Len(txEvents) <= M
      BY <2>7, <2>9, <2>11
    <3>a. M \in Nat \ {0}
      BY <2>10
    <3>2. /\ Len(p) = IF Len(txEvents) < M THEN Len(txEvents) + 1 ELSE M
          /\ \A q \in 1..Len(p) : p[q] = IF q = Len(p) THEN ev
                                         ELSE IF Len(txEvents) < M THEN txEvents[q] ELSE txEvents[q + 1]
      BY <3>1, <3>a, PushKept
    <3> HIDE DEF p
    <3> QED BY <2>11, <3>2
  <2> HIDE DEF p
  <2>13. \A q \in 1..Len(p) : p[q] = ev \/ \E j \in 1..a : p[q] = txEvents[j]
    <3> SUFFICES ASSUME NEW q \in 1..Len(p) PROVE p[q] = ev \/ \E j \in 1..a : p[q] = txEvents[j]
      OBVIOUS
    <3>1. CASE q = Len(p)
      BY <2>12, <3>1
    <3>2. CASE q # Len(p) /\ a < M
      <4>1. q \in 1..a /\ p[q] = txEvents[q]
        BY <2>12, <3>2
      <4> QED BY <4>1
    <3>3. CASE q # Len(p) /\ ~(a < M)
      <4>1. q + 1 \in 1..a /\ p[q] = txEvents[q + 1]
        BY <2>11, <2>12, <3>3
      <4> QED BY <4>1
    <3> QED BY <3>1, <3>2, <3>3
  <2>14. Fresh(p, txEvents, g, m)
    BY <2>8, <2>11, <2>13 DEF Fresh
  <2> QED BY <1>3, <2>4, <2>10, <2>14 DEF p
<1> QED BY <1>2, <1>3

\* The invariant: the list and the estimator agree with all that was heard.
TxInv ==
  /\ latest.bat = <<>> \/ \E r \in TxBatteries : latest.bat = <<r>>
  /\ latest.chg = <<>> \/ \E r \in TxChargers : latest.chg = <<r>>
  /\ latest = [bat |-> latest.bat, chg |-> latest.chg]
  /\ heard \in Seq(Hearing) /\ Timely(heard)
  /\ BurstIs(burst, heard) /\ ListIs(txEvents, heard)
  /\ history \in Seq(TxReading)
  /\ EstimatorIs(estimator, heard, txEvents, history)

(* The strength of readings of numbers is two numbers.                      *)
LEMMA StrengthTypes ==
  ASSUME NEW bat, bat.cur \in Int, bat.v \in Nat, NEW chg, chg.a \in Int, chg.v \in Nat
  PROVE  Strength(bat, chg).amps \in Int /\ Strength(bat, chg).power \in Int
<1> DEFINE a == Positive(bat.cur)
           b == Positive(-chg.a)
           c == IF chg.a > ChgHigh THEN chg.a ELSE 0
           amps == Max({a, b, c})
<1>1. a \in Int /\ b \in Int /\ c \in Int
  BY DEF Positive
<1> HIDE DEF a, b, c
<1>2. amps \in Int
  <2>1. \E p \in {a, b, c} : \A q \in {a, b, c} : p >= q
    BY <1>1
  <2>2. amps \in {a, b, c}
    BY <2>1 DEF Max
  <2> QED BY <1>1, <2>2
<1>3. Strength(bat, chg) = [amps |-> amps, power |-> amps * (IF chg.a < 0 THEN chg.v ELSE bat.v)]
  BY DEF Strength, a, b, c
<1> HIDE DEF amps
<1>4. amps * (IF chg.a < 0 THEN chg.v ELSE bat.v) \in Int
  <2>1. PICK z \in Int : z = IF chg.a < 0 THEN chg.v ELSE bat.v
    OBVIOUS
  <2> QED BY <1>2, <2>1
<1> QED BY <1>2, <1>3, <1>4

(* A reading comes no earlier than what was heard before it.                *)
LEMMA ClockIs ==
  ASSUME heard \in Seq(Hearing), Timely(heard), NEW now \in {TxClock, TxClock + 1}
  PROVE  now \in Nat /\ Latest(heard, now)
<1>1. PICK n \in Nat : Len(heard) = n
  BY LenProperties
<1>2. CASE heard = <<>>
  <2>1. now \in Nat /\ Len(heard) = 0
    BY <1>2 DEF TxClock
  <2> QED BY <2>1 DEF Latest
<1>3. CASE heard # <<>>
  <2>1. n # 0
    BY <1>1, <1>3, EmptySeq
  <2>2. TxClock = heard[n].at
    BY <1>1, <1>3 DEF TxClock, Last
  <2>3. \A q \in 1..n : heard[q].at \in Nat
    <3>1. \A q \in 1..n : heard[q] \in Hearing
      BY <1>1, ElementOfSeq
    <3> QED BY <3>1 DEF Hearing
  <2>4. heard[n].at \in Nat /\ n \in 1..n
    BY <2>1, <2>3
  <2>5. \A q \in 1..n : heard[q].at <= heard[n].at
    BY <1>1, <2>4 DEF Timely
  <2>6. now \in Nat /\ heard[n].at <= now
    BY <2>2, <2>4
  <2>7. \A q \in 1..n : heard[q].at <= now
    BY <2>3, <2>4, <2>5, <2>6
  <2> QED BY <1>1, <2>6, <2>7 DEF Latest
<1> QED BY <1>2, <1>3

(* What one valid reading does, but for the ring and the estimator.         *)
LEMMA HearKeeps ==
  ASSUME TxInv, NEW now \in {TxClock, TxClock + 1},
         NEW bat, bat.cur \in Int, bat.v \in Nat, NEW chg, chg.a \in Int, chg.v \in Nat,
         Hear(now, bat, chg)
  PROVE  /\ heard' \in Seq(Hearing) /\ Timely(heard')
         /\ BurstIs(burst', heard') /\ ListIs(txEvents', heard')
         /\ Latest(heard', now)
         /\ EstimatorIs(estimator, heard', txEvents', history)
<1> DEFINE above == Above(bat, chg)
           s == Strength(bat, chg)
           x == [at |-> now, above |-> above, amps |-> s.amps, power |-> s.power]
<1>1. /\ burst' = IF above THEN Rising(now, s) ELSE <<>>
      /\ txEvents' = IF above THEN txEvents ELSE Ended(now)
      /\ heard' = Append(heard, x)
  BY DEF Hear
<1>2. above \in BOOLEAN
  BY DEF Above
<1>3. s.amps \in Int /\ s.power \in Int
  BY StrengthTypes
<1>4. /\ heard \in Seq(Hearing) /\ Timely(heard) /\ BurstIs(burst, heard) /\ ListIs(txEvents, heard)
      /\ EstimatorIs(estimator, heard, txEvents, history)
  BY DEF TxInv
<1>5. now \in Nat /\ Latest(heard, now)
  BY <1>4, ClockIs
<1> HIDE DEF above, s
<1>6. x.at = now /\ x.above = above /\ x.amps = s.amps /\ x.power = s.power /\ x \in Hearing
  BY <1>2, <1>3, <1>5 DEF Hearing
<1> HIDE DEF x
<1>7. After(heard', heard, x)
  BY <1>1, <1>6 DEF After
<1>8. PICK g : g = heard'
  OBVIOUS
<1>9. After(g, heard, x)
  BY <1>7, <1>8
<1>10. BurstIs(burst', g) /\ ListIs(txEvents', g)
  <2>1. now \in Int
    BY <1>5
  <2>2. /\ BurstIs(IF above THEN Rising(now, s) ELSE <<>>, g)
        /\ ListIs(IF above THEN txEvents ELSE Ended(now), g)
    BY <1>2, <1>3, <1>4, <1>6, <1>9, <2>1, HearStep
  <2> QED BY <1>1, <2>2
<1>11. Timely(g) /\ g \in Seq(Hearing)
  <2>1. Latest(heard, x.at)
    BY <1>5, <1>6
  <2>2. g \in Seq(Hearing)
    BY <1>4, <1>9, AppendProperties DEF After
  <2> QED BY <1>4, <1>9, <2>1, <2>2, AfterTimely
<1>12. PICK m : m = Len(heard) + 1
  OBVIOUS
<1>13. Fresh(txEvents', txEvents, g, m)
  <2>1. Fresh(IF above THEN txEvents ELSE Ended(now), txEvents, g, m)
    BY <1>2, <1>4, <1>5, <1>6, <1>9, <1>12, FreshHeard
  <2> QED BY <1>1, <2>1
<1>14. EstimatorIs(estimator, g, txEvents', history)
  <2>1. Latest(heard, x.at)
    BY <1>5, <1>6
  <2>2. PICK evs2 : evs2 = txEvents'
    OBVIOUS
  <2>3. Fresh(evs2, txEvents, g, m)
    BY <1>13, <2>2
  <2>4. EstimatorIs(estimator, g, evs2, history)
    BY <1>4, <1>9, <1>12, <2>1, <2>3, HeardKeeps
  <2> QED BY <2>2, <2>4
<1>15. Latest(g, now)
  <2>1. PICK n \in Nat : Len(heard) = n
    BY <1>4, LenProperties
  <2>2. Len(g) = n + 1 /\ g[n + 1] = x /\ \A q \in 1..n : g[q] = heard[q]
    BY <1>4, <1>9, <2>1, AppendProperties DEF After
  <2>3. \A q \in 1..(n + 1) : g[q].at <= now
    <3> SUFFICES ASSUME NEW q \in 1..(n + 1) PROVE g[q].at <= now
      OBVIOUS
    <3>1. CASE q = n + 1
      BY <1>5, <1>6, <2>2, <3>1
    <3>2. CASE q \in 1..n
      BY <1>5, <2>1, <2>2, <3>2 DEF Latest
    <3> QED BY <3>1, <3>2
  <2> QED BY <1>5, <2>2, <2>3 DEF Latest
<1> QED BY <1>8, <1>10, <1>11, <1>14, <1>15

(* The list is all that the estimator needs it to be.                       *)
LEMMA ListOkFrom ==
  ASSUME NEW h \in Seq(Hearing), Timely(h), NEW evs, ListIs(evs, h)
  PROVE  ListOk(evs, h)
BY ListFacts DEF ListOk

(* At the start nothing was heard.                                          *)
LEMMA TxInitInv == TxInit => TxInv
<1> SUFFICES ASSUME TxInit PROVE TxInv
  OBVIOUS
<1>1. /\ latest = [bat |-> <<>>, chg |-> <<>>]
      /\ burst = <<>> /\ txEvents = <<>> /\ history = <<>> /\ heard = <<>>
      /\ estimator = [samples |-> <<>>, processed |-> {}]
  BY DEF TxInit
<1>2. heard \in Seq(Hearing) /\ Len(heard) = 0 /\ history \in Seq(TxReading)
  BY <1>1
<1>3. Timely(heard)
  BY <1>2 DEF Timely
<1>4. BurstIs(burst, heard)
  BY <1>1, <1>2 DEF BurstIs
<1>5. ListIs(txEvents, heard)
  <2>1. Runs(heard) = {}
    <3>1. PICK n \in Nat : Len(heard) = n
      BY <1>2
    <3>2. heard \in Seq(Hearing)
      BY <1>2
    <3>3. \A r \in Runs(heard) : \E i, j \in 1..n : r = <<i, j>>
      BY <3>1, <3>2, RunIs
    <3> QED BY <1>2, <3>1, <3>3
  <2>2. InOrder(<<>>, heard)
    BY <2>1 DEF InOrder
  <2>3. Events(heard, <<>>) = <<>>
    BY DEF Events
  <2>4. Trim(<<>>, MaxTxEvents) = <<>>
    <3>1. Len(<<>>) = 0 /\ MaxTxEvents \in Nat
      BY TxAssumption
    <3> QED BY <3>1 DEF Trim
  <2>5. <<>> \in Seq(TxEvent)
    OBVIOUS
  <2> QED BY <1>1, <2>2, <2>3, <2>4, <2>5 DEF ListIs
<1>6. EstimatorIs(estimator, heard, txEvents, history)
  <2>1. estimator.samples = <<>> /\ estimator.processed = {}
        /\ estimator = [samples |-> estimator.samples, processed |-> estimator.processed]
    BY <1>1
  <2>2. Done({}, heard) /\ Cardinality({}) = 0
    BY FS_EmptySet DEF Done
  <2>3. Took(<<>>, heard, history)
    <3>1. <<>> \in Seq({}) /\ Len(<<>>) = 0
      OBVIOUS
    <3> QED BY <3>1, TxAssumption DEF Took
  <2>4. Struck(<<>>, txEvents, {})
    BY DEF Struck
  <2> QED BY <2>1, <2>2, <2>3, <2>4, TxAssumption DEF EstimatorIs
<1>7. latest.bat = <<>> /\ latest.chg = <<>> /\ latest = [bat |-> latest.bat, chg |-> latest.chg]
  BY <1>1
<1> QED BY <1>2, <1>3, <1>4, <1>5, <1>6, <1>7 DEF TxInv

-----------------------------------------------------------------------------
(* A reading of the BMS: the ring grows too, and the estimator runs.        *)
LEMMA TxBatteryInv ==
  ASSUME TxInv, NEW now \in {TxClock, TxClock + 1}, NEW bat \in TxBatteries, TxBattery(now, bat)
  PROVE  TxInv'
<1> DEFINE chg == IF latest.chg = <<>> THEN [a |-> 0, v |-> bat.v] ELSE latest.chg[1]
           y   == [valid |-> bat.valid, cur |-> bat.cur, v |-> bat.v, at |-> now]
<1>1. /\ IF bat.valid THEN Hear(now, bat, chg) ELSE UNCHANGED <<burst, txEvents, heard>>
      /\ latest' = [latest EXCEPT !.bat = <<bat>>]
      /\ history' = Append(history, y)
      /\ estimator' = EstimateAll(history', txEvents')
  BY DEF TxBattery
<1>2. bat.valid \in BOOLEAN /\ bat.cur \in Int /\ bat.v \in Nat
  BY TxAssumption
<1>3. chg.a \in Int /\ chg.v \in Nat
  <2>1. CASE latest.chg = <<>>
    BY <1>2, <2>1
  <2>2. CASE latest.chg # <<>>
    <3>1. PICK r \in TxChargers : latest.chg = <<r>>
      BY <2>2 DEF TxInv
    <3>2. chg = r
      BY <2>2, <3>1
    <3> QED BY <3>2, TxAssumption
  <2> QED BY <2>1, <2>2
<1> HIDE DEF chg
<1>4. /\ heard \in Seq(Hearing) /\ Timely(heard)
      /\ BurstIs(burst, heard) /\ ListIs(txEvents, heard)
      /\ history \in Seq(TxReading)
      /\ EstimatorIs(estimator, heard, txEvents, history)
  BY DEF TxInv
<1>5. now \in Nat /\ Latest(heard, now)
  BY <1>4, ClockIs
<1>6. /\ heard' \in Seq(Hearing) /\ Timely(heard')
      /\ BurstIs(burst', heard') /\ ListIs(txEvents', heard')
      /\ Latest(heard', now)
      /\ EstimatorIs(estimator, heard', txEvents', history)
  <2>1. CASE bat.valid
    <3>1. Hear(now, bat, chg)
      BY <1>1, <2>1
    <3> QED BY <1>2, <1>3, <3>1, HearKeeps
  <2>2. CASE ~bat.valid
    <3>1. burst' = burst /\ txEvents' = txEvents /\ heard' = heard
      BY <1>1, <2>2
    <3> QED BY <1>4, <1>5, <3>1
  <2> QED BY <2>1, <2>2
<1>7. y \in TxReading /\ y.at = now
  BY <1>2, <1>5 DEF TxReading
<1> HIDE DEF y
<1>8. history' \in Seq(TxReading)
  BY <1>1, <1>4, <1>7, AppendProperties
<1>9. PICK h, evs, ring : h = heard' /\ evs = txEvents' /\ ring = history'
  OBVIOUS
<1>10. EstimatorIs(estimator, h, evs, ring)
  <2>1. h \in Seq(Hearing) /\ Latest(h, y.at) /\ EstimatorIs(estimator, h, evs, history)
    BY <1>6, <1>7, <1>9
  <2>2. EstimatorIs(estimator, h, evs, Append(history, y))
    BY <1>4, <1>7, <2>1, ReadKeeps
  <2> QED BY <1>1, <1>9, <2>2
<1>11. EstimatorIs(EstimateAll(ring, evs), h, evs, ring)
  <2>1. h \in Seq(Hearing) /\ Timely(h) /\ ListIs(evs, h) /\ ring \in Seq(TxReading)
    BY <1>6, <1>8, <1>9
  <2> QED BY <1>10, <2>1, ListOkFrom, EstimateAllKeeps
<1>12. EstimatorIs(estimator', heard', txEvents', history')
  BY <1>1, <1>9, <1>11
<1>13. /\ latest'.bat = <<bat>> /\ latest'.chg = latest.chg
       /\ latest' = [bat |-> latest'.bat, chg |-> latest'.chg]
  <2>1. latest = [bat |-> latest.bat, chg |-> latest.chg]
    BY DEF TxInv
  <2> QED BY <1>1, <2>1
<1>14. latest.chg = <<>> \/ \E r \in TxChargers : latest.chg = <<r>>
  BY DEF TxInv
<1> QED BY <1>6, <1>8, <1>12, <1>13, <1>14 DEF TxInv

(* A reading of the charger: the estimator runs once the BMS has answered.  *)
LEMMA TxChargerInv ==
  ASSUME TxInv, NEW now \in {TxClock, TxClock + 1}, NEW chg \in TxChargers, TxCharger(now, chg)
  PROVE  TxInv'
<1> DEFINE bat == IF latest.bat = <<>> THEN [cur |-> 0, v |-> chg.v] ELSE latest.bat[1]
<1>1. /\ IF chg.valid THEN Hear(now, bat, chg) ELSE UNCHANGED <<burst, txEvents, heard>>
      /\ latest' = [latest EXCEPT !.chg = <<chg>>]
      /\ history' = history
      /\ estimator' = IF latest.bat = <<>> THEN estimator ELSE EstimateAll(history, txEvents')
  BY DEF TxCharger
<1>2. chg.valid \in BOOLEAN /\ chg.a \in Int /\ chg.v \in Nat
  BY TxAssumption
<1>3. bat.cur \in Int /\ bat.v \in Nat
  <2>1. CASE latest.bat = <<>>
    BY <1>2, <2>1
  <2>2. CASE latest.bat # <<>>
    <3>1. PICK r \in TxBatteries : latest.bat = <<r>>
      BY <2>2 DEF TxInv
    <3>2. bat = r
      BY <2>2, <3>1
    <3> QED BY <3>2, TxAssumption
  <2> QED BY <2>1, <2>2
<1> HIDE DEF bat
<1>4. /\ heard \in Seq(Hearing) /\ Timely(heard)
      /\ BurstIs(burst, heard) /\ ListIs(txEvents, heard)
      /\ history \in Seq(TxReading)
      /\ EstimatorIs(estimator, heard, txEvents, history)
  BY DEF TxInv
<1>5. now \in Nat /\ Latest(heard, now)
  BY <1>4, ClockIs
<1>6. /\ heard' \in Seq(Hearing) /\ Timely(heard')
      /\ BurstIs(burst', heard') /\ ListIs(txEvents', heard')
      /\ EstimatorIs(estimator, heard', txEvents', history)
  <2>1. CASE chg.valid
    <3>1. Hear(now, bat, chg)
      BY <1>1, <2>1
    <3> QED BY <1>2, <1>3, <3>1, HearKeeps
  <2>2. CASE ~chg.valid
    <3>1. burst' = burst /\ txEvents' = txEvents /\ heard' = heard
      BY <1>1, <2>2
    <3> QED BY <1>4, <1>5, <3>1
  <2> QED BY <2>1, <2>2
<1>7. PICK h, evs : h = heard' /\ evs = txEvents'
  OBVIOUS
<1>8. EstimatorIs(EstimateAll(history, evs), h, evs, history)
  <2>1. h \in Seq(Hearing) /\ Timely(h) /\ ListIs(evs, h) /\ EstimatorIs(estimator, h, evs, history)
    BY <1>6, <1>7
  <2> QED BY <1>4, <2>1, ListOkFrom, EstimateAllKeeps
<1>9. EstimatorIs(estimator', heard', txEvents', history')
  BY <1>1, <1>6, <1>7, <1>8
<1>10. /\ latest'.chg = <<chg>> /\ latest'.bat = latest.bat
       /\ latest' = [bat |-> latest'.bat, chg |-> latest'.chg]
  <2>1. latest = [bat |-> latest.bat, chg |-> latest.chg]
    BY DEF TxInv
  <2> QED BY <1>1, <2>1
<1>11. latest.bat = <<>> \/ \E r \in TxBatteries : latest.bat = <<r>>
  BY DEF TxInv
<1>12. history' \in Seq(TxReading)
  BY <1>1, <1>4
<1> QED BY <1>6, <1>9, <1>10, <1>11, <1>12 DEF TxInv

(* Every step, and so every state.                                          *)
LEMMA TxNextInv == TxInv /\ [TxNext]_txVars => TxInv'
<1> SUFFICES ASSUME TxInv, [TxNext]_txVars PROVE TxInv'
  OBVIOUS
<1>1. CASE UNCHANGED txVars
  BY <1>1 DEF txVars, TxInv
<1>2. ASSUME NEW now \in {TxClock, TxClock + 1}, NEW bat \in TxBatteries, TxBattery(now, bat)
      PROVE  TxInv'
  BY <1>2, TxBatteryInv
<1>3. ASSUME NEW now \in {TxClock, TxClock + 1}, NEW chg \in TxChargers, TxCharger(now, chg)
      PROVE  TxInv'
  BY <1>3, TxChargerInv
<1>4. ASSUME NEW amps, SetTxThreshold(amps)
      PROVE  TxInv'
  BY <1>4 DEF SetTxThreshold, TxInv
<1> QED BY <1>1, <1>2, <1>3, <1>4 DEF TxNext

(* The invariant of every state of the detection.                           *)
LEMMA TxSpecInv == TxSpec => []TxInv
BY TxInitInv, TxNextInv, PTL DEF TxSpec

(* The list, from the invariant.                                            *)
LEMMA ListOfRuns == TxInv => TxEventsAreRuns
<1> SUFFICES ASSUME TxInv PROVE TxEventsAreRuns
  OBVIOUS
<1>1. PICK all : InOrder(all, heard) /\ txEvents = Trim(Events(heard, all), MaxTxEvents)
  BY DEF TxInv, ListIs
<1>2. PICK n \in Nat : Len(all) = n
  BY <1>1, LenProperties DEF InOrder
<1>3. DOMAIN all = 1..n /\ all \in [1..n -> Runs(heard)]
  BY <1>1, <1>2, LenProperties DEF InOrder
<1>4. \A a, b \in 1..n : a < b => all[a][2] < all[b][2]
  BY <1>1, <1>2 DEF InOrder
<1>5. Cardinality(Runs(heard)) = n
  <2>1. \A a, b \in 1..n : all[a] = all[b] => a = b
    <3> SUFFICES ASSUME NEW a \in 1..n, NEW b \in 1..n, all[a] = all[b] PROVE a = b
      OBVIOUS
    <3>1. \A r \in Runs(heard) : r[2] \in Nat
      <4>1. PICK t \in Nat : Len(heard) = t
        BY LenProperties DEF TxInv
      <4>2. \A r \in Runs(heard) : r[2] \in 1..t
        BY <4>1, RunIs DEF TxInv
      <4> QED BY <4>2
    <3>2. all[a][2] \in Nat
      BY <1>3, <3>1
    <3>3. ~(a < b)
      BY <1>4, <3>2
    <3>4. ~(b < a)
      BY <1>4, <3>2
    <3> QED BY <3>3, <3>4
  <2>2. \A r \in Runs(heard) : \E a \in 1..n : all[a] = r
    BY <1>1, <1>3 DEF InOrder, Range
  <2>3. all \in Bijection(1..n, Runs(heard))
    BY <1>3, <2>1, <2>2 DEF Bijection, Injection, Surjection, IsInjective
  <2>4. ExistsBijection(1..n, Runs(heard))
    BY <2>3 DEF ExistsBijection
  <2> QED BY <2>4, FS_CountingElements
<1>6. all \in [1..Cardinality(Runs(heard)) -> Runs(heard)]
  BY <1>3, <1>5
<1> QED BY <1>1, <1>3, <1>4, <1>6 DEF TxEventsAreRuns, Events

(* The samples, from the invariant.                                         *)
LEMMA OneSample == TxInv => OneSamplePerTx
<1> SUFFICES ASSUME TxInv PROVE OneSamplePerTx
  OBVIOUS
<1>1. /\ heard \in Seq(Hearing) /\ Timely(heard) /\ history \in Seq(TxReading)
      /\ Took(estimator.samples, heard, history)
  BY DEF TxInv, EstimatorIs
<1>2. DOMAIN estimator.samples = 1..Len(estimator.samples)
  BY <1>1, LenProperties DEF Took
<1>3. DOMAIN history = 1..Len(history)
  BY <1>1, LenProperties
<1>4. \A i, j \in DOMAIN estimator.samples :
        estimator.samples[i].end = estimator.samples[j].end => i = j
  BY <1>1, <1>2 DEF Took
<1>5. ASSUME NEW i \in DOMAIN estimator.samples, NEW r \in Runs(heard),
             heard[r[2]].at = estimator.samples[i].end, heard[r[1]].at < heard[r[2]].at
      PROVE  ~\E k \in DOMAIN history : history[k].valid /\ history[k].at = heard[r[1]].at
  <2>1. PICK s : Long(heard, s) /\ heard[s[2]].at = estimator.samples[i].end /\ Unread(heard, history, s)
    BY <1>1, <1>2 DEF Took
  <2>2. Long(heard, r) /\ heard[r[2]].at = heard[s[2]].at
    BY <1>5, <2>1 DEF Long
  <2>3. r = s
    BY <1>1, <2>1, <2>2, LongsApart
  <2> QED BY <1>3, <2>1, <2>3 DEF Unread
<1> QED BY <1>4, <1>5 DEF OneSamplePerTx

(* Whatever readings the two streams bring, in whatever order, and wherever *)
(* the threshold is moved: the list is the newest of the transmissions in   *)
(* what was heard, each once, in order, with its own bounds and its first   *)
(* strongest reading (run_tx_detection).                                    *)
THEOREM TxEventsAreRunsHolds == TxSpec => []TxEventsAreRuns
<1>1. TxInv => TxEventsAreRuns
  BY ListOfRuns
<1> QED BY <1>1, TxSpecInv, PTL

(* A transmission that lasts gives one sample at most, although every       *)
(* reading presents the whole list again and the set of what was weighed is *)
(* trimmed: it drops only what is older than all the list holds.  And one   *)
(* that a valid reading of the BMS opened gives none                        *)
(* (ResistanceEstimator::update).                                           *)
THEOREM OneSamplePerTxHolds == TxSpec => []OneSamplePerTx
<1>1. TxInv => OneSamplePerTx
  BY OneSample
<1> QED BY <1>1, TxSpecInv, PTL

(* A burst is none or one.                                                  *)
LEMMA BurstBound == TxInv => Len(burst) <= 1
<1> SUFFICES ASSUME TxInv PROVE Len(burst) <= 1
  OBVIOUS
<1>1. burst = <<>> \/ \E b : burst = <<b>>
  BY DEF TxInv, BurstIs
<1>2. CASE burst = <<>>
  <2>1. Len(<<>>) = 0
    OBVIOUS
  <2> QED BY <1>2, <2>1
<1>3. CASE \E b : burst = <<b>>
  <2>1. PICK b : burst = <<b>>
    BY <1>3
  <2>2. Len(<<b>>) = 1
    OBVIOUS
  <2> QED BY <2>1, <2>2
<1> QED BY <1>1, <1>2, <1>3

(* The lists of the detection and of the estimator keep their limits, and   *)
(* so does the set of what was weighed (data_store.cpp, update).            *)
THEOREM TxTypes == TxSpec => []TxTypeOK
<1>1. TxInv => TxTypeOK
  <2> SUFFICES ASSUME TxInv PROVE TxTypeOK
    OBVIOUS
  <2>1. Len(txEvents) <= MaxTxEvents
    BY ListFacts DEF TxInv
  <2>2. Len(estimator.samples) <= MaxSamples /\ Cardinality(estimator.processed) <= MaxProcessed
    BY DEF TxInv, EstimatorIs, Took
  <2> QED BY <2>1, <2>2, BurstBound DEF TxTypeOK
<1> QED BY <1>1, TxSpecInv, PTL

-----------------------------------------------------------------------------
(* The log of events.  Memory holds the newest of the table, and the last   *)
(* event of solar input in the table is what the store believes; so writing *)
(* keeps both, and reading history, in silence, finds the belief again.     *)
Stages4 == {"", "Idle", "Float", "Absorption", "Bulk"}
Messages ==
  {"opened", "started", "stopped", "entered", "solar", "dark", "warning", "full"}
Event == [at : Int, msg : Messages]
Store ==
  [events : Seq(Event), out : Seq(Event), loading : BOOLEAN, stage : Stages4, prevStage : Stages4,
   charging : BOOLEAN, chargingAt : Int, solar : BOOLEAN, bad : BOOLEAN, prevBad : BOOLEAN,
   badAt : Int, full : BOOLEAN, bat : Seq(LogBatteries), chg : Seq(LogChargers)]

\* The newest event of solar input in t is at i; where s says it is detected.
LastSolar(t, i) ==
  i \in 1..Len(t) /\ OfSolar(t[i]) /\ \A k \in (i + 1)..Len(t) : ~OfSolar(t[k])
Turns(t, s) ==
  /\ TakeTurns(t)
  /\ \/ ~s /\ \A i \in 1..Len(t) : ~OfSolar(t[i])
     \/ \E i : LastSolar(t, i) /\ t[i].msg = IF s THEN "solar" ELSE "dark"

(* Another event between them changes nothing.                              *)
LEMMA TurnsOther ==
  ASSUME NEW t \in Seq(Event), NEW s \in BOOLEAN, Turns(t, s), NEW e \in Event, ~OfSolar(e)
  PROVE  Turns(Append(t, e), s)
<1> DEFINE u == Append(t, e)
<1>1. PICK n \in Nat : Len(t) = n /\ DOMAIN t = 1..n
  BY LenProperties
<1>2. /\ u \in Seq(Event) /\ Len(u) = n + 1 /\ u[n + 1] = e /\ DOMAIN u = 1..(n + 1)
      /\ \A i \in 1..n : u[i] = t[i]
  BY <1>1, AppendProperties, LenProperties
<1> HIDE DEF u
<1>3. \A j \in 1..(n + 1) : OfSolar(u[j]) => j \in 1..n
  BY <1>2
<1>4. ASSUME NEW j \in 1..(n + 1), OfSolar(u[j]), \A i \in 1..(j - 1) : ~OfSolar(u[i])
      PROVE  u[j].msg = "solar"
  <2>1. j \in 1..n /\ \A i \in 1..(j - 1) : i \in 1..n
    BY <1>3, <1>4
  <2>2. OfSolar(t[j]) /\ \A i \in 1..(j - 1) : ~OfSolar(t[i])
    BY <1>2, <1>4, <2>1
  <2>3. t[j].msg = "solar"
    BY <1>1, <2>1, <2>2 DEF Turns, TakeTurns
  <2> QED BY <1>2, <2>1, <2>3
<1>5. ASSUME NEW i \in 1..(n + 1), NEW j \in 1..(n + 1), i < j, OfSolar(u[i]), OfSolar(u[j]),
             \A k \in (i + 1)..(j - 1) : ~OfSolar(u[k])
      PROVE  u[i].msg # u[j].msg
  <2>1. i \in 1..n /\ j \in 1..n /\ \A k \in (i + 1)..(j - 1) : k \in 1..n
    BY <1>3, <1>5
  <2>2. OfSolar(t[i]) /\ OfSolar(t[j]) /\ \A k \in (i + 1)..(j - 1) : ~OfSolar(t[k])
    BY <1>2, <1>5, <2>1
  <2>3. t[i].msg # t[j].msg
    BY <1>1, <1>5, <2>1, <2>2 DEF Turns, TakeTurns
  <2> QED BY <1>2, <2>1, <2>3
<1>6. TakeTurns(u)
  BY <1>2, <1>4, <1>5 DEF TakeTurns
<1>7. CASE ~s /\ \A i \in 1..n : ~OfSolar(t[i])
  <2>1. \A i \in 1..(n + 1) : ~OfSolar(u[i])
    BY <1>2, <1>3, <1>7
  <2> QED BY <1>2, <1>6, <1>7, <2>1 DEF Turns, u
<1>8. CASE \E i : LastSolar(t, i) /\ t[i].msg = IF s THEN "solar" ELSE "dark"
  <2>1. PICK i : LastSolar(t, i) /\ t[i].msg = IF s THEN "solar" ELSE "dark"
    BY <1>8
  <2>2. i \in 1..n /\ OfSolar(t[i]) /\ \A k \in (i + 1)..n : ~OfSolar(t[k])
    BY <1>1, <2>1 DEF LastSolar
  <2>3. \A k \in (i + 1)..(n + 1) : ~OfSolar(u[k])
    BY <1>2, <1>3, <2>2
  <2>4. LastSolar(u, i) /\ u[i].msg = t[i].msg
    BY <1>2, <2>2, <2>3 DEF LastSolar
  <2> QED BY <1>6, <2>1, <2>4 DEF Turns, u
<1> QED BY <1>1, <1>7, <1>8 DEF Turns

(* The next of them is the other one.                                       *)
LEMMA TurnsNext ==
  ASSUME NEW t \in Seq(Event), NEW s \in BOOLEAN, Turns(t, s), NEW e \in Event,
         e.msg = IF s THEN "dark" ELSE "solar"
  PROVE  Turns(Append(t, e), ~s)
<1> DEFINE u == Append(t, e)
<1>1. PICK n \in Nat : Len(t) = n /\ DOMAIN t = 1..n
  BY LenProperties
<1>2. /\ u \in Seq(Event) /\ Len(u) = n + 1 /\ u[n + 1] = e /\ DOMAIN u = 1..(n + 1)
      /\ \A i \in 1..n : u[i] = t[i]
  BY <1>1, AppendProperties, LenProperties
<1> HIDE DEF u
<1>3. OfSolar(e)
  BY DEF OfSolar
<1>4. ASSUME NEW j \in 1..(n + 1), OfSolar(u[j]), \A i \in 1..(j - 1) : ~OfSolar(u[i])
      PROVE  u[j].msg = "solar"
  <2>1. CASE j \in 1..n
    <3>1. \A i \in 1..(j - 1) : i \in 1..n
      BY <2>1
    <3>2. OfSolar(t[j]) /\ \A i \in 1..(j - 1) : ~OfSolar(t[i])
      BY <1>2, <1>4, <2>1, <3>1
    <3>3. t[j].msg = "solar"
      BY <1>1, <2>1, <3>2 DEF Turns, TakeTurns
    <3> QED BY <1>2, <2>1, <3>3
  <2>2. CASE j = n + 1
    <3>1. \A i \in 1..n : ~OfSolar(t[i])
      BY <1>2, <1>4, <2>2
    <3>2. ~s
      BY <1>1, <3>1 DEF Turns, LastSolar
    <3> QED BY <1>2, <2>2, <3>2
  <2> QED BY <2>1, <2>2
<1>5. ASSUME NEW i \in 1..(n + 1), NEW j \in 1..(n + 1), i < j, OfSolar(u[i]), OfSolar(u[j]),
             \A k \in (i + 1)..(j - 1) : ~OfSolar(u[k])
      PROVE  u[i].msg # u[j].msg
  <2>1. i \in 1..n /\ \A k \in (i + 1)..(j - 1) : k \in 1..n
    BY <1>5
  <2>2. OfSolar(t[i]) /\ \A k \in (i + 1)..(j - 1) : ~OfSolar(t[k])
    BY <1>2, <1>5, <2>1
  <2>3. CASE j \in 1..n
    <3>1. OfSolar(t[j])
      BY <1>2, <1>5, <2>3
    <3>2. t[i].msg # t[j].msg
      BY <1>1, <1>5, <2>1, <2>2, <2>3, <3>1 DEF Turns, TakeTurns
    <3> QED BY <1>2, <2>1, <2>3, <3>2
  <2>4. CASE j = n + 1
    <3>1. \A k \in (i + 1)..n : ~OfSolar(t[k])
      BY <2>2, <2>4
    <3>2. PICK p : LastSolar(t, p) /\ t[p].msg = IF s THEN "solar" ELSE "dark"
      BY <1>1, <2>1, <2>2 DEF Turns
    <3>3. p \in 1..n /\ OfSolar(t[p]) /\ \A k \in (p + 1)..n : ~OfSolar(t[k])
      BY <1>1, <3>2 DEF LastSolar
    <3>4. ~(p < i)
      <4>1. p < i => i \in (p + 1)..n
        BY <2>1, <3>3
      <4> QED BY <2>2, <3>3, <4>1
    <3>5. ~(i < p)
      <4>1. i < p => p \in (i + 1)..n
        BY <2>1, <3>3
      <4> QED BY <3>1, <3>3, <4>1
    <3>6. p = i
      BY <2>1, <3>3, <3>4, <3>5
    <3>7. t[i].msg # e.msg
      BY <3>2, <3>6
    <3> QED BY <1>2, <2>1, <2>4, <3>7
  <2> QED BY <2>3, <2>4
<1>6. TakeTurns(u)
  BY <1>2, <1>4, <1>5 DEF TakeTurns
<1>7. LastSolar(u, n + 1)
  BY <1>2, <1>3 DEF LastSolar
<1>8. u[n + 1].msg = IF ~s THEN "solar" ELSE "dark"
  BY <1>2
<1> QED BY <1>6, <1>7, <1>8 DEF Turns, u

(* So the last event of all is never the one that is due.                   *)
LEMMA TurnsDue ==
  ASSUME NEW t \in Seq(Event), NEW s \in BOOLEAN, Turns(t, s), Len(t) # 0
  PROVE  t[Len(t)].msg # IF s THEN "dark" ELSE "solar"
<1>1. PICK n \in Nat : Len(t) = n
  BY LenProperties
<1> SUFFICES ASSUME t[n].msg = IF s THEN "dark" ELSE "solar" PROVE FALSE
  BY <1>1
<1>2. OfSolar(t[n]) /\ n \in 1..n
  BY <1>1 DEF OfSolar
<1>3. PICK i : LastSolar(t, i) /\ t[i].msg = IF s THEN "solar" ELSE "dark"
  BY <1>1, <1>2 DEF Turns
<1>4. i \in 1..n /\ \A k \in (i + 1)..n : ~OfSolar(t[k])
  BY <1>1, <1>3 DEF LastSolar
<1>5. i = n
  <2>1. i # n => n \in (i + 1)..n
    BY <1>4
  <2> QED BY <1>2, <1>4, <2>1
<1> QED BY <1>3, <1>5

\* Memory lists the newest of the table, which is d and what is on its way to
\* it; and unless readings were lost the events of solar input take turns.
Agrees(m, d, lost) ==
  /\ m.events = Trim(d \o m.out, MaxEvents)
  /\ ~lost => Turns(d \o m.out, m.solar)
\* What a part of the work on a reading does to the store.
Moves(m, n, d, lost) ==
  /\ n \in Store /\ n.loading = m.loading /\ n.chg = m.chg /\ n.bat = m.bat
  /\ m.loading => n.events = m.events /\ n.out = m.out
  /\ ~m.loading /\ Agrees(m, d, lost) => Agrees(n, d, lost)

\* Writing one event down
Writes(m, e) ==
  [m EXCEPT !.events = Push(m.events, e, MaxEvents), !.out = Append(m.out, e)]

(* The last of the newest is the last of all.                               *)
LEMMA TrimLast ==
  ASSUME NEW S, NEW t \in Seq(S), NEW n \in Nat \ {0}
  PROVE  /\ Len(t) = 0 => Trim(t, n) = <<>>
         /\ Len(t) # 0 => Trim(t, n) # <<>> /\ Last(Trim(t, n)) = t[Len(t)]
<1>1. PICK m \in Nat : Len(t) = m
  BY LenProperties
<1> DEFINE u == Trim(t, n)
<1>2. /\ u \in Seq(S) /\ Len(u) = IF m > n THEN n ELSE m
      /\ \A i \in 1..Len(u) : u[i] = IF m > n THEN t[(m - n) + i] ELSE t[i]
  BY <1>1, TrimSeq, ZenonT(40)
<1> HIDE DEF u
<1>3. m = 0 => u = <<>>
  BY <1>2, EmptySeq
<1>4. m # 0 => u # <<>> /\ Last(u) = t[m]
  <2> SUFFICES ASSUME m # 0 PROVE u # <<>> /\ Last(u) = t[m]
    OBVIOUS
  <2>1. Len(u) # 0
    BY <1>2
  <2>2. Len(<<>>) = 0
    OBVIOUS
  <2>3. u # <<>>
    BY <2>1, <2>2
  <2>4. Last(u) = u[Len(u)]
    BY DEF Last
  <2>5. CASE m > n
    <3>1. Len(u) = n /\ n \in 1..Len(u) /\ (m - n) + n = m
      BY <1>2, <2>5
    <3> QED BY <1>2, <2>3, <2>4, <2>5, <3>1
  <2>6. CASE ~(m > n)
    <3>1. Len(u) = m /\ m \in 1..Len(u)
      BY <1>2, <2>6
    <3> QED BY <1>2, <2>3, <2>4, <2>6, <3>1
  <2> QED BY <2>5, <2>6
<1> QED BY <1>1, <1>3, <1>4 DEF u

(* What is written is one more row of the table, when it gets there.        *)
LEMMA TableAppend ==
  ASSUME NEW S, NEW d \in Seq(S), NEW o \in Seq(S), NEW e \in S
  PROVE  d \o Append(o, e) = Append(d \o o, e) /\ d \o o \in Seq(S)
<1>1. PICK n \in Nat : Len(d) = n
  BY LenProperties
<1>2. PICK m \in Nat : Len(o) = m
  BY LenProperties
<1>k. PICK k \in Nat : k = m + 1
  OBVIOUS
<1> DEFINE a == Append(o, e)
           b == d \o o
           x == d \o a
           y == Append(b, e)
<1>3. a \in Seq(S) /\ Len(a) = m + 1 /\ a[m + 1] = e /\ \A i \in 1..m : a[i] = o[i]
  BY <1>2, AppendProperties
<1>4. b \in Seq(S) /\ Len(b) = n + m /\ \A i \in 1..(n + m) : b[i] = IF i <= n THEN d[i] ELSE o[i - n]
  BY <1>1, <1>2, ConcatProperties
<1> HIDE DEF a, b
<1>5. /\ x \in Seq(S) /\ Len(x) = n + (m + 1)
      /\ \A i \in 1..(n + (m + 1)) : x[i] = IF i <= n THEN d[i] ELSE a[i - n]
  <2>1. Len(a) = k
    BY <1>3, <1>k
  <2>2. /\ x \in Seq(S) /\ Len(x) = n + k
        /\ \A i \in 1..(n + k) : x[i] = IF i <= n THEN d[i] ELSE a[i - n]
    BY <1>1, <1>3, <2>1, ConcatProperties
  <2> QED BY <2>2, <1>k
<1>6. /\ y \in Seq(S) /\ Len(y) = (n + m) + 1 /\ y[(n + m) + 1] = e
      /\ \A i \in 1..(n + m) : y[i] = b[i]
  BY <1>4, AppendProperties
<1> HIDE DEF x, y
<1>7. \A i \in 1..(n + (m + 1)) : x[i] = y[i]
  <2> SUFFICES ASSUME NEW i \in 1..(n + (m + 1)) PROVE x[i] = y[i]
    OBVIOUS
  <2>1. CASE i = (n + m) + 1
    <3>1. ~(i <= n) /\ i - n = m + 1
      BY <2>1
    <3>2. x[i] = a[m + 1]
      BY <1>5, <3>1
    <3> QED BY <1>3, <1>6, <2>1, <3>2
  <2>2. CASE i <= n
    <3>1. i \in 1..(n + m)
      BY <2>2
    <3> QED BY <1>4, <1>5, <1>6, <2>2, <3>1
  <2>3. CASE ~(i <= n) /\ i # (n + m) + 1
    <3>1. i \in 1..(n + m) /\ i - n \in 1..m
      BY <2>3
    <3>2. x[i] = a[i - n] /\ y[i] = o[i - n]
      BY <1>4, <1>5, <1>6, <2>3, <3>1
    <3> QED BY <1>3, <3>1, <3>2
  <2> QED BY <2>1, <2>2, <2>3
<1>8. x = y
  <2>1. Len(x) = Len(y) /\ \A i \in 1..Len(x) : x[i] = y[i]
    BY <1>5, <1>6, <1>7
  <2> QED BY <1>5, <1>6, <2>1, SeqEqual
<1> QED BY <1>4, <1>8 DEF a, b, x, y

(* Writing a message down, whichever it is.                                 *)
LEMMA Written ==
  ASSUME NEW m \in Store, NEW e \in Event, NEW n, n = Writes(m, e)
  PROVE  /\ n \in Store /\ n.events = Push(m.events, e, MaxEvents) /\ n.out = Append(m.out, e)
         /\ n.loading = m.loading /\ n.chg = m.chg /\ n.bat = m.bat /\ n.solar = m.solar
<1> DEFINE a == Push(m.events, e, MaxEvents)
           b == Append(m.out, e)
<1>1. m.events \in Seq(Event) /\ m.out \in Seq(Event)
  BY DEF Store
<1>2. b \in Seq(Event) /\ Append(m.events, e) \in Seq(Event)
  BY <1>1, AppendProperties
<1>3. a \in Seq(Event)
  <2>1. PICK u \in Seq(Event) : u = Append(m.events, e)
    BY <1>2
  <2>2. PICK l \in Nat : Len(u) = l
    BY LenProperties
  <2>3. PICK k \in Nat : k = MaxEvents
    BY LogAssumption
  <2>4. Trim(u, k) \in Seq(Event)
    BY <2>2, TrimSeq
  <2> QED BY <2>1, <2>3, <2>4 DEF Push
<1>4. n = [m EXCEPT !.events = a, !.out = b]
  BY DEF Writes
<1> HIDE DEF a, b
<1>5. n.events = a /\ n.out = b
  BY <1>4 DEF Store
<1>6. n.loading = m.loading /\ n.chg = m.chg /\ n.bat = m.bat /\ n.solar = m.solar
  BY <1>4 DEF Store
<1>7. n \in Store
  BY <1>2, <1>3, <1>4 DEF Store
<1> QED BY <1>5, <1>6, <1>7 DEF a, b

(* A message is written down, or not: while history is loaded, or when it   *)
(* is the last one already.                                                 *)
LEMMA SayIs ==
  ASSUME NEW m \in Store, NEW msg \in Messages, logTime \in Int
  PROVE  \/ /\ Say(m, msg) = m
            /\ m.loading \/ (m.events # <<>> /\ Last(m.events).msg = msg)
         \/ /\ ~m.loading
            /\ \E e \in Event : e.msg = msg /\ Say(m, msg) = Writes(m, e)
<1> DEFINE e == [at |-> logTime, msg |-> msg]
           n == Writes(m, e)
           skip == m.events # <<>> /\ Last(m.events).msg = msg /\ logTime - Last(m.events).at < Once
<1>1. Say(m, msg) = IF m.loading \/ skip THEN m ELSE n
  BY DEF Say, Writes
<1>2. e \in Event /\ e.msg = msg
  BY DEF Event
<1>3. m.loading \in BOOLEAN
  BY DEF Store
<1>4. skip => m.events # <<>> /\ Last(m.events).msg = msg
  OBVIOUS
<1> HIDE DEF e, skip
<1>5. CASE m.loading \/ skip
  BY <1>1, <1>4, <1>5
<1>6. CASE ~(m.loading \/ skip)
  <2>1. Say(m, msg) = n
    BY <1>1, <1>6
  <2> QED BY <1>2, <1>6, <2>1
<1> QED BY <1>5, <1>6

(* A message about something else than solar input.                         *)
LEMMA SayOther ==
  ASSUME NEW m \in Store, NEW msg \in Messages, msg \notin {"solar", "dark"}, logTime \in Int,
         NEW d \in Seq(Event), NEW lost
  PROVE  Moves(m, Say(m, msg), d, lost) /\ Say(m, msg).solar = m.solar
<1>1. CASE Say(m, msg) = m
  BY <1>1 DEF Moves
<1>2. CASE ~m.loading /\ \E e \in Event :
              e.msg = msg /\ Say(m, msg) = Writes(m, e)
  <2>1. PICK e \in Event :
              e.msg = msg /\ Say(m, msg) = Writes(m, e)
    BY <1>2
  <2>2. PICK n : n = Say(m, msg)
    OBVIOUS
  <2>3. /\ n \in Store /\ n.events = Push(m.events, e, MaxEvents) /\ n.out = Append(m.out, e)
        /\ n.loading = m.loading /\ n.chg = m.chg /\ n.bat = m.bat /\ n.solar = m.solar
    BY <2>1, <2>2, Written
  <2>4. m.out \in Seq(Event) /\ m.solar \in BOOLEAN
    BY DEF Store
  <2>5. PICK t \in Seq(Event) : t = d \o m.out /\ d \o n.out = Append(t, e)
    <3>1. PICK o \in Seq(Event) : o = m.out
      BY <2>4
    <3>2. d \o Append(o, e) = Append(d \o o, e) /\ d \o o \in Seq(Event)
      BY TableAppend
    <3> QED BY <2>3, <3>1, <3>2
  <2>6. ASSUME Agrees(m, d, lost)
        PROVE  Agrees(n, d, lost)
    <3>1. m.events = Trim(t, MaxEvents) /\ (~lost => Turns(t, m.solar))
      BY <2>5, <2>6 DEF Agrees
    <3>2. n.events = Trim(Append(t, e), MaxEvents)
      BY <2>3, <3>1, LogAssumption, TrimAppend
    <3>3. ~OfSolar(e)
      BY <2>1 DEF OfSolar
    <3>4. ~lost => Turns(Append(t, e), m.solar)
      BY <2>4, <3>1, <3>3, TurnsOther
    <3> QED BY <2>3, <2>5, <3>2, <3>4 DEF Agrees
  <2>7. Moves(m, n, d, lost)
    BY <1>2, <2>3, <2>6 DEF Moves
  <2> QED BY <2>2, <2>3, <2>7
<1> QED BY <1>1, <1>2, SayIs

(* The message that is due about it.                                        *)
LEMMA SaySolar ==
  ASSUME NEW m \in Store, NEW msg, msg = (IF m.solar THEN "dark" ELSE "solar"), logTime \in Int,
         NEW d \in Seq(Event), NEW lost, NEW p, p \in Store,
         p = [Say(m, msg) EXCEPT !.solar = ~m.solar]
  PROVE  Moves(m, p, d, lost)
<1>0. m.solar \in BOOLEAN /\ m.out \in Seq(Event) /\ msg \in Messages
  <2>1. m.solar \in BOOLEAN /\ m.out \in Seq(Event)
    BY DEF Store
  <2>2. msg \in Messages
    BY <2>1 DEF Messages
  <2> QED BY <2>1, <2>2
<1>1. CASE /\ Say(m, msg) = m
           /\ m.loading \/ (m.events # <<>> /\ Last(m.events).msg = msg)
  <2>1. /\ p.events = m.events /\ p.out = m.out /\ p.loading = m.loading
        /\ p.chg = m.chg /\ p.bat = m.bat
    BY <1>1 DEF Store
  <2>2. ASSUME ~m.loading, Agrees(m, d, lost)
        PROVE  Agrees(p, d, lost)
    <3>1. PICK t \in Seq(Event) : t = d \o m.out
      <4>1. PICK e : e \in Event
        <5>1. [at |-> logTime, msg |-> msg] \in Event
          BY <1>0 DEF Event
        <5> QED BY <5>1
      <4>2. PICK o \in Seq(Event) : o = m.out
        BY <1>0
      <4>3. d \o o \in Seq(Event)
        BY <4>1, TableAppend
      <4> QED BY <4>2, <4>3
    <3>2. m.events = Trim(t, MaxEvents) /\ (~lost => Turns(t, m.solar))
      BY <2>2, <3>1 DEF Agrees
    <3>3. Len(t) # 0 /\ Last(m.events) = t[Len(t)]
      BY <1>1, <2>2, <3>2, LogAssumption, TrimLast
    <3>4. t[Len(t)].msg = msg
      BY <1>1, <2>2, <3>3
    <3>5. ~lost => FALSE
      BY <1>0, <3>2, <3>3, <3>4, TurnsDue
    <3> QED BY <2>1, <3>1, <3>2, <3>5 DEF Agrees
  <2> QED BY <2>1, <2>2 DEF Moves
<1>2. CASE ~m.loading /\ \E e \in Event :
              e.msg = msg /\ Say(m, msg) = Writes(m, e)
  <2>1. PICK e \in Event :
              e.msg = msg /\ Say(m, msg) = Writes(m, e)
    BY <1>2
  <2>2. PICK n : n = Say(m, msg)
    OBVIOUS
  <2>3. /\ n \in Store /\ n.events = Push(m.events, e, MaxEvents) /\ n.out = Append(m.out, e)
        /\ n.loading = m.loading /\ n.chg = m.chg /\ n.bat = m.bat /\ n.solar = m.solar
    BY <2>1, <2>2, Written
  <2>4. /\ p.events = n.events /\ p.out = n.out /\ p.loading = n.loading
        /\ p.chg = n.chg /\ p.bat = n.bat /\ p.solar = ~m.solar
    BY <2>2, <2>3 DEF Store
  <2>5. PICK t \in Seq(Event) : t = d \o m.out /\ d \o n.out = Append(t, e)
    <3>1. PICK o \in Seq(Event) : o = m.out
      BY <1>0
    <3>2. d \o Append(o, e) = Append(d \o o, e) /\ d \o o \in Seq(Event)
      BY TableAppend
    <3> QED BY <2>3, <3>1, <3>2
  <2>6. ASSUME Agrees(m, d, lost)
        PROVE  Agrees(p, d, lost)
    <3>1. m.events = Trim(t, MaxEvents) /\ (~lost => Turns(t, m.solar))
      BY <2>5, <2>6 DEF Agrees
    <3>2. n.events = Trim(Append(t, e), MaxEvents)
      BY <2>3, <3>1, LogAssumption, TrimAppend
    <3>3. ~lost => Turns(Append(t, e), ~m.solar)
      BY <1>0, <2>1, <3>1, TurnsNext
    <3> QED BY <2>4, <2>5, <3>2, <3>3 DEF Agrees
  <2> QED BY <1>2, <2>3, <2>4, <2>6 DEF Moves
<1> QED BY <1>0, <1>1, <1>2, SayIs

\* What work on a reading does, but for the readings kept.
Follows(m, n, d, lost) ==
  /\ n \in Store /\ n.loading = m.loading
  /\ m.loading => n.events = m.events /\ n.out = m.out
  /\ ~m.loading /\ Agrees(m, d, lost) => Agrees(n, d, lost)

-----------------------------------------------------------------------------
(* One part of the work after the other.                                    *)
LEMMA MovesOn ==
  ASSUME NEW m, NEW n, NEW p, NEW d, NEW lost, Moves(m, n, d, lost), Moves(n, p, d, lost)
  PROVE  Moves(m, p, d, lost)
BY DEF Moves

(* Parts that touch none of this.                                           *)
LEMMA Aside ==
  ASSUME NEW m, NEW n, n \in Store, NEW d, NEW lost,
         n.events = m.events, n.out = m.out, n.loading = m.loading, n.solar = m.solar,
         n.chg = m.chg, n.bat = m.bat
  PROVE  Moves(m, n, d, lost)
BY DEF Moves, Agrees

(* The parts of process_system_events: charging, of which solar is no part. *)
LEMMA AfterCharging ==
  ASSUME NEW m \in Store, NEW bat, bat.charging \in BOOLEAN, logTime \in Int,
         NEW d \in Seq(Event), NEW lost
  PROVE  Moves(m, ChargingEvent(m, bat), d, lost) /\ ChargingEvent(m, bat).solar = m.solar
<1> DEFINE changed == m.stage # m.prevStage /\ m.prevStage # ""
           msg == IF changed
                  THEN IF m.stage \in {"Bulk", "Float"} THEN "started"
                       ELSE IF m.stage = "Idle" THEN "stopped" ELSE "entered"
                  ELSE IF bat.charging /\ ~m.charging THEN "started"
                  ELSE IF ~bat.charging /\ m.charging THEN "stopped" ELSE ""
           n == Say(m, msg)
           logged == IF msg = "" \/ logTime - m.chargingAt < Throttle THEN m
                     ELSE [n EXCEPT !.chargingAt = logTime]
           p == [logged EXCEPT !.charging = bat.charging, !.prevStage = m.stage]
<1>1. ChargingEvent(m, bat) = p
  BY DEF ChargingEvent
<1>2. msg # "" => msg \in Messages /\ msg \notin {"solar", "dark"}
  BY DEF Messages
<1>3. m.stage \in Stages4
  BY DEF Store
<1> HIDE DEF msg, changed
<1>4. Moves(m, logged, d, lost) /\ logged.solar = m.solar
  <2>1. CASE msg = "" \/ logTime - m.chargingAt < Throttle
    <3>1. logged = m
      BY <2>1
    <3> QED BY <3>1, Aside
  <2>2. CASE ~(msg = "" \/ logTime - m.chargingAt < Throttle)
    <3>1. PICK k : k = n
      OBVIOUS
    <3>2. Moves(m, k, d, lost) /\ k.solar = m.solar
      BY <1>2, <2>2, <3>1, SayOther
    <3>3. k \in Store
      BY <3>2 DEF Moves
    <3>4. PICK l : l = [k EXCEPT !.chargingAt = logTime]
      OBVIOUS
    <3>5. /\ l \in Store /\ l.events = k.events /\ l.out = k.out /\ l.loading = k.loading
          /\ l.solar = k.solar /\ l.chg = k.chg /\ l.bat = k.bat
      BY <3>3, <3>4 DEF Store
    <3>6. Moves(k, l, d, lost)
      BY <3>5, Aside
    <3>7. logged = l
      BY <2>2, <3>1, <3>4
    <3> QED BY <3>2, <3>5, <3>6, <3>7, MovesOn
  <2> QED BY <2>1, <2>2
<1>5. PICK l : l = logged
  OBVIOUS
<1>6. l \in Store
  BY <1>4, <1>5 DEF Moves
<1>7. p = [l EXCEPT !.charging = bat.charging, !.prevStage = m.stage]
  BY <1>5
<1> HIDE DEF p, logged
<1>8. /\ p.events = l.events /\ p.out = l.out /\ p.loading = l.loading
      /\ p.solar = l.solar /\ p.chg = l.chg /\ p.bat = l.bat
  BY <1>6, <1>7 DEF Store
<1>9. p \in Store
  BY <1>3, <1>6, <1>7 DEF Store
<1>10. Moves(l, p, d, lost)
  BY <1>8, <1>9, Aside
<1> QED BY <1>1, <1>4, <1>5, <1>8, <1>10, MovesOn

(* The sun: a message when what it says is not what the store believed.     *)
LEMMA AfterSolar ==
  ASSUME NEW m \in Store, NEW solar \in BOOLEAN, logTime \in Int,
         NEW d \in Seq(Event), NEW lost
  PROVE  Moves(m, SolarEvent(m, solar), d, lost) /\ SolarEvent(m, solar).solar = solar
<1> DEFINE p == SolarEvent(m, solar)
<1>0. m.solar \in BOOLEAN
  BY DEF Store
<1>1. CASE solar = m.solar
  <2>1. p = [m EXCEPT !.solar = solar]
    BY <1>1 DEF SolarEvent, SayIf
  <2> HIDE DEF p
  <2>2. /\ p \in Store /\ p.events = m.events /\ p.out = m.out /\ p.loading = m.loading
        /\ p.solar = m.solar /\ p.chg = m.chg /\ p.bat = m.bat
    BY <1>1, <2>1 DEF Store
  <2>3. Moves(m, p, d, lost)
    BY <2>2, Aside
  <2> QED BY <1>1, <2>2, <2>3 DEF p
<1>2. CASE solar # m.solar
  <2>1. PICK msg : msg = IF m.solar THEN "dark" ELSE "solar"
    OBVIOUS
  <2>2. msg \in Messages
    BY <2>1 DEF Messages
  <2>3. PICK n : n = Say(m, msg)
    OBVIOUS
  <2>4. p = [n EXCEPT !.solar = solar]
    <3>1. CASE m.solar
      <4>1. ~solar /\ msg = "dark"
        BY <1>2, <2>1, <3>1
      <4> QED BY <2>3, <3>1, <4>1 DEF SolarEvent, SayIf
    <3>2. CASE ~m.solar
      <4>1. solar /\ msg = "solar"
        BY <1>0, <1>2, <2>1, <3>2
      <4> QED BY <2>3, <3>2, <4>1 DEF SolarEvent, SayIf
    <3> QED BY <3>1, <3>2
  <2>5. n \in Store
    <3>1. CASE n = m
      BY <3>1
    <3>2. CASE \E e \in Event : n = Writes(m, e)
      BY <3>2, Written
    <3> QED BY <2>2, <2>3, <3>1, <3>2, SayIs
  <2> HIDE DEF p
  <2>6. p \in Store /\ p.solar = solar
    BY <2>4, <2>5 DEF Store
  <2>7. p = [Say(m, msg) EXCEPT !.solar = ~m.solar]
    <3>1. solar = ~m.solar
      BY <1>0, <1>2
    <3> QED BY <2>3, <2>4, <3>1
  <2>8. Moves(m, p, d, lost)
    BY <2>1, <2>6, <2>7, SaySolar
  <2> QED BY <2>6, <2>8 DEF p
<1> QED BY <1>1, <1>2

(* The warnings.                                                            *)
LEMMA AfterWarning ==
  ASSUME NEW m \in Store, logTime \in Int, NEW d \in Seq(Event), NEW lost
  PROVE  Moves(m, WarningEvent(m), d, lost) /\ WarningEvent(m).solar = m.solar
<1> DEFINE say == m.bad /\ (~m.prevBad \/ logTime - m.badAt >= Once)
           n == SayIf(m, say, "warning")
           p == [n EXCEPT !.badAt = IF say THEN logTime ELSE n.badAt, !.prevBad = m.bad]
<1>1. WarningEvent(m) = p
  BY DEF WarningEvent
<1>2. m.bad \in BOOLEAN
  BY DEF Store
<1>3. Moves(m, n, d, lost) /\ n.solar = m.solar
  <2>1. CASE ~say
    <3>1. n = m
      BY <2>1 DEF SayIf
    <3> QED BY <3>1, Aside
  <2>2. CASE say
    <3>1. n = Say(m, "warning")
      BY <2>2 DEF SayIf
    <3>2. "warning" \in Messages /\ "warning" \notin {"solar", "dark"}
      BY DEF Messages
    <3> QED BY <3>1, <3>2, SayOther
  <2> QED BY <2>1, <2>2
<1>4. PICK l : l = n
  OBVIOUS
<1>5. PICK x : x = IF say THEN logTime ELSE l.badAt
  OBVIOUS
<1>6. l \in Store
  BY <1>3, <1>4 DEF Moves
<1>7. x \in Int
  BY <1>5, <1>6 DEF Store
<1>8. p = [l EXCEPT !.badAt = x, !.prevBad = m.bad]
  BY <1>4, <1>5
<1> HIDE DEF p, n, say
<1>9. /\ p.events = l.events /\ p.out = l.out /\ p.loading = l.loading
      /\ p.solar = l.solar /\ p.chg = l.chg /\ p.bat = l.bat
  BY <1>6, <1>8 DEF Store
<1>10. p \in Store
  BY <1>2, <1>6, <1>7, <1>8 DEF Store
<1>11. Moves(l, p, d, lost)
  BY <1>9, <1>10, Aside
<1> QED BY <1>1, <1>3, <1>4, <1>9, <1>11, MovesOn

(* The battery full, or no longer.                                          *)
LEMMA AfterFull ==
  ASSUME NEW m \in Store, NEW level, logTime \in Int, NEW d \in Seq(Event), NEW lost
  PROVE  Moves(m, FullEvent(m, level), d, lost) /\ FullEvent(m, level).solar = m.solar
<1> DEFINE p == FullEvent(m, level)
<1>1. CASE level >= 90 /\ ~m.full
  <2>1. PICK n : n = Say(m, "full")
    OBVIOUS
  <2>2. "full" \in Messages /\ "full" \notin {"solar", "dark"}
    BY DEF Messages
  <2>3. Moves(m, n, d, lost) /\ n.solar = m.solar
    BY <2>1, <2>2, SayOther
  <2>4. n \in Store
    BY <2>3 DEF Moves
  <2>5. p = [n EXCEPT !.full = TRUE]
    BY <1>1, <2>1 DEF FullEvent
  <2> HIDE DEF p
  <2>6. /\ p \in Store /\ p.events = n.events /\ p.out = n.out /\ p.loading = n.loading
        /\ p.solar = n.solar /\ p.chg = n.chg /\ p.bat = n.bat
    BY <2>4, <2>5 DEF Store
  <2>7. Moves(n, p, d, lost)
    BY <2>6, Aside
  <2>8. Moves(m, p, d, lost)
    BY <2>3, <2>7, MovesOn
  <2> QED BY <2>3, <2>6, <2>8 DEF p
<1>2. CASE ~(level >= 90 /\ ~m.full) /\ level < 85
  <2>1. p = [m EXCEPT !.full = FALSE]
    BY <1>2 DEF FullEvent
  <2> HIDE DEF p
  <2>2. /\ p \in Store /\ p.events = m.events /\ p.out = m.out /\ p.loading = m.loading
        /\ p.solar = m.solar /\ p.chg = m.chg /\ p.bat = m.bat
    BY <2>1 DEF Store
  <2>3. Moves(m, p, d, lost)
    BY <2>2, Aside
  <2> QED BY <2>2, <2>3 DEF p
<1>3. CASE ~(level >= 90 /\ ~m.full) /\ ~(level < 85)
  <2>1. p = m
    BY <1>3 DEF FullEvent
  <2> QED BY <2>1, Aside
<1> QED BY <1>1, <1>2, <1>3

(* All of process_system_events.                                            *)
LEMMA AfterProcess ==
  ASSUME NEW m \in Store, NEW bat, bat.charging \in BOOLEAN, NEW solar \in BOOLEAN,
         logTime \in Int, NEW d \in Seq(Event), NEW lost
  PROVE  Moves(m, Process(m, bat, solar), d, lost) /\ Process(m, bat, solar).solar = solar
<1>1. PICK a : a = ChargingEvent(m, bat)
  OBVIOUS
<1>2. Moves(m, a, d, lost)
  BY <1>1, AfterCharging
<1>3. a \in Store
  BY <1>2 DEF Moves
<1>4. PICK b : b = SolarEvent(a, solar)
  OBVIOUS
<1>5. Moves(a, b, d, lost) /\ b.solar = solar
  BY <1>3, <1>4, AfterSolar
<1>6. b \in Store
  BY <1>5 DEF Moves
<1>7. PICK c : c = WarningEvent(b)
  OBVIOUS
<1>8. Moves(b, c, d, lost) /\ c.solar = solar
  BY <1>5, <1>6, <1>7, AfterWarning
<1>9. c \in Store
  BY <1>8 DEF Moves
<1>10. PICK p : p = FullEvent(c, bat.soc)
  OBVIOUS
<1>11. Moves(c, p, d, lost) /\ p.solar = solar
  BY <1>8, <1>9, <1>10, AfterFull
<1>12. Process(m, bat, solar) = p
  BY <1>1, <1>4, <1>7, <1>10 DEF Process
<1>13. Moves(m, b, d, lost)
  BY <1>2, <1>5, MovesOn
<1>14. Moves(m, c, d, lost)
  BY <1>8, <1>13, MovesOn
<1>15. Moves(m, p, d, lost)
  BY <1>11, <1>14, MovesOn
<1> QED BY <1>11, <1>12, <1>15

(* One reading of the BMS, while the program runs or while history is read. *)
LEMMA AfterBms ==
  ASSUME NEW m \in Store, NEW bat \in LogBatteries, logTime \in Int,
         NEW d \in Seq(Event), NEW lost
  PROVE  LET n == OnBms(m, bat) IN
         Follows(m, n, d, lost) /\ n.chg = m.chg /\ n.solar = (m.chg # <<>> /\ m.chg[1].solar)
<1> DEFINE solar == m.chg # <<>> /\ m.chg[1].solar
<1>1. bat.charging \in BOOLEAN /\ bat.bad \in BOOLEAN
  BY LogAssumption
<1>2. solar \in BOOLEAN
  <2>1. m.chg # <<>> => m.chg[1] \in LogChargers
    <3>1. m.chg \in Seq(LogChargers)
      BY DEF Store
    <3>2. PICK l \in Nat : Len(m.chg) = l
      BY <3>1, LenProperties
    <3>3. m.chg # <<>> => 1 \in 1..l
      BY <3>1, <3>2, EmptySeq
    <3> QED BY <3>1, <3>2, <3>3, ElementOfSeq
  <2>2. m.chg # <<>> => m.chg[1].solar \in BOOLEAN
    BY <2>1, LogAssumption
  <2> QED BY <2>2
<1>3. PICK seen : seen = [m EXCEPT !.bad = bat.bad]
  OBVIOUS
<1>4. /\ seen \in Store /\ seen.events = m.events /\ seen.out = m.out /\ seen.loading = m.loading
      /\ seen.solar = m.solar /\ seen.chg = m.chg /\ seen.bat = m.bat
  BY <1>1, <1>3 DEF Store
<1>5. Moves(m, seen, d, lost)
  BY <1>4, Aside
<1>6. PICK s \in BOOLEAN : s = solar
  BY <1>2
<1>7. PICK p : p = Process(seen, bat, s)
  OBVIOUS
<1>8. Moves(seen, p, d, lost) /\ p.solar = s
  BY <1>1, <1>4, <1>7, AfterProcess
<1>9. Moves(m, p, d, lost)
  BY <1>5, <1>8, MovesOn
<1>10. PICK n : n = [p EXCEPT !.bat = <<bat>>]
  OBVIOUS
<1>11. OnBms(m, bat) = n
  BY <1>3, <1>6, <1>7, <1>10 DEF OnBms
<1>12. p \in Store /\ p.chg = m.chg
  BY <1>9 DEF Moves
<1>13. <<bat>> \in Seq(LogBatteries)
  OBVIOUS
<1>14. /\ n \in Store /\ n.events = p.events /\ n.out = p.out /\ n.loading = p.loading
       /\ n.solar = p.solar /\ n.chg = p.chg
  BY <1>10, <1>12, <1>13 DEF Store
<1>15. Follows(m, n, d, lost)
  BY <1>9, <1>14 DEF Moves, Follows, Agrees
<1> QED BY <1>6, <1>8, <1>11, <1>12, <1>14, <1>15

(* And one of the charger.                                                  *)
LEMMA AfterChg ==
  ASSUME NEW m \in Store, NEW chg \in LogChargers, logTime \in Int,
         NEW d \in Seq(Event), NEW lost
  PROVE  LET n == OnChg(m, chg) IN
         Follows(m, n, d, lost) /\ n.chg = <<chg>> /\ n.solar = chg.solar
<1> DEFINE bat == IF m.bat = <<>> THEN NoReading ELSE m.bat[1]
<1>1. chg.solar \in BOOLEAN /\ chg.stage \in Stages4
  BY LogAssumption DEF Stages4
<1>2. bat.charging \in BOOLEAN
  <2>1. m.bat # <<>> => m.bat[1] \in LogBatteries
    <3>1. m.bat \in Seq(LogBatteries)
      BY DEF Store
    <3>2. PICK l \in Nat : Len(m.bat) = l
      BY <3>1, LenProperties
    <3>3. m.bat # <<>> => 1 \in 1..l
      BY <3>1, <3>2, EmptySeq
    <3> QED BY <3>1, <3>2, <3>3, ElementOfSeq
  <2>2. m.bat # <<>> => m.bat[1].charging \in BOOLEAN
    BY <2>1, LogAssumption
  <2> QED BY <2>2 DEF NoReading
<1>3. PICK seen : seen = [m EXCEPT !.stage = chg.stage]
  OBVIOUS
<1>4. /\ seen \in Store /\ seen.events = m.events /\ seen.out = m.out /\ seen.loading = m.loading
      /\ seen.solar = m.solar /\ seen.chg = m.chg /\ seen.bat = m.bat
  BY <1>1, <1>3 DEF Store
<1>5. Moves(m, seen, d, lost)
  BY <1>4, Aside
<1>6. PICK b : b = bat
  OBVIOUS
<1>7. PICK p : p = Process(seen, b, chg.solar)
  OBVIOUS
<1>8. Moves(seen, p, d, lost) /\ p.solar = chg.solar
  <2>1. b.charging \in BOOLEAN
    BY <1>2, <1>6
  <2>2. PICK s \in BOOLEAN : s = chg.solar
    BY <1>1
  <2>3. p = Process(seen, b, s)
    BY <1>7, <2>2
  <2>4. Moves(seen, p, d, lost) /\ p.solar = s
    BY <1>4, <2>1, <2>3, AfterProcess
  <2> QED BY <2>2, <2>4
<1>9. Moves(m, p, d, lost)
  BY <1>5, <1>8, MovesOn
<1>10. PICK n : n = [p EXCEPT !.chg = <<chg>>]
  OBVIOUS
<1>11. OnChg(m, chg) = n
  BY <1>3, <1>6, <1>7, <1>10 DEF OnChg
<1>12. p \in Store
  BY <1>9 DEF Moves
<1>13. <<chg>> \in Seq(LogChargers)
  OBVIOUS
<1>14. /\ n \in Store /\ n.events = p.events /\ n.out = p.out /\ n.loading = p.loading
       /\ n.solar = p.solar /\ n.chg = <<chg>>
  BY <1>10, <1>12, <1>13 DEF Store
<1>15. Follows(m, n, d, lost)
  BY <1>9, <1>14 DEF Moves, Follows, Agrees
<1> QED BY <1>8, <1>11, <1>14, <1>15

\* The store while history is read: nothing is logged.
Silent(m) == m \in Store /\ m.loading /\ m.events = <<>> /\ m.out = <<>>
\* Solar input is what the last reading of the charger says.
Knows(m, chg) ==
  /\ m.chg = IF chg = <<>> THEN <<>> ELSE <<chg[Len(chg)]>>
  /\ m.solar = (m.chg # <<>> /\ m.chg[1].solar)

\* As before any reading of the charger.
Blank(m) == Silent(m) /\ m.chg = <<>> /\ Knows(m, <<>>)

Disks == [events : Seq(Event), bms : Seq(LogBatteries), chg : Seq(LogChargers)]

\* The invariant of the log: between two steps nothing is on its way.
LogInv ==
  /\ logTime \in Int /\ lostSome \in BOOLEAN /\ disk \in Disks
  /\ log \in Store /\ ~log.loading /\ log.out = <<>>
  /\ Knows(log, disk.chg)
  /\ Agrees(log, disk.events, lostSome)

-----------------------------------------------------------------------------
(* Nothing is logged while history is read, from the empty store on.        *)
LEMMA QuietOn ==
  ASSUME NEW m, NEW n, Silent(m), Follows(m, n, <<>>, TRUE)
  PROVE  Silent(n)
BY DEF Silent, Follows

(* A new store.                                                             *)
LEMMA FirstBlank == Blank(NewStore)
<1>1. /\ <<>> \in Seq(Event) /\ <<>> \in Seq(LogBatteries) /\ <<>> \in Seq(LogChargers)
      /\ "" \in Stages4 /\ -Once \in Int
  BY EmptySeq DEF Stages4, Once
<1>2. NewStore \in Store
  BY <1>1 DEF NewStore, Store
<1> QED BY <1>2 DEF NewStore, Blank, Silent, Knows

\* The recursive function of ReplayBms up to n, and that of ReplayChg.
BmsSteps(m, list, n, f) ==
  f = [k \in 0..n |-> IF k = 0 THEN m ELSE OnBms(f[k - 1], list[k])]
ChgSteps(m, list, n, f) ==
  f = [k \in 0..n |-> IF k = 0 THEN m ELSE OnChg(f[k - 1], list[k])]

(* Both functions exist, for any list.                                      *)
LEMMA BmsStepsExist ==
  ASSUME NEW m, NEW list
  PROVE  \A n \in Nat : \E f : BmsSteps(m, list, n, f)
<1> SUFFICES ASSUME NEW N \in Nat PROVE \E f : BmsSteps(m, list, N, f)
  OBVIOUS
<1> DEFINE T == {k \in 0..N : \E f : BmsSteps(m, list, k, f)}
<1>1. 0 \in T
  <2>1. BmsSteps(m, list, 0, [k \in 0..0 |-> m])
    BY DEF BmsSteps
  <2> QED BY <2>1
<1>2. ASSUME NEW n \in Nat, n \in T, n < N
      PROVE  n + 1 \in T
  <2>1. PICK f : BmsSteps(m, list, n, f)
    BY <1>2
  <2> DEFINE g == [k \in 0..(n + 1) |-> IF k = n + 1 THEN OnBms(f[n], list[n + 1]) ELSE f[k]]
  <2>2. BmsSteps(m, list, n + 1, g)
    <3>1. ASSUME NEW k \in 0..(n + 1)
          PROVE  g[k] = IF k = 0 THEN m ELSE OnBms(g[k - 1], list[k])
      BY <1>2, <2>1 DEF BmsSteps
    <3> QED BY <3>1 DEF BmsSteps
  <2> HIDE DEF g
  <2>3. \E h : BmsSteps(m, list, n + 1, h)
    BY <2>2
  <2> QED BY <1>2, <2>3
<1>3. \A k \in 0..N : k \in T
  <2> HIDE DEF T
  <2> QED BY <1>1, <1>2, UpTo
<1> QED BY <1>3

(* The one of the charger.                                                  *)
LEMMA ChgStepsExist ==
  ASSUME NEW m, NEW list
  PROVE  \A n \in Nat : \E f : ChgSteps(m, list, n, f)
<1> SUFFICES ASSUME NEW N \in Nat PROVE \E f : ChgSteps(m, list, N, f)
  OBVIOUS
<1> DEFINE T == {k \in 0..N : \E f : ChgSteps(m, list, k, f)}
<1>1. 0 \in T
  <2>1. ChgSteps(m, list, 0, [k \in 0..0 |-> m])
    BY DEF ChgSteps
  <2> QED BY <2>1
<1>2. ASSUME NEW n \in Nat, n \in T, n < N
      PROVE  n + 1 \in T
  <2>1. PICK f : ChgSteps(m, list, n, f)
    BY <1>2
  <2> DEFINE g == [k \in 0..(n + 1) |-> IF k = n + 1 THEN OnChg(f[n], list[n + 1]) ELSE f[k]]
  <2>2. ChgSteps(m, list, n + 1, g)
    <3>1. ASSUME NEW k \in 0..(n + 1)
          PROVE  g[k] = IF k = 0 THEN m ELSE OnChg(g[k - 1], list[k])
      BY <1>2, <2>1 DEF ChgSteps
    <3> QED BY <3>1 DEF ChgSteps
  <2> HIDE DEF g
  <2>3. \E h : ChgSteps(m, list, n + 1, h)
    BY <2>2
  <2> QED BY <1>2, <2>3
<1>3. \A k \in 0..N : k \in T
  <2> HIDE DEF T
  <2> QED BY <1>1, <1>2, UpTo
<1> QED BY <1>3

(* What they do from one reading to the next.                               *)
LEMMA BmsStep ==
  ASSUME NEW m, NEW list, NEW n \in Nat, NEW f, BmsSteps(m, list, n, f)
  PROVE  f[0] = m /\ \A k \in Nat : k < n => f[k + 1] = OnBms(f[k], list[k + 1])
<1>1. ASSUME NEW k \in Nat, k < n
      PROVE  f[k + 1] = OnBms(f[k], list[k + 1])
  <2>1. k + 1 \in 0..n /\ k + 1 # 0 /\ k + 1 - 1 = k
    BY <1>1
  <2> QED BY <2>1 DEF BmsSteps
<1>2. f[0] = m
  BY DEF BmsSteps
<1> QED BY <1>1, <1>2

LEMMA ChgStep ==
  ASSUME NEW m, NEW list, NEW n \in Nat, NEW f, ChgSteps(m, list, n, f)
  PROVE  f[0] = m /\ \A k \in Nat : k < n => f[k + 1] = OnChg(f[k], list[k + 1])
<1>1. ASSUME NEW k \in Nat, k < n
      PROVE  f[k + 1] = OnChg(f[k], list[k + 1])
  <2>1. k + 1 \in 0..n /\ k + 1 # 0 /\ k + 1 - 1 = k
    BY <1>1
  <2> QED BY <2>1 DEF ChgSteps
<1>2. f[0] = m
  BY DEF ChgSteps
<1> QED BY <1>1, <1>2

(* Reading the readings of the BMS logs nothing.                            *)
LEMMA AfterReplayBms ==
  ASSUME NEW list \in Seq(LogBatteries), logTime \in Int
  PROVE  Blank(ReplayBms(NewStore, list))
<1>1. PICK l \in Nat : Len(list) = l
  BY LenProperties
<1> DEFINE f == CHOOSE f : f = [k \in 0..Len(list) |-> IF k = 0 THEN NewStore ELSE OnBms(f[k - 1], list[k])]
<1>2. BmsSteps(NewStore, list, l, f)
  <2>1. \E g : BmsSteps(NewStore, list, l, g)
    BY BmsStepsExist
  <2> QED BY <1>1, <2>1 DEF BmsSteps
<1>3. ReplayBms(NewStore, list) = f[l]
  BY <1>1 DEF ReplayBms
<1> HIDE DEF f
<1>4. f[0] = NewStore /\ \A k \in Nat : k < l => f[k + 1] = OnBms(f[k], list[k + 1])
  BY <1>1, <1>2, BmsStep
<1> DEFINE T == {k \in 0..l : Blank(f[k])}
<1>5. 0 \in T
  BY <1>4, FirstBlank
<1>6. ASSUME NEW k \in Nat, k \in T, k < l
      PROVE  k + 1 \in T
  <2>1. PICK m : m = f[k]
    OBVIOUS
  <2>2. Silent(m) /\ m.chg = <<>>
    BY <1>6, <2>1 DEF Blank
  <2>3. m \in Store
    BY <2>2 DEF Silent
  <2>4. PICK x \in LogBatteries : x = list[k + 1]
    BY <1>1, <1>6, ElementOfSeq
  <2>5. PICK n : n = OnBms(m, x)
    OBVIOUS
  <2>6. Follows(m, n, <<>>, TRUE) /\ n.chg = m.chg /\ n.solar = (m.chg # <<>> /\ m.chg[1].solar)
    <3>1. <<>> \in Seq(Event)
      BY EmptySeq
    <3> QED BY <2>3, <2>5, <3>1, AfterBms
  <2>7. Silent(n)
    BY <2>2, <2>6, QuietOn
  <2>8. Blank(n)
    BY <2>2, <2>6, <2>7 DEF Blank, Knows
  <2>9. f[k + 1] = n
    BY <1>4, <1>6, <2>1, <2>4, <2>5
  <2> QED BY <1>6, <2>8, <2>9
<1>7. \A k \in 0..l : k \in T
  <2> HIDE DEF T
  <2> QED BY <1>5, <1>6, UpTo
<1> QED BY <1>3, <1>7

(* Nor do those of the charger, and the last of them is remembered.         *)
LEMMA AfterReplayChg ==
  ASSUME NEW list \in Seq(LogChargers), logTime \in Int,
         NEW first, Blank(first)
  PROVE  LET n == ReplayChg(first, list) IN Silent(n) /\ Knows(n, list)
<1>1. PICK l \in Nat : Len(list) = l
  BY LenProperties
<1> DEFINE f == CHOOSE f : f = [k \in 0..Len(list) |-> IF k = 0 THEN first ELSE OnChg(f[k - 1], list[k])]
<1>2. ChgSteps(first, list, l, f)
  <2>1. \E g : ChgSteps(first, list, l, g)
    BY ChgStepsExist
  <2> QED BY <1>1, <2>1 DEF ChgSteps
<1>3. ReplayChg(first, list) = f[l]
  BY <1>1 DEF ReplayChg
<1> HIDE DEF f
<1>4. f[0] = first /\ \A k \in Nat : k < l => f[k + 1] = OnChg(f[k], list[k + 1])
  BY <1>1, <1>2, ChgStep
<1> DEFINE HasRead(m, k) == /\ m.chg = IF k = 0 THEN <<>> ELSE <<list[k]>>
                        /\ m.solar = (m.chg # <<>> /\ m.chg[1].solar)
           T == {k \in 0..l : Silent(f[k]) /\ HasRead(f[k], k)}
<1>5. 0 \in T
  <2>1. HasRead(first, 0) /\ Silent(first)
    BY DEF Knows, Blank
  <2> QED BY <1>4, <2>1
<1>6. ASSUME NEW k \in Nat, k \in T, k < l
      PROVE  k + 1 \in T
  <2>1. PICK m : m = f[k]
    OBVIOUS
  <2>2. Silent(m)
    BY <1>6, <2>1
  <2>3. m \in Store
    BY <2>2 DEF Silent
  <2>4. PICK x \in LogChargers : x = list[k + 1]
    BY <1>1, <1>6, ElementOfSeq
  <2>5. PICK n : n = OnChg(m, x)
    OBVIOUS
  <2>6. Follows(m, n, <<>>, TRUE) /\ n.chg = <<x>> /\ n.solar = x.solar
    <3>1. <<>> \in Seq(Event)
      BY EmptySeq
    <3> QED BY <2>3, <2>5, <3>1, AfterChg
  <2>7. Silent(n)
    BY <2>2, <2>6, QuietOn
  <2>8. HasRead(n, k + 1)
    <3>1. n.chg = <<list[k + 1]>> /\ n.chg # <<>> /\ n.chg[1] = x /\ k + 1 # 0
      BY <2>4, <2>6
    <3>2. n.solar \in BOOLEAN
      BY <2>7 DEF Silent, Store
    <3> QED BY <2>6, <3>1, <3>2
  <2>9. f[k + 1] = n
    BY <1>4, <1>6, <2>1, <2>4, <2>5
  <2> HIDE DEF HasRead
  <2> QED BY <1>6, <2>7, <2>8, <2>9
<1>7. \A k \in 0..l : k \in T
  <2> HIDE DEF T
  <2> QED BY <1>5, <1>6, UpTo
<1>8. Silent(f[l]) /\ HasRead(f[l], l)
  BY <1>7
<1>9. list = <<>> <=> l = 0
  BY <1>1, EmptySeq
<1>10. Knows(f[l], list)
  BY <1>1, <1>8, <1>9 DEF Knows
<1> QED BY <1>3, <1>8, <1>10

(* What is loaded of the table is its newest rows.                          *)
LEMMA LoadIs ==
  ASSUME NEW t \in Seq(Event)
  PROVE  LoadInto(<<>> \o LoadEvents(t)) = Trim(t, MaxEvents)
<1>1. PICK max \in Nat : max = MaxEvents
  BY LogAssumption
<1>2. PICK m \in Nat : Len(t) = m
  BY LenProperties
<1>3. PICK u \in Seq(Event) : u = Trim(t, max)
  BY <1>2, TrimSeq
<1>4. PICK l \in Nat : Len(u) = l /\ l <= max
  <2>1. Len(u) = IF m > max THEN max ELSE m
    BY <1>2, <1>3, TrimSeq
  <2> QED BY <2>1
<1>5. <<>> \o u = u
  BY ConcatEmptySeq
<1>6. Min({l, max}) = l
  BY <1>4 DEF Min
<1>7. SubSeq(u, 1, l) = u
  BY <1>4, SubSeqFull
<1> QED BY <1>1, <1>3, <1>4, <1>5, <1>6, <1>7 DEF LoadInto, LoadEvents

-----------------------------------------------------------------------------
(* What was on its way to the table is in it.                               *)
LEMMA NothingOut ==
  ASSUME NEW t \in Seq(Event), NEW m, NEW n, NEW d \in Seq(Event), NEW lost,
         Agrees(m, d, lost), t = d \o m.out,
         n.events = m.events, n.solar = m.solar, n.out = <<>>
  PROVE  Agrees(n, t, lost)
<1>1. t \o <<>> = t
  BY ConcatEmptySeq
<1> QED BY <1>1 DEF Agrees

(* The first start, over an empty database.                                 *)
LEMMA LogStarts == LogInit => LogInv
<1> SUFFICES ASSUME LogInit PROVE LogInv
  OBVIOUS
<1>1. PICK e : e = [at |-> 0, msg |-> "opened"]
  OBVIOUS
<1>2. e \in Event /\ ~OfSolar(e)
  BY <1>1 DEF Event, Messages, OfSolar
<1>3. PICK t : t = <<e>>
  OBVIOUS
<1>4. t \in Seq(Event) /\ Len(t) = 1 /\ t[1] = e /\ DOMAIN t = 1..1
  BY <1>2, <1>3
<1>5. disk = [events |-> t, bms |-> <<>>, chg |-> <<>>] /\ logTime = 0 /\ lostSome = FALSE
  BY <1>1, <1>3 DEF LogInit
<1>6. disk \in Disks /\ disk.events = t /\ disk.chg = <<>>
  BY <1>4, <1>5, EmptySeq DEF Disks
<1>7. PICK m : m = NewStore
  OBVIOUS
<1>8. log = [m EXCEPT !.loading = FALSE, !.events = t]
  BY <1>5, <1>6, <1>7 DEF LogInit
<1>9. Silent(m) /\ Knows(m, <<>>)
  BY <1>7, FirstBlank DEF Blank
<1>10. m \in Store /\ m.out = <<>>
  BY <1>9 DEF Silent
<1>11. /\ log \in Store /\ ~log.loading /\ log.out = <<>> /\ log.events = t
       /\ log.chg = m.chg /\ log.solar = m.solar
  BY <1>4, <1>8, <1>10 DEF Store
<1>12. Knows(log, disk.chg)
  BY <1>6, <1>9, <1>11 DEF Knows
<1>13. t \o <<>> = t
  BY <1>4, ConcatEmptySeq
<1>14. Trim(t, MaxEvents) = t
  <2>1. ~(Len(t) > MaxEvents)
    BY <1>4, LogAssumption
  <2> QED BY <2>1 DEF Trim
<1>15. TakeTurns(t)
  <2>1. \A i \in 1..1 : ~OfSolar(t[i])
    BY <1>2, <1>4
  <2> QED BY <1>4, <2>1 DEF TakeTurns
<1>16. Turns(t, log.solar)
  <2>1. \A i \in 1..Len(t) : ~OfSolar(t[i])
    BY <1>2, <1>4
  <2>2. ~log.solar
    BY <1>6, <1>12 DEF Knows
  <2> QED BY <1>15, <2>1, <2>2 DEF Turns
<1>17. Agrees(log, disk.events, lostSome)
  <2>1. disk.events \o log.out = t
    BY <1>6, <1>11, <1>13
  <2>2. log.events = Trim(t, MaxEvents)
    BY <1>11, <1>14
  <2> QED BY <1>16, <2>1, <2>2 DEF Agrees
<1>18. logTime \in Int /\ lostSome \in BOOLEAN
  <2>1. logTime \in Int
    BY <1>5
  <2>2. lostSome \in BOOLEAN
    BY <1>5
  <2> QED BY <2>1, <2>2
<1> QED BY <1>6, <1>11, <1>12, <1>17, <1>18 DEF LogInv

(* A reading, whichever, was worked on: n is the store with its events on   *)
(* their way, which are then written.                                       *)
LEMMA WrittenDown ==
  ASSUME NEW m, Follows(log, m, disk.events, lostSome), LogInv,
         NEW n, n = [m EXCEPT !.out = <<>>], NEW t, t = disk.events \o m.out
  PROVE  /\ n \in Store /\ ~n.loading /\ n.out = <<>> /\ n.chg = m.chg /\ n.solar = m.solar
         /\ t \in Seq(Event) /\ Agrees(n, t, lostSome)
<1>1. log \in Store /\ ~log.loading /\ Agrees(log, disk.events, lostSome) /\ disk.events \in Seq(Event)
  BY DEF LogInv, Disks
<1>2. m \in Store /\ ~m.loading /\ Agrees(m, disk.events, lostSome)
  BY <1>1 DEF Follows
<1>3. /\ n \in Store /\ ~n.loading /\ n.out = <<>> /\ n.chg = m.chg /\ n.solar = m.solar
      /\ n.events = m.events
  BY <1>2, EmptySeq DEF Store
<1>4. t \in Seq(Event)
  <2>1. m.out \in Seq(Event)
    BY <1>2 DEF Store
  <2> QED BY <1>1, <2>1, ConcatProperties
<1>5. Agrees(n, t, lostSome)
  BY <1>1, <1>2, <1>3, <1>4, NothingOut
<1> QED BY <1>3, <1>4, <1>5

(* The steps keep the invariant.                                            *)
LEMMA ReadingKeeps == LogInv /\ LogReading => LogInv'
<1> SUFFICES ASSUME LogInv, LogReading PROVE LogInv'
  OBVIOUS
<1>1. /\ logTime \in Int /\ lostSome \in BOOLEAN /\ disk \in Disks /\ log \in Store
      /\ disk.events \in Seq(Event) /\ disk.bms \in Seq(LogBatteries) /\ disk.chg \in Seq(LogChargers)
  BY DEF LogInv, Disks
<1>2. logTime' \in Int /\ lostSome' = lostSome
  <2>1. PICK dt \in {0, Once} : logTime' = logTime + dt
    BY DEF LogReading
  <2>2. dt \in Int
    BY DEF Once
  <2>3. lostSome' = lostSome
    BY DEF LogReading
  <2> QED BY <1>1, <2>1, <2>2, <2>3
<1>3. ASSUME NEW bat \in LogBatteries, NEW m, m = OnBms(log, bat), log' = [m EXCEPT !.out = <<>>],
             disk' = [disk EXCEPT !.events = @ \o m.out, !.bms = Append(@, bat)]
      PROVE  LogInv'
  <2>1. /\ Follows(log, m, disk.events, lostSome) /\ m.chg = log.chg
        /\ m.solar = (log.chg # <<>> /\ log.chg[1].solar)
    BY <1>1, <1>3, AfterBms
  <2>2. PICK t : t = disk.events \o m.out
    OBVIOUS
  <2>3. /\ log' \in Store /\ ~log'.loading /\ log'.out = <<>> /\ log'.chg = m.chg /\ log'.solar = m.solar
        /\ t \in Seq(Event) /\ Agrees(log', t, lostSome)
    BY <1>3, <2>1, <2>2, WrittenDown
  <2>4. PICK b : b = Append(disk.bms, bat)
    OBVIOUS
  <2>5. b \in Seq(LogBatteries)
    BY <1>1, <2>4, AppendProperties
  <2>6. disk' = [disk EXCEPT !.events = t, !.bms = b]
    BY <1>3, <2>2, <2>4
  <2>7. disk' \in Disks /\ disk'.events = t /\ disk'.chg = disk.chg
    BY <1>1, <2>3, <2>5, <2>6 DEF Disks
  <2>8. Knows(log, disk.chg)
    BY DEF LogInv
  <2>9. Knows(log', disk'.chg)
    BY <2>1, <2>3, <2>7, <2>8 DEF Knows
  <2> QED BY <1>1, <1>2, <2>3, <2>7, <2>9 DEF LogInv, Agrees, Knows
<1>4. ASSUME NEW chg \in LogChargers, NEW m, m = OnChg(log, chg), log' = [m EXCEPT !.out = <<>>],
             disk' = [disk EXCEPT !.events = @ \o m.out, !.chg = Append(@, chg)]
      PROVE  LogInv'
  <2>1. /\ Follows(log, m, disk.events, lostSome) /\ m.chg = <<chg>> /\ m.solar = chg.solar
    BY <1>1, <1>4, AfterChg
  <2>2. PICK t : t = disk.events \o m.out
    OBVIOUS
  <2>3. /\ log' \in Store /\ ~log'.loading /\ log'.out = <<>> /\ log'.chg = m.chg /\ log'.solar = m.solar
        /\ t \in Seq(Event) /\ Agrees(log', t, lostSome)
    BY <1>4, <2>1, <2>2, WrittenDown
  <2>4. PICK b : b = Append(disk.chg, chg)
    OBVIOUS
  <2>5. b \in Seq(LogChargers) /\ b # <<>> /\ b[Len(b)] = chg
    <3>1. PICK l \in Nat : Len(disk.chg) = l
      BY <1>1, LenProperties
    <3>2. b \in Seq(LogChargers) /\ Len(b) = l + 1 /\ b[l + 1] = chg
      BY <1>1, <2>4, <3>1, AppendProperties
    <3>3. Len(<<>>) = 0 /\ l + 1 # 0
      OBVIOUS
    <3>4. b # <<>>
      BY <3>2, <3>3
    <3> QED BY <3>2, <3>4
  <2>6. disk' = [disk EXCEPT !.events = t, !.chg = b]
    BY <1>4, <2>2, <2>4
  <2>7. disk' \in Disks /\ disk'.events = t /\ disk'.chg = b
    BY <1>1, <2>3, <2>5, <2>6 DEF Disks
  <2>8. log'.chg # <<>> /\ log'.chg[1] = chg /\ log'.solar \in BOOLEAN
    BY <2>1, <2>3 DEF Store
  <2>9. Knows(log', disk'.chg)
    BY <2>1, <2>3, <2>5, <2>7, <2>8 DEF Knows
  <2> QED BY <1>1, <1>2, <2>3, <2>7, <2>9 DEF LogInv, Agrees, Knows
<1> QED
  <2>1. \/ \E bat \in LogBatteries :
             LET m == OnBms(log, bat) IN
             /\ log' = [m EXCEPT !.out = <<>>]
             /\ disk' = [disk EXCEPT !.events = @ \o m.out, !.bms = Append(@, bat)]
        \/ \E chg \in LogChargers :
             LET m == OnChg(log, chg) IN
             /\ log' = [m EXCEPT !.out = <<>>]
             /\ disk' = [disk EXCEPT !.events = @ \o m.out, !.chg = Append(@, chg)]
    BY DEF LogReading
  <2>2. CASE \E bat \in LogBatteries :
             LET m == OnBms(log, bat) IN
             /\ log' = [m EXCEPT !.out = <<>>]
             /\ disk' = [disk EXCEPT !.events = @ \o m.out, !.bms = Append(@, bat)]
    <3>1. PICK bat \in LogBatteries :
             LET m == OnBms(log, bat) IN
             /\ log' = [m EXCEPT !.out = <<>>]
             /\ disk' = [disk EXCEPT !.events = @ \o m.out, !.bms = Append(@, bat)]
      BY <2>2
    <3> QED BY <1>3, <3>1
  <2>3. CASE \E chg \in LogChargers :
             LET m == OnChg(log, chg) IN
             /\ log' = [m EXCEPT !.out = <<>>]
             /\ disk' = [disk EXCEPT !.events = @ \o m.out, !.chg = Append(@, chg)]
    <3>1. PICK chg \in LogChargers :
             LET m == OnChg(log, chg) IN
             /\ log' = [m EXCEPT !.out = <<>>]
             /\ disk' = [disk EXCEPT !.events = @ \o m.out, !.chg = Append(@, chg)]
      BY <2>3
    <3> QED BY <1>4, <3>1
  <2> QED BY <2>1, <2>2, <2>3

(* A start over what is on disk.                                            *)
LEMMA Started ==
  ASSUME NEW d \in Disks, logTime \in Int, NEW s, s = Startup(d)
  PROVE  /\ s.store \in Store /\ ~s.store.loading /\ s.store.out = <<>> /\ Knows(s.store, d.chg)
         /\ s.disk \in Disks /\ s.disk.chg = d.chg
         /\ \E e \in Event : ~OfSolar(e) /\ s.disk.events = Append(d.events, e)
         /\ s.store.events = Trim(s.disk.events, MaxEvents)
<1>1. d.events \in Seq(Event) /\ d.bms \in Seq(LogBatteries) /\ d.chg \in Seq(LogChargers)
  BY DEF Disks
<1>2. PICK e : e = [at |-> logTime, msg |-> "opened"]
  OBVIOUS
<1>3. e \in Event /\ ~OfSolar(e)
  BY <1>2 DEF Event, Messages, OfSolar
<1>4. PICK first : first = ReplayBms(NewStore, d.bms)
  OBVIOUS
<1>5. Blank(first)
  BY <1>1, <1>4, AfterReplayBms
<1>6. PICK both : both = ReplayChg(first, d.chg)
  OBVIOUS
<1>7. Silent(both) /\ Knows(both, d.chg)
  BY <1>1, <1>5, <1>6, AfterReplayChg
<1>8. both \in Store /\ both.events = <<>> /\ both.out = <<>>
  BY <1>7 DEF Silent
<1>9. PICK opened : opened = Append(d.events, e)
  OBVIOUS
<1>10. opened \in Seq(Event)
  BY <1>1, <1>3, <1>9, AppendProperties
<1>11. opened \o both.out = opened
  BY <1>8, <1>10, ConcatEmptySeq
<1>12. PICK l : l = LoadInto(<<>> \o LoadEvents(opened))
  OBVIOUS
<1>13. s = [store |-> [both EXCEPT !.events = l, !.loading = FALSE, !.out = <<>>],
            disk  |-> [d EXCEPT !.events = opened]]
  <2>1. both.events \o LoadEvents(opened) = <<>> \o LoadEvents(opened)
    BY <1>8
  <2> QED BY <1>2, <1>4, <1>6, <1>9, <1>11, <1>12, <2>1 DEF Startup
<1>14. l = Trim(opened, MaxEvents)
  BY <1>10, <1>12, LoadIs
<1>15. l \in Seq(Event)
  <2>1. PICK n \in Nat : Len(opened) = n
    BY <1>10, LenProperties
  <2>2. PICK max \in Nat : max = MaxEvents
    BY LogAssumption
  <2>3. Trim(opened, max) \in Seq(Event)
    BY <1>10, <2>1, TrimSeq
  <2> QED BY <1>14, <2>2, <2>3
<1>16. PICK store : store = [both EXCEPT !.events = l, !.loading = FALSE, !.out = <<>>]
  OBVIOUS
<1>17. /\ store \in Store /\ ~store.loading /\ store.out = <<>> /\ store.events = l
       /\ store.chg = both.chg /\ store.solar = both.solar
  BY <1>8, <1>15, <1>16, EmptySeq DEF Store
<1>18. Knows(store, d.chg)
  BY <1>7, <1>17 DEF Knows
<1>19. PICK table : table = [d EXCEPT !.events = opened]
  OBVIOUS
<1>20. table \in Disks /\ table.events = opened /\ table.chg = d.chg
  BY <1>1, <1>10, <1>19 DEF Disks
<1>21. s.store = store /\ s.disk = table
  BY <1>13, <1>16, <1>19
<1>22. \E x \in Event : ~OfSolar(x) /\ table.events = Append(d.events, x)
  BY <1>3, <1>9, <1>20
<1> QED BY <1>14, <1>17, <1>18, <1>20, <1>21, <1>22

(* A restart, whether or not readings were lost.                            *)
LEMMA RestartKeeps == LogInv /\ LogRestart => LogInv'
<1> SUFFICES ASSUME LogInv, LogRestart PROVE LogInv'
  OBVIOUS
<1>1. /\ logTime \in Int /\ lostSome \in BOOLEAN /\ disk \in Disks /\ log \in Store
      /\ disk.events \in Seq(Event) /\ disk.bms \in Seq(LogBatteries) /\ disk.chg \in Seq(LogChargers)
      /\ Knows(log, disk.chg) /\ Agrees(log, disk.events, lostSome) /\ log.out = <<>>
  BY DEF LogInv, Disks
<1>2. PICK kept \in {disk.chg} \union (IF disk.chg = <<>> THEN {} ELSE {Front(disk.chg)}) :
        LET s == Startup([disk EXCEPT !.chg = kept]) IN
        /\ log' = s.store /\ disk' = s.disk
        /\ lostSome' = (lostSome \/ kept # disk.chg)
  BY DEF LogRestart
<1>3. kept \in Seq(LogChargers)
  <2>1. disk.chg # <<>> => Front(disk.chg) \in Seq(LogChargers)
    <3>1. PICK l \in Nat : Len(disk.chg) = l
      BY <1>1, LenProperties
    <3>2. PICK m \in Int : m = l - 1
      OBVIOUS
    <3>3. \A i \in 1..m : disk.chg[i] \in LogChargers
      <4>1. \A i \in 1..m : i \in 1..l
        BY <3>2
      <4> QED BY <1>1, <3>1, <4>1, ElementOfSeq
    <3>4. SubSeq(disk.chg, 1, m) \in Seq(LogChargers)
      BY <3>3, SubSeqProperties
    <3> QED BY <3>1, <3>2, <3>4 DEF Front
  <2> QED BY <1>1, <2>1
<1>4. PICK d : d = [disk EXCEPT !.chg = kept]
  OBVIOUS
<1>5. d \in Disks /\ d.events = disk.events /\ d.chg = kept
  BY <1>1, <1>3, <1>4 DEF Disks
<1>6. PICK s : s = Startup(d)
  OBVIOUS
<1>7. log' = s.store /\ disk' = s.disk /\ lostSome' = (lostSome \/ kept # disk.chg)
  BY <1>2, <1>4, <1>6
<1>8. /\ s.store \in Store /\ ~s.store.loading /\ s.store.out = <<>> /\ Knows(s.store, d.chg)
      /\ s.disk \in Disks /\ s.disk.chg = d.chg
      /\ \E e \in Event : ~OfSolar(e) /\ s.disk.events = Append(d.events, e)
      /\ s.store.events = Trim(s.disk.events, MaxEvents)
  BY <1>1, <1>5, <1>6, Started
<1>9. /\ log' \in Store /\ ~log'.loading /\ log'.out = <<>> /\ Knows(log', disk'.chg)
      /\ disk' \in Disks /\ disk'.chg = kept /\ log'.events = Trim(disk'.events, MaxEvents)
  BY <1>5, <1>7, <1>8
<1>10. PICK e \in Event : ~OfSolar(e) /\ disk'.events = Append(disk.events, e)
  BY <1>5, <1>7, <1>8
<1>11. disk'.events \o log'.out = disk'.events
  <2>1. disk'.events \in Seq(Event)
    BY <1>9 DEF Disks
  <2> QED BY <1>9, <2>1, ConcatEmptySeq
<1>12. ~lostSome' => Turns(disk'.events, log'.solar)
  <2> SUFFICES ASSUME ~lostSome' PROVE Turns(disk'.events, log'.solar)
    OBVIOUS
  <2>1. ~lostSome /\ kept = disk.chg
    BY <1>7
  <2>2. log'.solar = log.solar
    BY <1>1, <1>9, <2>1 DEF Knows
  <2>3. PICK t \in Seq(Event) : t = disk.events
    BY <1>1
  <2>4. Turns(t, log.solar)
    <3>1. t \o <<>> = t
      BY ConcatEmptySeq
    <3> QED BY <1>1, <2>1, <2>3, <3>1 DEF Agrees
  <2>5. log.solar \in BOOLEAN
    BY <1>1 DEF Store
  <2>6. Turns(Append(t, e), log.solar)
    BY <1>10, <2>4, <2>5, TurnsOther
  <2> QED BY <1>10, <2>2, <2>3, <2>6
<1>13. Agrees(log', disk'.events, lostSome')
  BY <1>9, <1>11, <1>12 DEF Agrees
<1>14. logTime' \in Int /\ lostSome' \in BOOLEAN
  BY <1>1, <1>7 DEF LogRestart
<1> QED BY <1>9, <1>13, <1>14 DEF LogInv, Agrees, Knows

(* The invariant of every state of the log.                                 *)
LEMMA LogInvHolds == LogSpec => []LogInv
<1>1. LogInv /\ [LogNext]_logVars => LogInv'
  <2> SUFFICES ASSUME LogInv, [LogNext]_logVars PROVE LogInv'
    OBVIOUS
  <2>1. CASE LogReading
    BY <2>1, ReadingKeeps
  <2>2. CASE LogRestart
    BY <2>2, RestartKeeps
  <2>3. CASE UNCHANGED logVars
    BY <2>3 DEF logVars, LogInv, Agrees, Knows
  <2> QED BY <2>1, <2>2, <2>3 DEF LogNext
<1> QED BY <1>1, LogStarts, PTL DEF LogSpec

(* What the invariant says.                                                 *)
LEMMA LogIs ==
  ASSUME LogInv
  PROVE  SolarAlternates /\ LogTypeOK
<1>1. /\ disk.events \in Seq(Event) /\ log \in Store /\ Agrees(log, disk.events, lostSome)
      /\ log.out = <<>> /\ ~log.loading
  BY DEF LogInv, Disks
<1>2. disk.events \o log.out = disk.events
  BY <1>1, ConcatEmptySeq
<1>3. log.events = Trim(disk.events, MaxEvents) /\ (~lostSome => Turns(disk.events, log.solar))
  BY <1>1, <1>2 DEF Agrees
<1>4. SolarAlternates
  BY <1>3 DEF SolarAlternates, Turns
<1>5. Len(log.events) <= MaxEvents
  <2>0. PICK t \in Seq(Event) : t = disk.events
    BY <1>1
  <2>1. PICK n \in Nat : Len(t) = n
    BY LenProperties
  <2>2. PICK max \in Nat : max = MaxEvents
    BY LogAssumption
  <2>3. Len(Trim(t, max)) = IF n > max THEN max ELSE n
    BY <2>1, TrimSeq
  <2>4. log.events = Trim(t, max)
    BY <1>3, <2>0, <2>2
  <2> QED BY <2>2, <2>3, <2>4
<1>6. log.prevStage \in Stages4
  BY <1>1 DEF Store
<1> QED BY <1>1, <1>4, <1>5, <1>6 DEF LogTypeOK, Stages4

(* For any readings, in any order, and any number of restarts: detections   *)
(* and losses of solar input take turns in the table, the first being a     *)
(* detection, unless a restart lost readings that had been logged about;    *)
(* and memory lists the newest events of the table (push_system_event,      *)
(* load_history, load_system_events_from_db).                               *)
THEOREM SolarAlternatesHolds == LogSpec => []SolarAlternates
<1>1. LogInv => SolarAlternates
  BY LogIs
<1> QED BY <1>1, LogInvHolds, PTL

(* The list of events keeps its limit, and between two readings history is  *)
(* loaded and nothing is left unwritten.                                    *)
THEOREM LogTypes == LogSpec => []LogTypeOK
<1>1. LogInv => LogTypeOK
  BY LogIs
<1> QED BY <1>1, LogInvHolds, PTL

-----------------------------------------------------------------------------
(***** Readers *****)
(* For any buffer that holds a line and a half more, any number of          *)
(* notifications to a response, of prompts, losses, sessions and            *)
(* connections: a reading is one report.  WholeReadings is about what was   *)
(* put together; the invariant says what may stand in the buffers before a  *)
(* piece comes in.                                                          *)

HalfKinds == {"PS", "Bat", "TargetV", "TargetI"}
HalfLines == [kind : HalfKinds, n : Nat]
WirePieces == [kind : HalfKinds \union Prompts, n : Nat]

NextHalf(p) ==
  CASE p.kind = "PS" -> Piece("Bat", p.n)
    [] p.kind = "Bat" -> Piece("TargetV", p.n)
    [] p.kind = "TargetV" -> Piece("TargetI", p.n)
    [] OTHER -> Piece("PS", p.n + 1)

\* What can stand in the buffer before the half c comes in, when the session has
\* missed m pieces, and what may be kept of the status line meanwhile.
Standing(c, m, b) ==
  \/ b = <<>>
  \/ c.kind = "PS" /\ m = 1 /\ b = <<Piece("TargetV", c.n - 1)>>
  \/ c.kind = "Bat" /\ b = <<Piece("PS", c.n)>>
  \/ c.kind = "Bat" /\ m = 1 /\ b = <<Piece("TargetV", c.n - 1), Piece("PS", c.n)>>
  \/ c.kind = "TargetV" /\ m = 1 /\ b = <<Piece("PS", c.n)>>
  \/ c.kind = "TargetI" /\ b = <<Piece("TargetV", c.n)>>
  \/ c.kind = "TargetI" /\ m = 1 /\ b = <<Piece("PS", c.n), Piece("TargetV", c.n)>>

WholeStatus(p, n) == Field(p, "PS") = n /\ Field(p, "Bat") = n

KeptStatus(c, m, b, p) ==
  \/ p = <<>>
  \/ c.kind = "PS" /\ m = 1
  \/ c.kind \in {"Bat", "TargetV", "TargetI"} /\ m = 1 /\ Has(b, "PS")
  \/ c.kind = "TargetV" /\ WholeStatus(p, c.n)
  \/ c.kind = "TargetI" /\ (m = 1 \/ b # <<>>) /\ WholeStatus(p, c.n)

\* The half that will be sent next, and the one that will be read next.
Upcoming == Piece(Halves[gate.half], gate.n)
Coming == IF gate.wire # <<>> /\ gate.wire[1].kind \notin Prompts THEN gate.wire[1] ELSE Upcoming

\* On the line a half is followed by the next one; a prompt is the last, and waited for.
LineInv ==
  /\ gate.half \in 1..4 /\ gate.n \in Nat /\ gate.menu \in 0..MenuLength
  /\ gate.wire \in Seq(WirePieces)
  /\ \A i \in 1..Len(gate.wire) :
       IF gate.wire[i].kind \in Prompts
       THEN i = Len(gate.wire) /\ gate.menu > 0 /\ gate.waits = TRUE
       ELSE NextHalf(gate.wire[i]) = IF i < Len(gate.wire) /\ gate.wire[i + 1].kind \notin Prompts
                                  THEN gate.wire[i + 1] ELSE Upcoming

\* The buffer: halves, and a prompt after them that nothing follows.
BufferInv ==
  \E b :
    /\ Standing(Coming, serial.missed, b) /\ KeptStatus(Coming, serial.missed, b, serial.pending)
    /\ \/ serial.buf = b
       \/ /\ \E p \in WirePieces : p.kind \in Prompts /\ serial.buf = Append(b, p)
          /\ gate.wire = <<>> /\ gate.menu > 0 /\ gate.waits = TRUE

OneReport(r) == r.ps = r.bat /\ r.bat = r.targetV /\ r.targetV = r.targetI

ShapeInv ==
  /\ DOMAIN gate = {"n", "half", "wire", "menu", "waits", "answers", "sessions"}
  /\ DOMAIN serial = {"running", "buf", "pending", "asked", "last", "missed"}
  /\ serial.missed \in Nat /\ gate.half \in 1..4 /\ gate.n \in Nat

ChargerInv ==
  /\ ShapeInv
  /\ serial.missed <= 1 => LineInv /\ BufferInv /\ OneReport(serial.last)

-----------------------------------------------------------------------------
(* A key that stands in a line once is found there.                         *)
LEMMA FieldThere ==
  ASSUME NEW line, Len(line) \in Nat, DOMAIN line = 1..Len(line), NEW kind, NEW i \in 1..Len(line),
         line[i].kind = kind, \A j \in 1..Len(line) : line[j].kind = kind => j = i
  PROVE  Has(line, kind) /\ Field(line, kind) = line[i].n
<1>1. Has(line, kind)
  BY DEF Has
<1>2. \E k \in DOMAIN line : line[k].kind = kind /\ \A j \in 1..(k - 1) : line[j].kind # kind
  <2>1. \A j \in 1..(i - 1) : j \in 1..Len(line) /\ j # i
    OBVIOUS
  <2> QED BY <2>1
<1>3. Found(line, kind) \in DOMAIN line /\ line[Found(line, kind)].kind = kind
  BY <1>2 DEF Found
<1> QED BY <1>1, <1>3 DEF Field

(* Appending to short lines.                                                *)
LEMMA Appended ==
  ASSUME NEW x, NEW y, NEW z
  PROVE  Append(<<>>, x) = <<x>> /\ Append(<<x>>, y) = <<x, y>> /\ Append(<<x, y>>, z) = <<x, y, z>>
<1> DEFINE S == {x, y, z}
<1>1. Append(<<>>, x) = <<x>>
  OBVIOUS
<1>2. Append(<<x>>, y) = <<x, y>>
  <2>1. <<x>> \in Seq(S) /\ <<x, y>> \in Seq(S) /\ Len(<<x>>) = 1 /\ Len(<<x, y>>) = 2
        /\ y \in S
    OBVIOUS
  <2>2. Append(<<x>>, y) \in Seq(S) /\ Len(Append(<<x>>, y)) = 2
        /\ Append(<<x>>, y)[1] = x /\ Append(<<x>>, y)[2] = y
    BY <2>1, AppendProperties
  <2>3. \A i \in 1..2 : Append(<<x>>, y)[i] = <<x, y>>[i]
    BY <2>2
  <2> QED BY <2>1, <2>2, <2>3, SeqEqual
<1>3. Append(<<x, y>>, z) = <<x, y, z>>
  <2>1. <<x, y>> \in Seq(S) /\ <<x, y, z>> \in Seq(S) /\ Len(<<x, y>>) = 2 /\ Len(<<x, y, z>>) = 3
        /\ z \in S
    OBVIOUS
  <2>2. Append(<<x, y>>, z) \in Seq(S) /\ Len(Append(<<x, y>>, z)) = 3
        /\ Append(<<x, y>>, z)[1] = x /\ Append(<<x, y>>, z)[2] = y /\ Append(<<x, y>>, z)[3] = z
    BY <2>1, AppendProperties
  <2>3. \A i \in 1..3 : Append(<<x, y>>, z)[i] = <<x, y, z>>[i]
    BY <2>2
  <2> QED BY <2>1, <2>2, <2>3, SeqEqual
<1> QED BY <1>1, <1>2, <1>3

(* Lines of up to three pieces: the keys in them, and what they say.        *)
LEMMA NoKeys == \A k : ~Has(<<>>, k)
  BY DEF Has
(* ... of one piece,                                                        *)
LEMMA OneKey == \A x, k : Has(<<x>>, k) <=> x.kind = k
  BY DEF Has
(* of two,                                                                  *)
LEMMA TwoKeys == \A x, y, k : Has(<<x, y>>, k) <=> x.kind = k \/ y.kind = k
  BY DEF Has
(* and of three.                                                            *)
LEMMA ThreeKeys == \A x, y, z, k : Has(<<x, y, z>>, k) <=> x.kind = k \/ y.kind = k \/ z.kind = k
  BY DEF Has

(* Two different keys of a line of two.                                     *)
LEMMA TwoFields ==
  ASSUME NEW x, NEW y, x.kind # y.kind
  PROVE  Field(<<x, y>>, x.kind) = x.n /\ Field(<<x, y>>, y.kind) = y.n
<1> DEFINE line == <<x, y>>
<1>1. DOMAIN line = 1..Len(line) /\ Len(line) = 2 /\ line[1] = x /\ line[2] = y
  OBVIOUS
<1> HIDE DEF line
<1>2. \A j \in 1..Len(line) : j = 1 \/ j = 2
  BY <1>1
<1>3. Field(line, x.kind) = line[1].n
  <2>1. 1 \in 1..Len(line) /\ Len(line) \in Nat /\ line[1].kind = x.kind
    BY <1>1
  <2>2. \A j \in 1..Len(line) : line[j].kind = x.kind => j = 1
    BY <1>1, <1>2
  <2> QED BY <1>1, <2>1, <2>2, FieldThere
<1>4. Field(line, y.kind) = line[2].n
  <2>1. 2 \in 1..Len(line) /\ Len(line) \in Nat /\ line[2].kind = y.kind
    BY <1>1
  <2>2. \A j \in 1..Len(line) : line[j].kind = y.kind => j = 2
    BY <1>1, <1>2
  <2> QED BY <1>1, <2>1, <2>2, FieldThere
<1> QED BY <1>1, <1>3, <1>4 DEF line

(* The last two of three.                                                   *)
LEMMA ThreeFields ==
  ASSUME NEW x, NEW y, NEW z, x.kind # y.kind, y.kind # z.kind, z.kind # x.kind
  PROVE  Field(<<x, y, z>>, y.kind) = y.n /\ Field(<<x, y, z>>, z.kind) = z.n
<1> DEFINE line == <<x, y, z>>
<1>1. DOMAIN line = 1..Len(line) /\ Len(line) = 3 /\ line[1] = x /\ line[2] = y /\ line[3] = z
  OBVIOUS
<1> HIDE DEF line
<1>2. \A j \in 1..Len(line) : j = 1 \/ j = 2 \/ j = 3
  BY <1>1
<1>3. /\ \A j \in 1..Len(line) : line[j].kind = y.kind => j = 2
      /\ \A j \in 1..Len(line) : line[j].kind = z.kind => j = 3
      /\ 2 \in 1..Len(line) /\ 3 \in 1..Len(line) /\ Len(line) \in Nat
  BY <1>1, <1>2
<1>4. Field(line, y.kind) = line[2].n
  BY <1>1, <1>3, FieldThere
<1>5. Field(line, z.kind) = line[3].n
  BY <1>1, <1>3, FieldThere
<1> QED BY <1>1, <1>4, <1>5 DEF line

-----------------------------------------------------------------------------
(* What the buffer and the kept line may be, and how that goes on: a half   *)
(* is lost, or read; a line is complete, or cut by a prompt.                *)
LEMMA HalfAfter ==
  ASSUME NEW c \in HalfLines
  PROVE  /\ NextHalf(c) \in HalfLines /\ c.n \in Nat
         /\ c.kind = "PS" => NextHalf(c).kind = "Bat" /\ NextHalf(c).n = c.n
         /\ c.kind = "Bat" => NextHalf(c).kind = "TargetV" /\ NextHalf(c).n = c.n
         /\ c.kind = "TargetV" => NextHalf(c).kind = "TargetI" /\ NextHalf(c).n = c.n
         /\ c.kind = "TargetI" => NextHalf(c).kind = "PS" /\ NextHalf(c).n = c.n + 1
         /\ c.kind \in HalfKinds /\ c = Piece(c.kind, c.n)
  BY DEF HalfLines, HalfKinds, NextHalf, Piece

(* The half is lost, or the prompt before it, or what a prompt has cut off: *)
(* what was kept is as good as if the session had missed one before.        *)
LEMMA MissOne ==
  ASSUME NEW c \in HalfLines, NEW p, NEW b, Standing(c, 0, b), KeptStatus(c, 0, b, p)
  PROVE  /\ Standing(c, 1, b) /\ KeptStatus(c, 1, b, p) /\ KeptStatus(c, 1, <<>>, p)
         /\ Standing(NextHalf(c), 1, b) /\ KeptStatus(NextHalf(c), 1, b, p)
<1>1. Standing(c, 1, b)
  BY DEF Standing
<1>2. KeptStatus(c, 1, b, p)
  BY DEF KeptStatus
<1>5. KeptStatus(c, 1, <<>>, p)
  BY DEF KeptStatus
<1>3. Standing(NextHalf(c), 1, b)
  BY HalfAfter DEF Standing, HalfKinds
<1>4. KeptStatus(NextHalf(c), 1, b, p)
  BY HalfAfter, NoKeys, OneKey, TwoKeys, ThreeKeys DEF KeptStatus, Standing, HalfKinds, Piece
<1> QED BY <1>1, <1>2, <1>3, <1>4, <1>5

(* A first half goes into the buffer, and what is kept goes with the        *)
(* second.                                                                  *)
LEMMA HalfRead ==
  ASSUME NEW c \in HalfLines, ~EndsLine(c), NEW m \in {0, 1}, NEW p, NEW b, Standing(c, m, b),
         KeptStatus(c, m, b, p)
  PROVE  Standing(NextHalf(c), m, Append(b, c)) /\ KeptStatus(NextHalf(c), m, Append(b, c), p)
<1>1. c.kind = "PS" \/ c.kind = "TargetV"
  BY DEF HalfLines, HalfKinds, EndsLine
<1>2. CASE c.kind = "PS"
  <2> DEFINE old == Piece("TargetV", c.n - 1)
  <2>1. b = <<>> \/ (m = 1 /\ b = <<old>>)
    BY <1>2 DEF Standing
  <2>2. Append(b, c) = <<c>> \/ (m = 1 /\ Append(b, c) = <<old, c>>)
    <3> HIDE DEF old
    <3> QED BY <2>1, Appended
  <2>3. Has(Append(b, c), "PS")
    <3> HIDE DEF old
    <3>1. CASE Append(b, c) = <<c>>
      BY <1>2, <3>1, OneKey
    <3>2. CASE Append(b, c) = <<old, c>>
      BY <1>2, <3>2, TwoKeys
    <3> QED BY <2>2, <3>1, <3>2
  <2>4. Standing(NextHalf(c), m, Append(b, c))
    BY <1>2, <2>2, HalfAfter DEF Standing
  <2>5. p = <<>> \/ m = 1
    BY <1>2 DEF KeptStatus
  <2> QED BY <1>2, <2>3, <2>4, <2>5, HalfAfter DEF KeptStatus
<1>3. CASE c.kind = "TargetV"
  <2> DEFINE ps == Piece("PS", c.n)
  <2>1. b = <<>> \/ (m = 1 /\ b = <<ps>>)
    BY <1>3 DEF Standing
  <2>2. Append(b, c) = <<c>> \/ (m = 1 /\ Append(b, c) = <<ps, c>>)
    <3> HIDE DEF ps
    <3> QED BY <2>1, Appended
  <2>3. Standing(NextHalf(c), m, Append(b, c))
    BY <1>3, <2>2, HalfAfter DEF Standing
  <2>4. ASSUME b = <<ps>> PROVE Has(Append(b, c), "PS")
    <3>1. ps.kind = "PS"
      BY DEF Piece
    <3> HIDE DEF ps
    <3>2. Append(b, c) = <<ps, c>>
      BY <2>4, Appended
    <3> QED BY <3>1, <3>2, TwoKeys
  <2>5. Append(b, c) # <<>>
    BY <2>2
  <2>6. p = <<>> \/ (m = 1 /\ b = <<ps>>) \/ WholeStatus(p, c.n)
    BY <1>3, <2>1, NoKeys, OneKey, TwoKeys, ThreeKeys DEF KeptStatus
  <2> QED BY <1>3, <2>3, <2>4, <2>5, <2>6, HalfAfter DEF KeptStatus
<1> QED BY <1>1, <1>2, <1>3

(* A line is complete: it is kept, it makes a reading with the kept one,    *)
(* which is of the same report, or it is dropped.                           *)
LEMMA LineRead ==
  ASSUME NEW c \in HalfLines, EndsLine(c), NEW m \in {0, 1}, NEW p, NEW b, Standing(c, m, b),
         KeptStatus(c, m, b, p), NEW line, line = Append(b, c)
  PROVE  /\ Has(line, "PS") => KeptStatus(NextHalf(c), m, <<>>, line)
         /\ ~Has(line, "PS") /\ p # <<>> /\ Has(line, "TargetV") => OneReport(Reading(p, line))
         /\ ~Has(line, "PS") /\ ~(p # <<>> /\ Has(line, "TargetV")) => KeptStatus(NextHalf(c), m, <<>>, p)
<1> DEFINE ps == Piece("PS", c.n)  target == Piece("TargetV", c.n)  old == Piece("TargetV", c.n - 1)
<1>1. ps.kind = "PS" /\ ps.n = c.n /\ target.kind = "TargetV" /\ target.n = c.n /\ old.kind = "TargetV"
  BY DEF Piece
<1>2. CASE c.kind = "Bat"
  <2>1. b = <<>> \/ b = <<ps>> \/ (m = 1 /\ b = <<old, ps>>)
    BY <1>2 DEF Standing
  <2> HIDE DEF ps, target, old
  <2>2. CASE b = <<>>
    <3>1. line = <<c>>
      BY <2>2, Appended
    <3>2. ~Has(line, "PS") /\ ~Has(line, "TargetV") /\ ~Has(b, "PS")
      BY <1>2, <2>2, <3>1, NoKeys, OneKey
    <3>3. p = <<>>
      BY <1>2, <3>2 DEF KeptStatus
    <3> QED BY <3>2, <3>3 DEF KeptStatus
  <2>3. CASE b = <<ps>>
    <3>1. line = <<ps, c>>
      BY <2>3, Appended
    <3>2. Has(line, "PS")
      BY <1>1, <3>1, TwoKeys
    <3>3. WholeStatus(line, c.n)
      BY <1>1, <1>2, <3>1, TwoFields DEF WholeStatus
    <3> QED BY <1>2, <3>2, <3>3, HalfAfter DEF KeptStatus
  <2>4. CASE m = 1 /\ b = <<old, ps>>
    <3>1. line = <<old, ps, c>>
      BY <2>4, Appended
    <3>2. Has(line, "PS")
      BY <1>1, <3>1, ThreeKeys
    <3>3. WholeStatus(line, c.n)
      BY <1>1, <1>2, <3>1, ThreeFields DEF WholeStatus
    <3> QED BY <1>2, <3>2, <3>3, HalfAfter DEF KeptStatus
  <2> QED BY <2>1, <2>2, <2>3, <2>4
<1>3. CASE c.kind = "TargetI"
  <2>1. b = <<>> \/ b = <<target>> \/ (m = 1 /\ b = <<ps, target>>)
    BY <1>3 DEF Standing
  <2> HIDE DEF ps, target, old
  <2>2. CASE b = <<>>
    <3>1. line = <<c>>
      BY <2>2, Appended
    <3>2. ~Has(line, "PS") /\ ~Has(line, "TargetV") /\ ~Has(b, "PS")
      BY <1>3, <2>2, <3>1, NoKeys, OneKey
    <3>3. p = <<>> \/ m = 1
      BY <1>3, <2>2, <3>2 DEF KeptStatus
    <3> QED BY <1>3, <3>2, <3>3, HalfAfter DEF KeptStatus
  <2>3. CASE b = <<target>>
    <3>1. line = <<target, c>>
      BY <2>3, Appended
    <3>2. ~Has(line, "PS") /\ Has(line, "TargetV") /\ ~Has(b, "PS")
      BY <1>1, <1>3, <2>3, <3>1, OneKey, TwoKeys
    <3>3. p = <<>> \/ WholeStatus(p, c.n)
      BY <1>3, <3>2 DEF KeptStatus
    <3>4. Field(line, "TargetV") = c.n /\ Field(line, "TargetI") = c.n
      BY <1>1, <1>3, <3>1, TwoFields
    <3>5. p # <<>> => OneReport(Reading(p, line))
      BY <3>3, <3>4 DEF WholeStatus, Reading, OneReport
    <3> QED BY <3>2, <3>5 DEF KeptStatus
  <2>4. CASE m = 1 /\ b = <<ps, target>>
    <3>1. line = <<ps, target, c>>
      BY <2>4, Appended
    <3>2. Has(line, "PS")
      BY <1>1, <3>1, ThreeKeys
    <3> QED BY <1>3, <2>4, <3>2, HalfAfter DEF KeptStatus
  <2> QED BY <2>1, <2>2, <2>3, <2>4
<1> QED BY <1>2, <1>3 DEF HalfLines, HalfKinds, EndsLine, Prompts
-----------------------------------------------------------------------------
(* What will be sent, and what will be read, are halves.                    *)
LEMMA NextUp ==
  ASSUME LineInv
  PROVE  /\ Upcoming \in HalfLines /\ Coming \in HalfLines
         /\ Upcoming.kind = Halves[gate.half] /\ Upcoming.n = gate.n
<1>1. Halves[gate.half] \in HalfKinds /\ gate.n \in Nat
  BY DEF LineInv, Halves, HalfKinds
<1>2. Upcoming \in HalfLines /\ Upcoming.kind = Halves[gate.half] /\ Upcoming.n = gate.n
  BY <1>1 DEF Upcoming, Piece, HalfLines
<1>3. ASSUME gate.wire # <<>>, gate.wire[1].kind \notin Prompts PROVE gate.wire[1] \in HalfLines
  <2>1. gate.wire[1] \in WirePieces
    BY <1>3, ElementOfSeq, EmptySeq, LenProperties DEF LineInv
  <2> QED BY <1>3, <2>1 DEF WirePieces, HalfLines
<1> QED BY <1>2, <1>3 DEF Coming

(* A half is sent, which everybody has been waiting for.                    *)
LEMMA PieceSent ==
  ASSUME LineInv, gate.menu = 0, gate' = [gate EXCEPT
           !.wire = Append(@, Piece(Halves[gate.half], gate.n)),
           !.half = (@ % 4) + 1, !.n = IF gate.half = 4 THEN @ + 1 ELSE @],
         DOMAIN gate = {"n", "half", "wire", "menu", "waits", "answers", "sessions"}
  PROVE  LineInv' /\ Coming' = Coming
<1> DEFINE w == gate.wire  piece == Upcoming  new == Append(w, piece)
<1>1. /\ gate'.wire = new /\ gate'.half = (gate.half % 4) + 1 /\ gate'.menu = 0
      /\ gate'.n = IF gate.half = 4 THEN gate.n + 1 ELSE gate.n
  BY DEF Upcoming
<1>2. gate'.half \in 1..4 /\ gate'.n \in Nat /\ gate'.menu \in 0..MenuLength
  <2>1. gate.half \in 1..4 /\ gate.n \in Nat
    BY DEF LineInv
  <2>2. (gate.half % 4) + 1 \in 1..4
    BY <2>1
  <2>3. 0 \in 0..MenuLength
    BY ReadersAssumption
  <2> QED BY <1>1, <2>1, <2>2, <2>3
<1>3. Upcoming' = NextHalf(piece)
  <2>1. Upcoming' = Piece(Halves[gate'.half], gate'.n)
    BY DEF Upcoming
  <2>2. \/ gate.half = 1 /\ piece.kind = "PS" /\ Halves[gate'.half] = "Bat" /\ gate'.n = piece.n
        \/ gate.half = 2 /\ piece.kind = "Bat" /\ Halves[gate'.half] = "TargetV" /\ gate'.n = piece.n
        \/ gate.half = 3 /\ piece.kind = "TargetV" /\ Halves[gate'.half] = "TargetI" /\ gate'.n = piece.n
        \/ gate.half = 4 /\ piece.kind = "TargetI" /\ Halves[gate'.half] = "PS" /\ gate'.n = piece.n + 1
    <3>1. gate.half \in 1..4 /\ piece.kind = Halves[gate.half] /\ piece.n = gate.n
      BY NextUp DEF LineInv
    <3>2. /\ gate.half = 1 => gate'.half = 2 /\ gate'.n = gate.n
          /\ gate.half = 2 => gate'.half = 3 /\ gate'.n = gate.n
          /\ gate.half = 3 => gate'.half = 4 /\ gate'.n = gate.n
          /\ gate.half = 4 => gate'.half = 1 /\ gate'.n = gate.n + 1
      BY <1>1
    <3>3. gate.half = 1 \/ gate.half = 2 \/ gate.half = 3 \/ gate.half = 4
      BY <3>1
    <3>4. Halves[1] = "PS" /\ Halves[2] = "Bat" /\ Halves[3] = "TargetV" /\ Halves[4] = "TargetI"
      BY DEF Halves
    <3> HIDE DEF piece, new
    <3> QED BY <3>1, <3>2, <3>3, <3>4
  <2> HIDE DEF piece, new
  <2> QED BY <2>1, <2>2 DEF NextHalf
<1>4. piece \in WirePieces /\ piece.kind \notin Prompts
  BY NextUp DEF WirePieces, HalfLines, HalfKinds, Prompts
<1>5. /\ new \in Seq(WirePieces) /\ Len(new) = Len(w) + 1 /\ Len(w) \in Nat /\ new # <<>>
      /\ \A i \in 1..Len(w) : new[i] = w[i]
      /\ new[Len(w) + 1] = piece
  BY <1>4, AppendProperties, LenProperties DEF LineInv
<1>6. \A i \in 1..Len(w) : /\ w[i].kind \notin Prompts
                           /\ NextHalf(w[i]) = IF i < Len(w) THEN w[i + 1] ELSE piece
  <2>1. \A i \in 1..Len(w) : w[i].kind \notin Prompts
    BY DEF LineInv
  <2> QED BY <2>1, <1>5 DEF LineInv
<1> HIDE DEF w, piece, new
<1>7. ASSUME NEW i \in 1..Len(new)
      PROVE  /\ new[i].kind \notin Prompts
             /\ NextHalf(new[i]) = IF i < Len(new) /\ new[i + 1].kind \notin Prompts
                                THEN new[i + 1] ELSE Upcoming'
  <2>1. CASE i = Len(w) + 1
    BY <1>3, <1>4, <1>5, <2>1
  <2>2. CASE i # Len(w) + 1
    <3>1. i \in 1..Len(w) /\ i + 1 \in 1..Len(new)
      BY <1>5, <2>2
    <3>2. i = Len(w) => new[i + 1] = piece
      BY <1>5
    <3>3. i < Len(w) => new[i + 1] = w[i + 1] /\ w[i + 1].kind \notin Prompts
      BY <1>5, <1>6, <3>1
    <3> QED BY <1>4, <1>5, <1>6, <3>1, <3>2, <3>3
  <2> QED BY <2>1, <2>2
<1>8. LineInv'
  BY <1>1, <1>2, <1>5, <1>7 DEF LineInv
<1>9. Coming' = new[1]
  <2>1. 1 \in 1..Len(new)
    BY <1>5
  <2> QED BY <1>1, <1>5, <1>7, <2>1 DEF Coming
<1>10. Coming = new[1]
  <2>1. CASE w = <<>>
    BY <1>5, <2>1 DEF Coming, w, piece
  <2>2. CASE w # <<>>
    <3>1. 1 \in 1..Len(w)
      BY <1>5, <2>2, EmptySeq, LenProperties DEF LineInv, w
    <3> QED BY <1>5, <1>6, <2>2, <3>1 DEF Coming, w
  <2> QED BY <2>1, <2>2
<1> QED BY <1>8, <1>9, <1>10

(* The line with its first piece gone.                                      *)
LEMMA Gone ==
  ASSUME LineInv, gate.wire # <<>>, gate'.wire = Tail(gate.wire), gate'.half = gate.half,
         gate'.n = gate.n, gate'.menu \in 0..MenuLength,
         gate.wire[1].kind \notin Prompts => 
           gate'.menu >= gate.menu /\ (gate.waits = TRUE => gate'.waits = TRUE)
  PROVE  /\ LineInv'
         /\ gate.wire[1].kind \in Prompts =>
              Coming' = Coming /\ gate'.wire = <<>> /\ gate.menu > 0 /\ gate.waits = TRUE
         /\ gate.wire[1].kind \notin Prompts => Coming = gate.wire[1] /\ Coming' = NextHalf(Coming)
         /\ gate.wire[1] \in WirePieces
<1> DEFINE w == gate.wire  new == Tail(w)
<1>1. /\ new \in Seq(WirePieces) /\ Len(new) = Len(w) - 1 /\ Len(w) \in Nat \ {0}
      /\ \A i \in 1..Len(new) : new[i] = w[i + 1]
      /\ w[1] \in WirePieces
  BY HeadTailProperties, LenProperties, EmptySeq, ElementOfSeq DEF LineInv
<1>2. Upcoming' = Upcoming
  BY DEF Upcoming
<1>3. \A i \in 1..Len(w) :
        IF w[i].kind \in Prompts THEN i = Len(w) /\ gate.menu > 0 /\ gate.waits = TRUE
        ELSE NextHalf(w[i]) = IF i < Len(w) /\ w[i + 1].kind \notin Prompts THEN w[i + 1] ELSE Upcoming
  BY DEF LineInv
<1> HIDE DEF w, new
<1>4. CASE w[1].kind \in Prompts
  <2>1. Len(w) = 1 /\ gate.menu > 0 /\ gate.waits = TRUE
    BY <1>1, <1>3, <1>4
  <2>2. new = <<>> /\ Len(new) = 0
    BY <1>1, <2>1, EmptySeq, LenProperties
  <2>3. LineInv'
    BY <1>1, <2>2 DEF LineInv, new, w
  <2> QED BY <1>1, <1>2, <1>4, <2>1, <2>2, <2>3 DEF Coming, new, w
<1>5. CASE w[1].kind \notin Prompts
  <2>1. /\ gate'.menu >= gate.menu /\ (gate.waits = TRUE => gate'.waits = TRUE)
        /\ gate.menu \in Nat /\ gate'.menu \in Nat
    BY <1>5, ReadersAssumption DEF w, LineInv
  <2>2. ASSUME NEW i \in 1..Len(new)
        PROVE  IF new[i].kind \in Prompts
               THEN i = Len(new) /\ gate'.menu > 0 /\ gate'.waits = TRUE
               ELSE NextHalf(new[i]) = IF i < Len(new) /\ new[i + 1].kind \notin Prompts
                                    THEN new[i + 1] ELSE Upcoming
    <3>1. i + 1 \in 1..Len(w) /\ new[i] = w[i + 1] /\ (i < Len(new) => new[i + 1] = w[(i + 1) + 1])
      BY <1>1
    <3>2. i < Len(new) <=> i + 1 < Len(w)
      BY <1>1
    <3>3. i = Len(new) <=> i + 1 = Len(w)
      BY <1>1
    <3> DEFINE k == i + 1
    <3>4. k \in 1..Len(w) /\ new[i] = w[k] /\ (i < Len(new) => new[i + 1] = w[k + 1])
          /\ (i < Len(new) <=> k < Len(w)) /\ (i = Len(new) <=> k = Len(w))
      BY <3>1, <3>2, <3>3
    <3> HIDE DEF k
    <3> QED BY <1>3, <2>1, <3>4
  <2>3. LineInv'
    BY <1>1, <1>2, <2>2 DEF LineInv, new, w
  <2>4. Coming = w[1]
    BY <1>5 DEF Coming, w
  <2>5. NextHalf(w[1]) = IF 1 < Len(w) /\ w[2].kind \notin Prompts THEN w[2] ELSE Upcoming
    BY <1>1, <1>3, <1>5
  <2>6. new # <<>> <=> 1 < Len(w)
    BY <1>1, EmptySeq, LenProperties
  <2>7. 1 < Len(w) => new[1] = w[2]
    BY <1>1
  <2>8. Coming' = NextHalf(w[1])
    BY <1>2, <2>5, <2>6, <2>7 DEF Coming, new, w
  <2> QED BY <1>1, <1>5, <2>3, <2>4, <2>8 DEF w
<1> QED BY <1>4, <1>5 DEF w

-----------------------------------------------------------------------------
(* The prompt at the end of a line.                                         *)
LEMMA LastOne ==
  ASSUME NEW S, NEW s \in Seq(S), NEW x \in S
  PROVE  Last(Append(s, x)) = x /\ Append(s, x) # <<>>
  BY AppendProperties, LenProperties DEF Last

(* Only a line that ends with a prompt has a response.                      *)
LEMMA Response ==
  ASSUME NEW line
  PROVE  prompt_response(line) # "none" <=> line # <<>> /\ Last(line).kind \in Prompts
  BY DEF prompt_response

(* There are no more than two halves in the buffer.                         *)
LEMMA Short ==
  ASSUME NEW c \in HalfLines, NEW m, NEW b, Standing(c, m, b)
  PROVE  /\ b \in Seq([kind : HalfKinds, n : Int]) /\ Len(b) \in {0, 1, 2}
         /\ b # <<>> => \E i \in DOMAIN b : b[i].kind \notin Prompts
<1> DEFINE H == [kind : HalfKinds, n : Int]
           G == /\ b \in Seq(H) /\ Len(b) \in {0, 1, 2}
                /\ b # <<>> => \E i \in DOMAIN b : b[i].kind \notin Prompts
<1>1. c.n \in Nat
  BY DEF HalfLines
<1>2. Piece("TargetV", c.n - 1) \in H /\ Piece("TargetV", c.n) \in H /\ Piece("PS", c.n) \in H
  BY <1>1 DEF Piece, HalfKinds
<1>3. \A x \in H : x.kind \notin Prompts
  BY DEF HalfKinds, Prompts
<1>4. \/ b = <<>>
      \/ \E x \in H : b = <<x>>
      \/ \E x, y \in H : b = <<x, y>>
  BY <1>2 DEF Standing
<1> HIDE DEF H
<1>5. b = <<>> => G
  OBVIOUS
<1>6. ASSUME NEW x \in H, b = <<x>> PROVE G
  <2>1. b \in Seq(H) /\ Len(b) = 1 /\ 1 \in DOMAIN b /\ b[1].kind \notin Prompts
    BY <1>3, <1>6
  <2> QED BY <2>1
<1>7. ASSUME NEW x \in H, NEW y \in H, b = <<x, y>> PROVE G
  <2>1. b \in Seq(H) /\ Len(b) = 2 /\ 1 \in DOMAIN b /\ b[1].kind \notin Prompts
    BY <1>3, <1>7
  <2> QED BY <2>1
<1>8. G
  <2> HIDE DEF G
  <2> QED BY <1>4, <1>5, <1>6, <1>7
<1> QED BY <1>8 DEF H
-----------------------------------------------------------------------------
\* How a line that is handled changes the records, and what it leaves alone.
HalfIn(line) == \E i \in DOMAIN line : line[i].kind \notin Prompts

(* ... by answering a prompt,                                               *)
LEMMA AnsweredPrompt ==
  ASSUME ShapeInv, NEW line, serial' = Answered(line)
  PROVE  /\ ShapeInv' <=> DOMAIN gate' = DOMAIN gate /\ gate'.half \in 1..4 /\ gate'.n \in Nat
         /\ serial'.buf = <<>> /\ serial'.pending = serial.pending /\ serial'.last = serial.last
         /\ serial'.missed = IF HalfIn(line) THEN serial.missed + 1 ELSE serial.missed
<1>1. /\ serial'.buf = <<>> /\ serial'.pending = serial.pending /\ serial'.last = serial.last
      /\ DOMAIN serial' = DOMAIN serial
      /\ serial'.missed = IF HalfIn(line) THEN serial.missed + 1 ELSE serial.missed
  BY DEF Answered, HalfIn, ShapeInv
<1>2. serial'.missed \in Nat
  BY <1>1 DEF ShapeInv
<1> QED BY <1>1, <1>2 DEF ShapeInv

(* ... at the other end,                                                    *)
LEMMA HeardPrompt ==
  ASSUME ShapeInv, NEW g, DOMAIN g = DOMAIN gate, NEW r, r # "none", gate' = Heard(r, g)
  PROVE  /\ DOMAIN gate' = DOMAIN gate
         /\ gate'.wire = g.wire /\ gate'.half = g.half /\ gate'.n = g.n
         /\ gate'.menu = IF g.menu > 0 THEN g.menu - 1 ELSE 0
  BY DEF Heard, ShapeInv

(* ... when the line is a prompt,                                           *)
LEMMA PromptHandled ==
  ASSUME ShapeInv, NEW line, NEW low, prompt_response(line) # "none", HandleLine(line, low)
  PROVE  /\ serial' = Answered(line) /\ DOMAIN gate' = DOMAIN gate
         /\ gate'.wire = Tail(gate.wire) /\ gate'.half = gate.half /\ gate'.n = gate.n
         /\ gate'.menu = IF gate.menu > 0 THEN gate.menu - 1 ELSE 0
<1> DEFINE read == [gate EXCEPT !.wire = Tail(@)]
<1>1. serial' = Answered(line) /\ gate' = Heard(prompt_response(line), read)
  BY DEF HandleLine
<1>2. /\ DOMAIN read = DOMAIN gate /\ read.wire = Tail(gate.wire) /\ read.half = gate.half
      /\ read.n = gate.n /\ read.menu = gate.menu
  BY DEF ShapeInv
<1> HIDE DEF read
<1> QED BY <1>1, <1>2, HeardPrompt

(* and when it is not.                                                      *)
LEMMA LineHandled ==
  ASSUME ShapeInv, NEW line, NEW low, prompt_response(line) = "none", HandleLine(line, low)
  PROVE  /\ ShapeInv' /\ serial'.missed = serial.missed /\ serial'.buf = <<>>
         /\ gate'.wire = Tail(gate.wire) /\ gate'.half = gate.half /\ gate'.n = gate.n
         /\ gate'.waits = gate.waits /\ gate'.menu \in {gate.menu, MenuLength}
         /\ \/ Has(line, "PS") /\ serial'.pending = line /\ serial'.last = serial.last
            \/ /\ ~Has(line, "PS") /\ serial.pending # <<>> /\ Has(line, "TargetV")
               /\ serial'.pending = <<>> /\ serial'.last = Reading(serial.pending, line)
            \/ /\ ~Has(line, "PS") /\ ~(serial.pending # <<>> /\ Has(line, "TargetV"))
               /\ serial'.pending = serial.pending /\ serial'.last = serial.last
<1> DEFINE read == [gate EXCEPT !.wire = Tail(@)]
           empty == [serial EXCEPT !.buf = <<>>]
           again == [read EXCEPT !.menu = IF low /\ ~serial.asked THEN MenuLength ELSE @]
<1>1. /\ DOMAIN read = DOMAIN gate /\ read.wire = Tail(gate.wire) /\ read.half = gate.half
      /\ read.n = gate.n /\ read.menu = gate.menu /\ read.waits = gate.waits
  BY DEF ShapeInv
<1>2. /\ DOMAIN empty = DOMAIN serial /\ empty.buf = <<>> /\ empty.missed = serial.missed
      /\ empty.pending = serial.pending /\ empty.last = serial.last
  BY DEF ShapeInv
<1>3. /\ DOMAIN again = DOMAIN gate /\ again.wire = Tail(gate.wire) /\ again.half = gate.half
      /\ again.n = gate.n /\ again.menu \in {gate.menu, MenuLength} /\ again.waits = gate.waits
  <2> HIDE DEF read
  <2> QED BY <1>1 DEF ShapeInv
<1>4. \/ Has(line, "PS") /\ serial' = [empty EXCEPT !.pending = line] /\ gate' = read
      \/ /\ ~Has(line, "PS") /\ serial.pending # <<>> /\ Has(line, "TargetV")
         /\ serial' = [empty EXCEPT !.pending = <<>>, !.last = Reading(serial.pending, line),
                                    !.asked = @ \/ low]
         /\ gate' = again
      \/ /\ ~Has(line, "PS") /\ ~(serial.pending # <<>> /\ Has(line, "TargetV"))
         /\ serial' = empty /\ gate' = read
  BY DEF HandleLine
<1> HIDE DEF read, empty, again
<1>5. CASE Has(line, "PS") /\ serial' = [empty EXCEPT !.pending = line] /\ gate' = read
  BY <1>1, <1>2, <1>5 DEF ShapeInv
<1>6. CASE /\ ~Has(line, "PS") /\ serial.pending # <<>> /\ Has(line, "TargetV")
           /\ serial' = [empty EXCEPT !.pending = <<>>, !.last = Reading(serial.pending, line),
                                      !.asked = @ \/ low]
           /\ gate' = again
  <2>1. /\ DOMAIN serial' = DOMAIN serial /\ serial'.pending = <<>> /\ serial'.buf = <<>>
        /\ serial'.last = Reading(serial.pending, line) /\ serial'.missed = serial.missed
    BY <1>2, <1>6 DEF ShapeInv
  <2> QED BY <1>3, <1>6, <2>1 DEF ShapeInv
<1>7. CASE /\ ~Has(line, "PS") /\ ~(serial.pending # <<>> /\ Has(line, "TargetV"))
           /\ serial' = empty /\ gate' = read
  BY <1>1, <1>2, <1>7 DEF ShapeInv
<1> QED BY <1>4, <1>5, <1>6, <1>7

-----------------------------------------------------------------------------
\* The halves in the buffer, and the kept line, go with the half that comes in.
Fits(b) == Standing(Coming, serial.missed, b) /\ KeptStatus(Coming, serial.missed, b, serial.pending)

(* A prompt that is answered takes away what stood before it: nothing, or a *)
(* half that counts as missed.                                              *)
LEMMA CutStep ==
  ASSUME ChargerInv, serial.missed <= 1, NEW b, Fits(b), LineInv', Coming' = Coming,
         serial'.buf = <<>>, serial'.pending = serial.pending, serial'.last = serial.last,
         serial'.missed = IF b # <<>> THEN serial.missed + 1 ELSE serial.missed, ShapeInv'
  PROVE  ChargerInv'
<1> DEFINE c == Coming  m == serial.missed  p == serial.pending
<1>1. c \in HalfLines /\ m \in {0, 1} /\ OneReport(serial.last)
  BY NextUp DEF ChargerInv, ShapeInv
<1>2. Standing(c, serial'.missed, <<>>)
  BY DEF Standing
<1>3. ASSUME serial'.missed <= 1 PROVE KeptStatus(c, serial'.missed, <<>>, p)
  <2>1. CASE b = <<>>
    BY <2>1 DEF Fits
  <2>2. CASE b # <<>>
    <3>1. m = 0 /\ serial'.missed = 1
      BY <1>1, <1>3, <2>2
    <3> HIDE DEF c, m, p
    <3> QED BY <1>1, <3>1, MissOne DEF Fits, c, m, p
  <2> QED BY <2>1, <2>2
<1>4. serial'.missed <= 1 => BufferInv'
  BY <1>2, <1>3 DEF BufferInv
<1> QED BY <1>1, <1>4 DEF ChargerInv

(* A piece is read: a prompt that is answered, one that has no newline yet, *)
(* a first half, or a line.                                                 *)
LEMMA ReadStep ==
  ASSUME ChargerInv, serial.missed <= 1, NEW low \in BOOLEAN, ReadPiece(low)
  PROVE  ChargerInv'
<1> DEFINE w == gate.wire  p == Head(w)  c == Coming  m == serial.missed
           line == IF Len(serial.buf) < MaxLine THEN Append(serial.buf, p) ELSE serial.buf
<1>1. LineInv /\ BufferInv /\ OneReport(serial.last) /\ ShapeInv /\ m \in {0, 1} /\ c \in HalfLines
  BY NextUp DEF ChargerInv, ShapeInv
<1>2. /\ w # <<>> /\ p = w[1]
      /\ EndsLine(p) => HandleLine(line, low)
      /\ ~EndsLine(p) => /\ serial' = [serial EXCEPT !.buf = line]
                         /\ gate' = [gate EXCEPT !.wire = Tail(@)]
  BY DEF ReadPiece
<1>3. PICK b : Standing(c, m, b) /\ KeptStatus(c, m, b, serial.pending) /\ serial.buf = b
  BY <1>1, <1>2 DEF BufferInv
<1>4. p \in WirePieces
  BY <1>1, <1>2, ElementOfSeq, EmptySeq, LenProperties DEF LineInv
<1>5. /\ b \in Seq([kind : HalfKinds, n : Int]) /\ Len(b) \in {0, 1, 2}
      /\ b # <<>> => HalfIn(b)
  BY <1>1, <1>3, Short DEF HalfIn
<1>6. line = Append(b, p)
  <2>1. MaxLine \in Nat /\ MaxLine > 2
    BY ReadersAssumption
  <2>2. \A k \in {0, 1, 2} : k < MaxLine
    BY <2>1
  <2>3. Len(b) < MaxLine
    BY <1>5, <2>2
  <2> QED BY <1>3, <2>3
<1> DEFINE A == [kind : HalfKinds \union Prompts, n : Int]
<1>7. b \in Seq(A) /\ p \in A
  <2>1. [kind : HalfKinds, n : Int] \subseteq A
    OBVIOUS
  <2>2. p \in A
    BY <1>4 DEF WirePieces
  <2> HIDE DEF A
  <2> QED BY <1>5, <2>1, <2>2, SeqMonotonic
<1>8. Last(line) = p /\ line # <<>>
  <2> HIDE DEF A, line, p
  <2> QED BY <1>6, <1>7, LastOne
<1>9. prompt_response(line) # "none" <=> p.kind \in Prompts
  BY <1>8, Response
<1> HIDE DEF line
<1>10. CASE p.kind \in Prompts /\ EndsLine(p)
  <2>1. /\ serial' = Answered(line) /\ DOMAIN gate' = DOMAIN gate
        /\ gate'.wire = Tail(gate.wire) /\ gate'.half = gate.half /\ gate'.n = gate.n
        /\ gate'.menu = IF gate.menu > 0 THEN gate.menu - 1 ELSE 0
    BY <1>1, <1>2, <1>9, <1>10, PromptHandled
  <2>2. gate'.menu \in 0..MenuLength
    BY <1>1, <2>1, ReadersAssumption DEF LineInv
  <2>3. LineInv' /\ Coming' = Coming
    BY <1>1, <1>2, <1>10, <2>1, <2>2, Gone
  <2>4. HalfIn(line) <=> b # <<>>
    <3>1. /\ Len(line) = Len(b) + 1 /\ DOMAIN line = 1..(Len(b) + 1) /\ DOMAIN b = 1..Len(b)
          /\ \A i \in 1..Len(b) : line[i] = b[i]
          /\ line[Len(b) + 1] = p
      <4> HIDE DEF A, p
      <4>1. /\ line \in Seq(A) /\ Len(line) = Len(b) + 1
            /\ \A i \in 1..Len(b) : line[i] = b[i]
            /\ line[Len(b) + 1] = p
        BY <1>6, <1>7, AppendProperties
      <4> QED BY <1>7, <4>1, LenProperties
    <3>2. ASSUME b # <<>> PROVE HalfIn(line)
      BY <1>5, <3>1, <3>2 DEF HalfIn
    <3>3. ASSUME b = <<>> PROVE ~HalfIn(line)
      <4>1. Len(b) = 0
        BY <3>3
      <4>2. \A i \in DOMAIN line : line[i] = p
        BY <3>1, <4>1
      <4> QED BY <1>10, <4>2 DEF HalfIn
    <3> QED BY <3>2, <3>3
  <2>5. gate'.half \in 1..4 /\ gate'.n \in Nat
    BY <1>1, <2>1 DEF ShapeInv
  <2>6. /\ ShapeInv' /\ serial'.buf = <<>> /\ serial'.pending = serial.pending
        /\ serial'.last = serial.last
        /\ serial'.missed = IF b # <<>> THEN serial.missed + 1 ELSE serial.missed
    BY <1>1, <2>1, <2>4, <2>5, AnsweredPrompt
  <2> QED BY <1>3, <2>3, <2>6, CutStep DEF Fits
<1>11. CASE p.kind \notin Prompts /\ EndsLine(p)
  <2>1. prompt_response(line) = "none" /\ HandleLine(line, low)
    BY <1>2, <1>9, <1>11
  <2>2. /\ ShapeInv' /\ serial'.missed = serial.missed /\ serial'.buf = <<>>
        /\ gate'.wire = Tail(gate.wire) /\ gate'.half = gate.half /\ gate'.n = gate.n
        /\ gate'.waits = gate.waits /\ gate'.menu \in {gate.menu, MenuLength}
    BY <1>1, <2>1, LineHandled
  <2>3. gate'.menu \in 0..MenuLength /\ gate'.menu >= gate.menu
    BY <1>1, <2>2, ReadersAssumption DEF LineInv
  <2>4. LineInv' /\ Coming = p /\ Coming' = NextHalf(c)
    BY <1>1, <1>2, <1>11, <2>2, <2>3, Gone
  <2>5. /\ Has(line, "PS") => KeptStatus(NextHalf(c), m, <<>>, line)
        /\ ~Has(line, "PS") /\ serial.pending # <<>> /\ Has(line, "TargetV") =>
             OneReport(Reading(serial.pending, line))
        /\ ~Has(line, "PS") /\ ~(serial.pending # <<>> /\ Has(line, "TargetV")) =>
             KeptStatus(NextHalf(c), m, <<>>, serial.pending)
    BY <1>1, <1>3, <1>6, <1>11, <2>4, LineRead
  <2>6. KeptStatus(NextHalf(c), m, <<>>, <<>>) /\ Standing(NextHalf(c), m, <<>>)
    BY DEF KeptStatus, Standing
  <2>7. KeptStatus(NextHalf(c), m, <<>>, serial'.pending) /\ OneReport(serial'.last)
    BY <1>1, <2>1, <2>5, <2>6, LineHandled
  <2>8. BufferInv'
    BY <2>2, <2>4, <2>6, <2>7 DEF BufferInv
  <2> QED BY <2>2, <2>4, <2>7, <2>8 DEF ChargerInv
<1>12. CASE ~EndsLine(p)
  <2>1. /\ DOMAIN gate' = DOMAIN gate /\ gate'.wire = Tail(gate.wire) /\ gate'.half = gate.half
        /\ gate'.n = gate.n /\ gate'.menu = gate.menu /\ gate'.waits = gate.waits
        /\ DOMAIN serial' = DOMAIN serial /\ serial'.buf = Append(b, p)
        /\ serial'.pending = serial.pending /\ serial'.last = serial.last
        /\ serial'.missed = m
    BY <1>1, <1>2, <1>6, <1>12 DEF ShapeInv
  <2>2. gate'.menu \in 0..MenuLength /\ gate'.menu >= gate.menu /\ ShapeInv'
    BY <1>1, <2>1, ReadersAssumption DEF LineInv, ShapeInv
  <2>3. LineInv'
    BY <1>1, <1>2, <2>1, <2>2, Gone
  <2>4. BufferInv'
    <3>1. CASE p.kind \in Prompts
      <4>1. Coming' = c /\ gate'.wire = <<>> /\ gate'.menu > 0 /\ gate'.waits = TRUE
        BY <1>1, <1>2, <2>1, <2>2, <3>1, Gone
      <4> QED BY <1>3, <1>4, <2>1, <3>1, <4>1 DEF BufferInv
    <3>2. CASE p.kind \notin Prompts
      <4>1. c = p /\ Coming' = NextHalf(c)
        BY <1>1, <1>2, <2>1, <2>2, <3>2, Gone
      <4>2. Standing(NextHalf(c), m, Append(b, p)) /\ KeptStatus(NextHalf(c), m, Append(b, p), serial.pending)
        BY <1>1, <1>3, <1>12, <4>1, HalfRead
      <4> QED BY <2>1, <4>1, <4>2 DEF BufferInv
    <3> QED BY <3>1, <3>2
  <2> QED BY <1>1, <2>1, <2>2, <2>3, <2>4 DEF ChargerInv
<1> QED BY <1>10, <1>11, <1>12

(* A timeout answers the prompt in the buffer.                              *)
LEMMA TimeoutStep ==
  ASSUME ChargerInv, serial.missed <= 1, ReadTimeout
  PROVE  ChargerInv'
<1> DEFINE c == Coming  m == serial.missed  line == serial.buf
<1>1. LineInv /\ BufferInv /\ ShapeInv /\ c \in HalfLines
  BY NextUp DEF ChargerInv
<1>2. /\ gate.wire = <<>> /\ line # <<>> /\ Last(line).kind \in Prompts
      /\ gate' = Heard(prompt_response(line), gate) /\ serial' = Answered(line)
  BY DEF ReadTimeout, is_unterminated_prompt
<1>3. PICK b : /\ Standing(c, m, b) /\ KeptStatus(c, m, b, serial.pending)
              /\ \/ line = b
                 \/ \E p \in WirePieces : p.kind \in Prompts /\ line = Append(b, p)
  BY <1>1 DEF BufferInv
<1>4. /\ b \in Seq([kind : HalfKinds, n : Int]) /\ Len(b) \in Nat
      /\ b # <<>> => HalfIn(b)
  BY <1>1, <1>3, Short, LenProperties DEF HalfIn
<1> HIDE DEF line, c, m
<1>5. line # b
  <2>1. ASSUME line = b PROVE FALSE
    <3>1. Len(b) \in 1..Len(b)
      BY <1>2, <1>4, <2>1, EmptySeq, LenProperties
    <3>2. b[Len(b)] \in [kind : HalfKinds, n : Int]
      BY <1>4, <3>1, ElementOfSeq
    <3>3. b[Len(b)].kind \notin Prompts
      BY <3>2 DEF HalfKinds, Prompts
    <3> QED BY <1>2, <2>1, <3>3 DEF Last
  <2> QED BY <2>1
<1>6. PICK p \in WirePieces : p.kind \in Prompts /\ line = Append(b, p)
  BY <1>3, <1>5
<1>7. HalfIn(line) <=> b # <<>>
  <2> DEFINE A == [kind : HalfKinds \union Prompts, n : Int]
  <2>1. [kind : HalfKinds, n : Int] \subseteq A /\ p \in A
    BY DEF WirePieces
  <2> HIDE DEF A
  <2>2. b \in Seq(A)
    BY <1>4, <2>1, SeqMonotonic
  <2>3. /\ Len(line) = Len(b) + 1 /\ DOMAIN line = 1..(Len(b) + 1) /\ DOMAIN b = 1..Len(b)
        /\ \A i \in 1..Len(b) : line[i] = b[i]
        /\ line[Len(b) + 1] = p
    BY <1>6, <2>1, <2>2, AppendProperties, LenProperties
  <2>4. ASSUME b # <<>> PROVE HalfIn(line)
    BY <1>4, <2>3, <2>4 DEF HalfIn
  <2>5. ASSUME b = <<>> PROVE ~HalfIn(line)
    <3>1. Len(b) = 0
      BY <2>5
    <3>2. \A i \in DOMAIN line : line[i] = p
      BY <2>3, <3>1
    <3> QED BY <1>6, <3>2 DEF HalfIn
  <2> QED BY <2>4, <2>5
<1>8. /\ DOMAIN gate' = DOMAIN gate /\ gate'.wire = <<>> /\ gate'.half = gate.half
      /\ gate'.n = gate.n /\ gate'.menu = IF gate.menu > 0 THEN gate.menu - 1 ELSE 0
  BY <1>1, <1>2, Response, HeardPrompt
<1>9. gate'.menu \in 0..MenuLength
  BY <1>1, <1>8, ReadersAssumption DEF LineInv
<1>10. LineInv' /\ Coming' = Coming
  <2>1. Upcoming' = Upcoming /\ Len(gate'.wire) = 0 /\ gate'.wire \in Seq(WirePieces)
    BY <1>8, EmptySeq DEF Upcoming
  <2> QED BY <1>1, <1>2, <1>8, <1>9, <2>1 DEF LineInv, Coming
<1>11. ShapeInv' /\ serial'.buf = <<>> /\ serial'.pending = serial.pending
       /\ serial'.last = serial.last
       /\ serial'.missed = IF b # <<>> THEN serial.missed + 1 ELSE serial.missed
  <2>1. gate'.half \in 1..4 /\ gate'.n \in Nat
    BY <1>1, <1>8 DEF ShapeInv
  <2> QED BY <1>1, <1>2, <1>7, <1>8, <2>1, AnsweredPrompt
<1> QED BY <1>3, <1>10, <1>11, CutStep DEF Fits, c, m

(* A piece is lost: the session has missed one.                             *)
LEMMA LossStep ==
  ASSUME ChargerInv, serial.missed = 0, LosePiece
  PROVE  ChargerInv'
<1> DEFINE c == Coming  p == gate.wire[1]
<1>1. LineInv /\ BufferInv /\ OneReport(serial.last) /\ ShapeInv /\ c \in HalfLines
  BY NextUp DEF ChargerInv
<1>2. /\ gate.wire # <<>>
      /\ gate' = [gate EXCEPT !.wire = Tail(@), !.waits = @ /\ gate.wire[1].kind \notin Prompts]
      /\ serial' = [serial EXCEPT !.missed = @ + 1]
  BY DEF LosePiece
<1>3. /\ DOMAIN gate' = DOMAIN gate /\ gate'.wire = Tail(gate.wire) /\ gate'.half = gate.half
      /\ gate'.n = gate.n /\ gate'.menu = gate.menu
      /\ DOMAIN serial' = DOMAIN serial /\ serial'.missed = 1 /\ serial'.buf = serial.buf
      /\ serial'.pending = serial.pending /\ serial'.last = serial.last
  BY <1>1, <1>2 DEF ShapeInv
<1>4. ASSUME gate.wire[1].kind \notin Prompts PROVE gate'.waits = TRUE <=> gate.waits = TRUE
  <2>1. gate'.waits = (gate.waits /\ gate.wire[1].kind \notin Prompts)
    BY <1>1, <1>2 DEF ShapeInv
  <2> QED BY <1>4, <2>1
<1>5. PICK b : Standing(c, 0, b) /\ KeptStatus(c, 0, b, serial.pending) /\ serial.buf = b
  <2>1. gate.wire # <<>>
    BY <1>2
  <2> QED BY <1>1, <2>1 DEF BufferInv
<1>6. LineInv' /\ (Coming' = c \/ Coming' = NextHalf(c))
  <2>1. gate'.menu \in 0..MenuLength /\ gate'.menu >= gate.menu
    BY <1>1, <1>3, ReadersAssumption DEF LineInv
  <2> QED BY <1>1, <1>2, <1>3, <1>4, <2>1, Gone
<1> HIDE DEF c
<1>7. Standing(Coming', 1, b) /\ KeptStatus(Coming', 1, b, serial.pending)
  BY <1>1, <1>5, <1>6, MissOne
<1>8. BufferInv'
  BY <1>3, <1>5, <1>7 DEF BufferInv
<1> QED BY <1>1, <1>3, <1>6, <1>8 DEF ChargerInv, ShapeInv

(* The records keep their shape, and a session never misses less.           *)
LEMMA ShapeStep ==
  ASSUME ShapeInv, ChargerNext
  PROVE  ShapeInv' /\ (StartSerial \/ serial'.missed >= serial.missed)
<1> DEFINE G == ShapeInv' /\ (StartSerial \/ serial'.missed >= serial.missed)
<1>1. ASSUME SendHalf PROVE G
  <2>1. /\ DOMAIN gate' = DOMAIN gate /\ serial' = serial /\ gate'.half = (gate.half % 4) + 1
        /\ gate'.n = IF gate.half = 4 THEN gate.n + 1 ELSE gate.n
    BY <1>1 DEF SendHalf, ShapeInv
  <2>2. gate'.half \in 1..4 /\ gate'.n \in Nat
    BY <2>1 DEF ShapeInv
  <2> QED BY <2>1, <2>2 DEF ShapeInv
<1>8. ASSUME SendPrompt PROVE G
  <2>1. /\ DOMAIN gate' = DOMAIN gate /\ serial' = serial /\ gate'.half = gate.half
        /\ gate'.n = gate.n
    BY <1>8 DEF SendPrompt, ShapeInv
  <2> QED BY <2>1 DEF ShapeInv
<1>9. ASSUME PollRemote PROVE G
  BY <1>9 DEF PollRemote, ShapeInv
<1>2. ASSUME LosePiece PROVE G
  BY <1>2 DEF LosePiece, ShapeInv
<1>3. ASSUME StartSerial PROVE G
  BY <1>3 DEF StartSerial, NewSession, ShapeInv
<1>4. ASSUME StopSerial PROVE G
  BY <1>4 DEF StopSerial, ShapeInv
<1>5. ASSUME NEW line, serial' = Answered(line), DOMAIN gate' = DOMAIN gate,
             gate'.half = gate.half, gate'.n = gate.n
      PROVE  G
  BY <1>5, AnsweredPrompt DEF ShapeInv
<1>6. ASSUME ReadTimeout PROVE G
  <2>1. gate' = Heard(prompt_response(serial.buf), gate) /\ serial' = Answered(serial.buf)
        /\ prompt_response(serial.buf) # "none"
    BY <1>6, Response DEF ReadTimeout, is_unterminated_prompt
  <2> QED BY <1>5, <2>1, HeardPrompt
<1>7. ASSUME NEW low \in BOOLEAN, ReadPiece(low) PROVE G
  <2>1. PICK line : \/ HandleLine(line, low)
                    \/ /\ serial' = [serial EXCEPT !.buf = line]
                       /\ gate' = [gate EXCEPT !.wire = Tail(@)]
    BY <1>7 DEF ReadPiece
  <2>2. CASE HandleLine(line, low) /\ prompt_response(line) = "none"
    BY <2>2, LineHandled DEF ShapeInv
  <2>3. CASE HandleLine(line, low) /\ prompt_response(line) # "none"
    BY <1>5, <2>3, PromptHandled
  <2>4. CASE /\ serial' = [serial EXCEPT !.buf = line]
             /\ gate' = [gate EXCEPT !.wire = Tail(@)]
    BY <2>4 DEF ShapeInv
  <2> QED BY <2>1, <2>2, <2>3, <2>4
<1> QED BY <1>1, <1>2, <1>3, <1>4, <1>6, <1>7, <1>8, <1>9 DEF ChargerNext

(* A session starts with nothing, wherever the charger is in its report.    *)
LEMMA StartStep ==
  ASSUME ChargerInv, StartSerial
  PROVE  ChargerInv'
<1>1. /\ serial' = [NewSession EXCEPT !.running = TRUE]
      /\ gate' = [gate EXCEPT !.wire = <<>>, !.menu = MenuLength, !.waits = FALSE,
                              !.sessions = @ + 1]
  BY DEF StartSerial
<1>2. /\ gate'.wire = <<>> /\ gate'.menu = MenuLength /\ gate'.half = gate.half /\ gate'.n = gate.n
      /\ serial'.buf = <<>> /\ serial'.pending = <<>> /\ serial'.last = NoGateReading
      /\ serial'.missed = 0
  BY <1>1 DEF NewSession, ChargerInv, ShapeInv
<1>3. ShapeInv'
  BY ShapeStep DEF ChargerInv, ChargerNext
<1>4. LineInv'
  <2>1. gate'.wire \in Seq(WirePieces) /\ Len(gate'.wire) = 0
    BY <1>2, EmptySeq
  <2>2. gate'.menu \in 0..MenuLength
    BY <1>2, ReadersAssumption
  <2> QED BY <1>2, <1>3, <2>1, <2>2 DEF LineInv, ShapeInv
<1>5. BufferInv'
  <2>1. Standing(Coming', 0, <<>>) /\ KeptStatus(Coming', 0, <<>>, <<>>)
    BY DEF Standing, KeptStatus
  <2> QED BY <1>2, <2>1 DEF BufferInv
<1>6. OneReport(serial'.last)
  BY <1>2, NoKeys DEF NoGateReading, Reading, OneReport, Field
<1> QED BY <1>3, <1>4, <1>5, <1>6 DEF ChargerInv

(* What leaves buffer, kept line and reading alone.                         *)
LEMMA SameBuffer ==
  ASSUME ChargerInv, ShapeInv', UNCHANGED <<serial.buf, serial.pending, serial.last, serial.missed>>,
         serial.missed <= 1 =>
           /\ LineInv' /\ Coming' = Coming
           /\ gate.wire = <<>> /\ gate.menu > 0 /\ gate.waits = TRUE =>
                gate'.wire = <<>> /\ gate'.menu > 0 /\ gate'.waits = TRUE
  PROVE  ChargerInv'
<1> SUFFICES ASSUME serial.missed <= 1 PROVE BufferInv'
  BY DEF ChargerInv
<1>1. BufferInv
  BY DEF ChargerInv
<1> QED BY <1>1 DEF BufferInv

(* A prompt is sent, which nothing follows before it is answered.           *)
LEMMA PromptSent ==
  ASSUME LineInv, SendPrompt, ShapeInv
  PROVE  LineInv' /\ Coming' = Coming
<1> DEFINE w == gate.wire
<1>1. PICK kind \in Prompts, newline \in {0, 1} :
        gate' = [gate EXCEPT !.wire = Append(@, Piece(kind, newline)), !.waits = TRUE]
  BY DEF SendPrompt
<1> DEFINE p == Piece(kind, newline)  new == Append(w, p)
<1>2. /\ gate'.wire = new /\ gate'.waits = TRUE /\ gate'.half = gate.half /\ gate'.n = gate.n
      /\ gate'.menu = gate.menu
  BY <1>1 DEF ShapeInv
<1>3. gate.menu > 0 /\ ~gate.waits
  BY DEF SendPrompt
<1>4. p \in WirePieces /\ p.kind \in Prompts
  BY DEF Piece, WirePieces
<1>5. /\ new \in Seq(WirePieces) /\ Len(new) = Len(w) + 1 /\ Len(w) \in Nat /\ new # <<>>
      /\ \A i \in 1..Len(w) : new[i] = w[i]
      /\ new[Len(w) + 1] = p
  BY <1>4, AppendProperties, LenProperties DEF LineInv
<1>6. \A i \in 1..Len(w) : /\ w[i].kind \notin Prompts
                           /\ NextHalf(w[i]) = IF i < Len(w) THEN w[i + 1] ELSE Upcoming
  <2>1. \A i \in 1..Len(w) : w[i].kind \notin Prompts
    BY <1>3 DEF LineInv
  <2> QED BY <2>1, <1>5 DEF LineInv
<1>7. Upcoming' = Upcoming
  BY <1>2 DEF Upcoming
<1> HIDE DEF w, p, new
<1>8. ASSUME NEW i \in 1..Len(new)
      PROVE  IF new[i].kind \in Prompts THEN i = Len(new)
             ELSE NextHalf(new[i]) = IF i < Len(new) /\ new[i + 1].kind \notin Prompts
                                  THEN new[i + 1] ELSE Upcoming
  <2>1. CASE i = Len(w) + 1
    BY <1>4, <1>5, <2>1
  <2>2. CASE i # Len(w) + 1
    <3>1. i \in 1..Len(w) /\ i + 1 \in 1..Len(new)
      BY <1>5, <2>2
    <3>2. i = Len(w) => new[i + 1] = p
      BY <1>5
    <3>3. i < Len(w) => new[i + 1] = w[i + 1] /\ w[i + 1].kind \notin Prompts
      BY <1>5, <1>6, <3>1
    <3> QED BY <1>4, <1>5, <1>6, <3>1, <3>2, <3>3
  <2> QED BY <2>1, <2>2
<1>9. LineInv'
  BY <1>2, <1>3, <1>5, <1>7, <1>8 DEF LineInv
<1>10. Coming' = Coming
  <2>1. CASE w = <<>>
    <3>1. new[1] = p
      BY <1>5, <2>1
    <3> QED BY <1>2, <1>4, <1>7, <2>1, <3>1 DEF Coming, w
  <2>2. CASE w # <<>>
    <3>1. 1 \in 1..Len(w)
      BY <1>5, <2>2, EmptySeq, LenProperties DEF LineInv, w
    <3> QED BY <1>2, <1>5, <1>6, <2>2, <3>1 DEF Coming, w
  <2> QED BY <2>1, <2>2
<1> QED BY <1>9, <1>10

(* Every step at the charger's end keeps the invariant: a session that      *)
(* misses more has nothing to keep.                                         *)
LEMMA ChargerStep ==
  ASSUME ChargerInv, ChargerNext
  PROVE  ChargerInv'
<1>1. ShapeInv' /\ (StartSerial \/ serial'.missed >= serial.missed)
  BY ShapeStep DEF ChargerInv
<1>2. CASE StartSerial
  BY <1>2, StartStep
<1>3. CASE ~StartSerial /\ ~(serial.missed <= 1)
  <2>1. ~(serial'.missed <= 1)
    BY <1>1, <1>3 DEF ChargerInv, ShapeInv
  <2> QED BY <1>1, <2>1 DEF ChargerInv
<1>4. CASE ~StartSerial /\ serial.missed <= 1
  <2>1. CASE \E low \in BOOLEAN : ReadPiece(low)
    BY <1>4, <2>1, ReadStep
  <2>2. CASE ReadTimeout
    BY <1>4, <2>2, TimeoutStep
  <2>3. CASE LosePiece
    <3>1. serial'.missed = serial.missed + 1
      BY <2>3 DEF LosePiece, ChargerInv, ShapeInv
    <3>2. CASE serial.missed = 0
      BY <2>3, <3>2, LossStep
    <3>3. CASE serial.missed # 0
      <4>1. ~(serial'.missed <= 1)
        BY <3>1, <3>3 DEF ChargerInv, ShapeInv
      <4> QED BY <1>1, <4>1 DEF ChargerInv
    <3> QED BY <3>2, <3>3
  <2>4. CASE SendHalf
    <3>1. LineInv' /\ Coming' = Coming
      BY <1>4, <2>4, PieceSent DEF SendHalf, ChargerInv, ShapeInv
    <3>2. UNCHANGED serial /\ gate.menu = 0
      BY <2>4 DEF SendHalf
    <3> QED BY <1>1, <3>1, <3>2, SameBuffer
  <2>5. CASE SendPrompt
    <3>1. LineInv' /\ Coming' = Coming
      BY <1>4, <2>5, PromptSent DEF ChargerInv
    <3>2. UNCHANGED serial /\ ~gate.waits
      BY <2>5 DEF SendPrompt
    <3> QED BY <1>1, <3>1, <3>2, SameBuffer
  <2>6. CASE StopSerial \/ PollRemote
    <3>1. gate' = gate /\ UNCHANGED <<serial.buf, serial.pending, serial.last, serial.missed>>
      BY <2>6 DEF StopSerial, PollRemote, ChargerInv, ShapeInv
    <3>2. LineInv => LineInv' /\ Coming' = Coming
      BY <3>1 DEF LineInv, Coming, Upcoming
    <3> QED BY <1>1, <3>1, <3>2, SameBuffer DEF ChargerInv
  <2> QED BY <1>4, <2>1, <2>2, <2>3, <2>4, <2>5, <2>6 DEF ChargerNext
<1> QED BY <1>2, <1>3, <1>4

-----------------------------------------------------------------------------
\* The notification after another, and the one the program will hear next.
Following(a) == IF a.i = Notifications THEN [n |-> a.n + 1, i |-> 1] ELSE [n |-> a.n, i |-> a.i + 1]
NextNote == IF bms.wire = <<>> THEN [n |-> bms.n + 1, i |-> 1] ELSE bms.wire[1]

\* While nothing was lost the buffer is the beginning of one response, and the
\* notifications on the line go on with it.
BmsInv ==
  /\ DOMAIN bms = {"n", "wire", "up", "lost"} /\ DOMAIN parser = {"buf", "last", "lost"}
  /\ bms.n \in Nat /\ bms.lost \in Nat /\ bms.wire \in Seq([n : Nat, i : 1..Notifications])
  /\ \A k \in 1..Len(bms.wire) :
       Following(bms.wire[k]) = IF k = Len(bms.wire) THEN [n |-> bms.n + 1, i |-> 1] ELSE bms.wire[k + 1]
  /\ ~(bms.up = TRUE) => bms.wire = <<>> /\ parser.buf = <<>>
  /\ bms.lost = 0 => parser.buf = [j \in 1..(NextNote.i - 1) |-> [n |-> NextNote.n, i |-> j]]
  /\ parser.lost = 0 =>
       \A k \in DOMAIN parser.last : parser.last[k] = [n |-> parser.last[1].n, i |-> k]

(* The next notification is one.                                            *)
LEMMA NearestTypes ==
  ASSUME BmsInv
  PROVE  NextNote \in [n : Nat, i : 1..Notifications]
<1>1. CASE bms.wire = <<>>
  BY <1>1, ReadersAssumption DEF NextNote, BmsInv
<1>2. CASE bms.wire # <<>>
  <2>1. bms.wire \in Seq([n : Nat, i : 1..Notifications])
    BY DEF BmsInv
  <2>2. 1 \in 1..Len(bms.wire)
    BY <1>2, <2>1, EmptySeq, LenProperties
  <2>3. bms.wire[1] \in [n : Nat, i : 1..Notifications]
    BY <2>1, <2>2, ElementOfSeq
  <2> QED BY <1>2, <2>3 DEF NextNote
<1> QED BY <1>1, <1>2

(* The line with its first notification gone.                               *)
LEMMA FirstGone ==
  ASSUME BmsInv, bms.wire # <<>>, bms'.wire = Tail(bms.wire), bms'.n = bms.n
  PROVE  /\ bms'.wire \in Seq([n : Nat, i : 1..Notifications])
         /\ \A k \in 1..Len(bms'.wire) :
              Following(bms'.wire[k]) = IF k = Len(bms'.wire) THEN [n |-> bms.n + 1, i |-> 1]
                                        ELSE bms'.wire[k + 1]
         /\ NextNote' = Following(NextNote) /\ NextNote = bms.wire[1]
<1> DEFINE w == bms.wire  new == Tail(w)
<1>1. /\ new \in Seq([n : Nat, i : 1..Notifications]) /\ Len(new) = Len(w) - 1
      /\ Len(w) \in Nat \ {0} /\ \A k \in 1..Len(new) : new[k] = w[k + 1]
      /\ w # <<>>
  BY HeadTailProperties, LenProperties, EmptySeq DEF BmsInv
<1>2. \A k \in 1..Len(w) : Following(w[k]) = IF k = Len(w) THEN [n |-> bms.n + 1, i |-> 1] ELSE w[k + 1]
  BY DEF BmsInv
<1> HIDE DEF w, new
<1>3. ASSUME NEW k \in 1..Len(new)
      PROVE  Following(new[k]) = IF k = Len(new) THEN [n |-> bms.n + 1, i |-> 1] ELSE new[k + 1]
  <2> DEFINE j == k + 1
  <2>1. j \in 1..Len(w) /\ new[k] = w[j] /\ (k = Len(new) <=> j = Len(w))
    <3>1. k \in Nat /\ k <= Len(new) /\ Len(new) = Len(w) - 1 /\ Len(w) \in Nat
      BY <1>1
    <3>2. j \in 1..Len(w) /\ (k = Len(new) <=> j = Len(w))
      BY <3>1
    <3> QED BY <1>1, <3>2
  <2>2. ASSUME k # Len(new) PROVE new[k + 1] = w[j + 1]
    <3>1. j \in 1..Len(new)
      BY <1>1, <2>2
    <3> QED BY <1>1, <3>1
  <2>3. j = k + 1
    OBVIOUS
  <2> HIDE DEF j
  <2> QED BY <1>2, <2>1, <2>2, <2>3
<1>4. NextNote' = Following(NextNote) /\ NextNote = w[1]
  <2>1. NextNote = w[1] /\ Following(w[1]) = IF Len(w) = 1 THEN [n |-> bms.n + 1, i |-> 1] ELSE w[2]
    <3>1. 1 \in 1..Len(w)
      BY <1>1
    <3>2. Following(w[1]) = IF 1 = Len(w) THEN [n |-> bms.n + 1, i |-> 1] ELSE w[1 + 1]
      BY <1>2, <3>1
    <3> QED BY <1>1, <3>2 DEF NextNote, w
  <2>2. new = <<>> <=> Len(w) = 1
    <3>1. new = <<>> <=> Len(new) = 0
      BY <1>1, EmptySeq, LenProperties
    <3> QED BY <1>1, <3>1
  <2>3. Len(w) # 1 => new[1] = w[2]
    BY <1>1
  <2> QED BY <2>1, <2>2, <2>3 DEF NextNote, new, w
<1> QED BY <1>1, <1>3, <1>4 DEF new, w

(* A notification is heard, and perhaps completes the response.             *)
LEMMA FeedStep ==
  ASSUME BmsInv, Feed
  PROVE  BmsInv'
<1> DEFINE a == bms.wire[1]  buf == Append(parser.buf, a)
<1>1. /\ bms.wire # <<>> /\ bms' = [bms EXCEPT !.wire = Tail(@)]
      /\ parser' = IF Len(buf) >= Notifications THEN [buf |-> <<>>, last |-> buf, lost |-> bms.lost]
                   ELSE [parser EXCEPT !.buf = buf]
  BY DEF Feed
<1>2. /\ DOMAIN bms' = DOMAIN bms /\ bms'.wire = Tail(bms.wire) /\ bms'.n = bms.n
      /\ bms'.up = bms.up /\ bms'.lost = bms.lost
  BY <1>1 DEF BmsInv
<1>3. /\ bms'.wire \in Seq([n : Nat, i : 1..Notifications])
      /\ \A k \in 1..Len(bms'.wire) :
           Following(bms'.wire[k]) = IF k = Len(bms'.wire) THEN [n |-> bms.n + 1, i |-> 1]
                                     ELSE bms'.wire[k + 1]
      /\ NextNote' = Following(a) /\ NextNote = a /\ a \in [n : Nat, i : 1..Notifications]
  BY <1>1, <1>2, FirstGone, NearestTypes
<1>4. bms.up = TRUE
  BY <1>1 DEF BmsInv
<1>5. ASSUME bms.lost = 0
      PROVE  /\ Len(buf) = a.i
             /\ buf = [j \in 1..a.i |-> [n |-> a.n, i |-> j]]
  <2> DEFINE S == [n : Nat, i : 1..Notifications]
             b == [j \in 1..(a.i - 1) |-> [n |-> a.n, i |-> j]]
  <2>1. parser.buf = b /\ a.i \in 1..Notifications /\ a.n \in Nat /\ a = [n |-> a.n, i |-> a.i]
    BY <1>3, <1>5 DEF BmsInv
  <2>2. b \in Seq(S) /\ Len(b) = a.i - 1 /\ \A j \in 1..(a.i - 1) : b[j] = [n |-> a.n, i |-> j]
    <3>a. Notifications \in Nat
      BY ReadersAssumption
    <3>b. a.i \in 1..Notifications /\ a.n \in Nat
      BY <2>1
    <3>1. a.i - 1 \in Nat /\ \A j \in 1..(a.i - 1) : [n |-> a.n, i |-> j] \in S
      <4> HIDE DEF a, b
      <4>1. a.i - 1 \in Nat /\ \A j \in 1..(a.i - 1) : j \in 1..Notifications
        BY <3>a, <3>b
      <4> QED BY <3>b, <4>1
    <3>2. b \in [1..(a.i - 1) -> S]
      BY <3>1
    <3>3. \A j \in 1..(a.i - 1) : b[j] = [n |-> a.n, i |-> j]
      OBVIOUS
    <3> HIDE DEF b, S
    <3> QED BY <3>1, <3>2, <3>3
  <2> HIDE DEF b
  <2>3. /\ buf \in Seq(S) /\ Len(buf) = a.i /\ \A j \in 1..(a.i - 1) : buf[j] = b[j]
        /\ buf[a.i] = a
    <3>1. a \in S
      BY <1>3
    <3>2. /\ Append(b, a) \in Seq(S) /\ Len(Append(b, a)) = Len(b) + 1
          /\ \A j \in 1..Len(b) : Append(b, a)[j] = b[j]
          /\ Append(b, a)[Len(b) + 1] = a
      <4> HIDE DEF S, a
      <4> QED BY <2>2, <3>1, AppendProperties
    <3>3. Len(b) + 1 = a.i
      BY <2>1, <2>2
    <3> QED BY <2>1, <2>2, <3>2, <3>3
  <2>4. DOMAIN buf = 1..a.i /\ buf = [j \in DOMAIN buf |-> buf[j]]
    BY <2>3, LenProperties
  <2>5. \A j \in 1..a.i : buf[j] = [n |-> a.n, i |-> j]
    <3> HIDE DEF buf, a, S
    <3>1. ASSUME NEW j \in 1..a.i PROVE buf[j] = [n |-> a.n, i |-> j]
      <4>1. CASE j = a.i
        BY <2>1, <2>3, <4>1
      <4>2. CASE j # a.i
        <5>1. j \in 1..(a.i - 1)
          BY <2>1, <4>2
        <5> QED BY <2>2, <2>3, <5>1
      <4> QED BY <4>1, <4>2
    <3> QED BY <3>1
  <2> QED BY <2>3, <2>4, <2>5
<1>6. CASE Len(buf) >= Notifications
  <2>1. parser' = [buf |-> <<>>, last |-> buf, lost |-> bms.lost]
    BY <1>1, <1>6
  <2>2. ASSUME bms.lost = 0
        PROVE  /\ a.i = Notifications /\ \A k \in DOMAIN buf : buf[k] = [n |-> buf[1].n, i |-> k]
               /\ NextNote'.i = 1
    <3>1. a.i = Notifications
      BY <1>3, <1>5, <1>6, <2>2, ReadersAssumption
    <3>2. DOMAIN buf = 1..a.i /\ \A j \in 1..a.i : buf[j] = [n |-> a.n, i |-> j]
      BY <1>5, <2>2
    <3>3. 1 \in 1..a.i
      BY <3>1, ReadersAssumption
    <3>4. NextNote'.i = 1
      BY <1>3, <3>1 DEF Following
    <3> HIDE DEF buf, a
    <3> QED BY <3>1, <3>2, <3>3, <3>4
  <2>3. parser'.buf = <<>> /\ parser'.last = buf /\ parser'.lost = bms.lost
        /\ DOMAIN parser' = {"buf", "last", "lost"}
    BY <2>1
  <2>4. bms'.lost = 0 => parser'.buf = [j \in 1..(NextNote'.i - 1) |-> [n |-> NextNote'.n, i |-> j]]
    <3> SUFFICES ASSUME bms'.lost = 0
                 PROVE  parser'.buf = [j \in 1..(NextNote'.i - 1) |-> [n |-> NextNote'.n, i |-> j]]
      OBVIOUS
    <3>1. 1..(NextNote'.i - 1) = {}
      BY <1>2, <2>2
    <3> QED BY <2>3, <3>1
  <2>5. parser'.lost = 0 =>
          \A k \in DOMAIN parser'.last : parser'.last[k] = [n |-> parser'.last[1].n, i |-> k]
    <3> HIDE DEF buf, a
    <3> QED BY <2>2, <2>3
  <2>6. DOMAIN bms' = {"n", "wire", "up", "lost"} /\ bms'.n \in Nat /\ bms'.lost \in Nat
    BY <1>2 DEF BmsInv
  <2>7. DOMAIN parser' = {"buf", "last", "lost"}
    BY <2>3
  <2>8. \A k \in 1..Len(bms'.wire) :
          Following(bms'.wire[k]) = IF k = Len(bms'.wire) THEN [n |-> bms'.n + 1, i |-> 1]
                                    ELSE bms'.wire[k + 1]
    BY <1>2, <1>3
  <2>9. bms'.up = TRUE
    BY <1>2, <1>4
  <2> HIDE DEF buf, a
  <2> QED BY <1>3, <2>4, <2>5, <2>6, <2>7, <2>8, <2>9 DEF BmsInv
<1>7. CASE ~(Len(buf) >= Notifications)
  <2>1. DOMAIN parser' = DOMAIN parser /\ parser'.buf = buf /\ parser'.last = parser.last
        /\ parser'.lost = parser.lost
    BY <1>1, <1>7 DEF BmsInv
  <2>2. ASSUME bms.lost = 0 PROVE NextNote'.i - 1 = a.i /\ NextNote'.n = a.n
    <3>a. a.i \in 1..Notifications /\ Notifications \in Nat
      BY <1>3, ReadersAssumption
    <3>b. Len(buf) = a.i /\ ~(Len(buf) >= Notifications)
      BY <1>5, <1>7, <2>2
    <3>1. a.i # Notifications /\ a.i \in Nat
      <4> HIDE DEF a, buf
      <4> QED BY <3>a, <3>b
    <3> QED BY <1>3, <3>1 DEF Following
  <2>3. bms'.lost = 0 => parser'.buf = [j \in 1..(NextNote'.i - 1) |-> [n |-> NextNote'.n, i |-> j]]
    BY <1>2, <1>5, <2>1, <2>2
  <2>4. parser'.lost = 0 =>
          \A k \in DOMAIN parser'.last : parser'.last[k] = [n |-> parser'.last[1].n, i |-> k]
    <3>1. parser.lost = 0 =>
            \A k \in DOMAIN parser.last : parser.last[k] = [n |-> parser.last[1].n, i |-> k]
      BY DEF BmsInv
    <3> QED BY <2>1, <3>1
  <2>6. DOMAIN bms' = {"n", "wire", "up", "lost"} /\ bms'.n \in Nat /\ bms'.lost \in Nat
    BY <1>2 DEF BmsInv
  <2>7. DOMAIN parser' = {"buf", "last", "lost"}
    BY <2>1 DEF BmsInv
  <2>8. \A k \in 1..Len(bms'.wire) :
          Following(bms'.wire[k]) = IF k = Len(bms'.wire) THEN [n |-> bms'.n + 1, i |-> 1]
                                    ELSE bms'.wire[k + 1]
    BY <1>2, <1>3
  <2>9. bms'.up = TRUE
    BY <1>2, <1>4
  <2> HIDE DEF buf, a
  <2> QED BY <1>3, <2>3, <2>4, <2>6, <2>7, <2>8, <2>9 DEF BmsInv
<1> QED BY <1>6, <1>7

(* A response is sent: its notifications follow those on the line.          *)
LEMMA ResponseSent ==
  ASSUME BmsInv, AnswerPoll
  PROVE  BmsInv'
<1> DEFINE S == [n : Nat, i : 1..Notifications]
           w == bms.wire  resp == [k \in 1..Notifications |-> [n |-> bms.n + 1, i |-> k]]
           new == w \o resp
<1>1. /\ bms.up = TRUE /\ UNCHANGED parser
      /\ bms' = [bms EXCEPT !.n = @ + 1, !.wire = @ \o resp]
  BY DEF AnswerPoll, BmsInv
<1>2. /\ DOMAIN bms' = DOMAIN bms /\ bms'.n = bms.n + 1 /\ bms'.wire = new
      /\ bms'.up = bms.up /\ bms'.lost = bms.lost
  BY <1>1 DEF BmsInv
<1>3. Notifications \in Nat /\ Notifications > 0 /\ bms.n \in Nat
  BY ReadersAssumption DEF BmsInv
<1>4. /\ resp \in Seq(S) /\ Len(resp) = Notifications
      /\ \A k \in 1..Notifications : resp[k] = [n |-> bms.n + 1, i |-> k]
  <2>1. resp \in [1..Notifications -> S]
    BY <1>3
  <2>2. \A k \in 1..Notifications : resp[k] = [n |-> bms.n + 1, i |-> k]
    OBVIOUS
  <2> HIDE DEF resp, S
  <2> QED BY <1>3, <2>1, <2>2
<1>5. w \in Seq(S) /\ Len(w) \in Nat
  BY LenProperties DEF BmsInv
<1>6. \A k \in 1..Len(w) : Following(w[k]) = IF k = Len(w) THEN [n |-> bms.n + 1, i |-> 1] ELSE w[k + 1]
  BY DEF BmsInv
<1>7. NextNote = IF w = <<>> THEN [n |-> bms.n + 1, i |-> 1] ELSE w[1]
  BY DEF NextNote
<1> HIDE DEF S, w, resp, new
<1>8. NextNote' = IF new = <<>> THEN [n |-> (bms.n + 1) + 1, i |-> 1] ELSE new[1]
  BY <1>2 DEF NextNote
<1>9. /\ new \in Seq(S) /\ Len(new) = Len(w) + Notifications
      /\ \A k \in 1..Len(w) : new[k] = w[k]
      /\ \A k \in 1..Notifications : new[Len(w) + k] = resp[k]
  <2>1. new \in Seq(S) /\ Len(new) = Len(w) + Len(resp)
    BY <1>4, <1>5, ConcatProperties DEF new
  <2>2. \A k \in 1..(Len(w) + Len(resp)) : new[k] = IF k <= Len(w) THEN w[k] ELSE resp[k - Len(w)]
    BY <1>4, <1>5, ConcatProperties DEF new
  <2>3. ASSUME NEW k \in 1..Len(w) PROVE new[k] = w[k]
    BY <1>3, <1>4, <1>5, <2>2
  <2>4. ASSUME NEW k \in 1..Notifications PROVE new[Len(w) + k] = resp[k]
    <3> DEFINE j == Len(w) + k
    <3>1. j \in 1..(Len(w) + Len(resp)) /\ ~(j <= Len(w)) /\ j - Len(w) = k
      BY <1>3, <1>4, <1>5
    <3> HIDE DEF j
    <3>2. new[j] = resp[k]
      BY <2>2, <3>1
    <3> QED BY <3>2 DEF j
  <2> QED BY <1>4, <2>1, <2>3, <2>4
<1>10. ASSUME NEW k \in 1..Len(new)
       PROVE  Following(new[k]) = IF k = Len(new) THEN [n |-> bms'.n + 1, i |-> 1] ELSE new[k + 1]
  <2>1. CASE k < Len(w)
    <3>1. k \in 1..Len(w) /\ k + 1 \in 1..Len(w) /\ k # Len(w) /\ k # Len(new)
      BY <1>3, <1>5, <1>9, <2>1
    <3> QED BY <1>6, <1>9, <3>1
  <2>2. CASE k = Len(w)
    <3>1. k \in 1..Len(w) /\ 1 \in 1..Notifications /\ k # Len(new)
      BY <1>3, <1>5, <1>9, <2>2
    <3>2. new[k + 1] = [n |-> bms.n + 1, i |-> 1]
      BY <1>4, <1>9, <2>2, <3>1
    <3> QED BY <1>6, <1>9, <2>2, <3>1, <3>2
  <2>3. CASE k > Len(w)
    <3> DEFINE j == k - Len(w)
    <3>1. j \in 1..Notifications /\ k = Len(w) + j /\ (k = Len(new) <=> j = Notifications)
      BY <1>3, <1>5, <1>9, <2>3
    <3> HIDE DEF j
    <3>2. new[k] = [n |-> bms.n + 1, i |-> j]
      BY <1>4, <1>9, <3>1
    <3>3. CASE j = Notifications
      <4>1. Following(new[k]) = [n |-> (bms.n + 1) + 1, i |-> 1]
        BY <3>2, <3>3 DEF Following
      <4> QED BY <1>2, <3>1, <3>3, <4>1
    <3>4. CASE j # Notifications
      <4>1. j + 1 \in 1..Notifications /\ k + 1 = Len(w) + (j + 1)
        BY <1>3, <1>5, <3>1, <3>4
      <4>2. new[k + 1] = [n |-> bms.n + 1, i |-> j + 1]
        BY <1>4, <1>9, <4>1
      <4>3. Following(new[k]) = [n |-> bms.n + 1, i |-> j + 1]
        BY <3>2, <3>4 DEF Following
      <4> QED BY <3>1, <3>4, <4>2, <4>3
    <3> QED BY <3>3, <3>4
  <2> QED BY <1>5, <1>9, <2>1, <2>2, <2>3
<1>11. NextNote' = NextNote
  <2>1. new # <<>>
    <3>1. Len(new) > 0
      BY <1>3, <1>5, <1>9
    <3> QED BY <3>1
  <2>2. CASE w = <<>>
    <3>1. Len(w) = 0 /\ 1 \in 1..Notifications
      BY <1>3, <2>2
    <3>2. new[Len(w) + 1] = resp[1] /\ Len(w) + 1 = 1
      BY <1>9, <3>1
    <3> QED BY <1>4, <1>7, <1>8, <2>1, <2>2, <3>1, <3>2
  <2>3. CASE w # <<>>
    <3>1. 1 \in 1..Len(w)
      BY <1>5, <2>3, EmptySeq, LenProperties
    <3> QED BY <1>7, <1>8, <1>9, <2>1, <2>3, <3>1
  <2> QED BY <2>2, <2>3
<1>12. bms'.n \in Nat
  BY <1>2, <1>3
<1>13. /\ bms.lost \in Nat /\ DOMAIN bms = {"n", "wire", "up", "lost"}
       /\ DOMAIN parser = {"buf", "last", "lost"}
       /\ bms.lost = 0 => parser.buf = [j \in 1..(NextNote.i - 1) |-> [n |-> NextNote.n, i |-> j]]
       /\ parser.lost = 0 =>
            \A k \in DOMAIN parser.last : parser.last[k] = [n |-> parser.last[1].n, i |-> k]
  BY DEF BmsInv
<1> QED BY <1>1, <1>2, <1>9, <1>10, <1>11, <1>12, <1>13 DEF BmsInv, S

(* Every step at the end of the BMS keeps the invariant.                    *)
LEMMA BmsInvStep ==
  ASSUME BmsInv, BmsNext
  PROVE  BmsInv'
<1>1. CASE AnswerPoll
  BY <1>1, ResponseSent
<1>2. CASE Feed
  BY <1>2, FeedStep
<1>3. CASE LoseNotification
  <2>1. /\ DOMAIN bms' = DOMAIN bms /\ bms'.wire = Tail(bms.wire) /\ bms'.n = bms.n
        /\ bms'.up = bms.up /\ bms'.lost = bms.lost + 1 /\ bms.wire # <<>> /\ UNCHANGED parser
    BY <1>3 DEF LoseNotification, BmsInv
  <2>2. bms'.lost \in Nat /\ bms'.lost # 0 /\ bms.up = TRUE
    BY <2>1 DEF BmsInv
  <2> QED BY <2>1, <2>2, FirstGone DEF BmsInv
<1>4. CASE Connect
  <2>1. /\ DOMAIN bms' = DOMAIN bms /\ bms'.wire = bms.wire /\ bms'.n = bms.n
        /\ bms'.up = TRUE /\ bms'.lost = 0 /\ UNCHANGED parser /\ ~(bms.up = TRUE)
    BY <1>4 DEF Connect, BmsInv
  <2>2. bms.wire = <<>> /\ parser.buf = <<>>
    BY <2>1 DEF BmsInv
  <2>3. NextNote'.i = 1
    BY <2>1, <2>2 DEF NextNote
  <2>4. parser.buf = [j \in 1..(NextNote'.i - 1) |-> [n |-> NextNote'.n, i |-> j]]
    <3>1. 1..(NextNote'.i - 1) = {}
      BY <2>3
    <3> QED BY <2>2, <3>1
  <2> QED BY <2>1, <2>4 DEF BmsInv
<1>5. CASE Disconnect
  <2>1. /\ DOMAIN bms' = DOMAIN bms /\ bms'.wire = <<>> /\ bms'.n = bms.n
        /\ bms'.up = FALSE /\ bms'.lost = bms.lost
        /\ DOMAIN parser' = DOMAIN parser /\ parser'.buf = <<>> /\ parser'.last = parser.last
        /\ parser'.lost = parser.lost
    BY <1>5 DEF Disconnect, BmsInv
  <2>2. NextNote'.i = 1
    BY <2>1 DEF NextNote
  <2>3. parser'.buf = [j \in 1..(NextNote'.i - 1) |-> [n |-> NextNote'.n, i |-> j]]
    <3>1. 1..(NextNote'.i - 1) = {}
      BY <2>2
    <3> QED BY <2>1, <3>1
  <2>4. bms'.wire \in Seq([n : Nat, i : 1..Notifications]) /\ Len(bms'.wire) = 0
    BY <2>1, EmptySeq
  <2>5. \A k \in 1..Len(bms'.wire) :
          Following(bms'.wire[k]) = IF k = Len(bms'.wire) THEN [n |-> bms'.n + 1, i |-> 1]
                                    ELSE bms'.wire[k + 1]
    BY <2>4
  <2>6. /\ bms.lost \in Nat /\ bms.n \in Nat
        /\ DOMAIN bms = {"n", "wire", "up", "lost"} /\ DOMAIN parser = {"buf", "last", "lost"}
        /\ parser.lost = 0 =>
             \A k \in DOMAIN parser.last : parser.last[k] = [n |-> parser.last[1].n, i |-> k]
    BY DEF BmsInv
  <2> QED BY <2>1, <2>3, <2>4, <2>5, <2>6 DEF BmsInv
<1> QED BY <1>1, <1>2, <1>3, <1>4, <1>5 DEF BmsNext

(* What may stand in the buffers before a piece comes in, in every state.   *)
LEMMA BuffersHold == ReadersSpec => [](ChargerInv /\ BmsInv)
<1>1. ReadersInit => ChargerInv /\ BmsInv
  <2> SUFFICES ASSUME ReadersInit PROVE ChargerInv /\ BmsInv
    OBVIOUS
  <2>1. /\ gate = [n |-> 1, half |-> 1, wire |-> <<>>, menu |-> 0, waits |-> FALSE, answers |-> {},
                   sessions |-> 0]
        /\ serial = NewSession
        /\ bms = [n |-> 0, wire |-> <<>>, up |-> FALSE, lost |-> 0]
        /\ parser = [buf |-> <<>>, last |-> <<>>, lost |-> 0]
    BY DEF ReadersInit
  <2>2. <<>> \in Seq(WirePieces) /\ <<>> \in Seq([n : Nat, i : 1..Notifications]) /\ Len(<<>>) = 0
    BY EmptySeq
  <2>3. ShapeInv
    BY <2>1 DEF ShapeInv, NewSession
  <2>4. LineInv
    BY <2>1, <2>2, ReadersAssumption DEF LineInv
  <2>5. BufferInv
    <3>1. Standing(Coming, 0, <<>>) /\ KeptStatus(Coming, 0, <<>>, <<>>)
      BY DEF Standing, KeptStatus
    <3>2. serial.missed = 0 /\ serial.pending = <<>> /\ serial.buf = <<>>
      BY <2>1 DEF NewSession
    <3> QED BY <3>1, <3>2 DEF BufferInv
  <2>6. OneReport(serial.last)
    BY <2>1, NoKeys DEF NewSession, NoGateReading, Reading, OneReport, Field
  <2>7. BmsInv
    <3>1. NextNote.i = 1
      BY <2>1 DEF NextNote
    <3>2. 1..(NextNote.i - 1) = {}
      BY <3>1
    <3>3. parser.buf = [j \in 1..(NextNote.i - 1) |-> [n |-> NextNote.n, i |-> j]]
      BY <2>1, <3>2
    <3> QED BY <2>1, <2>2, <3>3 DEF BmsInv
  <2> QED BY <2>3, <2>4, <2>5, <2>6, <2>7 DEF ChargerInv
<1>2. ChargerInv /\ BmsInv /\ [ChargerNext \/ BmsNext]_readersVars => (ChargerInv /\ BmsInv)'
  <2> SUFFICES ASSUME ChargerInv, BmsInv, [ChargerNext \/ BmsNext]_readersVars
               PROVE  ChargerInv' /\ BmsInv'
    OBVIOUS
  <2>1. ASSUME UNCHANGED <<gate, serial>> PROVE ChargerInv'
    BY <2>1 DEF ChargerInv, ShapeInv, LineInv, BufferInv, Coming, Upcoming
  <2>2. ASSUME UNCHANGED <<bms, parser>> PROVE BmsInv'
    BY <2>2 DEF BmsInv, NextNote
  <2>3. CASE ChargerNext
    <3>1. UNCHANGED <<bms, parser>>
      BY <2>3, Zenon DEF ChargerNext, SendHalf, SendPrompt, LosePiece, StartSerial, StopSerial, ReadPiece,
                  ReadTimeout, PollRemote
    <3> QED BY <2>2, <2>3, <3>1, ChargerStep
  <2>4. CASE BmsNext
    <3>1. UNCHANGED <<gate, serial>>
      BY <2>4 DEF BmsNext, AnswerPoll, LoseNotification, Feed, Connect, Disconnect
    <3> QED BY <2>1, <2>4, <3>1, BmsInvStep
  <2>5. CASE UNCHANGED readersVars
    BY <2>1, <2>2, <2>5 DEF readersVars
  <2> QED BY <2>3, <2>4, <2>5
<1> QED BY <1>1, <1>2, PTL DEF ReadersSpec

(* A reading is one report, wherever pieces are lost, lines are cut by      *)
(* prompts, and sessions and connections begin and end: for the charger     *)
(* while its session has missed no more than one piece (read_loop,          *)
(* pwrgate::parse), for the BMS while nothing of the connection was lost    *)
(* (litime::Parser).                                                        *)
THEOREM WholeReadingsHold == ReadersSpec => []WholeReadings
<1>1. ChargerInv /\ BmsInv => WholeReadings
  BY DEF ChargerInv, BmsInv, OneReport, WholeReadings
<1> QED BY <1>1, BuffersHold, PTL

-----------------------------------------------------------------------------
\* The types: what is on the lines, in the buffers, and what was answered.
GateReplies == {"10", "N", "CR"}
Notes == [n : Nat, i : 1..Notifications]

GateIs ==
  /\ gate.wire \in Seq(Pieces) /\ gate.n >= 1 /\ gate.menu \in 0..MenuLength
  /\ gate.waits \in BOOLEAN /\ gate.answers \subseteq GateReplies
SerialIs ==
  /\ serial.buf \in Seq(Pieces) /\ serial.pending \in Seq(Pieces) /\ Len(serial.buf) <= MaxLine
  /\ serial.running \in BOOLEAN /\ serial.asked \in BOOLEAN
ParserIs ==
  /\ parser.buf \in Seq(Notes) /\ Len(parser.buf) < Notifications /\ bms.up \in BOOLEAN
ClientIs == client.last \in {"none", "cut", "whole", "stale"}

(* What the charger sends is a piece.                                       *)
LEMMA SentPieces ==
  /\ \A h \in 1..4, n \in 1..Reports : Piece(Halves[h], n) \in Pieces
  /\ \A kind \in Prompts, n \in {0, 1} : Piece(kind, n) \in Pieces
<1>1. ASSUME NEW h \in 1..4, NEW n \in 1..Reports PROVE Piece(Halves[h], n) \in Pieces
  <2> DEFINE numbers == 1..Reports
  <2>1. n \in numbers
    OBVIOUS
  <2>2. Halves[h] \in Range(Halves)
    BY DEF Range, Halves
  <2> HIDE DEF numbers
  <2>3. [kind |-> Halves[h], n |-> n] \in [kind : Range(Halves), n : numbers]
    BY <2>1, <2>2
  <2> QED BY <2>3 DEF Piece, Pieces, numbers
<1>2. ASSUME NEW kind \in Prompts, NEW n \in {0, 1} PROVE Piece(kind, n) \in Pieces
  BY DEF Piece, Pieces
<1> QED BY <1>1, <1>2

(* A reply of the program, heard by the menu.                               *)
LEMMA RepliesAre ==
  ASSUME NEW line
  PROVE  prompt_response(line) \in GateReplies \union {"none"}
BY DEF prompt_response, GateReplies

(* A prompt is answered: the buffer is empty, the menu one prompt further.  *)
LEMMA AnsweredTypes ==
  ASSUME ShapeInv, SerialIs, NEW line, serial' = Answered(line)
  PROVE  SerialIs'
<1>1. /\ serial'.buf = <<>> /\ serial'.pending = serial.pending
      /\ serial'.running = serial.running /\ serial'.asked = serial.asked
  BY DEF Answered, ShapeInv
<1>2. <<>> \in Seq(Pieces) /\ Len(<<>>) <= MaxLine
  BY EmptySeq, ReadersAssumption
<1> QED BY <1>1, <1>2 DEF SerialIs

(* The reply, heard by the menu.                                            *)
LEMMA HeardTypes ==
  ASSUME ShapeInv, NEW g, DOMAIN g = DOMAIN gate, g.wire \in Seq(Pieces), g.n >= 1,
         g.menu \in 0..MenuLength, g.waits \in BOOLEAN, g.answers \subseteq GateReplies,
         NEW line, gate' = Heard(prompt_response(line), g)
  PROVE  GateIs'
<1> DEFINE r == prompt_response(line)
<1>1. r \in GateReplies \union {"none"}
  BY RepliesAre
<1> HIDE DEF r
<1>2. CASE r = "none"
  BY <1>2 DEF Heard, GateIs, r
<1>3. CASE r # "none"
  <2>1. /\ gate'.wire = g.wire /\ gate'.n = g.n /\ gate'.waits = FALSE
        /\ gate'.answers = g.answers \union {r}
        /\ gate'.menu = IF g.menu > 0 THEN g.menu - 1 ELSE 0
    BY <1>3 DEF Heard, ShapeInv, r
  <2>2. gate'.menu \in 0..MenuLength
    BY <2>1, ReadersAssumption
  <2> QED BY <1>1, <1>3, <2>1, <2>2 DEF GateIs
<1> QED BY <1>2, <1>3

(* A line is handled: a prompt, a status line, a target line, or another.   *)
LEMMA LineTypes ==
  ASSUME ShapeInv, GateIs, SerialIs, NEW line \in Seq(Pieces), NEW low \in BOOLEAN,
         gate.wire # <<>>, HandleLine(line, low)
  PROVE  GateIs' /\ SerialIs'
<1> DEFINE read == [gate EXCEPT !.wire = Tail(@)]
           empty == [serial EXCEPT !.buf = <<>>]
           again == [read EXCEPT !.menu = IF low /\ ~serial.asked THEN MenuLength ELSE @]
<1>1. Tail(gate.wire) \in Seq(Pieces)
  BY HeadTailProperties DEF GateIs
<1>2. /\ DOMAIN read = DOMAIN gate /\ read.wire \in Seq(Pieces) /\ read.n = gate.n
      /\ read.menu = gate.menu /\ read.waits = gate.waits /\ read.answers = gate.answers
  BY <1>1 DEF ShapeInv
<1>3. /\ DOMAIN empty = DOMAIN serial /\ empty.buf = <<>> /\ empty.pending = serial.pending
      /\ empty.running = serial.running /\ empty.asked = serial.asked
  BY DEF ShapeInv
<1>4. /\ again.wire = read.wire /\ again.n = read.n /\ again.menu \in {read.menu, MenuLength}
      /\ again.waits = read.waits /\ again.answers = read.answers
  <2> HIDE DEF read
  <2> QED BY <1>2 DEF ShapeInv
<1>5. \/ serial' = Answered(line) /\ gate' = Heard(prompt_response(line), read)
      \/ serial' = [empty EXCEPT !.pending = line] /\ gate' = read
      \/ /\ serial' = [empty EXCEPT !.pending = <<>>, !.last = Reading(serial.pending, line),
                                    !.asked = @ \/ low]
         /\ gate' = again
      \/ serial' = empty /\ gate' = read
  BY DEF HandleLine
<1>6. <<>> \in Seq(Pieces) /\ Len(<<>>) <= MaxLine /\ MenuLength \in 0..MenuLength
  BY EmptySeq, ReadersAssumption
<1> HIDE DEF read, empty, again
<1>7. gate' = read => GateIs'
  BY <1>2 DEF GateIs
<1>8. gate' = again => GateIs'
  BY <1>2, <1>4, <1>6 DEF GateIs
<1>9. CASE serial' = Answered(line) /\ gate' = Heard(prompt_response(line), read)
  <2>1. /\ read.n >= 1 /\ read.menu \in 0..MenuLength /\ read.waits \in BOOLEAN
        /\ read.answers \subseteq GateReplies
    BY <1>2 DEF GateIs
  <2>2. GateIs'
    BY <1>2, <1>9, <2>1, HeardTypes
  <2> QED BY <1>9, <2>2, AnsweredTypes
<1>10. CASE serial' = [empty EXCEPT !.pending = line] /\ gate' = read
  <2>1. /\ serial'.buf = <<>> /\ serial'.pending = line
        /\ serial'.running = serial.running /\ serial'.asked = serial.asked
    BY <1>3, <1>10 DEF ShapeInv
  <2> QED BY <1>6, <1>7, <1>10, <2>1 DEF SerialIs
<1>11. CASE /\ serial' = [empty EXCEPT !.pending = <<>>, !.last = Reading(serial.pending, line),
                                       !.asked = @ \/ low]
            /\ gate' = again
  <2>1. serial'.buf = <<>> /\ serial'.pending = <<>> /\ serial'.running = serial.running
    BY <1>3, <1>11 DEF ShapeInv
  <2>2. serial'.asked = (serial.asked \/ low)
    BY <1>3, <1>11 DEF ShapeInv
  <2>3. serial'.asked \in BOOLEAN
    BY <2>2, Zenon
  <2> QED BY <1>6, <1>8, <1>11, <2>1, <2>3 DEF SerialIs
<1>12. CASE serial' = empty /\ gate' = read
  BY <1>3, <1>6, <1>7, <1>12 DEF SerialIs
<1> QED BY <1>5, <1>9, <1>10, <1>11, <1>12

(* One step of the charger or of its reader.                                *)
LEMMA ChargerTypes ==
  ASSUME ShapeInv, GateIs, SerialIs, ClientIs, ChargerNext
  PROVE  GateIs' /\ SerialIs' /\ ClientIs'
<1>1. MenuLength \in 0..MenuLength /\ <<>> \in Seq(Pieces) /\ Len(<<>>) <= MaxLine
  BY EmptySeq, ReadersAssumption
<1>2. CASE SendHalf
  <2> DEFINE p == Piece(Halves[gate.half], gate.n)
  <2>1. /\ gate'.wire = Append(gate.wire, p) /\ gate'.n \in {gate.n, gate.n + 1}
        /\ gate'.menu = gate.menu /\ gate'.waits = gate.waits /\ gate'.answers = gate.answers
    BY <1>2 DEF SendHalf, ShapeInv
  <2>2. UNCHANGED <<serial, client>> /\ gate.n <= Reports
    BY <1>2 DEF SendHalf
  <2>3. gate.half \in 1..4 /\ gate.n \in 1..Reports
    BY <2>2, ReadersAssumption DEF ShapeInv, GateIs
  <2>4. p \in Pieces
    BY <2>3, SentPieces
  <2> HIDE DEF p
  <2>5. gate'.wire \in Seq(Pieces)
    BY <2>1, <2>4, AppendProperties DEF GateIs
  <2>6. gate'.n >= 1
    BY <2>1, <2>3
  <2> QED BY <2>1, <2>2, <2>5, <2>6 DEF GateIs, SerialIs, ClientIs
<1>3. CASE SendPrompt
  <2>1. PICK kind \in Prompts : \E newline \in {0, 1} :
            gate' = [gate EXCEPT !.wire = Append(@, Piece(kind, newline)), !.waits = TRUE]
    BY <1>3, Zenon DEF SendPrompt
  <2>2. PICK newline \in {0, 1} :
            gate' = [gate EXCEPT !.wire = Append(@, Piece(kind, newline)), !.waits = TRUE]
    BY <2>1, Zenon
  <2> DEFINE p == Piece(kind, newline)
  <2>3. p \in Pieces
    BY SentPieces
  <2>4. /\ gate'.wire = Append(gate.wire, p) /\ gate'.n = gate.n
        /\ gate'.menu = gate.menu /\ gate'.waits = TRUE /\ gate'.answers = gate.answers
    BY <2>2 DEF ShapeInv
  <2> HIDE DEF p
  <2>5. UNCHANGED <<serial, client>>
    BY <1>3, Zenon DEF SendPrompt
  <2>6. gate'.wire \in Seq(Pieces)
    BY <2>3, <2>4, AppendProperties DEF GateIs
  <2> QED BY <2>4, <2>5, <2>6 DEF GateIs, SerialIs, ClientIs
<1>4. CASE LosePiece
  <2>1. /\ gate'.wire = Tail(gate.wire) /\ gate'.n = gate.n /\ gate'.menu = gate.menu
        /\ gate'.answers = gate.answers /\ gate.wire # <<>> /\ UNCHANGED client
    BY <1>4 DEF LosePiece, ShapeInv
  <2>2. gate'.waits = (gate.waits /\ gate.wire[1].kind \notin Prompts)
    BY <1>4 DEF LosePiece, ShapeInv
  <2>3. gate'.waits \in BOOLEAN
    BY <2>2, Zenon
  <2>4. gate'.wire \in Seq(Pieces)
    BY <2>1, HeadTailProperties DEF GateIs
  <2>5. /\ serial'.buf = serial.buf /\ serial'.pending = serial.pending
        /\ serial'.running = serial.running /\ serial'.asked = serial.asked
    BY <1>4 DEF LosePiece, ShapeInv
  <2> QED BY <2>1, <2>3, <2>4, <2>5 DEF GateIs, SerialIs, ClientIs
<1>5. CASE StartSerial
  <2>1. /\ gate'.wire = <<>> /\ gate'.n = gate.n /\ gate'.menu = MenuLength
        /\ gate'.waits = FALSE /\ gate'.answers = gate.answers /\ UNCHANGED client
    BY <1>5 DEF StartSerial, ShapeInv
  <2>2. /\ serial'.buf = <<>> /\ serial'.pending = <<>>
        /\ serial'.running = TRUE /\ serial'.asked = FALSE
    BY <1>5 DEF StartSerial, NewSession
  <2> QED BY <1>1, <2>1, <2>2 DEF GateIs, SerialIs, ClientIs
<1>6. CASE StopSerial
  <2>1. /\ serial'.buf = serial.buf /\ serial'.pending = serial.pending
        /\ serial'.running = FALSE /\ serial'.asked = serial.asked /\ UNCHANGED <<gate, client>>
    BY <1>6 DEF StopSerial, ShapeInv
  <2> QED BY <2>1 DEF GateIs, SerialIs, ClientIs
<1>7. ASSUME NEW low \in BOOLEAN, ReadPiece(low) PROVE GateIs' /\ SerialIs' /\ ClientIs'
  <2> DEFINE p == Head(gate.wire)
             line == IF Len(serial.buf) < MaxLine THEN Append(serial.buf, p) ELSE serial.buf
  <2>1. /\ gate.wire # <<>> /\ UNCHANGED client
        /\ IF EndsLine(p) THEN HandleLine(line, low)
           ELSE serial' = [serial EXCEPT !.buf = line] /\ gate' = [gate EXCEPT !.wire = Tail(@)]
    BY <1>7, Zenon DEF ReadPiece
  <2>2. p \in Pieces /\ Tail(gate.wire) \in Seq(Pieces)
    BY <2>1, HeadTailProperties DEF GateIs
  <2>3. line \in Seq(Pieces) /\ Len(line) <= MaxLine
    <3> HIDE DEF p
    <3>1. serial.buf \in Seq(Pieces) /\ Len(serial.buf) \in Nat /\ Len(serial.buf) <= MaxLine
      BY LenProperties DEF SerialIs
    <3>2. Append(serial.buf, p) \in Seq(Pieces) /\ Len(Append(serial.buf, p)) = Len(serial.buf) + 1
      BY <2>2, <3>1, AppendProperties
    <3> QED BY <3>1, <3>2, ReadersAssumption
  <2> HIDE DEF p, line
  <2>4. CASE EndsLine(p)
    BY <2>1, <2>3, <2>4, LineTypes DEF ClientIs
  <2>5. CASE ~EndsLine(p)
    <3>1. /\ serial'.buf = line /\ serial'.pending = serial.pending
          /\ serial'.running = serial.running /\ serial'.asked = serial.asked
      BY <2>1, <2>5 DEF ShapeInv
    <3>2. /\ gate'.wire = Tail(gate.wire) /\ gate'.n = gate.n /\ gate'.menu = gate.menu
          /\ gate'.waits = gate.waits /\ gate'.answers = gate.answers
      BY <2>1, <2>5 DEF ShapeInv
    <3> QED BY <2>1, <2>2, <2>3, <3>1, <3>2 DEF GateIs, SerialIs, ClientIs
  <2> QED BY <2>4, <2>5
<1>8. CASE ReadTimeout
  <2>1. /\ gate' = Heard(prompt_response(serial.buf), gate) /\ serial' = Answered(serial.buf)
        /\ UNCHANGED client
    BY <1>8, Zenon DEF ReadTimeout
  <2>2. /\ gate.wire \in Seq(Pieces) /\ gate.n >= 1 /\ gate.menu \in 0..MenuLength
        /\ gate.waits \in BOOLEAN /\ gate.answers \subseteq GateReplies
    BY DEF GateIs
  <2>3. GateIs'
    BY <2>1, <2>2, HeardTypes
  <2> QED BY <2>1, <2>3, AnsweredTypes DEF ClientIs
<1>9. CASE PollRemote
  <2>1. PICK answer \in charger_json(serial.last) :
          LET body == http_get(answer)
          IN  client' = [fetches |-> client.fetches + 1,
                         last |-> IF parse_json(body) THEN body ELSE client.last]
    BY <1>9, Zenon DEF PollRemote
  <2> DEFINE body == http_get(answer)
  <2>2. parse_json(body) => body \in {"cut", "whole", "stale"}
    BY DEF parse_json
  <2>3. client'.last = IF parse_json(body) THEN body ELSE client.last
    BY <2>1
  <2> HIDE DEF body
  <2>4. ClientIs'
    BY <2>2, <2>3 DEF ClientIs
  <2>5. UNCHANGED <<gate, serial>>
    BY <1>9, Zenon DEF PollRemote
  <2> QED BY <2>4, <2>5 DEF GateIs, SerialIs
<1> QED BY <1>2, <1>3, <1>4, <1>5, <1>6, <1>7, <1>8, <1>9 DEF ChargerNext

(* One step of the BMS or of its parser.                                    *)
LEMMA ParserTypes ==
  ASSUME BmsInv, ParserIs, BmsNext
  PROVE  ParserIs'
<1>1. Notifications \in Nat \ {0} /\ <<>> \in Seq(Notes) /\ Len(<<>>) = 0
  BY EmptySeq, ReadersAssumption
<1>2. CASE AnswerPoll \/ LoseNotification
  <2>1. bms'.up = bms.up /\ UNCHANGED parser
    BY <1>2 DEF AnswerPoll, LoseNotification, BmsInv
  <2> QED BY <2>1 DEF ParserIs
<1>3. CASE Feed
  <2> DEFINE a == Head(bms.wire)  buf == Append(parser.buf, a)
  <2>1. /\ bms.wire # <<>> /\ bms' = [bms EXCEPT !.wire = Tail(@)]
        /\ parser' = IF Len(buf) >= Notifications THEN [buf |-> <<>>, last |-> buf, lost |-> bms.lost]
                     ELSE [parser EXCEPT !.buf = buf]
    BY <1>3, Zenon DEF Feed
  <2>2. a \in Notes
    BY <2>1, HeadTailProperties DEF BmsInv, Notes
  <2> HIDE DEF a
  <2>3. buf \in Seq(Notes) /\ Len(buf) \in Nat
    BY <2>2, AppendProperties, LenProperties DEF ParserIs
  <2>4. bms'.up = bms.up
    BY <2>1 DEF BmsInv
  <2> HIDE DEF buf
  <2>5. parser'.buf = IF Len(buf) >= Notifications THEN <<>> ELSE buf
    BY <2>1 DEF BmsInv
  <2> QED BY <1>1, <2>3, <2>4, <2>5 DEF ParserIs
<1>4. CASE Connect
  <2>1. bms'.up = TRUE /\ UNCHANGED parser
    BY <1>4 DEF Connect, BmsInv
  <2> QED BY <2>1 DEF ParserIs
<1>5. CASE Disconnect
  <2>1. bms'.up = FALSE /\ parser'.buf = <<>>
    BY <1>5 DEF Disconnect, BmsInv
  <2>2. bms'.up \in BOOLEAN
    BY <2>1, Zenon
  <2>3. Len(parser'.buf) < Notifications /\ parser'.buf \in Seq(Notes)
    BY <1>1, <2>1
  <2> QED BY <2>2, <2>3, Zenon DEF ParserIs
<1> QED BY <1>2, <1>3, <1>4, <1>5 DEF BmsNext

(* Every piece on the serial line, in the line buffer and in the status     *)
(* line that is kept is half a line of a report or a prompt, the line       *)
(* buffer is never longer than its bound (read_loop's 1024 characters), and *)
(* the parser's buffer is always short of a response (litime::Parser).      *)
THEOREM ReadersTypes == ReadersSpec => []ReadersTypeOK
<1> DEFINE Types == GateIs /\ SerialIs /\ ParserIs /\ ClientIs
<1>1. ReadersInit => Types
  <2> SUFFICES ASSUME ReadersInit PROVE Types
    OBVIOUS
  <2>1. /\ gate = [n |-> 1, half |-> 1, wire |-> <<>>, menu |-> 0, waits |-> FALSE, answers |-> {},
                   sessions |-> 0]
        /\ serial = NewSession
        /\ bms = [n |-> 0, wire |-> <<>>, up |-> FALSE, lost |-> 0]
        /\ parser = [buf |-> <<>>, last |-> <<>>, lost |-> 0]
        /\ client.last = "none"
    BY DEF ReadersInit
  <2>2. /\ <<>> \in Seq(Pieces) /\ <<>> \in Seq(Notes) /\ Len(<<>>) = 0
        /\ 0 \in 0..MenuLength /\ 0 <= MaxLine /\ 0 < Notifications
    BY EmptySeq, ReadersAssumption
  <2>3. GateIs
    BY <2>1, <2>2 DEF GateIs
  <2>4. SerialIs
    BY <2>1, <2>2 DEF SerialIs, NewSession
  <2> QED BY <2>1, <2>2, <2>3, <2>4 DEF ParserIs, ClientIs
<1>2. ChargerInv /\ BmsInv /\ Types /\ [ChargerNext \/ BmsNext]_readersVars => Types'
  <2> SUFFICES ASSUME ChargerInv, BmsInv, Types, [ChargerNext \/ BmsNext]_readersVars PROVE Types'
    OBVIOUS
  <2>1. CASE ChargerNext
    <3>1. UNCHANGED <<bms, parser>>
      BY <2>1, Zenon DEF ChargerNext, SendHalf, SendPrompt, LosePiece, StartSerial, StopSerial, ReadPiece,
                  ReadTimeout, PollRemote
    <3>2. GateIs' /\ SerialIs' /\ ClientIs'
      BY <2>1, ChargerTypes DEF ChargerInv
    <3> QED BY <3>1, <3>2 DEF ParserIs
  <2>2. CASE BmsNext
    <3>1. UNCHANGED <<gate, serial, client>>
      BY <2>2, Zenon DEF BmsNext, AnswerPoll, LoseNotification, Feed, Connect, Disconnect
    <3>2. ParserIs'
      BY <2>2, ParserTypes
    <3> QED BY <3>1, <3>2 DEF GateIs, SerialIs, ClientIs
  <2>3. CASE UNCHANGED readersVars
    BY <2>3 DEF readersVars, GateIs, SerialIs, ParserIs, ClientIs
  <2> QED BY <2>1, <2>2, <2>3
<1>3. ChargerInv /\ BmsInv /\ Types => ReadersTypeOK
  <2> SUFFICES ASSUME ChargerInv, BmsInv, Types PROVE ReadersTypeOK
    OBVIOUS
  <2>1. ASSUME NEW s \in Seq(Pieces) PROVE Range(s) \subseteq Pieces
    <3>1. \A i \in DOMAIN s : s[i] \in Pieces
      BY LenProperties, ElementOfSeq
    <3> QED BY <3>1 DEF Range
  <2>2. serial.missed \in Nat
    BY DEF ChargerInv, ShapeInv
  <2> QED BY <2>1, <2>2 DEF GateIs, SerialIs, ParserIs, ClientIs, GateReplies, ReadersTypeOK
<1> QED BY <1>1, <1>2, <1>3, BuffersHold, PTL DEF ReadersSpec
=============================================================================
