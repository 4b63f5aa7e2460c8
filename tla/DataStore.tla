----------------------------- MODULE DataStore ------------------------------
(***************************************************************************)
(* The way of a reading through limonitor: DataStore::update and            *)
(* update_pwrgate put it into the history ring that the dashboard shows and *)
(* into the write buffer; the buffers go to the database when a reading     *)
(* arrives db_write_interval_s after the last write, and once at the end of *)
(* main(); a new process fills its rings from the database.                 *)
(*                                                                          *)
(* Abstractions: a reading is its number in its stream (timestamps grow);   *)
(* the parsers only hand over valid ones.  Each method runs under the store *)
(* mutex and is one action.  The database is two tables that survive the    *)
(* process; onDisk holds the contents that the loss of power may leave of   *)
(* them, which is up to the pragma in Database::migrate.                    *)
(***************************************************************************)
EXTENDS Naturals, Sequences

CONSTANTS
  Battery, Charger,  \* the two streams of readings
  MaxHistory,        \* size of the rings, history_size
  MaxReadings, MaxCrashes, MaxFaults   \* bounds: readings in all, crashes, refused writes

ASSUME StoreAssumption ==
  Battery # Charger /\ MaxHistory \in Nat \ {0} /\ MaxReadings \in Nat /\ MaxCrashes \in Nat /\ MaxFaults \in Nat

VARIABLES
  up,        \* the process runs
  stage,     \* of main(): "serving", then "sealed" and "closed" at its end
  db,        \* the store's database: "open", "closed", or "none" was attached
  ring,      \* ring_, pwrgate_ring_
  buf,       \* battery_buffer_, charger_buffer_
  table,     \* battery_readings, charger_readings
  onDisk,    \* the tables as a loss of power may leave them
  last,      \* history: number of the last reading of each stream
  wiped,     \* history: the readings that cleanup() deleted
  lost,      \* history: the other readings that will never be in the table
  late,      \* history: those that arrived after the flush at the end of main()
             \* or in a process without a database
  crashes, faults

world   == <<last, late, crashes, faults>>
vars    == <<up, stage, db, ring, buf, table, onDisk, last, wiped, lost, late, crashes, faults>>

Streams   == {Battery, Charger}
Empty     == [s \in Streams |-> <<>>]
Image(q)  == {q[i] : i \in DOMAIN q}
Drop(q, n) == SubSeq(q, n + 1, Len(q))
Newest_FromTheFront(q) == SubSeq(q, 1, IF Len(q) > MaxHistory THEN MaxHistory ELSE Len(q))
Newest_Untrimmed(q) == q
(* The last MaxHistory elements: what the ring keeps, what is loaded.       *)
Newest(q) == IF Len(q) > MaxHistory THEN Drop(q, Len(q) - MaxHistory) ELSE q
-----------------------------------------------------------------------------
(* The first start, on an empty database or without one.                    *)
Init ==
  /\ up = TRUE /\ stage = "serving" /\ db \in {"open", "none"}
  /\ ring = Empty /\ buf = Empty /\ table = Empty /\ onDisk = {Empty}
  /\ last = [s \in Streams |-> 0] /\ late = [s \in Streams |-> {}]
  /\ wiped = [s \in Streams |-> {}] /\ lost = [s \in Streams |-> {}]
  /\ crashes = 0 /\ faults = 0

(* How a flush can go wrong: the transaction of one stream does not begin,  *)
(* or one of its rows is refused.  Nobody looks at the result.              *)
Troubles == {"none", "batch", "row"} \X Streams
Fault(bad) == /\ bad[1] # "none" => faults < MaxFaults
              /\ faults' = IF bad[1] = "none" THEN faults ELSE faults + 1

(* What of a batch gets into the table.                                     *)
Stored(s, batch, bad) ==
  IF db # "open" \/ bad = <<"batch", s>> \/ batch = <<>> THEN <<>>
  ELSE IF bad = <<"row", s>> THEN Tail(batch) ELSE batch

With(s, rows) == [table EXCEPT ![s] = @ \o rows]

(* insert_battery_batch, then insert_charger_batch, one transaction each;   *)
(* the buffers are cleared in any case.                                     *)
Flush_ClearsBothFirst(pending, bad) ==
  LET b == Stored(Battery, pending[Battery], bad) IN
  /\ buf' = Empty
  /\ table' = With(Battery, b)
  /\ onDisk' = onDisk \cup {table'}
  /\ lost' = [lost EXCEPT ![Battery] = @ \cup (Image(pending[Battery]) \ Image(b))]
Flush(pending, bad) ==
  LET stored == [s \in Streams |-> Stored(s, pending[s], bad)] IN
  /\ buf' = Empty
  /\ table' = [s \in Streams |-> table[s] \o stored[s]]
  /\ onDisk' = onDisk \cup {With(Battery, stored[Battery]), table'}
  /\ lost' = [s \in Streams |-> lost[s] \cup (Image(pending[s]) \ Image(stored[s]))]

(* update(), update_pwrgate(): due says that the interval is over.          *)
Update(s, due, bad) ==
  LET new == last[s] + 1
      pending == [buf EXCEPT ![s] = Append(@, new)] IN
  /\ up /\ last[Battery] + last[Charger] < MaxReadings
  /\ last' = [last EXCEPT ![s] = new]
  /\ ring' = [ring EXCEPT ![s] = Newest(Append(@, new))]
  /\ late' = IF db = "none" \/ stage # "serving"
             THEN [late EXCEPT ![s] = @ \cup {new}] ELSE late
  /\ \/ /\ db # "none" /\ due /\ Fault(bad) /\ Flush(pending, bad)
     \/ /\ db # "none" /\ ~due /\ bad[1] = "none"
        /\ buf' = pending /\ UNCHANGED <<table, onDisk, lost, faults>>
     \/ /\ db = "none" /\ bad[1] = "none"
        /\ lost' = [lost EXCEPT ![s] = @ \cup {new}]
        /\ UNCHANGED <<table, onDisk, buf, faults>>
  /\ UNCHANGED <<up, stage, db, wiped, crashes>>

(* Database::cleanup, from the maintenance thread: of every table the rows  *)
(* up to some age, and a checkpoint at the end.                             *)
Cleanup_Newest(age) ==
  /\ up /\ stage = "serving" /\ db = "open"
  /\ \A s \in Streams : age[s] <= Len(table[s])
  /\ table' = [s \in Streams |-> SubSeq(table[s], 1, Len(table[s]) - age[s])]
  /\ wiped' = [s \in Streams |-> wiped[s] \cup (Image(table[s]) \ Image(table'[s]))]
  /\ onDisk' = {table'}
  /\ UNCHANGED <<up, stage, db, ring, buf, world, lost>>
Cleanup(age) ==
  /\ up /\ stage = "serving" /\ db = "open"
  /\ \A s \in Streams : age[s] <= Len(table[s])
  /\ table' = [s \in Streams |-> Drop(table[s], age[s])]
  /\ wiped' = [s \in Streams |-> wiped[s] \cup (Image(table[s]) \ Image(table'[s]))]
  /\ onDisk' = {table'}
  /\ UNCHANGED <<up, stage, db, ring, buf, world, lost>>

(* The WAL checkpoint: the observer's, the maintenance thread's, main()'s   *)
(* at its end, or SQLite's own.                                             *)
Checkpoint ==
  /\ up /\ db = "open" /\ onDisk' = {table}
  /\ UNCHANGED <<up, stage, db, ring, buf, table, world, wiped, lost>>

ShutdownFlush_Forgotten(bad) ==
  /\ up /\ stage = "serving" /\ stage' = "sealed" /\ bad[1] = "none"
  /\ UNCHANGED <<up, db, ring, buf, table, onDisk, world, wiped, lost>>
(* The end of main(): flush_db while readings still arrive, ...             *)
ShutdownFlush(bad) ==
  /\ up /\ stage = "serving" /\ stage' = "sealed"
  /\ \/ db = "none" /\ bad[1] = "none" /\ UNCHANGED <<buf, table, onDisk, lost, faults>>
     \/ db # "none" /\ Fault(bad) /\ Flush(buf, bad)
  /\ UNCHANGED <<up, db, ring, last, late, wiped, crashes>>

(* ... then Database::close with its own checkpoint, while the BLE manager  *)
(* (or the demo thread) still delivers, ...                                 *)
CloseDb ==
  /\ up /\ stage = "sealed" /\ stage' = "closed"
  /\ db' = IF db = "open" THEN "closed" ELSE db
  /\ onDisk' = IF db = "open" THEN {table} ELSE onDisk
  /\ UNCHANGED <<up, ring, buf, table, world, wiped, lost>>

(* ... and the process ends, with it the rings and the buffers.             *)
Gone(rest) ==
  /\ up' = FALSE /\ stage' = "serving" /\ db' = "none" /\ ring' = Empty /\ buf' = Empty
  /\ lost' = [s \in Streams |-> lost[s] \cup rest[s]]

Exit ==
  /\ up /\ stage = "closed"
  /\ Gone([s \in Streams |-> Image(buf[s])])
  /\ UNCHANGED <<table, onDisk, world, wiped>>

(* The process dies; in the middle of a flush the transaction of the        *)
(* battery, or both, are committed and the buffers not yet cleared.         *)
Crash(written) ==
  /\ up /\ crashes < MaxCrashes /\ crashes' = crashes + 1
  /\ written # {} => db = "open"
  /\ table' = [s \in Streams |-> IF s \in written THEN table[s] \o buf[s] ELSE table[s]]
  /\ onDisk' = onDisk \cup {With(Battery, IF Battery \in written THEN buf[Battery] ELSE <<>>),
                            table'}
  /\ Gone([s \in Streams |-> Image(buf[s]) \ Image(table'[s])])
  /\ UNCHANGED <<last, late, wiped, faults>>

(* The power fails.  With synchronous=NORMAL the WAL is synced only by a    *)
(* checkpoint: the database comes back as it was then, or after some of the *)
(* commits since.                                                           *)
PowerLoss(left) ==
  /\ up /\ crashes < MaxCrashes /\ crashes' = crashes + 1
  /\ table' = left /\ onDisk' = {left}
  /\ Gone([s \in Streams |-> Image(buf[s]) \cup (Image(table[s]) \ Image(left[s]))])
  /\ UNCHANGED <<last, late, wiped, faults>>

Restart_Buffers(opened) ==
  /\ ~up /\ up' = TRUE
  /\ \/ opened /\ db' = "open" /\ ring' = [s \in Streams |-> Newest(table[s])] /\ buf' = ring'
     \/ ~opened /\ UNCHANGED <<db, ring, buf>>
  /\ UNCHANGED <<stage, table, onDisk, world, wiped, lost>>
(* main() at its start: the newest rows go through update() as new readings *)
(* do, with loading_history_ set.                                           *)
Restart(opened) ==
  /\ ~up /\ up' = TRUE
  /\ \/ opened /\ db' = "open" /\ ring' = [s \in Streams |-> Newest(table[s])]
     \/ ~opened /\ UNCHANGED <<db, ring>>
  /\ UNCHANGED <<stage, buf, table, onDisk, world, wiped, lost>>

Next ==
  \/ \E s \in Streams, due \in BOOLEAN, bad \in Troubles : Update(s, due, bad)
  \/ \E age \in [Streams -> 0..MaxReadings] : Cleanup(age)
  \/ Checkpoint \/ CloseDb \/ Exit
  \/ \E bad \in Troubles : ShutdownFlush(bad)
  \/ \E written \in {{}, {Battery}, Streams} : Crash(written)
  \/ \E left \in onDisk : PowerLoss(left)
  \/ \E opened \in BOOLEAN : Restart(opened)

Spec == Init /\ [][Next]_vars
-----------------------------------------------------------------------------
(* The types, and the rings never grow beyond history_size.                 *)
TypeOK ==
  /\ up \in BOOLEAN /\ stage \in {"serving", "sealed", "closed"}
  /\ db \in {"open", "closed", "none"}
  /\ ring \in [Streams -> Seq(Nat)] /\ buf \in [Streams -> Seq(Nat)]
  /\ \A s \in Streams : Len(ring[s]) <= MaxHistory
  /\ table \in [Streams -> Seq(Nat)] /\ onDisk \subseteq [Streams -> Seq(Nat)]
  /\ last \in [Streams -> Nat] /\ late \in [Streams -> SUBSET Nat]
  /\ wiped \in [Streams -> SUBSET Nat] /\ lost \in [Streams -> SUBSET Nat]
  /\ crashes \in 0..MaxCrashes /\ faults \in 0..MaxFaults

Increasing(q) == \A i, j \in DOMAIN q : i < j => q[i] < q[j]
Below(q, r)   == \A i \in DOMAIN q, j \in DOMAIN r : q[i] < r[j]

(* No reading is stored twice or out of order, over any number of restarts: *)
(* the rows of the table, then the buffer, are in the order of the          *)
(* readings, and none of them twice (set_loading_history: the history that  *)
(* is loaded is not inserted again).                                        *)
InOrder ==
  \A s \in Streams :
    /\ Increasing(table[s]) /\ Increasing(buf[s]) /\ Below(table[s], buf[s])
    /\ \A id \in Image(table[s]) \cup Image(buf[s]) : id <= last[s]

(* A reading that arrived is in the table, in the buffer, deleted by age,   *)
(* or it met a fault, a crash, or a process without a database.  FatesSpec, *)
(* which is checked, says this and more; the proof of it begins here.       *)
NothingVanishes ==
  \A s \in Streams :
    Image(table[s]) \cup Image(buf[s]) \cup wiped[s] \cup lost[s] = 1..last[s]

(* As long as nothing dies and the database refuses nothing, only readings  *)
(* are lost that arrive without a database or after the flush at the end of *)
(* main().                                                                  *)
OnlyLateReadingsLost ==
  crashes = 0 /\ faults = 0 => \A s \in Streams : lost[s] \subseteq late[s]

(* The dashboard shows the end of what is stored without a hole: a row that *)
(* is not in the ring is older than all of the ring, and there are such     *)
(* rows only when the ring is full.                                         *)
HistoryComplete ==
  up /\ db = "open" =>
    \A s \in Streams :
      /\ Increasing(ring[s])
      /\ \A id \in Image(table[s]) \ Image(ring[s]) :
           Len(ring[s]) = MaxHistory /\ \A later \in Image(ring[s]) : id < later

(* A table only grows at its end; rows leave it at one of its ends, by age  *)
(* or with the power.                                                       *)
AppendOrTrim ==
  [][\A s \in Streams :
       \/ Len(table'[s]) >= Len(table[s]) /\ table[s] = SubSeq(table'[s], 1, Len(table[s]))
       \/ up' /\ table'[s] = Drop(table[s], Len(table[s]) - Len(table'[s]))
       \/ ~up' /\ table'[s] = SubSeq(table[s], 1, Len(table'[s]))]_vars

(* What becomes of a reading is as ReadingFates says, whatever the rings,   *)
(* the buffers, the transactions and the ends of the process do: a reading  *)
(* has one fate, and one that was deleted or lost does not come back, not   *)
(* with a restart that loads the history, nor with a crash within a flush.  *)
Fates == INSTANCE ReadingFates WITH
  Sources <- Streams, count <- last,
  waiting <- [s \in Streams |-> Image(buf[s])],
  stored  <- [s \in Streams |-> Image(table[s])],
  deleted <- wiped
FatesSpec == Fates!FatesSpec

(* What the comment in Database::migrate says: every commit is durable even *)
(* if power is lost.                                                        *)
CommitIsDurable ==
  [][\A s \in Streams : Image(table[s]) \subseteq Image(table'[s]) \cup wiped'[s]]_vars
=============================================================================
