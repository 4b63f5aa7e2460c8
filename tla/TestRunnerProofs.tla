-------------------------- MODULE TestRunnerProofs --------------------------
(***************************************************************************)
(* Proofs about TestRunner, for every number of schedules, every batch size *)
(* and every bound.  RowsInv is the strengthening that OneOpenRow and       *)
(* EndedIsFinal need: the run under way is the last row, and no row of an   *)
(* earlier, unrecorded end is mistaken for it.                              *)
(***************************************************************************)
EXTENDS TestRunner, SequenceTheorems, TLAPS

Results == {"running", "finished", "swept"}

(* What the rows, the telemetry and the plan see of a step that is not      *)
(* about them.                                                              *)
RowsKept == UNCHANGED <<rows, running, cur, orphans>> /\ (running => up' = up)
TeleKept == UNCHANGED <<running, cur, buf, tele, taken, lost, crashes>>
PlanKept == UNCHANGED <<due, scan, ran, crashes>>

(* Steps as the table test_runs sees them.                                  *)
LEMMA RowSteps ==
  ASSUME [Next]_vars
  PROVE  \/ RowsKept
         \/ \E k \in Kinds : StartTest(k)
         \/ \E m \in BOOLEAN, bad \in Faults : FinishTest(m, bad)
         \/ \E p, w : Die(p, w)
         \/ \E o \in BOOLEAN : Restart(o)
<1>1. CASE UNCHANGED vars
  BY <1>1 DEF vars, RowsKept
<1>2. CASE \E b \in Levels : Battery(b)
  BY <1>2 DEF Battery, RowsKept, runner, tables, history
<1>3. CASE SetMaintenance \/ DurationOver \/ \E bad \in Faults : TickSample(bad)
  BY <1>3 DEF SetMaintenance, DurationOver, TickSample, RowsKept, runner, tables, history
<1>4. CASE \E k \in Kinds : HttpStart(k)
  BY <1>4 DEF HttpStart
<1>5. CASE \E m \in BOOLEAN, bad \in Faults : HttpStop(m, bad) \/ TickAbort(m, bad)
  BY <1>5 DEF HttpStop, TickAbort
<1>6. CASE \E s \in Scheds : BecomesDue(s) \/ ScheduleSkip(s)
  BY <1>6 DEF BecomesDue, ScheduleSkip, RowsKept, runner, tables, history
<1>7. CASE \E s \in Scheds, k \in Kinds : ScheduleStart(s, k)
  BY <1>7 DEF ScheduleStart
<1>8. CASE ScheduleScan \/ ScheduleAdvance \/ ScheduleEnd \/ CloseDb
  BY <1>8 DEF ScheduleScan, ScheduleAdvance, ScheduleEnd, CloseDb, RowsKept, runner, tables,
              history
<1>9. CASE Destroy
  <2>1. CASE FinishTest(FALSE, "none")
    BY <2>1 DEF Faults
  <2>2. CASE ~running /\ UNCHANGED <<dbOpen, runner, world, tables, plan, history, crashes,
                                     faults>>
    BY <2>2 DEF RowsKept, runner, tables, history
  <2> QED BY <1>9, <2>1, <2>2 DEF Destroy
<1>10. CASE \E w \in 0..BatchSize : Crash(w) \/ CrashInTick(w)
  BY <1>10 DEF Crash, CrashInTick
<1>11. CASE \E o \in BOOLEAN : Restart(o)
  BY <1>11
<1> QED BY <1>1, <1>2, <1>3, <1>4, <1>5, <1>6, <1>7, <1>8, <1>9, <1>10, <1>11 DEF Next

(* Steps as the telemetry sees them.                                        *)
LEMMA TeleSteps ==
  ASSUME [Next]_vars
  PROVE  \/ TeleKept
         \/ \E k \in Kinds : StartTest(k)
         \/ \E m \in BOOLEAN, bad \in Faults : FinishTest(m, bad)
         \/ \E bad \in Faults : TickSample(bad)
         \/ \E w \in 0..BatchSize : Crash(w) \/ CrashInTick(w)
<1>1. CASE UNCHANGED vars
  BY <1>1 DEF vars, TeleKept
<1>2. CASE \E b \in Levels : Battery(b)
  BY <1>2 DEF Battery, TeleKept, runner, tables, history
<1>3. CASE SetMaintenance \/ DurationOver
  BY <1>3 DEF SetMaintenance, DurationOver, TeleKept, runner, tables, history
<1>4. CASE \E k \in Kinds : HttpStart(k)
  BY <1>4 DEF HttpStart
<1>5. CASE \E m \in BOOLEAN, bad \in Faults : HttpStop(m, bad) \/ TickAbort(m, bad)
  BY <1>5 DEF HttpStop, TickAbort
<1>6. CASE \E s \in Scheds : BecomesDue(s) \/ ScheduleSkip(s)
  BY <1>6 DEF BecomesDue, ScheduleSkip, TeleKept, runner, tables, history
<1>7. CASE \E s \in Scheds, k \in Kinds : ScheduleStart(s, k)
  BY <1>7 DEF ScheduleStart
<1>8. CASE ScheduleScan \/ ScheduleAdvance \/ ScheduleEnd \/ CloseDb
  BY <1>8 DEF ScheduleScan, ScheduleAdvance, ScheduleEnd, CloseDb, TeleKept, runner, tables,
              history
<1>9. CASE Destroy
  <2>1. CASE FinishTest(FALSE, "none")
    BY <2>1 DEF Faults
  <2>2. CASE UNCHANGED <<dbOpen, runner, world, tables, plan, history, crashes, faults>>
    BY <2>2 DEF TeleKept, runner, tables, history
  <2> QED BY <1>9, <2>1, <2>2 DEF Destroy
<1>10. CASE \E bad \in Faults : TickSample(bad)
  BY <1>10
<1>11. CASE \E o \in BOOLEAN : Restart(o)
  BY <1>11 DEF Restart, TeleKept, runner
<1>12. CASE \E w \in 0..BatchSize : Crash(w) \/ CrashInTick(w)
  BY <1>12
<1> QED BY <1>1, <1>2, <1>3, <1>4, <1>5, <1>6, <1>7, <1>8, <1>9, <1>10, <1>11, <1>12 DEF Next

-----------------------------------------------------------------------------
(* A function on 1..n is a sequence.                                        *)
LEMMA FunctionIsSeq ==
  ASSUME NEW S, NEW n \in Nat, NEW f \in [1..n -> S]
  PROVE  f \in Seq(S) /\ Len(f) = n
OBVIOUS

(* The table after finish_test closed a row, or after the sweep.            *)
LEMMA RowTypes ==
  ASSUME NEW r \in Seq(Results), NEW id, NEW x \in Results
  PROVE  /\ [r EXCEPT ![id] = x] \in Seq(Results)
         /\ [j \in DOMAIN r |-> IF r[j] = "running" THEN "swept" ELSE r[j]] \in Seq(Results)
<1>1. Len(r) \in Nat /\ r \in [1..Len(r) -> Results] /\ DOMAIN r = 1..Len(r)
  BY LenProperties
<1>2. [r EXCEPT ![id] = x] \in [1..Len(r) -> Results]
  BY <1>1
<1>3. [j \in DOMAIN r |-> IF r[j] = "running" THEN "swept" ELSE r[j]] \in [1..Len(r) -> Results]
  BY <1>1 DEF Results
<1> QED BY <1>1, <1>2, <1>3, FunctionIsSeq

ScanTypes == [on : BOOLEAN, todo : SUBSET Scheds, seen : Levels, started : Scheds \cup {NoSched}]

LEMMA NoScanType == NoScan \in ScanTypes
BY DEF NoScan, ScanTypes, Levels

(* The prefix of a pending batch that a dying process wrote.                *)
LEMMA DieTypes ==
  ASSUME TypeOK, NEW p \in Seq(Nat), NEW w \in 0..Len(p), Die(p, w)
  PROVE  /\ tele' \in Seq(Nat)
         /\ Len(tele') \in Len(tele)..(Len(tele) + Len(p))
         /\ crashes' = crashes + 1 /\ crashes' \in 0..MaxCrashes
         /\ ~running' /\ ~up' /\ buf' = <<>>
<1>1. DEFINE n == IF dbOpen THEN w ELSE 0
<1>2. n \in 0..Len(p) /\ Len(p) \in Nat /\ Len(tele) \in Nat
  BY DEF TypeOK
<1>3. SubSeq(p, 1, n) \in Seq(Nat) /\ Len(SubSeq(p, 1, n)) = n
  BY <1>2, SubSeqProperties
<1>4. tele' = tele \o SubSeq(p, 1, n)
  BY DEF Die
<1>5. tele' \in Seq(Nat) /\ Len(tele') = Len(tele) + n
  <2> HIDE DEF n
  <2> QED BY <1>3, <1>4, ConcatProperties DEF TypeOK
<1>6. Len(tele') \in Len(tele)..(Len(tele) + Len(p))
  <2> HIDE DEF n
  <2> QED BY <1>2, <1>5
<1>7. crashes' \in 0..MaxCrashes /\ crashes' = crashes + 1
  BY RunnerAssumption DEF Die, TypeOK
<1> QED BY <1>5, <1>6, <1>7 DEF Die

(* Every state of every behaviour is of its type, for all constants.        *)
THEOREM RunnerTypes == Spec => []TypeOK
<1>1. Init => TypeOK
  <2> SUFFICES ASSUME Init PROVE TypeOK
    OBVIOUS
  <2>1. crashes \in 0..MaxCrashes /\ faults \in 0..MaxFaults
    BY RunnerAssumption DEF Init
  <2>2. scan \in [on : BOOLEAN, todo : SUBSET Scheds, seen : Levels,
                  started : Scheds \cup {NoSched}]
    BY DEF Init, NoScan, Levels
  <2>3. rows \in Seq({"running", "finished", "swept"}) /\ buf \in Seq(Nat)
        /\ tele \in Seq(Nat) /\ caps \in Seq(Nat) /\ taken \in Seq(Nat)
    BY EmptySeq DEF Init
  <2> QED BY <2>1, <2>2, <2>3, RunnerAssumption DEF Init, TypeOK, Levels
<1>2. TypeOK /\ [Next]_vars => TypeOK'
  <2> SUFFICES ASSUME TypeOK, [Next]_vars PROVE TypeOK'
    OBVIOUS
  <2> USE DEF runner, tables, world, plan, history
  <2>0. /\ Len(rows) \in Nat /\ Len(buf) \in Nat
        /\ \A x \in Nat : Append(buf, x) \in Seq(Nat) /\ Append(taken, x) \in Seq(Nat)
                          /\ Append(caps, x) \in Seq(Nat)
    BY DEF TypeOK
  <2>f. ASSUME NEW bad, Fault(bad) PROVE faults' \in 0..MaxFaults
    BY <2>f, RunnerAssumption DEF Fault, TypeOK
  <2>i. ASSUME NEW batch \in Seq(Nat), NEW bad, Insert(batch, bad)
        PROVE  tele' \in Seq(Nat) /\ lost' \in Nat
    <3>1. Len(batch) \in Nat /\ lost \in Nat /\ tele \in Seq(Nat)
      BY <2>i, LenProperties DEF TypeOK
    <3>2. tele \o batch \in Seq(Nat)
      BY <2>i, <3>1, ConcatProperties
    <3>3. \/ tele' = tele \o batch /\ UNCHANGED lost
          \/ lost' = lost + Len(batch) /\ UNCHANGED tele
      BY <2>i, Zenon DEF Insert
    <3>4. lost + Len(batch) \in Nat
      BY <3>1
    <3> QED BY <3>1, <3>2, <3>3, <3>4, Zenon
  <2>s. ASSUME NEW k \in Kinds, StartTest(k)
        PROVE  /\ rows' \in Seq(Results) /\ cur' \in Nat
               /\ kind' \in Kinds /\ running' \in BOOLEAN /\ timeUp' \in BOOLEAN
               /\ UNCHANGED <<up, dbOpen, buf, bat, maintenance, tele, caps, taken, lost,
                              orphans, crashes, faults>>
    <3>1. Append(rows, "running") \in Seq(Results)
      BY DEF TypeOK, Results
    <3>2. rows' \in Seq(Results) /\ cur' \in Nat
      BY <2>s, <2>0, <3>1 DEF StartTest
    <3>3. kind' \in Kinds /\ running' \in BOOLEAN /\ timeUp' \in BOOLEAN
      BY <2>s DEF StartTest
    <3>4. UNCHANGED <<up, dbOpen, buf, bat, maintenance, tele, caps, taken, lost, orphans,
                      crashes, faults>>
      BY <2>s DEF StartTest
    <3> QED BY <3>2, <3>3, <3>4
  <2>e. ASSUME NEW m \in BOOLEAN, NEW bad \in Faults, FinishTest(m, bad), up' \in BOOLEAN
        PROVE  TypeOK'
    <3>1. rows' \in Seq(Results)
      <4>1. rows \in Seq(Results) /\ "finished" \in Results
        BY DEF TypeOK, Results
      <4>2. [rows EXCEPT ![cur] = "finished"] \in Seq(Results)
        BY <4>1, RowTypes
      <4> QED BY <2>e, <4>1, <4>2 DEF FinishTest
    <3>5. orphans' \in SUBSET Nat
      BY <2>e DEF FinishTest, TypeOK
    <3>2. caps' \in Seq(Nat) /\ cur' \in Nat
      BY <2>e, <2>0 DEF FinishTest, TypeOK
    <3>3. tele' \in Seq(Nat) /\ lost' \in Nat /\ faults' \in 0..MaxFaults
      BY <2>e, <2>f, <2>i DEF FinishTest, TypeOK
    <3>4. buf' \in Seq(Nat) /\ running' \in BOOLEAN
      BY <2>e, EmptySeq DEF FinishTest
    <3> QED BY <2>e, <3>1, <3>2, <3>3, <3>4, <3>5 DEF FinishTest, TypeOK, Results
  <2>1. CASE UNCHANGED vars
    BY <2>1 DEF vars, TypeOK
  <2>2. ASSUME NEW b \in Levels, Battery(b) PROVE TypeOK'
    BY <2>2 DEF Battery, TypeOK
  <2>3. CASE SetMaintenance \/ DurationOver
    BY <2>3 DEF SetMaintenance, DurationOver, TypeOK
  <2>4. ASSUME NEW k \in Kinds, HttpStart(k) PROVE TypeOK'
    BY <2>4, <2>s DEF HttpStart, Results, TypeOK
  <2>5. ASSUME NEW m \in BOOLEAN, NEW bad \in Faults, HttpStop(m, bad) \/ TickAbort(m, bad)
        PROVE  TypeOK'
    BY <2>5, <2>e DEF HttpStop, TickAbort, TypeOK
  <2>6. ASSUME NEW bad \in Faults, TickSample(bad) PROVE TypeOK'
    <3>1. taken' \in Seq(Nat) /\ faults' \in 0..MaxFaults
      BY <2>6, <2>0, <2>f DEF TickSample, TypeOK
    <3>2. buf' \in Seq(Nat) /\ tele' \in Seq(Nat) /\ lost' \in Nat
      BY <2>6, <2>0, <2>i, EmptySeq DEF TickSample, TypeOK
    <3> QED BY <2>6, <3>1, <3>2 DEF TickSample, TypeOK
  <2>7. ASSUME NEW s \in Scheds, BecomesDue(s) \/ ScheduleSkip(s) PROVE TypeOK'
    BY <2>7 DEF BecomesDue, ScheduleSkip, TypeOK
  <2>8. ASSUME NEW s \in Scheds, NEW k \in Kinds, ScheduleStart(s, k) PROVE TypeOK'
    <3>1. scan' \in ScanTypes /\ ran' \in SUBSET Scheds
          /\ due' \in SUBSET Scheds
      BY <2>8 DEF ScheduleStart, ScanTypes, TypeOK
    <3> QED BY <2>8, <2>s, <3>1 DEF ScheduleStart, ScanTypes, Results, TypeOK
  <2>9. CASE ScheduleScan \/ ScheduleAdvance \/ ScheduleEnd
    <3>1. scan' \in ScanTypes
      <4>1. CASE ScheduleScan
        BY <4>1 DEF ScheduleScan, ScanTypes, TypeOK
      <4>2. CASE ScheduleAdvance \/ ScheduleEnd
        BY <4>2, NoScanType DEF ScheduleAdvance, ScheduleEnd
      <4> QED BY <2>9, <4>1, <4>2
    <3> QED BY <2>9, <3>1 DEF ScanTypes, ScheduleScan, ScheduleAdvance, ScheduleEnd, TypeOK
  <2>10. CASE CloseDb \/ Destroy
    <3>1. CASE CloseDb \/ UNCHANGED <<dbOpen, runner, world, tables, plan, history, crashes,
                                      faults>>
      BY <2>10, <3>1 DEF CloseDb, Destroy, TypeOK
    <3>2. CASE FinishTest(FALSE, "none") /\ Destroy
      BY <3>2, <2>e DEF Destroy, Faults
    <3> QED BY <2>10, <3>1, <3>2 DEF Destroy
  <2>11. ASSUME NEW w \in 0..BatchSize, Crash(w) \/ CrashInTick(w) PROVE TypeOK'
    <3>0. buf \in Seq(Nat) /\ Append(buf, cur) \in Seq(Nat) /\ Append(taken, cur) \in Seq(Nat)
          /\ Len(Append(buf, cur)) = Len(buf) + 1
      BY <2>0 DEF TypeOK
    <3>1. tele' \in Seq(Nat) /\ crashes' \in 0..MaxCrashes
      BY <2>11, <3>0, DieTypes DEF Crash, CrashInTick
    <3>2. scan' \in ScanTypes
      BY <2>11, NoScanType DEF Crash, CrashInTick, Die
    <3>3. taken' \in Seq(Nat) /\ orphans' \in SUBSET Nat /\ buf' \in Seq(Nat)
      BY <2>11, <3>0, EmptySeq DEF Crash, CrashInTick, Die, TypeOK
    <3>4. up' \in BOOLEAN /\ dbOpen' \in BOOLEAN /\ running' \in BOOLEAN /\ timeUp' \in BOOLEAN
          /\ cur' = 0 /\ UNCHANGED <<kind, world, rows, caps, due, ran, lost, faults>>
      BY <2>11 DEF Crash, CrashInTick, Die
    <3> QED BY <3>1, <3>2, <3>3, <3>4 DEF ScanTypes, TypeOK
  <2>12. ASSUME NEW o \in BOOLEAN, Restart(o) PROVE TypeOK'
    <3>1. rows' \in Seq(Results)
      <4>1. rows \in Seq(Results) /\ "swept" \in Results
        BY DEF TypeOK, Results
      <4> QED BY <2>12, <4>1, RowTypes DEF Restart, Sweep
    <3> QED BY <2>12, <3>1 DEF Restart, Results, Levels, TypeOK
  <2> QED BY <2>1, <2>2, <2>3, <2>4, <2>5, <2>6, <2>7, <2>8, <2>9, <2>10, <2>11, <2>12 DEF Next
<1> QED BY <1>1, <1>2, PTL DEF Spec
-----------------------------------------------------------------------------
RowsInv ==
  /\ running => up /\ cur = Len(rows) /\ cur \notin orphans
  /\ orphans \subseteq DOMAIN rows
  /\ OpenRows = (IF running THEN {cur} ELSE {}) \cup orphans

LEMMA RowsInvStep ==
  ASSUME TypeOK, RowsInv, [Next]_vars
  PROVE  RowsInv'
<1>0. /\ rows \in Seq(Results) /\ Len(rows) \in Nat /\ DOMAIN rows = 1..Len(rows)
      /\ cur \in Nat
  BY LenProperties DEF TypeOK, Results
<1>1. CASE RowsKept
  BY <1>1 DEF RowsKept, RowsInv, OpenRows
<1>2. ASSUME NEW k \in Kinds, StartTest(k) PROVE RowsInv'
  <2>1. /\ rows' = Append(rows, "running") /\ running' /\ cur' = Len(rows) + 1 /\ ~running
        /\ orphans' = orphans
    BY <1>2, Zenon DEF StartTest, CanStart, history
  <2>u. up'
    <3>1. up /\ up' = up
      BY <1>2 DEF StartTest, CanStart
    <3> QED BY <3>1
  <2>2. /\ Len(rows') = Len(rows) + 1 /\ DOMAIN rows' = 1..(Len(rows) + 1)
        /\ rows'[Len(rows) + 1] = "running"
        /\ \A id \in 1..Len(rows) : rows'[id] = rows[id]
    BY <1>0, <2>1
  <2>3. OpenRows' = OpenRows \cup {cur'}
    BY <1>0, <2>1, <2>2 DEF OpenRows
  <2>4. orphans' \subseteq DOMAIN rows' /\ cur' \notin orphans'
    <3>1. orphans \subseteq 1..Len(rows)
      BY <1>0 DEF RowsInv
    <3>2. cur' \notin 1..Len(rows) /\ 1..Len(rows) \subseteq DOMAIN rows'
      BY <1>0, <2>1, <2>2
    <3> QED BY <2>1, <3>1, <3>2
  <2> QED BY <2>1, <2>u, <2>2, <2>3, <2>4 DEF RowsInv
<1>3. ASSUME NEW m \in BOOLEAN, NEW bad \in Faults, FinishTest(m, bad) PROVE RowsInv'
  <2>1. running /\ ~running' /\ cur \notin orphans /\ OpenRows = {cur} \cup orphans
        /\ cur \in DOMAIN rows
    BY <1>3 DEF FinishTest, RowsInv, OpenRows
  <2>2. \/ rows' = [rows EXCEPT ![cur] = "finished"] /\ orphans' = orphans
        \/ rows' = rows /\ orphans' = orphans \cup {cur}
    BY <1>3, Zenon DEF FinishTest
  <2>3. CASE rows' = [rows EXCEPT ![cur] = "finished"] /\ orphans' = orphans
    <3>1. OpenRows' = OpenRows \ {cur}
      BY <1>0, <2>1, <2>3 DEF OpenRows
    <3>2. DOMAIN rows' = DOMAIN rows
      BY <2>3
    <3> QED BY <2>1, <2>3, <3>1, <3>2 DEF RowsInv
  <2>4. CASE rows' = rows /\ orphans' = orphans \cup {cur}
    BY <2>1, <2>4 DEF RowsInv, OpenRows
  <2> QED BY <2>2, <2>3, <2>4
<1>4. ASSUME NEW p, NEW w, Die(p, w) PROVE RowsInv'
  <2>1. rows' = rows /\ ~running' /\ orphans' = IF running THEN orphans \cup {cur} ELSE orphans
    BY <1>4 DEF Die
  <2>2. running => cur \in DOMAIN rows
    BY DEF RowsInv, OpenRows
  <2>3. OpenRows' = OpenRows
    BY <2>1 DEF OpenRows
  <2> QED BY <2>1, <2>2, <2>3 DEF RowsInv
<1>5. ASSUME NEW o \in BOOLEAN, Restart(o) PROVE RowsInv'
  <2>1. ~running /\ running' = running
    BY <1>5 DEF Restart, RowsInv, runner
  <2>2. CASE o
    <3>1. orphans' = {} /\ rows' = [id \in DOMAIN rows |->
                                      IF rows[id] = "running" THEN "swept" ELSE rows[id]]
      BY <1>5, <2>2 DEF Restart, Sweep
    <3>2. OpenRows' = {}
      BY <3>1 DEF OpenRows
    <3> QED BY <2>1, <3>1, <3>2 DEF RowsInv
  <2>3. CASE ~o
    <3>1. orphans' = orphans /\ rows' = rows
      BY <1>5, <2>3 DEF Restart, Sweep
    <3> QED BY <2>1, <3>1 DEF RowsInv, OpenRows
  <2> QED BY <2>2, <2>3
<1> QED BY <1>1, <1>2, <1>3, <1>4, <1>5, RowSteps

LEMMA RowsInvHolds == Spec => []RowsInv
<1>1. Init => RowsInv
  BY DEF Init, RowsInv, OpenRows
<1>2. TypeOK /\ RowsInv /\ [Next]_vars => RowsInv'
  BY RowsInvStep
<1> QED BY <1>1, <1>2, RunnerTypes, PTL DEF Spec

(* No second test is ever open: a row that reads "running" is the test      *)
(* under way or one whose end could not be recorded.                        *)
THEOREM OneOpenRowHolds == Spec => []OneOpenRow
<1>1. RowsInv => OneOpenRow
  BY DEF RowsInv, OneOpenRow
<1> QED BY <1>1, RowsInvHolds, PTL

(* An ended run keeps its result, whatever starts, stops or crashes later.  *)
THEOREM EndedStaysFinal == Spec => EndedIsFinal
<1>1. TypeOK /\ RowsInv /\ [Next]_vars
        => [\A id \in DOMAIN rows : rows[id] # "running" => rows'[id] = rows[id]]_vars
  <2> SUFFICES ASSUME TypeOK, RowsInv, [Next]_vars, NEW id \in DOMAIN rows,
                      rows[id] # "running"
               PROVE  rows'[id] = rows[id]
    OBVIOUS
  <2>0. rows \in Seq(Results) /\ Len(rows) \in Nat /\ DOMAIN rows = 1..Len(rows)
    BY LenProperties DEF TypeOK, Results
  <2>1. CASE RowsKept
    BY <2>1 DEF RowsKept
  <2>2. ASSUME NEW k \in Kinds, StartTest(k) PROVE rows'[id] = rows[id]
    BY <2>0, <2>2 DEF StartTest
  <2>3. ASSUME NEW m \in BOOLEAN, NEW bad \in Faults, FinishTest(m, bad)
        PROVE  rows'[id] = rows[id]
    <3>1. cur # id
      BY <2>3 DEF FinishTest, RowsInv, OpenRows
    <3>2. rows' = [rows EXCEPT ![cur] = "finished"] \/ rows' = rows
      BY <2>3, Zenon DEF FinishTest
    <3> QED BY <3>1, <3>2
  <2>4. ASSUME NEW p, NEW w, Die(p, w) PROVE rows'[id] = rows[id]
    BY <2>4 DEF Die
  <2>5. ASSUME NEW o \in BOOLEAN, Restart(o) PROVE rows'[id] = rows[id]
    BY <2>5 DEF Restart, Sweep
  <2> QED BY <2>1, <2>2, <2>3, <2>4, <2>5, RowSteps
<1> QED BY <1>1, RunnerTypes, RowsInvHolds, PTL DEF Spec, EndedIsFinal
-----------------------------------------------------------------------------
(* Where a sample goes: into the buffer, the table, or the count of lost.   *)
TeleInv == TelemetryIntact /\ LossBound

LEMMA ConcatAppend ==
  ASSUME NEW S, NEW s \in Seq(S), NEW t \in Seq(S), NEW x \in S
  PROVE  s \o Append(t, x) = Append(s \o t, x)
<1>1. Append(t, x) = t \o <<x>> /\ Append(s \o t, x) = (s \o t) \o <<x>>
  BY AppendIsConcat, ConcatProperties
<1>2. <<x>> \in Seq(S)
  OBVIOUS
<1> QED BY <1>1, <1>2, ConcatAssociative

(* A batch that is written is in the table, or counted as lost.             *)
LEMMA InsertKeepsCount ==
  ASSUME TypeOK, NEW batch \in Seq(Nat), NEW bad, Insert(batch, bad)
  PROVE  /\ tele' \in Seq(Nat) /\ lost' \in Nat
         /\ Len(tele') + lost' = Len(tele) + lost + Len(batch)
         /\ \/ lost' = lost /\ tele' = tele \o batch
            \/ lost' = lost + Len(batch) /\ tele' = tele
<1>1. /\ Len(batch) \in Nat /\ lost \in Nat /\ tele \in Seq(Nat) /\ Len(tele) \in Nat
      /\ tele \o batch \in Seq(Nat) /\ Len(tele \o batch) = Len(tele) + Len(batch)
  BY LenProperties, ConcatProperties DEF TypeOK
<1>2. \/ lost' = lost /\ tele' = tele \o batch
      \/ lost' = lost + Len(batch) /\ tele' = tele
  BY Zenon DEF Insert
<1>3. CASE lost' = lost /\ tele' = tele \o batch
  BY <1>1, <1>3
<1>4. CASE lost' = lost + Len(batch) /\ tele' = tele
  <2>1. lost' \in Nat /\ tele' \in Seq(Nat)
    BY <1>1, <1>4
  <2>2. Len(tele') + lost' = Len(tele) + lost + Len(batch)
    BY <1>1, <1>4
  <2> QED BY <1>4, <2>1, <2>2
<1> QED BY <1>2, <1>3, <1>4

LEMMA TeleInvStep ==
  ASSUME TypeOK, TeleInv, [Next]_vars
  PROVE  TeleInv'
<1>0. /\ buf \in Seq(Nat) /\ tele \in Seq(Nat) /\ taken \in Seq(Nat) /\ cur \in Nat
      /\ Len(buf) \in Nat /\ Len(tele) \in Nat /\ Len(taken) \in Nat /\ lost \in Nat
      /\ BatchSize \in Nat \ {0} /\ crashes \in Nat /\ crashes * BatchSize \in Nat
  BY RunnerAssumption DEF TypeOK
<1>a. /\ Append(buf, cur) \in Seq(Nat) /\ Len(Append(buf, cur)) = Len(buf) + 1
      /\ Append(taken, cur) \in Seq(Nat) /\ Len(Append(taken, cur)) = Len(taken) + 1
  BY <1>0
<1>b. /\ Len(buf) < BatchSize
      /\ Len(taken) <= Len(tele) + Len(buf) + lost + crashes * BatchSize
      /\ crashes = 0 /\ lost = 0 => tele \o buf = taken
      /\ \A i \in DOMAIN buf : running /\ buf[i] = cur
  BY DEF TeleInv, TelemetryIntact, LossBound
<1>e. /\ Len(<<>>) = 0 /\ DOMAIN <<>> = {} /\ 0 < BatchSize
      /\ \A q \in Seq(Nat) : q \o <<>> = q /\ (Len(q) = 0 => q = <<>>)
  BY <1>0, ConcatEmptySeq, EmptySeq
<1>1. CASE TeleKept
  BY <1>1 DEF TeleKept, TeleInv, TelemetryIntact, LossBound
<1>2. ASSUME NEW k \in Kinds, StartTest(k) PROVE TeleInv'
  <2>1. ~running
    BY <1>2 DEF StartTest, CanStart
  <2>2. UNCHANGED <<buf, tele, taken, lost, crashes>>
    BY <1>2 DEF StartTest, history
  <2>3. DOMAIN buf = {}
    BY <2>1, <1>b
  <2>4. Len(buf') < BatchSize /\ (\A i \in DOMAIN buf' : running' /\ buf'[i] = cur')
    BY <1>b, <2>2, <2>3
  <2>5. crashes' = 0 /\ lost' = 0 => tele' \o buf' = taken'
    BY <1>b, <2>2
  <2>6. LossBound'
    BY <1>b, <2>2 DEF LossBound
  <2> QED BY <2>4, <2>5, <2>6 DEF TeleInv, TelemetryIntact
<1>3. ASSUME NEW m \in BOOLEAN, NEW bad \in Faults, FinishTest(m, bad) PROVE TeleInv'
  <2>1. buf' = <<>> /\ Insert(buf, bad) /\ taken' = taken /\ crashes' = crashes
    BY <1>3 DEF FinishTest
  <2>2. /\ tele' \in Seq(Nat) /\ lost' \in Nat
        /\ Len(tele') + lost' = Len(tele) + lost + Len(buf)
        /\ \/ lost' = lost /\ tele' = tele \o buf
           \/ lost' = lost + Len(buf) /\ tele' = tele
    BY <2>1, <1>0, InsertKeepsCount
  <2>3. Len(buf') < BatchSize /\ DOMAIN buf' = {}
    BY <2>1, <1>e
  <2>4. crashes' = 0 /\ lost' = 0 => tele' \o buf' = taken'
    <3> SUFFICES ASSUME crashes' = 0, lost' = 0 PROVE tele' = taken'
      BY <2>1, <2>2, <1>e
    <3>1. CASE lost' = lost /\ tele' = tele \o buf
      BY <3>1, <2>1, <1>b
    <3>2. CASE lost' = lost + Len(buf) /\ tele' = tele
      <4>1. lost = 0 /\ Len(buf) = 0
        BY <3>2, <1>0
      <4> QED BY <4>1, <3>2, <2>1, <1>b, <1>e, <1>0
    <3> QED BY <2>2, <3>1, <3>2
  <2>5. LossBound'
    <3>1. Len(tele') \in Nat
      BY <2>2
    <3> QED BY <3>1, <2>1, <2>2, <1>0, <1>b, <1>e DEF LossBound
  <2> QED BY <2>3, <2>4, <2>5 DEF TeleInv, TelemetryIntact
<1>4. ASSUME NEW bad \in Faults, TickSample(bad) PROVE TeleInv'
  <2>1. running /\ running' = running /\ cur' = cur /\ crashes' = crashes
        /\ taken' = Append(taken, cur)
    BY <1>4 DEF TickSample
  <2>2. \/ /\ Len(buf) + 1 >= BatchSize /\ buf' = <<>> /\ Insert(Append(buf, cur), bad)
        \/ /\ ~(Len(buf) + 1 >= BatchSize) /\ buf' = Append(buf, cur)
           /\ tele' = tele /\ lost' = lost
    BY <1>4, <1>a DEF TickSample
  <2>3. tele \o Append(buf, cur) = Append(tele \o buf, cur)
    BY <1>0, ConcatAppend
  <2>4. CASE Len(buf) + 1 >= BatchSize /\ buf' = <<>> /\ Insert(Append(buf, cur), bad)
    <3>1. /\ tele' \in Seq(Nat) /\ lost' \in Nat
          /\ Len(tele') + lost' = Len(tele) + lost + Len(buf) + 1
          /\ \/ lost' = lost /\ tele' = tele \o Append(buf, cur)
             \/ lost' = lost + Len(buf) + 1 /\ tele' = tele
      <4> DEFINE full == Append(buf, cur)
      <4>1. full \in Seq(Nat) /\ Insert(full, bad) /\ Len(full) = Len(buf) + 1
        BY <2>4, <1>a
      <4> HIDE DEF full
      <4>2. /\ tele' \in Seq(Nat) /\ lost' \in Nat
            /\ Len(tele') + lost' = Len(tele) + lost + Len(full)
            /\ \/ lost' = lost /\ tele' = tele \o full
               \/ lost' = lost + Len(full) /\ tele' = tele
        BY <4>1, InsertKeepsCount
      <4>3. /\ Len(tele') + lost' = Len(tele) + lost + Len(buf) + 1
            /\ lost + Len(full) = lost + Len(buf) + 1
        BY <4>1, <4>2, <1>0
      <4> QED BY <4>2, <4>3 DEF full
    <3>2. Len(buf') < BatchSize /\ DOMAIN buf' = {}
      BY <2>4, <1>e
    <3>3. crashes' = 0 /\ lost' = 0 => tele' \o buf' = taken'
      <4> SUFFICES ASSUME crashes' = 0, lost' = 0 PROVE tele' = taken'
        BY <2>4, <3>1, <1>e
      <4>0. lost + Len(buf) + 1 # 0
        BY <1>0
      <4>1. lost' = lost /\ tele' = tele \o Append(buf, cur)
        BY <3>1, <4>0
      <4> QED BY <4>1, <2>1, <2>3, <1>b
    <3>4. LossBound'
      <4>1. Len(tele') \in Nat /\ Len(buf') = 0
        BY <3>1, <2>4, <1>e
      <4> QED BY <4>1, <3>1, <2>1, <1>0, <1>a, <1>b DEF LossBound
    <3> QED BY <3>2, <3>3, <3>4 DEF TeleInv, TelemetryIntact
  <2>5. CASE /\ ~(Len(buf) + 1 >= BatchSize) /\ buf' = Append(buf, cur)
             /\ tele' = tele /\ lost' = lost
    <3>1. Len(buf') < BatchSize
      BY <2>5, <1>0, <1>a
    <3>2. \A i \in DOMAIN buf' : running' /\ buf'[i] = cur'
      <4>0. buf \in Seq(Nat) /\ cur \in Nat
        BY <1>0
      <4>1. /\ DOMAIN buf' = 1..(Len(buf) + 1) /\ buf'[Len(buf) + 1] = cur
            /\ \A i \in 1..Len(buf) : buf'[i] = buf[i]
        <5> DEFINE full == Append(buf, cur)
        <5>1. buf' = full
          BY <2>5
        <5>2. full \in Seq(Nat) /\ Len(full) = Len(buf) + 1
          BY <1>a
        <5>3. full[Len(buf) + 1] = cur /\ \A i \in 1..Len(buf) : full[i] = buf[i]
          BY <4>0, AppendProperties
        <5> HIDE DEF full
        <5>4. DOMAIN full = 1..(Len(buf) + 1)
          BY <5>2, LenProperties
        <5> QED BY <5>1, <5>3, <5>4
      <4>b. \A i \in 1..Len(buf) : buf[i] = cur
        BY <1>0, <1>b, LenProperties
      <4>2. ASSUME NEW i \in DOMAIN buf' PROVE buf'[i] = cur
        <5>1. i \in 1..Len(buf) \/ i = Len(buf) + 1
          BY <4>1, <1>0
        <5> QED BY <5>1, <4>1, <4>b
      <4> QED BY <4>2, <2>1
    <3>3. crashes' = 0 /\ lost' = 0 => tele' \o buf' = taken'
      BY <2>5, <2>1, <2>3, <1>b
    <3>4. LossBound'
      BY <2>5, <2>1, <1>0, <1>a, <1>b DEF LossBound
    <3> QED BY <3>1, <3>2, <3>3, <3>4 DEF TeleInv, TelemetryIntact
  <2> QED BY <2>2, <2>4, <2>5
<1>5. ASSUME NEW w \in 0..BatchSize, Crash(w) \/ CrashInTick(w) PROVE TeleInv'
  <2>1. /\ buf' = <<>> /\ crashes' = crashes + 1 /\ lost' = lost
        /\ Len(tele') \in Nat /\ Len(tele) <= Len(tele')
        /\ taken' \in Seq(Nat) /\ Len(taken') <= Len(taken) + 1
        /\ Len(taken') <= Len(taken) + BatchSize - Len(buf)
    <3>1. CASE Crash(w)
      <4>1. w \in 0..Len(buf) /\ Die(buf, w) /\ taken' = taken
        BY <3>1 DEF Crash
      <4>2. lost' = lost
        BY <4>1 DEF Die
      <4> QED BY <4>1, <4>2, <1>0, <1>b, DieTypes
    <3>2. CASE CrashInTick(w)
      <4>1. w \in 0..Len(Append(buf, cur)) /\ Die(Append(buf, cur), w)
            /\ taken' = Append(taken, cur)
        BY <3>2, <1>a DEF CrashInTick
      <4>2. lost' = lost
        BY <4>1 DEF Die
      <4> DEFINE full == Append(buf, cur)
      <4>3. full \in Seq(Nat) /\ w \in 0..Len(full) /\ Die(full, w)
        BY <4>1, <1>a
      <4> HIDE DEF full
      <4>4. /\ buf' = <<>> /\ crashes' = crashes + 1
            /\ tele' \in Seq(Nat) /\ Len(tele') \in Len(tele)..(Len(tele) + Len(full))
        BY <4>3, DieTypes
      <4>5. Len(tele') \in Nat /\ Len(tele) <= Len(tele')
        BY <4>4, <1>0, LenProperties
      <4> QED BY <4>1, <4>2, <4>4, <4>5, <1>0, <1>a, <1>b
    <3> QED BY <1>5, <3>1, <3>2
  <2>2. TelemetryIntact'
    BY <2>1, <1>0, <1>e DEF TelemetryIntact
  <2>3. crashes' * BatchSize = crashes * BatchSize + BatchSize
    BY <2>1, <1>0
  <2>4. LossBound'
    <3>1. Len(buf') = 0 /\ Len(taken') \in Nat
      BY <2>1, <1>e, LenProperties
    <3> QED BY <3>1, <2>1, <2>3, <1>0, <1>b DEF LossBound
  <2> QED BY <2>2, <2>4 DEF TeleInv
<1> QED BY <1>1, <1>2, <1>3, <1>4, <1>5, TeleSteps

LEMMA TeleInvHolds == Spec => []TeleInv
<1>1. Init => TeleInv
  <2> SUFFICES ASSUME Init PROVE TeleInv
    OBVIOUS
  <2>1. BatchSize \in Nat \ {0} /\ 0 * BatchSize = 0
    BY RunnerAssumption
  <2>2. <<>> \o <<>> = <<>> /\ Len(<<>>) = 0 /\ DOMAIN <<>> = {}
    BY EmptySeq
  <2> QED BY <2>1, <2>2 DEF Init, TeleInv, TelemetryIntact, LossBound
<1>2. TypeOK /\ TeleInv /\ [Next]_vars => TeleInv'
  BY TeleInvStep
<1> QED BY <1>1, <1>2, RunnerTypes, PTL DEF Spec

(* No sample reaches the table under another test's id, outlives its test   *)
(* in the buffer, or goes missing while the process lives and the database  *)
(* takes what it is given.                                                  *)
THEOREM TelemetryIntactHolds == Spec => []TelemetryIntact
<1>1. TeleInv => TelemetryIntact
  BY DEF TeleInv
<1> QED BY <1>1, TeleInvHolds, PTL

(* A crash costs at most one batch.                                         *)
THEOREM LossBoundHolds == Spec => []LossBound
<1>1. TeleInv => LossBound
  BY DEF TeleInv
<1> QED BY <1>1, TeleInvHolds, PTL
-----------------------------------------------------------------------------
(* Steps as the scheduler sees them.                                        *)
LEMMA PlanSteps ==
  ASSUME [Next]_vars
  PROVE  \/ PlanKept
         \/ \E s \in Scheds : BecomesDue(s) \/ ScheduleSkip(s)
         \/ \E s \in Scheds, k \in Kinds : ScheduleStart(s, k)
         \/ ScheduleScan \/ ScheduleAdvance \/ ScheduleEnd
         \/ \E w \in 0..BatchSize : Crash(w) \/ CrashInTick(w)
<1>1. CASE UNCHANGED vars
  BY <1>1 DEF vars, PlanKept
<1>2. CASE \E b \in Levels : Battery(b)
  BY <1>2 DEF Battery, PlanKept, plan
<1>3. CASE SetMaintenance \/ DurationOver \/ CloseDb \/ \E bad \in Faults : TickSample(bad)
  BY <1>3 DEF SetMaintenance, DurationOver, CloseDb, TickSample, PlanKept, plan
<1>4. CASE \E k \in Kinds : HttpStart(k)
  BY <1>4 DEF HttpStart, StartTest, PlanKept, plan
<1>5. CASE \E m \in BOOLEAN, bad \in Faults : HttpStop(m, bad) \/ TickAbort(m, bad)
  BY <1>5 DEF HttpStop, TickAbort, FinishTest, PlanKept, plan
<1>6. CASE Destroy
  BY <1>6 DEF Destroy, FinishTest, PlanKept, plan
<1>7. CASE \E o \in BOOLEAN : Restart(o)
  BY <1>7 DEF Restart, PlanKept, plan
<1> QED BY <1>1, <1>2, <1>3, <1>4, <1>5, <1>6, <1>7 DEF Next

(* One occurrence of a schedule starts one test: in a process that does not *)
(* crash, a schedule that has started its test is no longer due, except in  *)
(* the window between start_test and the update of next_run_ts.             *)
THEOREM DueRunsOnceHolds == Spec => []DueRunsOnce
<1>1. Init => DueRunsOnce
  BY DEF Init, DueRunsOnce
<1>2. TypeOK /\ DueRunsOnce /\ [Next]_vars => DueRunsOnce'
  <2> SUFFICES ASSUME TypeOK, DueRunsOnce, [Next]_vars PROVE DueRunsOnce'
    OBVIOUS
  <2>0. /\ \A s \in due \cap ran : s \in Scheds /\ s # NoSched
        /\ crashes \in Nat
    BY RunnerAssumption DEF TypeOK
  <2>1. CASE PlanKept
    BY <2>1 DEF PlanKept, DueRunsOnce
  <2>2. ASSUME NEW s \in Scheds, BecomesDue(s) PROVE DueRunsOnce'
    BY <2>2 DEF BecomesDue, DueRunsOnce
  <2>3. ASSUME NEW s \in Scheds, ScheduleSkip(s) PROVE DueRunsOnce'
    <3>1. due' = due \ {s} /\ ran' = ran /\ crashes' = crashes /\ scan.started = NoSched
      BY <2>3 DEF ScheduleSkip
    <3> QED BY <3>1, <2>0 DEF DueRunsOnce
  <2>4. ASSUME NEW s \in Scheds, NEW k \in Kinds, ScheduleStart(s, k) PROVE DueRunsOnce'
    <3>1. /\ due' = due /\ ran' = ran \cup {s} /\ crashes' = crashes
          /\ scan.on /\ scan.started = NoSched /\ scan' = [scan EXCEPT !.started = s]
      BY <2>4 DEF ScheduleStart, StartTest
    <3>2. crashes = 0 => due \cap ran = {}
      BY <3>1, <2>0 DEF DueRunsOnce
    <3>3. scan'.on /\ scan'.started = s
      BY <3>1 DEF TypeOK
    <3> QED BY <3>1, <3>2, <3>3 DEF DueRunsOnce
  <2>5. CASE ScheduleScan
    BY <2>5 DEF ScheduleScan, DueRunsOnce
  <2>6. CASE ScheduleAdvance
    BY <2>6 DEF ScheduleAdvance, DueRunsOnce
  <2>7. CASE ScheduleEnd
    <3>1. /\ due' = due /\ ran' = ran /\ crashes' = crashes /\ scan.started = NoSched
      BY <2>7 DEF ScheduleEnd
    <3> QED BY <3>1, <2>0 DEF DueRunsOnce
  <2>8. ASSUME NEW w \in 0..BatchSize, Crash(w) \/ CrashInTick(w) PROVE DueRunsOnce'
    <3>1. crashes' = crashes + 1
      BY <2>8 DEF Crash, CrashInTick, Die
    <3> QED BY <3>1, <2>0 DEF DueRunsOnce
  <2> QED BY <2>1, <2>2, <2>3, <2>4, <2>5, <2>6, <2>7, <2>8, PlanSteps
<1> QED BY <1>1, <1>2, RunnerTypes, PTL DEF Spec
-----------------------------------------------------------------------------
(* The rows as readers of the ledger see them.                              *)
StatusNow == [id \in DOMAIN rows |-> IF rows[id] = "running" THEN "open" ELSE "closed"]
LiveNow == IF running THEN cur ELSE 0

LEMMA AppendIsFunction ==
  ASSUME NEW S, NEW s \in Seq(S), NEW x \in S
  PROVE  Append(s, x) = [i \in 1..(Len(s) + 1) |-> IF i = Len(s) + 1 THEN x ELSE s[i]]
<1> DEFINE f == [i \in 1..(Len(s) + 1) |-> IF i = Len(s) + 1 THEN x ELSE s[i]]
<1>1. f \in [1..(Len(s) + 1) -> S] /\ Len(s) + 1 \in Nat
  BY LenProperties
<1>2. f \in Seq(S) /\ Len(f) = Len(s) + 1
  <2> HIDE DEF f
  <2> QED BY <1>1, FunctionIsSeq
<1>3. /\ Append(s, x) \in Seq(S) /\ Len(Append(s, x)) = Len(s) + 1
      /\ \A i \in 1..Len(s) + 1 : Append(s, x)[i] = f[i]
  OBVIOUS
<1> HIDE DEF f
<1>4. Append(s, x) = f
  BY <1>2, <1>3, SeqEqual
<1> QED BY <1>4 DEF f

LEMMA LedgerStep ==
  ASSUME TypeOK, RowsInv, [Next]_vars
  PROVE  [Ledger!LedgerNext]_<<StatusNow, LiveNow>>
<1> USE DEF StatusNow, LiveNow
<1>0. /\ rows \in Seq(Results) /\ Len(rows) \in Nat /\ DOMAIN rows = 1..Len(rows)
      /\ Len(StatusNow) = Len(rows) /\ StatusNow \in Seq({"open", "closed"})
  <2>1. rows \in Seq(Results) /\ Len(rows) \in Nat /\ DOMAIN rows = 1..Len(rows)
    BY LenProperties DEF TypeOK, Results
  <2>2. StatusNow \in [1..Len(rows) -> {"open", "closed"}]
    BY <2>1
  <2> QED BY <2>1, <2>2, FunctionIsSeq
<1>1. CASE RowsKept
  BY <1>1 DEF RowsKept
<1>2. ASSUME NEW k \in Kinds, StartTest(k) PROVE Ledger!Open
  <2>1. rows' = Append(rows, "running") /\ ~running /\ cur' = Len(rows) + 1
    BY <1>2 DEF StartTest, CanStart
  <2>2. running'
    BY <1>2, Zenon DEF StartTest
  <2>3. StatusNow' = Append(StatusNow, "open")
    <3>1. /\ DOMAIN rows' = 1..(Len(rows) + 1)
          /\ \A id \in 1..(Len(rows) + 1) :
               rows'[id] = IF id = Len(rows) + 1 THEN "running" ELSE rows[id]
      BY <1>0, <2>1
    <3>2. StatusNow' = [id \in 1..(Len(rows) + 1) |->
                         IF id = Len(rows) + 1 THEN "open" ELSE StatusNow[id]]
      BY <1>0, <3>1
    <3>3. Append(StatusNow, "open") = [id \in 1..(Len(rows) + 1) |->
                         IF id = Len(rows) + 1 THEN "open" ELSE StatusNow[id]]
      <4> HIDE DEF StatusNow
      <4> QED BY <1>0, AppendIsFunction
    <3> QED BY <3>2, <3>3
  <2>4. LiveNow = 0 /\ LiveNow' = Len(StatusNow) + 1
    BY <1>0, <2>1, <2>2
  <2> QED BY <2>3, <2>4 DEF Ledger!Open
<1>3. ASSUME NEW m \in BOOLEAN, NEW bad \in Faults, FinishTest(m, bad)
      PROVE  Ledger!Finish \/ Ledger!Abandon
  <2>1. running /\ ~running' /\ cur \in DOMAIN rows
    BY <1>3 DEF FinishTest, RowsInv, OpenRows
  <2>2. LiveNow = cur /\ LiveNow # 0 /\ LiveNow' = 0
    BY <1>0, <2>1
  <2>3. CASE rows' = [rows EXCEPT ![cur] = "finished"]
    <3>1. DOMAIN rows' = DOMAIN rows
          /\ \A id \in DOMAIN rows : rows'[id] = IF id = cur THEN "finished" ELSE rows[id]
      BY <2>1, <2>3
    <3>2. StatusNow' = [StatusNow EXCEPT ![cur] = "closed"]
      BY <3>1
    <3> QED BY <2>2, <3>2 DEF Ledger!Finish
  <2>4. CASE rows' = rows
    BY <2>2, <2>4 DEF Ledger!Abandon
  <2>5. rows' = [rows EXCEPT ![cur] = "finished"] \/ rows' = rows
    BY <1>3, Zenon DEF FinishTest
  <2> QED BY <2>3, <2>4, <2>5
<1>4. ASSUME NEW p, NEW w, Die(p, w)
      PROVE  Ledger!Abandon \/ UNCHANGED <<StatusNow, LiveNow>>
  <2>1. rows' = rows /\ ~running'
    BY <1>4 DEF Die
  <2>2. StatusNow' = StatusNow /\ LiveNow' = 0
    BY <2>1
  <2> QED BY <2>2 DEF Ledger!Abandon
<1>5. ASSUME NEW o \in BOOLEAN, Restart(o)
      PROVE  Ledger!Settle \/ UNCHANGED <<StatusNow, LiveNow>>
  <2>1. LiveNow = 0 /\ LiveNow' = 0
    BY <1>5 DEF Restart, RowsInv, runner
  <2>2. CASE o
    <3>1. rows' = [id \in DOMAIN rows |->
                     IF rows[id] = "running" THEN "swept" ELSE rows[id]]
      BY <1>5, <2>2 DEF Restart, Sweep
    <3>2. StatusNow' = [id \in DOMAIN StatusNow |-> "closed"]
      BY <3>1
    <3> QED BY <2>1, <3>2 DEF Ledger!Settle
  <2>3. CASE ~o
    BY <1>5, <2>1, <2>3 DEF Restart, Sweep
  <2> QED BY <2>2, <2>3
<1> QED BY <1>1, <1>2, <1>3, <1>4, <1>5, RowSteps DEF Ledger!LedgerNext

(* The runner, its scheduler, crashes and refused writes included, keeps    *)
(* the promise of the ledger.                                               *)
THEOREM RunnerImplementsLedger == Spec => LedgerSpec
<1>1. Init => Ledger!LedgerInit
  BY DEF Init, Ledger!LedgerInit
<1>2. TypeOK /\ RowsInv /\ [Next]_vars => [Ledger!LedgerNext]_(Ledger!ledgerVars)
  BY LedgerStep DEF StatusNow, LiveNow, Ledger!ledgerVars
<1> QED BY <1>1, <1>2, RunnerTypes, RowsInvHolds, PTL DEF Spec, LedgerSpec, Ledger!LedgerSpec

(* A step of the ledger keeps the run under way the newest row, and open.   *)
LEMMA LedgerKeeps ==
  ASSUME NEW s \in Seq({"open", "closed"}), NEW l \in Nat, l # 0 => l = Len(s) /\ s[l] = "open",
         NEW t, NEW m,
         \/ t = Append(s, "open") /\ m = Len(s) + 1
         \/ t = [s EXCEPT ![l] = "closed"] /\ m = 0
         \/ t = s /\ m = 0
         \/ t = [id \in DOMAIN s |-> "closed"] /\ m = 0
         \/ t = s /\ m = l
  PROVE  t \in Seq({"open", "closed"}) /\ m \in Nat /\ (m # 0 => m = Len(t) /\ t[m] = "open")
<1>1. Len(s) \in Nat /\ s \in [1..Len(s) -> {"open", "closed"}] /\ DOMAIN s = 1..Len(s)
  BY LenProperties
<1>2. \A f, n : n \in Nat /\ f \in [1..n -> {"open", "closed"}] => f \in Seq({"open", "closed"})
  OBVIOUS
<1>3. CASE t = Append(s, "open") /\ m = Len(s) + 1
  <2>1. /\ Append(s, "open") \in Seq({"open", "closed"})
        /\ Len(Append(s, "open")) = Len(s) + 1
        /\ Append(s, "open")[Len(s) + 1] = "open"
    BY AppendProperties
  <2>2. m = Len(t) /\ t[m] = "open" /\ t \in Seq({"open", "closed"})
    BY <1>3, <2>1
  <2>3. m \in Nat
    <3>1. \A k \in Nat : k + 1 \in Nat
      OBVIOUS
    <3> QED BY <1>1, <1>3, <3>1
  <2> QED BY <2>2, <2>3, Zenon
<1>4. CASE t = [s EXCEPT ![l] = "closed"] /\ m = 0
  <2>1. t \in [1..Len(s) -> {"open", "closed"}]
    BY <1>1, <1>4
  <2> QED BY <1>1, <1>2, <1>4, <2>1
<1>5. CASE t = [id \in DOMAIN s |-> "closed"] /\ m = 0
  <2>1. t \in [1..Len(s) -> {"open", "closed"}]
    BY <1>1, <1>5
  <2> QED BY <1>1, <1>2, <1>5, <2>1
<1> QED BY <1>3, <1>4, <1>5

(* A reader who knows only the ledger may take the newest row for the run   *)
(* under way (insert_test_run, finish_test, abort_interrupted_tests).       *)
THEOREM LedgerLive == LedgerSpec => [](Ledger!LedgerTypeOK /\ Ledger!LiveIsNewest)
<1> DEFINE Inv == Ledger!LedgerTypeOK /\ Ledger!LiveIsNewest
<1>1. Ledger!LedgerInit => Inv
  BY DEF Ledger!LedgerInit, Ledger!LedgerTypeOK, Ledger!LiveIsNewest
<1>2. ASSUME Inv, [Ledger!LedgerNext]_(Ledger!ledgerVars)
      PROVE  Inv'
  <2>1. /\ StatusNow \in Seq({"open", "closed"}) /\ LiveNow \in Nat
        /\ LiveNow # 0 => LiveNow = Len(StatusNow) /\ StatusNow[LiveNow] = "open"
    BY <1>2 DEF Ledger!LedgerTypeOK, Ledger!LiveIsNewest, StatusNow, LiveNow
  <2>2. \/ StatusNow' = Append(StatusNow, "open") /\ LiveNow' = Len(StatusNow) + 1
        \/ StatusNow' = [StatusNow EXCEPT ![LiveNow] = "closed"] /\ LiveNow' = 0
        \/ StatusNow' = StatusNow /\ LiveNow' = 0
        \/ StatusNow' = [id \in DOMAIN StatusNow |-> "closed"] /\ LiveNow' = 0
        \/ StatusNow' = StatusNow /\ LiveNow' = LiveNow
    <3>1. CASE Ledger!Open
      BY <3>1 DEF Ledger!Open, StatusNow, LiveNow
    <3>2. CASE Ledger!Finish
      BY <3>2 DEF Ledger!Finish, StatusNow, LiveNow
    <3>3. CASE Ledger!Abandon
      BY <3>3 DEF Ledger!Abandon, StatusNow, LiveNow
    <3>4. CASE Ledger!Settle
      BY <3>4 DEF Ledger!Settle, StatusNow, LiveNow
    <3>5. CASE UNCHANGED Ledger!ledgerVars
      BY <3>5 DEF Ledger!ledgerVars, StatusNow, LiveNow
    <3> QED BY <1>2, <3>1, <3>2, <3>3, <3>4, <3>5 DEF Ledger!LedgerNext
  <2>3. /\ StatusNow' \in Seq({"open", "closed"}) /\ LiveNow' \in Nat
        /\ LiveNow' # 0 => LiveNow' = Len(StatusNow') /\ StatusNow'[LiveNow'] = "open"
    BY <2>1, <2>2, LedgerKeeps
  <2> QED BY <2>3 DEF Ledger!LedgerTypeOK, Ledger!LiveIsNewest, StatusNow, LiveNow
<1> QED BY <1>1, <1>2, PTL DEF LedgerSpec, Ledger!LedgerSpec
=============================================================================
