----------------------------- MODULE TxDetection -----------------------------
(***************************************************************************)
(* Transmissions of the radio, found in the current drawn (data_store.cpp), *)
(* and the internal resistance of the battery, estimated from the dip of    *)
(* its voltage while one lasts (analytics/resistance_estimator.cpp).  Both  *)
(* run under the store's mutex, on each reading of the BMS and of the       *)
(* charger, with the latest reading of the other stream.                    *)
(*                                                                          *)
(* Currents are in amperes, voltages and times in whole units.              *)
(***************************************************************************)
EXTENDS Windows

CONSTANTS
  MaxTxEvents,    \* TX_EVENTS_MAX
  MaxSamples,     \* ROLLING_N of the estimator
  MaxProcessed,   \* the limit of processed_end_times_
  TxBatteries,    \* readings of the BMS: [valid, cur, v]
  TxChargers,     \* readings of the charger: [valid, a, v]
  TxHeard,        \* bounds of the model: valid readings delivered
  TxHistory       \* and readings of the BMS

ASSUME TxAssumption ==
  /\ MaxTxEvents \in Nat \ {0} /\ MaxSamples \in Nat \ {0}
  /\ MaxProcessed \in Nat /\ MaxProcessed >= MaxTxEvents
  /\ TxHeard \in Nat /\ TxHistory \in Nat
  /\ \A r \in TxBatteries : r \in [valid : BOOLEAN, cur : Int, v : Nat]
  /\ \A r \in TxChargers : r \in [valid : BOOLEAN, a : Int, v : Nat]

ChgHigh == 5            \* CHG_HIGH_A

VARIABLES
  latest,       \* newest reading of each stream, <<>> for none
  burst,        \* tx_active_ with its members, <<>> when not active
  txEvents,     \* tx_events_
  txThreshold,  \* tx_threshold_
  history,      \* ring_, with the times
  estimator,    \* ResistanceEstimator
  heard         \* what the detection was given so far, valid readings only

txVars == <<latest, burst, txEvents, txThreshold, history, estimator, heard>>

Above(bat, chg) ==
  \/ bat.cur > txThreshold
  \/ chg.a > ChgHigh
  \/ -chg.a > txThreshold

\* effective_cur and pwr: the strongest of the three signals
Strength(bat, chg) ==
  LET amps == Max({Positive(bat.cur), Positive(-chg.a),
                   IF chg.a > ChgHigh THEN chg.a ELSE 0})
  IN  [amps |-> amps, power |-> amps * (IF chg.a < 0 THEN chg.v ELSE bat.v)]

Stronger_OrEqual(s, b) == s.amps >= b.amps    \* mutant: a later equal peak wins
Stronger(s, b) == s.amps > b.amps

\* run_tx_detection on a reading of strength s at `now`: the burst goes on, with
\* its peak, or it ends and becomes an event.
Rising(now, s) ==
  IF burst = <<>> THEN <<[start |-> now, amps |-> s.amps, power |-> s.power]>>
  ELSE IF Stronger(s, burst[1])
  THEN <<[start |-> burst[1].start, amps |-> s.amps, power |-> s.power]>>
  ELSE burst

AsEvent(b, now) == [start |-> b.start, end |-> now, amps |-> b.amps, power |-> b.power]

Ended_Untrimmed(now) ==      \* mutant: the list is not trimmed
  IF burst = <<>> THEN txEvents ELSE Append(txEvents, AsEvent(burst[1], now))
Ended(now) ==
  IF burst = <<>> THEN txEvents
  ELSE Push(txEvents, AsEvent(burst[1], now), MaxTxEvents)

-----------------------------------------------------------------------------
\* The readings the estimator compares for an event: the latest one not after
\* its start, and the earliest one from its start to its end.
Pre(ring, ev) ==
  {i \in DOMAIN ring : ring[i].valid /\ ring[i].at <= ev.start}
During(ring, ev) ==
  {i \in DOMAIN ring : ring[i].valid /\ ring[i].at >= ev.start /\ ring[i].at <= ev.end}
Newest(ring, S) ==
  CHOOSE i \in S : \A j \in S : ring[j].at < ring[i].at \/ (ring[j].at = ring[i].at /\ i <= j)
Oldest(ring, S) ==
  CHOOSE i \in S : \A j \in S : ring[j].at > ring[i].at \/ (ring[j].at = ring[i].at /\ i <= j)

\* push_sample: a resistance in (0, 500] mOhm, with the time of its event
WithSample(samples, ev, dV, dI) ==
  IF dV > 0 /\ 2 * dV <= dI THEN Push(samples, [end |-> ev.end, dV |-> dV, dI |-> dI], MaxSamples)
  ELSE samples

\* processed_end_times_ keeps the largest times
Mark_Nothing(e, ev) == e            \* mutant
Mark(e, ev) ==
  LET S == e.processed \union {ev.end}
  IN  [e EXCEPT !.processed = IF Cardinality(S) > MaxProcessed THEN S \ {Min(S)} ELSE S]

\* One event in ResistanceEstimator::update.
Estimate(ring, e, ev) ==
  IF ev.amps < 1 \/ ev.end - ev.start < 1 \/ ev.end \in e.processed THEN e
  ELSE LET pre    == Pre(ring, ev)
           during == During(ring, ev)
           done   == Mark(e, ev)
       IN  IF pre = {} \/ during = {} THEN done
           ELSE LET idle == ring[Newest(ring, pre)]
                    tx   == ring[Oldest(ring, during)]
                    dI   == ev.amps - Positive(idle.cur)
                IN  IF dI < 1 THEN done
                    ELSE [done EXCEPT !.samples = WithSample(@, ev, idle.v - tx.v, dI)]
EstimateAll(ring, events) ==
  IF ring = <<>> THEN estimator
  ELSE LET upTo[n \in 0..Len(events)] ==
             IF n = 0 THEN estimator ELSE Estimate(ring, upTo[n - 1], events[n])
       IN  upTo[Len(events)]

-----------------------------------------------------------------------------
TxInit ==
  /\ latest = [bat |-> <<>>, chg |-> <<>>]
  /\ burst = <<>> /\ txEvents = <<>> /\ history = <<>> /\ heard = <<>>
  /\ txThreshold = 1
  /\ estimator = [samples |-> <<>>, processed |-> {}]

TxClock == IF heard = <<>> THEN 0 ELSE Last(heard).at

Hear(now, bat, chg) ==
  LET above == Above(bat, chg)
      s     == Strength(bat, chg)
  IN  /\ burst' = IF above THEN Rising(now, s) ELSE <<>>
      /\ txEvents' = IF above THEN txEvents ELSE Ended(now)
      /\ heard' = Append(heard, [at |-> now, above |-> above, amps |-> s.amps, power |-> s.power])

\* update(BatterySnapshot): an invalid reading only takes its place in the ring.
TxBattery(now, bat) ==
  LET chg == IF latest.chg = <<>> THEN [a |-> 0, v |-> bat.v] ELSE latest.chg[1] IN
  /\ IF bat.valid THEN Hear(now, bat, chg) ELSE UNCHANGED <<burst, txEvents, heard>>
  /\ latest' = [latest EXCEPT !.bat = <<bat>>]
  /\ history' = Append(history, [valid |-> bat.valid, cur |-> bat.cur, v |-> bat.v, at |-> now])
  /\ estimator' = EstimateAll(history', txEvents')
  /\ UNCHANGED txThreshold

\* update_pwrgate(PwrGateSnapshot)
TxCharger(now, chg) ==
  LET bat == IF latest.bat = <<>> THEN [cur |-> 0, v |-> chg.v] ELSE latest.bat[1] IN
  /\ IF chg.valid THEN Hear(now, bat, chg) ELSE UNCHANGED <<burst, txEvents, heard>>
  /\ latest' = [latest EXCEPT !.chg = <<chg>>]
  /\ estimator' = IF latest.bat = <<>> THEN estimator ELSE EstimateAll(history, txEvents')
  /\ UNCHANGED <<txThreshold, history>>

SetTxThreshold(amps) ==
  /\ txThreshold' = amps
  /\ UNCHANGED <<latest, burst, txEvents, history, estimator, heard>>
TxNext ==
  /\ Len(heard) < TxHeard
  /\ \/ \E now \in {TxClock, TxClock + 1} :
          \/ Len(history) < TxHistory /\ \E bat \in TxBatteries : TxBattery(now, bat)
          \/ \E chg \in TxChargers : TxCharger(now, chg)
     \/ \E amps \in {1, 3} : SetTxThreshold(amps)

TxSpec == TxInit /\ [][TxNext]_txVars

-----------------------------------------------------------------------------
TxTypeOK ==
  /\ Len(burst) <= 1 /\ Len(txEvents) <= MaxTxEvents
  /\ Len(estimator.samples) <= MaxSamples
  /\ Cardinality(estimator.processed) <= MaxProcessed

\* The transmissions in what was heard: <<i, j>>, from the first reading above
\* the threshold to the first one that is not.
Runs(h) ==
  {r \in (DOMAIN h) \X (DOMAIN h) :
     /\ r[1] < r[2] /\ ~h[r[2]].above
     /\ \A k \in r[1]..(r[2] - 1) : h[k].above
     /\ r[1] = 1 \/ ~h[r[1] - 1].above}

\* What the list says of one: its bounds and its first strongest reading
EventOf(h, i, j) ==
  LET first == CHOOSE k \in i..(j - 1) :
                 /\ \A q \in i..(j - 1) : h[q].amps <= h[k].amps
                 /\ \A q \in i..(k - 1) : h[q].amps < h[k].amps
  IN  [start |-> h[i].at, end |-> h[j].at, amps |-> h[first].amps, power |-> h[first].power]

\* The list holds the newest transmissions in their order, each with its own
\* bounds and the power of its first strongest reading, whichever of the two
\* streams brought each reading and wherever the threshold was moved.
TxEventsAreRuns ==
  \E all \in [1..Cardinality(Runs(heard)) -> Runs(heard)] :
    /\ \A a, b \in DOMAIN all : a < b => all[a][2] < all[b][2]
    /\ txEvents = Trim([k \in DOMAIN all |-> EventOf(heard, all[k][1], all[k][2])], MaxTxEvents)

\* A transmission is weighed once, although each reading presents all the
\* events in the list again; and only one a charger reading opened can be:
\* for one opened by the BMS "before" and "during" are the same reading.
OneSamplePerTx ==
  /\ \A i, j \in DOMAIN estimator.samples :
        estimator.samples[i].end = estimator.samples[j].end => i = j
  /\ \A i \in DOMAIN estimator.samples : \A r \in Runs(heard) :
        heard[r[2]].at = estimator.samples[i].end /\ heard[r[1]].at < heard[r[2]].at =>
          ~\E k \in DOMAIN history : history[k].valid /\ history[k].at = heard[r[1]].at
=============================================================================
