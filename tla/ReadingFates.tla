---------------------------- MODULE ReadingFates ----------------------------
(***************************************************************************)
(* What becomes of a reading, as far as anybody outside the data store can  *)
(* tell: it waits to be written, it is stored, it was deleted by age, or it *)
(* was lost.  Of each stream readings are numbered in the order they come.  *)
(* How they are kept while they wait, when they are written and what the    *)
(* dashboard shows of them is not said here.                                *)
(***************************************************************************)
EXTENDS Naturals

CONSTANT Sources   \* the streams of readings

VARIABLES
  count,    \* how many readings of each stream arrived
  waiting, stored, deleted, lost

fatesVars == <<count, waiting, stored, deleted, lost>>

None == [s \in Sources |-> {}]

FatesInit ==
  /\ count = [s \in Sources |-> 0]
  /\ waiting = None /\ stored = None /\ deleted = None /\ lost = None

With(queue, s)  == [queue EXCEPT ![s] = @ \cup {count[s] + 1}]
Count(s)        == count' = [count EXCEPT ![s] = @ + 1]

Arrive(s) ==
  /\ Count(s) /\ waiting' = With(waiting, s)
  /\ UNCHANGED <<stored, deleted, lost>>

\* nobody will write it
TurnAway(s) ==
  /\ Count(s) /\ lost' = With(lost, s)
  /\ UNCHANGED <<waiting, stored, deleted>>

\* How much of a batch is stored.  A fault is one of one stream, and costs its
\* batch, or the oldest reading of it; a closed database takes nothing.
Results == {"all", "rest", "nothing"}
Taken(batch, result) ==
  CASE result = "all" -> batch
    [] result = "rest" -> {id \in batch : \E older \in batch : older < id}
    [] result = "nothing" -> {}
OneFault(result) ==
  \/ \E s \in Sources : \A t \in Sources \ {s} : result[t] = "all"
  \/ \A s \in Sources : result[s] = "nothing"

\* All that waits is written at once, what has just arrived with it
Save(batches) ==
  \E result \in [Sources -> Results] :
    /\ OneFault(result)
    /\ waiting' = None
    /\ stored' = [s \in Sources |-> stored[s] \cup Taken(batches[s], result[s])]
    /\ lost' = [s \in Sources |-> lost[s] \cup (batches[s] \ Taken(batches[s], result[s]))]
    /\ UNCHANGED deleted

SaveWaiting      == Save(waiting) /\ UNCHANGED count
ArriveAndSave(s) == Count(s) /\ Save(With(waiting, s))

Marks == [Sources -> UNION {0..count[s] : s \in Sources}]

\* The oldest are deleted, ...
Age(upto) ==
  /\ stored' = [s \in Sources |-> {id \in stored[s] : id > upto[s]}]
  /\ deleted' = [s \in Sources |-> deleted[s] \cup {id \in stored[s] : id <= upto[s]}]
  /\ UNCHANGED <<count, waiting, lost>>

\* ... the end of the process loses what waits and was not just being written, ...
End(written) ==
  /\ waiting' = None
  /\ stored' = [s \in Sources |-> IF s \in written THEN stored[s] \cup waiting[s] ELSE stored[s]]
  /\ lost' = [s \in Sources |-> IF s \in written THEN lost[s] ELSE lost[s] \cup waiting[s]]
  /\ UNCHANGED <<count, deleted>>

\* ... and that of the power the newest that are stored as well.
LosePower(upto) ==
  /\ waiting' = None
  /\ stored' = [s \in Sources |-> {id \in stored[s] : id <= upto[s]}]
  /\ lost' = [s \in Sources |-> lost[s] \cup waiting[s] \cup {id \in stored[s] : id > upto[s]}]
  /\ UNCHANGED <<count, deleted>>

FatesNext ==
  \/ \E s \in Sources : Arrive(s) \/ TurnAway(s) \/ ArriveAndSave(s)
  \/ SaveWaiting
  \/ \E upto \in Marks : Age(upto) \/ LosePower(upto)
  \/ \E written \in SUBSET Sources : End(written)

FatesSpec == FatesInit /\ [][FatesNext]_fatesVars
-----------------------------------------------------------------------------
FatesTypeOK ==
  /\ count \in [Sources -> Nat]
  /\ {waiting, stored, deleted, lost} \subseteq [Sources -> SUBSET Nat]

\* A reading has one fate,
OneFate ==
  \A s \in Sources :
    /\ waiting[s] \cup stored[s] \cup deleted[s] \cup lost[s] = 1..count[s]
    /\ waiting[s] \cap (stored[s] \cup deleted[s] \cup lost[s]) = {}
    /\ stored[s] \cap (deleted[s] \cup lost[s]) = {}
    /\ deleted[s] \cap lost[s] = {}

\* those that wait are the newest and those deleted are the oldest,
FatesInOrder ==
  \A s \in Sources :
    /\ \A w \in waiting[s], t \in stored[s] \cup deleted[s] : t < w
    /\ \A d \in deleted[s], t \in stored[s] : d < t

\* and what is deleted or lost never comes back.
GoneForGood ==
  [][\A s \in Sources :
       deleted[s] \subseteq deleted'[s] /\ lost[s] \subseteq lost'[s]]_fatesVars
=============================================================================
