-------------------------- MODULE DataStoreProofs ---------------------------
(***************************************************************************)
(* Proofs about DataStore, for every size of the rings and every bound.     *)
(* StoreInv is the strengthening: the loss of power must leave a beginning  *)
(* of every table, or the order of the rows would not survive it.           *)
(***************************************************************************)
EXTENDS DataStore, SequenceTheorems, TLAPS

Readings == Seq(Nat)

LEMMA DropFacts ==
  ASSUME NEW q \in Readings, NEW n \in 0..Len(q)
  PROVE  /\ Drop(q, n) \in Readings /\ Len(Drop(q, n)) = Len(q) - n
         /\ \A i \in 1..(Len(q) - n) : Drop(q, n)[i] = q[n + i]
BY DEF Drop, Readings

LEMMA ConcatFacts ==
  ASSUME NEW a \in Readings, NEW b \in Readings
  PROVE  /\ a \o b \in Readings /\ Len(a \o b) = Len(a) + Len(b)
         /\ \A i \in 1..(Len(a) + Len(b)) :
              (a \o b)[i] = IF i <= Len(a) THEN a[i] ELSE b[i - Len(a)]
BY DEF Readings

LEMMA AppendFacts ==
  ASSUME NEW q \in Readings, NEW x \in Nat
  PROVE  /\ Append(q, x) \in Readings /\ Len(Append(q, x)) = Len(q) + 1
         /\ \A i \in 1..Len(q) : Append(q, x)[i] = q[i]
         /\ Append(q, x)[Len(q) + 1] = x
BY DEF Readings

LEMMA NewestFacts ==
  ASSUME NEW q \in Readings
  PROVE  Newest(q) \in Readings /\ Len(Newest(q)) <= MaxHistory
<1>1. CASE Len(q) > MaxHistory
  <2>1. Len(q) - MaxHistory \in 0..Len(q)
    BY <1>1, StoreAssumption DEF Readings
  <2> HIDE DEF Readings
  <2>2. /\ Drop(q, Len(q) - MaxHistory) \in Readings
        /\ Len(Drop(q, Len(q) - MaxHistory)) = Len(q) - (Len(q) - MaxHistory)
    BY <2>1, DropFacts
  <2> QED BY <1>1, <2>2, StoreAssumption DEF Newest, Readings
<1>2. CASE ~(Len(q) > MaxHistory)
  BY <1>2, StoreAssumption DEF Newest, Readings
<1> QED BY <1>1, <1>2

(* What is stored of a batch is an end of it.                               *)
LEMMA StoredFacts ==
  ASSUME NEW s, NEW batch \in Readings, NEW bad
  PROVE  /\ Stored(s, batch, bad) \in Readings
         /\ \E k \in 0..Len(batch) :
              /\ Len(Stored(s, batch, bad)) = Len(batch) - k
              /\ \A i \in 1..(Len(batch) - k) : Stored(s, batch, bad)[i] = batch[i + k]
<1>1. CASE Stored(s, batch, bad) = <<>>
  <2>1. <<>> \in Readings /\ Len(<<>>) = 0
    BY DEF Readings
  <2>2. Len(batch) \in Nat
    BY DEF Readings
  <2> QED BY <1>1, <2>1, <2>2
<1>2. CASE Stored(s, batch, bad) = Tail(batch) /\ batch # <<>>
  <2>1. /\ Tail(batch) \in Readings /\ Len(Tail(batch)) = Len(batch) - 1 /\ 1 \in 0..Len(batch)
        /\ \A i \in 1..(Len(batch) - 1) : Tail(batch)[i] = batch[i + 1]
    BY <1>2 DEF Readings
  <2> QED BY <1>2, <2>1
<1>3. CASE Stored(s, batch, bad) = batch
  <2>1. Len(batch) \in Nat
    BY DEF Readings
  <2> QED BY <1>3, <2>1
<1> QED BY <1>1, <1>2, <1>3 DEF Stored
-----------------------------------------------------------------------------
(* Types                                                                    *)

LEMMA EmptyType == Empty \in [Streams -> Readings]
BY DEF Empty, Readings

LEMMA FlushTypes ==
  ASSUME TypeOK, NEW pending \in [Streams -> Readings], NEW bad, Flush(pending, bad)
  PROVE  /\ buf' \in [Streams -> Readings] /\ table' \in [Streams -> Readings]
         /\ onDisk' \subseteq [Streams -> Readings]
         /\ lost' \in [Streams -> SUBSET Nat]
<1> DEFINE stored == [s \in Streams |-> Stored(s, pending[s], bad)]
<1>1. stored \in [Streams -> Readings]
  BY StoredFacts
<1>2. table \in [Streams -> Readings] /\ lost \in [Streams -> SUBSET Nat]
      /\ onDisk \subseteq [Streams -> Readings]
  BY DEF TypeOK, Readings
<1>3. /\ buf' = Empty /\ table' = [s \in Streams |-> table[s] \o stored[s]]
      /\ onDisk' = onDisk \cup {With(Battery, stored[Battery]), table'}
      /\ lost' = [s \in Streams |-> lost[s] \cup (Image(pending[s]) \ Image(stored[s]))]
  BY DEF Flush
<1> HIDE DEF stored
<1>4. table' \in [Streams -> Readings]
  BY <1>1, <1>2, <1>3, ConcatFacts
<1>5. With(Battery, stored[Battery]) \in [Streams -> Readings]
  <2>1. table[Battery] \o stored[Battery] \in Readings
    BY <1>1, <1>2, ConcatFacts DEF Streams
  <2> QED BY <1>2, <2>1 DEF With
<1>6. \A s \in Streams : Image(pending[s]) \subseteq Nat
  BY DEF Image, Readings
<1> QED BY <1>2, <1>3, <1>4, <1>5, <1>6, EmptyType

(* The rings never grow beyond history_size, and the variables have the     *)
(* types they are declared with.                                            *)
LEMMA NextTypes == TypeOK /\ [Next]_vars => TypeOK'
<1> SUFFICES ASSUME TypeOK, [Next]_vars PROVE TypeOK'
  OBVIOUS
<1>r. /\ ring \in [Streams -> Readings] /\ buf \in [Streams -> Readings]
      /\ table \in [Streams -> Readings] /\ onDisk \subseteq [Streams -> Readings]
      /\ last \in [Streams -> Nat]
  BY DEF TypeOK, Readings
<1>e. \A s \in Streams : Len(Empty[s]) <= MaxHistory
  BY StoreAssumption DEF Empty
<1>i. \A q \in Readings : Image(q) \subseteq Nat
  BY DEF Image, Readings
<1>1. ASSUME NEW s \in Streams, NEW due \in BOOLEAN, NEW bad \in Troubles, Update(s, due, bad)
      PROVE  TypeOK'
  <2> DEFINE new == last[s] + 1
             pending == [buf EXCEPT ![s] = Append(@, new)]
  <2>1. new \in Nat /\ last' \in [Streams -> Nat] /\ late' \in [Streams -> SUBSET Nat]
    <3>1. new \in Nat
      BY <1>r
    <3>2. last' \in [Streams -> Nat]
      BY <1>1, <1>r, <3>1 DEF Update
    <3>3. late \in [Streams -> SUBSET Nat]
      BY DEF TypeOK
    <3>4. late' = late \/ late' = [late EXCEPT ![s] = @ \cup {new}]
      BY <1>1 DEF Update
    <3>5. late' \in [Streams -> SUBSET Nat]
      BY <3>1, <3>3, <3>4
    <3> QED BY <3>1, <3>2, <3>5
  <2>2. pending \in [Streams -> Readings]
    <3>1. Append(buf[s], new) \in Readings
      BY <1>r, <2>1, AppendFacts
    <3> QED BY <1>r, <3>1
  <2>3. ring' \in [Streams -> Readings] /\ \A t \in Streams : Len(ring'[t]) <= MaxHistory
    <3>1. Append(ring[s], new) \in Readings
      BY <1>r, <2>1, AppendFacts
    <3>2. Newest(Append(ring[s], new)) \in Readings
          /\ Len(Newest(Append(ring[s], new))) <= MaxHistory
      BY <3>1, NewestFacts
    <3>3. ring' = [ring EXCEPT ![s] = Newest(Append(ring[s], new))]
      BY <1>1 DEF Update
    <3> QED BY <1>r, <3>2, <3>3 DEF TypeOK
  <2>4. /\ buf' \in [Streams -> Readings] /\ table' \in [Streams -> Readings]
        /\ onDisk' \subseteq [Streams -> Readings] /\ lost' \in [Streams -> SUBSET Nat]
        /\ faults' \in 0..MaxFaults
    <3>1. CASE Fault(bad) /\ Flush(pending, bad)
      <4>1. faults' \in 0..MaxFaults
        BY <3>1, StoreAssumption DEF Fault, TypeOK
      <4> HIDE DEF pending
      <4> QED BY <2>2, <3>1, <4>1, FlushTypes
    <3>2. CASE buf' = pending /\ UNCHANGED <<table, onDisk, lost, faults>>
      BY <2>2, <3>2, <1>r DEF TypeOK
    <3>3. CASE /\ lost' = [lost EXCEPT ![s] = @ \cup {new}]
               /\ UNCHANGED <<table, onDisk, buf, faults>>
      BY <2>1, <3>3, <1>r DEF TypeOK
    <3> QED BY <1>1, <3>1, <3>2, <3>3 DEF Update
  <2> QED BY <1>1, <2>1, <2>3, <2>4 DEF Update, TypeOK, Readings
<1>2. ASSUME NEW age \in [Streams -> 0..MaxReadings], Cleanup(age) PROVE TypeOK'
  <2>1. \A s \in Streams : Drop(table[s], age[s]) \in Readings
    <3> SUFFICES ASSUME NEW s \in Streams PROVE Drop(table[s], age[s]) \in Readings
      OBVIOUS
    <3>1. age[s] \in 0..Len(table[s]) /\ table[s] \in Readings
      BY <1>2, <1>r, StoreAssumption DEF Cleanup, Readings
    <3> QED BY <3>1, DropFacts
  <2>2. table' \in [Streams -> Readings]
    BY <1>2, <2>1 DEF Cleanup
  <2>3. wiped' \in [Streams -> SUBSET Nat]
    BY <1>2, <1>r, <1>i DEF Cleanup, TypeOK
  <2> QED BY <1>2, <2>2, <2>3 DEF Cleanup, TypeOK, Readings, world
<1>3. CASE Checkpoint
  BY <1>3 DEF Checkpoint, TypeOK, world
<1>4. CASE CloseDb
  BY <1>4 DEF CloseDb, TypeOK, world
<1>5. CASE Exit
  <2>1. ring' = Empty /\ buf' = Empty
        /\ lost' = [s \in Streams |-> lost[s] \cup Image(buf[s])]
    BY <1>5 DEF Exit, Gone
  <2>2. lost' \in [Streams -> SUBSET Nat]
    BY <2>1, <1>r, <1>i DEF TypeOK
  <2> QED BY <1>5, <1>e, <2>1, <2>2, EmptyType DEF Exit, Gone, TypeOK, Readings, world
<1>6. ASSUME NEW bad \in Troubles, ShutdownFlush(bad) PROVE TypeOK'
  <2>1. CASE UNCHANGED <<buf, table, onDisk, lost, faults>>
    BY <1>6, <2>1 DEF ShutdownFlush, TypeOK
  <2>2. CASE Fault(bad) /\ Flush(buf, bad)
    <3>1. faults' \in 0..MaxFaults
      BY <2>2, StoreAssumption DEF Fault, TypeOK
    <3>2. /\ buf' \in [Streams -> Readings] /\ table' \in [Streams -> Readings]
          /\ onDisk' \subseteq [Streams -> Readings] /\ lost' \in [Streams -> SUBSET Nat]
      BY <1>r, <2>2, FlushTypes
    <3> QED BY <1>6, <3>1, <3>2 DEF ShutdownFlush, TypeOK, Readings
  <2> QED BY <1>6, <2>1, <2>2 DEF ShutdownFlush
<1>7. ASSUME NEW written \in {{}, {Battery}, Streams}, Crash(written) PROVE TypeOK'
  <2>1. \A s \in Streams : table[s] \o buf[s] \in Readings
    BY <1>r, ConcatFacts
  <2>2. table' \in [Streams -> Readings]
    BY <1>7, <1>r, <2>1 DEF Crash
  <2> DEFINE half == With(Battery, IF Battery \in written THEN buf[Battery] ELSE <<>>)
  <2>3. half \in [Streams -> Readings]
    <3>1. (IF Battery \in written THEN buf[Battery] ELSE <<>>) \in Readings
      BY <1>r DEF Streams, Readings
    <3>2. table[Battery] \in Readings
      BY <1>r DEF Streams
    <3>3. table[Battery] \o (IF Battery \in written THEN buf[Battery] ELSE <<>>) \in Readings
      BY <3>1, <3>2, ConcatFacts
    <3> QED BY <1>r, <3>3 DEF With
  <2>4. onDisk' \subseteq [Streams -> Readings]
    <3> HIDE DEF half
    <3>1. onDisk' = onDisk \cup {half, table'}
      BY <1>7 DEF Crash, half
    <3> QED BY <1>r, <2>2, <2>3, <3>1
  <2>5. ring' = Empty /\ buf' = Empty
        /\ lost' = [s \in Streams |-> lost[s] \cup (Image(buf[s]) \ Image(table'[s]))]
    BY <1>7 DEF Crash, Gone
  <2>6. lost' \in [Streams -> SUBSET Nat]
    BY <2>5, <1>r, <1>i DEF TypeOK
  <2>7. crashes' \in 0..MaxCrashes
    BY <1>7, StoreAssumption DEF Crash, TypeOK
  <2> QED BY <1>7, <1>e, <2>2, <2>4, <2>5, <2>6, <2>7, EmptyType
          DEF Crash, Gone, TypeOK, Readings
<1>8. ASSUME NEW left \in onDisk, PowerLoss(left) PROVE TypeOK'
  <2>1. table' \in [Streams -> Readings] /\ onDisk' \subseteq [Streams -> Readings]
    BY <1>8, <1>r DEF PowerLoss
  <2>2. ring' = Empty /\ buf' = Empty
        /\ lost' = [s \in Streams |->
                      lost[s] \cup (Image(buf[s]) \cup (Image(table[s]) \ Image(left[s])))]
    BY <1>8 DEF PowerLoss, Gone
  <2>3. lost' \in [Streams -> SUBSET Nat]
    BY <2>2, <1>r, <1>i DEF TypeOK
  <2>4. crashes' \in 0..MaxCrashes
    BY <1>8, StoreAssumption DEF PowerLoss, TypeOK
  <2> QED BY <1>8, <1>e, <2>1, <2>2, <2>3, <2>4, EmptyType
          DEF PowerLoss, Gone, TypeOK, Readings
<1>9. ASSUME NEW opened \in BOOLEAN, Restart(opened) PROVE TypeOK'
  <2>1. \A s \in Streams : Newest(table[s]) \in Readings /\ Len(Newest(table[s])) <= MaxHistory
    BY <1>r, NewestFacts
  <2> QED BY <1>9, <2>1 DEF Restart, TypeOK, Readings, world
<1>10. CASE UNCHANGED vars
  BY <1>10 DEF TypeOK, vars
<1> QED BY <1>1, <1>2, <1>3, <1>4, <1>5, <1>6, <1>7, <1>8, <1>9, <1>10 DEF Next

LEMMA InitTypes == Init => TypeOK
<1> SUFFICES ASSUME Init PROVE TypeOK
  OBVIOUS
<1>1. Empty \in [Streams -> Seq(Nat)] /\ \A s \in Streams : Len(Empty[s]) <= MaxHistory
  BY StoreAssumption DEF Empty
<1> QED BY <1>1, StoreAssumption DEF Init, TypeOK

(* Every variable keeps its type, and no ring outgrows history_size: the    *)
(* trimming in update(), update_pwrgate() and at the start of main().       *)
THEOREM StoreTypes == Spec => []TypeOK
BY InitTypes, NextTypes, PTL DEF Spec
-----------------------------------------------------------------------------
(* Order                                                                    *)

Begins(p, q) == Len(p) <= Len(q) /\ \A i \in 1..Len(p) : p[i] = q[i]

StoreInv ==
  /\ TypeOK /\ InOrder
  /\ \A left \in onDisk, s \in Streams : Begins(left[s], table[s])

(* What InOrder says of one stream.                                         *)
Ordered(q, r, top) ==
  /\ Increasing(q) /\ Increasing(r) /\ Below(q, r)
  /\ \A id \in Image(q) \cup Image(r) : id <= top

LEMMA IndexFacts ==
  ASSUME NEW q \in Readings
  PROVE  /\ Len(q) \in Nat /\ DOMAIN q = 1..Len(q) /\ \A i \in 1..Len(q) : q[i] \in Nat
         /\ Image(q) = {q[i] : i \in 1..Len(q)} /\ Image(q) \subseteq Nat
BY DEF Readings, Image

(* The same in terms of indices.                                            *)
Indexed(q, r, top) ==
  /\ \A i \in 1..Len(q), j \in 1..Len(q) : i < j => q[i] < q[j]
  /\ \A i \in 1..Len(r), j \in 1..Len(r) : i < j => r[i] < r[j]
  /\ \A i \in 1..Len(q), j \in 1..Len(r) : q[i] < r[j]
  /\ \A i \in 1..Len(q) : q[i] <= top
  /\ \A i \in 1..Len(r) : r[i] <= top

LEMMA OrderedIndexed ==
  ASSUME NEW q \in Readings, NEW r \in Readings, NEW top
  PROVE  Ordered(q, r, top) <=> Indexed(q, r, top)
<1>1. /\ DOMAIN q = 1..Len(q) /\ DOMAIN r = 1..Len(r)
      /\ Image(q) = {q[i] : i \in 1..Len(q)} /\ Image(r) = {r[i] : i \in 1..Len(r)}
  BY IndexFacts
<1>2. (\A id \in Image(q) \cup Image(r) : id <= top) <=>
        (\A i \in 1..Len(q) : q[i] <= top) /\ (\A i \in 1..Len(r) : r[i] <= top)
  BY <1>1
<1>3. Increasing(q) <=> \A i \in 1..Len(q), j \in 1..Len(q) : i < j => q[i] < q[j]
  BY <1>1, Zenon DEF Increasing
<1>4. Increasing(r) <=> \A i \in 1..Len(r), j \in 1..Len(r) : i < j => r[i] < r[j]
  BY <1>1, Zenon DEF Increasing
<1>5. Below(q, r) <=> \A i \in 1..Len(q), j \in 1..Len(r) : q[i] < r[j]
  BY <1>1, Zenon DEF Below
<1> QED BY <1>2, <1>3, <1>4, <1>5 DEF Ordered, Indexed

LEMMA NothingFacts == <<>> \in Readings /\ Len(<<>>) = 0
BY DEF Readings

LEMMA OrderedConcat ==
  ASSUME NEW q \in Readings, NEW r \in Readings, NEW top \in Nat, Ordered(q, r, top)
  PROVE  Ordered(q \o r, <<>>, top) /\ Begins(q, q \o r)
<1> DEFINE c == q \o r
<1>1. /\ c \in Readings /\ Len(c) = Len(q) + Len(r)
      /\ \A i \in 1..(Len(q) + Len(r)) : c[i] = IF i <= Len(q) THEN q[i] ELSE r[i - Len(q)]
  BY ConcatFacts
<1> HIDE DEF c
<1>2. /\ Len(q) \in Nat /\ Len(r) \in Nat /\ \A i \in 1..Len(q) : q[i] \in Nat
      /\ \A i \in 1..Len(r) : r[i] \in Nat
  BY IndexFacts
<1>3. Indexed(q, r, top)
  BY OrderedIndexed
<1>4. ASSUME NEW i \in 1..Len(c) PROVE c[i] <= top
  <2>1. CASE i <= Len(q)
    BY <1>1, <1>2, <1>3, <2>1 DEF Indexed
  <2>2. CASE ~(i <= Len(q))
    <3>1. c[i] = r[i - Len(q)] /\ i - Len(q) \in 1..Len(r)
      BY <1>1, <1>2, <2>2
    <3> QED BY <1>3, <3>1 DEF Indexed
  <2> QED BY <2>1, <2>2
<1>5. ASSUME NEW i \in 1..Len(c), NEW j \in 1..Len(c), i < j PROVE c[i] < c[j]
  <2>1. CASE j <= Len(q)
    BY <1>1, <1>2, <1>3, <1>5, <2>1 DEF Indexed
  <2>2. CASE i <= Len(q) /\ ~(j <= Len(q))
    <3>1. c[i] = q[i] /\ c[j] = r[j - Len(q)] /\ i \in 1..Len(q) /\ j - Len(q) \in 1..Len(r)
      BY <1>1, <1>2, <2>2
    <3> QED BY <1>3, <3>1 DEF Indexed
  <2>3. CASE ~(i <= Len(q))
    <3>1. /\ c[i] = r[i - Len(q)] /\ c[j] = r[j - Len(q)]
          /\ i - Len(q) \in 1..Len(r) /\ j - Len(q) \in 1..Len(r)
      BY <1>1, <1>2, <1>5, <2>3
    <3>2. i - Len(q) < j - Len(q)
      BY <1>1, <1>2, <1>5
    <3> QED BY <1>3, <3>1, <3>2 DEF Indexed
  <2> QED BY <2>1, <2>2, <2>3
<1>6. Indexed(c, <<>>, top)
  BY <1>4, <1>5, NothingFacts DEF Indexed
<1>7. Begins(q, c)
  BY <1>1, <1>2 DEF Begins
<1>8. Ordered(c, <<>>, top)
  BY <1>1, <1>6, NothingFacts, OrderedIndexed
<1> QED BY <1>7, <1>8 DEF c

LEMMA OrderedStored ==
  ASSUME NEW q \in Readings, NEW r \in Readings, NEW top \in Nat, Ordered(q, r, top),
         NEW s, NEW bad
  PROVE  Ordered(q, Stored(s, r, bad), top)
<1> DEFINE e == Stored(s, r, bad)
<1>1. PICK k \in 0..Len(r) : Len(e) = Len(r) - k /\ \A i \in 1..(Len(r) - k) : e[i] = r[i + k]
  BY StoredFacts
<1>2. e \in Readings
  BY StoredFacts
<1> HIDE DEF e
<1>3. Len(r) \in Nat /\ Indexed(q, r, top)
  BY IndexFacts, OrderedIndexed
<1>4. \A i \in 1..Len(e) : i + k \in 1..Len(r) /\ e[i] = r[i + k]
  BY <1>1, <1>3
<1>5. \A i \in 1..Len(e), j \in 1..Len(e) : i < j => i + k < j + k
  BY <1>1, <1>3
<1>6. Indexed(q, e, top)
  BY <1>3, <1>4, <1>5 DEF Indexed
<1>7. Ordered(q, e, top)
  BY <1>2, <1>6, OrderedIndexed
<1> QED BY <1>7 DEF e

LEMMA OrderedAppend ==
  ASSUME NEW q \in Readings, NEW r \in Readings, NEW top \in Nat, Ordered(q, r, top)
  PROVE  Ordered(q, Append(r, top + 1), top + 1)
<1> DEFINE a == Append(r, top + 1)
<1>1. /\ a \in Readings /\ Len(a) = Len(r) + 1 /\ a[Len(r) + 1] = top + 1
      /\ \A i \in 1..Len(r) : a[i] = r[i]
  BY AppendFacts
<1> HIDE DEF a
<1>2. /\ Len(q) \in Nat /\ Len(r) \in Nat /\ \A i \in 1..Len(q) : q[i] \in Nat
      /\ \A i \in 1..Len(r) : r[i] \in Nat
  BY IndexFacts
<1>3. Indexed(q, r, top)
  BY OrderedIndexed
<1>4. \A i \in 1..Len(a) : i \in 1..Len(r) \/ i = Len(r) + 1
  BY <1>1, <1>2
<1>5. (\A i \in 1..Len(q) : q[i] < top + 1) /\ (\A i \in 1..Len(r) : r[i] < top + 1)
  BY <1>2, <1>3 DEF Indexed
<1>6. ASSUME NEW i \in 1..Len(a), NEW j \in 1..Len(a), i < j PROVE a[i] < a[j]
  <2>1. i \in 1..Len(r)
    BY <1>1, <1>2, <1>6
  <2>2. CASE j \in 1..Len(r)
    BY <1>1, <1>3, <1>6, <2>1, <2>2 DEF Indexed
  <2>3. CASE j = Len(r) + 1
    BY <1>1, <1>5, <2>1, <2>3
  <2> QED BY <1>4, <2>2, <2>3
<1>7. ASSUME NEW i \in 1..Len(q), NEW j \in 1..Len(a) PROVE q[i] < a[j]
  <2>1. CASE j \in 1..Len(r)
    BY <1>1, <1>3, <2>1 DEF Indexed
  <2>2. CASE j = Len(r) + 1
    BY <1>1, <1>5, <2>2
  <2> QED BY <1>4, <2>1, <2>2
<1>8. (\A i \in 1..Len(q) : q[i] <= top + 1) /\ (\A i \in 1..Len(a) : a[i] <= top + 1)
  <2>1. ASSUME NEW i \in 1..Len(q) PROVE q[i] <= top + 1
    BY <1>2, <1>5
  <2>2. ASSUME NEW i \in 1..Len(a) PROVE a[i] <= top + 1
    BY <1>1, <1>2, <1>4, <1>5
  <2> QED BY <2>1, <2>2
<1>9. Indexed(q, a, top + 1)
  BY <1>3, <1>6, <1>7, <1>8 DEF Indexed
<1>10. Ordered(q, a, top + 1)
  BY <1>1, <1>9, OrderedIndexed
<1> QED BY <1>10 DEF a

LEMMA OrderedBegin ==
  ASSUME NEW p \in Readings, NEW q \in Readings, NEW r \in Readings, NEW top \in Nat,
         Ordered(q, r, top), Begins(p, q)
  PROVE  Ordered(p, <<>>, top)
<1>1. Indexed(q, r, top) /\ Len(q) \in Nat /\ Len(p) \in Nat
  BY OrderedIndexed, IndexFacts
<1>2. Indexed(p, <<>>, top)
  BY <1>1, NothingFacts DEF Indexed, Begins
<1> QED BY <1>2, NothingFacts, OrderedIndexed

LEMMA OrderedDrop ==
  ASSUME NEW q \in Readings, NEW r \in Readings, NEW top \in Nat, Ordered(q, r, top),
         NEW n \in 0..Len(q)
  PROVE  Ordered(Drop(q, n), r, top)
<1> DEFINE d == Drop(q, n)
<1>1. /\ d \in Readings /\ Len(d) = Len(q) - n
      /\ \A i \in 1..(Len(q) - n) : d[i] = q[n + i]
  BY DropFacts
<1> HIDE DEF d
<1>2. Indexed(q, r, top) /\ Len(q) \in Nat
  BY OrderedIndexed, IndexFacts
<1>3. \A i \in 1..Len(d) : n + i \in 1..Len(q) /\ d[i] = q[n + i]
  BY <1>1, <1>2
<1>4. \A i \in 1..Len(d), j \in 1..Len(d) : i < j => n + i < n + j
  BY <1>1, <1>2
<1>5. Indexed(d, r, top)
  BY <1>2, <1>3, <1>4 DEF Indexed
<1>6. Ordered(d, r, top)
  BY <1>1, <1>5, OrderedIndexed
<1> QED BY <1>6 DEF d

LEMMA BeginsIsReflexive == \A q \in Readings : Begins(q, q)
BY DEF Begins, Readings

LEMMA BeginsIsTransitive ==
  ASSUME NEW p \in Readings, NEW q \in Readings, NEW r \in Readings, Begins(p, q), Begins(q, r)
  PROVE  Begins(p, r)
BY DEF Begins, Readings

(* A flush of ordered buffers.                                              *)
LEMMA FlushKeepsOrder ==
  ASSUME StoreInv, NEW pending \in [Streams -> Readings], NEW bad, Flush(pending, bad),
         NEW top \in [Streams -> Nat],
         \A s \in Streams : Ordered(table[s], pending[s], top[s])
  PROVE  /\ \A s \in Streams : Ordered(table'[s], buf'[s], top[s])
         /\ \A s \in Streams : Begins(table[s], table'[s])
         /\ \A left \in onDisk', s \in Streams : Begins(left[s], table'[s])
<1> DEFINE stored == [s \in Streams |-> Stored(s, pending[s], bad)]
<1>1. stored \in [Streams -> Readings]
  BY StoredFacts
<1>2. \A s \in Streams : Ordered(table[s], stored[s], top[s])
  BY OrderedStored DEF StoreInv, TypeOK, Readings
<1>3. /\ buf' = Empty /\ table' = [s \in Streams |-> table[s] \o stored[s]]
      /\ onDisk' = onDisk \cup {With(Battery, stored[Battery]), table'}
  BY DEF Flush
<1>t. /\ table \in [Streams -> Readings] /\ onDisk \subseteq [Streams -> Readings]
  BY DEF StoreInv, TypeOK, Readings
<1> HIDE DEF stored
<1>4. \A s \in Streams : Ordered(table'[s], <<>>, top[s]) /\ Begins(table[s], table'[s])
  BY <1>1, <1>2, <1>3, <1>t, OrderedConcat
<1>5. \A s \in Streams : table'[s] \in Readings
  BY <1>1, <1>3, <1>t, ConcatFacts
<1>6. ASSUME NEW left \in onDisk', NEW s \in Streams PROVE Begins(left[s], table'[s])
  <2>1. CASE left \in onDisk
    <3>1. left[s] \in Readings /\ table[s] \in Readings /\ Begins(left[s], table[s])
      BY <2>1, <1>t DEF StoreInv
    <3> QED BY <3>1, <1>4, <1>5, BeginsIsTransitive
  <2>2. CASE left = table'
    BY <2>2, <1>5, BeginsIsReflexive
  <2>3. CASE left = With(Battery, stored[Battery])
    <3>1. left[s] = table'[s] \/ left[s] = table[s]
      BY <2>3, <1>3, <1>t DEF With
    <3> QED BY <3>1, <1>4, <1>5, BeginsIsReflexive
  <2> QED BY <1>3, <2>1, <2>2, <2>3
<1>7. \A s \in Streams : buf'[s] = <<>>
  BY <1>3 DEF Empty
<1> QED BY <1>4, <1>6, <1>7

LEMMA OrderOf == InOrder <=> \A s \in Streams : Ordered(table[s], buf[s], last[s])
BY DEF InOrder, Ordered

LEMMA OrderOfNext == InOrder' <=> \A s \in Streams : Ordered(table'[s], buf'[s], last'[s])
BY DEF InOrder, Ordered

LEMMA NextOrder == StoreInv /\ [Next]_vars => StoreInv'
<1> SUFFICES ASSUME StoreInv, [Next]_vars PROVE StoreInv'
  OBVIOUS
<1>t. TypeOK' /\ TypeOK
  BY NextTypes DEF StoreInv
<1>r. /\ buf \in [Streams -> Readings] /\ table \in [Streams -> Readings]
      /\ onDisk \subseteq [Streams -> Readings] /\ last \in [Streams -> Nat]
      /\ table' \in [Streams -> Readings]
  BY <1>t DEF TypeOK, Readings
<1>o. \A s \in Streams : Ordered(table[s], buf[s], last[s])
  BY OrderOf DEF StoreInv
<1>b. \A left \in onDisk, s \in Streams : Begins(left[s], table[s])
  BY DEF StoreInv
<1>x. ASSUME \A s \in Streams : Ordered(table'[s], buf'[s], last'[s]),
             \A left \in onDisk', s \in Streams : Begins(left[s], table'[s])
      PROVE  StoreInv'
  BY <1>t, <1>x, OrderOfNext DEF StoreInv
<1>k. ASSUME UNCHANGED <<buf, table, last>>, onDisk' = onDisk \/ onDisk' = {table}
      PROVE  StoreInv'
  <2>1. \A left \in onDisk', s \in Streams : Begins(left[s], table'[s])
    BY <1>k, <1>b, <1>r, BeginsIsReflexive
  <2> QED BY <1>k, <1>o, <1>x, <2>1
(* The process is gone: its buffers are empty.                              *)
<1>g. ASSUME buf' = Empty, last' = last, NEW s \in Streams, Ordered(table'[s], <<>>, last[s])
      PROVE  Ordered(table'[s], buf'[s], last'[s])
  BY <1>g DEF Empty
<1>1. ASSUME NEW s \in Streams, NEW due \in BOOLEAN, NEW bad \in Troubles, Update(s, due, bad)
      PROVE  StoreInv'
  <2> DEFINE new == last[s] + 1
             pending == [buf EXCEPT ![s] = Append(@, new)]
             top == [last EXCEPT ![s] = new]
  <2>1. top \in [Streams -> Nat] /\ last' = top /\ new \in Nat
    BY <1>1, <1>r DEF Update
  <2>2. pending \in [Streams -> Readings]
    <3>1. Append(buf[s], new) \in Readings
      BY <1>r, <2>1, AppendFacts
    <3> QED BY <1>r, <3>1
  <2>3. ASSUME NEW t \in Streams PROVE Ordered(table[t], pending[t], top[t])
    <3>1. CASE t = s
      <4>1. Ordered(table[s], Append(buf[s], new), new)
        BY <1>r, <1>o, OrderedAppend
      <4> QED BY <3>1, <4>1, <1>r
    <3>2. CASE t # s
      BY <3>2, <1>o, <1>r
    <3> QED BY <3>1, <3>2
  <2>5. ASSUME NEW t \in Streams PROVE Ordered(table[t], buf[t], top[t])
    <3>1. CASE t # s
      BY <3>1, <1>o, <1>r
    <3>2. CASE t = s
      <4>1. Indexed(table[s], buf[s], last[s]) /\ table[s] \in Readings /\ buf[s] \in Readings
        BY <1>o, <1>r, OrderedIndexed
      <4>2. last[s] \in Nat /\ (\A i \in 1..Len(table[s]) : table[s][i] \in Nat)
            /\ (\A i \in 1..Len(buf[s]) : buf[s][i] \in Nat)
        BY <1>r, IndexFacts
      <4>3. Indexed(table[s], buf[s], new)
        BY <4>1, <4>2 DEF Indexed
      <4> QED BY <3>2, <4>1, <4>3, <1>r, OrderedIndexed
    <3> QED BY <3>1, <3>2
  <2> HIDE DEF pending, top
  <2>4. CASE Flush(pending, bad)
    BY <1>x, <2>1, <2>2, <2>3, <2>4, FlushKeepsOrder
  <2>6. CASE buf' = pending /\ UNCHANGED <<table, onDisk>>
    BY <1>b, <1>x, <2>1, <2>3, <2>6
  <2>7. CASE UNCHANGED <<table, onDisk, buf>>
    BY <1>b, <1>x, <2>1, <2>5, <2>7
  <2> QED BY <1>1, <2>4, <2>6, <2>7 DEF Update, pending
<1>2. ASSUME NEW age \in [Streams -> 0..MaxReadings], Cleanup(age) PROVE StoreInv'
  <2>1. ASSUME NEW s \in Streams PROVE Ordered(table'[s], buf'[s], last'[s])
    <3>1. age[s] \in 0..Len(table[s]) /\ table[s] \in Readings
      BY <1>2, <1>r, StoreAssumption DEF Cleanup, Readings
    <3>2. Ordered(Drop(table[s], age[s]), buf[s], last[s])
      BY <3>1, <1>r, <1>o, OrderedDrop
    <3> QED BY <3>2, <1>2 DEF Cleanup, world
  <2>2. \A left \in onDisk', s \in Streams : Begins(left[s], table'[s])
    BY <1>2, <1>r, BeginsIsReflexive DEF Cleanup
  <2> QED BY <1>x, <2>1, <2>2
<1>3. CASE Checkpoint
  BY <1>3, <1>k DEF Checkpoint, world
<1>4. CASE CloseDb
  BY <1>4, <1>k DEF CloseDb, world
<1>5. CASE Exit
  <2>1. UNCHANGED <<table, onDisk, last>> /\ buf' = Empty
    BY <1>5 DEF Exit, Gone, world
  <2>2. ASSUME NEW s \in Streams PROVE Ordered(table'[s], <<>>, last[s])
    BY <1>o, <1>r, <2>1, OrderedBegin, BeginsIsReflexive
  <2> QED BY <1>b, <1>g, <1>x, <2>1, <2>2
<1>6. ASSUME NEW bad \in Troubles, ShutdownFlush(bad) PROVE StoreInv'
  <2>1. CASE UNCHANGED <<buf, table, onDisk>>
    BY <1>6, <2>1, <1>k DEF ShutdownFlush
  <2>2. CASE Flush(buf, bad)
    <3>1. last' = last
      BY <1>6 DEF ShutdownFlush
    <3> QED BY <1>r, <1>o, <1>x, <2>2, <3>1, FlushKeepsOrder
  <2> QED BY <1>6, <2>1, <2>2 DEF ShutdownFlush
<1>7. ASSUME NEW written \in {{}, {Battery}, Streams}, Crash(written) PROVE StoreInv'
  <2>1. /\ buf' = Empty /\ last' = last
        /\ table' = [s \in Streams |-> IF s \in written THEN table[s] \o buf[s] ELSE table[s]]
        /\ onDisk' = onDisk \cup
             {With(Battery, IF Battery \in written THEN buf[Battery] ELSE <<>>), table'}
    BY <1>7 DEF Crash, Gone
  <2>2. ASSUME NEW s \in Streams
        PROVE  Ordered(table'[s], <<>>, last[s]) /\ Begins(table[s], table'[s])
    <3>1. CASE s \in written
      <4>1. table'[s] = table[s] \o buf[s]
        BY <2>1, <3>1
      <4> QED BY <4>1, <1>o, <1>r, OrderedConcat
    <3>2. CASE s \notin written
      <4>1. table'[s] = table[s]
        BY <2>1, <3>2
      <4> QED BY <4>1, <1>o, <1>r, OrderedBegin, BeginsIsReflexive
    <3> QED BY <3>1, <3>2
  <2>3. ASSUME NEW left \in onDisk', NEW s \in Streams PROVE Begins(left[s], table'[s])
    <3>1. CASE left \in onDisk
      <4>1. left[s] \in Readings /\ table[s] \in Readings /\ Begins(left[s], table[s])
        BY <3>1, <1>r, <1>b
      <4> QED BY <4>1, <2>2, <1>r, BeginsIsTransitive
    <3>2. CASE left = table'
      BY <3>2, <1>r, BeginsIsReflexive
    <3>3. CASE left = With(Battery, IF Battery \in written THEN buf[Battery] ELSE <<>>)
      <4>1. table[Battery] \o <<>> = table[Battery]
        BY <1>r DEF Streams, Readings
      <4>2. left[s] = table'[s] \/ left[s] = table[s]
        BY <2>1, <3>3, <4>1, <1>r DEF With
      <4> QED BY <4>2, <2>2, <1>r, BeginsIsReflexive
    <3> QED BY <2>1, <3>1, <3>2, <3>3
  <2> QED BY <1>g, <1>x, <2>1, <2>2, <2>3
<1>8. ASSUME NEW left \in onDisk, PowerLoss(left) PROVE StoreInv'
  <2>1. table' = left /\ onDisk' = {left} /\ buf' = Empty /\ last' = last
    BY <1>8 DEF PowerLoss, Gone
  <2>2. ASSUME NEW s \in Streams PROVE Ordered(table'[s], <<>>, last[s])
    <3>1. left[s] \in Readings /\ Begins(left[s], table[s])
      BY <1>b, <1>r
    <3> QED BY <2>1, <3>1, <1>o, <1>r, OrderedBegin
  <2>3. \A l \in onDisk', s \in Streams : Begins(l[s], table'[s])
    BY <2>1, <1>r, BeginsIsReflexive
  <2> QED BY <1>g, <1>x, <2>1, <2>2, <2>3
<1>9. ASSUME NEW opened \in BOOLEAN, Restart(opened) PROVE StoreInv'
  BY <1>9, <1>k DEF Restart, world
<1>10. CASE UNCHANGED vars
  BY <1>10, <1>k DEF vars
<1> QED BY <1>1, <1>2, <1>3, <1>4, <1>5, <1>6, <1>7, <1>8, <1>9, <1>10 DEF Next

LEMMA InitOrder == Init => StoreInv
<1> SUFFICES ASSUME Init PROVE StoreInv
  OBVIOUS
<1>1. \A s \in Streams : Ordered(Empty[s], Empty[s], 0) /\ Begins(Empty[s], Empty[s])
  BY DEF Empty, Ordered, Increasing, Below, Image, Begins
<1>2. InOrder
  BY <1>1, OrderOf DEF Init
<1> QED BY <1>1, <1>2, InitTypes DEF Init, StoreInv

LEMMA StoreInvHolds == Spec => []StoreInv
BY InitOrder, NextOrder, PTL DEF Spec

(* Through restarts, crashes and losses of power no reading is stored twice *)
(* and none out of order.                                                   *)
THEOREM InOrderHolds == Spec => []InOrder
<1>1. StoreInv => InOrder
  BY DEF StoreInv
<1> QED BY <1>1, StoreInvHolds, PTL
-----------------------------------------------------------------------------
(* Rows leave a table only at an end                                        *)

LEMMA BeginsIsSubSeq ==
  ASSUME NEW p \in Readings, NEW q \in Readings, Begins(p, q)
  PROVE  p = SubSeq(q, 1, Len(p))
<1> DEFINE b == SubSeq(q, 1, Len(p))
<1>1. /\ b \in Readings /\ Len(b) = Len(p)
      /\ \A i \in 1..Len(p) : b[i] = q[i]
  BY DEF Begins, Readings
<1> HIDE DEF b
<1>2. p = b
  BY <1>1, SeqEqual DEF Begins, Readings
<1> QED BY <1>2 DEF b

LEMMA ConcatBegins ==
  ASSUME NEW a \in Readings, NEW b \in Readings
  PROVE  Begins(a, a \o b)
<1> DEFINE c == a \o b
<1>1. /\ Len(c) = Len(a) + Len(b)
      /\ \A i \in 1..(Len(a) + Len(b)) : c[i] = IF i <= Len(a) THEN a[i] ELSE b[i - Len(a)]
  BY ConcatFacts
<1>2. Len(a) \in Nat /\ Len(b) \in Nat
  BY IndexFacts
<1> HIDE DEF c
<1>3. Begins(a, c)
  BY <1>1, <1>2 DEF Begins
<1> QED BY <1>3 DEF c

LEMMA FlushAppends ==
  ASSUME TypeOK, NEW pending \in [Streams -> Readings], NEW bad, Flush(pending, bad)
  PROVE  \A s \in Streams : Begins(table[s], table'[s])
<1> SUFFICES ASSUME NEW s \in Streams PROVE Begins(table[s], table'[s])
  OBVIOUS
<1> DEFINE e == Stored(s, pending[s], bad)
<1>1. table[s] \in Readings /\ e \in Readings
  BY StoredFacts DEF TypeOK, Readings
<1>2. table'[s] = table[s] \o e
  BY DEF Flush
<1> HIDE DEF e
<1> QED BY <1>1, <1>2, ConcatBegins

(* What a step does to the tables.                                          *)
LEMMA TableSteps ==
  ASSUME StoreInv, [Next]_vars
  PROVE  \/ \A s \in Streams : Begins(table[s], table'[s])
         \/ \E age \in [Streams -> 0..MaxReadings] : Cleanup(age)
         \/ \E left \in onDisk : PowerLoss(left)
<1>t. TypeOK /\ table \in [Streams -> Readings] /\ buf \in [Streams -> Readings]
      /\ last \in [Streams -> Nat]
  BY DEF StoreInv, TypeOK, Readings
<1>k. UNCHANGED table => \A s \in Streams : Begins(table[s], table'[s])
  BY <1>t, BeginsIsReflexive
<1>1. ASSUME NEW s \in Streams, NEW due \in BOOLEAN, NEW bad \in Troubles, Update(s, due, bad)
      PROVE  \A t \in Streams : Begins(table[t], table'[t])
  <2> DEFINE pending == [buf EXCEPT ![s] = Append(@, last[s] + 1)]
  <2>1. last[s] + 1 \in Nat
    BY <1>t
  <2>2. Append(buf[s], last[s] + 1) \in Readings
    BY <1>t, <2>1, AppendFacts
  <2>3. pending \in [Streams -> Readings]
    BY <1>t, <2>2
  <2>4. UNCHANGED table \/ Flush(pending, bad)
    BY <1>1 DEF Update
  <2> HIDE DEF pending
  <2> QED BY <1>k, <1>t, <2>3, <2>4, FlushAppends
<1>2. CASE Checkpoint \/ CloseDb \/ Exit \/ \E opened \in BOOLEAN : Restart(opened)
  BY <1>2, <1>k DEF Checkpoint, CloseDb, Exit, Restart
<1>3. ASSUME NEW bad \in Troubles, ShutdownFlush(bad)
      PROVE  \A s \in Streams : Begins(table[s], table'[s])
  <2>1. UNCHANGED table \/ Flush(buf, bad)
    BY <1>3 DEF ShutdownFlush
  <2> QED BY <1>k, <1>t, <2>1, FlushAppends
<1>4. ASSUME NEW written \in {{}, {Battery}, Streams}, Crash(written), NEW s \in Streams
      PROVE  Begins(table[s], table'[s])
  <2>1. table'[s] = table[s] \o buf[s] \/ table'[s] = table[s]
    BY <1>4 DEF Crash
  <2> QED BY <1>t, <2>1, ConcatBegins, BeginsIsReflexive
<1>5. CASE UNCHANGED vars
  BY <1>5, <1>k DEF vars
<1> QED BY <1>1, <1>2, <1>3, <1>4, <1>5 DEF Next

(* No step takes a row out of the middle of a table: a table grows at its   *)
(* end, loses its oldest rows to cleanup() and its newest with the power.   *)
THEOREM AppendOrTrimHolds == Spec => AppendOrTrim
<1> DEFINE Good(s) ==
      \/ Len(table'[s]) >= Len(table[s]) /\ table[s] = SubSeq(table'[s], 1, Len(table[s]))
      \/ up' /\ table'[s] = Drop(table[s], Len(table[s]) - Len(table'[s]))
      \/ ~up' /\ table'[s] = SubSeq(table[s], 1, Len(table'[s]))
<1>1. ASSUME StoreInv, [Next]_vars, NEW s \in Streams PROVE Good(s)
  <2>t. StoreInv'
    BY <1>1, NextOrder
  <2>1. table[s] \in Readings /\ table'[s] \in Readings
        /\ Len(table[s]) \in Nat /\ Len(table'[s]) \in Nat
    BY <1>1, <2>t, IndexFacts DEF StoreInv, TypeOK, Readings
  <2>2. CASE Begins(table[s], table'[s])
    <3>1. table[s] = SubSeq(table'[s], 1, Len(table[s]))
      BY <2>1, <2>2, BeginsIsSubSeq
    <3>2. Len(table'[s]) >= Len(table[s])
      BY <2>1, <2>2 DEF Begins
    <3> QED BY <3>1, <3>2
  <2>3. CASE \E age \in [Streams -> 0..MaxReadings] : Cleanup(age)
    <3>1. PICK age \in [Streams -> 0..MaxReadings] : Cleanup(age)
      BY <2>3
    <3>2. age[s] \in 0..Len(table[s]) /\ table'[s] = Drop(table[s], age[s]) /\ up'
      BY <2>1, <3>1, StoreAssumption DEF Cleanup
    <3>3. Len(table'[s]) = Len(table[s]) - age[s]
      BY <2>1, <3>2, DropFacts
    <3>4. age[s] = Len(table[s]) - Len(table'[s])
      BY <2>1, <3>2, <3>3
    <3>5. table'[s] = Drop(table[s], Len(table[s]) - Len(table'[s]))
      BY <3>2, <3>4
    <3> QED BY <3>2, <3>5
  <2>4. CASE \E left \in onDisk : PowerLoss(left)
    <3>1. ~up' /\ Begins(table'[s], table[s])
      BY <1>1, <2>4 DEF PowerLoss, Gone, StoreInv
    <3>2. table'[s] = SubSeq(table[s], 1, Len(table'[s]))
      BY <2>1, <3>1, BeginsIsSubSeq
    <3> QED BY <3>1, <3>2
  <2> QED BY <1>1, <2>2, <2>3, <2>4, TableSteps
<1>2. StoreInv /\ [Next]_vars => [\A s \in Streams : Good(s)]_vars
  BY <1>1
<1> QED BY <1>2, StoreInvHolds, PTL DEF Spec, AppendOrTrim
-----------------------------------------------------------------------------
(* Where the readings are                                                   *)

(* NothingVanishes of the values q, r, w and l in one stream.               *)
Accounts(q, r, w, l, top) == Image(q) \cup Image(r) \cup w \cup l = 1..top

LEMMA ImageConcat ==
  ASSUME NEW a \in Readings, NEW b \in Readings
  PROVE  Image(a \o b) = Image(a) \cup Image(b)
<1> DEFINE c == a \o b
<1>1. /\ Len(c) = Len(a) + Len(b) /\ c \in Readings
      /\ \A i \in 1..(Len(a) + Len(b)) : c[i] = IF i <= Len(a) THEN a[i] ELSE b[i - Len(a)]
  BY ConcatFacts
<1> HIDE DEF c
<1>2. /\ Len(a) \in Nat /\ Len(b) \in Nat /\ Image(a) = {a[i] : i \in 1..Len(a)}
      /\ Image(b) = {b[i] : i \in 1..Len(b)} /\ Image(c) = {c[i] : i \in 1..Len(c)}
  BY <1>1, IndexFacts
<1>3. Image(c) \subseteq Image(a) \cup Image(b)
  <2> SUFFICES ASSUME NEW i \in 1..Len(c) PROVE c[i] \in Image(a) \cup Image(b)
    BY <1>2
  <2>1. CASE i <= Len(a)
    BY <1>1, <1>2, <2>1
  <2>2. CASE ~(i <= Len(a))
    <3>1. i - Len(a) \in 1..Len(b) /\ c[i] = b[i - Len(a)]
      BY <1>1, <1>2, <2>2
    <3> QED BY <1>2, <3>1
  <2> QED BY <2>1, <2>2
<1>4. Image(a) \subseteq Image(c)
  <2> SUFFICES ASSUME NEW i \in 1..Len(a) PROVE a[i] \in Image(c)
    BY <1>2
  <2>1. i \in 1..Len(c) /\ c[i] = a[i]
    BY <1>1, <1>2
  <2> QED BY <1>2, <2>1
<1>5. Image(b) \subseteq Image(c)
  <2> SUFFICES ASSUME NEW i \in 1..Len(b) PROVE b[i] \in Image(c)
    BY <1>2
  <2>1. Len(a) + i \in 1..Len(c) /\ ~(Len(a) + i <= Len(a)) /\ (Len(a) + i) - Len(a) = i
    BY <1>1, <1>2
  <2>2. c[Len(a) + i] = b[i]
    BY <1>1, <2>1
  <2> QED BY <1>2, <2>1, <2>2
<1>6. Image(c) = Image(a) \cup Image(b)
  BY <1>3, <1>4, <1>5
<1> QED BY <1>6 DEF c

LEMMA ImageAppend ==
  ASSUME NEW q \in Readings, NEW x \in Nat
  PROVE  Image(Append(q, x)) = Image(q) \cup {x}
<1> DEFINE a == Append(q, x)
<1>1. /\ a \in Readings /\ Len(a) = Len(q) + 1 /\ a[Len(q) + 1] = x
      /\ \A i \in 1..Len(q) : a[i] = q[i]
  BY AppendFacts
<1> HIDE DEF a
<1>2. /\ Len(q) \in Nat /\ Image(q) = {q[i] : i \in 1..Len(q)}
      /\ Image(a) = {a[i] : i \in 1..Len(a)}
  BY <1>1, IndexFacts
<1>3. 1..Len(a) = (1..Len(q)) \cup {Len(q) + 1}
  BY <1>1, <1>2
<1>4. Image(a) = Image(q) \cup {x}
  BY <1>1, <1>2, <1>3
<1> QED BY <1>4 DEF a

LEMMA ImageStored ==
  ASSUME NEW s, NEW batch \in Readings, NEW bad
  PROVE  Image(Stored(s, batch, bad)) \subseteq Image(batch)
<1> DEFINE e == Stored(s, batch, bad)
<1>1. PICK k \in 0..Len(batch) : /\ Len(e) = Len(batch) - k
                                 /\ \A i \in 1..(Len(batch) - k) : e[i] = batch[i + k]
  BY StoredFacts
<1>2. e \in Readings
  BY StoredFacts
<1> HIDE DEF e
<1>3. /\ Len(batch) \in Nat /\ Image(batch) = {batch[i] : i \in 1..Len(batch)}
      /\ Image(e) = {e[i] : i \in 1..Len(e)}
  BY <1>2, IndexFacts
<1>4. \A i \in 1..Len(e) : i + k \in 1..Len(batch) /\ e[i] = batch[i + k]
  BY <1>1, <1>3
<1>5. Image(e) \subseteq Image(batch)
  BY <1>3, <1>4
<1> QED BY <1>5 DEF e

LEMMA ImageDrop ==
  ASSUME NEW q \in Readings, NEW n \in 0..Len(q)
  PROVE  Image(Drop(q, n)) \subseteq Image(q)
<1> DEFINE d == Drop(q, n)
<1>1. /\ d \in Readings /\ Len(d) = Len(q) - n
      /\ \A i \in 1..(Len(q) - n) : d[i] = q[n + i]
  BY DropFacts
<1> HIDE DEF d
<1>2. /\ Len(q) \in Nat /\ Image(q) = {q[i] : i \in 1..Len(q)}
      /\ Image(d) = {d[i] : i \in 1..Len(d)}
  BY <1>1, IndexFacts
<1>3. \A i \in 1..Len(d) : n + i \in 1..Len(q) /\ d[i] = q[n + i]
  BY <1>1, <1>2
<1>4. Image(d) \subseteq Image(q)
  BY <1>2, <1>3
<1> QED BY <1>4 DEF d

LEMMA ImageNothing == Image(<<>>) = {} /\ \A s \in Streams : Image(Empty[s]) = {}
BY DEF Image, Empty

LEMMA BeginsImage ==
  ASSUME NEW p \in Readings, NEW q \in Readings, Begins(p, q)
  PROVE  Image(p) \subseteq Image(q)
<1>1. /\ Len(p) \in Nat /\ Len(q) \in Nat /\ Image(q) = {q[i] : i \in 1..Len(q)}
      /\ Image(p) = {p[i] : i \in 1..Len(p)}
  BY IndexFacts
<1> QED BY <1>1 DEF Begins

(* A flush moves the buffers' readings into the table or loses them.        *)
LEMMA FlushAccounts ==
  ASSUME TypeOK, NEW pending \in [Streams -> Readings], NEW bad, Flush(pending, bad),
         NEW s \in Streams, NEW w, NEW top, Accounts(table[s], pending[s], w, lost[s], top)
  PROVE  Accounts(table'[s], buf'[s], w, lost'[s], top)
<1> DEFINE e == Stored(s, pending[s], bad)
<1>1. table[s] \in Readings /\ e \in Readings /\ Image(e) \subseteq Image(pending[s])
  BY StoredFacts, ImageStored DEF TypeOK, Readings
<1>2. /\ table'[s] = table[s] \o e /\ buf'[s] = Empty[s]
      /\ lost'[s] = lost[s] \cup (Image(pending[s]) \ Image(e))
  BY DEF Flush
<1> HIDE DEF e
<1>3. Image(table'[s]) = Image(table[s]) \cup Image(e) /\ Image(buf'[s]) = {}
  BY <1>1, <1>2, ImageConcat, ImageNothing
<1> QED BY <1>1, <1>2, <1>3 DEF Accounts

LEMMA NextAccounts ==
  StoreInv /\ NothingVanishes /\ [Next]_vars => NothingVanishes'
<1> SUFFICES ASSUME StoreInv, NothingVanishes, [Next]_vars, NEW t \in Streams
             PROVE  Accounts(table'[t], buf'[t], wiped'[t], lost'[t], last'[t])
  BY DEF NothingVanishes, Accounts
<1>r. /\ TypeOK /\ buf \in [Streams -> Readings] /\ table \in [Streams -> Readings]
      /\ onDisk \subseteq [Streams -> Readings] /\ last \in [Streams -> Nat]
      /\ lost \in [Streams -> SUBSET Nat] /\ wiped \in [Streams -> SUBSET Nat]
  BY DEF StoreInv, TypeOK, Readings
<1>a. Accounts(table[t], buf[t], wiped[t], lost[t], last[t])
  BY DEF NothingVanishes, Accounts
<1>k. UNCHANGED <<table, buf, wiped, lost, last>> =>
        Accounts(table'[t], buf'[t], wiped'[t], lost'[t], last'[t])
  BY <1>a
<1>1. ASSUME NEW s \in Streams, NEW due \in BOOLEAN, NEW bad \in Troubles, Update(s, due, bad)
      PROVE  Accounts(table'[t], buf'[t], wiped'[t], lost'[t], last'[t])
  <2> DEFINE new == last[s] + 1
             pending == [buf EXCEPT ![s] = Append(@, new)]
  <2>1. last' = [last EXCEPT ![s] = new] /\ wiped' = wiped /\ new \in Nat
    BY <1>1, <1>r DEF Update
  <2>2. Append(buf[s], new) \in Readings /\ Image(Append(buf[s], new)) = Image(buf[s]) \cup {new}
    BY <1>r, <2>1, AppendFacts, ImageAppend
  <2>3. pending \in [Streams -> Readings]
    BY <1>r, <2>2
  <2>4. 1..new = (1..last[s]) \cup {new}
    BY <1>r
  <2>5. Image(pending[t]) = Image(buf[t]) \cup (IF t = s THEN {new} ELSE {})
    BY <1>r, <2>2
  <2>6. 1..last'[t] = (1..last[t]) \cup (IF t = s THEN {new} ELSE {})
    BY <1>r, <2>1, <2>4
  <2> HIDE DEF pending, new
  <2>7. Accounts(table[t], pending[t], wiped'[t], lost[t], last'[t])
    BY <1>a, <2>1, <2>5, <2>6 DEF Accounts
  <2>8. CASE Flush(pending, bad)
    BY <1>r, <2>3, <2>7, <2>8, FlushAccounts
  <2>9. CASE buf' = pending /\ UNCHANGED <<table, lost>>
    BY <2>7, <2>9
  <2>10. CASE lost' = [lost EXCEPT ![s] = @ \cup {new}] /\ UNCHANGED <<table, buf>>
    <3>1. lost'[t] = lost[t] \cup (IF t = s THEN {new} ELSE {})
      BY <1>r, <2>10
    <3> QED BY <1>a, <2>1, <2>6, <2>10, <3>1 DEF Accounts
  <2> QED BY <1>1, <2>8, <2>9, <2>10 DEF Update, pending, new
<1>2. ASSUME NEW age \in [Streams -> 0..MaxReadings], Cleanup(age)
      PROVE  Accounts(table'[t], buf'[t], wiped'[t], lost'[t], last'[t])
  <2>1. age[t] \in 0..Len(table[t]) /\ table'[t] = Drop(table[t], age[t])
    BY <1>2, <1>r, StoreAssumption, IndexFacts DEF Cleanup
  <2>2. Image(table'[t]) \subseteq Image(table[t])
    BY <1>r, <2>1, ImageDrop
  <2>3. wiped'[t] = wiped[t] \cup (Image(table[t]) \ Image(table'[t]))
        /\ UNCHANGED <<buf, lost, last>>
    BY <1>2 DEF Cleanup, world
  <2> QED BY <1>a, <2>2, <2>3 DEF Accounts
<1>3. CASE Checkpoint \/ CloseDb \/ \E opened \in BOOLEAN : Restart(opened)
  BY <1>3, <1>k DEF Checkpoint, CloseDb, Restart, world
<1>4. CASE Exit
  <2>1. /\ lost'[t] = lost[t] \cup Image(buf[t]) /\ UNCHANGED <<table, wiped, last>>
        /\ buf'[t] = Empty[t]
    BY <1>4 DEF Exit, Gone, world
  <2> QED BY <1>a, <2>1, ImageNothing DEF Accounts
<1>5. ASSUME NEW bad \in Troubles, ShutdownFlush(bad)
      PROVE  Accounts(table'[t], buf'[t], wiped'[t], lost'[t], last'[t])
  <2>1. UNCHANGED <<wiped, last>> /\ (UNCHANGED <<buf, table, lost>> \/ Flush(buf, bad))
    BY <1>5 DEF ShutdownFlush
  <2>2. CASE Flush(buf, bad)
    <3>1. Accounts(table'[t], buf'[t], wiped[t], lost'[t], last[t])
      BY <1>a, <1>r, <2>2, FlushAccounts
    <3> QED BY <2>1, <3>1
  <2> QED BY <1>k, <2>1, <2>2
<1>6. ASSUME NEW written \in {{}, {Battery}, Streams}, Crash(written)
      PROVE  Accounts(table'[t], buf'[t], wiped'[t], lost'[t], last'[t])
  <2>1. /\ table'[t] = table[t] \o buf[t] \/ table'[t] = table[t]
        /\ lost'[t] = lost[t] \cup (Image(buf[t]) \ Image(table'[t]))
        /\ UNCHANGED <<wiped, last>> /\ buf'[t] = Empty[t]
    BY <1>6 DEF Crash, Gone
  <2>2. \/ Image(table'[t]) = Image(table[t]) \cup Image(buf[t])
        \/ Image(table'[t]) = Image(table[t])
    BY <1>r, <2>1, ImageConcat
  <2> QED BY <1>a, <2>1, <2>2, ImageNothing DEF Accounts
<1>7. ASSUME NEW left \in onDisk, PowerLoss(left)
      PROVE  Accounts(table'[t], buf'[t], wiped'[t], lost'[t], last'[t])
  <2>1. Image(left[t]) \subseteq Image(table[t])
    BY <1>r, BeginsImage DEF StoreInv
  <2>2. /\ table'[t] = left[t] /\ buf'[t] = Empty[t] /\ UNCHANGED <<wiped, last>>
        /\ lost'[t] = lost[t] \cup (Image(buf[t]) \cup (Image(table[t]) \ Image(left[t])))
    BY <1>7 DEF PowerLoss, Gone
  <2> QED BY <1>a, <2>1, <2>2, ImageNothing DEF Accounts
<1>8. CASE UNCHANGED vars
  BY <1>8, <1>k DEF vars
<1> QED BY <1>1, <1>2, <1>3, <1>4, <1>5, <1>6, <1>7, <1>8 DEF Next

(* Every reading that ever arrived is in the table or in the buffer, was    *)
(* deleted by age, or was lost where the model says so: nothing else in the *)
(* code forgets one.                                                        *)
THEOREM NothingVanishesHolds == Spec => []NothingVanishes
<1>1. Init => NothingVanishes
  <2> SUFFICES ASSUME Init PROVE NothingVanishes
    OBVIOUS
  <2> SUFFICES ASSUME NEW s \in Streams
               PROVE  Image(table[s]) \cup Image(buf[s]) \cup wiped[s] \cup lost[s] = 1..last[s]
    BY DEF NothingVanishes
  <2>1. Image(table[s]) = {} /\ Image(buf[s]) = {}
    BY ImageNothing DEF Init
  <2>2. wiped[s] = {} /\ lost[s] = {} /\ last[s] = 0
    BY DEF Init
  <2>3. 1..0 = {}
    OBVIOUS
  <2> QED BY <2>1, <2>2, <2>3
<1> QED BY <1>1, NextAccounts, StoreInvHolds, PTL DEF Spec
-----------------------------------------------------------------------------
(* What an orderly stop loses                                               *)

(* From the last flush on, and without a database, the buffers hold nothing *)
(* but late readings; a process that is gone holds nothing.                 *)
LateInv ==
  /\ db = "closed" => stage = "closed"
  /\ ~up => stage = "serving" /\ db = "none" /\ buf = Empty
  /\ stage # "serving" \/ db = "none" => \A s \in Streams : Image(buf[s]) \subseteq late[s]
  /\ OnlyLateReadingsLost

(* Without a fault a flush into an open database loses nothing.             *)
LEMMA FlushLoses ==
  ASSUME TypeOK, NEW pending \in [Streams -> Readings], NEW bad \in Troubles,
         Fault(bad), Flush(pending, bad), faults' = 0
  PROVE  /\ db = "open" => lost' = lost
         /\ \A s \in Streams : lost'[s] \subseteq lost[s] \cup Image(pending[s])
<1>1. bad[1] = "none"
  BY DEF Fault, TypeOK
<1>2. ASSUME db = "open", NEW s \in Streams PROVE Stored(s, pending[s], bad) = pending[s]
  BY <1>1, <1>2 DEF Stored
<1>3. lost' = [s \in Streams |-> lost[s] \cup
                 (Image(pending[s]) \ Image(Stored(s, pending[s], bad)))]
  BY DEF Flush
<1>4. lost \in [Streams -> SUBSET Nat]
  BY DEF TypeOK
<1>5. ASSUME db = "open" PROVE lost' = lost
  <2>1. \A s \in Streams : lost[s] = lost[s] \cup
            (Image(pending[s]) \ Image(Stored(s, pending[s], bad)))
    BY <1>2, <1>5
  <2> QED BY <1>3, <1>4, <2>1
<1> QED BY <1>3, <1>5

LEMMA NextLate == TypeOK /\ LateInv /\ [Next]_vars => LateInv'
<1> SUFFICES ASSUME TypeOK, LateInv, [Next]_vars PROVE LateInv'
  OBVIOUS
<1>r. /\ buf \in [Streams -> Readings] /\ last \in [Streams -> Nat]
      /\ lost \in [Streams -> SUBSET Nat] /\ late \in [Streams -> SUBSET Nat]
      /\ crashes \in Nat /\ faults \in Nat
  BY DEF TypeOK, Readings
<1>m. \A s \in Streams : Image(Empty[s]) = {}
  BY ImageNothing
<1>1. ASSUME NEW s \in Streams, NEW due \in BOOLEAN, NEW bad \in Troubles, Update(s, due, bad)
      PROVE  LateInv'
  <2> DEFINE new == last[s] + 1
             pending == [buf EXCEPT ![s] = Append(@, new)]
             Late == db = "none" \/ stage # "serving"
  <2>1. /\ late' = IF Late THEN [late EXCEPT ![s] = @ \cup {new}] ELSE late
        /\ up /\ up' /\ UNCHANGED <<stage, db, crashes>> /\ new \in Nat
    BY <1>1, <1>r DEF Update
  <2>2. Append(buf[s], new) \in Readings /\ Image(Append(buf[s], new)) = Image(buf[s]) \cup {new}
    BY <1>r, <2>1, AppendFacts, ImageAppend
  <2>3. pending \in [Streams -> Readings]
    BY <1>r, <2>2
  <2>4. \A t \in Streams : late[t] \subseteq late'[t]
    BY <1>r, <2>1
  <2>5. ASSUME Late, NEW t \in Streams PROVE Image(pending[t]) \subseteq late'[t]
    <3>1. Image(buf[t]) \subseteq late[t]
      BY <2>5 DEF LateInv
    <3>2. late'[t] = late[t] \cup (IF t = s THEN {new} ELSE {})
      BY <1>r, <2>1, <2>5
    <3>3. Image(pending[t]) = Image(buf[t]) \cup (IF t = s THEN {new} ELSE {})
      BY <1>r, <2>2
    <3> QED BY <3>1, <3>2, <3>3
  <2>6. faults' = 0 => faults = 0
    BY <1>1, <1>r DEF Update, Fault
  <2>7. CASE db # "none" /\ Fault(bad) /\ Flush(pending, bad)
    <3>1. \A t \in Streams : Image(buf'[t]) = {}
      BY <1>m, <2>7 DEF Flush
    <3>2. ASSUME crashes' = 0, faults' = 0, NEW t \in Streams PROVE lost'[t] \subseteq late'[t]
      <4>1. lost[t] \subseteq late[t]
        BY <2>1, <2>6, <3>2 DEF LateInv, OnlyLateReadingsLost
      <4> HIDE DEF pending
      <4>2. CASE db = "open"
        BY <2>3, <2>4, <2>7, <3>2, <4>1, <4>2, FlushLoses
      <4>3. CASE db = "closed"
        <5>1. Image(pending[t]) \subseteq late'[t]
          BY <2>5, <4>3 DEF LateInv
        <5>2. lost'[t] \subseteq lost[t] \cup Image(pending[t])
          BY <2>3, <2>7, <3>2, FlushLoses
        <5> QED BY <2>4, <4>1, <5>1, <5>2
      <4> QED BY <2>7, <4>2, <4>3 DEF TypeOK
    <3> QED BY <2>1, <3>1, <3>2 DEF LateInv, OnlyLateReadingsLost
  <2>8. CASE buf' = pending /\ UNCHANGED <<table, onDisk, lost, faults>>
    <3>1. OnlyLateReadingsLost'
      BY <2>1, <2>4, <2>8 DEF LateInv, OnlyLateReadingsLost
    <3> QED BY <2>1, <2>5, <2>8, <3>1 DEF LateInv
  <2>9. CASE /\ db = "none" /\ lost' = [lost EXCEPT ![s] = @ \cup {new}]
             /\ UNCHANGED <<table, onDisk, buf, faults>>
    <3>1. ASSUME crashes = 0, faults = 0, NEW t \in Streams PROVE lost'[t] \subseteq late'[t]
      <4>1. lost[t] \subseteq late[t]
        BY <3>1 DEF LateInv, OnlyLateReadingsLost
      <4>2. late' = [late EXCEPT ![s] = @ \cup {new}]
        BY <2>1, <2>9
      <4> QED BY <1>r, <2>9, <4>1, <4>2
    <3>2. \A t \in Streams : Image(buf'[t]) \subseteq late'[t]
      BY <2>4, <2>9 DEF LateInv
    <3> QED BY <2>1, <2>9, <3>1, <3>2 DEF LateInv, OnlyLateReadingsLost
  <2> QED BY <1>1, <2>7, <2>8, <2>9 DEF Update
<1>2. CASE Checkpoint \/ \E age \in [Streams -> 0..MaxReadings] : Cleanup(age)
  BY <1>2 DEF Checkpoint, Cleanup, LateInv, OnlyLateReadingsLost, world
<1>3. CASE CloseDb
  BY <1>3 DEF CloseDb, LateInv, OnlyLateReadingsLost, world, TypeOK
<1>4. CASE Exit
  <2>1. /\ lost' = [s \in Streams |-> lost[s] \cup Image(buf[s])] /\ buf' = Empty
        /\ ~up' /\ stage' = "serving" /\ db' = "none" /\ UNCHANGED world /\ stage = "closed"
    BY <1>4 DEF Exit, Gone
  <2>2. \A s \in Streams : Image(buf[s]) \subseteq late[s]
    BY <2>1 DEF LateInv
  <2>3. OnlyLateReadingsLost'
    BY <2>1, <2>2 DEF LateInv, OnlyLateReadingsLost, world
  <2> QED BY <1>m, <2>1, <2>3 DEF LateInv
<1>5. ASSUME NEW bad \in Troubles, ShutdownFlush(bad) PROVE LateInv'
  <2>1. /\ up /\ up' /\ stage = "serving" /\ stage' = "sealed" /\ db # "closed"
        /\ UNCHANGED <<db, late, crashes>>
    BY <1>5 DEF ShutdownFlush, LateInv
  <2>2. CASE db = "none" /\ UNCHANGED <<buf, lost, faults>>
    BY <2>1, <2>2 DEF LateInv, OnlyLateReadingsLost
  <2>3. CASE db # "none" /\ Fault(bad) /\ Flush(buf, bad)
    <3>1. \A s \in Streams : Image(buf'[s]) = {}
      BY <1>m, <2>3 DEF Flush
    <3>2. ASSUME crashes' = 0, faults' = 0 PROVE lost' = lost /\ faults = 0
      <4>1. faults = 0
        BY <1>r, <2>3, <3>2 DEF Fault
      <4>2. db = "open"
        BY <2>1, <2>3 DEF TypeOK
      <4> QED BY <1>r, <2>3, <3>2, <4>1, <4>2, FlushLoses
    <3>3. OnlyLateReadingsLost'
      BY <2>1, <3>2 DEF LateInv, OnlyLateReadingsLost
    <3> QED BY <2>1, <3>1, <3>3 DEF LateInv
  <2> QED BY <1>5, <2>2, <2>3 DEF ShutdownFlush
<1>6. ASSUME NEW written, Crash(written) PROVE LateInv'
  <2>1. crashes' # 0 /\ ~up' /\ stage' = "serving" /\ db' = "none" /\ buf' = Empty
    BY <1>6, <1>r DEF Crash, Gone
  <2> QED BY <1>m, <2>1 DEF LateInv, OnlyLateReadingsLost
<1>7. ASSUME NEW left \in onDisk, PowerLoss(left) PROVE LateInv'
  <2>1. crashes' # 0 /\ ~up' /\ stage' = "serving" /\ db' = "none" /\ buf' = Empty
    BY <1>7, <1>r DEF PowerLoss, Gone
  <2> QED BY <1>m, <2>1 DEF LateInv, OnlyLateReadingsLost
<1>8. ASSUME NEW opened \in BOOLEAN, Restart(opened) PROVE LateInv'
  <2>1. /\ up' /\ ~up /\ buf = Empty /\ UNCHANGED <<stage, buf, late, lost, crashes, faults>>
        /\ db' = "open" \/ db' = db
    BY <1>8 DEF Restart, LateInv, world
  <2> QED BY <1>m, <2>1 DEF LateInv, OnlyLateReadingsLost
<1>9. CASE UNCHANGED vars
  BY <1>9 DEF vars, LateInv, OnlyLateReadingsLost
<1> QED BY <1>1, <1>2, <1>3, <1>4, <1>5, <1>6, <1>7, <1>8, <1>9 DEF Next

LEMMA LateInvHolds == Spec => []LateInv
<1>1. Init => LateInv
  BY ImageNothing DEF Init, LateInv, OnlyLateReadingsLost
<1> QED BY <1>1, NextLate, StoreTypes, PTL DEF Spec

(* Of a process that starts with its database and is stopped in order only  *)
(* the readings after the flush at the end of main() are lost.              *)
THEOREM OnlyLateReadingsLostHolds == Spec => []OnlyLateReadingsLost
<1>1. LateInv => OnlyLateReadingsLost
  BY DEF LateInv
<1> QED BY <1>1, LateInvHolds, PTL
-----------------------------------------------------------------------------
(* What the dashboard shows                                                 *)

(* The ring q against the readings ids that are stored or wait for it.      *)
Shows(q, ids, top) ==
  /\ Increasing(q) /\ \A id \in Image(q) : id <= top
  /\ \A id \in ids \ Image(q) : Len(q) = MaxHistory /\ \A later \in Image(q) : id < later

(* HistoryComplete counts the rows; the rows that still wait in the buffers *)
(* must be in the ring as well, or the next flush would break it.           *)
HistoryInv ==
  up /\ db = "open" =>
    \A s \in Streams : Shows(ring[s], Image(table[s]) \cup Image(buf[s]), last[s])

LEMMA ShowsFewer ==
  ASSUME NEW q, NEW ids, NEW fewer \in SUBSET ids, NEW top, Shows(q, ids, top)
  PROVE  Shows(q, fewer, top)
BY DEF Shows

(* Increasing in terms of indices.                                          *)
LEMMA IncreasingIndexed ==
  ASSUME NEW q \in Readings
  PROVE  Increasing(q) <=> \A i, j \in 1..Len(q) : i < j => q[i] < q[j]
<1>1. DOMAIN q = 1..Len(q)
  BY IndexFacts
<1> QED BY <1>1, Zenon DEF Increasing

(* A new reading pushes the oldest out of a full ring, and only that one.   *)
LEMMA ShowsNext ==
  ASSUME NEW q \in Readings, Len(q) <= MaxHistory, NEW top \in Nat, NEW ids \in SUBSET Nat,
         Shows(q, ids, top)
  PROVE  Shows(Newest(Append(q, top + 1)), ids \cup {top + 1}, top + 1)
<1> DEFINE new == top + 1
           a == Append(q, new)
           d == Newest(a)
<1>1. /\ new \in Nat /\ a \in Readings /\ Len(a) = Len(q) + 1 /\ a[Len(q) + 1] = new
      /\ \A i \in 1..Len(q) : a[i] = q[i]
  BY AppendFacts
<1>2. Image(a) = Image(q) \cup {new}
  BY <1>1, ImageAppend
<1>3. /\ Len(q) \in Nat /\ Image(q) = {q[i] : i \in 1..Len(q)}
      /\ Image(q) \subseteq Nat /\ \A i \in 1..Len(q) : q[i] \in Nat
  BY IndexFacts
<1>4. \A i, j \in 1..Len(q) : i < j => q[i] < q[j]
  BY IncreasingIndexed DEF Shows
<1>5. ASSUME NEW i \in 1..Len(q) PROVE q[i] < new
  <2>1. q[i] \in Image(q) /\ q[i] \in Nat
    BY <1>3
  <2>2. q[i] <= top
    BY <2>1 DEF Shows
  <2> QED BY <2>1, <2>2
<1>6. \A i, j \in 1..Len(a) : i < j => a[i] < a[j]
  <2> SUFFICES ASSUME NEW i \in 1..Len(a), NEW j \in 1..Len(a), i < j PROVE a[i] < a[j]
    OBVIOUS
  <2> HIDE DEF a, new
  <2>1. i \in 1..Len(q) /\ (j \in 1..Len(q) \/ j = Len(q) + 1)
    BY <1>1, <1>3
  <2> QED BY <1>1, <1>4, <1>5, <2>1
<1>7. CASE Len(q) < MaxHistory
  <2>1. d = a
    BY <1>1, <1>3, <1>7, StoreAssumption DEF Newest
  <2>2. ids \subseteq Image(q)
    BY <1>3, <1>7, StoreAssumption DEF Shows
  <2> HIDE DEF a, d
  <2>3. Increasing(a)
    BY <1>1, <1>6, IncreasingIndexed
  <2>4. \A id \in Image(a) : id <= new
    <3> HIDE DEF new
    <3> QED BY <1>1, <1>2, <1>3, <1>5
  <2>5. (ids \cup {new}) \ Image(a) = {}
    BY <1>2, <2>2
  <2> HIDE DEF new
  <2>6. Shows(a, ids \cup {new}, new)
    BY <2>3, <2>4, <2>5 DEF Shows
  <2> QED BY <2>1, <2>6 DEF a, d, new
<1>8. CASE Len(q) = MaxHistory
  <2>1. d = Drop(a, 1) /\ 1 \in 0..Len(a)
    <3> HIDE DEF a
    <3>1. Len(a) > MaxHistory /\ Len(a) - MaxHistory = 1
      BY <1>1, <1>3, <1>8, StoreAssumption
    <3> QED BY <1>1, <1>3, <3>1 DEF Newest
  <2> HIDE DEF a, d
  <2>2. d \in Readings /\ Len(d) = Len(q) /\ \A i \in 1..Len(q) : d[i] = a[i + 1]
    <3>1. /\ d \in Readings /\ Len(d) = Len(a) - 1
          /\ \A i \in 1..(Len(a) - 1) : d[i] = a[1 + i]
      BY <1>1, <2>1, DropFacts
    <3>2. Len(a) - 1 = Len(q)
      BY <1>1, <1>3
    <3> QED BY <3>1, <3>2
  <2>3. Image(d) = {d[i] : i \in 1..Len(q)}
    BY <2>2, IndexFacts
  <2>4. \A i \in 1..Len(q) : i + 1 \in 1..Len(a) /\ d[i] = a[i + 1]
    BY <1>1, <1>3, <2>2
  <2>5. Increasing(d)
    <3>1. ASSUME NEW i \in 1..Len(q), NEW j \in 1..Len(q), i < j PROVE d[i] < d[j]
      <4>1. i + 1 < j + 1
        BY <1>3, <3>1
      <4> QED BY <1>6, <2>4, <4>1
    <3> QED BY <2>2, <3>1, IncreasingIndexed
  <2>6. Image(d) \subseteq Image(a)
    BY <2>3, <2>4, <1>1, IndexFacts
  <2>7. \A id \in Image(d) : id <= new
    <3> HIDE DEF new
    <3> QED BY <1>1, <1>2, <1>3, <1>5, <2>6
  <2>8. new \in Image(d)
    <3>1. Len(q) \in 1..Len(q) /\ d[Len(q)] = new
      BY <1>1, <1>3, <1>8, <2>2, StoreAssumption
    <3> QED BY <2>3, <3>1
  <2>9. ASSUME NEW i \in 1..Len(q) PROVE q[i] \in Image(d) \/ i = 1
    <3>1. CASE i > 1
      <4>1. i - 1 \in 1..Len(q) /\ (i - 1) + 1 = i
        BY <1>3, <3>1
      <4>2. d[i - 1] = q[i]
        BY <1>1, <2>2, <4>1
      <4> QED BY <2>3, <4>1, <4>2
    <3> QED BY <1>3, <3>1
  <2>10. ASSUME NEW id \in (ids \cup {new}) \ Image(d), NEW later \in Image(d)
         PROVE  id < later
    <3>0. 1 \in 1..Len(q) /\ id \in ids /\ id \in Nat
      BY <1>3, <1>8, <2>8, StoreAssumption
    <3>1. PICK i \in 1..Len(q) : later = a[i + 1]
      BY <2>3, <2>4
    <3>2. a[1] < later
      <4>1. 1 \in 1..Len(a) /\ i + 1 \in 1..Len(a) /\ 1 < i + 1
        BY <1>1, <1>3, <2>4, <3>0
      <4> QED BY <1>6, <3>1, <4>1
    <3>3. id = q[1] \/ \A x \in Image(q) : id < x
      <4>1. CASE id \in Image(q)
        BY <1>3, <2>9, <4>1
      <4>2. CASE id \notin Image(q)
        BY <3>0, <4>2 DEF Shows
      <4> QED BY <4>1, <4>2
    <3>4. a[1] = q[1] /\ q[1] \in Image(q) /\ q[1] \in Nat
      BY <1>1, <1>3, <3>0
    <3>5. later \in Nat
      BY <2>2, IndexFacts
    <3> QED BY <3>0, <3>2, <3>3, <3>4, <3>5
  <2> HIDE DEF new
  <2>11. Len(d) = MaxHistory
    BY <1>8, <2>2
  <2>12. Shows(d, ids \cup {new}, new)
    BY <2>5, <2>7, <2>10, <2>11 DEF Shows
  <2> QED BY <2>12 DEF a, d, new
<1> QED BY <1>3, <1>7, <1>8, StoreAssumption

(* What a new process loads.                                                *)
LEMMA ShowsLoaded ==
  ASSUME NEW q \in Readings, NEW top, Ordered(q, <<>>, top)
  PROVE  Shows(Newest(q), Image(q), top)
<1>1. /\ Len(q) \in Nat /\ Image(q) = {q[i] : i \in 1..Len(q)}
      /\ \A i \in 1..Len(q) : q[i] \in Nat
  BY IndexFacts
<1>2. (\A i, j \in 1..Len(q) : i < j => q[i] < q[j]) /\ \A id \in Image(q) : id <= top
  BY IncreasingIndexed DEF Ordered
<1>3. CASE ~(Len(q) > MaxHistory)
  <2>1. Newest(q) = q
    BY <1>3 DEF Newest
  <2> QED BY <2>1 DEF Ordered, Shows
<1>4. CASE Len(q) > MaxHistory
  <2> DEFINE n == Len(q) - MaxHistory
             d == Drop(q, n)
  <2>1. n \in 0..Len(q) /\ Newest(q) = d /\ Len(q) - n = MaxHistory
    BY <1>1, <1>4, StoreAssumption DEF Newest
  <2> HIDE DEF n
  <2>2. d \in Readings /\ Len(d) = MaxHistory /\ \A i \in 1..MaxHistory : d[i] = q[n + i]
    BY <2>1, DropFacts
  <2> HIDE DEF d
  <2>3. Image(d) = {d[i] : i \in 1..MaxHistory}
    BY <2>2, IndexFacts
  <2>4. \A i \in 1..MaxHistory : n + i \in 1..Len(q)
    BY <1>1, <2>1, StoreAssumption
  <2>5. Increasing(d)
    <3>1. ASSUME NEW i \in 1..MaxHistory, NEW j \in 1..MaxHistory, i < j PROVE d[i] < d[j]
      <4>1. n + i < n + j
        BY <2>1, <3>1, <1>1, StoreAssumption
      <4> QED BY <1>2, <2>2, <2>4, <4>1
    <3> QED BY <2>2, <3>1, IncreasingIndexed
  <2>6. Image(d) \subseteq Image(q)
    BY <1>1, <2>2, <2>3, <2>4
  <2>7. ASSUME NEW id \in Image(q) \ Image(d), NEW later \in Image(d) PROVE id < later
    <3>1. PICK j \in 1..MaxHistory : later = q[n + j]
      BY <2>2, <2>3
    <3>2. PICK i \in 1..Len(q) : id = q[i]
      BY <1>1
    <3>3. i <= n
      <4>1. CASE i > n
        <5>1. i - n \in 1..MaxHistory /\ n + (i - n) = i
          BY <1>1, <2>1, <4>1, StoreAssumption
        <5>2. d[i - n] = q[i]
          BY <2>2, <5>1
        <5> QED BY <2>3, <2>7, <3>2, <5>1, <5>2
      <4> QED BY <1>1, <2>1, <4>1
    <3>4. i < n + j /\ n + j \in 1..Len(q)
      BY <1>1, <2>1, <2>4, <3>1, <3>3, StoreAssumption
    <3> QED BY <1>2, <3>1, <3>2, <3>4
  <2> QED BY <1>2, <2>1, <2>2, <2>5, <2>6, <2>7 DEF Shows
<1> QED BY <1>3, <1>4

(* A flush stores no reading that did not wait for it.                      *)
LEMMA FlushStores ==
  ASSUME TypeOK, NEW pending \in [Streams -> Readings], NEW bad, Flush(pending, bad),
         NEW s \in Streams
  PROVE  Image(table'[s]) \cup Image(buf'[s]) \subseteq Image(table[s]) \cup Image(pending[s])
<1> DEFINE e == Stored(s, pending[s], bad)
<1>1. table[s] \in Readings /\ e \in Readings /\ Image(e) \subseteq Image(pending[s])
  BY StoredFacts, ImageStored DEF TypeOK, Readings
<1>2. table'[s] = table[s] \o e /\ buf'[s] = Empty[s]
  BY DEF Flush
<1> HIDE DEF e
<1>3. Image(table'[s]) = Image(table[s]) \cup Image(e) /\ Image(buf'[s]) = {}
  BY <1>1, <1>2, ImageConcat, ImageNothing
<1> QED BY <1>1, <1>3

LEMMA NextHistory ==
  StoreInv /\ LateInv /\ HistoryInv /\ [Next]_vars => HistoryInv'
<1> SUFFICES ASSUME StoreInv, LateInv, HistoryInv, [Next]_vars, up', db' = "open",
                    NEW t \in Streams
             PROVE  Shows(ring'[t], Image(table'[t]) \cup Image(buf'[t]), last'[t])
  BY DEF HistoryInv
<1> DEFINE Goal == Shows(ring'[t], Image(table'[t]) \cup Image(buf'[t]), last'[t])
<1>r. /\ TypeOK /\ ring \in [Streams -> Readings] /\ buf \in [Streams -> Readings]
      /\ table \in [Streams -> Readings] /\ last \in [Streams -> Nat]
      /\ Len(ring[t]) <= MaxHistory
  BY DEF StoreInv, TypeOK, Readings
<1>i. Image(table[t]) \subseteq Nat /\ Image(buf[t]) \subseteq Nat
  BY <1>r, IndexFacts
<1>f. ASSUME up, db = "open", UNCHANGED <<ring, last>>,
             Image(table'[t]) \cup Image(buf'[t]) \subseteq Image(table[t]) \cup Image(buf[t])
      PROVE  Goal
  <2>1. Shows(ring[t], Image(table[t]) \cup Image(buf[t]), last[t])
    BY <1>f DEF HistoryInv
  <2> QED BY <1>f, <2>1, ShowsFewer
<1>1. ASSUME NEW s \in Streams, NEW due \in BOOLEAN, NEW bad \in Troubles, Update(s, due, bad)
      PROVE  Goal
  <2> DEFINE new == last[s] + 1
             pending == [buf EXCEPT ![s] = Append(@, new)]
  <2>1. /\ up /\ db = "open" /\ last' = [last EXCEPT ![s] = new] /\ new \in Nat
        /\ ring' = [ring EXCEPT ![s] = Newest(Append(@, new))]
    BY <1>1, <1>r DEF Update
  <2>2. Append(buf[s], new) \in Readings /\ Image(Append(buf[s], new)) = Image(buf[s]) \cup {new}
    BY <1>r, <2>1, AppendFacts, ImageAppend
  <2>3. pending \in [Streams -> Readings]
    BY <1>r, <2>2
  <2>4. Image(pending[t]) = Image(buf[t]) \cup (IF t = s THEN {new} ELSE {})
    BY <1>r, <2>2
  <2>5. Shows(ring[t], Image(table[t]) \cup Image(buf[t]), last[t])
    BY <2>1 DEF HistoryInv
  <2>6. Shows(ring'[t], Image(table[t]) \cup Image(pending[t]), last'[t])
    <3>1. CASE t # s
      <4>1. ring'[t] = ring[t] /\ last'[t] = last[t] /\ Image(pending[t]) = Image(buf[t])
        BY <1>r, <2>1, <2>4, <3>1
      <4> QED BY <2>5, <4>1
    <3>2. CASE t = s
      <4> DEFINE ids == Image(table[t]) \cup Image(buf[t])
      <4>1. /\ ring'[t] = Newest(Append(ring[t], last[t] + 1)) /\ last'[t] = last[t] + 1
            /\ Image(table[t]) \cup Image(pending[t]) = ids \cup {last[t] + 1}
        BY <1>r, <2>1, <2>4, <3>2
      <4>2. ids \in SUBSET Nat
        BY <1>i
      <4> HIDE DEF ids, pending
      <4>3. ring[t] \in Readings /\ last[t] \in Nat /\ Shows(ring[t], ids, last[t])
        BY <1>r, <2>5 DEF ids
      <4>4. Shows(Newest(Append(ring[t], last[t] + 1)), ids \cup {last[t] + 1}, last[t] + 1)
        BY <1>r, <4>2, <4>3, ShowsNext
      <4> QED BY <4>1, <4>4
    <3> QED BY <3>1, <3>2
  <2> HIDE DEF pending
  <2>7. CASE Flush(pending, bad)
    <3>1. Image(table'[t]) \cup Image(buf'[t]) \subseteq Image(table[t]) \cup Image(pending[t])
      BY <1>r, <2>3, <2>7, FlushStores
    <3> QED BY <2>6, <3>1, ShowsFewer
  <2>8. CASE buf' = pending /\ UNCHANGED table
    BY <2>6, <2>8
  <2> QED BY <1>1, <2>1, <2>7, <2>8 DEF Update, pending
<1>2. ASSUME NEW age \in [Streams -> 0..MaxReadings], Cleanup(age) PROVE Goal
  <2>1. age[t] \in 0..Len(table[t]) /\ table'[t] = Drop(table[t], age[t])
    BY <1>2, <1>r, StoreAssumption, IndexFacts DEF Cleanup
  <2>2. Image(table'[t]) \subseteq Image(table[t])
    BY <1>r, <2>1, ImageDrop
  <2> QED BY <1>2, <1>f, <2>2 DEF Cleanup, world
<1>3. CASE Checkpoint
  BY <1>3, <1>f DEF Checkpoint, world
<1>4. CASE CloseDb
  BY <1>4 DEF CloseDb
<1>5. ASSUME NEW bad \in Troubles, ShutdownFlush(bad) PROVE Goal
  <2>1. up /\ db = "open" /\ UNCHANGED <<ring, last>>
    BY <1>5 DEF ShutdownFlush
  <2>2. CASE Flush(buf, bad)
    <3>1. Image(table'[t]) \cup Image(buf'[t]) \subseteq Image(table[t]) \cup Image(buf[t])
      BY <1>r, <2>2, FlushStores
    <3> QED BY <1>f, <2>1, <3>1
  <2>3. CASE UNCHANGED <<buf, table>>
    BY <1>f, <2>1, <2>3
  <2> QED BY <1>5, <2>2, <2>3 DEF ShutdownFlush
<1>6. ASSUME NEW opened \in BOOLEAN, Restart(opened) PROVE Goal
  <2>1. ~up /\ buf = Empty /\ db = "none" /\ UNCHANGED <<buf, table, last>>
    BY <1>6 DEF Restart, LateInv, world
  <2>2. ring'[t] = Newest(table[t])
    BY <1>6, <2>1 DEF Restart
  <2>3. Ordered(table[t], <<>>, last[t])
    <3>1. Ordered(table[t], buf[t], last[t]) /\ buf[t] = <<>>
      BY <2>1, OrderOf DEF StoreInv, Empty
    <3> QED BY <3>1
  <2>4. Shows(Newest(table[t]), Image(table[t]), last[t])
    BY <1>r, <2>3, ShowsLoaded
  <2>5. Image(buf'[t]) = {}
    BY <2>1, ImageNothing
  <2> QED BY <2>1, <2>2, <2>4, <2>5
<1>7. CASE \/ Exit \/ \E written \in {{}, {Battery}, Streams} : Crash(written)
           \/ \E left \in onDisk : PowerLoss(left)
  BY <1>7 DEF Exit, Crash, PowerLoss, Gone
<1>8. CASE UNCHANGED vars
  BY <1>8, <1>f DEF vars
<1> QED BY <1>1, <1>2, <1>3, <1>4, <1>5, <1>6, <1>7, <1>8 DEF Next

(* While a process runs with its database open, what the dashboard's ring   *)
(* holds is the end of what is stored: push and trim in update() and        *)
(* update_pwrgate(), the rows main() loads at its start, and what cleanup() *)
(* deletes keep it without a hole.                                          *)
THEOREM HistoryCompleteHolds == Spec => []HistoryComplete
<1>1. Init => HistoryInv
  <2> SUFFICES ASSUME Init, NEW s \in Streams
               PROVE  Shows(ring[s], Image(table[s]) \cup Image(buf[s]), last[s])
    BY DEF HistoryInv
  <2>1. /\ ring[s] = <<>> /\ Image(table[s]) = {} /\ Image(buf[s]) = {} /\ Image(<<>>) = {}
    BY ImageNothing DEF Init, Empty
  <2>2. Increasing(<<>>)
    BY DEF Increasing
  <2> QED BY <2>1, <2>2 DEF Shows
<1>2. HistoryInv => HistoryComplete
  BY DEF HistoryInv, HistoryComplete, Shows
<1> QED BY <1>1, <1>2, NextHistory, StoreInvHolds, LateInvHolds, PTL DEF Spec
-----------------------------------------------------------------------------
(* The fates of the readings                                                *)

Waits == [s \in Streams |-> Image(buf[s])]
Stays == [s \in Streams |-> Image(table[s])]

(* How a batch of one stream fares.                                         *)
How(s, bad) ==
  IF db # "open" \/ bad = <<"batch", s>> THEN "nothing"
  ELSE IF bad = <<"row", s>> THEN "rest" ELSE "all"

LEMMA ImageTail ==
  ASSUME NEW q \in Readings, q # <<>>, Increasing(q)
  PROVE  Image(Tail(q)) = {id \in Image(q) : \E older \in Image(q) : older < id}
<1> DEFINE t == Tail(q)
<1>1. /\ t \in Readings /\ Len(t) = Len(q) - 1 /\ Len(q) \in Nat \ {0}
      /\ \A i \in 1..(Len(q) - 1) : t[i] = q[i + 1]
  BY DEF Readings
<1> HIDE DEF t
<1>2. /\ Image(q) = {q[i] : i \in 1..Len(q)} /\ Image(t) = {t[i] : i \in 1..Len(t)}
      /\ \A i \in 1..Len(q) : q[i] \in Nat
  BY <1>1, IndexFacts
<1>3. \A i \in 1..Len(q), j \in 1..Len(q) : i < j => q[i] < q[j]
  BY IndexFacts, Zenon DEF Increasing
<1>4. ASSUME NEW i \in 1..Len(t)
      PROVE  t[i] \in Image(q) /\ \E older \in Image(q) : older < t[i]
  <2>1. i + 1 \in 1..Len(q) /\ t[i] = q[i + 1] /\ 1 \in 1..Len(q) /\ 1 < i + 1
    BY <1>1
  <2>2. q[1] < t[i] /\ q[1] \in Image(q) /\ t[i] \in Image(q)
    BY <1>2, <1>3, <2>1
  <2> QED BY <2>2
<1>5. ASSUME NEW i \in 1..Len(q), NEW older \in Image(q), older < q[i]
      PROVE  q[i] \in Image(t)
  <2>1. PICK j \in 1..Len(q) : older = q[j]
    BY <1>2
  <2>2. i # 1
    <3>1. SUFFICES ASSUME i = 1 PROVE FALSE
      OBVIOUS
    <3>2. j = 1 \/ 1 < j
      BY <1>1
    <3>3. q[j] = q[i] \/ q[i] < q[j]
      BY <1>3, <3>1, <3>2
    <3> QED BY <1>2, <1>5, <2>1, <3>3
  <2>3. i - 1 \in 1..Len(t) /\ t[i - 1] = q[i]
    BY <1>1, <2>2
  <2> QED BY <1>2, <2>3
<1>6. Image(t) = {id \in Image(q) : \E older \in Image(q) : older < id}
  BY <1>2, <1>4, <1>5
<1> QED BY <1>6 DEF t

LEMMA TakenIsStored ==
  ASSUME NEW batch \in Readings, Increasing(batch), NEW s, NEW bad
  PROVE  Image(Stored(s, batch, bad)) = Fates!Taken(Image(batch), How(s, bad))
<1>1. CASE batch = <<>>
  <2>1. Stored(s, batch, bad) = <<>> /\ Image(batch) = {}
    BY <1>1, ImageNothing DEF Stored
  <2>2. Fates!Taken({}, How(s, bad)) = {}
    BY DEF Fates!Taken, How
  <2> QED BY <1>1, <2>1, <2>2
<1>2. CASE batch # <<>> /\ (db # "open" \/ bad = <<"batch", s>>)
  <2>1. Stored(s, batch, bad) = <<>> /\ How(s, bad) = "nothing"
    BY <1>2 DEF Stored, How
  <2> QED BY <2>1, ImageNothing DEF Fates!Taken
<1>3. CASE batch # <<>> /\ ~(db # "open" \/ bad = <<"batch", s>>) /\ bad = <<"row", s>>
  <2>1. Stored(s, batch, bad) = Tail(batch) /\ How(s, bad) = "rest"
    BY <1>3 DEF Stored, How
  <2> QED BY <1>3, <2>1, ImageTail DEF Fates!Taken
<1>4. CASE batch # <<>> /\ ~(db # "open" \/ bad = <<"batch", s>>) /\ bad # <<"row", s>>
  <2>1. Stored(s, batch, bad) = batch /\ How(s, bad) = "all"
    BY <1>4 DEF Stored, How
  <2> QED BY <2>1 DEF Fates!Taken
<1> QED BY <1>1, <1>2, <1>3, <1>4

(* A flush saves the batches.                                               *)
LEMMA FlushSaves ==
  ASSUME TypeOK, NEW pending \in [Streams -> Readings], \A s \in Streams : Increasing(pending[s]),
         NEW bad \in Troubles, Flush(pending, bad), UNCHANGED wiped
  PROVE  Fates!Save([s \in Streams |-> Image(pending[s])])
<1> DEFINE r == [s \in Streams |-> How(s, bad)]
           b == [s \in Streams |-> Image(pending[s])]
<1>1. r \in [Streams -> Fates!Results]
  BY DEF How, Fates!Results
<1>2. Fates!OneFault(r)
  <2>1. CASE db # "open"
    BY <2>1 DEF How, Fates!OneFault
  <2>2. CASE db = "open"
    <3>1. PICK s \in Streams : \E x : bad = <<x, s>>
      BY DEF Troubles
    <3>2. \A t \in Streams \ {s} : How(t, bad) = "all"
      BY <2>2, <3>1 DEF How
    <3> QED BY <3>2 DEF Fates!OneFault
  <2> QED BY <2>1, <2>2
<1>3. \A s \in Streams : Image(Stored(s, pending[s], bad)) = Fates!Taken(b[s], r[s])
  BY TakenIsStored
<1> HIDE DEF r
<1>4. \A s \in Streams : Image(table'[s]) = Image(table[s]) \cup Fates!Taken(b[s], r[s])
  <2> SUFFICES ASSUME NEW s \in Streams
               PROVE  Image(table'[s]) = Image(table[s]) \cup Fates!Taken(b[s], r[s])
    OBVIOUS
  <2> DEFINE e == Stored(s, pending[s], bad)
  <2>1. table[s] \in Readings /\ e \in Readings
    BY StoredFacts DEF TypeOK, Readings
  <2>2. table'[s] = table[s] \o e
    BY DEF Flush
  <2>3. Image(e) = Fates!Taken(b[s], r[s])
    BY <1>3
  <2> HIDE DEF e, b
  <2> QED BY <2>1, <2>2, <2>3, ImageConcat
<1>5. /\ [s \in Streams |-> Image(buf'[s])] = [s \in Streams |-> {}]
      /\ lost' = [s \in Streams |-> lost[s] \cup (b[s] \ Fates!Taken(b[s], r[s]))]
  BY <1>3, ImageNothing DEF Flush
<1>6. [s \in Streams |-> Image(table'[s])] =
        [s \in Streams |-> Stays[s] \cup Fates!Taken(b[s], r[s])]
  BY <1>4 DEF Stays
<1>7. Fates!Save(b)
  BY <1>1, <1>2, <1>5, <1>6 DEF Fates!Save, Fates!None, Stays
<1> QED BY <1>7

(* The numbers of a table up to a row are its beginning.                    *)
LEMMA ImageBegin ==
  ASSUME NEW p \in Readings, NEW q \in Readings, Begins(p, q), Increasing(q),
         NEW top \in Nat, Image(q) \subseteq 1..top
  PROVE  \E mark \in 0..top : Image(p) = {id \in Image(q) : id <= mark}
<1>1. /\ Len(p) \in Nat /\ Len(q) \in Nat
      /\ Image(p) = {p[i] : i \in 1..Len(p)} /\ Image(q) = {q[i] : i \in 1..Len(q)}
      /\ \A i \in 1..Len(q) : q[i] \in Nat
  BY IndexFacts
<1>2. \A i \in 1..Len(q), j \in 1..Len(q) : i < j => q[i] < q[j]
  BY IndexFacts, Zenon DEF Increasing
<1>3. Len(p) <= Len(q) /\ \A i \in 1..Len(p) : p[i] = q[i]
  BY DEF Begins
<1>4. CASE Len(p) = Len(q)
  <2>1. Image(p) = Image(q)
    BY <1>1, <1>3, <1>4
  <2>2. Image(p) = {id \in Image(q) : id <= top} /\ top \in 0..top
    BY <2>1
  <2> QED BY <2>2
<1>5. CASE Len(p) < Len(q) /\ Len(p) > 0
  <2> DEFINE n == Len(p)
  <2>1. n \in 1..Len(q) /\ q[n] \in 0..top
    BY <1>1, <1>5
  <2>2. \A i \in 1..Len(q) : q[i] <= q[n] => i \in 1..n
    <3> SUFFICES ASSUME NEW i \in 1..Len(q), q[i] <= q[n], ~(i \in 1..n) PROVE FALSE
      OBVIOUS
    <3>1. n < i
      BY <1>1, <1>5
    <3>2. q[n] < q[i]
      BY <1>2, <2>1, <3>1
    <3> QED BY <1>1, <2>1, <3>2
  <2>3. \A i \in 1..n : i \in 1..Len(q) /\ q[i] <= q[n]
    <3> SUFFICES ASSUME NEW i \in 1..n PROVE i \in 1..Len(q) /\ q[i] <= q[n]
      OBVIOUS
    <3>1. i \in 1..Len(q) /\ (i = n \/ i < n)
      BY <1>1, <1>5
    <3>2. q[i] = q[n] \/ q[i] < q[n]
      BY <1>2, <2>1, <3>1
    <3> QED BY <1>1, <2>1, <3>1, <3>2
  <2>4. Image(p) = {id \in Image(q) : id <= q[n]}
    BY <1>1, <1>3, <2>2, <2>3
  <2> QED BY <2>1, <2>4
<1>6. CASE Len(p) = 0 /\ Len(q) > 0
  <2>1. Image(p) = {}
    BY <1>1, <1>6
  <2>2. {id \in Image(q) : id <= 0} = {} /\ 0 \in 0..top
    OBVIOUS
  <2> QED BY <2>1, <2>2
<1>7. \/ Len(p) = Len(q) \/ (Len(p) < Len(q) /\ Len(p) > 0) \/ (Len(p) = 0 /\ Len(q) > 0)
  BY <1>1, <1>3
<1> QED BY <1>4, <1>5, <1>6, <1>7

(* Those left by a deletion are its end.                                    *)
LEMMA ImageEnd ==
  ASSUME NEW q \in Readings, NEW n \in 0..Len(q), Increasing(q),
         NEW top \in Nat, Image(q) \subseteq 1..top
  PROVE  \E mark \in 0..top : Image(Drop(q, n)) = {id \in Image(q) : id > mark}
<1> DEFINE d == Drop(q, n)
<1>1. /\ d \in Readings /\ Len(d) = Len(q) - n
      /\ \A i \in 1..(Len(q) - n) : d[i] = q[n + i]
  BY DropFacts
<1> HIDE DEF d
<1>2. /\ Len(q) \in Nat /\ Image(d) = {d[i] : i \in 1..Len(d)} /\ Image(q) = {q[i] : i \in 1..Len(q)}
      /\ \A i \in 1..Len(q) : q[i] \in 1..top
  BY <1>1, IndexFacts
<1>3. \A i \in 1..Len(q), j \in 1..Len(q) : i < j => q[i] < q[j]
  BY IndexFacts, Zenon DEF Increasing
<1>4. PICK mark \in 0..top : \A i \in 1..Len(q) : q[i] > mark <=> i > n
  <2>1. CASE n = 0
    <3>1. 0 \in 0..top /\ \A i \in 1..Len(q) : q[i] > 0 <=> i > n
      BY <1>2, <2>1
    <3> QED BY <3>1
  <2>2. CASE n > 0
    <3>1. n \in 1..Len(q) /\ q[n] \in 0..top
      BY <1>2, <2>2
    <3>2. \A i \in 1..Len(q) : q[i] > q[n] <=> i > n
      <4> SUFFICES ASSUME NEW i \in 1..Len(q) PROVE q[i] > q[n] <=> i > n
        OBVIOUS
      <4>1. i > n \/ i = n \/ i < n
        BY <1>2
      <4>2. (i > n => q[n] < q[i]) /\ (i < n => q[i] < q[n])
        BY <1>3, <3>1
      <4> QED BY <1>2, <3>1, <4>1, <4>2
    <3> QED BY <3>1, <3>2
  <2> QED BY <2>1, <2>2
<1>5. ASSUME NEW i \in 1..Len(d)
      PROVE  d[i] \in Image(q) /\ d[i] > mark
  <2>1. n + i \in 1..Len(q) /\ n + i > n /\ d[i] = q[n + i]
    BY <1>1, <1>2
  <2> QED BY <1>2, <1>4, <2>1
<1>6. ASSUME NEW i \in 1..Len(q), q[i] > mark
      PROVE  q[i] \in Image(d)
  <2>1. i > n
    BY <1>4, <1>6
  <2>2. i - n \in 1..Len(d) /\ n + (i - n) = i
    BY <1>1, <1>2, <2>1
  <2>3. d[i - n] = q[i]
    BY <1>1, <2>2
  <2> QED BY <1>2, <2>2, <2>3
<1>7. Image(d) = {id \in Image(q) : id > mark}
  BY <1>2, <1>5, <1>6
<1> QED BY <1>7 DEF d

(* What the invariants say of one stream.                                   *)
LEMMA StreamFacts ==
  ASSUME StoreInv, NothingVanishes, NEW s \in Streams
  PROVE  /\ table[s] \in Readings /\ buf[s] \in Readings /\ last[s] \in Nat
         /\ Increasing(table[s]) /\ Increasing(buf[s])
         /\ Image(table[s]) \subseteq 1..last[s] /\ Image(buf[s]) \subseteq 1..last[s]
         /\ Image(table[s]) \cap Image(buf[s]) = {}
<1>1. table[s] \in Readings /\ buf[s] \in Readings /\ last[s] \in Nat
  BY DEF StoreInv, TypeOK, Readings
<1>2. Increasing(table[s]) /\ Increasing(buf[s]) /\ Below(table[s], buf[s])
  BY DEF StoreInv, InOrder
<1>3. Image(table[s]) \cup Image(buf[s]) \cup wiped[s] \cup lost[s] = 1..last[s]
  BY DEF NothingVanishes
<1>4. \A i \in 1..Len(table[s]), j \in 1..Len(buf[s]) : table[s][i] < buf[s][j]
  BY <1>1, <1>2, IndexFacts, Zenon DEF Below
<1>5. /\ Image(table[s]) = {table[s][i] : i \in 1..Len(table[s])}
      /\ Image(buf[s]) = {buf[s][i] : i \in 1..Len(buf[s])}
      /\ \A i \in 1..Len(table[s]) : table[s][i] \in Nat
  BY <1>1, IndexFacts
<1>6. Image(table[s]) \cap Image(buf[s]) = {}
  <2> SUFFICES ASSUME NEW i \in 1..Len(table[s]), NEW j \in 1..Len(buf[s]), table[s][i] = buf[s][j]
               PROVE  FALSE
    BY <1>5
  <2> QED BY <1>4, <1>5
<1> QED BY <1>1, <1>2, <1>3, <1>6

LEMMA ArrivalFate ==
  ASSUME StoreInv, NothingVanishes,
         NEW s \in Streams, NEW due \in BOOLEAN, NEW bad \in Troubles, Update(s, due, bad)
  PROVE  Fates!Arrive(s) \/ Fates!TurnAway(s) \/ Fates!ArriveAndSave(s)
<1> DEFINE new == last[s] + 1
           pending == [buf EXCEPT ![s] = Append(@, new)]
           waiting == [t \in Streams |-> Image(pending[t])]
<1>t. /\ TypeOK /\ buf \in [Streams -> Readings] /\ last \in [Streams -> Nat]
      /\ lost \in [Streams -> SUBSET Nat]
  BY DEF StoreInv, TypeOK, Readings
<1>1. last' = [last EXCEPT ![s] = new] /\ wiped' = wiped /\ new \in Nat
  BY <1>t DEF Update
<1>2. Append(buf[s], new) \in Readings /\ Image(Append(buf[s], new)) = Image(buf[s]) \cup {new}
  BY <1>t, <1>1, AppendFacts, ImageAppend
<1>3. pending \in [Streams -> Readings]
  BY <1>t, <1>2
<1>4. \A t \in Streams : Image(pending[t]) = IF t = s THEN Image(buf[s]) \cup {new} ELSE Image(buf[t])
  BY <1>t, <1>2
<1>5. waiting = [Waits EXCEPT ![s] = @ \cup {new}]
  BY <1>4 DEF Waits
<1>6. \A t \in Streams : Increasing(pending[t])
  <2> SUFFICES ASSUME NEW t \in Streams PROVE Increasing(pending[t])
    OBVIOUS
  <2>1. Ordered(table[t], buf[t], last[t])
    BY OrderOf DEF StoreInv
  <2>2. CASE t = s
    <3>1. Ordered(table[s], Append(buf[s], new), new)
      BY <1>t, <2>1, <2>2, OrderedAppend DEF StoreInv, TypeOK, Readings
    <3> QED BY <1>t, <2>2, <3>1 DEF Ordered
  <2>3. CASE t # s
    BY <1>t, <2>1, <2>3 DEF Ordered
  <2> QED BY <2>2, <2>3
<1>7. Fates!Count(s)
  BY <1>1 DEF Fates!Count
<1>8. Fates!With(Waits, s) = waiting
  BY <1>5 DEF Fates!With
<1> HIDE DEF pending, waiting
<1>9. CASE Flush(pending, bad)
  <2>1. Fates!Save([t \in Streams |-> Image(pending[t])])
    BY <1>t, <1>1, <1>3, <1>6, <1>9, FlushSaves
  <2>2. Fates!Save(Fates!With(Waits, s))
    BY <1>8, <2>1 DEF waiting
  <2> QED BY <1>7, <2>2 DEF Fates!ArriveAndSave, Waits
<1>10. CASE buf' = pending /\ UNCHANGED <<table, lost>>
  <2>1. [t \in Streams |-> Image(buf'[t])] = Fates!With(Waits, s)
    BY <1>8, <1>10 DEF waiting
  <2>2. [t \in Streams |-> Image(table'[t])] = Stays
    BY <1>10 DEF Stays
  <2> QED BY <1>1, <1>7, <1>10, <2>1, <2>2 DEF Fates!Arrive, Waits, Stays
<1>11. CASE lost' = [lost EXCEPT ![s] = @ \cup {new}] /\ UNCHANGED <<table, buf>>
  <2>1. lost' = Fates!With(lost, s)
    BY <1>11 DEF Fates!With
  <2> QED BY <1>1, <1>7, <1>11, <2>1 DEF Fates!TurnAway
<1> QED BY <1>9, <1>10, <1>11 DEF Update, pending

LEMMA DeletionFate ==
  ASSUME StoreInv, NothingVanishes, NEW age \in [Streams -> 0..MaxReadings], Cleanup(age)
  PROVE  \E upto \in Fates!Marks : Fates!Age(upto)
<1> DEFINE Mark(s, m) == Image(table'[s]) = {id \in Image(table[s]) : id > m}
           upto == [s \in Streams |-> CHOOSE m \in 0..last[s] : Mark(s, m)]
<1>1. ASSUME NEW s \in Streams PROVE \E m \in 0..last[s] : Mark(s, m)
  <2>1. age[s] \in 0..Len(table[s]) /\ table'[s] = Drop(table[s], age[s])
    BY StreamFacts, StoreAssumption, IndexFacts DEF Cleanup
  <2>2. /\ table[s] \in Readings /\ last[s] \in Nat /\ Increasing(table[s])
        /\ Image(table[s]) \subseteq 1..last[s]
    BY StreamFacts
  <2>3. \E m \in 0..last[s] : Image(Drop(table[s], age[s])) = {id \in Image(table[s]) : id > m}
    BY <2>1, <2>2, ImageEnd
  <2> QED BY <2>1, <2>3
<1> HIDE DEF Mark
<1>2. \A s \in Streams : upto[s] \in 0..last[s] /\ Mark(s, upto[s])
  BY <1>1
<1> HIDE DEF upto
<1>3. upto \in Fates!Marks
  <2>1. upto = [s \in Streams |-> upto[s]]
    BY DEF upto
  <2>2. \A s \in Streams : upto[s] \in UNION {0..last[t] : t \in Streams}
    BY <1>2
  <2> QED BY <2>1, <2>2 DEF Fates!Marks
<1>4. \A s \in Streams : /\ Image(table'[s]) = {id \in Stays[s] : id > upto[s]}
                         /\ wiped'[s] = wiped[s] \cup {id \in Stays[s] : id <= upto[s]}
  <2> SUFFICES ASSUME NEW s \in Streams
               PROVE  /\ Image(table'[s]) = {id \in Stays[s] : id > upto[s]}
                      /\ wiped'[s] = wiped[s] \cup {id \in Stays[s] : id <= upto[s]}
    OBVIOUS
  <2>1. Image(table'[s]) = {id \in Stays[s] : id > upto[s]}
    BY <1>2 DEF Mark, Stays
  <2>2. Stays[s] \subseteq Nat /\ upto[s] \in Nat
    BY <1>2, StreamFacts DEF Stays
  <2>3. wiped'[s] = wiped[s] \cup (Stays[s] \ Image(table'[s]))
    BY DEF Cleanup, Stays
  <2>4. Stays[s] \ Image(table'[s]) = {id \in Stays[s] : id <= upto[s]}
    BY <2>1, <2>2
  <2> QED BY <2>1, <2>3, <2>4
<1>5. wiped' = [s \in Streams |-> wiped'[s]]
  BY DEF Cleanup
<1>6. Fates!Age(upto)
  <2>1. [s \in Streams |-> Image(table'[s])] = [s \in Streams |-> {id \in Stays[s] : id > upto[s]}]
    BY <1>4
  <2>2. wiped' = [s \in Streams |-> wiped[s] \cup {id \in Stays[s] : id <= upto[s]}]
    BY <1>4, <1>5
  <2>3. UNCHANGED <<last, buf, lost>>
    BY DEF Cleanup, world
  <2> QED BY <2>1, <2>2, <2>3 DEF Fates!Age, Stays
<1> QED BY <1>3, <1>6

(* A crash, and the end of the program.                                     *)
LEMMA EndFate ==
  ASSUME StoreInv, NothingVanishes, NEW written \in SUBSET Streams,
         UNCHANGED <<last, wiped>>, buf' = Empty,
         table' = [s \in Streams |-> IF s \in written THEN table[s] \o buf[s] ELSE table[s]],
         lost' = [s \in Streams |-> lost[s] \cup (Image(buf[s]) \ Image(table'[s]))]
  PROVE  Fates!End(written)
<1>1. \A s \in Streams :
        Image(table'[s]) = IF s \in written THEN Stays[s] \cup Waits[s] ELSE Stays[s]
  <2> SUFFICES ASSUME NEW s \in Streams
               PROVE  Image(table'[s]) = IF s \in written THEN Stays[s] \cup Waits[s] ELSE Stays[s]
    OBVIOUS
  <2>1. table[s] \in Readings /\ buf[s] \in Readings
    BY StreamFacts
  <2>2. Image(table[s] \o buf[s]) = Image(table[s]) \cup Image(buf[s])
    BY <2>1, ImageConcat
  <2> QED BY <2>2 DEF Stays, Waits
<1>2. \A s \in Streams :
        lost'[s] = IF s \in written THEN lost[s] ELSE lost[s] \cup Waits[s]
  <2> SUFFICES ASSUME NEW s \in Streams
               PROVE  lost'[s] = IF s \in written THEN lost[s] ELSE lost[s] \cup Waits[s]
    OBVIOUS
  <2>1. lost'[s] = lost[s] \cup (Waits[s] \ Image(table'[s]))
    BY DEF Waits
  <2>2. Stays[s] \cap Waits[s] = {}
    BY StreamFacts DEF Stays, Waits
  <2>3. CASE s \in written
    <3>1. Image(table'[s]) = Stays[s] \cup Waits[s]
      BY <1>1, <2>3
    <3> QED BY <2>1, <2>3, <3>1
  <2>4. CASE s \notin written
    <3>1. Image(table'[s]) = Stays[s]
      BY <1>1, <2>4
    <3> QED BY <2>1, <2>2, <2>4, <3>1
  <2> QED BY <2>3, <2>4
<1>3. [s \in Streams |-> Image(buf'[s])] = [s \in Streams |-> {}]
  BY ImageNothing
<1>4. [s \in Streams |-> Image(table'[s])] =
        [s \in Streams |-> IF s \in written THEN Stays[s] \cup Waits[s] ELSE Stays[s]]
  BY <1>1
<1>5. lost' = [s \in Streams |-> IF s \in written THEN lost[s] ELSE lost[s] \cup Waits[s]]
  <2>1. lost' = [s \in Streams |-> lost'[s]]
    OBVIOUS
  <2> QED BY <1>2, <2>1
<1> QED BY <1>3, <1>4, <1>5 DEF Fates!End, Fates!None, Stays, Waits

LEMMA PowerFate ==
  ASSUME StoreInv, NothingVanishes, NEW left \in onDisk, PowerLoss(left)
  PROVE  \E upto \in Fates!Marks : Fates!LosePower(upto)
<1> DEFINE Mark(s, m) == Image(table'[s]) = {id \in Image(table[s]) : id <= m}
           upto == [s \in Streams |-> CHOOSE m \in 0..last[s] : Mark(s, m)]
<1>1. ASSUME NEW s \in Streams PROVE \E m \in 0..last[s] : Mark(s, m)
  <2>1. left[s] \in Readings /\ Begins(left[s], table[s]) /\ table'[s] = left[s]
    BY DEF PowerLoss, StoreInv, TypeOK, Readings
  <2>2. /\ table[s] \in Readings /\ last[s] \in Nat /\ Increasing(table[s])
        /\ Image(table[s]) \subseteq 1..last[s]
    BY StreamFacts
  <2>3. \E m \in 0..last[s] : Image(left[s]) = {id \in Image(table[s]) : id <= m}
    BY <2>1, <2>2, ImageBegin
  <2> QED BY <2>1, <2>3
<1> HIDE DEF Mark
<1>2. \A s \in Streams : upto[s] \in 0..last[s] /\ Mark(s, upto[s])
  BY <1>1
<1> HIDE DEF upto
<1>3. upto \in Fates!Marks
  <2>1. upto = [s \in Streams |-> upto[s]]
    BY DEF upto
  <2>2. \A s \in Streams : upto[s] \in UNION {0..last[t] : t \in Streams}
    BY <1>2
  <2> QED BY <2>1, <2>2 DEF Fates!Marks
<1>4. \A s \in Streams :
        /\ Image(table'[s]) = {id \in Stays[s] : id <= upto[s]}
        /\ lost'[s] = lost[s] \cup Waits[s] \cup {id \in Stays[s] : id > upto[s]}
  <2> SUFFICES ASSUME NEW s \in Streams
               PROVE  /\ Image(table'[s]) = {id \in Stays[s] : id <= upto[s]}
                      /\ lost'[s] = lost[s] \cup Waits[s] \cup {id \in Stays[s] : id > upto[s]}
    OBVIOUS
  <2>1. Image(table'[s]) = {id \in Stays[s] : id <= upto[s]}
    BY <1>2 DEF Mark, Stays
  <2>2. Stays[s] \subseteq Nat /\ upto[s] \in Nat
    BY <1>2, StreamFacts DEF Stays
  <2>3. lost'[s] = lost[s] \cup (Waits[s] \cup (Stays[s] \ Image(table'[s])))
    BY DEF PowerLoss, Gone, Stays, Waits
  <2>4. Stays[s] \ Image(table'[s]) = {id \in Stays[s] : id > upto[s]}
    BY <2>1, <2>2
  <2> QED BY <2>1, <2>3, <2>4
<1>5. lost' = [s \in Streams |-> lost'[s]] /\ buf' = Empty /\ UNCHANGED <<last, wiped>>
  BY DEF PowerLoss, Gone
<1>6. Fates!LosePower(upto)
  <2>1. [s \in Streams |-> Image(table'[s])] = [s \in Streams |-> {id \in Stays[s] : id <= upto[s]}]
    BY <1>4
  <2>2. lost' = [s \in Streams |-> lost[s] \cup Waits[s] \cup {id \in Stays[s] : id > upto[s]}]
    BY <1>4, <1>5
  <2>3. [s \in Streams |-> Image(buf'[s])] = [s \in Streams |-> {}]
    BY <1>5, ImageNothing
  <2> QED BY <1>5, <2>1, <2>2, <2>3 DEF Fates!LosePower, Fates!None, Stays, Waits
<1> QED BY <1>3, <1>6

LEMMA FatesStep ==
  ASSUME StoreInv, NothingVanishes, [Next]_vars
  PROVE  [Fates!FatesNext]_(Fates!fatesVars)
<1>t. TypeOK /\ buf \in [Streams -> Readings] /\ Streams = {Battery, Charger}
  BY DEF StoreInv, TypeOK, Readings, Streams
<1>k. UNCHANGED <<last, buf, table, wiped, lost>> => UNCHANGED Fates!fatesVars
  BY DEF Fates!fatesVars
<1>1. ASSUME NEW s \in Streams, NEW due \in BOOLEAN, NEW bad \in Troubles, Update(s, due, bad)
      PROVE  Fates!FatesNext
  <2>1. Fates!Arrive(s) \/ Fates!TurnAway(s) \/ Fates!ArriveAndSave(s)
    BY <1>1, ArrivalFate
  <2> QED BY <2>1 DEF Fates!FatesNext
<1>2. ASSUME NEW age \in [Streams -> 0..MaxReadings], Cleanup(age)
      PROVE  Fates!FatesNext
  BY <1>2, DeletionFate DEF Fates!FatesNext
<1>3. CASE Checkpoint \/ CloseDb \/ \E opened \in BOOLEAN : Restart(opened)
  <2>1. UNCHANGED <<last, buf, table, wiped, lost>>
    BY <1>3 DEF Checkpoint, CloseDb, Restart, world
  <2> QED BY <1>k, <2>1
<1>4. CASE Exit
  <2>1. /\ UNCHANGED <<last, wiped, table>> /\ buf' = Empty
        /\ lost' = [s \in Streams |-> lost[s] \cup Image(buf[s])]
    BY <1>4 DEF Exit, Gone, world
  <2>2. table' = [s \in Streams |-> IF s \in {} THEN table[s] \o buf[s] ELSE table[s]]
    BY <2>1 DEF StoreInv, TypeOK
  <2>3. \A s \in Streams : Image(buf[s]) \ Image(table'[s]) = Image(buf[s])
    BY <2>1, StreamFacts
  <2>4. lost' = [s \in Streams |-> lost[s] \cup (Image(buf[s]) \ Image(table'[s]))]
    BY <2>1, <2>3
  <2>5. Fates!End({})
    BY <2>1, <2>2, <2>4, EndFate
  <2> QED BY <2>5 DEF Fates!FatesNext
<1>5. ASSUME NEW bad \in Troubles, ShutdownFlush(bad)
      PROVE  Fates!FatesNext \/ UNCHANGED Fates!fatesVars
  <2>1. UNCHANGED <<last, wiped>>
    BY <1>5 DEF ShutdownFlush
  <2>2. CASE UNCHANGED <<buf, table, lost>>
    BY <1>k, <2>1, <2>2
  <2>3. CASE Flush(buf, bad)
    <3>1. \A s \in Streams : Increasing(buf[s])
      BY StreamFacts
    <3>2. Fates!Save([s \in Streams |-> Image(buf[s])])
      BY <1>t, <2>1, <2>3, <3>1, FlushSaves
    <3> QED BY <2>1, <3>2 DEF Fates!FatesNext, Fates!SaveWaiting
  <2> QED BY <1>5, <2>2, <2>3 DEF ShutdownFlush
<1>6. ASSUME NEW written \in {{}, {Battery}, Streams}, Crash(written)
      PROVE  Fates!FatesNext
  <2>1. written \in SUBSET Streams
    BY <1>t
  <2>2. /\ UNCHANGED <<last, wiped>> /\ buf' = Empty
        /\ table' = [s \in Streams |-> IF s \in written THEN table[s] \o buf[s] ELSE table[s]]
        /\ lost' = [s \in Streams |-> lost[s] \cup (Image(buf[s]) \ Image(table'[s]))]
    BY <1>6 DEF Crash, Gone
  <2>3. Fates!End(written)
    BY <2>1, <2>2, EndFate
  <2> QED BY <2>1, <2>3 DEF Fates!FatesNext
<1>7. ASSUME NEW left \in onDisk, PowerLoss(left)
      PROVE  Fates!FatesNext
  BY <1>7, PowerFate DEF Fates!FatesNext
<1>8. CASE UNCHANGED vars
  BY <1>8, <1>k DEF vars
<1> QED BY <1>1, <1>2, <1>3, <1>4, <1>5, <1>6, <1>7, <1>8 DEF Next

(* Rings, buffers, transactions that fail half way, the end of main(),      *)
(* crashes in the middle of a flush, losses of power and the history loaded *)
(* at the start: seen from outside they are the fates of ReadingFates.      *)
THEOREM StoreImplementsFates == Spec => FatesSpec
<1>1. Init => Fates!FatesInit
  <2> SUFFICES ASSUME Init PROVE Fates!FatesInit
    OBVIOUS
  <2>1. \A s \in Streams : Image(buf[s]) = {} /\ Image(table[s]) = {}
    BY ImageNothing DEF Init
  <2> QED BY <2>1 DEF Init, Fates!FatesInit, Fates!None
<1>2. StoreInv /\ NothingVanishes /\ [Next]_vars => [Fates!FatesNext]_(Fates!fatesVars)
  BY FatesStep
<1> QED BY <1>1, <1>2, StoreInvHolds, NothingVanishesHolds, PTL DEF Spec, FatesSpec, Fates!FatesSpec

(* What ReadingFates says of one stream, ...                                *)
FateOf(c, w, t, d, l) ==
  /\ c \in Nat /\ w \cup t \cup d \cup l = 1..c
  /\ w \cap (t \cup d \cup l) = {} /\ t \cap (d \cup l) = {} /\ d \cap l = {}
  /\ \A x \in w, y \in t \cup d : y < x
  /\ \A x \in d, y \in t : x < y

(* ... and what its steps do to one.                                        *)
FateSteps(c, w, t, d, l, c2, w2, t2, d2, l2) ==
  \/ c2 = c + 1 /\ w2 = w \cup {c + 1} /\ t2 = t /\ d2 = d /\ l2 = l
  \/ c2 = c + 1 /\ w2 = w /\ t2 = t /\ d2 = d /\ l2 = l \cup {c + 1}
  \/ /\ w2 = {} /\ d2 = d
     /\ \E b \in {w, w \cup {c + 1}} : \E kept \in SUBSET b :
          /\ (c2 = c /\ b = w) \/ (c2 = c + 1 /\ b = w \cup {c + 1})
          /\ t2 = t \cup kept /\ l2 = l \cup (b \ kept)
  \/ /\ c2 = c /\ w2 = w /\ l2 = l
     /\ \E m \in Nat : t2 = {id \in t : id > m} /\ d2 = d \cup {id \in t : id <= m}
  \/ /\ c2 = c /\ w2 = {} /\ d2 = d
     /\ \E m \in Nat : t2 = {id \in t : id <= m} /\ l2 = l \cup w \cup {id \in t : id > m}
  \/ c2 = c /\ w2 = w /\ t2 = t /\ d2 = d /\ l2 = l

LEMMA FateKept ==
  ASSUME NEW c, NEW w, NEW t, NEW d, NEW l, FateOf(c, w, t, d, l),
         NEW c2, NEW w2, NEW t2, NEW d2, NEW l2, FateSteps(c, w, t, d, l, c2, w2, t2, d2, l2)
  PROVE  FateOf(c2, w2, t2, d2, l2) /\ d \subseteq d2 /\ l \subseteq l2
<1>1. /\ c \in Nat /\ w \cup t \cup d \cup l = 1..c
      /\ w \cap (t \cup d \cup l) = {} /\ t \cap (d \cup l) = {} /\ d \cap l = {}
      /\ \A x \in w, y \in t \cup d : y < x
      /\ \A x \in d, y \in t : x < y
  BY DEF FateOf
<1>2. /\ w \subseteq 1..c /\ t \subseteq 1..c /\ d \subseteq 1..c /\ l \subseteq 1..c
      /\ 1..(c + 1) = (1..c) \cup {c + 1} /\ c + 1 \notin 1..c /\ c + 1 \in Nat
      /\ \A y \in 1..c : y < c + 1
  BY <1>1
<1>3. CASE c2 = c + 1 /\ w2 = w \cup {c + 1} /\ t2 = t /\ d2 = d /\ l2 = l
  <2>1. w2 \cup t2 \cup d2 \cup l2 = 1..c2 /\ c2 \in Nat
    BY <1>1, <1>2, <1>3
  <2>2. w2 \cap (t2 \cup d2 \cup l2) = {}
    BY <1>1, <1>2, <1>3
  <2>3. \A x \in w2, y \in t2 \cup d2 : y < x
    BY <1>1, <1>2, <1>3
  <2> QED BY <1>1, <1>3, <2>1, <2>2, <2>3 DEF FateOf
<1>4. CASE c2 = c + 1 /\ w2 = w /\ t2 = t /\ d2 = d /\ l2 = l \cup {c + 1}
  <2>1. w2 \cup t2 \cup d2 \cup l2 = 1..c2 /\ c2 \in Nat
    BY <1>1, <1>2, <1>4
  <2>2. w2 \cap (t2 \cup d2 \cup l2) = {} /\ t2 \cap (d2 \cup l2) = {} /\ d2 \cap l2 = {}
    BY <1>1, <1>2, <1>4
  <2> QED BY <1>1, <1>4, <2>1, <2>2 DEF FateOf
<1>5. ASSUME w2 = {}, d2 = d, NEW b, NEW kept \in SUBSET b,
             (c2 = c /\ b = w) \/ (c2 = c + 1 /\ b = w \cup {c + 1}),
             t2 = t \cup kept, l2 = l \cup (b \ kept)
      PROVE  FateOf(c2, w2, t2, d2, l2) /\ d \subseteq d2 /\ l \subseteq l2
  <2>1. /\ b \cup t \cup d \cup l = 1..c2 /\ c2 \in Nat
        /\ b \cap (t \cup d \cup l) = {}
        /\ \A x \in b, y \in t \cup d : y < x
    BY <1>1, <1>2, <1>5
  <2>2. w2 \cup t2 \cup d2 \cup l2 = 1..c2
    BY <1>5, <2>1
  <2>3. w2 \cap (t2 \cup d2 \cup l2) = {} /\ t2 \cap (d2 \cup l2) = {} /\ d2 \cap l2 = {}
    BY <1>1, <1>5, <2>1
  <2>4. \A x \in d2, y \in t2 : x < y
    BY <1>1, <1>5, <2>1
  <2> QED BY <1>5, <2>1, <2>2, <2>3, <2>4 DEF FateOf
<1>6. ASSUME c2 = c, w2 = w, l2 = l, NEW m \in Nat, t2 = {id \in t : id > m},
             d2 = d \cup {id \in t : id <= m}
      PROVE  FateOf(c2, w2, t2, d2, l2) /\ d \subseteq d2 /\ l \subseteq l2
  <2>1. t \subseteq Nat
    BY <1>1, <1>2
  <2>a. \A x \in t : x > m \/ x <= m
    BY <2>1, <1>6
  <2>2. t2 \cup d2 = t \cup d /\ t2 \subseteq t
    <3>1. t2 = {x \in t : x > m} /\ d2 = d \cup {x \in t : x <= m}
      BY <1>6
    <3>2. \A x : x \in t2 \cup d2 => x \in t \cup d
      BY <3>1
    <3>3. \A x : x \in t \cup d => x \in t2 \cup d2
      BY ONLY <3>1, <2>a, Zenon
    <3>4. t2 \subseteq t
      BY <3>1
    <3> QED BY <3>2, <3>3, <3>4, Zenon
  <2>3. w2 \cup t2 \cup d2 \cup l2 = 1..c2
    BY <1>1, <1>6, <2>2
  <2>4. w2 \cap (t2 \cup d2 \cup l2) = {} /\ t2 \cap l2 = {} /\ d2 \cap l2 = {}
    BY <1>1, <1>6, <2>2
  <2>5. \A x \in d2, y \in t2 : x < y
    BY <1>1, <1>2, <1>6
  <2>6. t2 \cap d2 = {}
    <3> SUFFICES ASSUME NEW x \in t2, x \in d2 PROVE FALSE
      OBVIOUS
    <3>1. x < x /\ x \in Nat
      BY <2>1, <2>2, <2>5
    <3> QED BY <3>1
  <2>7. \A x \in w2, y \in t2 \cup d2 : y < x
    BY <1>1, <1>6, <2>2
  <2> QED BY <1>1, <1>6, <2>3, <2>4, <2>5, <2>6, <2>7 DEF FateOf
<1>7. ASSUME c2 = c, w2 = {}, d2 = d, NEW m \in Nat, t2 = {id \in t : id <= m},
             l2 = l \cup w \cup {id \in t : id > m}
      PROVE  FateOf(c2, w2, t2, d2, l2) /\ d \subseteq d2 /\ l \subseteq l2
  <2>1. t \subseteq Nat
    BY <1>1, <1>2
  <2>a. \A x \in t : x > m \/ x <= m
    BY <2>1, <1>7
  <2>2. t2 \cup l2 = t \cup l \cup w /\ t2 \subseteq t
    <3>1. t2 = {x \in t : x <= m} /\ l2 = l \cup w \cup {x \in t : x > m}
      BY <1>7
    <3>2. \A x : x \in t2 \cup l2 => x \in t \cup l \cup w
      BY <3>1
    <3>3. \A x : x \in t \cup l \cup w => x \in t2 \cup l2
      BY ONLY <3>1, <2>a, Zenon
    <3>4. t2 \subseteq t
      BY <3>1
    <3> QED BY <3>2, <3>3, <3>4, Zenon
  <2>3. w2 \cup t2 \cup d2 \cup l2 = 1..c2
    BY <1>1, <1>7, <2>2
  <2>4. d2 \cap l2 = {} /\ t2 \cap d2 = {}
    BY <1>1, <1>7, <2>2
  <2>5. t2 \cap l2 = {}
    BY <1>1, <1>2, <1>7
  <2> QED BY <1>1, <1>7, <2>2, <2>3, <2>4, <2>5 DEF FateOf
<1>8. CASE c2 = c /\ w2 = w /\ t2 = t /\ d2 = d /\ l2 = l
  BY <1>8
<1> QED BY <1>3, <1>4, <1>5, <1>6, <1>7, <1>8 DEF FateSteps

(* The invariant of the abstract specification: its variables have their    *)
(* types and each stream is as FateOf says.                                 *)
FatesInv ==
  /\ Fates!FatesTypeOK
  /\ \A s \in Streams : FateOf(last[s], Waits[s], Stays[s], wiped[s], lost[s])

(* A save does to every stream what the third case of FateSteps says.       *)
LEMMA SaveSteps ==
  ASSUME Fates!FatesTypeOK, NEW batches, Fates!Save(batches), NEW s \in Streams,
         \/ last'[s] = last[s] /\ batches[s] = Waits[s]
         \/ last'[s] = last[s] + 1 /\ batches[s] = Waits[s] \cup {last[s] + 1}
  PROVE  FateSteps(last[s], Waits[s], Stays[s], wiped[s], lost[s],
                   last'[s], Waits'[s], Stays'[s], wiped'[s], lost'[s])
<1> DEFINE b == batches[s]
<1>1. PICK result \in [Streams -> Fates!Results] :
        /\ Waits' = Fates!None
        /\ Stays' = [t \in Streams |-> Stays[t] \cup Fates!Taken(batches[t], result[t])]
        /\ lost' = [t \in Streams |-> lost[t] \cup (batches[t] \ Fates!Taken(batches[t], result[t]))]
        /\ wiped' = wiped
  BY DEF Fates!Save, Waits, Stays
<1> DEFINE kept == Fates!Taken(b, result[s])
<1>2. kept \in SUBSET b
  BY <1>1 DEF Fates!Taken, Fates!Results
<1> HIDE DEF kept
<1>3. /\ Waits'[s] = {} /\ wiped'[s] = wiped[s]
      /\ Stays'[s] = Stays[s] \cup kept /\ lost'[s] = lost[s] \cup (b \ kept)
  BY <1>1 DEF Fates!None, kept
<1>4. b \in {Waits[s], Waits[s] \cup {last[s] + 1}}
  OBVIOUS
<1> HIDE DEF b
<1>5. (last'[s] = last[s] /\ b = Waits[s]) \/ (last'[s] = last[s] + 1 /\ b = Waits[s] \cup {last[s] + 1})
  BY DEF b
<1> QED BY <1>2, <1>3, <1>4, <1>5 DEF FateSteps

(* Every step of the abstract specification does to every stream one of the *)
(* things of FateSteps.                                                     *)
LEMMA FatesDo ==
  ASSUME Fates!FatesTypeOK, [Fates!FatesNext]_(Fates!fatesVars), NEW s \in Streams
  PROVE  FateSteps(last[s], Waits[s], Stays[s], wiped[s], lost[s],
                   last'[s], Waits'[s], Stays'[s], wiped'[s], lost'[s])
<1>t. /\ last \in [Streams -> Nat] /\ lost \in [Streams -> SUBSET Nat]
      /\ wiped \in [Streams -> SUBSET Nat]
      /\ Waits \in [Streams -> SUBSET Nat] /\ Stays \in [Streams -> SUBSET Nat]
  BY DEF Fates!FatesTypeOK, Waits, Stays
<1>m. \A upto \in Fates!Marks : upto[s] \in Nat
  <2>1. \A t \in Streams : 0..last[t] \subseteq Nat
    BY <1>t
  <2> QED BY <2>1 DEF Fates!Marks
<1>1. ASSUME NEW r \in Streams, Fates!Arrive(r)
      PROVE  FateSteps(last[s], Waits[s], Stays[s], wiped[s], lost[s],
                       last'[s], Waits'[s], Stays'[s], wiped'[s], lost'[s])
  <2>1. /\ last' = [last EXCEPT ![r] = @ + 1] /\ Waits' = [Waits EXCEPT ![r] = @ \cup {last[r] + 1}]
        /\ Stays' = Stays /\ wiped' = wiped /\ lost' = lost
    BY <1>1 DEF Fates!Arrive, Fates!Count, Fates!With, Waits, Stays
  <2>2. CASE r = s
    BY <1>t, <2>1, <2>2 DEF FateSteps
  <2>3. CASE r # s
    BY <1>t, <2>1, <2>3 DEF FateSteps
  <2> QED BY <2>2, <2>3
<1>2. ASSUME NEW r \in Streams, Fates!TurnAway(r)
      PROVE  FateSteps(last[s], Waits[s], Stays[s], wiped[s], lost[s],
                       last'[s], Waits'[s], Stays'[s], wiped'[s], lost'[s])
  <2>1. /\ last' = [last EXCEPT ![r] = @ + 1] /\ lost' = [lost EXCEPT ![r] = @ \cup {last[r] + 1}]
        /\ Stays' = Stays /\ wiped' = wiped /\ Waits' = Waits
    BY <1>2 DEF Fates!TurnAway, Fates!Count, Fates!With, Waits, Stays
  <2>2. CASE r = s
    BY <1>t, <2>1, <2>2 DEF FateSteps
  <2>3. CASE r # s
    BY <1>t, <2>1, <2>3 DEF FateSteps
  <2> QED BY <2>2, <2>3
<1>3. ASSUME NEW r \in Streams, Fates!ArriveAndSave(r)
      PROVE  FateSteps(last[s], Waits[s], Stays[s], wiped[s], lost[s],
                       last'[s], Waits'[s], Stays'[s], wiped'[s], lost'[s])
  <2> DEFINE batches == [Waits EXCEPT ![r] = @ \cup {last[r] + 1}]
  <2>1. last' = [last EXCEPT ![r] = @ + 1] /\ Fates!Save(batches)
    BY <1>3 DEF Fates!ArriveAndSave, Fates!Count, Fates!With, Waits
  <2>2. \/ last'[s] = last[s] /\ batches[s] = Waits[s]
        \/ last'[s] = last[s] + 1 /\ batches[s] = Waits[s] \cup {last[s] + 1}
    BY <1>t, <2>1
  <2> HIDE DEF batches
  <2> QED BY <2>1, <2>2, SaveSteps
<1>4. CASE Fates!SaveWaiting
  <2>1. last' = last /\ Fates!Save(Waits)
    BY <1>4 DEF Fates!SaveWaiting, Waits
  <2>2. last'[s] = last[s] /\ Waits[s] = Waits[s]
    BY <2>1
  <2> QED BY <2>1, <2>2, SaveSteps
<1>5. ASSUME NEW upto \in Fates!Marks, Fates!Age(upto)
      PROVE  FateSteps(last[s], Waits[s], Stays[s], wiped[s], lost[s],
                       last'[s], Waits'[s], Stays'[s], wiped'[s], lost'[s])
  <2>1. /\ last' = last /\ Waits' = Waits /\ lost' = lost
        /\ Stays' = [t \in Streams |-> {id \in Stays[t] : id > upto[t]}]
        /\ wiped' = [t \in Streams |-> wiped[t] \cup {id \in Stays[t] : id <= upto[t]}]
    BY <1>5 DEF Fates!Age, Waits, Stays
  <2>2. /\ Stays'[s] = {id \in Stays[s] : id > upto[s]}
        /\ wiped'[s] = wiped[s] \cup {id \in Stays[s] : id <= upto[s]}
    BY <2>1
  <2> QED BY <1>m, <2>1, <2>2 DEF FateSteps
<1>6. ASSUME NEW upto \in Fates!Marks, Fates!LosePower(upto)
      PROVE  FateSteps(last[s], Waits[s], Stays[s], wiped[s], lost[s],
                       last'[s], Waits'[s], Stays'[s], wiped'[s], lost'[s])
  <2>1. /\ last' = last /\ Waits' = Fates!None /\ wiped' = wiped
        /\ Stays' = [t \in Streams |-> {id \in Stays[t] : id <= upto[t]}]
        /\ lost' = [t \in Streams |-> lost[t] \cup Waits[t] \cup {id \in Stays[t] : id > upto[t]}]
    BY <1>6 DEF Fates!LosePower, Waits, Stays
  <2>2. /\ Stays'[s] = {id \in Stays[s] : id <= upto[s]} /\ Waits'[s] = {}
        /\ lost'[s] = lost[s] \cup Waits[s] \cup {id \in Stays[s] : id > upto[s]}
    BY <2>1 DEF Fates!None
  <2> QED BY <1>m, <2>1, <2>2 DEF FateSteps
<1>7. ASSUME NEW written \in SUBSET Streams, Fates!End(written)
      PROVE  FateSteps(last[s], Waits[s], Stays[s], wiped[s], lost[s],
                       last'[s], Waits'[s], Stays'[s], wiped'[s], lost'[s])
  <2> DEFINE kept == IF s \in written THEN Waits[s] ELSE {}
  <2>1. /\ last' = last /\ Waits' = Fates!None /\ wiped' = wiped
        /\ Stays' = [t \in Streams |-> IF t \in written THEN Stays[t] \cup Waits[t] ELSE Stays[t]]
        /\ lost' = [t \in Streams |-> IF t \in written THEN lost[t] ELSE lost[t] \cup Waits[t]]
    BY <1>7 DEF Fates!End, Waits, Stays
  <2>2. /\ kept \in SUBSET Waits[s] /\ Waits'[s] = {} /\ wiped'[s] = wiped[s] /\ last'[s] = last[s]
        /\ Stays'[s] = Stays[s] \cup kept /\ lost'[s] = lost[s] \cup (Waits[s] \ kept)
    BY <2>1 DEF Fates!None
  <2> HIDE DEF kept
  <2> QED BY <2>2 DEF FateSteps
<1>8. CASE UNCHANGED Fates!fatesVars
  BY <1>8 DEF Fates!fatesVars, FateSteps, Waits, Stays
<1> QED BY <1>1, <1>2, <1>3, <1>4, <1>5, <1>6, <1>7, <1>8 DEF Fates!FatesNext

(* The types are kept, and every stream stays as FateOf says; what is       *)
(* deleted or lost of a stream stays so.                                    *)
LEMMA FatesKept ==
  ASSUME FatesInv, [Fates!FatesNext]_(Fates!fatesVars)
  PROVE  /\ FatesInv'
         /\ \A s \in Streams : wiped[s] \subseteq wiped'[s] /\ lost[s] \subseteq lost'[s]
<1>1. \A s \in Streams :
        /\ FateOf(last'[s], Waits'[s], Stays'[s], wiped'[s], lost'[s])
        /\ wiped[s] \subseteq wiped'[s] /\ lost[s] \subseteq lost'[s]
  <2> SUFFICES ASSUME NEW s \in Streams
               PROVE  /\ FateOf(last'[s], Waits'[s], Stays'[s], wiped'[s], lost'[s])
                      /\ wiped[s] \subseteq wiped'[s] /\ lost[s] \subseteq lost'[s]
    OBVIOUS
  <2>1. FateOf(last[s], Waits[s], Stays[s], wiped[s], lost[s])
    BY DEF FatesInv
  <2>2. FateSteps(last[s], Waits[s], Stays[s], wiped[s], lost[s],
                  last'[s], Waits'[s], Stays'[s], wiped'[s], lost'[s])
    BY FatesDo DEF FatesInv
  <2> QED BY <2>1, <2>2, FateKept
<1>2. \A s \in Streams :
        /\ last'[s] \in Nat /\ Waits'[s] \in SUBSET Nat /\ Stays'[s] \in SUBSET Nat
        /\ wiped'[s] \in SUBSET Nat /\ lost'[s] \in SUBSET Nat
  <2>1. \A n \in Nat : 1..n \subseteq Nat
    OBVIOUS
  <2> QED BY <1>1, <2>1 DEF FateOf
<1>3. /\ DOMAIN last' = Streams /\ last' = [s \in Streams |-> last'[s]]
      /\ Waits' = [s \in Streams |-> Waits'[s]] /\ Stays' = [s \in Streams |-> Stays'[s]]
      /\ wiped' = [s \in Streams |-> wiped'[s]] /\ lost' = [s \in Streams |-> lost'[s]]
  <2>t. /\ last \in [Streams -> Nat] /\ lost \in [Streams -> SUBSET Nat]
        /\ wiped \in [Streams -> SUBSET Nat]
    BY DEF FatesInv, Fates!FatesTypeOK
  <2>1. Waits' = [s \in Streams |-> Waits'[s]] /\ Stays' = [s \in Streams |-> Stays'[s]]
    BY DEF Waits, Stays
  <2>2. \/ last' = last \/ \E s \in Streams : last' = [last EXCEPT ![s] = @ + 1]
    BY DEF Fates!FatesNext, Fates!fatesVars, Fates!Arrive, Fates!TurnAway, Fates!ArriveAndSave,
           Fates!SaveWaiting, Fates!Age, Fates!LosePower, Fates!End, Fates!Count
  <2>3. wiped' = wiped \/ \E f : wiped' = [s \in Streams |-> f[s]]
    BY DEF Fates!FatesNext, Fates!fatesVars, Fates!Arrive, Fates!TurnAway, Fates!ArriveAndSave,
           Fates!SaveWaiting, Fates!Age, Fates!LosePower, Fates!End, Fates!Save
  <2>4. lost' = [s \in Streams |-> lost'[s]]
    <3>1. ASSUME NEW batches, Fates!Save(batches) PROVE lost' = [s \in Streams |-> lost'[s]]
      <4>1. \E f : lost' = [s \in Streams |-> f[s]]
        <5>1. PICK result \in [Streams -> Fates!Results] :
                lost' = [t \in Streams |->
                           lost[t] \cup (batches[t] \ Fates!Taken(batches[t], result[t]))]
          BY <3>1 DEF Fates!Save
        <5> QED BY <5>1
      <4> QED BY <4>1
    <3>2. ASSUME NEW s \in Streams, Fates!TurnAway(s) PROVE lost' = [r \in Streams |-> lost'[r]]
      <4>1. lost' = [lost EXCEPT ![s] = @ \cup {last[s] + 1}]
        BY <3>2 DEF Fates!TurnAway, Fates!With
      <4> QED BY <2>t, <4>1
    <3>3. ASSUME NEW upto \in Fates!Marks, Fates!LosePower(upto)
          PROVE  lost' = [s \in Streams |-> lost'[s]]
      BY <3>3 DEF Fates!LosePower
    <3>4. ASSUME NEW written \in SUBSET Streams, Fates!End(written)
          PROVE  lost' = [s \in Streams |-> lost'[s]]
      BY <3>4 DEF Fates!End
    <3>5. CASE lost' = lost
      BY <2>t, <3>5
    <3>6. ASSUME NEW s \in Streams, Fates!Arrive(s) PROVE lost' = lost
      BY <3>6 DEF Fates!Arrive
    <3>7. ASSUME NEW upto \in Fates!Marks, Fates!Age(upto) PROVE lost' = lost
      BY <3>7 DEF Fates!Age
    <3>8. CASE UNCHANGED Fates!fatesVars
      BY <3>5, <3>8 DEF Fates!fatesVars
    <3>9. CASE Fates!SaveWaiting
      BY <3>1, <3>9 DEF Fates!SaveWaiting
    <3>10. ASSUME NEW s \in Streams, Fates!ArriveAndSave(s)
           PROVE  lost' = [r \in Streams |-> lost'[r]]
      BY <3>1, <3>10 DEF Fates!ArriveAndSave
    <3> QED BY <3>2, <3>3, <3>4, <3>5, <3>6, <3>7, <3>8, <3>9, <3>10 DEF Fates!FatesNext
  <2> QED BY <2>t, <2>1, <2>2, <2>3, <2>4
<1>4. /\ last' \in [Streams -> Nat]
      /\ Waits' \in [Streams -> SUBSET Nat] /\ Stays' \in [Streams -> SUBSET Nat]
      /\ wiped' \in [Streams -> SUBSET Nat] /\ lost' \in [Streams -> SUBSET Nat]
  BY <1>2, <1>3
<1>5. Fates!FatesTypeOK'
  BY <1>4 DEF Fates!FatesTypeOK, Waits, Stays
<1> QED BY <1>1, <1>5 DEF FatesInv

(* The invariant of the abstract specification holds throughout.            *)
LEMMA FatesInvHolds == FatesSpec => []FatesInv
<1>1. Fates!FatesInit => FatesInv
  <2> SUFFICES ASSUME Fates!FatesInit PROVE FatesInv
    OBVIOUS
  <2>1. /\ last = [s \in Streams |-> 0] /\ Waits = [s \in Streams |-> {}]
        /\ Stays = [s \in Streams |-> {}] /\ wiped = [s \in Streams |-> {}]
        /\ lost = [s \in Streams |-> {}]
    BY DEF Fates!FatesInit, Fates!None, Waits, Stays
  <2>2. Fates!FatesTypeOK
    BY <2>1 DEF Fates!FatesTypeOK, Waits, Stays
  <2>3. FateOf(0, {}, {}, {}, {})
    BY DEF FateOf
  <2> QED BY <2>1, <2>2, <2>3 DEF FatesInv
<1>2. FatesInv /\ [Fates!FatesNext]_(Fates!fatesVars) => FatesInv'
  BY FatesKept
<1> QED BY <1>1, <1>2, PTL DEF FatesSpec, Fates!FatesSpec

(* The abstract specification keeps what it is for: a reading has one fate, *)
(* those that wait are the newest of their stream and those deleted the     *)
(* oldest, ...                                                              *)
THEOREM FatesKeepOrder ==
  FatesSpec => [](Fates!FatesTypeOK /\ Fates!OneFate /\ Fates!FatesInOrder)
<1>1. FatesInv => Fates!FatesTypeOK /\ Fates!OneFate /\ Fates!FatesInOrder
  BY DEF FatesInv, FateOf, Fates!OneFate, Fates!FatesInOrder, Waits, Stays
<1> QED BY <1>1, FatesInvHolds, PTL

(* ... and a reading that was deleted or lost never comes back.             *)
THEOREM FatesAreFinal == FatesSpec => Fates!GoneForGood
<1>1. ASSUME FatesInv, [Fates!FatesNext]_(Fates!fatesVars)
      PROVE  [\A s \in Streams :
                wiped[s] \subseteq wiped'[s] /\ lost[s] \subseteq lost'[s]]_(Fates!fatesVars)
  BY <1>1, FatesKept
<1>2. FatesInv /\ [Fates!FatesNext]_(Fates!fatesVars)
        => [\A s \in Streams :
              wiped[s] \subseteq wiped'[s] /\ lost[s] \subseteq lost'[s]]_(Fates!fatesVars)
  BY <1>1
<1> QED BY <1>2, FatesInvHolds, PTL DEF FatesSpec, Fates!FatesSpec, Fates!GoneForGood
=============================================================================
