-------------------------- MODULE BleManagerProofs --------------------------
(***************************************************************************)
(* Proofs about BleManager, for every bound on what goes wrong.  BleInv is  *)
(* the strengthening: what it says of a proxy in use and of the messages on *)
(* their way to it makes NotForgotten inductive, whatever the order in      *)
(* which answers, signals, timers and the user's choices arrive.            *)
(***************************************************************************)
EXTENDS BleManager, FiniteSetTheorems, TLAPS

(* The types of the members, with what the names of proxies rest on.        *)
Typed(s) ==
  s \in Members /\ s.dev \in s.hooked \cup {0} /\ IsFiniteSet(s.hooked) /\ 0 \notin s.hooked

Has(q, kind)     == \E i \in DOMAIN q : q[i].kind = kind
Told(q, kind, p) == \E i \in DOMAIN q : q[i].kind = kind /\ q[i].to = p

(* No answer to a Connect follows the last answer to StartNotify.           *)
LastWord(q) ==
  \E i \in DOMAIN q :
    q[i].kind = "notifying" /\ \A j \in DOMAIN q : j > i => q[j].kind # "connected"

Settled(s) == \/ s.state = "ready" /\ s.polls > 0
              \/ s.state = "scanning" /\ s.scan # "off"

(* A device in use: as long as the link is down an answer or the signal     *)
(* that it was lost is on its way; as long as it is up its services will be *)
(* resolved; from then on StartNotify is under way until its answer has the *)
(* last word on the state.                                                  *)
Attached(s, q, l) ==
  s.dev # 0 =>
    /\ l = "down" => s.connects > 0 \/ Has(q, "refused") \/ Told(q, "lost", s.dev)
    /\ l = "resolved" =>
         \/ Told(q, "resolved", s.dev)
         \/ /\ s.chars = TRUE
            /\ \/ s.notifies > 0 \/ Has(q, "mute")
               \/ s.connects = 0 /\ LastWord(q)
               \/ s.connects = 0 /\ ~Has(q, "connected") /\ Settled(s)

(* No device in use and no timer: it scans, or an answer came too late.     *)
Detached(s) ==
  s.dev = 0 /\ s.retries = 0 =>
    s.state \in {"discovering", "ready"} \/ (s.state = "scanning" /\ s.scan # "off")

(* Before the object manager is there nothing has begun.                    *)
Cold ==
  ~objMgr => /\ m.dev = 0 /\ m.retries = 0 /\ m.picked = 0 /\ m.listed = FALSE
             /\ m.connects = 0 /\ m.notifies = 0 /\ link = "down" /\ inbox = <<>>

BleInv ==
  /\ TypeOK /\ Typed(m) /\ Cold
  /\ Attached(m, inbox, link) /\ (objMgr => Detached(m))
  /\ NeverScansPastTarget
-----------------------------------------------------------------------------
(* The names of proxies and who is told                                     *)

(* A name is left for a new proxy that no handler and no message has.       *)
LEMMA NewFacts ==
  ASSUME NEW s, IsFiniteSet(s.hooked), inbox \in Seq(Messages)
  PROVE  New(s) \in Nat \ {0} /\ New(s) \notin s.hooked
<1> DEFINE D == {j \in DOMAIN inbox : inbox[j].kind \in {"resolved", "lost"}}
           T == {inbox[i].to : i \in D}
           used == s.hooked \cup T
           n == Cardinality(used)
<1>1. IsFiniteSet(D)
  <2>1. DOMAIN inbox = 1..Len(inbox) /\ Len(inbox) \in Nat
    OBVIOUS
  <2>2. IsFiniteSet(1..Len(inbox))
    BY <2>1, FS_Interval
  <2>3. D \in SUBSET (1..Len(inbox))
    BY <2>1
  <2> QED BY <2>2, <2>3, FS_Subset
<1>2. IsFiniteSet(T)
  <2> DEFINE f == [i \in D |-> inbox[i].to]
  <2> HIDE DEF D
  <2>1. f \in Surjection(D, T)
    BY DEF Surjection
  <2> QED BY <1>1, <2>1, FS_Surjection
<1> HIDE DEF T
<1>3. IsFiniteSet(used)
  BY <1>2, FS_Union
<1>4. n \in Nat
  BY <1>3, FS_CardinalityType
<1>5. \E p \in 1..(n + 1) : p \notin used
  <2> SUFFICES ASSUME 1..(n + 1) \in SUBSET used PROVE FALSE
    OBVIOUS
  <2>1. Cardinality(1..(n + 1)) = n + 1
    BY <1>4, FS_Interval
  <2>2. Cardinality(1..(n + 1)) <= n
    BY <1>3, FS_Subset
  <2> QED BY <1>4, <2>1, <2>2
<1>6. New(s) = CHOOSE p \in 1..(n + 1) : p \notin used
  BY DEF New, T
<1> HIDE DEF n, used
<1>7. New(s) \in 1..(n + 1) /\ New(s) \notin used
  BY <1>5, <1>6
<1> QED BY <1>4, <1>7 DEF used

(* A signal reaches every proxy with a handler.                             *)
LEMMA ToAllFacts ==
  ASSUME NEW kind \in {"resolved", "lost"}, m.hooked \in SUBSET Nat, IsFiniteSet(m.hooked)
  PROVE  /\ ToAll(kind) \in Seq(Messages)
         /\ \A p \in m.hooked : Told(ToAll(kind), kind, p)
<1> DEFINE H == m.hooked
           n == Cardinality(H)
           Less(p) == {q \in H : q < p}
           rank == [p \in H |-> Cardinality(Less(p))]
           Who(i) == CHOOSE p \in H : Cardinality(Less(p)) = i - 1
<1>1. n \in Nat
  BY FS_CardinalityType
<1>2. ASSUME NEW p \in H PROVE IsFiniteSet(Less(p)) /\ Cardinality(Less(p)) \in 0..(n - 1)
  <2>1. Less(p) \in SUBSET H /\ Less(p) # H
    OBVIOUS
  <2>2. IsFiniteSet(Less(p)) /\ Cardinality(Less(p)) <= n /\ Cardinality(Less(p)) # n
    BY <2>1, FS_Subset
  <2>3. Cardinality(Less(p)) \in Nat
    BY <2>2, FS_CardinalityType
  <2> QED BY <1>1, <2>2, <2>3
<1>3. ASSUME NEW p \in H, NEW q \in H, p < q PROVE Cardinality(Less(p)) # Cardinality(Less(q))
  <2>1. Less(p) \in SUBSET Less(q) /\ Less(p) # Less(q)
    <3>1. p \in Less(q) /\ p \notin Less(p)
      BY <1>3
    <3>2. \A r \in H : r < p => r < q
      BY <1>3
    <3> QED BY <3>1, <3>2
  <2> QED BY <1>2, <2>1, FS_Subset
<1>4. \A p, q \in H : Cardinality(Less(p)) = Cardinality(Less(q)) => p = q
  <2> SUFFICES ASSUME NEW p \in H, NEW q \in H, p # q
               PROVE  Cardinality(Less(p)) # Cardinality(Less(q))
    OBVIOUS
  <2>1. p < q \/ q < p
    OBVIOUS
  <2> HIDE DEF Less
  <2> QED BY <1>3, <2>1
<1> HIDE DEF Less
<1>5. rank \in Injection(H, 0..(n - 1))
  BY <1>2, <1>4 DEF Injection, IsInjective
<1>6. rank \in Surjection(H, 0..(n - 1))
  <2>1. IsFiniteSet(0..(n - 1)) /\ Cardinality(0..(n - 1)) = n
    <3> HIDE DEF n
    <3>1. n \in Nat /\ 0 \in Int /\ n - 1 \in Int
      BY <1>1
    <3>2. /\ IsFiniteSet(0..(n - 1))
          /\ Cardinality(0..(n - 1)) = IF 0 > n - 1 THEN 0 ELSE ((n - 1) - 0) + 1
      BY <3>1, FS_Interval
    <3> QED BY <3>1, <3>2
  <2> HIDE DEF rank
  <2> QED BY <1>5, <2>1, FS_Injection
<1>7. \A i \in 1..n : \E p \in H : Cardinality(Less(p)) = i - 1
  <2> SUFFICES ASSUME NEW i \in 1..n PROVE \E p \in H : Cardinality(Less(p)) = i - 1
    OBVIOUS
  <2>1. i - 1 \in 0..(n - 1)
    BY <1>1
  <2>2. \E p \in H : rank[p] = i - 1
    <3> HIDE DEF rank
    <3> QED BY <1>6, <2>1 DEF Surjection
  <2> QED BY <2>2
<1>8. \A i \in 1..n : Who(i) \in H /\ Cardinality(Less(Who(i))) = i - 1
  BY <1>7
<1>9. ToAll(kind) = [i \in 1..n |-> [kind |-> kind, to |-> Who(i)]]
  BY DEF ToAll, Less
<1> HIDE DEF Who
<1>10. ToAll(kind) \in Seq(Messages)
  BY <1>1, <1>8, <1>9 DEF Messages
<1>11. ASSUME NEW p \in H PROVE Told(ToAll(kind), kind, p)
  <2> DEFINE i == Cardinality(Less(p)) + 1
  <2>1. i \in 1..n /\ i - 1 = Cardinality(Less(p))
    BY <1>1, <1>2
  <2>2. Who(i) = p
    BY <1>4, <1>8, <2>1
  <2> HIDE DEF i
  <2> QED BY <1>9, <2>1, <2>2 DEF Told
<1> QED BY <1>10, <1>11
-----------------------------------------------------------------------------
(* The inbox                                                                *)

Inboxes == Seq(Messages)

LEMMA TailFacts ==
  ASSUME NEW q \in Inboxes, q # <<>>
  PROVE  /\ Tail(q) \in Inboxes /\ Head(q) = q[1] /\ Head(q) \in Messages
         /\ Len(q) \in Nat /\ DOMAIN q = 1..Len(q) /\ DOMAIN Tail(q) = 1..(Len(q) - 1)
         /\ \A i \in 1..(Len(q) - 1) : Tail(q)[i] = q[i + 1]
BY DEF Inboxes

(* What is lost from the front of the inbox, and what is not.               *)
LEMMA AfterDispatch ==
  ASSUME NEW q \in Inboxes, q # <<>>
  PROVE  /\ \A k : Has(q, k) => Head(q).kind = k \/ Has(Tail(q), k)
         /\ \A k : Has(Tail(q), k) => Has(q, k)
         /\ \A k, p : Told(q, k, p) =>
                        \/ Head(q).kind = k /\ Head(q).to = p
                        \/ Told(Tail(q), k, p)
         /\ LastWord(q) =>
              \/ LastWord(Tail(q))
              \/ Head(q).kind = "notifying" /\ ~Has(Tail(q), "connected")
<1> DEFINE t == Tail(q)
<1>1. /\ Head(q) = q[1] /\ Len(q) \in Nat /\ DOMAIN q = 1..Len(q)
      /\ DOMAIN t = 1..(Len(q) - 1) /\ \A i \in 1..(Len(q) - 1) : t[i] = q[i + 1]
  BY TailFacts
<1> HIDE DEF t
<1>2. \A i \in DOMAIN q : i = 1 \/ (i - 1 \in DOMAIN t /\ t[i - 1] = q[i])
  <2> SUFFICES ASSUME NEW i \in 1..Len(q), i # 1 PROVE i - 1 \in DOMAIN t /\ t[i - 1] = q[i]
    BY <1>1
  <2>1. i - 1 \in 1..(Len(q) - 1) /\ (i - 1) + 1 = i
    BY <1>1
  <2> QED BY <1>1, <2>1
<1>3. \A i \in DOMAIN t : i + 1 \in DOMAIN q /\ t[i] = q[i + 1]
  BY <1>1
<1>4. ASSUME NEW k, Has(q, k) PROVE Head(q).kind = k \/ Has(t, k)
  <2>1. PICK i \in DOMAIN q : q[i].kind = k
    BY <1>4 DEF Has
  <2> QED BY <1>1, <1>2, <2>1 DEF Has
<1>5. ASSUME NEW k, Has(t, k) PROVE Has(q, k)
  BY <1>3, <1>5 DEF Has
<1>6. ASSUME NEW k, NEW p, Told(q, k, p)
      PROVE  (Head(q).kind = k /\ Head(q).to = p) \/ Told(t, k, p)
  <2>1. PICK i \in DOMAIN q : q[i].kind = k /\ q[i].to = p
    BY <1>6 DEF Told
  <2> QED BY <1>1, <1>2, <2>1 DEF Told
<1>7. ASSUME LastWord(q)
      PROVE  LastWord(t) \/ (Head(q).kind = "notifying" /\ ~Has(t, "connected"))
  <2>1. PICK i \in DOMAIN q :
          q[i].kind = "notifying" /\ \A j \in DOMAIN q : j > i => q[j].kind # "connected"
    BY <1>7 DEF LastWord
  <2>2. \A j \in DOMAIN t : j + 1 > i => t[j].kind # "connected"
    BY <1>3, <2>1
  <2>3. CASE i = 1
    <3>1. \A j \in DOMAIN t : j + 1 > i
      BY <1>1, <2>3
    <3>2. ~Has(t, "connected")
      BY <2>2, <3>1 DEF Has
    <3> QED BY <1>1, <2>1, <2>3, <3>2
  <2>4. CASE i # 1
    <3>1. i - 1 \in DOMAIN t /\ t[i - 1].kind = "notifying"
      BY <1>2, <2>1, <2>4
    <3>2. \A j \in DOMAIN t : j > i - 1 => j + 1 > i
      BY <1>1
    <3>3. \A j \in DOMAIN t : j > i - 1 => t[j].kind # "connected"
      BY <2>2, <3>2
    <3> QED BY <3>1, <3>3 DEF LastWord
  <2> QED BY <2>3, <2>4
<1> QED BY <1>4, <1>5, <1>6, <1>7 DEF t

LEMMA Arrival ==
  ASSUME NEW q \in Inboxes, NEW e \in Inboxes
  PROVE  /\ q \o e \in Inboxes
         /\ \A k : Has(q, k) \/ Has(e, k) => Has(q \o e, k)
         /\ \A k, p : Told(q, k, p) \/ Told(e, k, p) => Told(q \o e, k, p)
<1> DEFINE c == q \o e
<1>1. /\ c \in Inboxes /\ Len(q) \in Nat /\ Len(e) \in Nat
      /\ DOMAIN q = 1..Len(q) /\ DOMAIN e = 1..Len(e) /\ DOMAIN c = 1..(Len(q) + Len(e))
      /\ \A i \in 1..(Len(q) + Len(e)) : c[i] = IF i <= Len(q) THEN q[i] ELSE e[i - Len(q)]
  BY DEF Inboxes
<1> HIDE DEF c
<1>2. \A i \in DOMAIN q : i \in DOMAIN c /\ c[i] = q[i]
  BY <1>1
<1>3. ASSUME NEW i \in DOMAIN e PROVE Len(q) + i \in DOMAIN c /\ c[Len(q) + i] = e[i]
  <2>1. /\ Len(q) + i \in 1..(Len(q) + Len(e)) /\ ~(Len(q) + i <= Len(q))
        /\ (Len(q) + i) - Len(q) = i
    BY <1>1
  <2> QED BY <1>1, <2>1
<1>4. ASSUME NEW k, Has(q, k) \/ Has(e, k) PROVE Has(c, k)
  BY <1>2, <1>3, <1>4 DEF Has
<1>5. ASSUME NEW k, NEW p, Told(q, k, p) \/ Told(e, k, p) PROVE Told(c, k, p)
  BY <1>2, <1>3, <1>5 DEF Told
<1> QED BY <1>1, <1>4, <1>5 DEF c

LEMMA OneMore ==
  ASSUME NEW q \in Inboxes, NEW x \in Messages
  PROVE  /\ Append(q, x) \in Inboxes
         /\ Has(Append(q, x), x.kind)
         /\ \A k : Has(q, k) => Has(Append(q, x), k)
         /\ \A k, p : Told(q, k, p) => Told(Append(q, x), k, p)
         /\ x.kind = "notifying" => LastWord(Append(q, x))
<1> DEFINE a == Append(q, x)
<1>1. /\ a \in Inboxes /\ Len(q) \in Nat /\ DOMAIN q = 1..Len(q) /\ DOMAIN a = 1..(Len(q) + 1)
      /\ a[Len(q) + 1] = x /\ \A i \in 1..Len(q) : a[i] = q[i]
  BY DEF Inboxes
<1> HIDE DEF a
<1>2. (\A i \in DOMAIN q : i \in DOMAIN a /\ a[i] = q[i]) /\ Len(q) + 1 \in DOMAIN a
      /\ \A j \in DOMAIN a : ~(j > Len(q) + 1)
  BY <1>1
<1>3. Has(a, x.kind)
  BY <1>1, <1>2 DEF Has
<1>4. \A k : Has(q, k) => Has(a, k)
  BY <1>2 DEF Has
<1>5. \A k, p : Told(q, k, p) => Told(a, k, p)
  BY <1>2 DEF Told
<1>6. x.kind = "notifying" => LastWord(a)
  BY <1>1, <1>2 DEF LastWord
<1> QED BY <1>1, <1>3, <1>4, <1>5, <1>6 DEF a
-----------------------------------------------------------------------------
(* What the methods come to                                                 *)

(* The device is given up, and a timer runs.                                *)
GivenUp(s) == Typed(s) /\ s.dev = 0 /\ s.retries > 0

(* A device is in use from now on: Connect or StartNotify is called.        *)
Fresh(s) ==
  /\ Typed(s) /\ s.dev # 0 /\ s.state \in {"connecting", "discovering"}
  /\ \/ link # "resolved" /\ s.connects > 0
     \/ link = "resolved" /\ s.chars = TRUE /\ s.notifies > 0

LEMMA DisturbedFacts ==
  ASSUME NEW s \in Members, NEW r \in Disturbed(s)
  PROVE  r = [s EXCEPT !.disturbed = @ + 1] /\ r \in Members
<1>1. r = [s EXCEPT !.disturbed = @ + 1]
  BY DEF Disturbed
<1> QED BY <1>1 DEF Members

LEMMA ReconnectFacts ==
  ASSUME NEW s \in Members, IsFiniteSet(s.hooked), 0 \notin s.hooked
  PROVE  GivenUp(ScheduleReconnect(s)) /\ \A r \in Disturbed(ScheduleReconnect(s)) : GivenUp(r)
<1> DEFINE r == ScheduleReconnect(s)
<1>1. r \in Members /\ r.dev = 0 /\ r.retries > 0 /\ r.hooked = s.hooked \ {s.dev}
  <2> DEFINE h == s.hooked \ {s.dev}
             a == [s EXCEPT !.chars = FALSE, !.path = FALSE]
             b == [a EXCEPT !.hooked = h, !.dev = 0]
             c == [b EXCEPT !.retries = @ + 1]
  <2>1. h \in SUBSET Nat
    BY DEF Members
  <2>2. a \in Members
    BY DEF Members
  <2>3. a.retries = s.retries
    BY DEF Members
  <2>4. r = c
    BY DEF ScheduleReconnect, Members
  <2> HIDE DEF h, a, r
  <2>5. b \in Members /\ b.hooked = h /\ b.dev = 0
    BY <2>1, <2>2 DEF Members
  <2> HIDE DEF b
  <2>6. c \in Members /\ c.hooked = h /\ c.dev = 0 /\ c.retries > 0
    BY <2>5 DEF Members
  <2> HIDE DEF c
  <2> QED BY <2>4, <2>6 DEF h
<1> HIDE DEF r
<1>2. IsFiniteSet(r.hooked) /\ 0 \notin r.hooked
  BY <1>1, FS_RemoveElement
<1>3. ASSUME NEW d \in Disturbed(r) PROVE GivenUp(d)
  <2>1. d = [r EXCEPT !.disturbed = @ + 1] /\ d \in Members
    BY <1>1, DisturbedFacts
  <2>2. d.dev = r.dev /\ d.retries = r.retries /\ d.hooked = r.hooked
    BY <1>1, <2>1 DEF Members
  <2> QED BY <1>1, <1>2, <2>1, <2>2 DEF GivenUp, Typed
<1>4. GivenUp(r)
  BY <1>1, <1>2 DEF GivenUp, Typed
<1> QED BY <1>3, <1>4 DEF r

LEMMA ServicesFacts ==
  ASSUME NEW s, Typed(s), NEW r \in OnServicesResolved(s)
  PROVE  \/ GivenUp(r)
         \/ /\ Typed(r) /\ r.state = "discovering" /\ r.dev = s.dev /\ r.chars = TRUE
            /\ r.notifies > 0 /\ r.connects = s.connects /\ r.retries = s.retries
<1> DEFINE t == [s EXCEPT !.state = "discovering"]
<1>1. t \in Members /\ t.hooked = s.hooked /\ s \in Members
  BY DEF Typed, Members
<1>2. GivenUp(ScheduleReconnect(t)) /\ \A d \in Disturbed(ScheduleReconnect(t)) : GivenUp(d)
  BY <1>1, ReconnectFacts DEF Typed
<1>3. \/ r = [t EXCEPT !.chars = TRUE, !.notifies = @ + 1]
      \/ r \in Disturbed(ScheduleReconnect(t)) \/ r = ScheduleReconnect(t)
  BY DEF OnServicesResolved
<1>4. CASE r = [t EXCEPT !.chars = TRUE, !.notifies = @ + 1]
  <2> DEFINE a == [t EXCEPT !.chars = TRUE]
  <2>1. t.notifies = s.notifies /\ t.connects = s.connects /\ t.retries = s.retries
        /\ t.dev = s.dev /\ t.state = "discovering"
    BY <1>1 DEF Members
  <2> HIDE DEF t
  <2>0. a \in Members /\ r = [a EXCEPT !.notifies = @ + 1]
    BY <1>1, <1>4 DEF Members
  <2>2. r \in Members
    <3> HIDE DEF a
    <3> QED BY <2>0 DEF Members
  <2>3. /\ r.state = "discovering" /\ r.dev = s.dev /\ r.chars = TRUE
        /\ r.notifies > 0 /\ r.connects = s.connects /\ r.retries = s.retries
        /\ r.hooked = s.hooked
    BY <1>1, <1>4, <2>1 DEF Members
  <2> QED BY <2>2, <2>3 DEF Typed
<1> QED BY <1>2, <1>3, <1>4

LEMMA ConnectFacts ==
  ASSUME NEW s, Typed(s), inbox \in Inboxes, NEW r \in ConnectDevice(s)
  PROVE  GivenUp(r) \/ Fresh(r)
<1> DEFINE t == [s EXCEPT !.path = TRUE, !.state = "connecting"]
           n == New(s)
           p == [t EXCEPT !.dev = n, !.hooked = @ \cup {n}]
           z == [t EXCEPT !.dev = 0]
<1>0. s \in Members
  BY DEF Typed
<1>1. n \in Nat \ {0}
  BY NewFacts DEF Typed, Inboxes
<1> HIDE DEF n
<1>2. z \in Members /\ z.hooked = s.hooked
  BY <1>0 DEF Members
<1>3. p \in Members /\ p.hooked = s.hooked \cup {n} /\ p.dev = n /\ p.state = "connecting"
  BY <1>0, <1>1 DEF Members
<1>4. r \in Disturbed(ScheduleReconnect(z)) \/ (link = "resolved" /\ r \in OnServicesResolved(p))
        \/ (link # "resolved" /\ r = [p EXCEPT !.connects = @ + 1])
  BY DEF ConnectDevice, n
<1> HIDE DEF p, z
<1>5. Typed(p)
  BY <1>1, <1>3, FS_AddElement DEF Typed
<1>6. CASE r \in Disturbed(ScheduleReconnect(z))
  BY <1>2, <1>6, ReconnectFacts DEF Typed
<1>7. CASE link = "resolved" /\ r \in OnServicesResolved(p)
  BY <1>1, <1>3, <1>5, <1>7, ServicesFacts DEF Fresh
<1>8. CASE link # "resolved" /\ r = [p EXCEPT !.connects = @ + 1]
  <2>1. r \in Members /\ r.dev = n /\ r.hooked = p.hooked /\ r.state = "connecting"
        /\ r.connects > 0
    BY <1>3, <1>8 DEF Members
  <2> QED BY <1>1, <1>3, <1>5, <1>8, <2>1 DEF Fresh, Typed
<1> QED BY <1>4, <1>6, <1>7, <1>8

(* Scanning leaves what is known of a device as it was.                     *)
Scans(r, s) ==
  /\ Typed(r) /\ r.state = "scanning" /\ r.scan # "off" /\ r.dev = s.dev /\ r.chars = s.chars
  /\ r.connects = s.connects /\ r.notifies = s.notifies

LEMMA DiscoveryFacts ==
  ASSUME NEW s, Typed(s), NEW r \in StartDiscovery(s)
  PROVE  GivenUp(r) \/ Scans(r, s)
<1> DEFINE t == [s EXCEPT !.state = "scanning", !.listed = FALSE]
           u == [t EXCEPT !.scan = "refused"]
<1>0. s \in Members
  BY DEF Typed
<1>1. t \in Members /\ t.hooked = s.hooked
  BY <1>0 DEF Members
<1>2. u \in Members
  BY <1>0 DEF Members
<1>3. \/ r = [t EXCEPT !.scan = "on"] \/ r \in Disturbed(ScheduleReconnect(t)) \/ r \in Disturbed(u)
  BY DEF StartDiscovery
<1>4. CASE r = [t EXCEPT !.scan = "on"]
  <2>1. /\ r \in Members /\ r.state = "scanning" /\ r.scan # "off" /\ r.dev = s.dev
        /\ r.chars = s.chars /\ r.connects = s.connects /\ r.notifies = s.notifies
        /\ r.hooked = s.hooked
    BY <1>0, <1>4 DEF Members
  <2> QED BY <2>1 DEF Scans, Typed
<1>5. CASE r \in Disturbed(ScheduleReconnect(t))
  BY <1>1, <1>5, ReconnectFacts DEF Typed
<1>6. CASE r \in Disturbed(u)
  <2>1. r = [u EXCEPT !.disturbed = @ + 1] /\ r \in Members
    BY <1>2, <1>6, DisturbedFacts
  <2>2. /\ r.state = "scanning" /\ r.scan # "off" /\ r.dev = s.dev
        /\ r.chars = s.chars /\ r.connects = s.connects /\ r.notifies = s.notifies
        /\ r.hooked = s.hooked
    BY <1>0, <2>1 DEF Members
  <2> QED BY <2>1, <2>2 DEF Scans, Typed
<1> QED BY <1>3, <1>4, <1>5, <1>6

LEMMA FindFacts ==
  ASSUME NEW s, Typed(s), inbox \in Inboxes, NEW r \in FindOrScan(s)
  PROVE  GivenUp(r) \/ Fresh(r) \/ (~(seen /\ target) /\ Scans(r, s))
<1> DEFINE t == [s EXCEPT !.listed = @ \/ seen]
<1>1. s \in Members /\ t \in Members /\ t.hooked = s.hooked /\ t.dev = s.dev
  <2>1. s \in Members
    BY DEF Typed
  <2>2. (s.listed \/ seen) \in BOOLEAN
    OBVIOUS
  <2> QED BY <2>1, <2>2 DEF Members
<1>2. Typed(t)
  BY <1>1 DEF Typed
<1>3. t.chars = s.chars /\ t.connects = s.connects /\ t.notifies = s.notifies
  BY <1>1 DEF Members
<1>4. (seen /\ target /\ r \in ConnectDevice(t)) \/ (~(seen /\ target) /\ r \in StartDiscovery(t))
  BY DEF FindOrScan
<1> HIDE DEF t
<1>5. CASE seen /\ target /\ r \in ConnectDevice(t)
  BY <1>2, <1>5, ConnectFacts
<1>6. CASE ~(seen /\ target) /\ r \in StartDiscovery(t)
  BY <1>1, <1>2, <1>3, <1>6, DiscoveryFacts DEF Scans
<1> QED BY <1>4, <1>5, <1>6

LEMMA StopFacts ==
  ASSUME NEW s, Typed(s), inbox \in Inboxes, NEW r \in StopAndConnect(s)
  PROVE  GivenUp(r) \/ Fresh(r)
<1> DEFINE t == [s EXCEPT !.scan = "off"]
<1>1. s \in Members /\ t \in Members /\ t.hooked = s.hooked /\ t.dev = s.dev
  BY DEF Typed, Members
<1>2. Typed(t)
  BY <1>1 DEF Typed
<1>3. r \in ConnectDevice(s) \/ r \in ConnectDevice(t)
  BY DEF StopAndConnect
<1> HIDE DEF t
<1> QED BY <1>2, <1>3, ConnectFacts
-----------------------------------------------------------------------------
(* Steps                                                                    *)

LEMMA GivenUpIsFine ==
  ASSUME GivenUp(m')
  PROVE  Typed(m') /\ Attached(m', inbox', link') /\ Detached(m') /\ NeverScansPastTarget'
<1>1. m'.dev = 0 /\ m'.retries # 0 /\ Typed(m')
  BY DEF GivenUp, Typed, Members
<1> QED BY <1>1 DEF Attached, Detached, NeverScansPastTarget

LEMMA FreshIsFine ==
  ASSUME Fresh(m'), UNCHANGED link, link \in {"down", "up", "resolved"}
  PROVE  Typed(m') /\ Attached(m', inbox', link') /\ Detached(m') /\ NeverScansPastTarget'
<1>1. m'.dev # 0 /\ m'.state # "scanning" /\ Typed(m')
  BY DEF Fresh
<1>2. Attached(m', inbox', link')
  <2>1. CASE link # "resolved" /\ m'.connects > 0
    BY <2>1 DEF Attached
  <2>2. CASE link = "resolved" /\ m'.chars = TRUE /\ m'.notifies > 0
    BY <2>2 DEF Attached
  <2> QED BY <2>1, <2>2 DEF Fresh
<1> QED BY <1>1, <1>2 DEF Detached, NeverScansPastTarget

(* FindOrScan on members that differ from m in the timers only.             *)
LEMMA FindIsFine ==
  ASSUME BleInv, NEW s, Typed(s), s.dev = m.dev, s.chars = m.chars, s.connects = m.connects,
         s.notifies = m.notifies, m' \in FindOrScan(s), UNCHANGED <<target, seen, link, inbox>>
  PROVE  Typed(m') /\ Attached(m', inbox', link') /\ Detached(m') /\ NeverScansPastTarget'
<1>1. inbox \in Inboxes /\ link \in {"down", "up", "resolved"}
  BY DEF BleInv, TypeOK, Inboxes
<1>2. GivenUp(m') \/ Fresh(m') \/ (~(seen /\ target) /\ Scans(m', s))
  BY <1>1, FindFacts
<1>3. CASE ~(seen /\ target) /\ Scans(m', s)
  <2>1. Typed(m') /\ Settled(m') /\ m'.state = "scanning" /\ m'.scan # "off"
    BY <1>3 DEF Scans, Settled
  <2>2. m'.dev = m.dev /\ m'.chars = m.chars /\ m'.connects = m.connects
        /\ m'.notifies = m.notifies
    BY <1>3 DEF Scans
  <2>3. Attached(m', inbox', link')
    BY <2>1, <2>2 DEF Attached, BleInv
  <2> QED BY <1>3, <2>1, <2>3 DEF Detached, NeverScansPastTarget
<1> QED BY <1>1, <1>2, <1>3, GivenUpIsFine, FreshIsFine

(* A step that changes nothing but what the invariant does not look at.     *)
Alike(r, s) ==
  /\ Typed(r) /\ r.state = s.state /\ r.dev = s.dev /\ r.chars = s.chars /\ r.scan = s.scan
  /\ r.retries = s.retries /\ r.polls = s.polls /\ r.connects = s.connects
  /\ r.notifies = s.notifies

LEMMA DisturbedAlike ==
  ASSUME NEW s, Typed(s), NEW r \in Disturbed(s)
  PROVE  Alike(r, s) /\ r.picked = s.picked /\ r.listed = s.listed
<1>1. r = [s EXCEPT !.disturbed = @ + 1] /\ r \in Members /\ s \in Members
  BY DisturbedFacts DEF Typed
<1>2. /\ r.state = s.state /\ r.dev = s.dev /\ r.chars = s.chars /\ r.scan = s.scan
      /\ r.retries = s.retries /\ r.polls = s.polls /\ r.connects = s.connects
      /\ r.notifies = s.notifies /\ r.hooked = s.hooked
      /\ r.picked = s.picked /\ r.listed = s.listed
  BY <1>1 DEF Members
<1> QED BY <1>1, <1>2 DEF Alike, Typed

LEMMA AlikeIsFine ==
  ASSUME BleInv, Alike(m', m), UNCHANGED <<link, inbox>>
  PROVE  Typed(m') /\ Attached(m', inbox', link') /\ (objMgr => Detached(m'))
<1>1. Typed(m') /\ m'.dev = m.dev
  BY DEF Alike
<1>2. Settled(m') <=> Settled(m)
  BY DEF Alike, Settled
<1>3. Attached(m', inbox', link')
  BY <1>2 DEF Alike, Attached, BleInv
<1>4. objMgr => Detached(m')
  BY DEF Alike, Detached, BleInv
<1> QED BY <1>1, <1>3, <1>4

LEMMA NextBase ==
  ASSUME BleInv, [Next]_vars
  PROVE  /\ target' \in BOOLEAN /\ objMgr' \in BOOLEAN /\ seen' \in BOOLEAN
         /\ link' \in {"down", "up", "resolved"} /\ inbox' \in Inboxes
<1>1. /\ target \in BOOLEAN /\ objMgr \in BOOLEAN /\ seen \in BOOLEAN /\ m \in Members
      /\ link \in {"down", "up", "resolved"} /\ inbox \in Inboxes /\ Typed(m)
  BY DEF BleInv, TypeOK, Inboxes
<1>2. /\ target' \in BOOLEAN /\ objMgr' \in BOOLEAN /\ seen' \in BOOLEAN
      /\ link' \in {"down", "up", "resolved"}
  BY <1>1 DEF Next, Callback, World, ManagerReady, RetryFires, PollFires, ConnectTo,
       ConnectAnswer, NotifyAnswer, DeviceProps, Dispatch, ObjAdded, ObjRemoved, Connected,
       Refused, ServicesResolved, LinkDown, Notifying, Mute, UserPicks, vars
<1>3. \/ inbox' = inbox
      \/ inbox # <<>> /\ inbox' = Tail(inbox)
      \/ \E k \in {"connected", "refused", "notifying", "mute"} :
           inbox' = Append(inbox, [kind |-> k])
      \/ ServicesResolved \/ LinkDown
  BY DEF Next, Callback, World, ManagerReady, RetryFires, PollFires, ConnectTo,
       ConnectAnswer, NotifyAnswer, DeviceProps, Dispatch, ObjAdded, ObjRemoved, Connected,
       Refused, Notifying, Mute, UserPicks, vars
<1>4. \A kind \in {"resolved", "lost"} : ToAll(kind) \in Inboxes
  BY <1>1, ToAllFacts DEF Typed, Members, Inboxes
<1>5. CASE ServicesResolved
  BY <1>1, <1>2, <1>4, <1>5, Arrival DEF ServicesResolved
<1>6. CASE LinkDown
  <2> DEFINE mutes == [i \in 1..m.notifies |-> [kind |-> "mute"]]
  <2>1. mutes \in Inboxes
    BY <1>1 DEF Members, Messages, Inboxes
  <2>2. inbox' = (inbox \o mutes) \o ToAll("lost") \/ inbox' = (inbox \o ToAll("lost")) \o mutes
    BY <1>6 DEF LinkDown
  <2> HIDE DEF mutes
  <2>3. inbox \o mutes \in Inboxes /\ inbox \o ToAll("lost") \in Inboxes
    BY <1>1, <1>4, <2>1, Arrival
  <2> QED BY <1>2, <1>4, <2>1, <2>2, <2>3, Arrival
<1>7. CASE inbox # <<>> /\ inbox' = Tail(inbox)
  BY <1>1, <1>2, <1>7, TailFacts
<1>8. ASSUME NEW k \in {"connected", "refused", "notifying", "mute"},
             inbox' = Append(inbox, [kind |-> k])
      PROVE  inbox' \in Inboxes
  <2>1. [kind |-> k] \in Messages
    BY DEF Messages
  <2> QED BY <1>1, <1>8, <2>1, OneMore
<1> QED BY <1>1, <1>2, <1>3, <1>5, <1>6, <1>7, <1>8

LEMMA NextCold == BleInv /\ [Next]_vars => Cold'
<1> SUFFICES ASSUME BleInv, [Next]_vars, ~objMgr' PROVE Cold'
  BY DEF Cold
<1>1. /\ ~objMgr /\ UNCHANGED target
      /\ m.dev = 0 /\ m.retries = 0 /\ m.picked = 0 /\ m.listed = FALSE
      /\ m.connects = 0 /\ m.notifies = 0 /\ link = "down" /\ inbox = <<>>
  <2>1. ~objMgr /\ UNCHANGED target
    BY DEF Next, Callback, World, ManagerReady, RetryFires, PollFires, ConnectTo, vars,
         ConnectAnswer, NotifyAnswer, DeviceProps, Dispatch, ObjAdded, ObjRemoved, Connected,
         Refused, ServicesResolved, LinkDown, Notifying, Mute, UserPicks
  <2> QED BY <2>1 DEF BleInv, Cold
<1>2. Typed(m) /\ m \in Members
  BY DEF BleInv, Typed
<1>3. ASSUME Alike(m', m), m'.picked = m.picked, m'.listed = m.listed, UNCHANGED <<link, inbox>>
      PROVE  Cold'
  BY <1>1, <1>3 DEF Alike, Cold
<1>4. CASE ManagerReady
  <2> DEFINE t == [m EXCEPT !.state = "error"]
  <2>1. m' \in Disturbed(t) /\ UNCHANGED <<link, inbox>>
    BY <1>4 DEF ManagerReady
  <2>2. /\ t \in Members /\ t.dev = m.dev /\ t.retries = m.retries /\ t.picked = m.picked
        /\ t.listed = m.listed /\ t.connects = m.connects /\ t.notifies = m.notifies
        /\ t.hooked = m.hooked
    BY <1>2 DEF Members
  <2> HIDE DEF t
  <2>3. Typed(t)
    BY <1>2, <2>2 DEF Typed
  <2>4. Alike(m', t) /\ m'.picked = t.picked /\ m'.listed = t.listed
    BY <2>1, <2>3, DisturbedAlike
  <2> QED BY <1>1, <2>1, <2>2, <2>4 DEF Alike, Cold
<1>5. CASE PollFires
  <2>1. UNCHANGED <<link, inbox>> /\ (m' = m \/ m' = [m EXCEPT !.polls = @ - 1])
    BY <1>5 DEF PollFires
  <2>2. /\ m'.dev = m.dev /\ m'.retries = m.retries /\ m'.picked = m.picked
        /\ m'.listed = m.listed /\ m'.connects = m.connects /\ m'.notifies = m.notifies
    BY <1>2, <2>1 DEF Members
  <2> QED BY <1>1, <2>1, <2>2 DEF Cold
<1>6. CASE ObjAdded
  <2>1. m' = m /\ UNCHANGED <<link, inbox>>
    BY <1>1, <1>6 DEF ObjAdded
  <2> QED BY <1>1, <2>1 DEF Cold
<1>7. CASE ObjRemoved
  BY <1>2, <1>3, <1>7, DisturbedAlike DEF ObjRemoved
<1>8. CASE RetryFires \/ ConnectTo \/ Connected \/ Refused \/ Notifying \/ Mute
  BY <1>1, <1>8 DEF RetryFires, ConnectTo, Connected, Refused, Notifying, Mute
<1>9. CASE ConnectAnswer \/ NotifyAnswer \/ DeviceProps
  BY <1>1, <1>9 DEF ConnectAnswer, NotifyAnswer, DeviceProps, Dispatch
<1>10. CASE ServicesResolved \/ LinkDown \/ UserPicks
  BY <1>1, <1>10 DEF ServicesResolved, LinkDown, UserPicks
<1>11. CASE UNCHANGED vars
  BY <1>1, <1>11 DEF vars, Cold
<1> QED BY <1>4, <1>5, <1>6, <1>7, <1>8, <1>9, <1>10, <1>11 DEF Next, Callback, World

Good == /\ Typed(m') /\ Attached(m', inbox', link') /\ (objMgr' => Detached(m'))
        /\ NeverScansPastTarget'

(* What the thread dispatches.                                              *)
LEMMA DispatchIsFine ==
  ASSUME BleInv, ConnectAnswer \/ NotifyAnswer \/ DeviceProps
  PROVE  Good
<1>1. /\ Typed(m) /\ m \in Members /\ m.dev \in m.hooked \cup {0} /\ inbox \in Inboxes
      /\ Attached(m, inbox, link) /\ (objMgr => Detached(m)) /\ NeverScansPastTarget
  BY DEF BleInv, Typed, TypeOK, Inboxes
<1>2. inbox # <<>> /\ inbox' = Tail(inbox) /\ UNCHANGED <<target, objMgr, seen, link>>
  BY DEF ConnectAnswer, NotifyAnswer, DeviceProps, Dispatch
<1> DEFINE h == Head(inbox)
<1>h. /\ \A k : Has(inbox, k) => h.kind = k \/ Has(inbox', k)
      /\ \A k : Has(inbox', k) => Has(inbox, k)
      /\ \A k, p : Told(inbox, k, p) => (h.kind = k /\ h.to = p) \/ Told(inbox', k, p)
      /\ LastWord(inbox) =>
           LastWord(inbox') \/ (h.kind = "notifying" /\ ~Has(inbox', "connected"))
  BY <1>1, <1>2, AfterDispatch
<1>c. h.kind = "connected" => Has(inbox, "connected")
  BY <1>1, <1>2, TailFacts DEF Has
<1> HIDE DEF h
<1>g. ASSUME GivenUp(m') PROVE Good
  BY <1>g, GivenUpIsFine DEF Good
<1>3. CASE h.kind = "connected" /\ m' = [m EXCEPT !.state = "discovering"]
  <2>1. /\ m' \in Members /\ m'.state = "discovering" /\ m'.dev = m.dev /\ m'.chars = m.chars
        /\ m'.hooked = m.hooked /\ m'.connects = m.connects /\ m'.notifies = m.notifies
    BY <1>1, <1>3 DEF Members
  <2>2. Typed(m')
    BY <1>1, <2>1 DEF Typed
  <2>3. Attached(m', inbox', link')
    BY <1>1, <1>2, <1>3, <1>h, <1>c, <2>1 DEF Attached
  <2> QED BY <2>1, <2>2, <2>3 DEF Good, Detached, NeverScansPastTarget
<1>4. CASE m' = ScheduleReconnect([m EXCEPT !.state = "disconnected"])
  <2> DEFINE t == [m EXCEPT !.state = "disconnected"]
  <2>1. t \in Members /\ t.hooked = m.hooked
    BY <1>1 DEF Members
  <2> HIDE DEF t
  <2>2. GivenUp(ScheduleReconnect(t))
    BY <1>1, <2>1, ReconnectFacts DEF Typed
  <2> QED BY <1>4, <1>g, <2>2 DEF t
<1>5. CASE h.kind = "notifying" /\ m' = [m EXCEPT !.state = "ready", !.polls = @ + 1]
  <2>0. m.polls \in Nat
    BY <1>1 DEF Members
  <2>1. /\ m' \in Members /\ m'.state = "ready" /\ m'.dev = m.dev /\ m'.chars = m.chars
        /\ m'.hooked = m.hooked /\ m'.connects = m.connects /\ m'.notifies = m.notifies
        /\ m'.polls > 0
    <3> DEFINE a == [m EXCEPT !.state = "ready"]
    <3>1. /\ a \in Members /\ a.state = "ready" /\ a.dev = m.dev /\ a.chars = m.chars
          /\ a.hooked = m.hooked /\ a.connects = m.connects /\ a.notifies = m.notifies
          /\ m' = [a EXCEPT !.polls = @ + 1]
      BY <1>1, <1>5 DEF Members
    <3> HIDE DEF a
    <3> QED BY <3>1 DEF Members
  <2>2. Typed(m') /\ Settled(m')
    BY <1>1, <2>1 DEF Typed, Settled
  <2>3. Attached(m', inbox', link')
    BY <1>1, <1>2, <1>5, <1>h, <2>1, <2>2 DEF Attached
  <2> QED BY <2>1, <2>2, <2>3 DEF Good, Detached, NeverScansPastTarget
<1>6. CASE m' = ScheduleReconnect(m)
  BY <1>1, <1>6, <1>g, ReconnectFacts DEF Typed
<1>7. CASE h.kind = "resolved" /\ h.to \in m.hooked /\ m' \in OnServicesResolved(m)
  <2>1. CASE GivenUp(m')
    BY <1>g, <2>1
  <2>2. CASE /\ Typed(m') /\ m'.state = "discovering" /\ m'.dev = m.dev /\ m'.chars = TRUE
             /\ m'.notifies > 0 /\ m'.connects = m.connects
    <3>1. Attached(m', inbox', link')
      BY <1>1, <1>2, <1>7, <1>h, <2>2 DEF Attached
    <3> QED BY <2>2, <3>1 DEF Good, Detached, NeverScansPastTarget
  <2> QED BY <1>1, <1>7, <2>1, <2>2, ServicesFacts
<1>8. CASE h.kind \in {"resolved", "lost"} /\ h.to \notin m.hooked /\ m' = m
  <2>1. m.dev # 0 => m.dev # h.to
    BY <1>1, <1>8
  <2>2. Attached(m', inbox', link')
    BY <1>1, <1>2, <1>8, <1>h, <2>1 DEF Attached
  <2> QED BY <1>1, <1>2, <1>8, <2>2 DEF Good, Detached, NeverScansPastTarget
<1>9. \/ h.kind = "connected" /\ m' = [m EXCEPT !.state = "discovering"]
      \/ m' = ScheduleReconnect([m EXCEPT !.state = "disconnected"])
      \/ h.kind = "notifying" /\ m' = [m EXCEPT !.state = "ready", !.polls = @ + 1]
      \/ m' = ScheduleReconnect(m)
      \/ h.kind = "resolved" /\ h.to \in m.hooked /\ m' \in OnServicesResolved(m)
      \/ h.kind \in {"resolved", "lost"} /\ h.to \notin m.hooked /\ m' = m
  BY DEF ConnectAnswer, NotifyAnswer, DeviceProps, Dispatch, h
<1> QED BY <1>3, <1>4, <1>5, <1>6, <1>7, <1>8, <1>9

(* What BlueZ sends.                                                        *)
LEMMA BlueZIsFine ==
  ASSUME BleInv,
         Connected \/ Refused \/ ServicesResolved \/ LinkDown \/ Notifying \/ Mute
  PROVE  Good
<1>1. /\ Typed(m) /\ m \in Members /\ m.dev \in m.hooked \cup {0} /\ inbox \in Inboxes
      /\ Attached(m, inbox, link) /\ (objMgr => Detached(m)) /\ NeverScansPastTarget
      /\ link \in {"down", "up", "resolved"}
  BY DEF BleInv, Typed, TypeOK, Inboxes
<1>2. UNCHANGED <<target, objMgr, seen>>
  BY DEF Connected, Refused, ServicesResolved, LinkDown, Notifying, Mute
<1>a. ASSUME NEW k \in {"connected", "refused", "notifying", "mute"},
             inbox' = Append(inbox, [kind |-> k])
      PROVE  /\ Has(inbox', k) /\ \A n : Has(inbox, n) => Has(inbox', n)
             /\ \A n, p : Told(inbox, n, p) => Told(inbox', n, p)
             /\ k = "notifying" => LastWord(inbox')
  <2>1. [kind |-> k] \in Messages
    BY DEF Messages
  <2> QED BY <1>1, <1>a, <2>1, OneMore
<1>t. ASSUME NEW kind \in {"resolved", "lost"}
      PROVE  ToAll(kind) \in Inboxes /\ \A p \in m.hooked : Told(ToAll(kind), kind, p)
  BY <1>1, ToAllFacts DEF Typed, Members, Inboxes
(* The state, the device and the timers stay as they are.                   *)
<1>k. ASSUME Typed(m'), Attached(m', inbox', link'), m'.state = m.state, m'.dev = m.dev,
             m'.retries = m.retries, m'.scan = m.scan
      PROVE  Good
  BY <1>1, <1>2, <1>k DEF Good, Detached, NeverScansPastTarget
<1>c. ASSUME NEW s \in Members, s = [m EXCEPT !.connects = @ - 1] \/ s = [m EXCEPT !.notifies = @ - 1]
                                 \/ s = [m EXCEPT !.notifies = 0],
             m' = s \/ m' \in Disturbed(s)
      PROVE  /\ Typed(m') /\ m'.state = m.state /\ m'.dev = m.dev /\ m'.retries = m.retries
             /\ m'.scan = m.scan /\ m'.chars = m.chars
             /\ m'.connects = s.connects /\ m'.notifies = s.notifies
  <2>1. /\ s.state = m.state /\ s.dev = m.dev /\ s.retries = m.retries /\ s.scan = m.scan
        /\ s.chars = m.chars /\ s.hooked = m.hooked
    BY <1>1, <1>c DEF Members
  <2>2. Typed(s)
    BY <1>1, <2>1 DEF Typed
  <2>3. CASE m' = s
    BY <2>1, <2>2, <2>3
  <2>4. CASE m' \in Disturbed(s)
    <3>1. Alike(m', s)
      BY <2>2, <2>4, DisturbedAlike
    <3> QED BY <2>1, <3>1 DEF Alike
  <2> QED BY <1>c, <2>3, <2>4
<1>3. CASE Connected \/ Refused
  <2> DEFINE t == [m EXCEPT !.connects = @ - 1]
  <2>0. m.connects > 0 /\ m.connects \in Nat
    BY <1>1, <1>3 DEF Members, Connected, Refused
  <2>a. m.connects - 1 \in Nat
    BY <2>0
  <2>b. t \in Members
    BY <1>1, <2>a DEF Members
  <2>c. t.notifies = m.notifies
    BY <1>1 DEF Members
  <2>1. t \in Members /\ t.notifies = m.notifies /\ m.connects > 0
    BY <2>0, <2>b, <2>c
  <2>2. m' = t \/ m' \in Disturbed(t)
    BY <1>3 DEF Connected, Refused
  <2>3. /\ Typed(m') /\ m'.state = m.state /\ m'.dev = m.dev /\ m'.retries = m.retries
        /\ m'.scan = m.scan /\ m'.chars = m.chars /\ m'.notifies = m.notifies
    <3> HIDE DEF t
    <3>1. /\ Typed(m') /\ m'.state = m.state /\ m'.dev = m.dev /\ m'.retries = m.retries
          /\ m'.scan = m.scan /\ m'.chars = m.chars /\ m'.notifies = t.notifies
      BY <1>c, <2>1, <2>2 DEF t
    <3> QED BY <2>1, <3>1
  <2>4. m.connects # 0
    BY <2>1
  <2>5. CASE Connected
    <3>1. inbox' = Append(inbox, [kind |-> "connected"])
          /\ link' = IF link = "down" THEN "up" ELSE link
      BY <2>5 DEF Connected
    <3>2. Attached(m', inbox', link')
      BY <1>1, <1>a, <2>3, <2>4, <3>1 DEF Attached
    <3> QED BY <1>k, <2>3, <3>2
  <2>6. CASE Refused
    <3>1. inbox' = Append(inbox, [kind |-> "refused"]) /\ link' = link
      BY <2>6 DEF Refused
    <3>2. Attached(m', inbox', link')
      BY <1>1, <1>a, <2>3, <2>4, <3>1 DEF Attached
    <3> QED BY <1>k, <2>3, <3>2
  <2> QED BY <1>3, <2>5, <2>6
<1>4. CASE ServicesResolved
  <2>1. m' = m /\ link' = "resolved" /\ inbox' = inbox \o ToAll("resolved")
    BY <1>4 DEF ServicesResolved
  <2>2. m.dev # 0 => Told(inbox', "resolved", m.dev)
    BY <1>1, <1>t, <2>1, Arrival
  <2>3. Attached(m', inbox', link')
    BY <2>1, <2>2 DEF Attached
  <2> QED BY <1>1, <1>k, <2>1, <2>3
<1>5. CASE LinkDown
  <2> DEFINE mutes == [i \in 1..m.notifies |-> [kind |-> "mute"]]
             t == [m EXCEPT !.notifies = 0]
  <2>1. mutes \in Inboxes
    BY <1>1 DEF Members, Messages, Inboxes
  <2>2. inbox' = (inbox \o mutes) \o ToAll("lost") \/ inbox' = (inbox \o ToAll("lost")) \o mutes
    BY <1>5 DEF LinkDown
  <2>3. t \in Members /\ m' \in Disturbed(t) /\ link' = "down"
    BY <1>1, <1>5 DEF LinkDown, Members
  <2> HIDE DEF mutes
  <2>4. m.dev # 0 => Told(inbox', "lost", m.dev)
    <3>1. inbox \o mutes \in Inboxes /\ inbox \o ToAll("lost") \in Inboxes
      BY <1>1, <1>t, <2>1, Arrival
    <3>2. m.dev # 0 => /\ Told(ToAll("lost"), "lost", m.dev)
                       /\ Told(inbox \o ToAll("lost"), "lost", m.dev)
      BY <1>1, <1>t, Arrival
    <3>3. m.dev # 0 => /\ Told((inbox \o mutes) \o ToAll("lost"), "lost", m.dev)
                       /\ Told((inbox \o ToAll("lost")) \o mutes, "lost", m.dev)
      BY <1>t, <2>1, <3>1, <3>2, Arrival
    <3> QED BY <2>2, <3>3
  <2>5. /\ Typed(m') /\ m'.state = m.state /\ m'.dev = m.dev /\ m'.retries = m.retries
        /\ m'.scan = m.scan
    <3> HIDE DEF t
    <3> QED BY <1>c, <2>3 DEF t
  <2>6. Attached(m', inbox', link')
    BY <2>3, <2>4, <2>5 DEF Attached
  <2> QED BY <1>k, <2>5, <2>6
<1>6. CASE Notifying \/ Mute
  <2> DEFINE t == [m EXCEPT !.notifies = @ - 1]
  <2>0. m.notifies > 0
    BY <1>6 DEF Notifying, Mute
  <2>1. t \in Members /\ t.connects = m.connects
    BY <1>1, <2>0 DEF Members
  <2>2. (m' = t \/ m' \in Disturbed(t)) /\ link' = link
    BY <1>6 DEF Notifying, Mute
  <2>3. /\ Typed(m') /\ m'.state = m.state /\ m'.dev = m.dev /\ m'.retries = m.retries
        /\ m'.scan = m.scan /\ m'.chars = m.chars /\ m'.connects = m.connects
    <3> HIDE DEF t
    <3>1. /\ Typed(m') /\ m'.state = m.state /\ m'.dev = m.dev /\ m'.retries = m.retries
          /\ m'.scan = m.scan /\ m'.chars = m.chars /\ m'.connects = t.connects
      BY <1>c, <2>1, <2>2 DEF t
    <3> QED BY <2>1, <3>1
  <2>4. CASE Notifying
    <3>1. inbox' = Append(inbox, [kind |-> "notifying"]) /\ link = "resolved" /\ m.connects = 0
      BY <2>4 DEF Notifying
    <3>2. Attached(m', inbox', link')
      BY <1>1, <1>a, <2>2, <2>3, <3>1 DEF Attached
    <3> QED BY <1>k, <2>3, <3>2
  <2>5. CASE Mute
    <3>1. inbox' = Append(inbox, [kind |-> "mute"])
      BY <2>5 DEF Mute
    <3>2. Attached(m', inbox', link')
      BY <1>1, <1>a, <2>2, <2>3, <3>1 DEF Attached
    <3> QED BY <1>k, <2>3, <3>2
  <2> QED BY <1>6, <2>4, <2>5
<1> QED BY <1>3, <1>4, <1>5, <1>6

LEMMA NextBle == BleInv /\ [Next]_vars => BleInv'
<1> SUFFICES ASSUME BleInv, [Next]_vars PROVE BleInv'
  OBVIOUS
<1>1. /\ Typed(m) /\ m \in Members /\ inbox \in Inboxes /\ link \in {"down", "up", "resolved"}
      /\ NeverScansPastTarget
  BY DEF BleInv, Typed, TypeOK, Inboxes
<1>2. /\ target' \in BOOLEAN /\ objMgr' \in BOOLEAN /\ seen' \in BOOLEAN
      /\ link' \in {"down", "up", "resolved"} /\ inbox' \in Inboxes /\ Cold'
  BY NextBase, NextCold
<1>x. ASSUME Good PROVE BleInv'
  BY <1>2, <1>x DEF Good, BleInv, TypeOK, Typed, Inboxes
<1>3. CASE ManagerReady
  <2>1. UNCHANGED <<target, seen, link, inbox>>
    BY <1>3 DEF ManagerReady
  <2>2. CASE m' \in FindOrScan(m)
    BY <1>1, <1>x, <2>1, <2>2, FindIsFine DEF Good
  <2>3. CASE objMgr' = FALSE /\ m' \in Disturbed([m EXCEPT !.state = "error"])
    <3> DEFINE t == [m EXCEPT !.state = "error"]
    <3>1. t \in Members /\ t.hooked = m.hooked /\ t.dev = m.dev
      BY <1>1 DEF Members
    <3> HIDE DEF t
    <3>2. Typed(t)
      BY <1>1, <3>1 DEF Typed
    <3>3. Alike(m', t)
      BY <2>3, <3>2, DisturbedAlike DEF t
    <3>4. m.dev = 0
      BY <1>3 DEF ManagerReady, BleInv, Cold
    <3>5. Attached(m', inbox', link') /\ Typed(m')
      BY <3>1, <3>3, <3>4 DEF Alike, Attached
    <3> QED BY <1>x, <2>3, <3>5 DEF Good, NeverScansPastTarget
  <2> QED BY <1>3, <2>2, <2>3 DEF ManagerReady
<1>4. CASE RetryFires
  <2> DEFINE t == [m EXCEPT !.retries = @ - 1]
  <2>1. /\ t \in Members /\ t.hooked = m.hooked /\ t.dev = m.dev /\ t.chars = m.chars
        /\ t.connects = m.connects /\ t.notifies = m.notifies
    BY <1>1, <1>4 DEF Members, RetryFires
  <2>2. m' \in FindOrScan(t) /\ UNCHANGED <<target, seen, link, inbox>>
    BY <1>4 DEF RetryFires
  <2> HIDE DEF t
  <2>3. Typed(t)
    BY <1>1, <2>1 DEF Typed
  <2> QED BY <1>x, <2>1, <2>2, <2>3, FindIsFine DEF Good
<1>5. CASE PollFires
  <2>1. UNCHANGED <<target, objMgr, seen, link, inbox>>
    BY <1>5 DEF PollFires
  <2>2. CASE m' = m
    BY <1>1, <1>x, <2>1, <2>2 DEF Good, BleInv, NeverScansPastTarget, Detached, Attached
  <2>3. CASE ~(m.state = "ready" /\ m.chars) /\ m' = [m EXCEPT !.polls = @ - 1]
    <3>1. /\ m' \in Members /\ m'.state = m.state /\ m'.dev = m.dev /\ m'.retries = m.retries
          /\ m'.scan = m.scan /\ m'.chars = m.chars /\ m'.hooked = m.hooked
          /\ m'.connects = m.connects /\ m'.notifies = m.notifies
      BY <1>1, <1>5, <2>3 DEF Members, PollFires
    <3>2. Typed(m')
      BY <1>1, <3>1 DEF Typed
    <3>3. m.chars = TRUE => m.state # "ready"
      BY <2>3
    <3>4. Attached(m', inbox', link')
      BY <2>1, <3>1, <3>3 DEF BleInv, Attached, Settled
    <3> QED BY <1>x, <2>1, <3>1, <3>2, <3>4 DEF Good, BleInv, NeverScansPastTarget, Detached
  <2> QED BY <1>5, <2>2, <2>3 DEF PollFires
<1>6. CASE ConnectTo
  <2> DEFINE t == [m EXCEPT !.picked = @ - 1]
  <2>1. t \in Members /\ t.hooked = m.hooked /\ t.dev = m.dev
    BY <1>1, <1>6 DEF Members, ConnectTo
  <2>2. m' \in StopAndConnect(t) /\ UNCHANGED link
    BY <1>6 DEF ConnectTo
  <2> HIDE DEF t
  <2>3. Typed(t)
    BY <1>1, <2>1 DEF Typed
  <2>4. GivenUp(m') \/ Fresh(m')
    BY <1>1, <2>2, <2>3, StopFacts
  <2> QED BY <1>1, <1>x, <2>2, <2>4, GivenUpIsFine, FreshIsFine DEF Good
<1>7. CASE ConnectAnswer \/ NotifyAnswer \/ DeviceProps
  BY <1>7, <1>x, DispatchIsFine
<1>8. CASE ObjAdded
  <2> DEFINE t == [m EXCEPT !.listed = TRUE]
  <2>1. /\ t \in Members /\ t.hooked = m.hooked /\ t.dev = m.dev /\ t.state = m.state
        /\ t.chars = m.chars /\ t.scan = m.scan /\ t.retries = m.retries
        /\ t.polls = m.polls /\ t.connects = m.connects /\ t.notifies = m.notifies
    BY <1>1 DEF Members
  <2>2. UNCHANGED <<target, objMgr, link, inbox>>
    BY <1>8 DEF ObjAdded
  <2>3. \/ (~objMgr \/ m.state # "scanning") /\ m' = m
        \/ m' \in StopAndConnect(t)
        \/ ~target /\ m' = t
    BY <1>8 DEF ObjAdded
  <2> HIDE DEF t
  <2>4. Typed(t)
    BY <1>1, <2>1 DEF Typed
  <2>5. CASE m' \in StopAndConnect(t)
    <3>1. GivenUp(m') \/ Fresh(m')
      BY <1>1, <2>4, <2>5, StopFacts
    <3> QED BY <1>1, <1>x, <2>2, <3>1, GivenUpIsFine, FreshIsFine DEF Good
  <2>6. CASE ((~objMgr \/ m.state # "scanning") /\ m' = m) \/ (~target /\ m' = t)
    <3>1. Alike(m', m)
      BY <1>1, <2>1, <2>4, <2>6 DEF Alike
    <3>2. NeverScansPastTarget'
      BY <2>2, <2>6 DEF NeverScansPastTarget
    <3> QED BY <1>x, <2>2, <3>1, <3>2, AlikeIsFine DEF Good
  <2> QED BY <2>3, <2>5, <2>6
<1>9. CASE ObjRemoved
  <2>1. Alike(m', m) /\ UNCHANGED <<target, objMgr, link, inbox>> /\ seen' = FALSE
    BY <1>1, <1>9, DisturbedAlike DEF ObjRemoved
  <2> QED BY <1>x, <2>1, AlikeIsFine DEF Good, NeverScansPastTarget
<1>10. CASE Connected \/ Refused \/ ServicesResolved \/ LinkDown \/ Notifying \/ Mute
  BY <1>10, <1>x, BlueZIsFine
<1>11. CASE UserPicks
  <2> DEFINE t == [m EXCEPT !.picked = @ + 1]
  <2>1. t \in Members /\ Alike(t, m)
    <3>1. /\ t \in Members /\ t.hooked = m.hooked /\ t.dev = m.dev /\ t.state = m.state
          /\ t.chars = m.chars /\ t.scan = m.scan /\ t.retries = m.retries
          /\ t.polls = m.polls /\ t.connects = m.connects /\ t.notifies = m.notifies
      BY <1>1 DEF Members
    <3> QED BY <1>1, <3>1 DEF Alike, Typed
  <2>2. m' \in Disturbed(t) /\ UNCHANGED <<target, objMgr, seen, link, inbox>>
    BY <1>11 DEF UserPicks
  <2> HIDE DEF t
  <2>3. Alike(m', m)
    <3>1. Alike(m', t)
      BY <2>1, <2>2, DisturbedAlike DEF Alike
    <3> QED BY <2>1, <3>1 DEF Alike
  <2>4. NeverScansPastTarget'
    BY <1>1, <2>2, <2>3 DEF Alike, NeverScansPastTarget
  <2> QED BY <1>x, <2>2, <2>3, <2>4, AlikeIsFine DEF Good
<1>12. CASE UNCHANGED vars
  BY <1>1, <1>x, <1>12 DEF vars, Good, BleInv, NeverScansPastTarget, Detached, Attached
<1> QED BY <1>3, <1>4, <1>5, <1>6, <1>7, <1>8, <1>9, <1>10, <1>11, <1>12
        DEF Next, Callback, World

LEMMA InitBle == Init => BleInv
<1> SUFFICES ASSUME Init PROVE BleInv
  OBVIOUS
<1>1. m \in Members /\ m.dev = 0 /\ m.hooked = {} /\ m.state = "disconnected"
      /\ m.retries = 0 /\ m.picked = 0 /\ m.listed = FALSE /\ m.connects = 0 /\ m.notifies = 0
  BY DEF Init, Members
<1>2. Typed(m)
  BY <1>1, FS_EmptySet DEF Typed
<1>4. /\ target \in BOOLEAN /\ objMgr = FALSE /\ seen \in BOOLEAN
      /\ link = "down" /\ inbox = <<>>
  BY DEF Init
<1>3. TypeOK
  <2>1. <<>> \in Seq(Messages)
    OBVIOUS
  <2> QED BY <1>1, <1>4, <2>1 DEF TypeOK
<1>5. Cold /\ NeverScansPastTarget
  <2>1. Cold
    BY <1>1, <1>4 DEF Cold
  <2>2. NeverScansPastTarget
    BY <1>4 DEF NeverScansPastTarget
  <2> QED BY <2>1, <2>2
<1>6. Attached(m, inbox, link)
  BY <1>1 DEF Attached
<1> QED BY <1>2, <1>3, <1>4, <1>5, <1>6 DEF BleInv

LEMMA BleInvHolds == Spec => []BleInv
BY InitBle, NextBle, PTL DEF Spec

(* The members of Impl keep their types, and device_proxy is a proxy whose  *)
(* signals arrive, or none: on_services_resolved, schedule_reconnect and    *)
(* connect_device never leave it at one that was let go.                    *)
THEOREM BleTypes == Spec => []TypeOK
<1>1. BleInv => TypeOK
  BY DEF BleInv
<1> QED BY <1>1, BleInvHolds, PTL

(* However answers, signals, timers and picks interleave, the manager is    *)
(* never left with nothing to wait for: whenever nothing is to be           *)
(* dispatched a timer runs, a call is under way, it scans, waits for the    *)
(* services or polls, or an answer came after the device was given up.      *)
THEOREM NotForgottenHolds == Spec => []NotForgotten
<1>1. BleInv => NotForgotten
  <2> SUFFICES ASSUME BleInv, objMgr, inbox = <<>>, m.retries = 0, m.picked = 0,
                      m.connects = 0, m.notifies = 0
               PROVE  \/ m.state = "scanning" /\ m.scan # "off"
                      \/ link = "up" /\ m.dev \in m.hooked
                      \/ Serving \/ LateAnswer
    BY DEF NotForgotten, BleInv, Typed, Members
  <2>1. /\ m.dev \in m.hooked \cup {0} /\ link \in {"down", "up", "resolved"}
        /\ Attached(m, inbox, link) /\ Detached(m)
    BY DEF BleInv, TypeOK
  <2>2. (\A k : ~Has(inbox, k)) /\ (\A k, p : ~Told(inbox, k, p)) /\ ~LastWord(inbox)
    BY DEF Has, Told, LastWord
  <2>3. CASE m.dev = 0
    BY <2>1, <2>3 DEF Detached, LateAnswer
  <2>4. CASE m.dev # 0
    <3>1. link # "down"
      BY <2>1, <2>2, <2>4 DEF Attached
    <3>2. link = "resolved" => m.chars = TRUE /\ Settled(m)
      BY <2>1, <2>2, <2>4 DEF Attached
    <3> QED BY <2>1, <2>4, <3>1, <3>2 DEF Settled, Serving
  <2> QED BY <2>3, <2>4
<1> QED BY <1>1, BleInvHolds, PTL

(* It never scans, with no timer running, for a battery that BlueZ already  *)
(* shows: try_find_device comes before every start_discovery, and an object *)
(* added while scanning is connected to at once.                            *)
THEOREM NeverScansPastTargetHolds == Spec => []NeverScansPastTarget
<1>1. BleInv => NeverScansPastTarget
  BY DEF BleInv
<1> QED BY <1>1, BleInvHolds, PTL
=============================================================================
