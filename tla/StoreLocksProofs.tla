--------------------------- MODULE StoreLocksProofs ---------------------------
(***************************************************************************)
(* The order of the mutexes, for any number of threads: what each operation *)
(* does with them, whatever its branches and choices, and why no thread     *)
(* ever waits in a circle.                                                  *)
(***************************************************************************)
EXTENDS StoreLocks, SequenceTheorems, TLAPS

IsProg(p) == \E S : p \in Seq(S)

(* The order in which a deployment takes the mutexes; the bench starts      *)
(* tests, which read the store under the runner's mutex, and the monitor    *)
(* asks the runner from an observer, under the store's.                     *)
Rank(d, m) == CASE m = "db" -> 3
                [] m = "store" -> IF d = "bench" THEN 2 ELSE 1
                [] m = "runner" -> IF d = "bench" THEN 1 ELSE 2

Above(d, held, m) == d = "full" \/ \A k \in held : Rank(d, k) < Rank(d, m)

(* The flags that are ever on.                                              *)
Lit(d) == IF d = "monitor" THEN {} ELSE Flags

(* The first step of program p, run with the mutexes `held`, is in order,   *)
(* and what is left after it is in Q.                                       *)
Goes(d, held, p, Q) ==
  \/ p = <<>> /\ held = {}
  \/ /\ p # <<>>
     /\ \/ /\ Head(p).do = "lock" /\ Head(p).what \in Mutexes /\ Above(d, held, Head(p).what)
           /\ Head(p).what \notin held => <<held \cup {Head(p).what}, Tail(p)>> \in Q
        \/ /\ Head(p).do = "unlock" /\ Head(p).what \in held
           /\ <<held \ {Head(p).what}, Tail(p)>> \in Q
        \/ /\ Head(p).do = "on" /\ Head(p).what \in Lit(d) /\ <<held, Tail(p)>> \in Q
        \/ /\ Head(p).do = "off" /\ Head(p).what \in Flags /\ <<held, Tail(p)>> \in Q
        \/ /\ Head(p).do = "branch" /\ Head(p).what \in Flags
           /\ Head(p).what \in Lit(d) => <<held, Head(p).yes \o Tail(p)>> \in Q
           /\ <<held, Head(p).no \o Tail(p)>> \in Q
        \/ /\ Head(p).do = "choice"
           /\ <<held, Head(p).yes \o Tail(p)>> \in Q
           /\ <<held, Head(p).no \o Tail(p)>> \in Q

Closed(d, Q) == \A x \in Q : IsProg(x[2]) /\ Goes(d, x[1], x[2], Q)

(* Whatever way it goes, p takes the mutexes in order, releases what it     *)
(* holds and nothing else, and ends with none.                              *)
Orderly(d, held, p) == \E Q : <<held, p>> \in Q /\ Closed(d, Q)

(* A part of an operation leaves the mutexes as it found them.              *)
Keeps(d, held, part) ==
  /\ IsProg(part)
  /\ \A p : IsProg(p) /\ Orderly(d, held, p) => Orderly(d, held, part \o p)

-----------------------------------------------------------------------------
(* Programs are sequences: how steps, parts and what follows them join.     *)
LEMMA Joined ==
  ASSUME NEW a, NEW b, IsProg(a), IsProg(b)
  PROVE  /\ \E S : a \in Seq(S) /\ b \in Seq(S)
         /\ IsProg(a \o b)
<1>1. PICK A : a \in Seq(A)
  BY DEF IsProg
<1>2. PICK B : b \in Seq(B)
  BY DEF IsProg
<1>3. a \in Seq(A \cup B)
  <2>1. A \subseteq A \cup B
    OBVIOUS
  <2> QED BY <1>1, <2>1, SeqMonotonic
<1>4. b \in Seq(A \cup B)
  <2>1. B \subseteq A \cup B
    OBVIOUS
  <2> QED BY <1>2, <2>1, SeqMonotonic
<1>5. a \o b \in Seq(A \cup B)
  BY <1>3, <1>4, ConcatProperties
<1> QED BY <1>3, <1>4, <1>5 DEF IsProg

(* Joining is associative.                                                  *)
LEMMA JoinedThree ==
  ASSUME NEW a, NEW b, NEW c, IsProg(a), IsProg(b), IsProg(c)
  PROVE  (a \o b) \o c = a \o (b \o c)
<1>1. PICK A : a \in Seq(A) /\ b \in Seq(A)
  BY Joined
<1>2. PICK C : c \in Seq(C)
  BY DEF IsProg
<1> DEFINE S == A \cup C
<1>3. A \subseteq S /\ C \subseteq S
  OBVIOUS
<1> HIDE DEF S
<1>4. a \in Seq(S)
  BY <1>1, <1>3, SeqMonotonic
<1>5. b \in Seq(S)
  BY <1>1, <1>3, SeqMonotonic
<1>6. c \in Seq(S)
  BY <1>2, <1>3, SeqMonotonic
<1> QED BY <1>4, <1>5, <1>6, ConcatAssociative

(* Nothing to do, before or after.                                          *)
LEMMA JoinedNone ==
  ASSUME NEW a, IsProg(a)
  PROVE  <<>> \o a = a /\ a \o <<>> = a
BY ConcatEmptySeq DEF IsProg

(* The program without a step is one.                                       *)
LEMMA NoneIsProg == IsProg(<<>>)
<1>1. <<>> \in Seq({})
  OBVIOUS
<1> QED BY <1>1 DEF IsProg

(* A step in front of a program.                                            *)
LEMMA JoinedStep ==
  ASSUME NEW x, NEW p, IsProg(p)
  PROVE  /\ IsProg(<<x>>) /\ IsProg(<<x>> \o p)
         /\ <<x>> \o p # <<>> /\ Head(<<x>> \o p) = x /\ Tail(<<x>> \o p) = p
<1>1. <<x>> \in Seq({x}) /\ Len(<<x>>) = 1 /\ <<x>>[1] = x
  OBVIOUS
<1>2. IsProg(<<x>>)
  BY <1>1 DEF IsProg
<1>3. PICK S : <<x>> \in Seq(S) /\ p \in Seq(S)
  BY <1>2, Joined
<1> DEFINE r == <<x>> \o p
<1>4. /\ r \in Seq(S) /\ Len(r) = 1 + Len(p) /\ Len(p) \in Nat
      /\ \A i \in 1..1 + Len(p) : r[i] = IF i <= 1 THEN x ELSE p[i - 1]
  BY <1>1, <1>3, ConcatProperties
<1> HIDE DEF r
<1>5. r # <<>> /\ Head(r) = x
  BY <1>4
<1>6. /\ Tail(r) \in Seq(S) /\ Len(Tail(r)) = Len(p)
      /\ \A i \in 1..Len(Tail(r)) : Tail(r)[i] = r[i + 1]
  BY <1>4, <1>5, HeadTailProperties
<1>7. \A i \in 1..Len(Tail(r)) : Tail(r)[i] = p[i]
  BY <1>4, <1>6
<1>8. Tail(r) = p
  BY <1>3, <1>6, <1>7, SeqEqual
<1> QED BY <1>2, <1>4, <1>5, <1>8 DEF IsProg, r

(* What is left of a program is one.                                        *)
LEMMA TailIsProg ==
  ASSUME NEW p, IsProg(p), p # <<>>
  PROVE  IsProg(Tail(p))
BY HeadTailProperties DEF IsProg

-----------------------------------------------------------------------------
(* Orderly programs, from the end to the beginning.                         *)

(* More continuations do no harm.                                           *)
LEMMA GoesOn ==
  ASSUME NEW d, NEW held, NEW p, NEW Q, NEW R, Goes(d, held, p, Q), Q \subseteq R
  PROVE  Goes(d, held, p, R)
BY DEF Goes

(* A program whose first step leads into a closed set is orderly.           *)
LEMMA OrderlyFrom ==
  ASSUME NEW d, NEW held, NEW p, NEW Q, IsProg(p), Closed(d, Q), Goes(d, held, p, Q)
  PROVE  Orderly(d, held, p)
<1> DEFINE R == Q \cup {<<held, p>>}
<1>1. Q \subseteq R /\ <<held, p>> \in R
  OBVIOUS
<1>2. ASSUME NEW x \in R PROVE IsProg(x[2]) /\ Goes(d, x[1], x[2], R)
  <2>1. CASE x \in Q
    <3>1. IsProg(x[2]) /\ Goes(d, x[1], x[2], Q)
      BY <2>1 DEF Closed
    <3> HIDE DEF R
    <3> QED BY <1>1, <3>1, GoesOn
  <2>2. CASE x = <<held, p>>
    <3>1. x[1] = held /\ x[2] = p
      BY <2>2
    <3>2. Goes(d, held, p, R)
      <4> HIDE DEF R
      <4> QED BY <1>1, GoesOn
    <3> QED BY <3>1, <3>2
  <2> QED BY <2>1, <2>2
<1> HIDE DEF R
<1> QED BY <1>1, <1>2 DEF Orderly, Closed

(* Two orderly programs have a closed set in common.                        *)
LEMMA OrderlyBoth ==
  ASSUME NEW d, NEW g, NEW p, NEW h, NEW q, Orderly(d, g, p), Orderly(d, h, q)
  PROVE  \E Q : Closed(d, Q) /\ <<g, p>> \in Q /\ <<h, q>> \in Q
<1>1. PICK A : <<g, p>> \in A /\ Closed(d, A)
  BY DEF Orderly
<1>2. PICK B : <<h, q>> \in B /\ Closed(d, B)
  BY DEF Orderly
<1> DEFINE Q == A \cup B
<1>3. A \subseteq Q /\ B \subseteq Q
  OBVIOUS
<1>4. ASSUME NEW x \in Q PROVE IsProg(x[2]) /\ Goes(d, x[1], x[2], Q)
  <2>1. CASE x \in A
    <3> HIDE DEF Q
    <3> QED BY <1>1, <1>3, <2>1, GoesOn DEF Closed
  <2>2. CASE x \in B
    <3> HIDE DEF Q
    <3> QED BY <1>2, <1>3, <2>2, GoesOn DEF Closed
  <2> QED BY <2>1, <2>2
<1>5. Closed(d, Q)
  BY <1>4 DEF Closed
<1> QED BY <1>1, <1>2, <1>3, <1>5

(* A thread that has nothing to do and holds nothing is in order.           *)
LEMMA NothingIsOrderly == ASSUME NEW d PROVE Orderly(d, {}, <<>>)
<1>1. Closed(d, {}) /\ Goes(d, {}, <<>>, {})
  BY DEF Closed, Goes
<1> QED BY <1>1, NoneIsProg, OrderlyFrom

(* Asking for a mutex above those that are held.                            *)
LEMMA OrderlyLock ==
  ASSUME NEW d, NEW held, NEW m \in Mutexes, NEW p, IsProg(p), Above(d, held, m),
         m \notin held => Orderly(d, held \cup {m}, p)
  PROVE  Orderly(d, held, Lock(m) \o p)
<1> DEFINE x == [do |-> "lock", what |-> m, yes |-> <<>>, no |-> <<>>]
<1>1. Lock(m) = <<x>> /\ x.do = "lock" /\ x.what = m
  BY DEF Lock
<1> HIDE DEF x
<1> DEFINE r == <<x>> \o p
<1>2. IsProg(r) /\ r # <<>> /\ Head(r) = x /\ Tail(r) = p
  BY JoinedStep
<1> HIDE DEF r
<1>3. \E Q : Closed(d, Q) /\ (m \notin held => <<held \cup {m}, p>> \in Q)
  <2>1. Closed(d, {})
    BY DEF Closed
  <2> QED BY <2>1 DEF Orderly
<1>4. PICK Q : Closed(d, Q) /\ (m \notin held => <<held \cup {m}, p>> \in Q)
  BY <1>3
<1>5. Goes(d, held, r, Q)
  BY <1>1, <1>2, <1>4 DEF Goes
<1>6. Orderly(d, held, r)
  BY <1>2, <1>4, <1>5, OrderlyFrom
<1> QED BY <1>1, <1>6 DEF r

(* Giving back one that is held.                                            *)
LEMMA OrderlyUnlock ==
  ASSUME NEW d, NEW held, NEW m \in held, NEW p, IsProg(p), Orderly(d, held \ {m}, p)
  PROVE  Orderly(d, held, Unlock(m) \o p)
<1> DEFINE x == [do |-> "unlock", what |-> m, yes |-> <<>>, no |-> <<>>]
<1>1. Unlock(m) = <<x>> /\ x.do = "unlock" /\ x.what = m
  BY DEF Unlock
<1> HIDE DEF x
<1> DEFINE r == <<x>> \o p
<1>2. IsProg(r) /\ r # <<>> /\ Head(r) = x /\ Tail(r) = p
  BY JoinedStep
<1> HIDE DEF r
<1>3. PICK Q : <<held \ {m}, p>> \in Q /\ Closed(d, Q)
  BY DEF Orderly
<1>4. Goes(d, held, r, Q)
  BY <1>1, <1>2, <1>3 DEF Goes
<1>5. Orderly(d, held, r)
  BY <1>2, <1>3, <1>4, OrderlyFrom
<1> QED BY <1>1, <1>5 DEF r

(* Changing a flag: on only if the deployment ever has it on.               *)
LEMMA OrderlyTurn ==
  ASSUME NEW d, NEW held, NEW f \in Flags, NEW p, IsProg(p), Orderly(d, held, p)
  PROVE  /\ f \in Lit(d) => Orderly(d, held, TurnOn(f) \o p)
         /\ Orderly(d, held, TurnOff(f) \o p)
<1>1. PICK Q : <<held, p>> \in Q /\ Closed(d, Q)
  BY DEF Orderly
<1>2. ASSUME f \in Lit(d) PROVE Orderly(d, held, TurnOn(f) \o p)
  <2> DEFINE x == [do |-> "on", what |-> f, yes |-> <<>>, no |-> <<>>]
  <2>1. TurnOn(f) = <<x>> /\ x.do = "on" /\ x.what = f
    BY DEF TurnOn
  <2> HIDE DEF x
  <2> DEFINE r == <<x>> \o p
  <2>2. IsProg(r) /\ r # <<>> /\ Head(r) = x /\ Tail(r) = p
    BY JoinedStep
  <2> HIDE DEF r
  <2>3. Goes(d, held, r, Q)
    BY <1>1, <1>2, <2>1, <2>2 DEF Goes
  <2>4. Orderly(d, held, r)
    BY <1>1, <2>2, <2>3, OrderlyFrom
  <2> QED BY <2>1, <2>4 DEF r
<1>3. Orderly(d, held, TurnOff(f) \o p)
  <2> DEFINE x == [do |-> "off", what |-> f, yes |-> <<>>, no |-> <<>>]
  <2>1. TurnOff(f) = <<x>> /\ x.do = "off" /\ x.what = f
    BY DEF TurnOff
  <2> HIDE DEF x
  <2> DEFINE r == <<x>> \o p
  <2>2. IsProg(r) /\ r # <<>> /\ Head(r) = x /\ Tail(r) = p
    BY JoinedStep
  <2> HIDE DEF r
  <2>3. Goes(d, held, r, Q)
    BY <1>1, <2>1, <2>2 DEF Goes
  <2>4. Orderly(d, held, r)
    BY <1>1, <2>2, <2>3, OrderlyFrom
  <2> QED BY <2>1, <2>4 DEF r
<1> QED BY <1>2, <1>3

(* Both ways of a choice.                                                   *)
LEMMA OrderlyChoice ==
  ASSUME NEW d, NEW held, NEW yes, NEW no, NEW p, IsProg(p),
         Orderly(d, held, yes \o p), Orderly(d, held, no \o p)
  PROVE  Orderly(d, held, Choice(yes, no) \o p)
<1> DEFINE x == [do |-> "choice", what |-> "", yes |-> yes, no |-> no]
<1>1. Choice(yes, no) = <<x>> /\ x.do = "choice" /\ x.yes = yes /\ x.no = no
  BY DEF Choice
<1> HIDE DEF x
<1> DEFINE r == <<x>> \o p
<1>2. IsProg(r) /\ r # <<>> /\ Head(r) = x /\ Tail(r) = p
  BY JoinedStep
<1> HIDE DEF r
<1>3. PICK Q : Closed(d, Q) /\ <<held, yes \o p>> \in Q /\ <<held, no \o p>> \in Q
  BY OrderlyBoth
<1>4. Goes(d, held, r, Q)
  BY <1>1, <1>2, <1>3 DEF Goes
<1>5. Orderly(d, held, r)
  BY <1>2, <1>3, <1>4, OrderlyFrom
<1> QED BY <1>1, <1>5 DEF r

(* Both ways of a branch, the first only if the flag is ever on.            *)
LEMMA OrderlyBranch ==
  ASSUME NEW d, NEW held, NEW f \in Flags, NEW yes, NEW no, NEW p, IsProg(p),
         f \in Lit(d) => Orderly(d, held, yes \o p), Orderly(d, held, no \o p)
  PROVE  Orderly(d, held, Branch(f, yes, no) \o p)
<1> DEFINE x == [do |-> "branch", what |-> f, yes |-> yes, no |-> no]
<1>1. Branch(f, yes, no) = <<x>> /\ x.do = "branch" /\ x.what = f /\ x.yes = yes /\ x.no = no
  BY DEF Branch
<1> HIDE DEF x
<1> DEFINE r == <<x>> \o p
<1>2. IsProg(r) /\ r # <<>> /\ Head(r) = x /\ Tail(r) = p
  BY JoinedStep
<1> HIDE DEF r
<1>3. \E Q : /\ Closed(d, Q) /\ <<held, no \o p>> \in Q
             /\ f \in Lit(d) => <<held, yes \o p>> \in Q
  <2>1. CASE f \in Lit(d)
    <3>1. Orderly(d, held, yes \o p)
      BY <2>1
    <3> QED BY <3>1, OrderlyBoth
  <2>2. CASE f \notin Lit(d)
    BY <2>2 DEF Orderly
  <2> QED BY <2>1, <2>2
<1>4. PICK Q : /\ Closed(d, Q) /\ <<held, no \o p>> \in Q
               /\ f \in Lit(d) => <<held, yes \o p>> \in Q
  BY <1>3
<1>5. Goes(d, held, r, Q)
  BY <1>1, <1>2, <1>4 DEF Goes
<1>6. Orderly(d, held, r)
  BY <1>2, <1>4, <1>5, OrderlyFrom
<1> QED BY <1>1, <1>6 DEF r

-----------------------------------------------------------------------------
(* The parts operations are made of.                                        *)

(* No part at all.                                                          *)
LEMMA KeepsNothing == ASSUME NEW d, NEW held PROVE Keeps(d, held, <<>>)
BY NoneIsProg, JoinedNone DEF Keeps

(* One part after another.                                                  *)
LEMMA KeepsJoined ==
  ASSUME NEW d, NEW held, NEW a, NEW b, Keeps(d, held, a), Keeps(d, held, b)
  PROVE  Keeps(d, held, a \o b)
<1>1. IsProg(a) /\ IsProg(b) /\ IsProg(a \o b)
  BY Joined DEF Keeps
<1>2. ASSUME NEW p, IsProg(p), Orderly(d, held, p) PROVE Orderly(d, held, (a \o b) \o p)
  <2>1. Orderly(d, held, b \o p) /\ IsProg(b \o p)
    BY <1>1, <1>2, Joined DEF Keeps
  <2>2. Orderly(d, held, a \o (b \o p))
    BY <2>1 DEF Keeps
  <2>3. (a \o b) \o p = a \o (b \o p)
    BY <1>1, <1>2, JoinedThree
  <2> QED BY <2>2, <2>3
<1> QED BY <1>1, <1>2 DEF Keeps

(* A flag set or cleared.                                                   *)
LEMMA KeepsTurn ==
  ASSUME NEW d, NEW held, NEW f \in Flags
  PROVE  /\ f \in Lit(d) => Keeps(d, held, TurnOn(f))
         /\ Keeps(d, held, TurnOff(f))
<1>1. IsProg(TurnOn(f)) /\ IsProg(TurnOff(f))
  BY JoinedStep, NoneIsProg DEF TurnOn, TurnOff
<1> QED BY <1>1, OrderlyTurn DEF Keeps

(* One part or the other, whatever decides.                                 *)
LEMMA KeepsChoice ==
  ASSUME NEW d, NEW held, NEW yes, NEW no, Keeps(d, held, yes), Keeps(d, held, no)
  PROVE  Keeps(d, held, Choice(yes, no))
<1>1. IsProg(Choice(yes, no))
  BY JoinedStep, NoneIsProg DEF Choice
<1>2. ASSUME NEW p, IsProg(p), Orderly(d, held, p)
      PROVE  Orderly(d, held, Choice(yes, no) \o p)
  BY <1>2, OrderlyChoice DEF Keeps
<1> QED BY <1>1, <1>2 DEF Keeps

(* One part or the other, as a flag says when the program gets there.       *)
LEMMA KeepsBranch ==
  ASSUME NEW d, NEW held, NEW f \in Flags, NEW yes, NEW no,
         f \in Lit(d) => Keeps(d, held, yes), Keeps(d, held, no)
  PROVE  Keeps(d, held, Branch(f, yes, no))
<1>1. IsProg(Branch(f, yes, no))
  BY JoinedStep, NoneIsProg DEF Branch
<1>2. ASSUME NEW p, IsProg(p), Orderly(d, held, p)
      PROVE  Orderly(d, held, Branch(f, yes, no) \o p)
  <2>1. f \in Lit(d) => Orderly(d, held, yes \o p)
    BY <1>2 DEF Keeps
  <2>2. Orderly(d, held, no \o p)
    BY <1>2 DEF Keeps
  <2> QED BY <1>2, <2>1, <2>2, OrderlyBranch
<1> QED BY <1>1, <1>2 DEF Keeps

(* A part under a mutex that comes after those held already.                *)
LEMMA KeepsLocked ==
  ASSUME NEW d, NEW held, NEW m \in Mutexes, NEW body, Above(d, held, m),
         Keeps(d, held \cup {m}, body)
  PROVE  Keeps(d, held, Locked(m, body))
<1>1. IsProg(Lock(m)) /\ IsProg(Unlock(m)) /\ IsProg(body)
  BY JoinedStep, NoneIsProg DEF Lock, Unlock, Keeps
<1>2. IsProg(Lock(m) \o body) /\ IsProg(Locked(m, body))
  BY <1>1, Joined DEF Locked
<1>3. ASSUME NEW p, IsProg(p), Orderly(d, held, p)
      PROVE  Orderly(d, held, Locked(m, body) \o p)
  <2> DEFINE q == Unlock(m) \o p
  <2>1. IsProg(q) /\ IsProg(body \o q)
    BY <1>1, <1>3, Joined
  <2>2. Locked(m, body) \o p = Lock(m) \o (body \o q)
    <3>1. ASSUME NEW u, IsProg(u) PROVE ((Lock(m) \o body) \o u) \o p = (Lock(m) \o body) \o (u \o p)
      BY <1>2, <1>3, <3>1, JoinedThree
    <3>2. Locked(m, body) \o p = (Lock(m) \o body) \o q
      BY <1>1, <3>1 DEF Locked
    <3>3. ASSUME NEW u, IsProg(u) PROVE (u \o body) \o q = u \o (body \o q)
      <4> HIDE DEF q
      <4>1. IsProg(u) /\ IsProg(body) /\ IsProg(q)
        BY <1>1, <2>1, <3>3
      <4> QED BY <4>1, JoinedThree
    <3> QED BY <1>1, <3>2, <3>3
  <2>3. ASSUME m \notin held PROVE Orderly(d, held \cup {m}, body \o q)
    <3>1. (held \cup {m}) \ {m} = held
      BY <2>3
    <3>2. Orderly(d, held \cup {m}, q)
      <4>1. m \in held \cup {m}
        OBVIOUS
      <4> QED BY <1>3, <3>1, <4>1, OrderlyUnlock
    <3> HIDE DEF q
    <3> QED BY <2>1, <3>2 DEF Keeps
  <2> HIDE DEF q
  <2>4. Orderly(d, held, Lock(m) \o (body \o q))
    BY <2>1, <2>3, OrderlyLock
  <2> QED BY <2>2, <2>4
<1> QED BY <1>2, <1>3 DEF Keeps

(* Asking the runner whether a test runs, then doing the one or the other.  *)
LEMMA KeepsIfRunning ==
  ASSUME NEW d, NEW held, NEW yes, NEW no, Above(d, held, "runner"),
         IsProg(yes), "test" \in Lit(d) => Keeps(d, held, yes), Keeps(d, held, no)
  PROVE  Keeps(d, held, IfRunning(yes, no))
<1> DEFINE r == "runner"  U == Unlock("runner")
<1>1. IsProg(Lock(r)) /\ IsProg(U) /\ IsProg(no)
  BY JoinedStep, NoneIsProg DEF Lock, Unlock, Keeps
<1>2. IsProg(U \o yes) /\ IsProg(U \o no)
  BY <1>1, Joined
<1> DEFINE b == Branch("test", U \o yes, U \o no)
<1>3. IsProg(b)
  BY JoinedStep, NoneIsProg DEF Branch
<1>4. IfRunning(yes, no) = Lock(r) \o b /\ IsProg(Lock(r) \o b)
  BY <1>1, <1>3, Joined DEF IfRunning
<1>5. "test" \in Flags /\ r \in Mutexes
  BY DEF Flags, Mutexes
<1>6. ASSUME NEW p, IsProg(p), Orderly(d, held, p)
      PROVE  Orderly(d, held, (Lock(r) \o b) \o p)
  <2>1. (Lock(r) \o b) \o p = Lock(r) \o (b \o p) /\ IsProg(b \o p)
    <3> HIDE DEF b
    <3>1. IsProg(Lock(r)) /\ IsProg(b) /\ IsProg(p)
      BY <1>1, <1>3, <1>6
    <3>2. (Lock(r) \o b) \o p = Lock(r) \o (b \o p)
      BY <3>1, JoinedThree
    <3>3. IsProg(b \o p)
      BY <3>1, Joined
    <3> QED BY <3>2, <3>3
  <2>2. ASSUME r \notin held PROVE Orderly(d, held \cup {r}, b \o p)
    <3>1. (held \cup {r}) \ {r} = held /\ r \in held \cup {r}
      BY <2>2
    <3>2. ASSUME NEW part, Keeps(d, held, part), IsProg(U \o part)
          PROVE  Orderly(d, held \cup {r}, (U \o part) \o p)
      <4>1. IsProg(part) /\ IsProg(part \o p) /\ Orderly(d, held, part \o p)
        BY <1>6, <3>2, Joined DEF Keeps
      <4>2. Orderly(d, held \cup {r}, U \o (part \o p))
        BY <3>1, <4>1, OrderlyUnlock
      <4>3. (U \o part) \o p = U \o (part \o p)
        <5> HIDE DEF U
        <5>1. IsProg(U) /\ IsProg(part) /\ IsProg(p)
          BY <1>1, <1>6, <4>1
        <5> QED BY <5>1, JoinedThree
      <4> QED BY <4>2, <4>3
    <3> HIDE DEF U
    <3>3. Orderly(d, held \cup {r}, (U \o no) \o p)
      BY <1>2, <3>2
    <3>4. "test" \in Lit(d) => Orderly(d, held \cup {r}, (U \o yes) \o p)
      BY <1>2, <3>2
    <3> QED BY <1>5, <1>6, <3>3, <3>4, OrderlyBranch
  <2> HIDE DEF b
  <2>3. Orderly(d, held, Lock(r) \o (b \o p))
    BY <1>5, <2>1, <2>2, OrderlyLock
  <2> QED BY <2>1, <2>3
<1> QED BY <1>4, <1>6 DEF Keeps

-----------------------------------------------------------------------------
(* The operations, each in the places where a deployment runs it.           *)
Known(d) == d \in {"monitor", "bench", "full"}

(* What may be asked for, given what is held.                               *)
LEMMA WhatIsAbove ==
  ASSUME NEW d
  PROVE  /\ \A m : Above(d, {}, m)
         /\ d \in {"bench", "full"} => Above(d, {"runner"}, "store")
         /\ Known(d) => Above(d, {"runner"}, "db") /\ Above(d, {"store"}, "db")
         /\ d \in {"monitor", "full"} => Above(d, {"store"}, "runner")
         /\ d = "full" => \A held, m : Above(d, held, m)
BY DEF Above, Rank, Known

(* latest(), analytics(), tx_events() and the other readers of the store.   *)
LEMMA StoreReadKeeps ==
  ASSUME NEW d, NEW held, Above(d, held, "store")
  PROVE  Keeps(d, held, StoreRead)
BY KeepsLocked, KeepsNothing DEF StoreRead, Mutexes

(* A call of Database.                                                      *)
LEMMA DbCallKeeps ==
  ASSUME NEW d, NEW held, Above(d, held, "db")
  PROVE  Keeps(d, held, DbCall)
BY KeepsLocked, KeepsNothing DEF DbCall, Mutexes

(* A statement that may or may not be run.                                  *)
LEMMA MaybeDbCallKeeps ==
  ASSUME NEW d, NEW held, Above(d, held, "db")
  PROVE  Keeps(d, held, Choice(DbCall, <<>>))
BY DbCallKeeps, KeepsNothing, KeepsChoice

(* finish_test, under the mutex of the runner or, from the telemetry, of    *)
(* the store too.                                                           *)
LEMMA FinishTestKeeps ==
  ASSUME NEW d, NEW held, Above(d, held, "store"), Above(d, held, "db")
  PROVE  Keeps(d, held, FinishTest)
<1>1. Keeps(d, held, TurnOff("test"))
  BY KeepsTurn DEF Flags
<1>2. Keeps(d, held, DbCall) /\ Keeps(d, held, StoreRead)
  BY DbCallKeeps, StoreReadKeeps
<1>3. Keeps(d, held, TurnOff("test") \o DbCall)
  BY <1>1, <1>2, KeepsJoined
<1>4. Keeps(d, held, TurnOff("test") \o DbCall \o StoreRead)
  BY <1>2, <1>3, KeepsJoined
<1>5. Keeps(d, held, TurnOff("test") \o DbCall \o StoreRead \o DbCall)
  BY <1>2, <1>4, KeepsJoined
<1> QED BY <1>2, <1>5, KeepsJoined DEF FinishTest

(* tick() and stop_test().                                                  *)
LEMMA TickKeeps ==
  ASSUME NEW d, NEW held, Above(d, held, "runner"),
         Above(d, held \cup {"runner"}, "store"), Above(d, held \cup {"runner"}, "db")
  PROVE  Keeps(d, held, Tick) /\ Keeps(d, held, StopTest)
<1> DEFINE h == held \cup {"runner"}
<1>1. /\ Keeps(d, h, FinishTest) /\ Keeps(d, h, Choice(DbCall, <<>>)) /\ Keeps(d, h, <<>>)
  BY FinishTestKeeps, MaybeDbCallKeeps, KeepsNothing
<1> HIDE DEF h
<1>2. Keeps(d, h, Choice(FinishTest, Choice(DbCall, <<>>)))
  BY <1>1, KeepsChoice
<1>3. Keeps(d, h, Branch("test", Choice(FinishTest, Choice(DbCall, <<>>)), <<>>))
  BY <1>1, <1>2, KeepsBranch DEF Flags
<1>4. Keeps(d, h, Branch("test", FinishTest, <<>>))
  BY <1>1, KeepsBranch DEF Flags
<1>5. "runner" \in Mutexes
  BY DEF Mutexes
<1>6. Keeps(d, held, Tick)
  BY <1>3, <1>5, KeepsLocked DEF h, Tick
<1>7. Keeps(d, held, StopTest)
  BY <1>4, <1>5, KeepsLocked DEF h, StopTest
<1> QED BY <1>6, <1>7

(* start_test() and a request for it, with nothing held.                    *)
LEMMA StartTestKeeps ==
  ASSUME NEW d, d \in {"bench", "full"}
  PROVE  Keeps(d, {}, StartTest) /\ Keeps(d, {}, TestStart)
<1> DEFINE h == {"runner"}
<1>1. Keeps(d, h, DbCall) /\ Keeps(d, h, StoreRead) /\ Keeps(d, h, <<>>)
  BY WhatIsAbove, DbCallKeeps, StoreReadKeeps, KeepsNothing DEF Known
<1>2. Keeps(d, h, TurnOn("test"))
  BY KeepsTurn DEF Flags, Lit
<1> HIDE DEF h
<1>3. Keeps(d, h, DbCall \o DbCall)
  BY <1>1, KeepsJoined
<1>4. Keeps(d, h, DbCall \o DbCall \o TurnOn("test"))
  BY <1>2, <1>3, KeepsJoined
<1>5. Keeps(d, h, Choice(DbCall \o DbCall \o TurnOn("test"), <<>>))
  BY <1>1, <1>4, KeepsChoice
<1> DEFINE rest == StoreRead \o Choice(DbCall \o DbCall \o TurnOn("test"), <<>>)
<1>6. Keeps(d, h, rest)
  BY <1>1, <1>5, KeepsJoined
<1>7. StartTest = Locked("runner", Branch("test", <<>>, rest))
  BY DEF StartTest
<1> HIDE DEF rest
<1>8. Keeps(d, h, Branch("test", <<>>, rest))
  BY <1>1, <1>6, KeepsBranch DEF Flags
<1>9. "runner" \in Mutexes /\ {} \cup {"runner"} = h /\ Above(d, {}, "runner")
  BY WhatIsAbove DEF Mutexes, h
<1>10. Keeps(d, {}, StartTest)
  BY <1>7, <1>8, <1>9, KeepsLocked
<1>11. Keeps(d, {}, TestStart)
  BY <1>9, <1>10, KeepsIfRunning, KeepsNothing, NoneIsProg DEF TestStart
<1> QED BY <1>10, <1>11

(* check_test_conditions, alone or as an observer of the store.             *)
LEMMA CheckConditionsKeeps ==
  ASSUME NEW d, NEW held, Above(d, held, "db"), "grid" \in Lit(d) => Above(d, held, "store")
  PROVE  Keeps(d, held, CheckConditions)
<1> DEFINE maybe == Choice(DbCall \o TurnOff("grid"), <<>>)
           yes == DbCall \o StoreRead \o StoreRead \o DbCall \o maybe
<1>1. Keeps(d, held, DbCall) /\ Keeps(d, held, TurnOff("grid")) /\ Keeps(d, held, <<>>)
  BY DbCallKeeps, KeepsTurn, KeepsNothing DEF Flags
<1>2. ASSUME "grid" \in Lit(d) PROVE Keeps(d, held, yes)
  <2>1. Keeps(d, held, StoreRead)
    BY <1>2, StoreReadKeeps
  <2>2. Keeps(d, held, DbCall \o TurnOff("grid"))
    BY <1>1, KeepsJoined
  <2>3. Keeps(d, held, maybe)
    BY <1>1, <2>2, KeepsChoice
  <2> HIDE DEF maybe
  <2>4. Keeps(d, held, DbCall \o StoreRead)
    BY <1>1, <2>1, KeepsJoined
  <2>5. Keeps(d, held, DbCall \o StoreRead \o StoreRead)
    BY <2>1, <2>4, KeepsJoined
  <2>6. Keeps(d, held, DbCall \o StoreRead \o StoreRead \o DbCall)
    BY <1>1, <2>5, KeepsJoined
  <2> QED BY <2>3, <2>6, KeepsJoined
<1>3. CheckConditions = DbCall \o Branch("grid", yes, <<>>)
  BY DEF CheckConditions
<1> HIDE DEF yes
<1>4. Keeps(d, held, Branch("grid", yes, <<>>))
  BY <1>1, <1>2, KeepsBranch DEF Flags
<1> QED BY <1>1, <1>3, <1>4, KeepsJoined

(* update() with its two observers, where BLE readings arrive.              *)
LEMMA UpdateKeeps ==
  ASSUME NEW d, d \in {"monitor", "full"}
  PROVE  Keeps(d, {}, Update)
<1> DEFINE h == {"store"}
<1>1. Above(d, h, "db") /\ Above(d, h, "runner") /\ ("grid" \in Lit(d) => Above(d, h, "store"))
  BY WhatIsAbove DEF Known, Lit
<1>2. Keeps(d, h, <<>>) /\ Keeps(d, h, Choice(DbCall, <<>>))
  BY <1>1, KeepsNothing, MaybeDbCallKeeps
<1>3. Keeps(d, h, MaintenanceObserver)
  <2>1. Keeps(d, h, Choice(CheckConditions, <<>>))
    BY <1>1, <1>2, CheckConditionsKeeps, KeepsChoice
  <2> QED BY <1>2, <2>1, KeepsJoined DEF MaintenanceObserver
<1>4. IsProg(StoreRead \o StoreRead \o Tick)
  <2>1. Keeps("full", {}, StoreRead) /\ Keeps("full", {}, Tick)
    BY WhatIsAbove, StoreReadKeeps, TickKeeps
  <2>2. Keeps("full", {}, StoreRead \o StoreRead)
    BY <2>1, KeepsJoined
  <2> QED BY <2>1, <2>2, KeepsJoined DEF Keeps
<1>5. ASSUME d = "full" PROVE Keeps(d, h, StoreRead \o StoreRead \o Tick)
  <2>1. Keeps(d, h, StoreRead) /\ Keeps(d, h, Tick)
    BY <1>5, WhatIsAbove, StoreReadKeeps, TickKeeps
  <2>2. Keeps(d, h, StoreRead \o StoreRead)
    BY <2>1, KeepsJoined
  <2> QED BY <2>1, <2>2, KeepsJoined
<1>6. "test" \in Lit(d) => d = "full"
  BY DEF Lit
<1>7. Keeps(d, h, TelemetryObserver)
  <2> HIDE DEF h
  <2> QED BY <1>1, <1>2, <1>4, <1>5, <1>6, KeepsIfRunning DEF TelemetryObserver
<1> DEFINE body == ChargerView \o Choice(DbCall, <<>>) \o MaintenanceObserver \o TelemetryObserver
<1>8. Keeps(d, h, body)
  <2> HIDE DEF h
  <2>1. Keeps(d, h, ChargerView)
    BY <1>2 DEF ChargerView
  <2>2. Keeps(d, h, ChargerView \o Choice(DbCall, <<>>))
    BY <1>2, <2>1, KeepsJoined
  <2>3. Keeps(d, h, ChargerView \o Choice(DbCall, <<>>) \o MaintenanceObserver)
    BY <1>3, <2>2, KeepsJoined
  <2> QED BY <1>7, <2>3, KeepsJoined
<1>9. Update = Locked("store", body)
  BY DEF Update
<1> HIDE DEF body
<1>10. "store" \in Mutexes /\ {} \cup {"store"} = h /\ Above(d, {}, "store")
  BY WhatIsAbove DEF Mutexes
<1> HIDE DEF h
<1> QED BY <1>8, <1>9, <1>10, KeepsLocked

(* The other operations, which nobody runs with a mutex held.               *)
LEMMA RequestsKeep ==
  ASSUME NEW d, Known(d)
  PROVE  /\ Keeps(d, {}, UpdatePwrgate) /\ Keeps(d, {}, PollPass) /\ Keeps(d, {}, Shutdown)
         /\ Keeps(d, {}, Dashboard) /\ Keeps(d, {}, RelayOn) /\ Keeps(d, {}, Housekeeping)
         /\ Keeps(d, {}, StoreRead)
<1>1. /\ Keeps(d, {}, DbCall) /\ Keeps(d, {}, StoreRead) /\ Keeps(d, {}, <<>>)
      /\ Keeps(d, {}, TurnOff("grid"))
  BY WhatIsAbove, DbCallKeeps, StoreReadKeeps, KeepsNothing, KeepsTurn DEF Flags
<1>2. Keeps(d, {"store"}, DbCall) /\ Keeps(d, {"store"}, Choice(DbCall, <<>>))
  BY WhatIsAbove, DbCallKeeps, MaybeDbCallKeeps
<1>3. "store" \in Mutexes /\ {} \cup {"store"} = {"store"} /\ Above(d, {}, "store")
  BY WhatIsAbove DEF Mutexes
<1>4. Keeps(d, {}, UpdatePwrgate) /\ Keeps(d, {}, Locked("store", DbCall))
  BY <1>2, <1>3, KeepsLocked DEF UpdatePwrgate
<1>5. Keeps(d, {}, Shutdown)
  BY <1>1, <1>4, KeepsJoined DEF Shutdown
<1>6. Keeps(d, {}, StoreRead \o DbCall) /\ Keeps(d, {}, DbCall \o StoreRead)
  BY <1>1, KeepsJoined
<1>7. /\ Keeps(d, {}, Choice(StoreRead \o DbCall, <<>>)) /\ Keeps(d, {}, Choice(StoreRead, <<>>))
      /\ Keeps(d, {}, Choice(DbCall \o StoreRead, <<>>))
  BY <1>1, <1>6, KeepsChoice
<1>8. Keeps(d, {}, PollPass) /\ Keeps(d, {}, Dashboard) /\ Keeps(d, {}, Housekeeping)
  BY <1>1, <1>6, <1>7, KeepsJoined DEF PollPass, Dashboard, Housekeeping
<1>9. Keeps(d, {}, RelayOn)
  <2>1. Keeps(d, {}, DbCall \o TurnOff("grid"))
    BY <1>1, KeepsJoined
  <2>2. Keeps(d, {}, DbCall \o TurnOff("grid") \o StoreRead)
    BY <1>1, <2>1, KeepsJoined
  <2> QED BY <1>1, <2>2, KeepsJoined DEF RelayOn
<1> QED BY <1>1, <1>4, <1>5, <1>8, <1>9

(* The operations that need tests: a relay command, the scheduler.          *)
LEMMA TestsKeep ==
  ASSUME NEW d, d \in {"bench", "full"}
  PROVE  Keeps(d, {}, RelayTest) /\ Keeps(d, {}, Scheduled) /\ Keeps(d, {}, StopTest)
<1>1. /\ Keeps(d, {}, DbCall) /\ Keeps(d, {}, StoreRead) /\ Keeps(d, {}, <<>>)
      /\ Keeps(d, {}, TurnOn("grid")) /\ Keeps(d, {}, StartTest)
  BY WhatIsAbove, DbCallKeeps, StoreReadKeeps, KeepsNothing, KeepsTurn, StartTestKeeps
     DEF Flags, Lit
<1>2. Keeps(d, {}, RelayTest)
  <2>1. Keeps(d, {}, DbCall \o TurnOn("grid"))
    BY <1>1, KeepsJoined
  <2>2. Keeps(d, {}, DbCall \o TurnOn("grid") \o StoreRead)
    BY <1>1, <2>1, KeepsJoined
  <2> QED BY <1>1, <2>2, KeepsJoined DEF RelayTest
<1>3. Keeps(d, {}, Scheduled)
  <2> DEFINE due == Choice(DbCall \o DbCall, Choice(StartTest \o DbCall, <<>>))
  <2>1. Keeps(d, {}, DbCall \o DbCall) /\ Keeps(d, {}, StartTest \o DbCall)
    BY <1>1, KeepsJoined
  <2>2. Keeps(d, {}, Choice(StartTest \o DbCall, <<>>))
    BY <1>1, <2>1, KeepsChoice
  <2>3. Keeps(d, {}, due)
    BY <2>1, <2>2, KeepsChoice
  <2> HIDE DEF due
  <2>4. Keeps(d, {}, DbCall \o StoreRead)
    BY <1>1, KeepsJoined
  <2>5. Keeps(d, {}, DbCall \o StoreRead \o due)
    BY <2>3, <2>4, KeepsJoined
  <2>6. Above(d, {}, "runner")
    BY WhatIsAbove
  <2> QED BY <1>1, <2>5, <2>6, KeepsIfRunning, NoneIsProg DEF Scheduled, due
<1>4. Keeps(d, {}, StopTest)
  <2>1. {} \cup {"runner"} = {"runner"} /\ Above(d, {}, "runner")
        /\ Above(d, {"runner"}, "store") /\ Above(d, {"runner"}, "db")
    BY WhatIsAbove DEF Known
  <2> QED BY <2>1, TickKeeps
<1> QED BY <1>2, <1>3, <1>4

(* Every operation a thread may begin takes the mutexes in order.           *)
LEMMA JobsAreOrderly ==
  ASSUME deployed \in {"monitor", "bench", "full"}, NEW t \in Threads, NEW job \in Jobs(t)
  PROVE  IsProg(job) /\ Orderly(deployed, {}, job)
<1>1. Keeps(deployed, {}, job)
  <2>1. CASE HasBle /\ t = Ble
    <3>1. job \in {Update, StoreRead}
      BY <2>1 DEF Jobs
    <3>2. deployed \in {"monitor", "full"}
      BY <2>1 DEF HasBle
    <3>3. Keeps(deployed, {}, Update) /\ Keeps(deployed, {}, StoreRead)
      BY <3>2, UpdateKeeps, RequestsKeep DEF Known
    <3> QED BY <3>1, <3>3
  <2>2. CASE ~(HasBle /\ t = Ble)
    <3>1. \/ job \in {CheckConditions, Housekeeping, UpdatePwrgate, PollPass, Shutdown, Dashboard, RelayOn}
          \/ HasTests /\ job \in {Scheduled, RelayTest, TestStart, StopTest}
      BY <2>2 DEF Jobs
    <3>2. Keeps(deployed, {}, CheckConditions)
      BY WhatIsAbove, CheckConditionsKeeps
    <3>3. CASE job \in {CheckConditions, Housekeeping, UpdatePwrgate, PollPass, Shutdown, Dashboard, RelayOn}
      BY <3>2, <3>3, RequestsKeep DEF Known
    <3>4. CASE HasTests /\ job \in {Scheduled, RelayTest, TestStart, StopTest}
      BY <3>4, TestsKeep, StartTestKeeps DEF HasTests
    <3> QED BY <3>1, <3>3, <3>4
  <2> QED BY <2>1, <2>2
<1>2. Orderly(deployed, {}, job \o <<>>)
  BY <1>1, NothingIsOrderly, NoneIsProg DEF Keeps
<1> QED BY <1>1, <1>2, JoinedNone DEF Keeps

-----------------------------------------------------------------------------
(* What is left of every operation is orderly, from the mutexes its thread  *)
(* holds on, and no flag is on that the deployment never turns on.          *)
Held(t) == {m \in Mutexes : holder[m] = t}

LocksInv ==
  /\ deployed \in Deployments
  /\ holder \in [Mutexes -> Threads \cup {Nobody}] /\ flag \in [Flags -> BOOLEAN]
  /\ \A f \in Flags : flag[f] => f \in Lit(deployed)
  /\ DOMAIN todo = Threads
  /\ \A t \in Threads : IsProg(todo[t]) /\ Orderly(deployed, Held(t), todo[t])

(* What an orderly program does first, and that what is left is orderly.    *)
LEMMA FirstStep ==
  ASSUME NEW d, NEW held, NEW p, Orderly(d, held, p), p # <<>>
  PROVE  /\ Head(p).do = "lock" =>
              /\ Head(p).what \in Mutexes /\ Above(d, held, Head(p).what)
              /\ Head(p).what \notin held => Orderly(d, held \cup {Head(p).what}, Tail(p))
         /\ Head(p).do = "unlock" =>
              Head(p).what \in held /\ Orderly(d, held \ {Head(p).what}, Tail(p))
         /\ Head(p).do = "on" => Head(p).what \in Lit(d) /\ Orderly(d, held, Tail(p))
         /\ Head(p).do = "off" => Head(p).what \in Flags /\ Orderly(d, held, Tail(p))
         /\ Head(p).do = "branch" =>
              /\ Head(p).what \in Flags
              /\ Head(p).what \in Lit(d) => Orderly(d, held, Head(p).yes \o Tail(p))
              /\ Orderly(d, held, Head(p).no \o Tail(p))
         /\ Head(p).do = "choice" =>
              /\ Orderly(d, held, Head(p).yes \o Tail(p))
              /\ Orderly(d, held, Head(p).no \o Tail(p))
<1>1. PICK Q : <<held, p>> \in Q /\ Closed(d, Q)
  BY DEF Orderly
<1>2. Goes(d, held, p, Q)
  BY <1>1 DEF Closed
<1>3. \A h, q : <<h, q>> \in Q => Orderly(d, h, q)
  BY <1>1 DEF Orderly
<1> DEFINE x == Head(p)  k == Tail(p)
<1>4. \/ /\ x.do = "lock" /\ x.what \in Mutexes /\ Above(d, held, x.what)
         /\ x.what \notin held => <<held \cup {x.what}, k>> \in Q
      \/ x.do = "unlock" /\ x.what \in held /\ <<held \ {x.what}, k>> \in Q
      \/ x.do = "on" /\ x.what \in Lit(d) /\ <<held, k>> \in Q
      \/ x.do = "off" /\ x.what \in Flags /\ <<held, k>> \in Q
      \/ /\ x.do = "branch" /\ x.what \in Flags
         /\ x.what \in Lit(d) => <<held, x.yes \o k>> \in Q
         /\ <<held, x.no \o k>> \in Q
      \/ x.do = "choice" /\ <<held, x.yes \o k>> \in Q /\ <<held, x.no \o k>> \in Q
  BY <1>2 DEF Goes
<1> HIDE DEF x, k
<1>5. /\ x.do = "lock" =>
           /\ x.what \in Mutexes /\ Above(d, held, x.what)
           /\ x.what \notin held => Orderly(d, held \cup {x.what}, k)
      /\ x.do = "unlock" => x.what \in held /\ Orderly(d, held \ {x.what}, k)
      /\ x.do = "on" => x.what \in Lit(d) /\ Orderly(d, held, k)
      /\ x.do = "off" => x.what \in Flags /\ Orderly(d, held, k)
      /\ x.do = "branch" =>
           /\ x.what \in Flags
           /\ x.what \in Lit(d) => Orderly(d, held, x.yes \o k)
           /\ Orderly(d, held, x.no \o k)
      /\ x.do = "choice" => Orderly(d, held, x.yes \o k) /\ Orderly(d, held, x.no \o k)
  BY <1>3, <1>4
<1> QED BY <1>5 DEF x, k

(* Orderly programs are programs, and the one without steps holds nothing.  *)
LEMMA LastStep ==
  ASSUME NEW d, NEW held, NEW p, Orderly(d, held, p)
  PROVE  IsProg(p) /\ (p = <<>> => held = {})
BY DEF Orderly, Closed, Goes

-----------------------------------------------------------------------------
(* The program starts with nothing held and no flag on.                     *)
LEMMA LocksInitInv == ASSUME Init PROVE LocksInv
<1>1. ASSUME NEW t \in Threads PROVE Held(t) = {}
  BY <1>1, LocksAssumption DEF Init, Held, Threads
<1>2. ASSUME NEW t \in Threads PROVE IsProg(todo[t]) /\ Orderly(deployed, Held(t), todo[t])
  BY <1>1, <1>2, NothingIsOrderly, NoneIsProg DEF Init
<1> QED BY <1>2 DEF Init, LocksInv

(* The mutexes do not change hands, nor the flags: thread t goes on.        *)
LEMMA OnlyOne ==
  ASSUME LocksInv, NEW t \in Threads, NEW p, todo' = [todo EXCEPT ![t] = p],
         UNCHANGED <<deployed, holder>>, Orderly(deployed, Held(t), p),
         flag' \in [Flags -> BOOLEAN], \A f \in Flags : flag'[f] => f \in Lit(deployed)
  PROVE  LocksInv'
<1>1. DOMAIN todo = Threads
  BY DEF LocksInv
<1>2. ASSUME NEW u \in Threads
      PROVE  (IsProg(todo[u]) /\ Orderly(deployed, Held(u), todo[u]))'
  <2>1. Held(u)' = Held(u)
    BY DEF Held
  <2>2. CASE u = t
    BY <1>1, <2>1, <2>2, LastStep
  <2>3. CASE u # t
    BY <1>1, <2>1, <2>3 DEF LocksInv
  <2> QED BY <2>2, <2>3
<1> QED BY <1>1, <1>2 DEF LocksInv

(* Each step of a thread leaves the invariant true.                         *)
LEMMA LocksStep == ASSUME LocksInv, [Next]_vars PROVE LocksInv'
<1>0. deployed \in {"monitor", "bench", "full"} /\ DOMAIN todo = Threads /\ Nobody \notin Threads
  BY LocksAssumption DEF LocksInv, Threads
<1>1. ASSUME UNCHANGED vars PROVE LocksInv'
  <2>1. \A t \in Threads : Held(t)' = Held(t)
    BY <1>1 DEF vars, Held
  <2> QED BY <1>1, <2>1 DEF vars, LocksInv
<1>2. ASSUME NEW t \in Threads, NEW job \in Jobs(t), Begin(t, job) PROVE LocksInv'
  <2>1. IsProg(job) /\ Orderly(deployed, {}, job)
    BY <1>0, JobsAreOrderly
  <2>2. todo[t] = <<>> /\ Held(t) = {}
    BY <1>2, LastStep DEF Begin, LocksInv
  <2> QED BY <1>2, <2>1, <2>2, OnlyOne DEF Begin, LocksInv
<1>3. ASSUME NEW t \in Threads, Acquire(t) PROVE LocksInv'
  <2> DEFINE p == todo[t]  m == Head(p).what
  <2>1. p # <<>> /\ Head(p).do = "lock" /\ holder[m] = Nobody
    BY <1>3 DEF Acquire, Runs, Object
  <2>2. Orderly(deployed, Held(t), p) /\ IsProg(p)
    BY DEF LocksInv
  <2>3. m \in Mutexes /\ m \notin Held(t)
    BY <1>0, <2>1, <2>2, FirstStep DEF Held
  <2>4. Orderly(deployed, Held(t) \cup {m}, Tail(p)) /\ <<>> \o Tail(p) = Tail(p)
    BY <2>1, <2>2, <2>3, FirstStep, TailIsProg, JoinedNone
  <2>5. /\ holder' = [holder EXCEPT ![m] = t] /\ todo' = [todo EXCEPT ![t] = Tail(p)]
        /\ UNCHANGED <<deployed, flag>>
    BY <1>3, <2>4 DEF Acquire, GoOn, Object
  <2> HIDE DEF m, p
  <2>6. holder \in [Mutexes -> Threads \cup {Nobody}] /\ holder' \in [Mutexes -> Threads \cup {Nobody}]
    BY <2>3, <2>5 DEF LocksInv
  <2>7. ASSUME NEW u \in Threads
        PROVE  (IsProg(todo[u]) /\ Orderly(deployed, Held(u), todo[u]))'
    <3>1. CASE u = t
      <4>1. Held(u)' = Held(t) \cup {m}
        BY <2>3, <2>5, <2>6, <3>1 DEF Held
      <4>2. todo'[u] = Tail(p)
        BY <1>0, <2>5, <3>1
      <4> QED BY <2>4, <2>5, <4>1, <4>2, LastStep
    <3>2. CASE u # t
      <4>1. Held(u)' = Held(u)
        BY <1>0, <2>1, <2>3, <2>5, <2>6, <3>2 DEF Held, m, p
      <4>2. todo'[u] = todo[u]
        BY <1>0, <2>5, <3>2
      <4> QED BY <2>5, <4>1, <4>2 DEF LocksInv
    <3> QED BY <3>1, <3>2
  <2>8. DOMAIN todo' = Threads
    BY <1>0, <2>5
  <2>9. /\ deployed' \in Deployments /\ flag' \in [Flags -> BOOLEAN]
        /\ \A f \in Flags : flag'[f] => f \in Lit(deployed')
    BY <2>5 DEF LocksInv
  <2> QED BY <2>6, <2>7, <2>8, <2>9 DEF LocksInv
<1>4. ASSUME NEW t \in Threads, Release(t) PROVE LocksInv'
  <2> DEFINE p == todo[t]  m == Head(p).what
  <2>1. p # <<>> /\ Head(p).do = "unlock"
    BY <1>4 DEF Release, Runs
  <2>2. Orderly(deployed, Held(t), p) /\ IsProg(p)
    BY DEF LocksInv
  <2>3. m \in Held(t)
    BY <2>1, <2>2, FirstStep
  <2>4. Orderly(deployed, Held(t) \ {m}, Tail(p)) /\ <<>> \o Tail(p) = Tail(p)
    BY <2>1, <2>2, <2>3, FirstStep, TailIsProg, JoinedNone
  <2>5. /\ holder' = [holder EXCEPT ![m] = Nobody] /\ todo' = [todo EXCEPT ![t] = Tail(p)]
        /\ UNCHANGED <<deployed, flag>>
    BY <1>4, <2>4 DEF Release, GoOn, Object
  <2> HIDE DEF m, p
  <2>6. /\ m \in Mutexes /\ holder[m] = t /\ holder \in [Mutexes -> Threads \cup {Nobody}]
        /\ holder' \in [Mutexes -> Threads \cup {Nobody}]
    BY <2>3, <2>5 DEF LocksInv, Held
  <2>7. ASSUME NEW u \in Threads
        PROVE  (IsProg(todo[u]) /\ Orderly(deployed, Held(u), todo[u]))'
    <3>1. CASE u = t
      <4>1. Held(u)' = Held(t) \ {m}
        BY <1>0, <2>5, <2>6, <3>1 DEF Held
      <4>2. todo'[u] = Tail(p)
        BY <1>0, <2>5, <3>1
      <4> QED BY <2>4, <2>5, <4>1, <4>2, LastStep
    <3>2. CASE u # t
      <4>1. Held(u)' = Held(u)
        BY <1>0, <2>5, <2>6, <3>2 DEF Held
      <4>2. todo'[u] = todo[u]
        BY <1>0, <2>5, <3>2
      <4> QED BY <2>5, <4>1, <4>2 DEF LocksInv
    <3> QED BY <3>1, <3>2
  <2>8. DOMAIN todo' = Threads
    BY <1>0, <2>5
  <2>9. /\ deployed' \in Deployments /\ flag' \in [Flags -> BOOLEAN]
        /\ \A f \in Flags : flag'[f] => f \in Lit(deployed')
    BY <2>5 DEF LocksInv
  <2> QED BY <2>6, <2>7, <2>8, <2>9 DEF LocksInv
<1>5. ASSUME NEW t \in Threads, Turn(t) PROVE LocksInv'
  <2> DEFINE p == todo[t]  f == Head(p).what
  <2>1. p # <<>> /\ (Head(p).do = "on" \/ Head(p).do = "off")
    BY <1>5 DEF Turn, Runs
  <2>2. Orderly(deployed, Held(t), p) /\ IsProg(p)
    BY DEF LocksInv
  <2>3. /\ f \in Flags /\ Orderly(deployed, Held(t), Tail(p)) /\ <<>> \o Tail(p) = Tail(p)
        /\ Head(p).do = "on" => f \in Lit(deployed)
    <3>1. Lit(deployed) \subseteq Flags
      BY DEF Lit
    <3> QED BY <2>1, <2>2, <3>1, FirstStep, TailIsProg, JoinedNone
  <2>4. /\ flag' = [flag EXCEPT ![f] = Runs(t, "on")] /\ todo' = [todo EXCEPT ![t] = Tail(p)]
        /\ UNCHANGED <<deployed, holder>>
    BY <1>5, <2>3 DEF Turn, GoOn, Object
  <2>5. Runs(t, "on") \in BOOLEAN /\ (Runs(t, "on") => f \in Lit(deployed))
    BY <2>3 DEF Runs
  <2> DEFINE b == Runs(t, "on")
  <2> HIDE DEF f, p, b
  <2>6. flag \in [Flags -> BOOLEAN] /\ \A g \in Flags : flag[g] => g \in Lit(deployed)
    BY DEF LocksInv
  <2>7. b \in BOOLEAN /\ (b => f \in Lit(deployed)) /\ flag' = [flag EXCEPT ![f] = b]
    BY <2>4, <2>5 DEF b
  <2>8. flag' \in [Flags -> BOOLEAN]
    BY <2>6, <2>7
  <2>9. \A g \in Flags : flag'[g] => g \in Lit(deployed)
    BY <2>3, <2>6, <2>7
  <2> QED BY <2>3, <2>4, <2>8, <2>9, OnlyOne
<1>6. ASSUME NEW t \in Threads, Decide(t) PROVE LocksInv'
  <2> DEFINE p == todo[t]
  <2>1. Orderly(deployed, Held(t), p) /\ p # <<>> /\ Head(p).do \in {"branch", "choice"}
    BY <1>6 DEF LocksInv, Decide, Runs
  <2>2. PICK q : /\ todo' = [todo EXCEPT ![t] = q] /\ Orderly(deployed, Held(t), q)
                 /\ UNCHANGED <<deployed, holder, flag>>
    <3>1. CASE /\ Runs(t, "branch")
               /\ GoOn(t, IF flag[Object(t)] THEN Head(todo[t]).yes ELSE Head(todo[t]).no)
               /\ UNCHANGED <<deployed, holder, flag>>
      <4>1. /\ Object(t) \in Flags
            /\ Object(t) \in Lit(deployed) => Orderly(deployed, Held(t), Head(p).yes \o Tail(p))
            /\ Orderly(deployed, Held(t), Head(p).no \o Tail(p))
        BY <2>1, <3>1, FirstStep DEF Runs, Object
      <4>2. flag[Object(t)] => Object(t) \in Lit(deployed)
        BY <4>1 DEF LocksInv
      <4>3. CASE flag[Object(t)]
        <5>1. todo' = [todo EXCEPT ![t] = Head(p).yes \o Tail(p)]
          BY <3>1, <4>3 DEF GoOn
        <5> QED BY <3>1, <4>1, <4>2, <4>3, <5>1
      <4>4. CASE ~flag[Object(t)]
        <5>1. todo' = [todo EXCEPT ![t] = Head(p).no \o Tail(p)]
          BY <3>1, <4>4 DEF GoOn
        <5> QED BY <3>1, <4>1, <5>1
      <4> QED BY <4>3, <4>4
    <3>2. CASE /\ Runs(t, "choice")
               /\ GoOn(t, Head(todo[t]).yes) \/ GoOn(t, Head(todo[t]).no)
               /\ UNCHANGED <<deployed, holder, flag>>
      <4>1. /\ Orderly(deployed, Held(t), Head(p).yes \o Tail(p))
            /\ Orderly(deployed, Held(t), Head(p).no \o Tail(p))
        BY <2>1, <3>2, FirstStep DEF Runs
      <4>2. \/ todo' = [todo EXCEPT ![t] = Head(p).yes \o Tail(p)]
            \/ todo' = [todo EXCEPT ![t] = Head(p).no \o Tail(p)]
        BY <3>2 DEF GoOn
      <4> QED BY <3>2, <4>1, <4>2
    <3> QED BY <1>6, <3>1, <3>2 DEF Decide
  <2> HIDE DEF p
  <2> QED BY <2>2, OnlyOne DEF LocksInv
<1> QED BY <1>1, <1>2, <1>3, <1>4, <1>5, <1>6 DEF Next

(* The invariant holds of every execution.                                  *)
LEMMA LocksInvariant == Spec => []LocksInv
<1>1. Init => LocksInv
  BY LocksInitInv
<1>2. LocksInv /\ [Next]_vars => LocksInv'
  BY LocksStep
<1> QED BY <1>1, <1>2, PTL DEF Spec

(* The variables have their types, and a thread between two operations      *)
(* holds no mutex, in every deployment.                                     *)
THEOREM LocksTypes == Spec => []TypeOK
<1>1. ASSUME LocksInv PROVE TypeOK
  <2>1. ASSUME NEW t \in Threads, todo[t] = <<>>, NEW m \in Mutexes PROVE holder[m] # t
    <3>1. Held(t) = {}
      BY <1>1, <2>1, LastStep DEF LocksInv
    <3> QED BY <3>1 DEF Held
  <2> QED BY <1>1, <2>1 DEF LocksInv, TypeOK
<1> QED BY <1>1, LocksInvariant, PTL

(* Who waits asks for a mutex above all those he holds: following who waits *)
(* for whom, four mutexes would be one above the other, and there are three.*)
THEOREM NoWaitCycleHolds ==
  ASSUME "full" \notin Deployments
  PROVE  Spec => []NoWaitCycle
<1>1. ASSUME LocksInv PROVE NoWaitCycle
  <2> SUFFICES ASSUME NEW S \in (SUBSET Threads) \ {{}}, \A t \in S : \E u \in S : WaitsFor(t, u)
               PROVE  FALSE
    BY DEF NoWaitCycle
  <2>0. S # {} /\ S \subseteq Threads
    OBVIOUS
  <2> DEFINE Asked(t) == Object(t)
             R(t) == Rank(deployed, Object(t))
  <2>1. deployed # "full" /\ deployed \in Deployments
    BY <1>1 DEF LocksInv
  <2>2. ASSUME NEW t \in S, NEW u \in S, WaitsFor(t, u), NEW v \in S, WaitsFor(u, v)
        PROVE  R(t) < R(u)
    <3>1. Object(t) \in Held(u)
      <4>1. Orderly(deployed, Held(t), todo[t])
        BY <1>1 DEF LocksInv
      <4>2. Object(t) \in Mutexes
        BY <2>2, <4>1, FirstStep DEF WaitsFor, Runs, Object
      <4> QED BY <2>2, <4>2 DEF WaitsFor, Held
    <3>2. Above(deployed, Held(u), Object(u))
      <4>1. Orderly(deployed, Held(u), todo[u])
        BY <1>1 DEF LocksInv
      <4> QED BY <2>2, <4>1, FirstStep DEF WaitsFor, Runs, Object
    <3> QED BY <2>1, <3>1, <3>2 DEF Above
  <2>3. ASSUME NEW t \in S PROVE R(t) \in 1..3
    <3>1. Orderly(deployed, Held(t), todo[t])
      BY <1>1 DEF LocksInv
    <3>2. Object(t) \in Mutexes
      BY <3>1, FirstStep DEF WaitsFor, Runs, Object
    <3> QED BY <3>2 DEF Rank, Mutexes
  <2>4. PICK t1 \in S, t2 \in S : WaitsFor(t1, t2)
    BY <2>0
  <2>5. PICK t3 \in S : WaitsFor(t2, t3)
    OBVIOUS
  <2>6. PICK t4 \in S : WaitsFor(t3, t4)
    OBVIOUS
  <2>7. PICK t5 \in S : WaitsFor(t4, t5)
    OBVIOUS
  <2> HIDE DEF R
  <2>8. R(t1) < R(t2) /\ R(t2) < R(t3) /\ R(t3) < R(t4)
    BY <2>2, <2>4, <2>5, <2>6, <2>7
  <2> QED BY <2>3, <2>8
<1> QED BY <1>1, LocksInvariant, PTL
=============================================================================
