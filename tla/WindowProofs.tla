----------------------------- MODULE WindowProofs -----------------------------
(***************************************************************************)
(* What the bounded lists and the sums over them do, for lists of any       *)
(* length: the lemmas that the proofs about the energy books and the rings  *)
(* rest on.  A sum is a recursive function; what it does is proved by       *)
(* induction, for which a set of numbers that is not all of 0..n has a      *)
(* least element missing.                                                   *)
(***************************************************************************)
EXTENDS Windows, SequenceTheorems, NaturalsInduction, WellFoundedInduction, TLAPS

(* A set of natural numbers has a least one.                                *)
LEMMA NatMin == ASSUME NEW T, T \subseteq Nat, T # {} PROVE \E n \in T : \A m \in T : n <= m
<1> DEFINE R == {ss \in Nat \X Nat : ss[1] < ss[2]}
<1>1. IsWellFoundedOn(R, Nat)
  BY NatLessThanWellFounded DEF OpToRel
<1>2. \E n \in T : \A m \in T : ~(<<m, n>> \in R)
  <2> HIDE DEF R
  <2> QED BY <1>1, WFMin
<1>3. \A n, m \in T : ~(<<m, n>> \in R) => n <= m
  OBVIOUS
<1> QED BY <1>2, <1>3

(* Induction, for a set.                                                    *)
LEMMA UpTo ==
  ASSUME NEW n \in Nat, NEW T, 0 \in T, \A k \in Nat : k \in T /\ k < n => k + 1 \in T
  PROVE  \A k \in 0..n : k \in T
<1> DEFINE U == {k \in 0..n : k \notin T}
<1>1. SUFFICES ASSUME U # {} PROVE FALSE
  OBVIOUS
<1>2. PICK m \in U : \A k \in U : m <= k
  <2>1. U \subseteq Nat
    OBVIOUS
  <2> HIDE DEF U
  <2> QED BY <1>1, <2>1, NatMin
<1>3. m - 1 \in Nat /\ m - 1 \notin U /\ m - 1 < n
  BY <1>2
<1>4. m - 1 + 1 \in T
  BY <1>3
<1> QED BY <1>2, <1>4

(* f holds the partial sums of s up to n.                                   *)
Sums(s, n, f) == f = [k \in 0..n |-> IF k = 0 THEN 0 ELSE f[k - 1] + s[k]]

LEMMA SumsExist ==
  ASSUME NEW s
  PROVE  \A n \in Nat : \E f : Sums(s, n, f)
<1> SUFFICES ASSUME NEW N \in Nat PROVE \E f : Sums(s, N, f)
  OBVIOUS
<1> DEFINE T == {k \in 0..N : \E f : Sums(s, k, f)}
<1>1. 0 \in T
  <2>1. Sums(s, 0, [k \in 0..0 |-> 0])
    BY DEF Sums
  <2> QED BY <2>1
<1>2. ASSUME NEW m \in Nat, m \in T, m < N
      PROVE  m + 1 \in T
  <2>1. PICK f : Sums(s, m, f)
    BY <1>2
  <2> DEFINE g == [k \in 0..(m + 1) |-> IF k = m + 1 THEN f[m] + s[m + 1] ELSE f[k]]
  <2>2. Sums(s, m + 1, g)
    <3>1. ASSUME NEW k \in 0..(m + 1)
          PROVE  g[k] = IF k = 0 THEN 0 ELSE g[k - 1] + s[k]
      BY <1>2, <2>1 DEF Sums
    <3> QED BY <3>1 DEF Sums
  <2> HIDE DEF g
  <2>3. \E h : Sums(s, m + 1, h)
    BY <2>2
  <2> QED BY <1>2, <2>3
<1>3. \A k \in 0..N : k \in T
  <2> HIDE DEF T
  <2> QED BY <1>1, <1>2, UpTo
<1> QED BY <1>3

(* SumSeq is the last of its partial sums, which are integers.              *)
LEMMA SumIs ==
  ASSUME NEW s \in Seq(Int), NEW n \in Nat, Len(s) = n
  PROVE  \E f \in [0..n -> Int] :
           /\ f[0] = 0 /\ \A k \in Nat : k < n => f[k + 1] = f[k] + s[k + 1]
           /\ SumSeq(s) = f[n]
<1> DEFINE f == CHOOSE f : f = [k \in 0..Len(s) |-> IF k = 0 THEN 0 ELSE f[k - 1] + s[k]]
<1>1. Sums(s, n, f)
  <2>1. \E g : Sums(s, n, g)
    BY SumsExist
  <2> QED BY <2>1 DEF Sums
<1>2. SumSeq(s) = f[n]
  BY DEF SumSeq
<1> HIDE DEF f
<1>3. ASSUME NEW k \in Nat, k < n
      PROVE  f[k + 1] = f[k] + s[k + 1]
  <2>1. k + 1 \in 0..n /\ k + 1 # 0 /\ k + 1 - 1 = k
    BY <1>3
  <2> QED BY <1>1, <2>1 DEF Sums
<1>4. f[0] = 0
  BY <1>1 DEF Sums
<1>5. \A k \in 0..n : f[k] \in Int
  <2> DEFINE T == {k \in 0..n : f[k] \in Int}
  <2>1. 0 \in T
    BY <1>4
  <2>2. ASSUME NEW k \in Nat, k \in T, k < n
        PROVE  k + 1 \in T
    <3>1. s[k + 1] \in Int
      BY ElementOfSeq, <2>2
    <3> QED BY <1>3, <2>2, <3>1
  <2>3. \A k \in 0..n : k \in T
    <3> HIDE DEF T
    <3> QED BY <2>1, <2>2, UpTo
  <2> QED BY <2>3
<1>6. f \in [0..n -> Int]
  BY <1>1, <1>5 DEF Sums
<1> QED BY <1>2, <1>3, <1>4, <1>6

LEMMA SumEmpty == SumSeq(<<>>) = 0
<1>1. <<>> \in Seq(Int) /\ Len(<<>>) = 0
  OBVIOUS
<1> QED BY <1>1, SumIs

LEMMA SumAppend ==
  ASSUME NEW s \in Seq(Int), NEW x \in Int
  PROVE  SumSeq(Append(s, x)) = SumSeq(s) + x /\ SumSeq(s) \in Int
<1> DEFINE a == Append(s, x)
<1>1. PICK n \in Nat : Len(s) = n
  BY LenProperties
<1>2. /\ a \in Seq(Int) /\ Len(a) = n + 1
      /\ \A i \in 1..n : a[i] = s[i]
      /\ a[n + 1] = x
  BY <1>1, AppendProperties
<1> HIDE DEF a
<1>3. PICK f \in [0..n -> Int] :
           /\ f[0] = 0 /\ \A k \in Nat : k < n => f[k + 1] = f[k] + s[k + 1]
           /\ SumSeq(s) = f[n]
  BY <1>1, SumIs
<1>4. PICK g \in [0..(n + 1) -> Int] :
           /\ g[0] = 0 /\ \A k \in Nat : k < n + 1 => g[k + 1] = g[k] + a[k + 1]
           /\ SumSeq(a) = g[n + 1]
  <2>1. n + 1 \in Nat
    OBVIOUS
  <2> QED BY <1>2, <2>1, SumIs
<1> DEFINE T == {k \in 0..n : f[k] = g[k]}
<1>5. 0 \in T
  BY <1>3, <1>4
<1>6. ASSUME NEW k \in Nat, k \in T, k < n
      PROVE  k + 1 \in T
  BY <1>2, <1>3, <1>4, <1>6
<1>7. n \in T
  <2> HIDE DEF T
  <2>1. \A k \in 0..n : k \in T
    BY <1>5, <1>6, UpTo
  <2> QED BY <2>1
<1>8. g[n + 1] = f[n] + x
  BY <1>2, <1>4, <1>7
<1> QED BY <1>3, <1>4, <1>8 DEF a

LEMMA SumTail ==
  ASSUME NEW s \in Seq(Int), NEW m \in Nat, Len(s) = m + 1
  PROVE  SumSeq(SubSeq(s, 2, m + 1)) = SumSeq(s) - s[1] /\ SubSeq(s, 2, m + 1) \in Seq(Int)
<1> DEFINE t == SubSeq(s, 2, m + 1)
<1>1. \A i \in 1..(m + 1) : s[i] \in Int
  BY ElementOfSeq
<1>2. /\ t \in Seq(Int) /\ Len(t) = m
      /\ \A i \in 1..m : t[i] = s[i + 1]
  <2>1. \A i \in 2..(m + 1) : s[i] \in Int
    BY <1>1
  <2>2. /\ t \in Seq(Int) /\ Len(t) = IF 2 <= m + 1 THEN (m + 1) - 2 + 1 ELSE 0
        /\ \A i \in 1..((m + 1) - 2 + 1) : t[i] = s[2 + i - 1]
    BY <2>1, SubSeqProperties
  <2> QED BY <2>2
<1> HIDE DEF t
<1>3. PICK f \in [0..(m + 1) -> Int] :
           /\ f[0] = 0 /\ \A k \in Nat : k < m + 1 => f[k + 1] = f[k] + s[k + 1]
           /\ SumSeq(s) = f[m + 1]
  <2>1. m + 1 \in Nat
    OBVIOUS
  <2> QED BY <2>1, SumIs
<1>4. PICK g \in [0..m -> Int] :
           /\ g[0] = 0 /\ \A k \in Nat : k < m => g[k + 1] = g[k] + t[k + 1]
           /\ SumSeq(t) = g[m]
  BY <1>2, SumIs
<1> DEFINE T == {k \in 0..m : f[k + 1] = g[k] + s[1]}
<1>5. 0 \in T
  BY <1>1, <1>3, <1>4
<1>6. ASSUME NEW k \in Nat, k \in T, k < m
      PROVE  k + 1 \in T
  <2>1. g[k + 1] = g[k] + t[k + 1]
    BY <1>4, <1>6
  <2>2. t[k + 1] = s[k + 2]
    BY <1>2, <1>6
  <2>3. f[k + 2] = f[k + 1] + s[k + 2]
    BY <1>3, <1>6
  <2>4. f[k + 1] = g[k] + s[1] /\ g[k] \in Int /\ s[k + 2] \in Int /\ s[1] \in Int
    BY <1>1, <1>4, <1>6
  <2> HIDE DEF T
  <2>5. \A u, v, w \in Int : (u + v) + w = (u + w) + v
    OBVIOUS
  <2>6. f[k + 2] = (g[k] + s[1]) + s[k + 2]
    BY <2>3, <2>4
  <2>7. (g[k] + s[1]) + s[k + 2] = (g[k] + s[k + 2]) + s[1]
    BY <2>4, <2>5
  <2>8. f[k + 2] = g[k + 1] + s[1]
    BY <2>1, <2>2, <2>6, <2>7
  <2> QED BY <1>6, <2>8 DEF T
<1>7. m \in T
  <2> HIDE DEF T
  <2>1. \A k \in 0..m : k \in T
    BY <1>5, <1>6, UpTo
  <2> QED BY <2>1
<1>8. f[m + 1] = g[m] + s[1] /\ g[m] \in Int /\ s[1] \in Int
  BY <1>1, <1>4, <1>7
<1>9. SumSeq(t) = SumSeq(s) - s[1]
  BY <1>3, <1>4, <1>8
<1> QED BY <1>2, <1>9 DEF t

LEMMA SumReplace ==
  ASSUME NEW s \in Seq(Int), NEW n \in Nat, Len(s) = n, NEW h \in 1..n, NEW x \in Int
  PROVE  SumSeq([s EXCEPT ![h] = x]) = (SumSeq(s) - s[h]) + x
<1> DEFINE t == [s EXCEPT ![h] = x]
<1>1. \A i \in 1..n : s[i] \in Int
  BY ElementOfSeq
<1>2. /\ t \in Seq(Int) /\ Len(t) = n
      /\ \A i \in 1..n : t[i] = IF i = h THEN x ELSE s[i]
  BY ExceptSeq, LenProperties
<1> HIDE DEF t
<1>3. PICK f \in [0..n -> Int] :
           /\ f[0] = 0 /\ \A k \in Nat : k < n => f[k + 1] = f[k] + s[k + 1]
           /\ SumSeq(s) = f[n]
  BY SumIs
<1>4. PICK g \in [0..n -> Int] :
           /\ g[0] = 0 /\ \A k \in Nat : k < n => g[k + 1] = g[k] + t[k + 1]
           /\ SumSeq(t) = g[n]
  BY <1>2, SumIs
<1> DEFINE T == {k \in 0..n : IF k < h THEN g[k] = f[k] ELSE g[k] = (f[k] - s[h]) + x}
<1>5. 0 \in T
  BY <1>3, <1>4
<1>6. ASSUME NEW k \in Nat, k \in T, k < n
      PROVE  k + 1 \in T
  <2>1. g[k + 1] = g[k] + t[k + 1] /\ f[k + 1] = f[k] + s[k + 1]
    BY <1>3, <1>4, <1>6
  <2>2. f[k] \in Int /\ s[k + 1] \in Int /\ s[h] \in Int
    BY <1>1, <1>3, <1>6
  <2>3. t[k + 1] = IF k + 1 = h THEN x ELSE s[k + 1]
    BY <1>2, <1>6
  <2>4. IF k < h THEN g[k] = f[k] ELSE g[k] = (f[k] - s[h]) + x
    BY <1>6
  <2> HIDE DEF T
  <2>5. CASE k + 1 < h
    <3>1. g[k + 1] = f[k + 1]
      BY <1>6, <2>1, <2>3, <2>4, <2>5
    <3> QED BY <1>6, <2>5, <3>1 DEF T
  <2>6. CASE k + 1 = h
    <3>1. g[k] = f[k] /\ t[k + 1] = x
      BY <1>6, <2>3, <2>4, <2>6
    <3>2. f[k + 1] = f[k] + s[h]
      BY <2>1, <2>6
    <3>3. g[k + 1] = f[k] + x
      BY <2>1, <3>1
    <3>a. \A u, v \in Int : (u + v) - v = u
      OBVIOUS
    <3>b. (f[k] + s[h]) - s[h] = f[k]
      BY <2>2, <3>a, Zenon
    <3>5. g[k + 1] = (f[k + 1] - s[h]) + x
      BY <3>2, <3>3, <3>b, Zenon
    <3> QED BY <1>6, <2>6, <3>5 DEF T
  <2>7. CASE k + 1 > h
    <3>1. g[k + 1] = ((f[k] - s[h]) + x) + s[k + 1]
      BY <1>6, <2>1, <2>3, <2>4, <2>7
    <3>2. f[k + 1] = f[k] + s[k + 1]
      BY <2>1
    <3>3. \A u, v, w \in Int : ((u - v) + x) + w = ((u + w) - v) + x
      OBVIOUS
    <3>4. ((f[k] - s[h]) + x) + s[k + 1] = ((f[k] + s[k + 1]) - s[h]) + x
      BY <2>2, <3>3
    <3>5. g[k + 1] = (f[k + 1] - s[h]) + x
      BY <3>1, <3>2, <3>4
    <3> QED BY <1>6, <2>7, <3>5 DEF T
  <2> QED BY <1>6, <2>5, <2>6, <2>7
<1>7. n \in T
  <2> HIDE DEF T
  <2>1. \A k \in 0..n : k \in T
    BY <1>5, <1>6, UpTo
  <2> QED BY <2>1
<1>8. g[n] = (f[n] - s[h]) + x
  BY <1>7
<1> QED BY <1>3, <1>4, <1>8 DEF t

-----------------------------------------------------------------------------
(* What Push does to a list that is within its limit.                       *)
LEMMA PushKept ==
  ASSUME NEW T, NEW s \in Seq(T), NEW x \in T, NEW limit \in Nat \ {0}, Len(s) <= limit
  PROVE  /\ Push(s, x, limit) \in Seq(T)
         /\ Len(Push(s, x, limit)) = IF Len(s) < limit THEN Len(s) + 1 ELSE limit
         /\ \A i \in 1..Len(Push(s, x, limit)) :
              Push(s, x, limit)[i] =
                IF i = Len(Push(s, x, limit)) THEN x
                ELSE IF Len(s) < limit THEN s[i] ELSE s[i + 1]
<1> DEFINE a == Append(s, x)
<1>1. /\ a \in Seq(T) /\ Len(a) = Len(s) + 1 /\ Len(s) \in Nat
      /\ \A i \in 1..Len(a) : a[i] = IF i = Len(s) + 1 THEN x ELSE s[i]
  BY AppendProperties, LenProperties
<1> HIDE DEF a
<1>2. Push(s, x, limit) = IF Len(a) > limit THEN SubSeq(a, Len(a) - limit + 1, Len(a)) ELSE a
  BY DEF Push, Trim, a
<1>3. CASE Len(s) < limit
  BY <1>1, <1>2, <1>3
<1>4. CASE Len(s) = limit
  <2>1. Push(s, x, limit) = SubSeq(a, 2, Len(a)) /\ Len(a) = limit + 1
    BY <1>1, <1>2, <1>4
  <2>2. /\ SubSeq(a, 2, Len(a)) \in Seq(T) /\ Len(SubSeq(a, 2, Len(a))) = limit
        /\ \A i \in 1..limit : SubSeq(a, 2, Len(a))[i] = a[i + 1]
    BY <1>1, <2>1, SubSeqProperties
  <2> QED BY <1>1, <1>4, <2>1, <2>2
<1> QED BY <1>1, <1>3, <1>4

(* The newest n of a list.                                                  *)
LEMMA TrimSeq ==
  ASSUME NEW S, NEW s \in Seq(S), NEW m \in Nat, Len(s) = m, NEW n \in Nat
  PROVE  /\ Trim(s, n) \in Seq(S) /\ Len(Trim(s, n)) = IF m > n THEN n ELSE m
         /\ \A i \in 1..Len(Trim(s, n)) : Trim(s, n)[i] = IF m > n THEN s[(m - n) + i] ELSE s[i]
<1>1. CASE m > n
  <2> DEFINE t == SubSeq(s, (m - n) + 1, m)
  <2>1. Trim(s, n) = t
    BY <1>1 DEF Trim
  <2>2. \A i \in ((m - n) + 1)..m : s[i] \in S
    BY <1>1, ElementOfSeq
  <2>3. /\ t \in Seq(S)
        /\ Len(t) = IF (m - n) + 1 <= m THEN m - ((m - n) + 1) + 1 ELSE 0
        /\ \A i \in 1..(m - ((m - n) + 1) + 1) : t[i] = s[((m - n) + 1) + i - 1]
    BY <1>1, <2>2, SubSeqProperties
  <2> HIDE DEF t
  <2>4. Len(t) = n /\ t \in Seq(S)
    BY <1>1, <2>3
  <2>5. \A i \in 1..n : t[i] = s[(m - n) + i]
    BY <1>1, <2>3
  <2> QED BY <1>1, <2>1, <2>4, <2>5
<1>2. CASE ~(m > n)
  BY <1>2 DEF Trim
<1> QED BY <1>1, <1>2

(* The newest n of a list with one more are those of the newest n with it.  *)
LEMMA TrimAppend ==
  ASSUME NEW S, NEW s \in Seq(S), NEW x \in S, NEW n \in Nat \ {0}
  PROVE  Trim(Append(s, x), n) = Push(Trim(s, n), x, n)
<1> DEFINE a == Append(s, x)
           t == Trim(s, n)
           p == Push(t, x, n)
           b == Trim(a, n)
<1>1. PICK m \in Nat : Len(s) = m
  BY LenProperties
<1>2. /\ a \in Seq(S) /\ Len(a) = m + 1 /\ \A i \in 1..m : a[i] = s[i]
      /\ a[m + 1] = x
  BY <1>1, AppendProperties
<1> HIDE DEF a
<1>3. /\ t \in Seq(S) /\ Len(t) = IF m > n THEN n ELSE m
      /\ \A i \in 1..Len(t) : t[i] = IF m > n THEN s[(m - n) + i] ELSE s[i]
  BY <1>1, TrimSeq, ZenonT(40)
<1> HIDE DEF t
<1>4. /\ p \in Seq(S) /\ Len(p) = IF Len(t) < n THEN Len(t) + 1 ELSE n
      /\ \A i \in 1..Len(p) : p[i] = IF i = Len(p) THEN x ELSE IF Len(t) < n THEN t[i] ELSE t[i + 1]
  BY <1>3, PushKept
<1> HIDE DEF p
<1>5. m + 1 \in Nat
  OBVIOUS
<1>6. /\ b \in Seq(S) /\ Len(b) = IF m + 1 > n THEN n ELSE m + 1
      /\ \A i \in 1..Len(b) : b[i] = IF m + 1 > n THEN a[((m + 1) - n) + i] ELSE a[i]
  <2>1. a \in Seq(S) /\ Len(a) = m + 1
    BY <1>2
  <2> QED BY <2>1, <1>5, TrimSeq, ZenonT(40)
<1> HIDE DEF b
<1>7. Len(p) = Len(b)
  BY <1>3, <1>4, <1>6
<1>8. ASSUME NEW i \in 1..Len(b)
      PROVE  p[i] = b[i]
  <2>1. CASE m < n
    <3>1. Len(b) = m + 1 /\ b[i] = a[i] /\ Len(t) = m
      BY <1>3, <1>6, <2>1
    <3>2. p[i] = IF i = m + 1 THEN x ELSE t[i]
      BY <1>4, <1>7, <2>1, <3>1
    <3>3. i # m + 1 => t[i] = s[i] /\ a[i] = s[i]
      BY <1>2, <1>3, <2>1, <3>1
    <3> QED BY <1>2, <3>1, <3>2, <3>3
  <2>2. CASE m >= n
    <3>1. Len(b) = n /\ b[i] = a[((m + 1) - n) + i] /\ Len(t) = n
      BY <1>3, <1>6, <2>2
    <3>2. p[i] = IF i = n THEN x ELSE t[i + 1]
      BY <1>4, <1>7, <2>2, <3>1
    <3>3. CASE i = n
      <4>1. ((m + 1) - n) + i = m + 1
        BY <2>2, <3>3
      <4> QED BY <1>2, <3>1, <3>2, <3>3, <4>1
    <3>4. CASE i # n
      <4>1. i \in 1..(n - 1) /\ i + 1 \in 1..n
        BY <3>1, <3>4
      <4>2. t[i + 1] = s[(m - n) + (i + 1)]
        BY <1>3, <2>2, <3>1, <4>1
      <4>3. (m - n) + (i + 1) = ((m + 1) - n) + i /\ (m - n) + (i + 1) \in 1..m
        BY <2>2, <4>1
      <4>4. a[(m - n) + (i + 1)] = s[(m - n) + (i + 1)]
        BY <1>2, <4>3
      <4> QED BY <3>1, <3>2, <3>4, <4>2, <4>3, <4>4
    <3> QED BY <3>3, <3>4
  <2> QED BY <2>1, <2>2
<1>9. p = b
  BY <1>4, <1>6, <1>7, <1>8, SeqEqual
<1> QED BY <1>9 DEF p, b, a, t

(* What Push does to a sum.                                                 *)
LEMMA SumPush ==
  ASSUME NEW s \in Seq(Int), NEW x \in Int, NEW n \in Nat \ {0}, Len(s) <= n
  PROVE  /\ SumSeq(s) \in Int /\ SumSeq(Push(s, x, n)) \in Int
         /\ Len(s) < n => SumSeq(Push(s, x, n)) = SumSeq(s) + x
         /\ Len(s) = n => SumSeq(Push(s, x, n)) = (SumSeq(s) - s[1]) + x
<1> DEFINE a == Append(s, x)
<1>1. PICK m \in Nat : Len(s) = m
  BY LenProperties
<1>2. /\ a \in Seq(Int) /\ Len(a) = m + 1 /\ SumSeq(a) = SumSeq(s) + x /\ SumSeq(s) \in Int
      /\ m > 0 => a[1] = s[1] /\ s[1] \in Int
  <2>1. a \in Seq(Int) /\ Len(a) = m + 1
    BY <1>1, AppendProperties
  <2>2. SumSeq(a) = SumSeq(s) + x /\ SumSeq(s) \in Int
    BY SumAppend
  <2>3. m > 0 => s[1] \in Int
    BY <1>1, ElementOfSeq
  <2>4. m > 0 => a[1] = s[1]
    BY <1>1, AppendProperties
  <2> QED BY <2>1, <2>2, <2>3, <2>4
<1> HIDE DEF a
<1>3. Push(s, x, n) = IF Len(a) > n THEN SubSeq(a, Len(a) - n + 1, Len(a)) ELSE a
  BY DEF Push, Trim, a
<1>4. CASE m < n
  BY <1>1, <1>2, <1>3, <1>4
<1>5. CASE m = n
  <2>1. Push(s, x, n) = SubSeq(a, 2, m + 1)
    BY <1>2, <1>3, <1>5
  <2>2. SumSeq(SubSeq(a, 2, m + 1)) = SumSeq(a) - a[1]
    BY <1>2, SumTail
  <2> QED BY <1>1, <1>2, <1>5, <2>1, <2>2
<1> QED BY <1>1, <1>4, <1>5

(* s with each entry read by F.                                             *)
Mapped(s, F) == [i \in DOMAIN s |-> F[s[i]]]

LEMMA MappedSeq ==
  ASSUME NEW S, NEW F \in [S -> Int], NEW s \in Seq(S)
  PROVE  /\ Mapped(s, F) \in Seq(Int) /\ Len(Mapped(s, F)) = Len(s)
         /\ \A i \in 1..Len(s) : Mapped(s, F)[i] = F[s[i]] /\ s[i] \in S
<1>1. DOMAIN s = 1..Len(s) /\ Len(s) \in Nat /\ \A i \in 1..Len(s) : s[i] \in S
  BY LenProperties, ElementOfSeq
<1>2. Mapped(s, F) \in [1..Len(s) -> Int]
  BY <1>1 DEF Mapped
<1>3. Mapped(s, F) \in Seq(Int) /\ Len(Mapped(s, F)) = Len(s)
  BY <1>1, <1>2
<1> QED BY <1>1, <1>3 DEF Mapped

LEMMA MappedPush ==
  ASSUME NEW S, NEW F \in [S -> Int], NEW s \in Seq(S), NEW x \in S, NEW n \in Nat \ {0}, Len(s) <= n
  PROVE  Mapped(Push(s, x, n), F) = Push(Mapped(s, F), F[x], n)
<1>0. /\ Push(s, x, n) \in Seq(S)
      /\ Len(Push(s, x, n)) = IF Len(s) < n THEN Len(s) + 1 ELSE n
      /\ \A i \in 1..Len(Push(s, x, n)) :
           Push(s, x, n)[i] = IF i = Len(Push(s, x, n)) THEN x
                              ELSE IF Len(s) < n THEN s[i] ELSE s[i + 1]
  BY ONLY PushKept, s \in Seq(S), x \in S, n \in Nat \ {0}, Len(s) <= n
<1> DEFINE p == Push(s, x, n)
           m == Mapped(s, F)
           a == Mapped(p, F)
           y == F[x]
           b == Push(m, y, n)
<1>1. p \in Seq(S) /\ Len(p) = IF Len(s) < n THEN Len(s) + 1 ELSE n
  BY <1>0
<1>2. \A i \in 1..Len(p) :
         p[i] = IF i = Len(p) THEN x ELSE IF Len(s) < n THEN s[i] ELSE s[i + 1]
  BY <1>0
<1> HIDE DEF p
<1>3. /\ m \in Seq(Int) /\ Len(m) = Len(s) /\ Len(s) \in Nat
      /\ \A i \in 1..Len(s) : m[i] = F[s[i]]
  BY MappedSeq, LenProperties
<1>4. /\ a \in Seq(Int) /\ Len(a) = Len(p)
      /\ \A i \in 1..Len(p) : a[i] = F[p[i]] /\ p[i] \in S
  <2> HIDE DEF m, b
  <2> QED BY <1>1, MappedSeq
<1> HIDE DEF m, a
<1>5. F[x] \in Int
  OBVIOUS
<1>6. b \in Seq(Int) /\ Len(b) = IF Len(m) < n THEN Len(m) + 1 ELSE n
  BY <1>3, <1>5, PushKept
<1>7. \A i \in 1..Len(b) :
         b[i] = IF i = Len(b) THEN y ELSE IF Len(m) < n THEN m[i] ELSE m[i + 1]
  <2>1. PICK T : T = Int
    OBVIOUS
  <2>2. m \in Seq(T) /\ y \in T /\ Len(m) <= n
    BY <1>3, <1>5, <2>1
  <2> HIDE DEF y
  <2> QED BY <2>2, PushKept
<1> HIDE DEF b
<1>8. Len(a) = Len(b)
  BY <1>1, <1>3, <1>4, <1>6
<1>9. ASSUME NEW i \in 1..Len(b)
      PROVE  a[i] = b[i]
  <2>1. a[i] = F[p[i]] /\ Len(b) = Len(p)
    BY <1>4, <1>8
  <2>2. CASE i = Len(b)
    BY <1>2, <1>7, <2>1, <2>2 DEF y
  <2>3. CASE i # Len(b) /\ Len(s) < n
    <3>1. p[i] = s[i] /\ b[i] = m[i] /\ i \in 1..Len(s)
      BY <1>1, <1>2, <1>3, <1>7, <2>1, <2>3
    <3> QED BY <1>3, <2>1, <3>1
  <2>4. CASE i # Len(b) /\ Len(s) = n
    <3>1. p[i] = s[i + 1] /\ b[i] = m[i + 1] /\ i + 1 \in 1..Len(s)
      BY <1>1, <1>2, <1>3, <1>7, <2>1, <2>4
    <3> QED BY <1>3, <2>1, <3>1
  <2> QED BY <1>3, <2>2, <2>3, <2>4
<1>10. a = b
  BY <1>4, <1>6, <1>8, <1>9, SeqEqual
<1> QED BY <1>10 DEF a, b, p, m, y

(* The sum of what F reads, when an entry enters a window of n.             *)
LEMMA FieldStep ==
  ASSUME NEW S, NEW F \in [S -> Int], NEW w \in Seq(S), NEW p \in S, NEW n \in Nat \ {0}, Len(w) <= n
  PROVE  /\ SumSeq(Mapped(w, F)) \in Int
         /\ Len(w) < n => SumSeq(Mapped(Push(w, p, n), F)) = SumSeq(Mapped(w, F)) + F[p]
         /\ Len(w) = n =>
              SumSeq(Mapped(Push(w, p, n), F)) = (SumSeq(Mapped(w, F)) - F[w[1]]) + F[p]
<1> DEFINE m == Mapped(w, F)
<1>1. Mapped(Push(w, p, n), F) = Push(m, F[p], n)
  BY MappedPush
<1>2. m \in Seq(Int) /\ Len(m) = Len(w) /\ (Len(w) = n => m[1] = F[w[1]])
  <2>1. /\ m \in Seq(Int) /\ Len(m) = Len(w)
        /\ \A i \in 1..Len(w) : m[i] = F[w[i]] /\ w[i] \in S
    BY MappedSeq
  <2> HIDE DEF m
  <2> QED BY <2>1
<1> HIDE DEF m
<1>3. F[p] \in Int
  OBVIOUS
<1>4. /\ SumSeq(m) \in Int
      /\ Len(m) < n => SumSeq(Push(m, F[p], n)) = SumSeq(m) + F[p]
      /\ Len(m) = n => SumSeq(Push(m, F[p], n)) = (SumSeq(m) - m[1]) + F[p]
  <2>1. Len(m) <= n
    BY <1>2
  <2> QED BY <1>2, <1>3, <2>1, SumPush
<1>5. SumSeq(Mapped(w, F)) \in Int
  BY <1>4 DEF m
<1>6. Len(w) < n => SumSeq(Mapped(Push(w, p, n), F)) = SumSeq(Mapped(w, F)) + F[p]
  BY <1>1, <1>2, <1>4 DEF m
<1>7. Len(w) = n => SumSeq(Mapped(Push(w, p, n), F)) = (SumSeq(Mapped(w, F)) - F[w[1]]) + F[p]
  <2>1. Len(w) = n => SumSeq(Push(m, F[p], n)) = (SumSeq(m) - F[w[1]]) + F[p]
    BY <1>2, <1>4
  <2> QED BY <1>1, <2>1 DEF m
<1> QED BY <1>5, <1>6, <1>7

-----------------------------------------------------------------------------
(* Sums of two rising lists: Chebyshev's inequality.                        *)
LEMMA RisesThrough ==
  ASSUME NEW s \in Seq(Int), NEW n \in Nat, Len(s) = n, \A i \in 1..(n - 1) : s[i + 1] > s[i]
  PROVE  \A j \in 1..n : \A i \in 1..(j - 1) : s[i] < s[j]
<1>1. \A i \in 1..n : s[i] \in Int
  BY ElementOfSeq
<1> DEFINE T == {j \in 0..n : \A i \in 1..(j - 1) : s[i] < s[j]}
<1>2. 0 \in T
  OBVIOUS
<1>3. ASSUME NEW j \in Nat, j \in T, j < n
      PROVE  j + 1 \in T
  <2>1. ASSUME NEW i \in 1..j
        PROVE  s[i] < s[j + 1]
    <3>1. s[j + 1] > s[j] /\ s[j + 1] \in Int /\ s[j] \in Int /\ s[i] \in Int
      BY <1>1, <1>3, <2>1
    <3>2. i = j \/ s[i] < s[j]
      BY <1>3, <2>1
    <3> QED BY <3>1, <3>2
  <2>2. (j + 1) - 1 = j /\ j + 1 \in 0..n
    BY <1>3
  <2> QED BY <2>1, <2>2
<1>4. \A j \in 0..n : j \in T
  <2> HIDE DEF T
  <2> QED BY <1>2, <1>3, UpTo
<1> QED BY <1>4

LEMMA Products ==
  ASSUME NEW a \in Int, NEW b \in Int, NEW x \in Int, NEW y \in Int, a > x, b > y
  PROVE  ((a * b - b * x) - a * y) + x * y > 0
<1>1. (a - x) * (b - y) > 0
  <2>1. \A u, v \in Int : u > 0 /\ v > 0 => u * v > 0
    OBVIOUS
  <2>2. a - x \in Int /\ b - y \in Int /\ a - x > 0 /\ b - y > 0
    OBVIOUS
  <2> QED BY <2>1, <2>2
<1>2. (a - x) * (b - y) = ((a * b - b * x) - a * y) + x * y
  OBVIOUS
<1> QED BY <1>1, <1>2

\* Spread: the sum of (a - x)(b - y) over k pairs with the given sums.
Spread(a, b, k, fx, fy, fxy) == ((k * (a * b) - b * fx) - a * fy) + fxy

LEMMA SpreadMore ==
  ASSUME NEW a \in Int, NEW b \in Int, NEW x \in Int, NEW y \in Int, a > x, b > y,
         NEW k \in Nat, NEW fx \in Int, NEW fy \in Int, NEW fxy \in Int
  PROVE  Spread(a, b, k + 1, fx + x, fy + y, fxy + x * y) > Spread(a, b, k, fx, fy, fxy)
<1>1. ((a * b - b * x) - a * y) + x * y > 0
  BY Products
<1>2. (k + 1) * (a * b) = k * (a * b) + a * b
  OBVIOUS
<1>3. b * (fx + x) = b * fx + b * x /\ a * (fy + y) = a * fy + a * y
  OBVIOUS
<1>4. ASSUME NEW p \in Int, NEW q \in Int, NEW r \in Int, NEW s \in Int, NEW bx \in Int,
             NEW ay \in Int, NEW xy \in Int, NEW ab \in Int, ((ab - bx) - ay) + xy > 0
      PROVE  (((p + ab) - (q + bx)) - (r + ay)) + (s + xy) > ((p - q) - r) + s
  BY <1>4
<1>5. /\ a * b \in Int /\ b * x \in Int /\ a * y \in Int /\ x * y \in Int
      /\ k * (a * b) \in Int /\ b * fx \in Int /\ a * fy \in Int
  OBVIOUS
<1>6. (((k * (a * b) + a * b) - (b * fx + b * x)) - (a * fy + a * y)) + (fxy + x * y)
        > ((k * (a * b) - b * fx) - a * fy) + fxy
  BY <1>1, <1>4, <1>5
<1> QED BY <1>2, <1>3, <1>6 DEF Spread

\* f[k] is the sum of the first k entries of s.
PartialSums(f, s, n) ==
  /\ f[0] = 0 /\ \A k \in 0..n : f[k] \in Int
  /\ \A k \in Nat : k < n => f[k + 1] = f[k] + s[k + 1]
Multiplied(u, s, t, n) == \A i \in 1..n : s[i] \in Int /\ t[i] \in Int /\ u[i] = s[i] * t[i]
Exceeds(a, s, n) == a \in Int /\ \A i \in 1..n : s[i] \in Int /\ s[i] < a

(* One more entry in each of the partial sums.                              *)
LEMMA NextSums ==
  ASSUME NEW n \in Nat, NEW s, NEW t, NEW u, NEW f, NEW g, NEW h, Multiplied(u, s, t, n),
         PartialSums(f, s, n), PartialSums(g, t, n), PartialSums(h, u, n), NEW k \in Nat, k < n
  PROVE  /\ f[k] \in Int /\ g[k] \in Int /\ h[k] \in Int /\ s[k + 1] \in Int /\ t[k + 1] \in Int
         /\ f[k + 1] = f[k] + s[k + 1] /\ g[k + 1] = g[k] + t[k + 1]
         /\ h[k + 1] = h[k] + s[k + 1] * t[k + 1]
<1>1. k \in 0..n /\ k + 1 \in 1..n
  OBVIOUS
<1>2. f[k] \in Int /\ f[k + 1] = f[k] + s[k + 1]
  BY <1>1 DEF PartialSums
<1>3. g[k] \in Int /\ g[k + 1] = g[k] + t[k + 1]
  BY <1>1 DEF PartialSums
<1>4. h[k] \in Int /\ h[k + 1] = h[k] + u[k + 1]
  BY <1>1 DEF PartialSums
<1>5. s[k + 1] \in Int /\ t[k + 1] \in Int /\ u[k + 1] = s[k + 1] * t[k + 1]
  BY <1>1 DEF Multiplied
<1> QED BY <1>2, <1>3, <1>4, <1>5

LEMMA SpreadInt ==
  ASSUME NEW a \in Int, NEW b \in Int, NEW k \in Int, NEW p \in Int, NEW q \in Int, NEW r \in Int
  PROVE  Spread(a, b, k, p, q, r) \in Int
<1>1. \A u, v \in Int : u * v \in Int
  OBVIOUS
<1>2. k * (a * b) \in Int /\ b * p \in Int /\ a * q \in Int
  BY <1>1
<1> QED BY <1>2 DEF Spread

(* A pair above all the pairs summed so far.                                *)
LEMMA NewPair ==
  ASSUME NEW a, NEW b, NEW m \in Nat, NEW s, NEW t, NEW u, NEW f, NEW g, NEW h,
         Multiplied(u, s, t, m), Exceeds(a, s, m), Exceeds(b, t, m),
         PartialSums(f, s, m), PartialSums(g, t, m), PartialSums(h, u, m)
  PROVE  m > 0 => Spread(a, b, m, f[m], g[m], h[m]) > 0
<1> DEFINE D(k) == Spread(a, b, k, f[k], g[k], h[k])
           T == {k \in 0..m : D(k) \in Int /\ D(k) >= 0 /\ (k > 0 => D(k) > 0)}
<1>1. D(0) = 0
  <2>1. f[0] = 0 /\ g[0] = 0 /\ h[0] = 0 /\ a \in Int /\ b \in Int
    BY DEF PartialSums, Exceeds
  <2>2. \A x, y \in Int : Spread(x, y, 0, 0, 0, 0) = 0
    BY DEF Spread
  <2> QED BY <2>1, <2>2
<1>2. ASSUME NEW k \in Nat, k < m
      PROVE  D(k) \in Int /\ D(k + 1) \in Int /\ D(k + 1) > D(k)
  <2> DEFINE x == s[k + 1]
             y == t[k + 1]
  <2>1. /\ f[k] \in Int /\ g[k] \in Int /\ h[k] \in Int /\ x \in Int /\ y \in Int
        /\ f[k + 1] = f[k] + x /\ g[k + 1] = g[k] + y /\ h[k + 1] = h[k] + x * y
    BY <1>2, NextSums
  <2>2. a \in Int /\ b \in Int /\ a > x /\ b > y
    <3>1. k + 1 \in 1..m
      BY <1>2
    <3> QED BY <3>1 DEF Exceeds
  <2> HIDE DEF x, y
  <2>3. Spread(a, b, k + 1, f[k] + x, g[k] + y, h[k] + x * y) > Spread(a, b, k, f[k], g[k], h[k])
    BY <2>1, <2>2, SpreadMore
  <2>4. D(k) \in Int
    <3>1. k \in Int
      OBVIOUS
    <3> QED BY <2>1, <2>2, <3>1, SpreadInt
  <2>5. D(k + 1) \in Int
    <3>1. x * y \in Int
      BY <2>1
    <3>2. f[k + 1] \in Int /\ g[k + 1] \in Int /\ h[k + 1] \in Int /\ k + 1 \in Int
      BY <2>1, <3>1
    <3> QED BY <2>2, <3>2, SpreadInt
  <2>6. D(k + 1) > D(k)
    BY <2>1, <2>3
  <2> HIDE DEF D
  <2> QED BY <2>4, <2>5, <2>6
<1> HIDE DEF D
<1>3. 0 \in T
  BY <1>1
<1>4. ASSUME NEW k \in Nat, k \in T, k < m
      PROVE  k + 1 \in T
  <2>1. D(k) >= 0 /\ k + 1 \in 0..m
    BY <1>4
  <2>2. D(k) \in Int /\ D(k + 1) \in Int /\ D(k + 1) > D(k)
    BY <1>2, <1>4
  <2> QED BY <2>1, <2>2
<1>5. \A k \in 0..m : k \in T
  <2> HIDE DEF T
  <2> QED BY <1>3, <1>4, UpTo
<1>6. m > 0 => D(m) > 0
  BY <1>5
<1> QED BY <1>6 DEF D

(* n times the sum of the products exceeds the product of the sums.         *)
LEMMA SumsOfProducts ==
  ASSUME NEW n \in Nat, n >= 2, NEW s, NEW t, NEW u, NEW f, NEW g, NEW h,
         Multiplied(u, s, t, n),
         \A k \in Nat : k < n => Exceeds(s[k + 1], s, k) /\ Exceeds(t[k + 1], t, k),
         PartialSums(f, s, n), PartialSums(g, t, n), PartialSums(h, u, n)
  PROVE  n * h[n] > f[n] * g[n]
<1> DEFINE G(k) == k * h[k] - f[k] * g[k]
           E(k) == Spread(s[k + 1], t[k + 1], k, f[k], g[k], h[k])
           T == {k \in 0..n : G(k) \in Int /\ G(k) >= 0 /\ (k > 1 => G(k) > 0)}
<1>1. G(0) = 0
  BY DEF PartialSums
<1>2. ASSUME NEW k \in Nat, k < n
      PROVE  E(k) \in Int /\ (k > 0 => E(k) > 0) /\ (k = 0 => E(k) = 0)
  <2>1. /\ f[k] \in Int /\ g[k] \in Int /\ h[k] \in Int /\ s[k + 1] \in Int /\ t[k + 1] \in Int
    BY <1>2, NextSums
  <2>2. E(k) \in Int
    <3>1. k \in Int
      OBVIOUS
    <3> QED BY <2>1, <3>1, SpreadInt
  <2>3. k = 0 => E(k) = 0
    <3>1. f[0] = 0 /\ g[0] = 0 /\ h[0] = 0
      BY DEF PartialSums
    <3>2. \A x, y \in Int : Spread(x, y, 0, 0, 0, 0) = 0
      BY DEF Spread
    <3> QED BY <2>1, <3>1, <3>2
  <2>4. k > 0 => E(k) > 0
    <3>1. Multiplied(u, s, t, k)
      BY <1>2 DEF Multiplied
    <3>2. PartialSums(f, s, k) /\ PartialSums(g, t, k) /\ PartialSums(h, u, k)
      <4>1. \A i \in 0..k : i \in 0..n
        BY <1>2
      <4>2. \A i \in Nat : i < k => i < n
        BY <1>2
      <4> QED BY <4>1, <4>2 DEF PartialSums
    <3>3. Exceeds(s[k + 1], s, k) /\ Exceeds(t[k + 1], t, k)
      BY <1>2
    <3> QED BY <3>1, <3>2, <3>3, NewPair
  <2> HIDE DEF E
  <2> QED BY <2>2, <2>3, <2>4
<1>3. ASSUME NEW k \in Nat, k < n
      PROVE  G(k) \in Int /\ G(k + 1) = G(k) + E(k)
  <2> DEFINE x == s[k + 1]
             y == t[k + 1]
  <2>1. /\ f[k] \in Int /\ g[k] \in Int /\ h[k] \in Int /\ x \in Int /\ y \in Int
        /\ f[k + 1] = f[k] + x /\ g[k + 1] = g[k] + y /\ h[k + 1] = h[k] + x * y
    BY <1>3, NextSums
  <2>3. (k + 1) * (h[k] + x * y) - (f[k] + x) * (g[k] + y)
          = (k * h[k] - f[k] * g[k]) + Spread(x, y, k, f[k], g[k], h[k])
    <3>1. PICK p \in Int, q \in Int, r \in Int, c \in Int, d \in Int :
             p = f[k] /\ q = g[k] /\ r = h[k] /\ c = x /\ d = y
      BY <2>1
    <3>2. (k + 1) * (r + c * d) - (p + c) * (q + d) = (k * r - p * q) + Spread(c, d, k, p, q, r)
      BY DEF Spread
    <3> QED BY <3>1, <3>2
  <2>4. k * h[k] \in Int /\ f[k] * g[k] \in Int
    BY <2>1
  <2>5. G(k) \in Int
    BY <2>4
  <2>6. G(k + 1) = (k + 1) * (h[k] + x * y) - (f[k] + x) * (g[k] + y)
    BY <2>1
  <2> QED BY <2>3, <2>5, <2>6
<1> HIDE DEF G, E
<1>4. 0 \in T
  BY <1>1
<1>5. ASSUME NEW k \in Nat, k \in T, k < n
      PROVE  k + 1 \in T
  <2>1. G(k) >= 0 /\ k + 1 \in 0..n /\ (k + 1 > 1 => k > 0)
    BY <1>5
  <2>2. G(k) \in Int /\ G(k + 1) = G(k) + E(k)
    BY <1>3, <1>5
  <2>3. E(k) \in Int /\ (k > 0 => E(k) > 0) /\ (k = 0 => E(k) = 0)
    BY <1>2, <1>5
  <2> QED BY <2>1, <2>2, <2>3
<1>6. \A k \in 0..n : k \in T
  <2> HIDE DEF T
  <2> QED BY <1>4, <1>5, UpTo
<1>7. n \in T /\ n > 1
  BY <1>6
<1>8. G(n) > 0
  BY <1>7
<1>9. f[n] * g[n] \in Int /\ n * h[n] \in Int
  <2>1. f[n] \in Int /\ g[n] \in Int /\ h[n] \in Int
    BY DEF PartialSums
  <2> QED BY <2>1
<1> QED BY <1>8, <1>9 DEF G

(* Chebyshev's inequality, for two lists that rise.                         *)
LEMMA Chebyshev ==
  ASSUME NEW s \in Seq(Int), NEW t \in Seq(Int), NEW u \in Seq(Int), NEW n \in Nat, n >= 2,
         Len(s) = n, Len(t) = n, Len(u) = n, Multiplied(u, s, t, n),
         \A i \in 1..(n - 1) : s[i + 1] > s[i],
         \A i \in 1..(n - 1) : t[i + 1] > t[i]
  PROVE  n * SumSeq(u) > SumSeq(s) * SumSeq(t)
<1>1. PICK f \in [0..n -> Int] :
           /\ f[0] = 0 /\ \A k \in Nat : k < n => f[k + 1] = f[k] + s[k + 1]
           /\ SumSeq(s) = f[n]
  BY SumIs
<1>2. PICK g \in [0..n -> Int] :
           /\ g[0] = 0 /\ \A k \in Nat : k < n => g[k + 1] = g[k] + t[k + 1]
           /\ SumSeq(t) = g[n]
  BY SumIs
<1>3. PICK h \in [0..n -> Int] :
           /\ h[0] = 0 /\ \A k \in Nat : k < n => h[k + 1] = h[k] + u[k + 1]
           /\ SumSeq(u) = h[n]
  BY SumIs
<1>4. \A j \in 1..n : \A i \in 1..(j - 1) : s[i] < s[j]
  BY RisesThrough
<1>5. \A j \in 1..n : \A i \in 1..(j - 1) : t[i] < t[j]
  BY RisesThrough
<1>6. \A i \in 1..n : s[i] \in Int /\ t[i] \in Int
  BY ElementOfSeq
<1>7. PartialSums(f, s, n) /\ PartialSums(g, t, n) /\ PartialSums(h, u, n)
  BY <1>1, <1>2, <1>3 DEF PartialSums
<1>8. \A k \in Nat : k < n => Exceeds(s[k + 1], s, k) /\ Exceeds(t[k + 1], t, k)
  <2> SUFFICES ASSUME NEW k \in Nat, k < n
               PROVE  Exceeds(s[k + 1], s, k) /\ Exceeds(t[k + 1], t, k)
    OBVIOUS
  <2>1. k + 1 \in 1..n /\ (k + 1) - 1 = k /\ \A i \in 1..k : i \in 1..n
    OBVIOUS
  <2>2. \A i \in 1..k : s[i] < s[k + 1] /\ t[i] < t[k + 1]
    BY <1>4, <1>5, <2>1
  <2> QED BY <1>6, <2>1, <2>2 DEF Exceeds
<1>9. n * h[n] > f[n] * g[n]
  BY <1>7, <1>8, SumsOfProducts
<1> QED BY <1>1, <1>2, <1>3, <1>9
=============================================================================
