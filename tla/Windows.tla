------------------------------- MODULE Windows -------------------------------
(***************************************************************************)
(* The bounded lists of the program: deques trimmed from the front, arrays  *)
(* shifted by one, rings overwritten at their head.                         *)
(***************************************************************************)
EXTENDS Naturals, Integers, Sequences, FiniteSets, SequencesExt, FiniteSetsExt, Functions

\* push_back, then pop_front while there are more than n
Trim(s, n) == IF Len(s) > n THEN SubSeq(s, Len(s) - n + 1, Len(s)) ELSE s
Push(s, x, n) == Trim(Append(s, x), n)

\* the newest n, all of them for 0: history(n), tx_events(n), system_events(n)
NewestOf(s, n) == IF n = 0 THEN s ELSE Trim(s, n)

SumSeq(s) ==
  LET sum[n \in 0..Len(s)] == IF n = 0 THEN 0 ELSE sum[n - 1] + s[n] IN sum[Len(s)]
SumOf(s, F(_)) == SumSeq([i \in DOMAIN s |-> F(s[i])])

Abs(x) == IF x < 0 THEN -x ELSE x
Positive(x) == IF x > 0 THEN x ELSE 0
=============================================================================
