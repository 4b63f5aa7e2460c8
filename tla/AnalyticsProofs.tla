--------------------------- MODULE AnalyticsProofs ---------------------------
(***************************************************************************)
(* What is derived from the two streams of readings, for any counts, any    *)
(* windows and any readings: the warnings and the mode are debounced, the   *)
(* anomalies are not repeated, and the forecast that is shown is recent.    *)
(***************************************************************************)
EXTENDS Alerts, Anomalies, Forecast, EnergyMeter, TrendRings, WindowProofs

(* Products and quotients of natural numbers are natural.                   *)
LEMMA NatDiv == ASSUME NEW a \in Nat, NEW d \in Nat \ {0} PROVE a \div d \in Nat
  OBVIOUS
LEMMA NatTimes == ASSUME NEW a \in Nat, NEW b \in Nat PROVE a * b \in Nat
  OBVIOUS

(***** Alerts *****)
\* The last n of s are all in S.
Trailing(s, n, S) ==
  n \in 0..Len(s) /\ \A i \in 1..Len(s) : i > Len(s) - n => s[i] \in S

\* Why a warning is where it is: its counters count the verdicts at the end.
WarningInv(w, s, limit) ==
  /\ w.confirm \in 0..limit /\ w.clear \in 0..(limit - 1) /\ w.shown \in BOOLEAN
  /\ s \in Seq(BOOLEAN) /\ Len(s) <= limit
  /\ Trailing(s, w.confirm, {TRUE}) /\ Trailing(s, w.clear, {FALSE})

Modes == {"idle", "charging", "discharging"}
AlFields == {"rates", "slow", "low", "ema", "warned", "prevV", "plateau", "psu", "mode",
             "confirm", "stage", "efficiency", "mv", "temp", "falling"}

DebounceInv ==
  /\ DOMAIN al = AlFields
  /\ WarningInv(al.slow, said.slow, SlowConfirm)
  /\ WarningInv(al.psu, said.psu, PsuConfirm)
  /\ al.mode \in Modes /\ al.confirm \in 0..(ModeConfirm - 1)
  /\ said.mode \in Seq(Modes) /\ Len(said.mode) <= ModeConfirm
  /\ Trailing(said.mode, al.confirm, Modes \ {al.mode})

-----------------------------------------------------------------------------
(* One more of the same at the end; another one ends the run.               *)
LEMMA TrailingPush ==
  ASSUME NEW T, NEW s \in Seq(T), NEW x \in T, NEW limit \in Nat \ {0}, Len(s) <= limit,
         NEW S, NEW n \in 0..limit, Trailing(s, n, S), x \in S
  PROVE  Trailing(Push(s, x, limit), Bump(n, limit), S)
<1> DEFINE p == Push(s, x, limit)
<1>1. /\ Len(p) = IF Len(s) < limit THEN Len(s) + 1 ELSE limit
      /\ \A i \in 1..Len(p) :
           p[i] = IF i = Len(p) THEN x ELSE IF Len(s) < limit THEN s[i] ELSE s[i + 1]
  <2>1. Len(p) = IF Len(s) < limit THEN Len(s) + 1 ELSE limit
    BY PushKept
  <2>2. ASSUME NEW i \in 1..Len(p)
        PROVE  p[i] = IF i = Len(p) THEN x ELSE IF Len(s) < limit THEN s[i] ELSE s[i + 1]
    BY PushKept
  <2> QED BY <2>1, <2>2
<1>2. Len(s) \in Nat /\ Bump(n, limit) \in 0..limit /\ Bump(n, limit) <= n + 1
      /\ (n < limit => Bump(n, limit) = n + 1)
  BY LenProperties DEF Bump
<1> HIDE DEF p
<1>3. ASSUME NEW i \in 1..Len(p), i > Len(p) - Bump(n, limit)
      PROVE  p[i] \in S
  <2>1. CASE i = Len(p)
    BY <1>1, <2>1
  <2>2. CASE i # Len(p) /\ Len(s) < limit
    BY <1>1, <1>2, <1>3, <2>2 DEF Trailing
  <2>3. CASE i # Len(p) /\ Len(s) = limit
    BY <1>1, <1>2, <1>3, <2>3 DEF Trailing
  <2> QED BY <2>1, <2>2, <2>3, <1>2
<1>4. Bump(n, limit) \in 0..Len(p)
  BY <1>1, <1>2 DEF Trailing
<1> QED BY <1>3, <1>4 DEF Trailing, p

LEMMA TrailingNone ==
  ASSUME NEW T, NEW s \in Seq(T), NEW S
  PROVE  Trailing(s, 0, S)
  BY LenProperties DEF Trailing

LEMMA TrailingAll ==
  ASSUME NEW T, NEW s \in Seq(T), NEW S, NEW n \in Nat, Trailing(s, n, S), Len(s) <= n
  PROVE  Len(s) = n /\ \A i \in DOMAIN s : s[i] \in S
  BY LenProperties DEF Trailing

(* One verdict on a warning.                                                *)
LEMMA WarningStep ==
  ASSUME NEW w, NEW s, NEW limit \in Nat \ {0}, NEW found \in BOOLEAN, WarningInv(w, s, limit)
  PROVE  LET w2 == Debounce(w, found, limit)
             s2 == Push(s, found, limit)
         IN  /\ WarningInv(w2, s2, limit)
             /\ w2.shown # w.shown =>
                  Len(s2) = limit /\ \A i \in DOMAIN s2 : s2[i] = w2.shown
<1> DEFINE w2 == Debounce(w, found, limit)
           s2 == Push(s, found, limit)
<1>1. s2 \in Seq(BOOLEAN) /\ Len(s2) <= limit
  BY PushKept, LenProperties DEF WarningInv
<1>2. CASE found = TRUE
  <2>1. /\ w2.confirm = Bump(w.confirm, limit) /\ w2.clear = 0
        /\ w2.shown = (w.shown \/ w.confirm + 1 >= limit)
    BY <1>2 DEF Debounce
  <2>2. Trailing(s2, w2.confirm, {TRUE}) /\ Trailing(s2, w2.clear, {FALSE})
    BY <1>1, <1>2, <2>1, TrailingPush, TrailingNone DEF WarningInv
  <2>3. w2.confirm \in 0..limit
    BY <2>1 DEF WarningInv, Bump
  <2>4. ASSUME w2.shown # w.shown
        PROVE  Len(s2) = limit /\ \A i \in DOMAIN s2 : s2[i] = w2.shown
    <3>1. w.confirm + 1 >= limit
      <4>1. ~(w.confirm + 1 >= limit) => w2.shown = w.shown
        BY <2>1, Zenon DEF WarningInv
      <4> QED BY <2>4, <4>1
    <3>2. w2.shown = TRUE
      BY <2>1, <3>1, Zenon
    <3>3. w2.confirm = limit
      BY <2>1, <3>1 DEF WarningInv, Bump
    <3>4. Len(s2) = limit /\ \A i \in DOMAIN s2 : s2[i] \in {TRUE}
      BY <1>1, <2>2, <3>3, TrailingAll
    <3> QED BY <3>2, <3>4
  <2> QED BY <1>1, <2>1, <2>2, <2>3, <2>4 DEF WarningInv
<1>3. CASE found = FALSE
  <2>1. /\ w2.confirm = 0
        /\ w2.clear = IF w.shown /\ w.clear + 1 < limit THEN w.clear + 1 ELSE 0
        /\ w2.shown = (w.shown /\ w.clear + 1 < limit)
    BY <1>3 DEF Debounce
  <2>2. /\ Trailing(s2, Bump(w.clear, limit), {FALSE})
        /\ Trailing(s2, 0, {TRUE}) /\ Trailing(s2, 0, {FALSE})
    <3>1. w.clear \in 0..limit
      BY DEF WarningInv
    <3>2. found \in {FALSE}
      BY <1>3
    <3>3. s \in Seq(BOOLEAN) /\ Trailing(s, w.clear, {FALSE}) /\ Len(s) <= limit
      BY DEF WarningInv
    <3>4. Trailing(s2, Bump(w.clear, limit), {FALSE})
      BY <3>1, <3>2, <3>3, TrailingPush
    <3> QED BY <1>1, <3>4, TrailingNone
  <2>3. w2.clear \in 0..(limit - 1) /\ Bump(w.clear, limit) = w.clear + 1
    BY <2>1 DEF WarningInv, Bump
  <2>4. ASSUME w2.shown # w.shown
        PROVE  Len(s2) = limit /\ \A i \in DOMAIN s2 : s2[i] = w2.shown
    <3>1. ~(w.clear + 1 < limit)
      <4>1. w.clear + 1 < limit => w2.shown = w.shown
        BY <2>1, Zenon DEF WarningInv
      <4> QED BY <2>4, <4>1
    <3>2. w2.shown = FALSE
      BY <2>1, <3>1, Zenon
    <3>3. Bump(w.clear, limit) = limit
      BY <2>3, <3>1 DEF WarningInv
    <3>4. Len(s2) = limit /\ \A i \in DOMAIN s2 : s2[i] \in {FALSE}
      BY <1>1, <2>2, <3>3, TrailingAll
    <3> QED BY <3>2, <3>4
  <2>5. Trailing(s2, w2.clear, {FALSE}) /\ w2.shown \in BOOLEAN
    BY <2>1, <2>2, <2>3
  <2> QED BY <1>1, <2>1, <2>2, <2>3, <2>4, <2>5 DEF WarningInv
<1> QED BY <1>2, <1>3

LEMMA QuietKept ==
  ASSUME NEW limit \in Nat \ {0}
  PROVE  WarningInv(Quiet, <<>>, limit)
<1>1. <<>> \in Seq(BOOLEAN) /\ Len(<<>>) = 0
  BY EmptySeq
<1> QED BY <1>1 DEF WarningInv, Quiet, Trailing

-----------------------------------------------------------------------------
(* What compute_extended_analytics does to the warnings and the mode.       *)
LEMMA ExtendedWarnings ==
  ASSUME NEW e, DOMAIN e = AlFields, NEW bat, NEW chg, NEW rate, NEW trend
  PROVE  LET e2 == Extended(e, bat, chg, rate, trend)
             rates == Push(e.rates, rate, 4 * RateWindow)
         IN  /\ DOMAIN e2 = AlFields
             /\ e2.slow = IF ~IsCharging(bat) THEN Quiet
                          ELSE IF Len(rates) >= 3 * RateWindow
                          THEN Debounce(e.slow, Slower(rates), SlowConfirm) ELSE e.slow
             /\ e2.psu = IF ~(chg.valid /\ chg.target > 10) THEN Quiet
                         ELSE Debounce(e.psu, PsuLimited(e, chg, trend = "up"), PsuConfirm)
             /\ e2.mode = IF bat.valid /\ Pending(bat) # e.mode /\ e.confirm + 1 >= ModeConfirm
                          THEN Pending(bat) ELSE e.mode
             /\ e2.confirm = IF bat.valid /\ Pending(bat) # e.mode /\ ~(e.confirm + 1 >= ModeConfirm)
                             THEN e.confirm + 1 ELSE 0
<1> DEFINE rates == Push(e.rates, rate, 4 * RateWindow)
           s == SlowdownStep(e, bat, rate)
           a == AbnormalStep(s, chg)
           p == PsuStep(a, chg, trend = "up")
           f == [p EXCEPT !.falling = trend = "down"]
<1>1. /\ DOMAIN s = AlFields
      /\ s.slow = IF ~IsCharging(bat) THEN Quiet
                  ELSE IF Len(rates) >= 3 * RateWindow
                  THEN Debounce(e.slow, Slower(rates), SlowConfirm) ELSE e.slow
      /\ s.psu = e.psu /\ s.mode = e.mode /\ s.confirm = e.confirm
      /\ s.stage = e.stage /\ s.plateau = e.plateau
  BY DEF SlowdownStep, AlFields
<1>2. /\ DOMAIN a = AlFields
      /\ a.slow = s.slow /\ a.psu = s.psu /\ a.mode = s.mode /\ a.confirm = s.confirm
      /\ a.stage = s.stage /\ a.plateau = s.plateau
  <2> HIDE DEF s
  <2> QED BY <1>1 DEF AbnormalStep, AlFields
<1>3. /\ DOMAIN p = AlFields
      /\ p.slow = a.slow /\ p.mode = a.mode /\ p.confirm = a.confirm
      /\ p.psu = IF ~(chg.valid /\ chg.target > 10) THEN Quiet
                 ELSE Debounce(a.psu, PsuLimited(a, chg, trend = "up"), PsuConfirm)
  <2> HIDE DEF a
  <2> QED BY <1>2 DEF PsuStep, AlFields
<1>4. PsuLimited(a, chg, trend = "up") = PsuLimited(e, chg, trend = "up")
  <2> HIDE DEF a, s
  <2> QED BY <1>1, <1>2 DEF PsuLimited, PlateauAt
<1>5. /\ DOMAIN f = AlFields /\ f.slow = p.slow /\ f.psu = p.psu
      /\ f.mode = p.mode /\ f.confirm = p.confirm
  <2> HIDE DEF p
  <2> QED BY <1>3 DEF AlFields
<1>6. Extended(e, bat, chg, rate, trend) = ModeStep(f, bat)
  BY DEF Extended
<1> HIDE DEF f, p, a, s
<1>7. /\ DOMAIN ModeStep(f, bat) = AlFields
      /\ ModeStep(f, bat).slow = f.slow /\ ModeStep(f, bat).psu = f.psu
      /\ ModeStep(f, bat).mode =
           IF bat.valid /\ Pending(bat) # f.mode /\ f.confirm + 1 >= ModeConfirm
           THEN Pending(bat) ELSE f.mode
      /\ ModeStep(f, bat).confirm =
           IF bat.valid /\ Pending(bat) # f.mode /\ ~(f.confirm + 1 >= ModeConfirm)
           THEN f.confirm + 1 ELSE 0
  BY <1>5 DEF ModeStep, AlFields
<1> QED BY <1>1, <1>2, <1>3, <1>4, <1>5, <1>6, <1>7

(* A call keeps what the verdicts say, and changes the warnings and the     *)
(* mode as the verdicts allow.                                              *)
LEMMA CallDebounced ==
  ASSUME DebounceInv, NEW before, DOMAIN before = AlFields,
         before.slow = al.slow, before.psu = al.psu, before.mode = al.mode,
         before.confirm = al.confirm,
         NEW bat, NEW chg, NEW rate, NEW trend,
         al' = Extended(before, bat, chg, rate, trend),
         said' = Verdicts(before, bat, chg, rate, trend)
  PROVE  /\ DebounceInv'
         /\ al'.slow.shown # al.slow.shown =>
              \/ said'.slow = <<>>
              \/ Len(said'.slow) = SlowConfirm /\ \A i \in DOMAIN said'.slow : said'.slow[i] = al'.slow.shown
         /\ al'.psu.shown # al.psu.shown =>
              \/ said'.psu = <<>>
              \/ Len(said'.psu) = PsuConfirm /\ \A i \in DOMAIN said'.psu : said'.psu[i] = al'.psu.shown
         /\ al'.mode # al.mode =>
              Len(said'.mode) = ModeConfirm
                /\ \A i \in DOMAIN said'.mode : said'.mode[i] # al.mode
<1> DEFINE rates == Push(before.rates, rate, 4 * RateWindow)
<1>c. {ModeConfirm, PsuConfirm, SlowConfirm} \subseteq Nat \ {0}
  BY AlertsAssumption
<1>1. /\ DOMAIN al' = AlFields
      /\ al'.slow = IF ~IsCharging(bat) THEN Quiet
                    ELSE IF Len(rates) >= 3 * RateWindow
                    THEN Debounce(al.slow, Slower(rates), SlowConfirm) ELSE al.slow
      /\ al'.psu = IF ~(chg.valid /\ chg.target > 10) THEN Quiet
                   ELSE Debounce(al.psu, PsuLimited(before, chg, trend = "up"), PsuConfirm)
      /\ al'.mode = IF bat.valid /\ Pending(bat) # al.mode /\ al.confirm + 1 >= ModeConfirm
                    THEN Pending(bat) ELSE al.mode
      /\ al'.confirm = IF bat.valid /\ Pending(bat) # al.mode /\ ~(al.confirm + 1 >= ModeConfirm)
                       THEN al.confirm + 1 ELSE 0
  BY ExtendedWarnings
<1>2. /\ said'.slow = IF ~IsCharging(bat) THEN <<>>
                      ELSE IF Len(rates) >= 3 * RateWindow
                      THEN Push(said.slow, Slower(rates), SlowConfirm) ELSE said.slow
      /\ said'.psu = IF ~(chg.valid /\ chg.target > 10) THEN <<>>
                     ELSE Push(said.psu, PsuLimited(before, chg, trend = "up"), PsuConfirm)
      /\ said'.mode = IF ~bat.valid THEN <<>> ELSE Push(said.mode, Pending(bat), ModeConfirm)
  BY DEF Verdicts
<1>3. /\ WarningInv(al'.slow, said'.slow, SlowConfirm)
      /\ al'.slow.shown # al.slow.shown =>
           \/ said'.slow = <<>>
           \/ Len(said'.slow) = SlowConfirm /\ \A i \in DOMAIN said'.slow : said'.slow[i] = al'.slow.shown
  <2>1. CASE ~IsCharging(bat)
    BY <1>c, <1>1, <1>2, <2>1, QuietKept
  <2>2. CASE IsCharging(bat) /\ ~(Len(rates) >= 3 * RateWindow)
    BY <1>1, <1>2, <2>2 DEF DebounceInv
  <2>3. CASE IsCharging(bat) /\ Len(rates) >= 3 * RateWindow
    <3>1. Slower(rates) \in BOOLEAN
      BY DEF Slower
    <3> QED BY <1>c, <1>1, <1>2, <2>3, <3>1, WarningStep DEF DebounceInv
  <2> QED BY <2>1, <2>2, <2>3
<1>4. /\ WarningInv(al'.psu, said'.psu, PsuConfirm)
      /\ al'.psu.shown # al.psu.shown =>
           \/ said'.psu = <<>>
           \/ Len(said'.psu) = PsuConfirm /\ \A i \in DOMAIN said'.psu : said'.psu[i] = al'.psu.shown
  <2>1. CASE ~(chg.valid /\ chg.target > 10)
    BY <1>c, <1>1, <1>2, <2>1, QuietKept
  <2>2. CASE chg.valid /\ chg.target > 10
    <3>1. PsuLimited(before, chg, trend = "up") \in BOOLEAN
      BY DEF PsuLimited
    <3> QED BY <1>c, <1>1, <1>2, <2>2, <3>1, WarningStep DEF DebounceInv
  <2> QED BY <2>1, <2>2
<1>5. /\ al'.mode \in Modes /\ al'.confirm \in 0..(ModeConfirm - 1)
      /\ said'.mode \in Seq(Modes) /\ Len(said'.mode) <= ModeConfirm
      /\ Trailing(said'.mode, al'.confirm, Modes \ {al'.mode})
      /\ al'.mode # al.mode =>
           Len(said'.mode) = ModeConfirm
             /\ \A i \in DOMAIN said'.mode : said'.mode[i] # al.mode
  <2>1. CASE ~bat.valid
    <3>1. al'.mode = al.mode /\ al'.confirm = 0 /\ said'.mode = <<>>
      BY <1>1, <1>2, <2>1
    <3>2. <<>> \in Seq(Modes) /\ Len(<<>>) = 0
      BY EmptySeq
    <3>3. Trailing(said'.mode, al'.confirm, Modes \ {al'.mode})
      BY <3>1, <3>2, TrailingNone
    <3> QED BY <1>c, <3>1, <3>2, <3>3 DEF DebounceInv
  <2>2. CASE bat.valid
    <3> DEFINE m == Pending(bat)
               t == Push(said.mode, m, ModeConfirm)
    <3>1. m \in Modes
      BY DEF Pending, Modes
    <3>2. t \in Seq(Modes) /\ Len(t) <= ModeConfirm /\ said'.mode = t
      BY <1>c, <1>2, <2>2, <3>1, PushKept, LenProperties DEF DebounceInv
    <3>3. CASE m = al.mode
      <4>1. al'.mode = al.mode /\ al'.confirm = 0
        BY <1>1, <3>3
      <4> QED BY <1>c, <3>2, <4>1, TrailingNone DEF DebounceInv
    <3>4. CASE m # al.mode
      <4>1. Trailing(t, Bump(al.confirm, ModeConfirm), Modes \ {al.mode})
        <5>1. al.confirm \in 0..ModeConfirm /\ m \in Modes \ {al.mode}
          BY <1>c, <3>1, <3>4 DEF DebounceInv
        <5> QED BY <1>c, <3>1, <5>1, TrailingPush DEF DebounceInv
      <4>2. Bump(al.confirm, ModeConfirm) = al.confirm + 1
        BY <1>c DEF DebounceInv, Bump
      <4>3. CASE al.confirm + 1 >= ModeConfirm
        <5>1. al'.mode = m /\ al'.confirm = 0
          BY <1>1, <2>2, <3>4, <4>3
        <5>2. al.confirm + 1 = ModeConfirm
          BY <1>c, <4>3 DEF DebounceInv
        <5>3. Len(t) = ModeConfirm /\ \A i \in DOMAIN t : t[i] \in Modes \ {al.mode}
          BY <1>c, <3>2, <4>1, <4>2, <5>2, TrailingAll
        <5> QED BY <1>c, <3>1, <3>2, <5>1, <5>3, TrailingNone
      <4>4. CASE ~(al.confirm + 1 >= ModeConfirm)
        <5>1. al'.mode = al.mode /\ al'.confirm = al.confirm + 1
          BY <1>1, <2>2, <3>4, <4>4
        <5> QED BY <1>c, <3>2, <4>1, <4>2, <4>4, <5>1 DEF DebounceInv
      <4> QED BY <4>3, <4>4
    <3> QED BY <3>3, <3>4
  <2> QED BY <2>1, <2>2
<1> QED BY <1>1, <1>3, <1>4, <1>5 DEF DebounceInv

(* Nothing has been found yet at the start.                                 *)
LEMMA DebounceStarts == AlertInit => DebounceInv
<1>1. <<>> \in Seq(Modes) /\ Len(<<>>) = 0
  BY EmptySeq
<1>2. Trailing(<<>>, 0, Modes \ {"idle"})
  BY <1>1, TrailingNone
<1>3. {ModeConfirm, PsuConfirm, SlowConfirm} \subseteq Nat \ {0}
  BY AlertsAssumption
<1>4. WarningInv(Quiet, <<>>, SlowConfirm) /\ WarningInv(Quiet, <<>>, PsuConfirm)
  BY <1>3, QuietKept
<1> SUFFICES ASSUME AlertInit PROVE DebounceInv
  OBVIOUS
<1>5. /\ DOMAIN al = AlFields /\ al.slow = Quiet /\ al.psu = Quiet
      /\ al.mode = "idle" /\ al.confirm = 0
      /\ said.slow = <<>> /\ said.psu = <<>> /\ said.mode = <<>>
  <2>1. DOMAIN al = AlFields
    BY DEF AlertInit, AlFields
  <2>2. al.slow = Quiet /\ al.psu = Quiet /\ al.mode = "idle" /\ al.confirm = 0
    BY DEF AlertInit
  <2>3. said.slow = <<>> /\ said.psu = <<>> /\ said.mode = <<>>
    BY DEF AlertInit
  <2> QED BY <2>1, <2>2, <2>3
<1>6. "idle" \in Modes /\ 0 \in 0..(ModeConfirm - 1) /\ Len(<<>>) <= ModeConfirm
  BY <1>1, <1>3 DEF Modes
<1> QED BY <1>1, <1>2, <1>4, <1>5, <1>6 DEF DebounceInv

(* What a call may change of the warnings and the mode.                     *)
Changes ==
  /\ al'.slow.shown # al.slow.shown =>
       \/ said'.slow = <<>>
       \/ Len(said'.slow) = SlowConfirm /\ \A i \in DOMAIN said'.slow : said'.slow[i] = al'.slow.shown
  /\ al'.psu.shown # al.psu.shown =>
       \/ said'.psu = <<>>
       \/ Len(said'.psu) = PsuConfirm /\ \A i \in DOMAIN said'.psu : said'.psu[i] = al'.psu.shown
  /\ al'.mode # al.mode =>
       Len(said'.mode) = ModeConfirm
         /\ \A i \in DOMAIN said'.mode : said'.mode[i] # al.mode

(* A step keeps what the verdicts say, and changes what they allow.         *)
LEMMA DebounceStep ==
  ASSUME DebounceInv, [AlertNext]_alertVars
  PROVE  DebounceInv' /\ Changes
<1>1. CASE UNCHANGED <<al, said>>
  BY <1>1 DEF DebounceInv, Changes
<1>2. ASSUME NEW bat \in AlertBatteries, NEW rate, NEW trend, AlertBattery(bat, rate, trend)
      PROVE  DebounceInv' /\ Changes
  <2> DEFINE before == [al EXCEPT !.mv = bat.mv, !.temp = bat.temp]
  <2>1. /\ DOMAIN before = AlFields /\ before.slow = al.slow /\ before.psu = al.psu
        /\ before.mode = al.mode /\ before.confirm = al.confirm
    BY DEF DebounceInv, AlFields
  <2>2. CASE bat.valid
    <3>1. al' = Extended(before, bat, seen.chg, rate, trend)
          /\ said' = Verdicts(before, bat, seen.chg, rate, trend)
      BY <1>2, <2>2 DEF AlertBattery
    <3> HIDE DEF before
    <3> QED BY <2>1, <3>1, CallDebounced DEF Changes
  <2>3. CASE ~bat.valid
    BY <1>1, <1>2, <2>3 DEF AlertBattery
  <2> QED BY <2>2, <2>3
<1>3. ASSUME NEW r \in AlertChargers, NEW rate, NEW trend, AlertCharger(r, rate, trend)
      PROVE  DebounceInv' /\ Changes
  <2> DEFINE chg == [r EXCEPT !.at = seen.n + 1]
             before == [al EXCEPT !.stage = ChargingStage(chg),
                                  !.efficiency = IF chg.a > 10 /\ chg.v > 20 /\ chg.ps > chg.v
                                                 THEN (100 * chg.v) \div chg.ps ELSE @]
  <2>1. /\ DOMAIN before = AlFields /\ before.slow = al.slow /\ before.psu = al.psu
        /\ before.mode = al.mode /\ before.confirm = al.confirm
    BY DEF DebounceInv, AlFields
  <2>2. CASE chg.valid /\ seen.bat # <<>>
    <3>1. al' = Extended(before, seen.bat[1], chg, rate, trend)
          /\ said' = Verdicts(before, seen.bat[1], chg, rate, trend)
      BY <1>3, <2>2 DEF AlertCharger
    <3> HIDE DEF before, chg
    <3> QED BY <2>1, <3>1, CallDebounced DEF Changes
  <2>3. CASE ~(chg.valid /\ seen.bat # <<>>)
    <3>1. al' = (IF chg.valid THEN before ELSE al) /\ UNCHANGED said
      BY <1>3, <2>3 DEF AlertCharger
    <3>2. /\ DOMAIN al' = AlFields /\ al'.slow = al.slow /\ al'.psu = al.psu
          /\ al'.mode = al.mode /\ al'.confirm = al.confirm
      <4> HIDE DEF before
      <4> QED BY <2>1, <3>1 DEF DebounceInv
    <3> QED BY <3>1, <3>2 DEF DebounceInv, Changes
  <2> QED BY <2>2, <2>3
<1> QED BY <1>1, <1>2, <1>3 DEF AlertNext, alertVars

(* The invariant holds throughout.                                          *)
LEMMA DebounceInvHolds == AlertSpec => []DebounceInv
<1>1. DebounceInv /\ [AlertNext]_alertVars => DebounceInv'
  BY DebounceStep
<1> QED BY <1>1, DebounceStarts, PTL DEF AlertSpec

(* A warning appears after SlowConfirm (PsuConfirm) verdicts in a row that   *)
(* find its condition and goes after as many that do not, or at once when    *)
(* the battery no longer charges (the charger is gone); the mode leaves a    *)
(* value after ModeConfirm calls in a row that differ from it: for any       *)
(* counts and any mixture of the two streams of readings (the debouncing of  *)
(* compute_extended_analytics).                                              *)
THEOREM AlertsAreDebouncedHolds == AlertSpec => AlertsAreDebounced
<1> DEFINE Debounced ==
      /\ al'.slow.shown # al.slow.shown =>
           said'.slow = <<>> \/ Agreed(said'.slow, SlowConfirm, LAMBDA x : x = al'.slow.shown)
      /\ al'.psu.shown # al.psu.shown =>
           said'.psu = <<>> \/ Agreed(said'.psu, PsuConfirm, LAMBDA x : x = al'.psu.shown)
      /\ al'.mode # al.mode => Agreed(said'.mode, ModeConfirm, LAMBDA x : x # al.mode)
<1>1. DebounceInv /\ [AlertNext]_alertVars => [Debounced]_alertVars
  BY DebounceStep DEF Agreed, Changes
<1> QED BY <1>1, DebounceInvHolds, PTL DEF AlertSpec, AlertsAreDebounced

(* What compute_extended_analytics does to the rest: nothing to the figures *)
(* the alerts and the score judge.                                          *)
LEMMA ExtendedRest ==
  ASSUME NEW e, DOMAIN e = AlFields, NEW bat, NEW chg, NEW rate, NEW trend
  PROVE  LET e2 == Extended(e, bat, chg, rate, trend)
         IN  /\ e2.stage = e.stage /\ e2.efficiency = e.efficiency
             /\ e2.mv = e.mv /\ e2.temp = e.temp
             /\ e2.rates = <<>> \/ e2.rates = Push(e.rates, rate, 4 * RateWindow)
             /\ e2.low = e.low \/ e2.low = Bump(e.low, LowConfirm) \/ e2.low = 0
<1> DEFINE s == SlowdownStep(e, bat, rate)
           a == AbnormalStep(s, chg)
           p == PsuStep(a, chg, trend = "up")
           f == [p EXCEPT !.falling = trend = "down"]
           Same(x, y) == /\ DOMAIN x = AlFields /\ x.stage = y.stage /\ x.efficiency = y.efficiency
                         /\ x.mv = y.mv /\ x.temp = y.temp
<1>1. /\ Same(s, e) /\ s.low = e.low
      /\ s.rates = <<>> \/ s.rates = Push(e.rates, rate, 4 * RateWindow)
  BY DEF SlowdownStep, AlFields
<1>2. /\ Same(a, s) /\ a.rates = s.rates
      /\ a.low = s.low \/ a.low = Bump(s.low, LowConfirm) \/ a.low = 0
  <2> HIDE DEF s
  <2> QED BY <1>1 DEF AbnormalStep, AlFields
<1>3. Same(p, a) /\ p.rates = a.rates /\ p.low = a.low
  <2> HIDE DEF a
  <2> QED BY <1>2 DEF PsuStep, AlFields
<1>4. Same(f, p) /\ f.rates = p.rates /\ f.low = p.low
  <2> HIDE DEF p
  <2> QED BY <1>3 DEF AlFields
<1>5. Extended(e, bat, chg, rate, trend) = ModeStep(f, bat)
  BY DEF Extended
<1> HIDE DEF f, p, a, s
<1>6. /\ Same(ModeStep(f, bat), f) /\ ModeStep(f, bat).rates = f.rates
      /\ ModeStep(f, bat).low = f.low
  BY <1>4 DEF ModeStep, AlFields
<1> QED BY <1>1, <1>2, <1>3, <1>4, <1>5, <1>6

ChargeStages == {"", "Idle", "Float", "Absorption", "Bulk"}

(* The figures the alerts and the score judge.                              *)
Figures(e) ==
  /\ e.rates \in Seq({1, 4}) /\ Len(e.rates) <= 4 * RateWindow
  /\ e.stage \in ChargeStages
  /\ e.low \in 0..LowConfirm /\ e.efficiency \in -1..99
  /\ e.mv \in Int /\ e.temp \in Int

(* A call keeps the figures within their bounds.                            *)
LEMMA CallFigures ==
  ASSUME NEW e, DOMAIN e = AlFields, Figures(e), NEW bat, NEW chg, NEW rate \in {1, 4}, NEW trend
  PROVE  Figures(Extended(e, bat, chg, rate, trend))
<1> DEFINE f == Extended(e, bat, chg, rate, trend)
<1>0. RateWindow \in Nat \ {0} /\ LowConfirm \in Nat \ {0} /\ 4 * RateWindow \in Nat \ {0}
  BY AlertsAssumption
<1>1. /\ f.stage = e.stage /\ f.efficiency = e.efficiency /\ f.mv = e.mv /\ f.temp = e.temp
      /\ f.rates = <<>> \/ f.rates = Push(e.rates, rate, 4 * RateWindow)
      /\ f.low = e.low \/ f.low = Bump(e.low, LowConfirm) \/ f.low = 0
  BY ExtendedRest
<1> HIDE DEF f
<1>2. f.rates \in Seq({1, 4}) /\ Len(f.rates) <= 4 * RateWindow
  <2>1. CASE f.rates = <<>>
    BY <1>0, <2>1, EmptySeq
  <2>2. CASE f.rates = Push(e.rates, rate, 4 * RateWindow)
    <3>1. PICK n \in Nat \ {0} : n = 4 * RateWindow
      BY <1>0
    <3> DEFINE R == {1, 4}
    <3>2. e.rates \in Seq(R) /\ Len(e.rates) <= n /\ rate \in R
      BY <3>1 DEF Figures
    <3> HIDE DEF R
    <3>3. /\ Push(e.rates, rate, n) \in Seq(R)
          /\ Len(Push(e.rates, rate, n)) = IF Len(e.rates) < n THEN Len(e.rates) + 1 ELSE n
      <4>1. \A T : \A t \in Seq(T), x \in T : Len(t) <= n =>
              /\ Push(t, x, n) \in Seq(T)
              /\ Len(Push(t, x, n)) = IF Len(t) < n THEN Len(t) + 1 ELSE n
        BY ONLY n \in Nat \ {0}, PushKept
      <4>2. \A t \in Seq(R), x \in R : Len(t) <= n =>
              /\ Push(t, x, n) \in Seq(R)
              /\ Len(Push(t, x, n)) = IF Len(t) < n THEN Len(t) + 1 ELSE n
        BY <4>1, Zenon
      <4> QED BY <3>2, <4>2, Zenon
    <3>4. Len(e.rates) \in Nat
      BY <3>2, LenProperties
    <3>5. Push(e.rates, rate, n) \in Seq({1, 4})
      BY <3>3 DEF R
    <3> QED BY <2>2, <3>1, <3>3, <3>4, <3>5
  <2> QED BY <1>1, <2>1, <2>2
<1>3. f.low \in 0..LowConfirm
  BY <1>0, <1>1 DEF Figures, Bump
<1>4. Figures(f)
  BY <1>1, <1>2, <1>3 DEF Figures
<1> QED BY <1>4 DEF f

(* A power that is less than that taken from the supply is under 100 %.     *)
LEMMA Efficiency ==
  ASSUME NEW v \in Int, NEW ps \in Int, v > 20, ps > v
  PROVE  (100 * v) \div ps \in -1..99
<1> DEFINE q == (100 * v) \div ps
<1>1. q \in Int /\ ps * q <= 100 * v /\ 100 * v < ps * q + ps
  OBVIOUS
<1> HIDE DEF q
<1>2. ps * q \in Int
  BY <1>1
<1>3. ~(q >= 100)
  <2> SUFFICES ASSUME q >= 100 PROVE FALSE
    OBVIOUS
  <2>1. ps * (q - 100) \in Nat
    BY <1>1, NatTimes
  <2>2. ps * (q - 100) = ps * q - ps * 100
    BY <1>1
  <2> QED BY <1>1, <1>2, <2>1, <2>2
<1>4. ~(q < 0)
  <2> SUFFICES ASSUME q < 0 PROVE FALSE
    OBVIOUS
  <2>1. ps * (0 - q - 1) \in Nat
    BY <1>1, NatTimes
  <2>2. ps * (0 - q - 1) = 0 - ps * q - ps
    BY <1>1
  <2> QED BY <1>1, <1>2, <2>1, <2>2
<1>5. q \in -1..99
  BY <1>1, <1>3, <1>4
<1> QED BY <1>5 DEF q

(* Whatever is read, the score stays between 0 and 100, and an alert about  *)
(* cells, temperature or efficiency costs points in it, although the two    *)
(* judge by thresholds of their own (health_alerts, HealthScorer::compute). *)
THEOREM AlertTypes == AlertSpec => []AlertTypeOK
<1>1. AlertInit => Figures(al)
  <2>1. <<>> \in Seq({1, 4}) /\ Len(<<>>) = 0
    BY EmptySeq
  <2> SUFFICES ASSUME AlertInit PROVE Figures(al)
    OBVIOUS
  <2>2. al.rates = <<>> /\ al.low = 0 /\ al.mv = 0 /\ al.temp = 0
    BY Zenon DEF AlertInit
  <2>3. al.stage \in ChargeStages
    <3>1. al.stage = ""
      BY Zenon DEF AlertInit
    <3> QED BY <3>1, Zenon DEF ChargeStages
  <2>4. al.efficiency = -1
    BY Zenon DEF AlertInit
  <2>5. RateWindow \in Nat /\ LowConfirm \in Nat
    BY AlertsAssumption
  <2> QED BY <2>1, <2>2, <2>3, <2>4, <2>5 DEF Figures
<1>2. ASSUME DebounceInv, Figures(al), [AlertNext]_alertVars
      PROVE  Figures(al)'
  <2>1. CASE UNCHANGED al
    BY <1>2, <2>1 DEF Figures
  <2>2. ASSUME NEW bat \in AlertBatteries, NEW rate \in {1, 4}, NEW trend, AlertBattery(bat, rate, trend)
        PROVE  Figures(al')
    <3> DEFINE before == [al EXCEPT !.mv = bat.mv, !.temp = bat.temp]
    <3>1. DOMAIN before = AlFields /\ Figures(before)
      BY <1>2, AlertsAssumption DEF DebounceInv, AlFields, Figures
    <3>2. CASE bat.valid
      <4>1. al' = Extended(before, bat, seen.chg, rate, trend)
        BY <2>2, <3>2 DEF AlertBattery
      <4> HIDE DEF before
      <4> QED BY <3>1, <4>1, CallFigures
    <3>3. CASE ~bat.valid
      BY <1>2, <2>2, <3>3 DEF AlertBattery
    <3> QED BY <3>2, <3>3
  <2>3. ASSUME NEW r \in AlertChargers, NEW rate \in {1, 4}, NEW trend, AlertCharger(r, rate, trend)
        PROVE  Figures(al')
    <3> DEFINE chg == [r EXCEPT !.at = seen.n + 1]
               eff == IF chg.a > 10 /\ chg.v > 20 /\ chg.ps > chg.v
                      THEN (100 * chg.v) \div chg.ps ELSE al.efficiency
               before == [al EXCEPT !.stage = ChargingStage(chg), !.efficiency =
                            IF chg.a > 10 /\ chg.v > 20 /\ chg.ps > chg.v
                            THEN (100 * chg.v) \div chg.ps ELSE @]
    <3>1. chg.v \in Int /\ chg.ps \in Int
      BY AlertsAssumption
    <3>2. ChargingStage(chg) \in ChargeStages
      <4> HIDE DEF chg
      <4>1. ChargingStage(chg) \in {"Idle", "Float", "Absorption", "Bulk"}
        BY DEF ChargingStage
      <4> QED BY <4>1, Zenon DEF ChargeStages
    <3> HIDE DEF chg
    <3>3. eff \in -1..99
      <4>1. CASE chg.a > 10 /\ chg.v > 20 /\ chg.ps > chg.v
        <5>1. (100 * chg.v) \div chg.ps \in -1..99
          BY <3>1, <4>1, Efficiency
        <5>2. eff = (100 * chg.v) \div chg.ps
          BY <4>1, Zenon
        <5> QED BY <5>1, <5>2, Zenon
      <4>2. CASE ~(chg.a > 10 /\ chg.v > 20 /\ chg.ps > chg.v)
        BY <1>2, <4>2 DEF Figures
      <4> QED BY <4>1, <4>2
    <3>4. /\ DOMAIN before = AlFields /\ before.efficiency = eff /\ before.stage = ChargingStage(chg)
          /\ before.rates = al.rates /\ before.low = al.low /\ before.mv = al.mv
          /\ before.temp = al.temp
      BY <1>2 DEF DebounceInv, AlFields
    <3>5. /\ chg.valid /\ seen.bat # <<>> => al' = Extended(before, seen.bat[1], chg, rate, trend)
          /\ ~(chg.valid /\ seen.bat # <<>>) => al' = before \/ al' = al
      BY <2>3 DEF AlertCharger, chg
    <3> HIDE DEF before, eff
    <3>6. Figures(before)
      BY <1>2, <3>2, <3>3, <3>4 DEF Figures
    <3> QED BY <1>2, <3>4, <3>5, <3>6, CallFigures
  <2> QED BY <1>2, <2>1, <2>2, <2>3 DEF AlertNext, alertVars
<1>3. DebounceInv /\ Figures(al) => AlertTypeOK
  <2> SUFFICES ASSUME DebounceInv, Figures(al) PROVE AlertTypeOK
    OBVIOUS
  <2>1. HealthScore(al, 0, 1) \in 0..100
    <3>1. \A mv : CellPenalty(mv) \in {0, 5, 10, 20}
      BY DEF CellPenalty
    <3> QED BY <3>1 DEF HealthScore
  <2>2. \A bat : \A a \in HealthAlerts(al, bat) \intersect {"cells", "temp", "efficiency"} :
           HealthScore(al, 100, 0) <= 95
    <3> SUFFICES ASSUME NEW bat, NEW a \in HealthAlerts(al, bat), a \in {"cells", "temp", "efficiency"}
                 PROVE  HealthScore(al, 100, 0) <= 95
      OBVIOUS
    <3> DEFINE c == CellPenalty(al.mv)
               e == IF al.efficiency < 0 \/ al.efficiency >= 90 THEN 0
                    ELSE IF al.efficiency >= 80 THEN 10 ELSE 20
               t == IF al.temp >= 50 THEN 20 ELSE IF al.temp >= 40 THEN 10 ELSE 0
    <3>1. c \in {0, 5, 10, 20} /\ e \in {0, 10, 20} /\ t \in {0, 10, 20}
      BY DEF CellPenalty
    <3>2. CASE a = "cells"
      <4>1. CellBalance(al.mv) \in {"Imbalance", "Warning"}
        BY <3>2 DEF HealthAlerts
      <4>2. c >= 5
        BY <4>1 DEF CellBalance, CellPenalty, Figures
      <4> QED BY <3>1, <4>2 DEF HealthScore
    <3>3. CASE a = "temp"
      <4>1. TempStatus(al.temp) \in {"Warning", "Warm"}
        BY <3>3 DEF HealthAlerts
      <4>2. t >= 10
        BY <4>1 DEF TempStatus, Figures
      <4> QED BY <3>1, <4>2 DEF HealthScore
    <3>4. CASE a = "efficiency"
      <4>1. al.efficiency >= 0 /\ al.efficiency < 75
        BY <3>4 DEF HealthAlerts
      <4>2. e = 20
        <5>1. al.efficiency \in -1..99
          BY DEF Figures
        <5> QED BY <4>1, <5>1
      <4> QED BY <3>1, <4>2 DEF HealthScore
    <3> QED BY <3>2, <3>3, <3>4
  <2>3. /\ Len(al.rates) <= 4 * RateWindow
        /\ al.low \in 0..LowConfirm /\ al.efficiency \in -1..99
    BY DEF Figures
  <2>4. /\ al.mode \in {"idle", "charging", "discharging"} /\ al.confirm \in 0..(ModeConfirm - 1)
        /\ al.stage \in {"", "Idle", "Float", "Absorption", "Bulk"}
    BY Zenon DEF DebounceInv, Figures, Modes, ChargeStages
  <2>5. seen.bat # <<>> =>
           \A a \in HealthAlerts(al, seen.bat[1]) \intersect {"cells", "temp", "efficiency"} :
              HealthScore(al, 100, 0) <= 95
    BY <2>2, Zenon
  <2> QED BY <2>1, <2>3, <2>4, <2>5, Zenon DEF AlertTypeOK
<1> QED BY <1>1, <1>2, <1>3, DebounceInvHolds, PTL DEF AlertSpec

-----------------------------------------------------------------------------
(***** Anomalies *****)
Reported == [type : {"load_spike", "slow_charging", "resistance_increase"}, at : Int]

\* RepeatsNeedAnother of one list, and of the times of one table
Spaced(list) ==
  \A i, j \in DOMAIN list :
     (i < j /\ list[i].type = list[j].type /\ list[j].at - list[i].at < Window(list[i].type)) =>
        \E k \in (i + 1)..(j - 1) : list[k].type # list[i].type
HoursApart(rows) == \A i \in 1..(Len(rows) - 1) : rows[i + 1] - rows[i] > 60

(* The stamps compared with when a sample is to be kept are those of the    *)
(* last rows: nothing in a table is newer.                                  *)
Stamped(rows, kept) ==
  /\ rows \in Seq(Int) /\ kept \in Int
  /\ HoursApart(rows) /\ \A i \in 1..Len(rows) : rows[i] <= kept

AnomalyInv ==
  /\ extTime \in Int
  /\ DOMAIN ext = {"loads", "rs", "list", "hist", "maxA", "eventAt", "keptR", "keptEff", "keptSolar"}
  /\ ext.list \in Seq(Reported) /\ Len(ext.list) <= MaxAnomalies /\ Spaced(ext.list)
  /\ ext.eventAt \in Int
  /\ Stamped(extRows.r, ext.keptR) /\ Stamped(extRows.eff, ext.keptEff)

-----------------------------------------------------------------------------
(* A report goes to the end of the list only when no report of its type     *)
(* within the window stands there: either there is none, or another type    *)
(* has come after it.                                                       *)
LEMMA ReportSpaced ==
  ASSUME extTime \in Int,
         NEW list \in Seq(Reported), Len(list) <= MaxAnomalies, Spaced(list),
         NEW cond, NEW type \in {"load_spike", "slow_charging", "resistance_increase"}
  PROVE  /\ Report(list, cond, type) \in Seq(Reported)
         /\ Len(Report(list, cond, type)) <= MaxAnomalies
         /\ Spaced(Report(list, cond, type))
<1> DEFINE new == [type |-> type, at |-> extTime]
           q == Push(list, new, MaxAnomalies)
           shift == IF Len(list) < MaxAnomalies THEN 0 ELSE 1
<1>1. CASE ~(cond /\ ~Recent(list, type))
  BY <1>1 DEF Report
<1>2. CASE cond /\ ~Recent(list, type)
  <2>1. Report(list, cond, type) = q
    BY <1>2 DEF Report
  <2>2. new \in Reported /\ MaxAnomalies \in Nat \ {0} /\ Len(list) \in Nat
        /\ new.type = type /\ new.at = extTime
    BY ExtAssumption, LenProperties DEF Reported
  <2> HIDE DEF new
  <2>3. /\ q \in Seq(Reported)
        /\ Len(q) = IF Len(list) < MaxAnomalies THEN Len(list) + 1 ELSE MaxAnomalies
        /\ \A i \in 1..Len(q) : q[i] = IF i = Len(q) THEN new
                                       ELSE IF Len(list) < MaxAnomalies THEN list[i] ELSE list[i + 1]
    BY <2>2, PushKept
  <2> HIDE DEF q
  <2>4. /\ Len(q) = Len(list) + 1 - shift /\ Len(q) <= MaxAnomalies /\ shift \in {0, 1}
        /\ q[Len(q)] = new
        /\ \A i \in 1..(Len(q) - 1) : i + shift \in 1..Len(list) /\ q[i] = list[i + shift]
    BY <2>2, <2>3
  <2> HIDE DEF shift
  <2>5. DOMAIN q = 1..Len(q) /\ DOMAIN list = 1..Len(list)
    BY <2>3, LenProperties
  <2>6. ASSUME NEW i \in DOMAIN q, NEW j \in DOMAIN q, i < j, q[i].type = q[j].type,
               q[j].at - q[i].at < Window(q[i].type)
        PROVE  \E k \in (i + 1)..(j - 1) : q[k].type # q[i].type
    <3>a. i \in 1..Len(q) /\ j \in 1..Len(q) /\ i < j /\ Len(q) \in Nat /\ shift \in Nat
      BY <2>2, <2>4, <2>5, <2>6
    <3>0. /\ i \in 1..(Len(q) - 1) /\ j \in 1..Len(q) /\ i + shift \in DOMAIN list
          /\ q[i] = list[i + shift]
      <4>1. i \in 1..(Len(q) - 1)
        BY <3>a
      <4> QED BY <2>4, <2>5, <3>a, <4>1
    <3>1. CASE j # Len(q)
      <4>1. j + shift \in DOMAIN list /\ q[j] = list[j + shift] /\ i + shift < j + shift
        <5>1. j \in 1..(Len(q) - 1) /\ i + shift < j + shift
          BY <3>a, <3>1
        <5>2. j + shift \in 1..Len(list) /\ q[j] = list[j + shift]
          BY <2>4, <5>1
        <5> QED BY <2>5, <5>1, <5>2
      <4>2. PICK l \in (i + shift + 1)..((j + shift) - 1) : list[l].type # list[i + shift].type
        <5> DEFINE a == i + shift
                   b == j + shift
        <5>1. list[a].type = list[b].type /\ list[b].at - list[a].at < Window(list[a].type)
          BY <2>6, <3>0, <4>1
        <5>2. a \in DOMAIN list /\ b \in DOMAIN list /\ a < b
          BY <3>0, <4>1
        <5>3. \E l \in (a + 1)..(b - 1) : list[l].type # list[a].type
          <6> HIDE DEF a, b
          <6> QED BY <5>1, <5>2 DEF Spaced
        <5> QED BY <5>3
      <4>3. l - shift \in (i + 1)..(j - 1) /\ l - shift \in 1..(Len(q) - 1) /\ l = (l - shift) + shift
        <5>0. /\ i \in Int /\ j \in Int /\ Len(q) \in Int /\ shift \in Int /\ l \in Int
              /\ 1 <= i /\ j <= Len(q) /\ i + shift + 1 <= l /\ l <= (j + shift) - 1
          BY <3>a, <4>2
        <5> DEFINE k == l - shift
                   last == Len(q)
        <5>1. k \in Int /\ i + 1 <= k /\ k <= j - 1 /\ l = k + shift
          BY <5>0
        <5>a. last \in Int /\ j <= last
          BY <5>0
        <5> HIDE DEF k, last
        <5>2. k \in (i + 1)..(j - 1)
          BY <5>0, <5>1
        <5>b. i \in Int /\ j \in Int /\ 1 <= i
          BY <5>0
        <5>3. 1 <= k /\ k <= last - 1
          BY <5>1, <5>a, <5>b
        <5>4. k \in 1..(last - 1)
          BY <5>1, <5>a, <5>3
        <5> QED BY <5>1, <5>2, <5>4 DEF k, last
      <4>4. q[l - shift] = list[l]
        BY <2>4, <4>3
      <4> QED BY <3>0, <4>2, <4>3, <4>4
    <3>2. CASE j = Len(q)
      <4>1. list[i + shift].type = type /\ extTime - list[i + shift].at < Window(type)
        BY <2>2, <2>4, <2>6, <3>0, <3>2
      <4>2. PICK l \in (i + shift)..Len(list) : list[l].type # type
        BY <1>2, <3>0, <4>1 DEF Recent
      <4>3. l - shift \in (i + 1)..(j - 1) /\ l - shift \in 1..(Len(q) - 1) /\ l = (l - shift) + shift
        BY <2>2, <2>4, <2>5, <3>0, <3>2, <4>1, <4>2
      <4>4. q[l - shift] = list[l]
        BY <2>4, <4>3
      <4> QED BY <3>0, <4>1, <4>2, <4>3, <4>4
    <3> QED BY <3>1, <3>2
  <2>7. Spaced(q)
    BY <2>6 DEF Spaced
  <2> QED BY <2>1, <2>3, <2>4, <2>7
<1> QED BY <1>1, <1>2

(* A sample is kept an hour after the last one.                             *)
LEMMA StampedAppend ==
  ASSUME NEW rows, NEW kept, Stamped(rows, kept), NEW at \in Int, at > kept + 60
  PROVE  Stamped(Append(rows, at), at)
<1>1. /\ Append(rows, at) \in Seq(Int) /\ Len(Append(rows, at)) = Len(rows) + 1 /\ Len(rows) \in Nat
      /\ \A i \in 1..(Len(rows) + 1) : Append(rows, at)[i] = IF i = Len(rows) + 1 THEN at ELSE rows[i]
  BY AppendProperties, LenProperties DEF Stamped
<1>2. \A i \in 1..Len(rows) : rows[i] \in Int /\ rows[i] <= kept
  BY ElementOfSeq DEF Stamped
<1> DEFINE a == Append(rows, at)
<1> HIDE DEF a
<1>3. HoursApart(a)
  BY <1>1, <1>2 DEF HoursApart, Stamped, a
<1>4. \A i \in 1..Len(a) : a[i] <= at
  BY <1>1, <1>2 DEF Stamped, a
<1> QED BY <1>1, <1>3, <1>4 DEF Stamped, a

(* One call of update(), whatever reading it is given.                      *)
LEMMA ExtStep ==
  ASSUME AnomalyInv, [ExtNext]_extVars
  PROVE  AnomalyInv'
<1>1. CASE UNCHANGED extVars
  BY <1>1 DEF extVars, AnomalyInv
<1>2. CASE ExtNext
  <2>1. PICK x \in ExtReadings : ExtUpdate(x)
    BY <1>2 DEF ExtNext
  <2> DEFINE charged == MaxCharge(ext, x.chg)
             told == [charged EXCEPT !.eventAt = IF x.new THEN extTime ELSE @]
             e == Detector(told, x)
  <2>2. /\ DOMAIN charged = DOMAIN ext
        /\ \A f \in {"list", "eventAt", "keptR", "keptEff"} : charged[f] = ext[f]
    BY DEF MaxCharge, AnomalyInv
  <2> HIDE DEF charged
  <2>3. /\ DOMAIN told = DOMAIN ext /\ told.eventAt \in Int
        /\ \A f \in {"list", "keptR", "keptEff"} : told[f] = ext[f]
    BY <2>2 DEF AnomalyInv
  <2> HIDE DEF told
  <2>4. /\ DOMAIN e = DOMAIN ext /\ e.eventAt \in Int
        /\ \A f \in {"keptR", "keptEff"} : e[f] = ext[f]
    BY <2>3 DEF Detector, AnomalyInv
  <2>5. e.list \in Seq(Reported) /\ Len(e.list) <= MaxAnomalies /\ Spaced(e.list)
    <3> DEFINE loads  == IF x.load > 0 THEN Push(told.loads, x.load, LoadWindow) ELSE told.loads
               rs     == IF x.r > 0 THEN Push(told.rs, [r |-> x.r, day |-> DayOf(extTime)], MaxResist)
                         ELSE told.rs
               first  == Report(told.list, Spike(loads, x.load), "load_spike")
               second == Report(first, SlowCharge(x.chg, told.maxA), "slow_charging")
               third  == Report(second, Worse(rs), "resistance_increase")
    <3>1. e.list = third
      BY <2>3 DEF Detector, AnomalyInv
    <3> DEFINE Good(list) == list \in Seq(Reported) /\ Len(list) <= MaxAnomalies /\ Spaced(list)
    <3>2. Good(told.list) /\ extTime \in Int
      BY <2>3 DEF AnomalyInv
    <3>3. Good(first)
      BY <3>2, ReportSpaced
    <3> HIDE DEF first
    <3>4. Good(second)
      BY <3>2, <3>3, ReportSpaced
    <3> HIDE DEF second
    <3>5. Good(third)
      BY <3>2, <3>4, ReportSpaced
    <3> HIDE DEF third
    <3> QED BY <3>1, <3>5
  <2>6. /\ ext' = [e EXCEPT !.keptR = IF KeepResistance(e, x) THEN e.eventAt ELSE @,
                            !.keptEff = IF KeepEfficiency(e, x) THEN extTime ELSE @,
                            !.keptSolar = IF KeepSolar(e, x) THEN extTime ELSE @]
        /\ extRows'.r = IF KeepResistance(e, x) THEN Append(extRows.r, e.eventAt) ELSE extRows.r
        /\ extRows'.eff = IF KeepEfficiency(e, x) THEN Append(extRows.eff, extTime) ELSE extRows.eff
        /\ \E dt \in {1, 61, 1500} : extTime' = extTime + dt
    BY <2>1 DEF ExtUpdate, told, charged
  <2> HIDE DEF e
  <2>7. /\ DOMAIN ext' = DOMAIN ext /\ ext'.list = e.list /\ ext'.eventAt = e.eventAt
        /\ ext'.keptR = IF KeepResistance(e, x) THEN e.eventAt ELSE ext.keptR
        /\ ext'.keptEff = IF KeepEfficiency(e, x) THEN extTime ELSE ext.keptEff
    BY <2>4, <2>6 DEF AnomalyInv
  <2>8. extTime \in Int /\ extTime' \in Int
    BY <2>6 DEF AnomalyInv
  <2>9. Stamped(extRows'.r, ext'.keptR)
    <3>1. CASE KeepResistance(e, x)
      BY <2>4, <2>6, <2>7, <3>1, StampedAppend DEF AnomalyInv, KeepResistance
    <3>2. CASE ~KeepResistance(e, x)
      BY <2>6, <2>7, <3>2 DEF AnomalyInv
    <3> QED BY <3>1, <3>2
  <2>10. Stamped(extRows'.eff, ext'.keptEff)
    <3>1. CASE KeepEfficiency(e, x)
      BY <2>4, <2>6, <2>7, <2>8, <3>1, StampedAppend DEF AnomalyInv, KeepEfficiency
    <3>2. CASE ~KeepEfficiency(e, x)
      BY <2>6, <2>7, <3>2 DEF AnomalyInv
    <3> QED BY <3>1, <3>2
  <2> QED BY <2>4, <2>5, <2>7, <2>8, <2>9, <2>10 DEF AnomalyInv, Spaced
<1> QED BY <1>1, <1>2

(* The detector's list and the stamps of its tables, in every state.        *)
LEMMA AnomalyInvHolds == ExtSpec => []AnomalyInv
<1>1. ExtInit => AnomalyInv
  <2> SUFFICES ASSUME ExtInit PROVE AnomalyInv
    OBVIOUS
  <2>1. /\ ext.list = <<>> /\ extRows.r = <<>> /\ extRows.eff = <<>>
        /\ ext.keptR = 0 /\ ext.keptEff = 0 /\ ext.eventAt = 0 /\ extTime = 10000
        /\ DOMAIN ext = {"loads", "rs", "list", "hist", "maxA", "eventAt", "keptR", "keptEff",
                         "keptSolar"}
    BY DEF ExtInit, NewExt
  <2>2. <<>> \in Seq(Reported) /\ Len(<<>>) = 0 /\ DOMAIN <<>> = {} /\ <<>> \in Seq(Int)
    BY EmptySeq
  <2>3. Spaced(<<>>) /\ Stamped(<<>>, 0)
    BY <2>2 DEF Spaced, Stamped, HoursApart
  <2> QED BY <2>1, <2>2, <2>3, ExtAssumption DEF AnomalyInv
<1>2. AnomalyInv /\ [ExtNext]_extVars => AnomalyInv'
  BY ExtStep
<1> QED BY <1>1, <1>2, PTL DEF ExtSpec

(* However long a condition lasts and however often readings find it again, *)
(* the list repeats a type within its window only after another type        *)
(* (add_anomaly's debouncing), and samples kept for the long term are more  *)
(* than an hour apart (AnalyticsExtensions::update).                        *)
THEOREM RepeatsNeedAnotherHolds == ExtSpec => []RepeatsNeedAnother
<1>1. AnomalyInv => RepeatsNeedAnother
  BY DEF AnomalyInv, RepeatsNeedAnother, Spaced, Stamped, HoursApart
<1> QED BY <1>1, AnomalyInvHolds, PTL

-----------------------------------------------------------------------------
\* A list of the detector: of values it was given, no longer than its bound
Bounded(list, S, n) == list \in Seq(S) /\ Len(list) <= n

LoadsGiven == {x.load : x \in ExtReadings}
TargetsGiven == {x.chg.targetA : x \in ExtReadings}
SamplesGiven == {[r |-> x.r, day |-> d] : x \in ExtReadings, d \in Int}

DetectorLists ==
  /\ Bounded(ext.loads, LoadsGiven, LoadWindow) /\ Bounded(ext.hist, TargetsGiven, MaxChargeHist)
  /\ Bounded(ext.rs, SamplesGiven, MaxResist)

(* A list to which one value is added, or none, stays within its bound.     *)
LEMMA BoundedPush ==
  ASSUME NEW S, NEW n \in Nat \ {0}, NEW list, Bounded(list, S, n), NEW x \in S
  PROVE  Bounded(Push(list, x, n), S, n)
<1>1. list \in Seq(S) /\ Len(list) <= n /\ Len(list) \in Nat
  BY LenProperties DEF Bounded
<1>2. /\ Push(list, x, n) \in Seq(S)
      /\ Len(Push(list, x, n)) = IF Len(list) < n THEN Len(list) + 1 ELSE n
  BY <1>1, PushKept
<1> QED BY <1>1, <1>2 DEF Bounded

(* The four lists of the detector never outgrow their bounds                *)
(* (AnomalyDetector::update, effective_max_charge_a_).                      *)
THEOREM ExtTypes == ExtSpec => []ExtTypeOK
<1>0. {LoadWindow, MaxChargeHist, MaxResist} \subseteq Nat \ {0}
  BY ExtAssumption
<1>1. ExtInit => DetectorLists
  <2> SUFFICES ASSUME ExtInit PROVE DetectorLists
    OBVIOUS
  <2>1. ext.loads = <<>> /\ ext.hist = <<>> /\ ext.rs = <<>>
    BY DEF ExtInit, NewExt
  <2>2. \A S : \A n \in Nat : Bounded(<<>>, S, n)
    BY EmptySeq DEF Bounded
  <2> QED BY <1>0, <2>1, <2>2 DEF DetectorLists
<1>2. ASSUME AnomalyInv, DetectorLists, [ExtNext]_extVars
      PROVE  DetectorLists'
  <2>1. CASE UNCHANGED extVars
    BY <1>2, <2>1 DEF extVars, DetectorLists
  <2>2. CASE ExtNext
    <3>1. PICK x \in ExtReadings : ExtUpdate(x)
      BY <2>2 DEF ExtNext
    <3> DEFINE charged == MaxCharge(ext, x.chg)
               told == [charged EXCEPT !.eventAt = IF x.new THEN extTime ELSE @]
               e == Detector(told, x)
               sample == [r |-> x.r, day |-> DayOf(extTime)]
    <3>2. x.load \in LoadsGiven /\ x.chg.targetA \in TargetsGiven /\ sample \in SamplesGiven
      <4>1. DayOf(extTime) \in Int
        BY <1>2 DEF DayOf, AnomalyInv
      <4> QED BY <4>1 DEF LoadsGiven, TargetsGiven, SamplesGiven
    <3>3. /\ DOMAIN charged = DOMAIN ext
          /\ charged.loads = ext.loads /\ charged.rs = ext.rs
          /\ charged.hist = ext.hist \/ charged.hist = Push(ext.hist, x.chg.targetA, MaxChargeHist)
      BY <1>2 DEF MaxCharge, AnomalyInv
    <3> HIDE DEF charged
    <3>4. /\ DOMAIN told = DOMAIN ext
          /\ told.loads = charged.loads /\ told.rs = charged.rs /\ told.hist = charged.hist
      BY <1>2, <3>3 DEF AnomalyInv
    <3> HIDE DEF told
    <3>5. /\ DOMAIN e = DOMAIN ext /\ e.hist = told.hist
          /\ e.loads = told.loads \/ e.loads = Push(told.loads, x.load, LoadWindow)
          /\ e.rs = told.rs \/ e.rs = Push(told.rs, sample, MaxResist)
      BY <1>2, <3>4 DEF Detector, AnomalyInv
    <3>6. ext' = [e EXCEPT !.keptR = IF KeepResistance(e, x) THEN e.eventAt ELSE @,
                           !.keptEff = IF KeepEfficiency(e, x) THEN extTime ELSE @,
                           !.keptSolar = IF KeepSolar(e, x) THEN extTime ELSE @]
      BY <3>1 DEF ExtUpdate, told, charged
    <3> HIDE DEF e, sample
    <3>7. ext'.loads = e.loads /\ ext'.rs = e.rs /\ ext'.hist = e.hist
      BY <1>2, <3>5, <3>6 DEF AnomalyInv
    <3>8. Bounded(e.hist, TargetsGiven, MaxChargeHist)
      BY <1>0, <1>2, <3>2, <3>3, <3>4, <3>5, BoundedPush DEF DetectorLists
    <3>9. Bounded(e.loads, LoadsGiven, LoadWindow)
      BY <1>0, <1>2, <3>2, <3>3, <3>4, <3>5, BoundedPush DEF DetectorLists
    <3>10. Bounded(e.rs, SamplesGiven, MaxResist)
      BY <1>0, <1>2, <3>2, <3>3, <3>4, <3>5, BoundedPush DEF DetectorLists
    <3> QED BY <3>7, <3>8, <3>9, <3>10 DEF DetectorLists
  <2> QED BY <1>2, <2>1, <2>2
<1>3. AnomalyInv /\ DetectorLists => ExtTypeOK
  BY DEF AnomalyInv, DetectorLists, Bounded, ExtTypeOK
<1>4. ExtSpec => []AnomalyInv
  BY AnomalyInvHolds
<1> QED BY <1>1, <1>2, <1>3, <1>4, PTL DEF ExtSpec

-----------------------------------------------------------------------------
(***** Forecast *****)
(* A start takes what the database kept for nearly DbAge and counts it as   *)
(* CacheAge \div 2 old: by so much a forecast may be older than its stamp    *)
(* in memory says.                                                          *)
Slack == IF DbAge - 1 > CacheAge \div 2 THEN DbAge - 1 - CacheAge \div 2 ELSE 0

Kept(json, at) ==
  /\ at \in Int
  /\ json.kind # "none" => json.at \in Int /\ wxNow - json.at <= (Steady - at) + Slack

InMemory(w) ==
  /\ DOMAIN w = {"list", "listAt", "daily", "dailyAt", "boot"} /\ w.boot = wx.boot
  /\ Kept(w.list, w.listAt) /\ Kept(w.daily, w.dailyAt)

OnDisk(row) == row.at \in Int /\ (row.json.kind # "none" => row.json.at = row.at)

CacheInv ==
  /\ wxNow \in Nat /\ wx.boot \in Int
  /\ InMemory(wx)
  /\ DOMAIN wxDisk = {"list", "daily", "days", "readings"}
  /\ OnDisk(wxDisk.list) /\ OnDisk(wxDisk.daily) /\ wxDisk.readings = wxNow
  /\ usage.at \in Int /\ (usage.at >= 0 => usage.rows = usage.at)

-----------------------------------------------------------------------------
LEMMA Ages ==
  /\ {CacheAge, DbAge, UsageAge, CacheAge \div 2, Slack} \subseteq Nat
  /\ CacheAge + Slack <= DbAge + CacheAge \div 2
  /\ DbAge - 1 <= CacheAge \div 2 + Slack
  BY ForecastAssumption DEF Slack

\* An answer is from now.
FromNow(json) == json.kind # "none" => json.at = wxNow

LEMMA FetchedNow ==
  ASSUME NEW S, NEW json \in Answers(S)
  PROVE  FromNow(json)
  BY DEF FromNow, Answers, Fetched, NoJson

(* What is in memory is either what was there or an answer from now.        *)
LEMMA WithListKept ==
  ASSUME CacheInv, NEW w, InMemory(w), NEW json, FromNow(json)
  PROVE  /\ InMemory(WithList(w, json))
         /\ WithList(w, json).daily = w.daily
         /\ WithList(w, json).list # w.list => WithList(w, json).list.at = wxNow
<1>1. Kept(json, Steady)
  BY Ages DEF Kept, FromNow, CacheInv, Steady
<1> DEFINE v == WithList(w, json)
<1>2. CASE v = w
  BY <1>2
<1>3. CASE v # w
  <2>1. v = [w EXCEPT !.list = json, !.listAt = Steady] /\ json.kind # "none"
    BY <1>3 DEF WithList
  <2>2. /\ DOMAIN v = DOMAIN w /\ v.boot = w.boot
        /\ v.daily = w.daily /\ v.dailyAt = w.dailyAt
        /\ v.list = json /\ v.listAt = Steady
    BY <2>1 DEF InMemory
  <2>3. v.list.at = wxNow
    BY <2>1, <2>2 DEF FromNow
  <2> QED BY <1>1, <2>2, <2>3 DEF InMemory
<1> QED BY <1>2, <1>3

LEMMA WithDailyKept ==
  ASSUME CacheInv, NEW w, InMemory(w), NEW json, FromNow(json)
  PROVE  /\ InMemory(WithDaily(w, json))
         /\ WithDaily(w, json).list = w.list
         /\ WithDaily(w, json).daily # w.daily => WithDaily(w, json).daily.at = wxNow
<1>1. Kept(json, Steady)
  BY Ages DEF Kept, FromNow, CacheInv, Steady
<1> DEFINE v == WithDaily(w, json)
<1>2. CASE v = w
  BY <1>2
<1>3. CASE v # w
  <2>1. v = [w EXCEPT !.daily = json, !.dailyAt = Steady] /\ json.kind # "none"
    BY <1>3 DEF WithDaily
  <2>2. /\ DOMAIN v = DOMAIN w /\ v.boot = w.boot
        /\ v.list = w.list /\ v.listAt = w.listAt
        /\ v.daily = json /\ v.dailyAt = Steady
    BY <2>1 DEF InMemory
  <2>3. v.daily.at = wxNow
    BY <2>1, <2>2 DEF FromNow
  <2> QED BY <1>1, <2>2, <2>3 DEF InMemory
<1> QED BY <1>2, <1>3

LEMMA AskedKept ==
  ASSUME CacheInv, NEW w, InMemory(w), NEW list, FromNow(list), NEW daily, FromNow(daily)
  PROVE  /\ InMemory(Asked(w, list, daily))
         /\ Asked(w, list, daily).list # w.list => Asked(w, list, daily).list.at = wxNow
         /\ Asked(w, list, daily).daily # w.daily => Asked(w, list, daily).daily.at = wxNow
<1> DEFINE near == WithList(w, list)
<1>1. /\ InMemory(near) /\ near.daily = w.daily
      /\ near.list # w.list => near.list.at = wxNow
  BY WithListKept
<1>2. Asked(w, list, daily) = IF near.list.kind = "good" THEN WithDaily(near, daily) ELSE near
  BY DEF Asked
<1> HIDE DEF near
<1>3. CASE near.list.kind = "good"
  BY <1>1, <1>2, <1>3, WithDailyKept
<1>4. CASE near.list.kind # "good"
  BY <1>1, <1>2, <1>4
<1> QED BY <1>3, <1>4

(* It is written to the database with the time of its arrival.              *)
LEMMA SavedKept ==
  ASSUME CacheInv, NEW w,
         w.list # wx.list => w.list.at = wxNow, w.daily # wx.daily => w.daily.at = wxNow
  PROVE  /\ DOMAIN Saved(wxDisk, w) = {"list", "daily", "days", "readings"}
         /\ OnDisk(Saved(wxDisk, w).list) /\ OnDisk(Saved(wxDisk, w).daily)
         /\ Saved(wxDisk, w).readings = wxDisk.readings
<1>1. ASSUME NEW json, json.at = wxNow
      PROVE  OnDisk(SaveCache(json))
  BY <1>1 DEF OnDisk, SaveCache, CacheInv
<1> QED BY <1>1 DEF Saved, CacheInv

(* Not due: as old as its stamp says, and the slack.                        *)
LEMMA NotDueIsRecent ==
  ASSUME CacheInv, NEW json, NEW at, Kept(json, at), json.kind # "none", ~Older(at)
  PROVE  wxNow - json.at <= DbAge + CacheAge \div 2
  BY Ages DEF CacheInv, Kept, Older, Steady

(* What a start finds.                                                      *)
LEMMA LoadedKept ==
  ASSUME CacheInv, NEW boot \in Int, wx' = Loaded(wxDisk, boot), UNCHANGED wxNow
  PROVE  InMemory(wx)' /\ wx'.boot = boot
<1> DEFINE Place(json) == IF json.kind = "none" THEN 0 ELSE (wxNow - boot) - CacheAge \div 2
<1>1. ASSUME NEW row, OnDisk(row)
      PROVE  /\ Place(LoadCache(row)) \in Int
             /\ LoadCache(row).kind # "none" =>
                  /\ LoadCache(row).at \in Int
                  /\ wxNow - LoadCache(row).at <= (wxNow - boot) - Place(LoadCache(row)) + Slack
  <2>1. CASE row.at > wxNow - DbAge /\ row.json.kind # "none"
    <3>1. LoadCache(row) = row.json
      BY <2>1 DEF LoadCache
    <3> QED BY <1>1, <2>1, <3>1, Ages DEF OnDisk, CacheInv
  <2>2. CASE ~(row.at > wxNow - DbAge /\ row.json.kind # "none")
    <3>1. LoadCache(row).kind = "none"
      BY <2>2 DEF LoadCache, NoJson
    <3> QED BY <3>1
  <2> QED BY <2>1, <2>2
<1>2. /\ DOMAIN wx' = {"list", "listAt", "daily", "dailyAt", "boot"} /\ wx'.boot = boot
      /\ wx'.list = LoadCache(wxDisk.list) /\ wx'.listAt = Place(LoadCache(wxDisk.list))
      /\ wx'.daily = LoadCache(wxDisk.daily) /\ wx'.dailyAt = Place(LoadCache(wxDisk.daily))
  BY DEF Loaded
<1>3. OnDisk(wxDisk.list) /\ OnDisk(wxDisk.daily)
  BY DEF CacheInv
<1> HIDE DEF Place
<1> QED BY <1>1, <1>2, <1>3 DEF InMemory, Kept, Steady

-----------------------------------------------------------------------------
(* Every step keeps the invariant, and shows what is recent.                *)
LEMMA ForecastStep ==
  ASSUME CacheInv, ForecastIsRecent, [ForecastNext]_forecastVars
  PROVE  CacheInv' /\ ForecastIsRecent'
<1>1. CASE UNCHANGED forecastVars
  BY <1>1 DEF forecastVars, CacheInv, InMemory, Kept, Steady, OnDisk, ForecastIsRecent
<1>2. ASSUME UNCHANGED wxNow, wx'.boot \in Int, InMemory(wx)',
             DOMAIN wxDisk' = {"list", "daily", "days", "readings"},
             OnDisk(wxDisk'.list), OnDisk(wxDisk'.daily), wxDisk'.readings = wxDisk.readings,
             usage'.at \in Int, usage'.at >= 0 => usage'.rows = usage'.at
      PROVE  CacheInv'
  BY <1>2 DEF CacheInv, OnDisk
<1>3. CASE AskWeek
  <2>1. PICK list, list2 \in Answers(Lists), daily, daily2 \in Answers(Dailies),
             level \in LevelsWx, profile \in Profiles :
          LET first  == Asked(wx, list, daily)
              second == Asked(first, list2, daily2)
              plain  == Week(first, <<>>, level)
              week   == Week(second, profile, level)
          IN  /\ AnswersDue(wx, list, daily) /\ AnswersDue(first, list2, daily2)
              /\ wx' = second
              /\ wxDisk' = [Saved(wxDisk, second) EXCEPT !.days = Upserted(Upserted(@, plain), week)]
              /\ usage' = UsageNow
              /\ answer' = [shown |-> IF week.valid
                                      THEN {second.list.at} \union
                                        (IF second.daily.kind = "none" THEN {} ELSE {second.daily.at})
                                      ELSE {},
                            failed |-> ListDue(second) \/ DailyDue(second),
                            week |-> week, plain |-> plain, same |-> second = first,
                            level |-> level,
                            lag |-> wxDisk.readings - UsageNow.rows]
              /\ UNCHANGED wxNow
    BY <1>3 DEF AskWeek
  <2> DEFINE first  == Asked(wx, list, daily)
             second == Asked(first, list2, daily2)
             plain  == Week(first, <<>>, level)
             week   == Week(second, profile, level)
  <2>2. /\ InMemory(first)
        /\ first.list # wx.list => first.list.at = wxNow
        /\ first.daily # wx.daily => first.daily.at = wxNow
    BY FetchedNow, AskedKept DEF CacheInv
  <2> HIDE DEF first
  <2>3. /\ InMemory(second)
        /\ second.list # first.list => second.list.at = wxNow
        /\ second.daily # first.daily => second.daily.at = wxNow
    BY <2>2, FetchedNow, AskedKept
  <2> HIDE DEF second
  <2>4. /\ second.list # wx.list => second.list.at = wxNow
        /\ second.daily # wx.daily => second.daily.at = wxNow
    BY <2>2, <2>3
  <2>5. week.valid => second.list.kind # "none"
    BY DEF Week, NoWeek
  <2> HIDE DEF plain, week
  <2>6. /\ wx' = second
        /\ wxDisk' = [Saved(wxDisk, second) EXCEPT !.days = Upserted(Upserted(@, plain), week)]
        /\ usage' = UsageNow
        /\ answer'.shown = IF week.valid
                           THEN {second.list.at} \union
                                (IF second.daily.kind = "none" THEN {} ELSE {second.daily.at})
                           ELSE {}
        /\ answer'.failed = (ListDue(second) \/ DailyDue(second))
        /\ answer'.lag = wxDisk.readings - UsageNow.rows
        /\ UNCHANGED wxNow
    BY <2>1 DEF first, second, plain, week
  <2>7. /\ DOMAIN wxDisk' = {"list", "daily", "days", "readings"}
        /\ OnDisk(wxDisk'.list) /\ OnDisk(wxDisk'.daily) /\ wxDisk'.readings = wxDisk.readings
    BY <2>4, <2>6, SavedKept
  <2>8. InMemory(wx)' /\ wx'.boot \in Int
    BY <2>3, <2>6 DEF InMemory, Kept, Steady, CacheInv
  <2>9. /\ usage'.at \in Int /\ (usage'.at >= 0 => usage'.rows = usage'.at)
        /\ answer'.lag <= UsageAge
    BY <2>6, Ages DEF UsageNow, CacheInv
  <2>10. ASSUME ~answer'.failed, NEW at \in answer'.shown
         PROVE  wxNow' - at <= DbAge + CacheAge \div 2
    <3>1. /\ week.valid /\ ~Older(second.listAt) /\ ~Older(second.dailyAt)
          /\ at = second.list.at \/ (second.daily.kind # "none" /\ at = second.daily.at)
      BY <2>6, <2>10 DEF ListDue, DailyDue
    <3> QED BY <2>3, <2>5, <2>6, <3>1, NotDueIsRecent DEF InMemory
  <2> QED BY <1>2, <2>6, <2>7, <2>8, <2>9, <2>10 DEF ForecastIsRecent
<1>4. CASE AskTomorrow
  <2>1. PICK list \in Answers(Lists) :
          LET w == WithList(wx, list)
          IN  /\ wx' = w /\ wxDisk' = Saved(wxDisk, w)
              /\ answer' = [NoAnswer EXCEPT !.shown = IF w.list.kind = "good" THEN {w.list.at} ELSE {},
                                            !.failed = ListDue(w)]
              /\ UNCHANGED <<usage, wxNow>>
    BY <1>4, Zenon DEF AskTomorrow
  <2> DEFINE w == WithList(wx, list)
  <2>2. /\ InMemory(w) /\ w.daily = wx.daily
        /\ w.list # wx.list => w.list.at = wxNow
    BY FetchedNow, WithListKept DEF CacheInv
  <2>3. /\ wx' = w /\ wxDisk' = Saved(wxDisk, w) /\ UNCHANGED <<usage, wxNow>>
        /\ answer'.shown = (IF w.list.kind = "good" THEN {w.list.at} ELSE {})
        /\ answer'.failed = ListDue(w) /\ answer'.lag = 0
    BY <2>1 DEF NoAnswer
  <2> HIDE DEF w
  <2>4. /\ DOMAIN wxDisk' = {"list", "daily", "days", "readings"}
        /\ OnDisk(wxDisk'.list) /\ OnDisk(wxDisk'.daily) /\ wxDisk'.readings = wxDisk.readings
    BY <2>2, <2>3, SavedKept
  <2>5. InMemory(wx)' /\ wx'.boot \in Int
    BY <2>2, <2>3 DEF InMemory, Kept, Steady, CacheInv
  <2>6. ASSUME ~answer'.failed, NEW at \in answer'.shown
        PROVE  wxNow' - at <= DbAge + CacheAge \div 2
    <3>1. w.list.kind = "good" /\ at = w.list.at /\ ~Older(w.listAt)
      BY <2>3, <2>6 DEF ListDue
    <3> QED BY <2>2, <2>3, <3>1, NotDueIsRecent DEF InMemory
  <2> QED BY <1>2, <2>3, <2>4, <2>5, <2>6, Ages DEF ForecastIsRecent, CacheInv
<1>5. ASSUME answer' = NoAnswer
      PROVE  ForecastIsRecent'
  BY <1>5, Ages DEF NoAnswer, ForecastIsRecent
<1>6. CASE Invalidate
  <2>1. InMemory(wx)' /\ wx'.boot \in Int
    BY <1>6 DEF Invalidate, CacheInv, InMemory, Kept, NoJson
  <2> QED BY <1>2, <1>5, <1>6, <2>1 DEF Invalidate, CacheInv
<1>7. CASE TimePasses
  <2>1. /\ wxNow' = wxNow + 1 /\ UNCHANGED <<wx, usage>> /\ answer' = NoAnswer
        /\ DOMAIN wxDisk' = DOMAIN wxDisk /\ wxDisk'.readings = wxDisk.readings + 1
        /\ wxDisk'.list = wxDisk.list /\ wxDisk'.daily = wxDisk.daily
    BY <1>7 DEF TimePasses, CacheInv
  <2>2. ASSUME NEW json, NEW at, Kept(json, at)
        PROVE  json.kind # "none" => wxNow' - json.at <= ((wxNow' - wx'.boot) - at) + Slack
    BY <2>1, <2>2, Ages DEF Kept, Steady, CacheInv
  <2>3. InMemory(wx)'
    BY <2>1, <2>2 DEF CacheInv, InMemory, Kept, Steady
  <2> QED BY <1>5, <2>1, <2>3 DEF CacheInv, OnDisk
<1>8. CASE ForecastRestart
  <2>1. PICK boot \in {wx.boot, wxNow} : wx' = Loaded(wxDisk, boot)
    BY <1>8 DEF ForecastRestart
  <2>2. boot \in Int /\ UNCHANGED <<wxDisk, wxNow>> /\ usage' = [at |-> -1, rows |-> 0]
    BY <1>8 DEF ForecastRestart, CacheInv
  <2>3. InMemory(wx)' /\ wx'.boot \in Int
    BY <2>1, <2>2, LoadedKept
  <2> QED BY <1>2, <1>5, <1>8, <2>2, <2>3 DEF ForecastRestart, CacheInv
<1> QED BY <1>1, <1>3, <1>4, <1>6, <1>7, <1>8 DEF ForecastNext

LEMMA ForecastStarts == ForecastInit => CacheInv /\ ForecastIsRecent
<1> SUFFICES ASSUME ForecastInit PROVE CacheInv /\ ForecastIsRecent
  OBVIOUS
<1>1. CacheInv
  <2>1. /\ wx = [list |-> NoJson, listAt |-> 0, daily |-> NoJson, dailyAt |-> 0, boot |-> 0]
        /\ wxDisk = [list |-> [json |-> NoJson, at |-> 0], daily |-> [json |-> NoJson, at |-> 0],
                     days |-> <<>>, readings |-> 0]
        /\ wxNow = 0 /\ usage = [at |-> -1, rows |-> 0] /\ NoJson.kind = "none"
    BY DEF ForecastInit, NoJson
  <2>2. /\ wx.list.kind = "none" /\ wx.listAt = 0 /\ wx.daily.kind = "none" /\ wx.dailyAt = 0
        /\ wx.boot = 0
    BY <2>1, Zenon
  <2>3. DOMAIN wx = {"list", "listAt", "daily", "dailyAt", "boot"}
    BY <2>1
  <2>4. InMemory(wx)
    BY <2>2, <2>3 DEF InMemory, Kept
  <2> QED BY <2>1, <2>2, <2>4 DEF CacheInv, OnDisk
<1>2. answer.shown = {} /\ answer.lag = 0
  BY DEF ForecastInit, NoAnswer
<1> QED BY <1>1, <1>2, Ages DEF ForecastIsRecent

(* As long as the service answers, the forecast shown is at most DbAge and  *)
(* half of CacheAge old, and the use it is set against at most UsageAge,    *)
(* however often the program and the machine are started again (get_api,    *)
(* load_weather_cache, get_usage_profile).                                  *)
THEOREM ForecastIsRecentHolds == ForecastSpec => []ForecastIsRecent
<1>1. ForecastInit => CacheInv /\ ForecastIsRecent
  BY ForecastStarts
<1>2. CacheInv /\ ForecastIsRecent /\ [ForecastNext]_forecastVars
        => (CacheInv /\ ForecastIsRecent)'
  BY ForecastStep
<1> QED BY <1>1, <1>2, PTL DEF ForecastSpec


-----------------------------------------------------------------------------
(***** Forecast: what a week adds up to *****)
LEMMA LeastOf ==
  ASSUME NEW a \in Int, NEW b \in Int
  PROVE  Min({a, b}) = IF a <= b THEN a ELSE b
<1> DEFINE m == IF a <= b THEN a ELSE b
<1>1. m \in {a, b} /\ \A y \in {a, b} : m <= y
  OBVIOUS
<1>2. ASSUME NEW x \in {a, b}, \A y \in {a, b} : x <= y
      PROVE  x = m
  BY <1>2
<1> HIDE DEF m
<1>3. Min({a, b}) = m
  BY <1>1, <1>2 DEF Min
<1> QED BY <1>3 DEF m

(* Quotients and parts grow with what is divided.                           *)
LEMMA DivGrows ==
  ASSUME NEW a \in Nat, NEW b \in Nat, NEW d \in Nat \ {0}, a <= b
  PROVE  a \div d <= b \div d
<1> DEFINE q == a \div d
           r == b \div d
<1>1. q \in Nat /\ r \in Nat
  BY NatDiv
<1>2. d * q <= a /\ b < d * r + d
  OBVIOUS
<1> HIDE DEF q, r
<1>3. SUFFICES ASSUME q > r PROVE FALSE
  BY <1>1 DEF q, r
<1>4. d * (q - r - 1) \in Nat
  BY <1>1, <1>3, NatTimes
<1>5. d * (q - r - 1) = d * q - d * r - d
  BY <1>1
<1>6. d * q \in Nat /\ d * r \in Nat
  BY <1>1, NatTimes
<1> QED BY <1>2, <1>4, <1>5, <1>6

LEMMA PartGrows ==
  ASSUME NEW x \in Nat, NEW p \in Nat, NEW q \in Nat, p <= q
  PROVE  Part(x, p) \in Nat /\ Part(x, p) <= Part(x, q)
<1>1. x * p \in Nat /\ x * q \in Nat /\ x * (q - p) \in Nat
  BY NatTimes
<1>2. x * (q - p) = x * q - x * p
  OBVIOUS
<1>3. x * p <= x * q
  BY <1>1, <1>2
<1> QED BY <1>1, <1>3, DivGrows, NatDiv DEF Part

LEMMA PartOf ==
  ASSUME NEW x \in Nat, NEW p \in Percent
  PROVE  Part(x, p) \in Nat /\ Part(x, p) <= x
<1>1. Part(x, 100) = x
  BY DEF Part
<1> QED BY <1>1, PartGrows DEF Percent

(* A third of three parts is no more than the whole.                        *)
LEMMA ThreeParts ==
  ASSUME NEW x \in Nat, NEW p \in Percent, NEW q \in Percent, NEW r \in Percent
  PROVE  Part(x, p + q + r) \div 3 \in Nat /\ Part(x, p + q + r) \div 3 <= x
<1>1. Part(x, 300) = 3 * x
  BY DEF Part
<1>2. p + q + r \in Nat /\ p + q + r <= 300
  BY DEF Percent
<1>3. Part(x, p + q + r) \in Nat /\ Part(x, p + q + r) <= 3 * x
  BY <1>1, <1>2, PartGrows
<1> QED BY <1>3

(* The nearest bucket with samples is one of the ten, where there is one.   *)
LEMMA NearestIs ==
  ASSUME NEW p, NEW i \in 0..9, NEW far \in Nat, Nearest(p, i, far) # -1
  PROVE  Nearest(p, i, far) \in 0..9
<1> DEFINE D == {d \in 1..far : \E j \in {i - d, i + d} \cap 0..9 : p[j].n >= 3}
           d == Min(D)
<1>1. Nearest(p, i, far) = IF D = {} THEN -1 ELSE IF i - d >= 0 /\ p[i - d].n >= 3 THEN i - d ELSE i + d
  BY DEF Nearest
<1>2. D # {}
  BY <1>1
<1>3. d \in D
  <2>1. D \subseteq Nat
    OBVIOUS
  <2>2. \E x \in D : \A y \in D : x <= y
    BY <1>2, <2>1, NatMin
  <2> HIDE DEF D
  <2> QED BY <2>2 DEF Min
<1>4. d \in 1..far /\ \E j \in {i - d, i + d} \cap 0..9 : p[j].n >= 3
  BY <1>3
<1> HIDE DEF D, d
<1>5. CASE i - d >= 0 /\ p[i - d].n >= 3
  BY <1>1, <1>2, <1>4, <1>5
<1>6. CASE ~(i - d >= 0 /\ p[i - d].n >= 3)
  <2>1. PICK j \in {i - d, i + d} \cap 0..9 : p[j].n >= 3
    BY <1>4
  <2>2. j = i + d
    BY <1>4, <1>6, <2>1
  <2> QED BY <1>1, <1>2, <1>4, <1>6, <2>1, <2>2
<1> QED BY <1>5, <1>6

Buckets == [0..9 -> [n : Nat, ratio : Percent]]

(* Profiles are in percent, whatever was measured.                          *)
LEMMA ProfilesAre == Profiles \subseteq Buckets
<1> SUFFICES ASSUME NEW measured \in Acceptance PROVE ChargeProfile(measured) \in Buckets
  BY DEF Profiles
<1> DEFINE p == [i \in 0..9 |-> [measured[i] EXCEPT !.ratio = Min({@, 100})]]
           q == AcceptanceProfile(measured)
<1>1. ASSUME NEW i \in 0..9
      PROVE  p[i] \in [n : Nat, ratio : Percent]
  <2>1. measured[i] \in [n : Nat, ratio : Nat]
    BY WeatherAssumption DEF Measured
  <2>2. ASSUME NEW r \in Nat PROVE Min({r, 100}) \in Percent
    <3>1. Min({r, 100}) = IF r <= 100 THEN r ELSE 100
      BY LeastOf
    <3> QED BY <3>1 DEF Percent
  <2>3. p[i] = [measured[i] EXCEPT !.ratio = Min({measured[i].ratio, 100})]
    BY <2>1
  <2> QED BY <2>1, <2>2, <2>3
<1>2. q = [i \in 0..9 |-> IF p[i].n >= 3 \/ Nearest(p, i, 9) = -1 THEN p[i]
                          ELSE [p[i] EXCEPT !.ratio = p[Nearest(p, i, 9)].ratio]]
  BY DEF AcceptanceProfile
<1> HIDE DEF p, q
<1>3. ASSUME NEW i \in 0..9
      PROVE  q[i] \in [n : Nat, ratio : Percent]
  <2>1. CASE p[i].n >= 3 \/ Nearest(p, i, 9) = -1
    BY <1>1, <1>2, <2>1
  <2>2. CASE ~(p[i].n >= 3 \/ Nearest(p, i, 9) = -1)
    <3>1. Nearest(p, i, 9) \in 0..9
      BY <2>2, NearestIs
    <3>2. p[Nearest(p, i, 9)].ratio \in Percent /\ p[i] \in [n : Nat, ratio : Percent]
      BY <1>1, <3>1
    <3>3. q[i] = [p[i] EXCEPT !.ratio = p[Nearest(p, i, 9)].ratio]
      BY <1>2, <2>2
    <3> QED BY <3>2, <3>3
  <2> QED BY <2>1, <2>2
<1>4. q \in Buckets
  BY <1>2, <1>3 DEF Buckets
<1> DEFINE t == [i \in 0..9 |-> [n |-> 100, ratio |-> Taper[i + 1]]]
<1>5. t \in Buckets
  <2>1. ASSUME NEW i \in 0..9 PROVE Taper[i + 1] \in Percent
    BY DEF Taper, Percent
  <2> QED BY <2>1 DEF Buckets
<1>6. ChargeProfile(measured) = IF FromHistory(q) THEN q ELSE t
  BY DEF ChargeProfile, q
<1> QED BY <1>4, <1>5, <1>6

Levels == 0..Capacity

LEMMA AcceptsPercent ==
  ASSUME NEW profile \in Buckets \union {<<>>}, NEW level \in Levels
  PROVE  Accepts(profile, level) \in Percent
<1> DEFINE b == Min({(10 * level) \div Capacity, 9})
<1>1. b \in 0..9
  <2>1. (10 * level) \div Capacity \in Nat
    BY ForecastAssumption, NatDiv DEF Levels
  <2> QED BY <2>1, LeastOf
<1>2. Accepts(profile, level) =
        IF profile = <<>> THEN 100
        ELSE IF profile[b].n >= 3 THEN profile[b].ratio
        ELSE IF Nearest(profile, b, 4) = -1 THEN 100 ELSE profile[Nearest(profile, b, 4)].ratio
  BY DEF Accepts
<1> HIDE DEF b
<1>3. ASSUME profile # <<>>, NEW i \in 0..9 PROVE profile[i].ratio \in Percent
  BY <1>3 DEF Buckets
<1>4. 100 \in Percent
  BY DEF Percent
<1>5. Nearest(profile, b, 4) # -1 => Nearest(profile, b, 4) \in 0..9
  BY <1>1, NearestIs
<1> QED BY <1>1, <1>2, <1>3, <1>4, <1>5

(* What a slot and a day give is a natural number.                          *)
LEMMA Gives ==
  /\ \A s \in Slot : OfSlot(s) \in Nat
  /\ \A e \in FarDay : OfDay(e) \in Nat
<1>1. ASSUME NEW a \in Nat, NEW b \in Nat PROVE Min({a, b}) \in Nat
  <2>1. Min({a, b}) = IF a <= b THEN a ELSE b
    BY LeastOf
  <2> QED BY <2>1
<1>2. ASSUME NEW c \in Percent, NEW x \in Nat PROVE Part(x, 100 - c) \in Nat
  <2>1. 100 - c \in Percent
    BY DEF Percent
  <2> QED BY <2>1, PartOf
<1>3. 3 * PanelHour \in Nat /\ 3 * ChargeHour \in Nat /\ PanelHour \in Nat /\ ChargeHour \in Nat
  BY ForecastAssumption
<1>4. ASSUME NEW s \in Slot PROVE OfSlot(s) \in Nat
  <2>1. s.cloud \in Percent
    BY DEF Slot
  <2>2. Part(3 * PanelHour, 100 - s.cloud) \in Nat
    BY <1>2, <1>3, <2>1
  <2> QED BY <1>1, <1>3, <2>2 DEF OfSlot
<1>5. ASSUME NEW e \in FarDay PROVE OfDay(e) \in Nat
  <2>0. e.cloud \in Percent /\ e.hours \in Daylight
    BY DEF FarDay
  <2>1. e.cloud \in Percent /\ e.hours \in Nat
    BY <2>0 DEF Daylight
  <2>2. PanelHour * e.hours \in Nat /\ ChargeHour * e.hours \in Nat
    BY <1>3, <2>1, NatTimes
  <2>3. Part(PanelHour * e.hours, 100 - e.cloud) \in Nat
    BY <1>2, <2>1, <2>2
  <2> QED BY <1>1, <2>2, <2>3 DEF OfDay
<1> QED BY <1>4, <1>5

LEMMA ChargedLevel ==
  ASSUME NEW profile, NEW level \in Levels, NEW wh \in Nat
  PROVE  Charged(profile, level, wh) \in Levels
<1>1. Min({level + wh, Capacity}) = IF level + wh <= Capacity THEN level + wh ELSE Capacity
  BY LeastOf, ForecastAssumption DEF Levels
<1>2. Charged(profile, level, wh) \in {level, Min({level + wh, Capacity})}
  BY DEF Charged
<1> QED BY <1>1, <1>2, ForecastAssumption DEF Levels

(* The last element replaced.                                               *)
LEMMA PutLast ==
  ASSUME NEW S, NEW s \in Seq(S), s # <<>>, NEW x \in S
  PROVE  LET t == Append(Front(s), x) IN
         /\ t \in Seq(S) /\ Len(t) = Len(s) /\ t[Len(s)] = x
         /\ \A i \in 1..Len(s) : i < Len(s) => t[i] = s[i]
<1>1. Len(s) \in Nat \ {0} /\ \A i \in 1..Len(s) : s[i] \in S
  BY EmptySeq, LenProperties, ElementOfSeq
<1> DEFINE n == Len(s) - 1
           f == SubSeq(s, 1, n)
<1>2. f \in Seq(S) /\ Len(f) = n /\ \A i \in 1..n : f[i] = s[i]
  <2>1. n \in Int /\ \A i \in 1..n : s[i] \in S
    BY <1>1
  <2>2. /\ f \in Seq(S) /\ Len(f) = IF 1 <= n THEN n - 1 + 1 ELSE 0
        /\ \A i \in 1..(n - 1 + 1) : f[i] = s[1 + i - 1]
    <3> HIDE DEF n
    <3> QED BY <2>1, SubSeqProperties
  <2>3. Len(f) = n
    <3>1. ASSUME NEW k \in Nat \ {0}
          PROVE  (IF 1 <= k - 1 THEN k - 1 - 1 + 1 ELSE 0) = k - 1
      OBVIOUS
    <3>2. Len(f) = IF 1 <= n THEN n - 1 + 1 ELSE 0
      <4> HIDE DEF f, n
      <4> QED BY <2>2
    <3> HIDE DEF f
    <3> QED BY <1>1, <3>1, <3>2, Zenon
  <2>4. ASSUME NEW i \in 1..n PROVE f[i] = s[i]
    <3>1. i \in 1..(n - 1 + 1) /\ 1 + i - 1 = i
      BY <2>1, <2>4
    <3> QED BY <2>2, <3>1
  <2> QED BY <2>2, <2>3, <2>4
<1>3. Front(s) = f
  BY DEF Front
<1> HIDE DEF f
<1> DEFINE t == Append(f, x)
<1>4. /\ t \in Seq(S) /\ Len(t) = n + 1 /\ t[n + 1] = x
      /\ \A i \in 1..n : t[i] = f[i]
  BY <1>2, AppendProperties
<1> HIDE DEF t
<1>5. /\ Len(t) = Len(s) /\ t[Len(s)] = x
      /\ \A i \in 1..Len(s) : i < Len(s) => t[i] = s[i]
  BY <1>1, <1>2, <1>4
<1> QED BY <1>3, <1>4, <1>5 DEF t

DaySums == [day : Nat, wh : Nat, taken : Nat, level : Levels, ext : BOOLEAN]
Accs == [level : Levels, days : Seq(DaySums)]

\* d is added to the days of an acc: as a new one, or in the place of the last.
Puts(acc, r, new, d) ==
  LET n == Len(acc.days)
      m == IF new THEN n + 1 ELSE n
  IN  /\ Len(r.days) = m /\ r.days[m] = d
      /\ \A i \in 1..n : i < m => r.days[i] = acc.days[i]

\* What there is before the slot or the day is added.
IsNew(acc, s) == acc.days = <<>> \/ Last(acc.days).day # s.day
Before(acc, s) ==
  IF IsNew(acc, s) THEN [day |-> s.day, wh |-> 0, taken |-> 0, level |-> 0, ext |-> FALSE]
  ELSE Last(acc.days)
Added(b, wh, taken, level) == [b EXCEPT !.wh = @ + wh, !.taken = @ + taken, !.level = level]
TakenOf(profile, acc, s) == Part(OfSlot(s), Accepts(profile, acc.level))

LEMMA SlotAdded ==
  ASSUME NEW profile \in Buckets \union {<<>>}, NEW acc \in Accs, NEW s \in Slot
  PROVE  LET r == AddSlot(profile, acc, s)
             b == Before(acc, s)
             t == TakenOf(profile, acc, s)
         IN  /\ r \in Accs /\ OfSlot(s) \in Nat /\ t \in Nat /\ t <= OfSlot(s) /\ b \in DaySums
             /\ b.day = s.day
             /\ Puts(acc, r, IsNew(acc, s), Added(b, OfSlot(s), t, r.level))
<1> DEFINE g == OfSlot(s)
           t == TakenOf(profile, acc, s)
           b == Before(acc, s)
           new == IsNew(acc, s)
           l == Charged(profile, acc.level, t)
           d == Added(b, g, t, l)
           r == AddSlot(profile, acc, s)
           n == Len(acc.days)
<1>1. acc.level \in Levels /\ acc.days \in Seq(DaySums)
  BY DEF Accs
<1>2. g \in Nat /\ t \in Nat /\ t <= g
  <2>1. Accepts(profile, acc.level) \in Percent
    BY <1>1, AcceptsPercent
  <2> QED BY <2>1, Gives, PartOf DEF TakenOf
<1>3. r = [level |-> l, days |-> Append(IF new THEN acc.days ELSE Front(acc.days), d)]
  BY Zenon DEF AddSlot, IsNew, Before, TakenOf, Added
<1>4. n \in Nat /\ (n = 0 <=> acc.days = <<>>) /\ \A i \in 1..n : acc.days[i] \in DaySums
  BY <1>1, EmptySeq, LenProperties, ElementOfSeq
<1>5. ~new => n # 0 /\ Last(acc.days) \in DaySums /\ Last(acc.days).day = s.day
  BY <1>4 DEF IsNew, Last
<1>6. b \in DaySums /\ b.day = s.day
  <2>1. CASE new
    <3>1. s.day \in Nat /\ 0 \in Levels
      BY ForecastAssumption DEF Slot, Levels
    <3>2. b = [day |-> s.day, wh |-> 0, taken |-> 0, level |-> 0, ext |-> FALSE]
      BY <2>1 DEF Before
    <3> QED BY <3>1, <3>2 DEF DaySums
  <2>2. CASE ~new
    BY <1>5, <2>2 DEF Before
  <2> QED BY <2>1, <2>2
<1>7. l \in Levels
  BY <1>1, <1>2, ChargedLevel
<1> HIDE DEF g, t, b, new, l, r
<1>8. d \in DaySums
  <2>1. ASSUME NEW x \in DaySums, NEW k \in Nat
        PROVE  [x EXCEPT !.wh = k] \in DaySums /\ [x EXCEPT !.taken = k] \in DaySums
    BY <2>1 DEF DaySums
  <2>2. ASSUME NEW x \in DaySums PROVE [x EXCEPT !.level = l] \in DaySums
    BY <1>7, <2>2 DEF DaySums
  <2>3. b.wh \in Nat /\ b.taken \in Nat
    BY <1>6 DEF DaySums
  <2> DEFINE b1 == [b EXCEPT !.wh = b.wh + g]
             b2 == [b1 EXCEPT !.taken = b.taken + t]
  <2>4. b1 \in DaySums /\ b1.taken = b.taken
    BY <1>2, <1>6, <2>1, <2>3 DEF DaySums
  <2>5. b2 \in DaySums
    <3>1. b.taken + t \in Nat
      BY <1>2, <2>3
    <3> HIDE DEF b1
    <3> QED BY <2>1, <2>4, <3>1, Zenon
  <2>6. [b2 EXCEPT !.level = l] \in DaySums
    <3> HIDE DEF b2
    <3> QED BY <2>2, <2>5
  <2>7. d = [b2 EXCEPT !.level = l]
    BY <2>4 DEF Added
  <2> QED BY <2>6, <2>7
<1> HIDE DEF d
<1>9. r \in Accs /\ r.level = l /\ Puts(acc, r, new, d)
  <2>1. CASE new
    <3>1. r.days = Append(acc.days, d) /\ r.level = l /\ r = [level |-> l, days |-> r.days]
      BY <1>3, <2>1
    <3>2. /\ Append(acc.days, d) \in Seq(DaySums) /\ Len(Append(acc.days, d)) = n + 1
          /\ Append(acc.days, d)[n + 1] = d
          /\ \A i \in 1..n : Append(acc.days, d)[i] = acc.days[i]
      BY <1>1, <1>8, AppendProperties
    <3>3. r.days \in Seq(DaySums) /\ Len(r.days) = n + 1 /\ r.days[n + 1] = d
          /\ \A i \in 1..n : r.days[i] = acc.days[i]
      BY <3>1, <3>2
    <3> QED BY <1>7, <2>1, <3>1, <3>3 DEF Accs, Puts
  <2>2. CASE ~new
    <3>1. r.days = Append(Front(acc.days), d) /\ r.level = l /\ r = [level |-> l, days |-> r.days]
      BY <1>3, <2>2
    <3>2. acc.days # <<>>
      BY <1>4, <1>5, <2>2
    <3>3. /\ r.days \in Seq(DaySums) /\ Len(r.days) = n /\ r.days[n] = d
          /\ \A i \in 1..n : i < n => r.days[i] = acc.days[i]
      BY <1>1, <1>8, <3>1, <3>2, PutLast
    <3> QED BY <1>7, <2>2, <3>1, <3>3 DEF Accs, Puts
  <2> QED BY <2>1, <2>2
<1>10. Puts(acc, r, new, Added(b, g, t, r.level))
  BY <1>9 DEF d
<1> QED BY <1>2, <1>6, <1>9, <1>10 DEF g, t, b, new, r

-----------------------------------------------------------------------------
Sane(acc) == acc \in Accs /\ \A i \in 1..Len(acc.days) : acc.days[i].taken <= acc.days[i].wh
Dated(days) == \A i, j \in 1..Len(days) : i < j => days[i].day < days[j].day
Until(days, d) == \A i \in 1..Len(days) : days[i].day <= d
Distinct(days) == \A i, j \in 1..Len(days) : days[i].day = days[j].day => i = j

\* The days of the nominal forecast and those of the realistic one.
Alike(a, b) ==
  /\ Len(a.days) = Len(b.days)
  /\ \A i \in 1..Len(a.days) :
       /\ a.days[i].day = b.days[i].day
       /\ a.days[i].wh = b.days[i].wh /\ a.days[i].taken = a.days[i].wh

LEMMA AccFields ==
  ASSUME NEW acc \in Accs
  PROVE  /\ acc.level \in Levels /\ acc.days \in Seq(DaySums) /\ Len(acc.days) \in Nat
         /\ \A i \in 1..Len(acc.days) :
              /\ acc.days[i] \in DaySums
              /\ acc.days[i].day \in Nat /\ acc.days[i].wh \in Nat /\ acc.days[i].taken \in Nat
<1>1. acc.level \in Levels /\ acc.days \in Seq(DaySums)
  BY DEF Accs
<1>2. Len(acc.days) \in Nat /\ \A i \in 1..Len(acc.days) : acc.days[i] \in DaySums
  BY <1>1, LenProperties, ElementOfSeq
<1> QED BY <1>1, <1>2 DEF DaySums

(* A slot adds to its day, and the days stay in order.                      *)
LEMMA SlotSane ==
  ASSUME NEW profile \in Buckets \union {<<>>}, NEW acc, Sane(acc), NEW s \in Slot,
         Dated(acc.days), Until(acc.days, s.day)
  PROVE  LET r == AddSlot(profile, acc, s) IN
         Sane(r) /\ Dated(r.days) /\ Until(r.days, s.day)
<1> DEFINE r == AddSlot(profile, acc, s)
           b == Before(acc, s)
           t == TakenOf(profile, acc, s)
           g == OfSlot(s)
           new == IsNew(acc, s)
           d == Added(b, g, t, r.level)
           n == Len(acc.days)
           m == IF new THEN n + 1 ELSE n
<1>1. acc \in Accs
  BY DEF Sane
<1>2. /\ r \in Accs /\ g \in Nat /\ t \in Nat /\ t <= g /\ b \in DaySums /\ b.day = s.day
      /\ Puts(acc, r, new, d)
  BY <1>1, SlotAdded
<1>3. /\ n \in Nat
      /\ \A i \in 1..n : acc.days[i].day \in Nat /\ acc.days[i].taken <= acc.days[i].wh
  BY <1>1, AccFields DEF Sane
<1>4. ~new => n # 0 /\ b = acc.days[n] /\ acc.days[n].day = s.day
  <2>1. acc.days = <<>> <=> n = 0
    BY <1>1, AccFields, EmptySeq, LenProperties
  <2> QED BY <2>1 DEF IsNew, Before, Last
<1>5. new => n = 0 \/ acc.days[n].day # s.day
  <2>1. acc.days = <<>> => n = 0
    BY EmptySeq
  <2> QED BY <2>1 DEF IsNew, Last
<1>6. b.wh \in Nat /\ b.taken \in Nat /\ b.taken <= b.wh
  <2>1. CASE new
    <3>1. b = [day |-> s.day, wh |-> 0, taken |-> 0, level |-> 0, ext |-> FALSE]
      BY <2>1 DEF Before
    <3> QED BY <3>1
  <2>2. CASE ~new
    BY <1>2, <1>3, <1>4, <2>2 DEF DaySums
  <2> QED BY <2>1, <2>2
<1>7. d.day = s.day /\ d.wh = b.wh + g /\ d.taken = b.taken + t
  BY <1>2 DEF DaySums, Added
<1>8. s.day \in Nat
  BY DEF Slot
<1> HIDE DEF b, t, g, new, d, r
<1>81. d.taken <= d.wh
  BY <1>2, <1>6, <1>7
<1>9. Len(r.days) = m /\ r.days[m] = d /\ \A i \in 1..n : i < m => r.days[i] = acc.days[i]
  BY <1>2 DEF Puts
<1>10. \A i \in 1..n : new => acc.days[i].day < s.day
  <2> SUFFICES ASSUME new, NEW i \in 1..n PROVE acc.days[i].day < s.day
    OBVIOUS
  <2>1. acc.days[n].day <= s.day /\ acc.days[n].day # s.day /\ n \in 1..n
    BY <1>3, <1>5 DEF Until
  <2>2. i = n \/ acc.days[i].day < acc.days[n].day
    BY <1>3, <2>1 DEF Dated
  <2> QED BY <1>3, <1>8, <2>1, <2>2
<1>11. Sane(r)
  <2>1. ASSUME NEW i \in 1..m PROVE r.days[i].taken <= r.days[i].wh
    <3>1. CASE i = m
      BY <1>81, <1>9, <3>1
    <3>2. CASE i # m
      <4>1. i \in 1..n /\ i < m
        BY <1>3, <1>4, <3>2
      <4> QED BY <1>3, <1>9, <4>1
    <3> QED BY <3>1, <3>2
  <2> QED BY <1>2, <1>9, <2>1 DEF Sane
<1>12. Until(r.days, s.day)
  <2>1. ASSUME NEW i \in 1..m PROVE r.days[i].day <= s.day
    <3>1. CASE i = m
      BY <1>7, <1>8, <1>9, <3>1
    <3>2. CASE i # m
      <4>1. i \in 1..n /\ i < m
        BY <1>3, <1>4, <3>2
      <4> QED BY <1>9, <4>1 DEF Until
    <3> QED BY <3>1, <3>2
  <2> QED BY <1>9, <2>1 DEF Until
<1>13. Dated(r.days)
  <2>1. ASSUME NEW i \in 1..m, NEW j \in 1..m, i < j PROVE r.days[i].day < r.days[j].day
    <3>1. i \in 1..n /\ i < m /\ r.days[i] = acc.days[i]
      BY <1>3, <1>9, <2>1
    <3>2. CASE j = m /\ new
      BY <1>7, <1>9, <1>10, <3>1, <3>2
    <3>3. CASE j = m /\ ~new
      <4>1. m = n /\ acc.days[i].day < acc.days[n].day
        BY <1>3, <2>1, <3>1, <3>3 DEF Dated
      <4> QED BY <1>4, <1>7, <1>9, <3>1, <3>3, <4>1
    <3>4. CASE j # m
      <4>1. j \in 1..n /\ j < m /\ r.days[j] = acc.days[j]
        BY <1>3, <1>9, <3>4
      <4> QED BY <2>1, <3>1, <4>1 DEF Dated
    <3> QED BY <3>2, <3>3, <3>4
  <2> QED BY <1>9, <2>1 DEF Dated
<1> QED BY <1>11, <1>12, <1>13 DEF r

(* The nominal forecast takes all there is.                                 *)
LEMMA NominalTakesAll ==
  /\ \A acc : Accepts(<<>>, acc) = 100
  /\ \A x \in Nat : Part(x, 100) = x /\ Part(x, 300) \div 3 = x
<1>1. \A acc : Accepts(<<>>, acc) = 100
  BY DEF Accepts
<1>2. \A x \in Nat : Part(x, 100) = x /\ Part(x, 300) \div 3 = x
  BY DEF Part
<1> QED BY <1>1, <1>2

LEMMA SlotAlike ==
  ASSUME NEW profile \in Buckets \union {<<>>}, NEW a, Sane(a), NEW b, Sane(b), Alike(a, b),
         NEW s \in Slot
  PROVE  Alike(AddSlot(<<>>, a, s), AddSlot(profile, b, s))
<1> DEFINE q == AddSlot(<<>>, a, s)
           r == AddSlot(profile, b, s)
           n == Len(a.days)
           m == IF IsNew(a, s) THEN n + 1 ELSE n
           g == OfSlot(s)
           t == TakenOf(profile, b, s)
           x == Added(Before(a, s), g, TakenOf(<<>>, a, s), q.level)
           y == Added(Before(b, s), g, t, r.level)
<1>1. a \in Accs /\ b \in Accs
  BY DEF Sane
<1>2. /\ Len(b.days) = n /\ n \in Nat
      /\ (a.days = <<>> <=> n = 0) /\ (b.days = <<>> <=> n = 0)
  BY <1>1, AccFields, EmptySeq, LenProperties DEF Alike
<1>3. n # 0 => Last(a.days) = a.days[n] /\ Last(b.days) = b.days[n] /\ n \in 1..n
  BY <1>2 DEF Last
<1>4. IsNew(a, s) = IsNew(b, s)
  BY <1>2, <1>3 DEF IsNew, Alike
<1>5. /\ g \in Nat /\ Puts(a, q, IsNew(a, s), x)
      /\ Before(a, s) \in DaySums /\ Before(a, s).day = s.day
  BY <1>1, SlotAdded
<1>6. /\ Puts(b, r, IsNew(b, s), y)
      /\ Before(b, s) \in DaySums /\ Before(b, s).day = s.day
  BY <1>1, SlotAdded
<1>7. TakenOf(<<>>, a, s) = g
  BY <1>5, NominalTakesAll DEF TakenOf
<1>8. Before(a, s).wh = Before(b, s).wh /\ Before(a, s).taken = Before(a, s).wh
  <2>1. CASE IsNew(a, s)
    BY <1>4, <2>1 DEF Before
  <2>2. CASE ~IsNew(a, s)
    <3>1. n # 0
      BY <1>2, <2>2 DEF IsNew
    <3> QED BY <1>3, <1>4, <2>2, <3>1 DEF Before, Alike
  <2> QED BY <2>1, <2>2
<1>9. /\ x.day = s.day /\ x.wh = Before(a, s).wh + g /\ x.taken = Before(a, s).taken + g
      /\ y.day = s.day /\ y.wh = Before(b, s).wh + g
  BY <1>5, <1>6, <1>7 DEF Added, DaySums
<1> HIDE DEF g, t, x, y, q, r
<1>10. x.day = y.day /\ x.wh = y.wh /\ x.taken = x.wh
  BY <1>8, <1>9
<1>11. /\ Len(q.days) = m /\ q.days[m] = x /\ \A i \in 1..n : i < m => q.days[i] = a.days[i]
       /\ Len(r.days) = m /\ r.days[m] = y /\ \A i \in 1..n : i < m => r.days[i] = b.days[i]
  BY <1>2, <1>4, <1>5, <1>6 DEF Puts
<1>12. ASSUME NEW i \in 1..m
       PROVE  /\ q.days[i].day = r.days[i].day
              /\ q.days[i].wh = r.days[i].wh /\ q.days[i].taken = q.days[i].wh
  <2>1. CASE i = m
    BY <1>10, <1>11, <2>1
  <2>2. CASE i # m
    <3>1. i \in 1..n /\ i < m
      BY <1>2, <2>2
    <3> QED BY <1>11, <3>1 DEF Alike
  <2> QED BY <2>1, <2>2
<1> QED BY <1>11, <1>12 DEF Alike, q, r

-----------------------------------------------------------------------------
Known(acc, e) == \E i \in DOMAIN acc.days : acc.days[i].day = e.day
FarSum(e, taken, level) ==
  [day |-> e.day, wh |-> OfDay(e), taken |-> taken, level |-> level, ext |-> TRUE]

LEMMA DayAdded ==
  ASSUME NEW profile \in Buckets \union {<<>>}, NEW acc \in Accs, NEW e \in FarDay
  PROVE  LET r == AddDay(profile, acc, e)
             t == InThirds(profile, acc.level, OfDay(e))
         IN  /\ r \in Accs /\ OfDay(e) \in Nat /\ t \in Nat /\ t <= OfDay(e)
             /\ Known(acc, e) => r = acc
             /\ ~Known(acc, e) => Puts(acc, r, TRUE, FarSum(e, t, r.level))
<1> DEFINE g == OfDay(e)
           t == InThirds(profile, acc.level, g)
           l == Charged(profile, acc.level, t)
           d == FarSum(e, t, l)
           r == AddDay(profile, acc, e)
           n == Len(acc.days)
<1>1. acc.level \in Levels /\ acc.days \in Seq(DaySums)
  BY DEF Accs
<1>2. g \in Nat
  BY Gives
<1>3. t \in Nat /\ t <= g
  <2> DEFINE at(k) == Min({acc.level + (k * g) \div 3, Capacity})
  <2>1. ASSUME NEW k \in Nat PROVE at(k) \in Levels
    <3>1. acc.level \in Nat /\ (k * g) \div 3 \in Nat /\ Capacity \in Nat
      BY <1>1, <1>2, NatTimes, NatDiv, ForecastAssumption DEF Levels
    <3>2. ASSUME NEW x \in Nat PROVE Min({x, Capacity}) \in Levels
      <4>1. Min({x, Capacity}) = IF x <= Capacity THEN x ELSE Capacity
        BY <3>1, LeastOf
      <4> QED BY <3>1, <4>1 DEF Levels
    <3> QED BY <3>1, <3>2
  <2>2. \A k \in Nat : Accepts(profile, at(k)) \in Percent
    BY <2>1, AcceptsPercent
  <2>3. t = Part(g, Accepts(profile, at(0)) + Accepts(profile, at(1)) + Accepts(profile, at(2))) \div 3
    BY DEF InThirds
  <2> HIDE DEF at, t, g
  <2> QED BY <1>2, <2>2, <2>3, ThreeParts
<1>4. l \in Levels
  BY <1>1, <1>3, ChargedLevel
<1>5. r = IF Known(acc, e) THEN acc ELSE [level |-> l, days |-> Append(acc.days, d)]
  BY Zenon DEF AddDay, Known, FarSum
<1>6. d \in DaySums
  <2>1. e.day \in Nat
    BY DEF FarDay
  <2> QED BY <1>2, <1>3, <1>4, <2>1 DEF DaySums, FarSum
<1> HIDE DEF g, t, l, d, r
<1>7. CASE Known(acc, e)
  BY <1>2, <1>3, <1>5, <1>7 DEF g, t, r
<1>8. CASE ~Known(acc, e)
  <2>1. r.days = Append(acc.days, d) /\ r.level = l /\ r = [level |-> l, days |-> r.days]
    BY <1>5, <1>8
  <2>2. /\ r.days \in Seq(DaySums) /\ Len(r.days) = n + 1 /\ r.days[n + 1] = d
        /\ \A i \in 1..n : r.days[i] = acc.days[i]
    BY <1>1, <1>6, <2>1, AppendProperties
  <2>3. r \in Accs
    BY <1>4, <2>1, <2>2 DEF Accs
  <2>4. d = FarSum(e, t, r.level)
    BY <2>1 DEF d
  <2>5. Puts(acc, r, TRUE, d)
    BY <2>2 DEF Puts
  <2> QED BY <1>2, <1>3, <1>8, <2>3, <2>4, <2>5 DEF g, t, r
<1> QED BY <1>7, <1>8

(* A day that is known already adds nothing, another one is new.            *)
LEMMA DaySane ==
  ASSUME NEW profile \in Buckets \union {<<>>}, NEW acc, Sane(acc), Distinct(acc.days), NEW e \in FarDay
  PROVE  LET r == AddDay(profile, acc, e) IN Sane(r) /\ Distinct(r.days)
<1> DEFINE r == AddDay(profile, acc, e)
           t == InThirds(profile, acc.level, OfDay(e))
           n == Len(acc.days)
           d == FarSum(e, t, r.level)
<1>1. acc \in Accs
  BY DEF Sane
<1>2. /\ r \in Accs /\ OfDay(e) \in Nat /\ t \in Nat /\ t <= OfDay(e)
      /\ Known(acc, e) => r = acc
      /\ ~Known(acc, e) => Puts(acc, r, TRUE, d)
  BY <1>1, DayAdded
<1>3. n \in Nat /\ DOMAIN acc.days = 1..n
  BY <1>1, AccFields, LenProperties
<1>4. d.day = e.day /\ d.wh = OfDay(e) /\ d.taken = t
  BY DEF FarSum
<1> HIDE DEF t, d, r
<1>5. CASE Known(acc, e)
  BY <1>2, <1>5 DEF r
<1>6. CASE ~Known(acc, e)
  <2>1. /\ Len(r.days) = n + 1 /\ r.days[n + 1] = d
        /\ \A i \in 1..n : r.days[i] = acc.days[i]
    BY <1>2, <1>3, <1>6 DEF Puts
  <2>2. \A i \in 1..n : acc.days[i].day # e.day
    BY <1>3, <1>6 DEF Known
  <2>3. Sane(r)
    <3>1. ASSUME NEW i \in 1..(n + 1) PROVE r.days[i].taken <= r.days[i].wh
      <4>1. CASE i = n + 1
        BY <1>2, <1>4, <2>1, <4>1
      <4>2. CASE i \in 1..n
        BY <2>1, <4>2 DEF Sane
      <4> QED BY <1>3, <4>1, <4>2
    <3> QED BY <1>2, <2>1, <3>1 DEF Sane
  <2>4. Distinct(r.days)
    <3>1. ASSUME NEW i \in 1..(n + 1), NEW j \in 1..(n + 1), r.days[i].day = r.days[j].day
          PROVE  i = j
      <4>1. CASE i \in 1..n /\ j \in 1..n
        BY <2>1, <3>1, <4>1 DEF Distinct
      <4>2. CASE i = n + 1 /\ j \in 1..n
        BY <1>4, <2>1, <2>2, <3>1, <4>2
      <4>3. CASE i \in 1..n /\ j = n + 1
        BY <1>4, <2>1, <2>2, <3>1, <4>3
      <4> QED BY <1>3, <4>1, <4>2, <4>3
    <3> QED BY <2>1, <3>1 DEF Distinct
  <2> QED BY <2>3, <2>4 DEF r
<1> QED BY <1>5, <1>6

LEMMA DayAlike ==
  ASSUME NEW profile \in Buckets \union {<<>>}, NEW a, Sane(a), NEW b, Sane(b), Alike(a, b),
         NEW e \in FarDay
  PROVE  Alike(AddDay(<<>>, a, e), AddDay(profile, b, e))
<1> DEFINE q == AddDay(<<>>, a, e)
           r == AddDay(profile, b, e)
           n == Len(a.days)
           x == FarSum(e, InThirds(<<>>, a.level, OfDay(e)), q.level)
           y == FarSum(e, InThirds(profile, b.level, OfDay(e)), r.level)
<1>1. a \in Accs /\ b \in Accs
  BY DEF Sane
<1>2. Len(b.days) = n /\ n \in Nat /\ DOMAIN a.days = 1..n /\ DOMAIN b.days = 1..n
  BY <1>1, AccFields, LenProperties DEF Alike
<1>3. Known(a, e) = Known(b, e)
  BY <1>2 DEF Known, Alike
<1>4. /\ OfDay(e) \in Nat
      /\ Known(a, e) => q = a
      /\ ~Known(a, e) => Puts(a, q, TRUE, x)
  BY <1>1, DayAdded
<1>5. /\ Known(b, e) => r = b
      /\ ~Known(b, e) => Puts(b, r, TRUE, y)
  BY <1>1, DayAdded
<1>6. InThirds(<<>>, a.level, OfDay(e)) = OfDay(e)
  BY <1>4, NominalTakesAll DEF InThirds
<1>7. x.day = y.day /\ x.wh = y.wh /\ x.taken = x.wh
  BY <1>6 DEF FarSum
<1> HIDE DEF x, y, q, r
<1>8. CASE Known(a, e)
  BY <1>3, <1>4, <1>5, <1>8 DEF q, r
<1>9. CASE ~Known(a, e)
  <2>1. /\ Len(q.days) = n + 1 /\ q.days[n + 1] = x /\ \A i \in 1..n : q.days[i] = a.days[i]
        /\ Len(r.days) = n + 1 /\ r.days[n + 1] = y /\ \A i \in 1..n : r.days[i] = b.days[i]
    BY <1>2, <1>3, <1>4, <1>5, <1>9 DEF Puts
  <2>2. ASSUME NEW i \in 1..(n + 1)
        PROVE  /\ q.days[i].day = r.days[i].day
               /\ q.days[i].wh = r.days[i].wh /\ q.days[i].taken = q.days[i].wh
    <3>1. CASE i = n + 1
      BY <1>7, <2>1, <3>1
    <3>2. CASE i \in 1..n
      BY <2>1, <3>2 DEF Alike
    <3> QED BY <1>2, <3>1, <3>2
  <2> QED BY <2>1, <2>2 DEF Alike, q, r
<1> QED BY <1>8, <1>9

-----------------------------------------------------------------------------
\* The recursive function of Near up to n, and that of Further.
NearSteps(profile, level, list, n, f) ==
  f = [k \in 0..n |-> IF k = 0 THEN [level |-> level, days |-> <<>>]
                      ELSE AddSlot(profile, f[k - 1], list[k])]
FarSteps(profile, near, list, n, f) ==
  f = [k \in 0..n |-> IF k = 0 THEN near ELSE AddDay(profile, f[k - 1], list[k])]
SlotBySlot(profile, level, list, n, f) ==
  /\ f[0] = [level |-> level, days |-> <<>>]
  /\ \A k \in Nat : k < n => f[k + 1] = AddSlot(profile, f[k], list[k + 1])
DayByDay(profile, near, list, n, f) ==
  /\ f[0] = near
  /\ \A k \in Nat : k < n => f[k + 1] = AddDay(profile, f[k], list[k + 1])

(* Both functions exist, for any list.                                      *)
LEMMA NearStepsExist ==
  ASSUME NEW profile, NEW level, NEW list
  PROVE  \A n \in Nat : \E f : NearSteps(profile, level, list, n, f)
<1> SUFFICES ASSUME NEW N \in Nat PROVE \E f : NearSteps(profile, level, list, N, f)
  OBVIOUS
<1> DEFINE T == {k \in 0..N : \E f : NearSteps(profile, level, list, k, f)}
<1>1. 0 \in T
  <2>1. NearSteps(profile, level, list, 0, [k \in 0..0 |-> [level |-> level, days |-> <<>>]])
    BY DEF NearSteps
  <2> QED BY <2>1
<1>2. ASSUME NEW n \in Nat, n \in T, n < N
      PROVE  n + 1 \in T
  <2>1. PICK f : NearSteps(profile, level, list, n, f)
    BY <1>2
  <2> DEFINE g == [k \in 0..(n + 1) |-> IF k = n + 1 THEN AddSlot(profile, f[n], list[n + 1]) ELSE f[k]]
  <2>2. NearSteps(profile, level, list, n + 1, g)
    <3>1. ASSUME NEW k \in 0..(n + 1)
          PROVE  g[k] = IF k = 0 THEN [level |-> level, days |-> <<>>] ELSE AddSlot(profile, g[k - 1], list[k])
      BY <1>2, <2>1 DEF NearSteps
    <3> QED BY <3>1 DEF NearSteps
  <2> HIDE DEF g
  <2>3. \E h : NearSteps(profile, level, list, n + 1, h)
    BY <2>2
  <2> QED BY <1>2, <2>3
<1>3. \A k \in 0..N : k \in T
  <2> HIDE DEF T
  <2> QED BY <1>1, <1>2, UpTo
<1> QED BY <1>3

LEMMA NearStepsAre ==
  ASSUME NEW profile, NEW level, NEW list, NEW n \in Nat, NEW f, NearSteps(profile, level, list, n, f)
  PROVE  SlotBySlot(profile, level, list, n, f)
<1>1. ASSUME NEW k \in Nat, k < n
      PROVE  f[k + 1] = AddSlot(profile, f[k], list[k + 1])
  <2>1. k + 1 \in 0..n /\ k + 1 # 0 /\ k + 1 - 1 = k
    BY <1>1
  <2> QED BY <2>1 DEF NearSteps
<1>2. f[0] = [level |-> level, days |-> <<>>]
  BY DEF NearSteps
<1> QED BY <1>1, <1>2 DEF SlotBySlot

(* The one of the days.                                                     *)
LEMMA FarStepsExist ==
  ASSUME NEW profile, NEW near, NEW list
  PROVE  \A n \in Nat : \E f : FarSteps(profile, near, list, n, f)
<1> SUFFICES ASSUME NEW N \in Nat PROVE \E f : FarSteps(profile, near, list, N, f)
  OBVIOUS
<1> DEFINE T == {k \in 0..N : \E f : FarSteps(profile, near, list, k, f)}
<1>1. 0 \in T
  <2>1. FarSteps(profile, near, list, 0, [k \in 0..0 |-> near])
    BY DEF FarSteps
  <2> QED BY <2>1
<1>2. ASSUME NEW n \in Nat, n \in T, n < N
      PROVE  n + 1 \in T
  <2>1. PICK f : FarSteps(profile, near, list, n, f)
    BY <1>2
  <2> DEFINE g == [k \in 0..(n + 1) |-> IF k = n + 1 THEN AddDay(profile, f[n], list[n + 1]) ELSE f[k]]
  <2>2. FarSteps(profile, near, list, n + 1, g)
    <3>1. ASSUME NEW k \in 0..(n + 1)
          PROVE  g[k] = IF k = 0 THEN near ELSE AddDay(profile, g[k - 1], list[k])
      BY <1>2, <2>1 DEF FarSteps
    <3> QED BY <3>1 DEF FarSteps
  <2> HIDE DEF g
  <2>3. \E h : FarSteps(profile, near, list, n + 1, h)
    BY <2>2
  <2> QED BY <1>2, <2>3
<1>3. \A k \in 0..N : k \in T
  <2> HIDE DEF T
  <2> QED BY <1>1, <1>2, UpTo
<1> QED BY <1>3

LEMMA FarStepsAre ==
  ASSUME NEW profile, NEW near, NEW list, NEW n \in Nat, NEW f, FarSteps(profile, near, list, n, f)
  PROVE  DayByDay(profile, near, list, n, f)
<1>1. ASSUME NEW k \in Nat, k < n
      PROVE  f[k + 1] = AddDay(profile, f[k], list[k + 1])
  <2>1. k + 1 \in 0..n /\ k + 1 # 0 /\ k + 1 - 1 = k
    BY <1>1
  <2> QED BY <2>1 DEF FarSteps
<1>2. f[0] = near
  BY DEF FarSteps
<1> QED BY <1>1, <1>2 DEF DayByDay

LEMMA NearIs ==
  ASSUME NEW profile, NEW level, NEW list, Len(list) \in Nat
  PROVE  \E f : /\ NearSteps(profile, level, list, Len(list), f)
                /\ Near(profile, level, list) = f[Len(list)]
<1> DEFINE f == CHOOSE f : f = [k \in 0..Len(list) |->
                                  IF k = 0 THEN [level |-> level, days |-> <<>>]
                                  ELSE AddSlot(profile, f[k - 1], list[k])]
<1>1. NearSteps(profile, level, list, Len(list), f)
  <2>1. \E g : NearSteps(profile, level, list, Len(list), g)
    BY NearStepsExist
  <2> QED BY <2>1 DEF NearSteps
<1>2. Near(profile, level, list) = f[Len(list)]
  BY DEF Near
<1> HIDE DEF f
<1> QED BY <1>1, <1>2

LEMMA FurtherIs ==
  ASSUME NEW profile, NEW near, NEW list, Len(list) \in Nat
  PROVE  \E f : /\ FarSteps(profile, near, list, Len(list), f)
                /\ Further(profile, near, list) = f[Len(list)]
<1> DEFINE f == CHOOSE f : f = [k \in 0..Len(list) |->
                                  IF k = 0 THEN near ELSE AddDay(profile, f[k - 1], list[k])]
<1>1. FarSteps(profile, near, list, Len(list), f)
  <2>1. \E g : FarSteps(profile, near, list, Len(list), g)
    BY FarStepsExist
  <2> QED BY <2>1 DEF FarSteps
<1>2. Further(profile, near, list) = f[Len(list)]
  BY DEF Further
<1> HIDE DEF f
<1> QED BY <1>1, <1>2

SlotLists == {list \in Seq(Slot) : \A i, j \in DOMAIN list : i <= j => list[i].day <= list[j].day}

\* In order, and not after what is still to come.
InOrderTo(acc, list, k) ==
  Sane(acc) /\ Dated(acc.days) /\ \A m \in 1..Len(list) : k < m => Until(acc.days, list[m].day)

LEMMA NearSane ==
  ASSUME NEW profile \in Buckets \union {<<>>}, NEW level \in Levels, NEW list \in SlotLists, NEW f,
         NearSteps(profile, level, list, Len(list), f)
  PROVE  \A k \in 0..Len(list) : InOrderTo(f[k], list, k)
<1> DEFINE n == Len(list)
           T == {k \in 0..n : InOrderTo(f[k], list, k)}
<1>1. /\ n \in Nat /\ DOMAIN list = 1..n
      /\ \A i \in 1..n : list[i] \in Slot
      /\ \A i, j \in 1..n : i <= j => list[i].day <= list[j].day
  BY LenProperties, ElementOfSeq DEF SlotLists
<1>2. f[0] = [level |-> level, days |-> <<>>]
      /\ \A k \in Nat : k < n => f[k + 1] = AddSlot(profile, f[k], list[k + 1])
  <2>1. SlotBySlot(profile, level, list, n, f)
    BY <1>1, NearStepsAre
  <2> QED BY <2>1 DEF SlotBySlot
<1>3. 0 \in T
  <2>1. <<>> \in Seq(DaySums) /\ Len(<<>>) = 0
    BY EmptySeq
  <2>2. f[0].days = <<>> /\ f[0] \in Accs
    BY <1>2, <2>1 DEF Accs
  <2> QED BY <1>1, <2>1, <2>2 DEF InOrderTo, Sane, Dated, Until
<1>4. ASSUME NEW k \in Nat, k \in T, k < n
      PROVE  k + 1 \in T
  <2>1. /\ Sane(f[k]) /\ Dated(f[k].days) /\ k + 1 \in 1..n
        /\ \A m \in 1..n : k < m => Until(f[k].days, list[m].day)
    BY <1>4 DEF InOrderTo
  <2>2. list[k + 1] \in Slot /\ Until(f[k].days, list[k + 1].day)
    BY <1>1, <1>4, <2>1
  <2> DEFINE r == AddSlot(profile, f[k], list[k + 1])
  <2>3. Sane(r) /\ Dated(r.days) /\ Until(r.days, list[k + 1].day)
    BY <2>1, <2>2, SlotSane
  <2>4. f[k + 1] = r
    BY <1>2, <1>4
  <2> HIDE DEF r
  <2>5. r \in Accs
    BY <2>3 DEF Sane
  <2>6. \A i \in 1..Len(r.days) : r.days[i].day \in Nat
    BY <2>5, AccFields
  <2>7. ASSUME NEW m \in 1..n, k + 1 < m PROVE Until(r.days, list[m].day)
    <3>1. list[k + 1].day <= list[m].day /\ list[k + 1].day \in Nat /\ list[m].day \in Nat
      BY <1>1, <2>1, <2>7 DEF Slot
    <3>2. ASSUME NEW i \in 1..Len(r.days) PROVE r.days[i].day <= list[m].day
      <4>1. r.days[i].day <= list[k + 1].day /\ r.days[i].day \in Nat
        BY <2>3, <2>6 DEF Until
      <4>2. ASSUME NEW x \in Nat, NEW y \in Nat, NEW z \in Nat, x <= y, y <= z PROVE x <= z
        BY <4>2
      <4> QED BY <3>1, <4>1, <4>2, Zenon
    <3> QED BY <3>2 DEF Until
  <2> QED BY <1>4, <2>3, <2>4, <2>7 DEF InOrderTo
<1>5. \A k \in 0..n : k \in T
  <2> HIDE DEF T, n
  <2> QED BY <1>1, <1>3, <1>4, UpTo
<1> QED BY <1>5

LEMMA NearAlike ==
  ASSUME NEW profile \in Buckets \union {<<>>}, NEW level \in Levels, NEW list \in SlotLists, NEW f, NEW g,
         NearSteps(<<>>, level, list, Len(list), f), NearSteps(profile, level, list, Len(list), g)
  PROVE  Alike(f[Len(list)], g[Len(list)])
<1> DEFINE n == Len(list)
           T == {k \in 0..n : Alike(f[k], g[k])}
<1>1. n \in Nat /\ \A i \in 1..n : list[i] \in Slot
  BY LenProperties, ElementOfSeq DEF SlotLists
<1>2. /\ f[0] = [level |-> level, days |-> <<>>] /\ g[0] = [level |-> level, days |-> <<>>]
      /\ \A k \in Nat : k < n => f[k + 1] = AddSlot(<<>>, f[k], list[k + 1])
      /\ \A k \in Nat : k < n => g[k + 1] = AddSlot(profile, g[k], list[k + 1])
  <2>1. SlotBySlot(<<>>, level, list, n, f) /\ SlotBySlot(profile, level, list, n, g)
    BY <1>1, NearStepsAre
  <2> QED BY <2>1 DEF SlotBySlot
<1>3. \A k \in 0..n : Sane(f[k]) /\ Sane(g[k])
  BY NearSane DEF InOrderTo
<1>4. 0 \in T
  <2>1. Len(<<>>) = 0
    BY EmptySeq
  <2> QED BY <1>1, <1>2, <2>1 DEF Alike
<1>5. ASSUME NEW k \in Nat, k \in T, k < n
      PROVE  k + 1 \in T
  <2>1. Alike(f[k], g[k]) /\ Sane(f[k]) /\ Sane(g[k]) /\ list[k + 1] \in Slot
    BY <1>1, <1>3, <1>5
  <2>2. Alike(f[k + 1], g[k + 1])
    BY <1>2, <1>5, <2>1, SlotAlike
  <2> QED BY <1>5, <2>2
<1>6. \A k \in 0..n : k \in T
  <2> HIDE DEF T, n
  <2> QED BY <1>1, <1>4, <1>5, UpTo
<1> QED BY <1>1, <1>6

LEMMA FarSane ==
  ASSUME NEW profile \in Buckets \union {<<>>}, NEW near, Sane(near), Distinct(near.days),
         NEW list \in Seq(FarDay), NEW f, FarSteps(profile, near, list, Len(list), f)
  PROVE  \A k \in 0..Len(list) : Sane(f[k]) /\ Distinct(f[k].days)
<1> DEFINE n == Len(list)
           T == {k \in 0..n : Sane(f[k]) /\ Distinct(f[k].days)}
<1>1. n \in Nat /\ \A i \in 1..n : list[i] \in FarDay
  BY LenProperties, ElementOfSeq
<1>2. f[0] = near /\ \A k \in Nat : k < n => f[k + 1] = AddDay(profile, f[k], list[k + 1])
  <2>1. DayByDay(profile, near, list, n, f)
    BY <1>1, FarStepsAre
  <2> QED BY <2>1 DEF DayByDay
<1>3. 0 \in T
  BY <1>1, <1>2
<1>4. ASSUME NEW k \in Nat, k \in T, k < n
      PROVE  k + 1 \in T
  <2>1. Sane(f[k]) /\ Distinct(f[k].days) /\ list[k + 1] \in FarDay
    BY <1>1, <1>4
  <2> DEFINE r == AddDay(profile, f[k], list[k + 1])
  <2>2. Sane(r) /\ Distinct(r.days)
    BY <2>1, DaySane
  <2>3. f[k + 1] = r
    BY <1>2, <1>4
  <2> HIDE DEF r
  <2> QED BY <1>4, <2>2, <2>3
<1>5. \A k \in 0..n : k \in T
  <2> HIDE DEF T, n
  <2> QED BY <1>1, <1>3, <1>4, UpTo
<1> QED BY <1>5

LEMMA FarAlike ==
  ASSUME NEW profile \in Buckets \union {<<>>}, NEW a, Sane(a), Distinct(a.days),
         NEW b, Sane(b), Distinct(b.days), Alike(a, b), NEW list \in Seq(FarDay), NEW f, NEW g,
         FarSteps(<<>>, a, list, Len(list), f), FarSteps(profile, b, list, Len(list), g)
  PROVE  Alike(f[Len(list)], g[Len(list)])
<1> DEFINE n == Len(list)
           T == {k \in 0..n : Alike(f[k], g[k])}
<1>1. n \in Nat /\ \A i \in 1..n : list[i] \in FarDay
  BY LenProperties, ElementOfSeq
<1>2. /\ f[0] = a /\ g[0] = b
      /\ \A k \in Nat : k < n => f[k + 1] = AddDay(<<>>, f[k], list[k + 1])
      /\ \A k \in Nat : k < n => g[k + 1] = AddDay(profile, g[k], list[k + 1])
  <2>1. DayByDay(<<>>, a, list, n, f) /\ DayByDay(profile, b, list, n, g)
    BY <1>1, FarStepsAre
  <2> QED BY <2>1 DEF DayByDay
<1>3. \A k \in 0..n : Sane(f[k]) /\ Sane(g[k])
  BY FarSane
<1>4. 0 \in T
  BY <1>1, <1>2
<1>5. ASSUME NEW k \in Nat, k \in T, k < n
      PROVE  k + 1 \in T
  <2>1. Alike(f[k], g[k]) /\ Sane(f[k]) /\ Sane(g[k]) /\ list[k + 1] \in FarDay
    BY <1>1, <1>3, <1>5
  <2>2. Alike(f[k + 1], g[k + 1])
    BY <1>2, <1>5, <2>1, DayAlike
  <2> QED BY <1>5, <2>2
<1>6. \A k \in 0..n : k \in T
  <2> HIDE DEF T, n
  <2> QED BY <1>1, <1>4, <1>5, UpTo
<1> QED BY <1>1, <1>6

-----------------------------------------------------------------------------
(* Whatever lists the service sends: what the days of a forecast add up to, *)
(* for any profile, and how the two forecasts compare.                      *)
LEMMA DaysSane ==
  ASSUME NEW profile \in Buckets \union {<<>>}, NEW level \in Levels, NEW list \in SlotLists,
         NEW daily \in Seq(FarDay)
  PROVE  LET all == Further(profile, Near(profile, level, list), daily) IN
         Sane(all) /\ Distinct(all.days)
<1> DEFINE near == Near(profile, level, list)
<1>1. Len(list) \in Nat /\ Len(daily) \in Nat
  BY LenProperties DEF SlotLists
<1>2. Sane(near) /\ Dated(near.days)
  <2>1. PICK f : NearSteps(profile, level, list, Len(list), f) /\ near = f[Len(list)]
    BY <1>1, NearIs
  <2>2. InOrderTo(f[Len(list)], list, Len(list))
    BY <1>1, <2>1, NearSane
  <2> QED BY <2>1, <2>2 DEF InOrderTo
<1>3. Distinct(near.days)
  <2>1. near \in Accs
    BY <1>2 DEF Sane
  <2>2. Len(near.days) \in Nat /\ \A i \in 1..Len(near.days) : near.days[i].day \in Nat
    BY <2>1, AccFields
  <2>3. ASSUME NEW i \in 1..Len(near.days), NEW j \in 1..Len(near.days),
               near.days[i].day = near.days[j].day, i # j
        PROVE  FALSE
    <3>1. i < j => near.days[i].day < near.days[j].day
      BY <1>2 DEF Dated
    <3>2. j < i => near.days[j].day < near.days[i].day
      BY <1>2 DEF Dated
    <3>3. i < j \/ j < i
      BY <2>2, <2>3
    <3> QED BY <2>2, <2>3, <3>1, <3>2, <3>3
  <2> QED BY <2>3 DEF Distinct
<1> HIDE DEF near
<1>4. PICK g : FarSteps(profile, near, daily, Len(daily), g) /\ Further(profile, near, daily) = g[Len(daily)]
  BY <1>1, FurtherIs
<1>5. Sane(g[Len(daily)]) /\ Distinct(g[Len(daily)].days)
  <2>1. \A k \in 0..Len(daily) : Sane(g[k]) /\ Distinct(g[k].days)
    BY <1>2, <1>3, <1>4, FarSane
  <2> QED BY <1>1, <2>1
<1> QED BY <1>4, <1>5 DEF near

LEMMA DaysAlike ==
  ASSUME NEW profile \in Buckets \union {<<>>}, NEW level \in Levels, NEW list \in SlotLists,
         NEW daily \in Seq(FarDay)
  PROVE  Alike(Further(<<>>, Near(<<>>, level, list), daily),
               Further(profile, Near(profile, level, list), daily))
<1> DEFINE a == Near(<<>>, level, list)
           b == Near(profile, level, list)
<1>1. Len(list) \in Nat /\ Len(daily) \in Nat /\ <<>> \in Seq(FarDay)
  BY LenProperties, EmptySeq DEF SlotLists
<1>2. PICK f : NearSteps(<<>>, level, list, Len(list), f) /\ a = f[Len(list)]
  BY <1>1, NearIs
<1>3. PICK g : NearSteps(profile, level, list, Len(list), g) /\ b = g[Len(list)]
  BY <1>1, NearIs
<1>4. Alike(a, b)
  BY <1>2, <1>3, NearAlike
<1>5. Sane(a) /\ Distinct(a.days) /\ Sane(b) /\ Distinct(b.days)
  <2>1. ASSUME NEW p \in Buckets \union {<<>>}, NEW acc, acc = Near(p, level, list)
        PROVE  Sane(acc) /\ Distinct(acc.days)
    <3>1. Sane(Further(p, acc, <<>>)) /\ Distinct(Further(p, acc, <<>>).days)
      BY <1>1, <2>1, DaysSane
    <3>2. Len(<<>>) = 0 /\ 0 \in Nat
      BY EmptySeq
    <3>3. PICK h : FarSteps(p, acc, <<>>, 0, h) /\ Further(p, acc, <<>>) = h[0]
      BY <3>2, FurtherIs
    <3>4. DayByDay(p, acc, <<>>, 0, h)
      BY <3>2, <3>3, FarStepsAre
    <3>5. h[0] = acc
      BY <3>4 DEF DayByDay
    <3> QED BY <3>1, <3>3, <3>5
  <2> QED BY <2>1
<1> HIDE DEF a, b
<1>6. PICK q : FarSteps(<<>>, a, daily, Len(daily), q) /\ Further(<<>>, a, daily) = q[Len(daily)]
  BY <1>1, FurtherIs
<1>7. PICK r : FarSteps(profile, b, daily, Len(daily), r) /\ Further(profile, b, daily) = r[Len(daily)]
  BY <1>1, FurtherIs
<1>8. Alike(q[Len(daily)], r[Len(daily)])
  BY <1>4, <1>5, <1>6, <1>7, FarAlike
<1> QED BY <1>6, <1>7, <1>8 DEF a, b

LEMMA ShareGrows ==
  ASSUME NEW missing \in Nat, NEW x \in Nat, NEW y \in Nat, x <= y
  PROVE  Share(missing, x) \in Nat /\ Share(missing, x) <= Share(missing, y)
<1> DEFINE a == Min({100 * missing, 100 * x})
           b == Min({100 * missing, 100 * y})
<1>1. /\ a = IF 100 * missing <= 100 * x THEN 100 * missing ELSE 100 * x
      /\ b = IF 100 * missing <= 100 * y THEN 100 * missing ELSE 100 * y
  BY LeastOf
<1>2. a \in Nat /\ b \in Nat /\ a <= b
  BY <1>1
<1>3. Capacity \in Nat \ {0}
  BY ForecastAssumption
<1>4. Share(missing, x) = a \div Capacity /\ Share(missing, y) = b \div Capacity
  BY DEF Share
<1> HIDE DEF a, b
<1> QED BY <1>2, <1>3, <1>4, DivGrows, NatDiv

LEMMA RecoveryRises ==
  ASSUME NEW level \in Levels, NEW day \in DaySums
  PROVE  LET r == RecoveryPct(level, day) IN 0 <= r.lo /\ r.lo <= r.mid /\ r.mid <= r.hi
<1> DEFINE missing == Capacity - (IF day.ext THEN level ELSE day.level)
           x == day.taken
<1>1. missing \in Nat /\ x \in Nat
  BY ForecastAssumption DEF Levels, DaySums
<1>4. RecoveryPct(level, day) = [lo |-> Share(missing, Part(x, 80)), mid |-> Share(missing, x),
                              hi |-> Share(missing, Part(x, 120))]
  BY DEF RecoveryPct
<1> HIDE DEF missing, x
<1>2. Part(x, 80) \in Nat /\ Part(x, 80) <= x /\ Part(x, 100) <= Part(x, 120)
  <2>1. 80 \in Percent
    BY DEF Percent
  <2>2. Part(x, 80) \in Nat /\ Part(x, 80) <= x
    BY <1>1, <2>1, PartOf
  <2>3. 100 \in Nat /\ 120 \in Nat /\ 100 <= 120
    OBVIOUS
  <2>4. Part(x, 100) <= Part(x, 120)
    BY <1>1, <2>3, PartGrows
  <2> QED BY <2>2, <2>4
<1>3. Part(x, 100) = x /\ Part(x, 120) \in Nat
  BY <1>1, NominalTakesAll, PartGrows
<1>5. /\ Share(missing, Part(x, 80)) \in Nat
      /\ Share(missing, Part(x, 80)) <= Share(missing, x)
  BY <1>1, <1>2, ShareGrows
<1>6. Share(missing, x) <= Share(missing, Part(x, 120))
  BY <1>1, <1>2, <1>3, ShareGrows
<1> QED BY <1>4, <1>5, <1>6

(* The battery is full on the first day on which enough is recovered.       *)
LEMMA FullOnADay ==
  ASSUME NEW days, NEW level, Len(days) \in Nat, DOMAIN days = 1..Len(days)
  PROVE  LET n == DaysToFull(days, level) IN
         /\ n \in 0..Len(days)
         /\ n \in 1..(Len(days) - 1) => Recovered(days, n) >= Capacity - level
<1> DEFINE enough == {i \in DOMAIN days : Recovered(days, i) >= Capacity - level}
           n == DaysToFull(days, level)
<1>1. n = IF enough # {} THEN Min(enough) ELSE IF Given(days) > 0 THEN Len(days) ELSE 0
  BY DEF DaysToFull
<1>2. CASE enough # {}
  <2>1. \E x \in enough : \A y \in enough : x <= y
    <3>1. enough \subseteq Nat
      OBVIOUS
    <3> HIDE DEF enough
    <3> QED BY <1>2, <3>1, NatMin
  <2>2. Min(enough) \in enough
    <3> HIDE DEF enough
    <3> QED BY <2>1 DEF Min
  <2>3. n \in enough
    BY <1>1, <1>2, <2>2
  <2> HIDE DEF n
  <2>4. n \in 1..Len(days) /\ Recovered(days, n) >= Capacity - level
    BY <2>3
  <2> HIDE DEF enough
  <2>5. n \in 0..Len(days)
    BY <2>4
  <2> QED BY <2>4, <2>5 DEF n
<1>3. CASE enough = {}
  <2>1. n = Len(days) \/ n = 0
    BY <1>1, <1>3
  <2> HIDE DEF n, enough
  <2>2. n \in 0..Len(days) /\ ~(n \in 1..(Len(days) - 1))
    BY <2>1
  <2> QED BY <2>2 DEF n
<1> QED BY <1>2, <1>3

\* What may be kept of the service's answers.
Usable(w) ==
  /\ w.list.kind = "good" => w.list.data \in SlotLists
  /\ w.daily.data \in Seq(FarDay)

LEMMA WeekSound ==
  ASSUME NEW profile \in Buckets \union {<<>>}, NEW level \in Levels, NEW w, Usable(w)
  PROVE  Sound(Week(w, profile, level), level)
<1> DEFINE all == Further(profile, Near(profile, level, w.list.data), w.daily.data)
           week == Week(w, profile, level)
<1>1. CASE w.list.kind # "good"
  <2>1. week.days = <<>> /\ week.toFull = 0
    BY <1>1 DEF Week, NoWeek
  <2>2. Len(<<>>) = 0 /\ DOMAIN <<>> = {} /\ 0 \in 0..0
    OBVIOUS
  <2> HIDE DEF week
  <2> QED BY <2>1, <2>2 DEF Sound, week
<1>2. CASE w.list.kind = "good"
  <2>1. Sane(all) /\ Distinct(all.days)
    BY <1>2, DaysSane DEF Usable
  <2>2. week.days = all.days /\ week.toFull = DaysToFull(all.days, level)
    BY <1>2 DEF Week
  <2> HIDE DEF all, week
  <2> DEFINE days == all.days
             n == Len(days)
  <2>3. all \in Accs
    BY <2>1 DEF Sane
  <2>4. /\ n \in Nat /\ DOMAIN days = 1..n
        /\ \A i \in 1..n : days[i] \in DaySums /\ days[i].wh \in Nat /\ days[i].taken \in Nat
    BY <2>3, AccFields, LenProperties
  <2>5. \A i \in 1..n : days[i].level \in 0..Capacity
    BY <2>4 DEF DaySums, Levels
  <2>6. \A i \in 1..n : days[i].taken \in 0..days[i].wh
    BY <2>1, <2>4 DEF Sane
  <2>7. ASSUME NEW i \in 1..n
        PROVE  LET r == RecoveryPct(level, days[i]) IN 0 <= r.lo /\ r.lo <= r.mid /\ r.mid <= r.hi
    BY <2>4, RecoveryRises
  <2>8. \A i, j \in 1..n : days[i].day = days[j].day => i = j
    BY <2>1 DEF Distinct
  <2>9. /\ week.toFull \in 0..n
        /\ week.toFull \in 1..(n - 1) => Recovered(days, week.toFull) >= Capacity - level
    BY <2>2, <2>4, FullOnADay
  <2> HIDE DEF days
  <2>10. week.days = days
    BY <2>2 DEF days
  <2> QED BY <2>4, <2>5, <2>6, <2>7, <2>8, <2>9, <2>10 DEF Sound, week
<1> QED BY <1>1, <1>2

LEMMA WeeksCompare ==
  ASSUME NEW profile \in Buckets \union {<<>>}, NEW level \in Levels, NEW w, Usable(w)
  PROVE  LET week == Week(w, profile, level)
             plain == Week(w, <<>>, level)
         IN  /\ DOMAIN week.days = DOMAIN plain.days
             /\ \A i \in DOMAIN plain.days :
                  /\ week.days[i].day = plain.days[i].day
                  /\ week.days[i].taken <= plain.days[i].taken
<1> DEFINE week == Week(w, profile, level)
           plain == Week(w, <<>>, level)
           b == Further(profile, Near(profile, level, w.list.data), w.daily.data)
           a == Further(<<>>, Near(<<>>, level, w.list.data), w.daily.data)
<1>1. CASE w.list.kind # "good"
  <2>1. week.days = <<>> /\ plain.days = <<>> /\ DOMAIN <<>> = {}
    BY <1>1 DEF Week, NoWeek
  <2> HIDE DEF week, plain
  <2> QED BY <2>1 DEF week, plain
<1>2. CASE w.list.kind = "good"
  <2>1. Sane(a) /\ Sane(b) /\ Alike(a, b)
    BY <1>2, DaysSane, DaysAlike DEF Usable
  <2>2. week.days = b.days /\ plain.days = a.days
    BY <1>2 DEF Week
  <2> HIDE DEF a, b, week, plain
  <2>3. a \in Accs /\ b \in Accs
    BY <2>1 DEF Sane
  <2>4. DOMAIN a.days = 1..Len(a.days) /\ DOMAIN b.days = 1..Len(b.days)
    BY <2>3, AccFields, LenProperties
  <2>5. ASSUME NEW i \in 1..Len(a.days)
        PROVE  b.days[i].day = a.days[i].day /\ b.days[i].taken <= a.days[i].taken
    <3>1. /\ a.days[i].day = b.days[i].day
          /\ a.days[i].wh = b.days[i].wh /\ a.days[i].taken = a.days[i].wh
          /\ b.days[i].taken <= b.days[i].wh
      BY <2>1 DEF Sane, Alike
    <3> QED BY <3>1
  <2>6. DOMAIN week.days = 1..Len(a.days) /\ DOMAIN plain.days = 1..Len(a.days)
    BY <2>1, <2>2, <2>4 DEF Alike
  <2> QED BY <2>2, <2>5, <2>6 DEF week, plain
<1> QED BY <1>1, <1>2

-----------------------------------------------------------------------------
\* What ForecastTypeOK says of an answer and the dates in the database.
AnswerOK(a, dates) ==
  /\ Sound(a.week, a.level) /\ Sound(a.plain, a.level)
  /\ a.same =>
       /\ DOMAIN a.week.days = DOMAIN a.plain.days
       /\ \A i \in DOMAIN a.plain.days :
            /\ a.week.days[i].day = a.plain.days[i].day
            /\ a.week.days[i].taken <= a.plain.days[i].taken
  /\ \A i \in DOMAIN a.week.days : a.week.days[i].day \in dates

UsableRows(disk) ==
  /\ disk.list.json.kind = "good" => disk.list.json.data \in SlotLists
  /\ disk.daily.json.data \in Seq(FarDay)

WeatherInv == Usable(wx) /\ UsableRows(wxDisk)

LEMMA AnswersUsable ==
  /\ \A json \in Answers(Lists) : json.kind = "good" => json.data \in SlotLists
  /\ \A json \in Answers(Dailies) : json.data \in Seq(FarDay)
<1>1. Lists \subseteq SlotLists /\ Dailies \subseteq Seq(FarDay) /\ <<>> \in Seq(FarDay)
  BY WeatherAssumption, EmptySeq DEF SlotLists
<1>2. ASSUME NEW S, NEW json \in Answers(S)
      PROVE  \/ json.kind = "none" /\ json.data = <<>>
             \/ json.kind = "error" /\ json.data = <<>>
             \/ json.kind = "good" /\ json.data \in S
  BY DEF Answers, NoJson, Fetched
<1>3. ASSUME NEW json \in Answers(Lists), json.kind = "good" PROVE json.data \in SlotLists
  BY <1>1, <1>2, <1>3
<1>4. ASSUME NEW json \in Answers(Dailies) PROVE json.data \in Seq(FarDay)
  BY <1>1, <1>2
<1> QED BY <1>3, <1>4

LEMMA WithListUsable ==
  ASSUME NEW w, DOMAIN w = {"list", "listAt", "daily", "dailyAt", "boot"}, Usable(w),
         NEW json \in Answers(Lists)
  PROVE  Usable(WithList(w, json)) /\ DOMAIN WithList(w, json) = DOMAIN w
<1> DEFINE v == WithList(w, json)
<1>1. v = w \/ v = [w EXCEPT !.list = json, !.listAt = Steady]
  BY DEF WithList
<1>2. json.kind = "good" => json.data \in SlotLists
  BY AnswersUsable
<1> HIDE DEF v
<1>3. CASE v = w
  BY <1>3 DEF v
<1>4. CASE v = [w EXCEPT !.list = json, !.listAt = Steady]
  <2>1. v.list = json /\ v.daily = w.daily /\ DOMAIN v = DOMAIN w
    BY <1>4
  <2> QED BY <1>2, <2>1 DEF Usable, v
<1> QED BY <1>1, <1>3, <1>4

LEMMA AskedUsable ==
  ASSUME NEW w, DOMAIN w = {"list", "listAt", "daily", "dailyAt", "boot"}, Usable(w),
         NEW list \in Answers(Lists), NEW daily \in Answers(Dailies)
  PROVE  Usable(Asked(w, list, daily)) /\ DOMAIN Asked(w, list, daily) = DOMAIN w
<1> DEFINE near == WithList(w, list)
           v == Asked(w, list, daily)
<1>1. Usable(near) /\ DOMAIN near = DOMAIN w
  BY WithListUsable
<1>2. v = near \/ v = [near EXCEPT !.daily = daily, !.dailyAt = Steady]
  BY DEF Asked, WithDaily
<1>3. daily.data \in Seq(FarDay)
  BY AnswersUsable
<1> HIDE DEF near, v
<1>4. CASE v = near
  BY <1>1, <1>4 DEF v
<1>5. CASE v = [near EXCEPT !.daily = daily, !.dailyAt = Steady]
  <2>1. v.daily = daily /\ v.list = near.list /\ DOMAIN v = DOMAIN near
    BY <1>1, <1>5
  <2> QED BY <1>1, <1>3, <2>1 DEF Usable, v
<1> QED BY <1>2, <1>4, <1>5

LEMMA SavedUsable ==
  ASSUME CacheInv, WeatherInv, NEW w, Usable(w)
  PROVE  UsableRows(Saved(wxDisk, w))
<1> DEFINE s == Saved(wxDisk, w)
<1>1. /\ s.list = IF w.list # wx.list THEN SaveCache(w.list) ELSE wxDisk.list
      /\ s.daily = IF w.daily # wx.daily THEN SaveCache(w.daily) ELSE wxDisk.daily
  BY DEF Saved, CacheInv
<1>2. SaveCache(w.list).json = w.list /\ SaveCache(w.daily).json = w.daily
  BY DEF SaveCache
<1> HIDE DEF s
<1> QED BY <1>1, <1>2 DEF UsableRows, Usable, WeatherInv, s

LEMMA DatesKept ==
  ASSUME NEW rows, NEW week
  PROVE  /\ DOMAIN rows \subseteq DOMAIN Upserted(rows, week)
         /\ \A i \in DOMAIN week.days : week.days[i].day \in DOMAIN Upserted(rows, week)
<1>1. DOMAIN Upserted(rows, week) = DOMAIN rows \union {week.days[i].day : i \in DOMAIN week.days}
  BY DEF Upserted
<1> QED BY <1>1

LEMMA NothingShown ==
  ASSUME NEW a, a.week = NoWeek, a.plain = NoWeek, a.level = 0, NEW dates
  PROVE  AnswerOK(a, dates)
<1>1. NoWeek.days = <<>> /\ NoWeek.toFull = 0
  BY DEF NoWeek
<1>2. Len(<<>>) = 0 /\ DOMAIN <<>> = {} /\ 0 \in 0..0
  OBVIOUS
<1>3. Sound(NoWeek, 0)
  BY <1>1, <1>2 DEF Sound
<1> QED BY <1>1, <1>2, <1>3 DEF AnswerOK

(* Every step keeps what is stored usable, and answers what adds up.        *)
LEMMA WeatherStep ==
  ASSUME CacheInv, WeatherInv, AnswerOK(answer, DOMAIN wxDisk.days), [ForecastNext]_forecastVars
  PROVE  WeatherInv' /\ AnswerOK(answer', DOMAIN wxDisk'.days)
<1>1. CASE UNCHANGED forecastVars
  BY <1>1 DEF forecastVars, WeatherInv, Usable, UsableRows
<1>2. DOMAIN wx = {"list", "listAt", "daily", "dailyAt", "boot"} /\ Usable(wx) /\ UsableRows(wxDisk)
  BY DEF CacheInv, InMemory, WeatherInv
<1>3. ASSUME answer' = NoAnswer
      PROVE  AnswerOK(answer', DOMAIN wxDisk'.days)
  <2>1. answer'.week = NoWeek /\ answer'.plain = NoWeek /\ answer'.level = 0
    BY <1>3 DEF NoAnswer
  <2> QED BY <2>1, NothingShown
<1>4. CASE AskWeek
  <2>1. PICK list, list2 \in Answers(Lists), daily, daily2 \in Answers(Dailies),
             level \in LevelsWx, profile \in Profiles :
          LET first  == Asked(wx, list, daily)
              second == Asked(first, list2, daily2)
              plain  == Week(first, <<>>, level)
              week   == Week(second, profile, level)
          IN  /\ AnswersDue(wx, list, daily) /\ AnswersDue(first, list2, daily2)
              /\ wx' = second
              /\ wxDisk' = [Saved(wxDisk, second) EXCEPT !.days = Upserted(Upserted(@, plain), week)]
              /\ usage' = UsageNow
              /\ answer' = [shown |-> IF week.valid
                                      THEN {second.list.at} \union
                                        (IF second.daily.kind = "none" THEN {} ELSE {second.daily.at})
                                      ELSE {},
                            failed |-> ListDue(second) \/ DailyDue(second),
                            week |-> week, plain |-> plain, same |-> second = first,
                            level |-> level,
                            lag |-> wxDisk.readings - UsageNow.rows]
              /\ UNCHANGED wxNow
    BY <1>4 DEF AskWeek
  <2> DEFINE first  == Asked(wx, list, daily)
             second == Asked(first, list2, daily2)
             plain  == Week(first, <<>>, level)
             week   == Week(second, profile, level)
             saved  == Saved(wxDisk, second)
  <2>2. Usable(first) /\ DOMAIN first = {"list", "listAt", "daily", "dailyAt", "boot"}
    BY <1>2, AskedUsable
  <2>3. Usable(second)
    <3> HIDE DEF first
    <3> QED BY <2>2, AskedUsable
  <2>4. level \in Levels /\ profile \in Buckets /\ <<>> \in {<<>>}
    BY ForecastAssumption, ProfilesAre DEF Levels
  <2>5. Sound(plain, level) /\ Sound(week, level)
    <3> HIDE DEF first, second
    <3> QED BY <2>2, <2>3, <2>4, WeekSound
  <2>6. ASSUME second = first
        PROVE  /\ DOMAIN week.days = DOMAIN plain.days
               /\ \A i \in DOMAIN plain.days :
                    /\ week.days[i].day = plain.days[i].day
                    /\ week.days[i].taken <= plain.days[i].taken
    <3>1. week = Week(first, profile, level)
      BY <2>6
    <3> HIDE DEF first, second, week
    <3> QED BY <2>2, <2>4, <3>1, WeeksCompare
  <2>7. UsableRows(saved)
    <3> HIDE DEF second
    <3> QED BY <2>3, SavedUsable
  <2>8. /\ wx' = second
        /\ wxDisk' = [saved EXCEPT !.days = Upserted(Upserted(@, plain), week)]
        /\ answer'.week = week /\ answer'.plain = plain /\ answer'.level = level
        /\ answer'.same = (second = first)
    BY <2>1 DEF first, second, plain, week, saved
  <2>9. DOMAIN saved = {"list", "daily", "days", "readings"}
    BY DEF Saved, CacheInv
  <2> HIDE DEF first, second, plain, week, saved
  <2>10. /\ wxDisk'.list = saved.list /\ wxDisk'.daily = saved.daily
         /\ wxDisk'.days = Upserted(Upserted(saved.days, plain), week)
    BY <2>8, <2>9
  <2>11. WeatherInv'
    BY <2>3, <2>7, <2>8, <2>10 DEF WeatherInv, Usable, UsableRows
  <2>12. \A i \in DOMAIN week.days : week.days[i].day \in DOMAIN wxDisk'.days
    BY <2>10, DatesKept
  <2>13. answer'.same => second = first
    BY <2>8
  <2>14. AnswerOK(answer', DOMAIN wxDisk'.days)
    BY <2>5, <2>6, <2>8, <2>12, <2>13 DEF AnswerOK
  <2> QED BY <2>11, <2>14
<1>5. CASE AskTomorrow
  <2>1. PICK list \in Answers(Lists) :
          LET w == WithList(wx, list)
          IN  /\ wx' = w /\ wxDisk' = Saved(wxDisk, w)
              /\ answer' = [NoAnswer EXCEPT !.shown = IF w.list.kind = "good" THEN {w.list.at} ELSE {},
                                            !.failed = ListDue(w)]
              /\ UNCHANGED <<usage, wxNow>>
    BY <1>5, Zenon DEF AskTomorrow
  <2> DEFINE w == WithList(wx, list)
  <2>2. Usable(w)
    BY <1>2, WithListUsable
  <2>3. /\ wx' = w /\ wxDisk' = Saved(wxDisk, w)
        /\ answer'.week = NoWeek /\ answer'.plain = NoWeek /\ answer'.level = 0
    BY <2>1 DEF NoAnswer
  <2> HIDE DEF w
  <2>4. UsableRows(Saved(wxDisk, w))
    BY <2>2, SavedUsable
  <2>5. WeatherInv'
    BY <2>2, <2>3, <2>4 DEF WeatherInv, Usable, UsableRows
  <2> QED BY <2>3, <2>5, NothingShown
<1>6. CASE Invalidate
  <2>1. /\ wx'.list = NoJson /\ wx'.daily = NoJson /\ wxDisk' = wxDisk /\ answer' = NoAnswer
        /\ NoJson.kind = "none" /\ NoJson.data = <<>>
    BY <1>2, <1>6 DEF Invalidate, NoJson
  <2>2. WeatherInv'
    BY <1>2, <2>1, EmptySeq DEF WeatherInv, Usable, UsableRows
  <2> QED BY <1>3, <2>1, <2>2
<1>7. CASE TimePasses
  <2>1. /\ wx' = wx /\ answer' = NoAnswer
        /\ wxDisk'.list = wxDisk.list /\ wxDisk'.daily = wxDisk.daily
    BY <1>7 DEF TimePasses, CacheInv
  <2>2. WeatherInv'
    BY <1>2, <2>1 DEF WeatherInv, Usable, UsableRows
  <2> QED BY <1>3, <2>1, <2>2
<1>8. CASE ForecastRestart
  <2>1. PICK boot \in {wx.boot, wxNow} : wx' = Loaded(wxDisk, boot)
    BY <1>8 DEF ForecastRestart
  <2>2. wxDisk' = wxDisk /\ answer' = NoAnswer
    BY <1>8 DEF ForecastRestart
  <2>3. wx'.list = LoadCache(wxDisk.list) /\ wx'.daily = LoadCache(wxDisk.daily)
    BY <2>1 DEF Loaded
  <2>4. \A row : LoadCache(row) = row.json \/ LoadCache(row) = NoJson
    BY DEF LoadCache
  <2>5. NoJson.kind = "none" /\ NoJson.data = <<>>
    BY DEF NoJson
  <2>6. WeatherInv'
    BY <1>2, <2>2, <2>3, <2>4, <2>5, EmptySeq DEF WeatherInv, Usable, UsableRows
  <2> QED BY <1>3, <2>2, <2>6
<1> QED BY <1>1, <1>4, <1>5, <1>6, <1>7, <1>8 DEF ForecastNext

(* Whatever lists the service answers with, whatever was measured and       *)
(* however often the program starts: the days of a forecast are distinct    *)
(* and in the database, what the battery takes is part of what the panel    *)
(* gives, the ranges of what it recovers are in order, the day on which it  *)
(* is full is one of them; and the realistic forecast promises no more than *)
(* the nominal one of the same answers (get_forecast_week,                  *)
(* upsert_weather_daily).                                                   *)
THEOREM ForecastTypes == ForecastSpec => []ForecastTypeOK
<1> DEFINE Inv == CacheInv /\ ForecastIsRecent /\ WeatherInv /\ AnswerOK(answer, DOMAIN wxDisk.days)
<1>1. ForecastInit => Inv
  <2> SUFFICES ASSUME ForecastInit PROVE Inv
    OBVIOUS
  <2>1. CacheInv /\ ForecastIsRecent
    BY ForecastStarts
  <2>2. /\ answer.week = NoWeek /\ answer.plain = NoWeek /\ answer.level = 0
    BY DEF ForecastInit, NoAnswer
  <2>3. /\ wx.list.kind = "none" /\ wx.daily.data = <<>>
        /\ wxDisk.list.json.kind = "none" /\ wxDisk.daily.json.data = <<>>
    <3>1. /\ wx.list = NoJson /\ wx.daily = NoJson
          /\ wxDisk.list.json = NoJson /\ wxDisk.daily.json = NoJson
      BY DEF ForecastInit
    <3> QED BY <3>1 DEF NoJson
  <2>4. WeatherInv
    BY <2>3, EmptySeq DEF WeatherInv, Usable, UsableRows
  <2> QED BY <2>1, <2>2, <2>4, NothingShown
<1>2. Inv /\ [ForecastNext]_forecastVars => Inv'
  BY ForecastStep, WeatherStep
<1>3. Inv => ForecastTypeOK
  BY DEF AnswerOK, ForecastTypeOK
<1> HIDE DEF Inv
<1> QED BY <1>1, <1>2, <1>3, PTL DEF ForecastSpec

-----------------------------------------------------------------------------
(***** EnergyMeter *****)
(* Quotients and products stay natural numbers.                             *)
DayBook == [day : Int, wh : Nat]
HourBook == [hour : Int, wh : Nat]

Total(s) == SumOf(s, Wh)

(* The total of a book, as the sum of a list.                               *)
LEMMA TotalIs ==
  ASSUME NEW S, \A x \in S : x.wh \in Nat, NEW s \in Seq(S)
  PROVE  Total(s) = SumSeq(Mapped(s, [x \in S |-> x.wh])) /\ Total(s) \in Int
<1> DEFINE F == [x \in S |-> x.wh]
<1>1. \A i \in DOMAIN s : F[s[i]] = s[i].wh
  BY LenProperties, ElementOfSeq
<1>2. Total(s) = SumSeq(Mapped(s, F))
  BY <1>1 DEF Total, SumOf, Wh, Mapped
<1>3. F \in [S -> Int]
  OBVIOUS
<1>4. Mapped(s, F) \in Seq(Int)
  <2> HIDE DEF F
  <2> QED BY <1>3, MappedSeq
<1>5. SumSeq(Mapped(s, F)) \in Int
  <2> HIDE DEF F
  <2> QED BY <1>4, SumAppend
<1> QED BY <1>2, <1>5

(* A day or an hour enters its archive.                                     *)
LEMMA BookPushed ==
  ASSUME NEW S, \A x \in S : x.wh \in Nat, NEW s \in Seq(S), NEW x \in S,
         NEW n \in Nat \ {0}, Len(s) <= n
  PROVE  /\ Push(s, x, n) \in Seq(S) /\ Len(Push(s, x, n)) <= n
         /\ Total(s) \in Int /\ Total(Push(s, x, n)) \in Int
         /\ Total(Push(s, x, n)) <= Total(s) + x.wh
         /\ Len(Push(s, x, n)) < n =>
              Len(s) < n /\ Total(Push(s, x, n)) = Total(s) + x.wh
<1> DEFINE F == [y \in S |-> y.wh]
           p == Push(s, x, n)
<1>1. F \in [S -> Int] /\ F[x] = x.wh
  OBVIOUS
<1>2. p \in Seq(S) /\ Len(p) = IF Len(s) < n THEN Len(s) + 1 ELSE n
  BY PushKept
<1>3. Total(s) = SumSeq(Mapped(s, F))
  BY TotalIs
<1>4. Total(p) = SumSeq(Mapped(p, F))
  <2> HIDE DEF p
  <2> QED BY <1>2, TotalIs
<1>5. Len(s) = n => F[s[1]] \in Nat
  BY ElementOfSeq
<1> HIDE DEF F
<1>6. /\ SumSeq(Mapped(s, F)) \in Int
      /\ Len(s) < n => SumSeq(Mapped(p, F)) = SumSeq(Mapped(s, F)) + F[x]
      /\ Len(s) = n => SumSeq(Mapped(p, F)) = (SumSeq(Mapped(s, F)) - F[s[1]]) + F[x]
  BY <1>1, FieldStep
<1> HIDE DEF p
<1>7. Len(s) \in Nat /\ x.wh \in Nat
  BY LenProperties
<1>8. CASE Len(s) < n
  BY <1>1, <1>2, <1>3, <1>4, <1>6, <1>7, <1>8 DEF p
<1>9. CASE Len(s) = n
  BY <1>1, <1>2, <1>3, <1>4, <1>5, <1>6, <1>7, <1>9 DEF p
<1> QED BY <1>7, <1>8, <1>9

-----------------------------------------------------------------------------
MeterFields == {"day", "charged", "discharged", "solar", "days", "hour", "thisHour", "hours",
                "integrated", "batAt", "chgAt", "soc", "draining", "fromAh", "bestAh",
                "runtime", "minutes"}

MeterOK(e) ==
  /\ DOMAIN e = MeterFields
  /\ e.day \in Int /\ e.discharged \in Nat /\ (e.day < 0 => e.discharged = 0)
  /\ e.days \in Seq(DayBook) /\ Len(e.days) <= KeptDays
  /\ e.thisHour \in Nat /\ e.hour \in Int
  /\ e.hours \in Seq(HourBook) /\ Len(e.hours) <= KeptHours
  /\ e.integrated \in Int /\ e.batAt \in Int /\ e.chgAt \in Int
  /\ e.runtime \in Nat /\ e.minutes \in Int

ByDay(e) == e.discharged + Total(e.days)
ByHour(e) == e.thisHour + Total(e.hours)

Agree(e) == Len(e.days) < KeptDays /\ Len(e.hours) < KeptHours => ByDay(e) = ByHour(e)

(* The books of e are those of f.                                           *)
SameBooks(e, f) ==
  /\ DOMAIN f = MeterFields /\ f.day = e.day /\ f.discharged = e.discharged
  /\ f.days = e.days /\ f.thisHour = e.thisHour /\ f.hour = e.hour /\ f.hours = e.hours
  /\ f.integrated = e.integrated

LEMMA BooksAreInt ==
  ASSUME NEW e, MeterOK(e)
  PROVE  /\ ByDay(e) \in Int /\ ByHour(e) \in Int
         /\ Total(e.days) \in Int /\ Total(e.hours) \in Int
<1>1. \A y \in DayBook : y.wh \in Nat
  BY DEF DayBook
<1>2. \A y \in HourBook : y.wh \in Nat
  BY DEF HourBook
<1>3. [day |-> 0, wh |-> 0] \in DayBook /\ [hour |-> 0, wh |-> 0] \in HourBook
  BY DEF DayBook, HourBook
<1>4. Total(e.days) \in Int
  BY <1>1, <1>3, TotalIs DEF MeterOK
<1>5. Total(e.hours) \in Int
  BY <1>2, <1>3, TotalIs DEF MeterOK
<1> QED BY <1>4, <1>5 DEF ByDay, ByHour, MeterOK

LEMMA SameBooksKept ==
  ASSUME NEW e, MeterOK(e), NEW f, SameBooks(e, f),
         f.batAt \in Int, f.chgAt \in Int, f.runtime \in Nat, f.minutes \in Int
  PROVE  MeterOK(f) /\ ByDay(f) = ByDay(e) /\ ByHour(f) = ByHour(e) /\ (Agree(e) => Agree(f))
<1>1. MeterOK(f)
  BY DEF SameBooks, MeterOK
<1>2. ByDay(f) = ByDay(e) /\ ByHour(f) = ByHour(e)
  BY DEF SameBooks, ByDay, ByHour
<1>3. Agree(e) => Agree(f)
  BY <1>2 DEF SameBooks, Agree
<1> QED BY <1>1, <1>2, <1>3

LEMMA ResetDailyStep ==
  ASSUME NEW e, MeterOK(e), NEW ts \in Nat
  PROVE  LET f == ResetDaily(e, ts) IN
         /\ MeterOK(f) /\ f.day = Day(ts)
         /\ ByDay(e) \in Int /\ ByDay(f) <= ByDay(e) /\ (Agree(e) => Agree(f))
         /\ (f = e \/ f.integrated = ts)
         /\ ((f.runtime = e.runtime /\ f.minutes = e.minutes) \/ (f.runtime = 0 /\ f.minutes = -1))
         /\ f.batAt = e.batAt /\ f.chgAt = e.chgAt
<1> DEFINE f == ResetDaily(e, ts)
           x == [day |-> e.day, wh |-> e.discharged]
<1>1. Day(ts) \in Nat
  BY NatDiv, MeterAssumption DEF Day
<1>2. ByDay(e) \in Int /\ ByHour(e) \in Int /\ Total(e.days) \in Int /\ Total(e.hours) \in Int
  BY BooksAreInt
<1>3. CASE e.day = Day(ts)
  <2>1. f = e
    BY <1>3 DEF ResetDaily
  <2> QED BY <1>2, <1>3, <2>1
<1>4. CASE e.day # Day(ts) /\ e.day < 0
  <2>1. /\ f = [e EXCEPT !.days = e.days, !.day = Day(ts), !.charged = 0, !.discharged = 0,
                          !.solar = 0, !.soc = <<>>, !.runtime = 0, !.minutes = -1, !.integrated = ts]
    <3>1. ~(e.day >= 0)
      BY <1>4 DEF MeterOK
    <3> QED BY <1>4, <3>1 DEF ResetDaily
  <2> HIDE DEF f
  <2>2. /\ DOMAIN f = MeterFields /\ f.day = Day(ts) /\ f.discharged = 0 /\ f.days = e.days
        /\ f.thisHour = e.thisHour /\ f.hour = e.hour /\ f.hours = e.hours /\ f.integrated = ts
        /\ f.batAt = e.batAt /\ f.chgAt = e.chgAt /\ f.runtime = 0 /\ f.minutes = -1
    BY <2>1 DEF MeterOK, MeterFields
  <2>3. MeterOK(f)
    BY <1>1, <2>2 DEF MeterOK
  <2>4. ByDay(f) = ByDay(e) /\ ByHour(f) = ByHour(e)
    BY <1>4, <2>2 DEF ByDay, ByHour, MeterOK
  <2> QED BY <1>2, <2>2, <2>3, <2>4 DEF Agree, f
<1>5. CASE e.day # Day(ts) /\ ~(e.day < 0)
  <2>1. /\ f = [e EXCEPT !.days = Push(e.days, x, KeptDays), !.day = Day(ts), !.charged = 0,
                          !.discharged = 0, !.solar = 0, !.soc = <<>>, !.runtime = 0,
                          !.minutes = -1, !.integrated = ts]
    <3>1. e.day >= 0
      BY <1>5 DEF MeterOK
    <3> QED BY <1>5, <3>1 DEF ResetDaily
  <2> HIDE DEF f
  <2>2. /\ DOMAIN f = MeterFields /\ f.day = Day(ts) /\ f.discharged = 0
        /\ f.days = Push(e.days, x, KeptDays)
        /\ f.thisHour = e.thisHour /\ f.hour = e.hour /\ f.hours = e.hours /\ f.integrated = ts
        /\ f.batAt = e.batAt /\ f.chgAt = e.chgAt /\ f.runtime = 0 /\ f.minutes = -1
    BY <2>1 DEF MeterOK, MeterFields
  <2>3. x \in DayBook /\ x.wh = e.discharged
    BY DEF DayBook, MeterOK
  <2>4. \A y \in DayBook : y.wh \in Nat
    BY DEF DayBook
  <2>5. e.days \in Seq(DayBook) /\ Len(e.days) <= KeptDays /\ KeptDays \in Nat \ {0}
    BY MeterAssumption DEF MeterOK
  <2> DEFINE q == Push(e.days, x, KeptDays)
  <2>6. /\ q \in Seq(DayBook) /\ Len(q) <= KeptDays /\ Total(q) \in Int
        /\ Total(q) <= Total(e.days) + e.discharged
        /\ Len(q) < KeptDays =>
             Len(e.days) < KeptDays /\ Total(q) = Total(e.days) + e.discharged
    <3> HIDE DEF x
    <3> QED BY <2>3, <2>4, <2>5, BookPushed
  <2> HIDE DEF q
  <2>7. f.days = q
    BY <2>2 DEF q
  <2>8. MeterOK(f)
    BY <1>1, <2>2, <2>6, <2>7 DEF MeterOK
  <2>9. ByDay(f) = Total(q) /\ ByDay(e) = Total(e.days) + e.discharged
        /\ ByHour(f) = ByHour(e)
    <3>1. ByDay(f) = 0 + Total(q)
      BY <2>2, <2>7 DEF ByDay
    <3>2. ByDay(e) = Total(e.days) + e.discharged
      BY <1>2 DEF ByDay, MeterOK
    <3>3. ByHour(f) = ByHour(e)
      BY <2>2 DEF ByHour
    <3> QED BY <2>6, <3>1, <3>2, <3>3
  <2>10. Agree(e) => Agree(f)
    BY <2>2, <2>6, <2>7, <2>9 DEF Agree
  <2> QED BY <1>2, <2>2, <2>6, <2>8, <2>9, <2>10 DEF f
<1> QED BY <1>3, <1>4, <1>5

(* Load is integrated: the same amount for the day and for the hour, and at
   most the time since it was integrated last when the load is 1.           *)
LEMMA IntegrateStep ==
  ASSUME NEW e, MeterOK(e), e.day >= 0, NEW ts \in Nat, NEW watts \in Nat
  PROVE  LET f == Integrate(e, ts, watts) IN
         /\ MeterOK(f) /\ f.day = e.day /\ f.integrated = ts /\ (Agree(e) => Agree(f))
         /\ f.runtime = e.runtime /\ f.minutes = e.minutes
         /\ (watts <= 1 /\ e.integrated >= 0 => ByDay(f) <= ByDay(e) + Positive(ts - e.integrated))
<1> DEFINE f == Integrate(e, ts, watts)
           step == Step(ts, IF e.integrated >= 0 THEN e.integrated ELSE ts)
           wh == watts * step
<1>1. step \in Nat /\ (e.integrated >= 0 => step <= Positive(ts - e.integrated))
  <2>1. e.integrated \in Int
    BY DEF MeterOK
  <2>2. PICK since \in Int : since = IF e.integrated >= 0 THEN e.integrated ELSE ts
    BY <2>1
  <2>3. step = IF ts > since /\ ts - since < Gap THEN ts - since ELSE 0
    BY <2>2 DEF Step
  <2> HIDE DEF step
  <2>4. step \in Nat /\ step <= Positive(ts - since)
    BY <2>3 DEF Positive
  <2> QED BY <2>2, <2>4
<1>2. wh \in Nat
  <2> HIDE DEF step
  <2> QED BY <1>1, NatTimes
<1>3. watts <= 1 => wh <= step
  <2> HIDE DEF step
  <2>1. CASE watts = 0
    BY <1>1, <2>1
  <2>2. CASE watts = 1
    BY <1>1, <2>2
  <2> QED BY <2>1, <2>2
<1>4. f = [e EXCEPT !.discharged = e.discharged + wh, !.thisHour = e.thisHour + wh, !.integrated = ts]
  BY DEF Integrate
<1> HIDE DEF f, wh, step
<1>5. /\ DOMAIN f = MeterFields /\ f.day = e.day /\ f.discharged = e.discharged + wh
      /\ f.days = e.days /\ f.thisHour = e.thisHour + wh /\ f.hour = e.hour /\ f.hours = e.hours
      /\ f.integrated = ts /\ f.batAt = e.batAt /\ f.chgAt = e.chgAt
      /\ f.runtime = e.runtime /\ f.minutes = e.minutes
  BY <1>4 DEF MeterOK, MeterFields
<1>6. MeterOK(f)
  <2>a. e.discharged \in Nat /\ e.thisHour \in Nat
    BY DEF MeterOK
  <2>1. e.discharged + wh \in Nat /\ e.thisHour + wh \in Nat /\ ts \in Int
    BY <1>2, <2>a
  <2>2. ~(e.day < 0)
    BY DEF MeterOK
  <2> QED BY <1>5, <2>1, <2>2 DEF MeterOK
<1>7. ByDay(e) \in Int /\ ByHour(e) \in Int /\ Total(e.days) \in Int /\ Total(e.hours) \in Int
  BY BooksAreInt
<1>8. e.discharged \in Nat /\ e.thisHour \in Nat
  BY DEF MeterOK
<1>9. ByDay(f) = ByDay(e) + wh
  <2>1. ByDay(f) = (e.discharged + wh) + Total(e.days)
    BY <1>5 DEF ByDay
  <2>2. ByDay(e) = e.discharged + Total(e.days)
    BY DEF ByDay
  <2> QED BY <1>2, <1>7, <1>8, <2>1, <2>2
<1>10. ByHour(f) = ByHour(e) + wh
  <2>1. ByHour(f) = (e.thisHour + wh) + Total(e.hours)
    BY <1>5 DEF ByHour
  <2>2. ByHour(e) = e.thisHour + Total(e.hours)
    BY DEF ByHour
  <2> QED BY <1>2, <1>7, <1>8, <2>1, <2>2
<1>11. Agree(e) => Agree(f)
  BY <1>5, <1>9, <1>10 DEF Agree
<1>12. watts <= 1 /\ e.integrated >= 0 => ByDay(f) <= ByDay(e) + Positive(ts - e.integrated)
  <2>1. Positive(ts - e.integrated) \in Int
    BY DEF Positive, MeterOK
  <2> QED BY <1>1, <1>2, <1>3, <1>7, <1>9, <2>1
<1> QED BY <1>5, <1>6, <1>11, <1>12 DEF f

(* What the helpers of a step do after the day was reset.                   *)
Booked(e, f, ts, light) ==
  /\ MeterOK(f) /\ f.day = e.day /\ (Agree(e) => Agree(f))
  /\ \/ ByDay(f) = ByDay(e) /\ f.integrated = e.integrated
     \/ /\ f.integrated = ts
        /\ (light /\ e.integrated >= 0) => ByDay(f) <= ByDay(e) + Positive(ts - e.integrated)

Flow(e, f, ts, light) ==
  Booked(e, f, ts, light) /\ f.runtime = e.runtime /\ f.minutes = e.minutes

LEMMA BatteryEnergyStep ==
  ASSUME NEW e, MeterOK(e), e.day >= 0, NEW ts \in Nat, NEW r \in MeterBatteries,
         NEW light \in BOOLEAN, light => r.power <= 1
  PROVE  Flow(e, BatteryEnergy(e, r, ts), ts, light)
<1> DEFINE f == BatteryEnergy(e, r, ts)
<1>1. r.power \in Int
  BY MeterAssumption
<1>2. CASE f = e
  BY <1>2 DEF Flow, Booked
<1>3. CASE r.power > 0 /\ f = Integrate(e, ts, r.power)
  <2>1. r.power \in Nat
    BY <1>1, <1>3
  <2> DEFINE g == Integrate(e, ts, r.power)
  <2>2. /\ MeterOK(g) /\ g.day = e.day /\ g.integrated = ts /\ (Agree(e) => Agree(g))
        /\ g.runtime = e.runtime /\ g.minutes = e.minutes
        /\ (r.power <= 1 /\ e.integrated >= 0 => ByDay(g) <= ByDay(e) + Positive(ts - e.integrated))
    BY <2>1, IntegrateStep
  <2> HIDE DEF g
  <2>3. Flow(e, g, ts, light)
    BY <2>2 DEF Flow, Booked
  <2> QED BY <1>3, <2>3 DEF g
<1>4. CASE f = [e EXCEPT !.charged = @ + (-r.power) * (ts - e.batAt)]
  <2> HIDE DEF f
  <2>1. /\ SameBooks(e, f) /\ f.batAt = e.batAt /\ f.chgAt = e.chgAt
        /\ f.runtime = e.runtime /\ f.minutes = e.minutes
    BY <1>4 DEF SameBooks, MeterOK, MeterFields
  <2>2. MeterOK(f) /\ ByDay(f) = ByDay(e) /\ (Agree(e) => Agree(f))
    BY <2>1, SameBooksKept DEF MeterOK
  <2>3. Flow(e, f, ts, light)
    BY <2>1, <2>2 DEF Flow, Booked, SameBooks
  <2> QED BY <2>3 DEF f
<1> QED BY <1>1, <1>2, <1>3, <1>4 DEF BatteryEnergy

LEMMA HourTurnsStep ==
  ASSUME NEW e, MeterOK(e), NEW ts \in Nat, NEW light
  PROVE  Flow(e, HourTurns(e, ts), ts, light)
<1> DEFINE f == HourTurns(e, ts)
           x == [hour |-> e.hour, wh |-> e.thisHour]
<1>1. Hour(ts) \in Nat
  BY NatDiv, MeterAssumption DEF Hour
<1>2. CASE e.hour < 0 \/ e.hour = Hour(ts)
  <2>1. f = [e EXCEPT !.hour = Hour(ts)]
    BY <1>2 DEF HourTurns
  <2> HIDE DEF f
  <2>2. /\ DOMAIN f = MeterFields /\ f.day = e.day /\ f.discharged = e.discharged
        /\ f.days = e.days /\ f.thisHour = e.thisHour /\ f.hour = Hour(ts) /\ f.hours = e.hours
        /\ f.integrated = e.integrated /\ f.batAt = e.batAt /\ f.chgAt = e.chgAt
        /\ f.runtime = e.runtime /\ f.minutes = e.minutes
    BY <2>1 DEF MeterOK, MeterFields
  <2>3. MeterOK(f)
    BY <1>1, <2>2 DEF MeterOK
  <2>4. ByDay(f) = ByDay(e) /\ ByHour(f) = ByHour(e)
    BY <2>2 DEF ByDay, ByHour
  <2>5. Agree(e) => Agree(f)
    BY <2>2, <2>4 DEF Agree
  <2>6. Flow(e, f, ts, light)
    BY <2>2, <2>3, <2>4, <2>5 DEF Flow, Booked
  <2> QED BY <2>6 DEF f
<1>3. CASE ~(e.hour < 0 \/ e.hour = Hour(ts))
  <2> DEFINE q == Push(e.hours, x, KeptHours)
  <2>1. f = [e EXCEPT !.hours = q, !.thisHour = 0, !.hour = Hour(ts)]
    BY <1>3 DEF HourTurns
  <2>2. x \in HourBook /\ x.wh = e.thisHour
    BY DEF HourBook, MeterOK
  <2>3. \A y \in HourBook : y.wh \in Nat
    BY DEF HourBook
  <2>4. e.hours \in Seq(HourBook) /\ Len(e.hours) <= KeptHours /\ KeptHours \in Nat \ {0}
    BY MeterAssumption DEF MeterOK
  <2>5. /\ q \in Seq(HourBook) /\ Len(q) <= KeptHours /\ Total(q) \in Int
        /\ Len(q) < KeptHours =>
             Len(e.hours) < KeptHours /\ Total(q) = Total(e.hours) + e.thisHour
    <3> HIDE DEF x
    <3> QED BY <2>2, <2>3, <2>4, BookPushed
  <2> HIDE DEF f, q
  <2>6. /\ DOMAIN f = MeterFields /\ f.day = e.day /\ f.discharged = e.discharged
        /\ f.days = e.days /\ f.thisHour = 0 /\ f.hour = Hour(ts) /\ f.hours = q
        /\ f.integrated = e.integrated /\ f.batAt = e.batAt /\ f.chgAt = e.chgAt
        /\ f.runtime = e.runtime /\ f.minutes = e.minutes
    BY <2>1 DEF MeterOK, MeterFields
  <2>7. MeterOK(f)
    BY <1>1, <2>5, <2>6 DEF MeterOK
  <2>8. ByDay(f) = ByDay(e)
    BY <2>6 DEF ByDay
  <2>9. ByHour(f) = 0 + Total(q) /\ ByHour(e) = e.thisHour + Total(e.hours)
    BY <2>6 DEF ByHour
  <2>10. Agree(e) => Agree(f)
    <3>1. Total(e.hours) \in Int /\ e.thisHour \in Nat
      BY BooksAreInt DEF MeterOK
    <3>2. Len(q) < KeptHours => ByHour(f) = ByHour(e)
      BY <2>5, <2>9, <3>1
    <3> QED BY <2>5, <2>6, <2>8, <3>2 DEF Agree
  <2>11. Flow(e, f, ts, light)
    BY <2>6, <2>7, <2>8, <2>10 DEF Flow, Booked
  <2> QED BY <2>11 DEF f
<1> QED BY <1>2, <1>3

(* A reading of the BMS, once its day has begun.                            *)
LEMMA OnBatteryStep ==
  ASSUME NEW e0, MeterOK(e0), NEW ts \in Nat, NEW r \in MeterBatteries,
         NEW light \in BOOLEAN, light => r.power <= 1
  PROVE  Flow(ResetDaily(e0, ts), OnBattery(e0, r, ts), ts, light)
<1> DEFINE e == ResetDaily(e0, ts)
           a == BatteryEnergy(e, r, ts)
           b == HourTurns(a, ts)
           c == SocSeen(b, r)
           d == CapacitySeen(c, r)
           f == [d EXCEPT !.batAt = ts]
<1>1. MeterOK(e) /\ e.day >= 0
  <2>1. Day(ts) \in Nat
    BY NatDiv, MeterAssumption DEF Day
  <2> QED BY <2>1, ResetDailyStep
<1>2. OnBattery(e0, r, ts) = f
  BY DEF OnBattery
<1> HIDE DEF e
<1>3. Flow(e, a, ts, light)
  BY <1>1, BatteryEnergyStep
<1> HIDE DEF a
<1>4. MeterOK(a)
  BY <1>3 DEF Flow, Booked
<1>5. Flow(a, b, ts, FALSE) /\ ByDay(b) = ByDay(a) /\ b.integrated = a.integrated
  <2>1. Flow(a, b, ts, FALSE)
    BY <1>4, HourTurnsStep
  <2>2. b.discharged = a.discharged /\ b.days = a.days /\ b.integrated = a.integrated
    <3>1. CASE a.hour < 0 \/ a.hour = Hour(ts)
      BY <1>4, <3>1 DEF HourTurns, MeterOK, MeterFields
    <3>2. CASE ~(a.hour < 0 \/ a.hour = Hour(ts))
      BY <1>4, <3>2 DEF HourTurns, MeterOK, MeterFields
    <3> QED BY <3>1, <3>2
  <2>3. ByDay(b) = ByDay(a)
    BY <2>2 DEF ByDay
  <2> QED BY <2>1, <2>2, <2>3
<1> HIDE DEF b
<1>6. MeterOK(b)
  BY <1>5 DEF Flow, Booked
<1>7. /\ SameBooks(b, c) /\ c.batAt = b.batAt /\ c.chgAt = b.chgAt
      /\ c.runtime = b.runtime /\ c.minutes = b.minutes
  <2>1. CASE r.soc = 0
    BY <1>6, <2>1 DEF SocSeen, SameBooks, MeterOK, MeterFields
  <2>2. CASE r.soc # 0
    <3> DEFINE v == IF b.soc = <<>> THEN <<r.soc, r.soc>>
                    ELSE <<Min({b.soc[1], r.soc}), Max({b.soc[2], r.soc})>>
    <3>1. c = [b EXCEPT !.soc = v]
      BY <2>2 DEF SocSeen
    <3> HIDE DEF v, c
    <3> QED BY <1>6, <3>1 DEF SameBooks, MeterOK, MeterFields
  <2> QED BY <2>1, <2>2
<1> HIDE DEF c
<1>8. MeterOK(c)
  BY <1>6, <1>7, SameBooksKept DEF MeterOK
<1>9. /\ SameBooks(c, d) /\ d.batAt = c.batAt /\ d.chgAt = c.chgAt
      /\ d.runtime = c.runtime /\ d.minutes = c.minutes
  <2>1. CASE d = c
    BY <1>8, <2>1 DEF SameBooks, MeterOK
  <2>2. CASE d = [c EXCEPT !.draining = TRUE, !.fromAh = r.ah]
    <3> HIDE DEF d
    <3> QED BY <1>8, <2>2 DEF SameBooks, MeterOK, MeterFields
  <2> DEFINE used == c.fromAh - r.ah
             v == IF used > 5 /\ used > c.bestAh THEN used ELSE c.bestAh
  <2>3. CASE d = [c EXCEPT !.draining = FALSE, !.bestAh = v]
    <3> HIDE DEF d, v
    <3> QED BY <1>8, <2>3 DEF SameBooks, MeterOK, MeterFields
  <2>4. CapacitySeen(c, r) =
          IF r.power > 0 /\ ~c.draining THEN [c EXCEPT !.draining = TRUE, !.fromAh = r.ah]
          ELSE IF r.power <= 0 /\ c.draining THEN [c EXCEPT !.draining = FALSE, !.bestAh = v]
          ELSE c
    BY DEF CapacitySeen
  <2> HIDE DEF v
  <2> QED BY <2>1, <2>2, <2>3, <2>4
<1> HIDE DEF d
<1>10. MeterOK(d)
  BY <1>8, <1>9, SameBooksKept DEF MeterOK
<1>11. /\ SameBooks(d, f) /\ f.batAt = ts /\ f.chgAt = d.chgAt
       /\ f.runtime = d.runtime /\ f.minutes = d.minutes
  BY <1>10 DEF SameBooks, MeterOK, MeterFields
<1> HIDE DEF f
<1>12. SameBooks(b, f) /\ f.runtime = b.runtime /\ f.minutes = b.minutes
       /\ f.batAt = ts /\ f.chgAt = b.chgAt
  BY <1>7, <1>9, <1>11 DEF SameBooks
<1>13. MeterOK(f) /\ ByDay(f) = ByDay(b) /\ (Agree(b) => Agree(f))
  <2>1. f.batAt \in Int /\ f.chgAt \in Int /\ f.runtime \in Nat /\ f.minutes \in Int
    BY <1>6, <1>12 DEF MeterOK
  <2> QED BY <1>6, <1>12, <2>1, SameBooksKept
<1>14. Flow(e, f, ts, light)
  BY <1>3, <1>5, <1>12, <1>13 DEF Flow, Booked, SameBooks
<1> QED BY <1>2, <1>14 DEF e, f

(* A reading of the charger, once its day has begun.                        *)
LEMMA OnChargerStep ==
  ASSUME NEW e0, MeterOK(e0), NEW ts \in Nat, NEW r \in MeterChargers, NEW m \in Nat,
         NEW light \in BOOLEAN, light => r.power >= -1
  PROVE  LET e == ResetDaily(e0, ts)
             f == OnCharger(e0, r, ts, m) IN
         /\ Booked(e, f, ts, light)
         /\ r.on = FALSE => f.minutes = -1 /\ f.runtime = e.runtime
         /\ r.on = TRUE => /\ f.minutes = m
                         /\ \/ f.runtime = e.runtime
                            \/ /\ e.minutes >= 0 /\ m - e.minutes >= 0
                               /\ f.runtime = e.runtime + (m - e.minutes)
<1> DEFINE e == ResetDaily(e0, ts)
           a == IF e.chgAt >= 0 /\ r.sol /\ r.power > 0
                THEN [e EXCEPT !.solar = @ + r.power * Step(ts, e.chgAt)] ELSE e
           b == IF r.power < 0 THEN Integrate(a, ts, -r.power) ELSE a
           c == Runtime(b, r, m)
           f == [c EXCEPT !.chgAt = ts]
<1>1. MeterOK(e) /\ e.day >= 0
  <2>1. Day(ts) \in Nat
    BY NatDiv, MeterAssumption DEF Day
  <2> QED BY <2>1, ResetDailyStep
<1>2. OnCharger(e0, r, ts, m) = f
  BY DEF OnCharger
<1>3. r.power \in Int /\ r.on \in BOOLEAN
  BY MeterAssumption
<1> HIDE DEF e
<1>4. Flow(e, a, ts, light) /\ a.integrated = e.integrated /\ ByDay(a) = ByDay(e)
  <2> DEFINE v == e.solar + r.power * Step(ts, e.chgAt)
  <2>1. a = [e EXCEPT !.solar = v] \/ a = e
    OBVIOUS
  <2> HIDE DEF a, v
  <2>2. /\ SameBooks(e, a) /\ a.batAt = e.batAt /\ a.chgAt = e.chgAt
        /\ a.runtime = e.runtime /\ a.minutes = e.minutes
    <3>1. CASE a = [e EXCEPT !.solar = v]
      BY <1>1, <3>1 DEF SameBooks, MeterOK, MeterFields
    <3>2. CASE a = e
      BY <1>1, <3>2 DEF SameBooks, MeterOK
    <3> QED BY <2>1, <3>1, <3>2
  <2>3. MeterOK(a) /\ ByDay(a) = ByDay(e) /\ (Agree(e) => Agree(a))
    BY <1>1, <2>2, SameBooksKept DEF MeterOK
  <2> QED BY <2>2, <2>3 DEF Flow, Booked, SameBooks
<1> HIDE DEF a
<1>5. MeterOK(a) /\ a.day >= 0
  BY <1>1, <1>4 DEF Flow, Booked
<1>6. Flow(a, b, ts, light)
  <2>1. CASE r.power < 0
    <3>1. -r.power \in Nat /\ b = Integrate(a, ts, -r.power) /\ (light => -r.power <= 1)
      BY <1>3, <2>1
    <3> DEFINE w == -r.power
               g == Integrate(a, ts, w)
    <3>2. w \in Nat /\ (light => w <= 1)
      BY <3>1
    <3> HIDE DEF w
    <3>3. /\ MeterOK(g) /\ g.day = a.day /\ g.integrated = ts /\ (Agree(a) => Agree(g))
          /\ g.runtime = a.runtime /\ g.minutes = a.minutes
          /\ (w <= 1 /\ a.integrated >= 0 => ByDay(g) <= ByDay(a) + Positive(ts - a.integrated))
      BY <1>5, <3>2, IntegrateStep
    <3> HIDE DEF g
    <3>4. Flow(a, g, ts, light)
      BY <3>2, <3>3 DEF Flow, Booked
    <3>5. b = g
      BY <2>1 DEF g, w
    <3> QED BY <3>4, <3>5
  <2>2. CASE ~(r.power < 0)
    <3>1. b = a
      BY <2>2
    <3> QED BY <1>5, <3>1 DEF Flow, Booked
  <2> QED BY <2>1, <2>2
<1> HIDE DEF b
<1>7. MeterOK(b) /\ Flow(e, b, ts, light)
  BY <1>4, <1>6 DEF Flow, Booked
<1>8. /\ SameBooks(b, c) /\ c.batAt = b.batAt /\ c.chgAt = b.chgAt
      /\ c.minutes = IF r.on THEN m ELSE -1
      /\ \/ c.runtime = b.runtime
         \/ /\ r.on /\ b.minutes >= 0 /\ m - b.minutes >= 0
            /\ c.runtime = b.runtime + (m - b.minutes)
  <2>1. CASE r.on = FALSE
    <3>1. c = [b EXCEPT !.minutes = -1]
      BY <2>1 DEF Runtime
    <3> HIDE DEF c
    <3> QED BY <1>7, <2>1, <3>1 DEF SameBooks, MeterOK, MeterFields
  <2>2. CASE r.on = TRUE
    <3> DEFINE v == IF b.minutes >= 0 /\ m - b.minutes \in 0..MaxMinutes
                    THEN b.runtime + (m - b.minutes) ELSE b.runtime
    <3>1. c = [b EXCEPT !.runtime = v, !.minutes = m]
      BY <2>2 DEF Runtime
    <3>2. v = b.runtime \/ (b.minutes >= 0 /\ m - b.minutes >= 0 /\ v = b.runtime + (m - b.minutes))
      BY MeterAssumption
    <3> HIDE DEF c, v
    <3>3. c.runtime = v
      BY <1>7, <3>1 DEF MeterOK, MeterFields
    <3> QED BY <1>7, <2>2, <3>1, <3>2, <3>3 DEF SameBooks, MeterOK, MeterFields
  <2> QED BY <1>3, <2>1, <2>2
<1> HIDE DEF c
<1>9. c.runtime \in Nat /\ c.minutes \in Int
  BY <1>3, <1>7, <1>8 DEF MeterOK
<1>10. MeterOK(c)
  BY <1>7, <1>8, <1>9, SameBooksKept DEF MeterOK
<1>11. /\ SameBooks(c, f) /\ f.batAt = c.batAt /\ f.chgAt = ts
       /\ f.runtime = c.runtime /\ f.minutes = c.minutes
  BY <1>10 DEF SameBooks, MeterOK, MeterFields
<1> HIDE DEF f
<1>12. SameBooks(b, f) /\ f.runtime = c.runtime /\ f.minutes = c.minutes
       /\ f.batAt = b.batAt /\ f.chgAt = ts
  BY <1>8, <1>11 DEF SameBooks
<1>13. MeterOK(f) /\ ByDay(f) = ByDay(b) /\ (Agree(b) => Agree(f))
  <2>1. f.batAt \in Int /\ f.chgAt \in Int /\ f.runtime \in Nat /\ f.minutes \in Int
    BY <1>7, <1>9, <1>12 DEF MeterOK
  <2> QED BY <1>7, <1>12, <2>1, SameBooksKept
<1>14. Booked(e, f, ts, light)
  BY <1>7, <1>12, <1>13 DEF Flow, Booked, SameBooks
<1>15. b.runtime = e.runtime /\ b.minutes = e.minutes
  BY <1>7 DEF Flow
<1>16. r.on = FALSE => f.minutes = -1 /\ f.runtime = e.runtime
  BY <1>8, <1>12, <1>15
<1>17. r.on = TRUE => /\ f.minutes = m
                      /\ \/ f.runtime = e.runtime
                         \/ /\ e.minutes >= 0 /\ m - e.minutes >= 0
                            /\ f.runtime = e.runtime + (m - e.minutes)
  BY <1>8, <1>12, <1>15
<1> QED BY <1>2, <1>14, <1>16, <1>17 DEF e

-----------------------------------------------------------------------------
LightLoads ==
  /\ \A r \in MeterBatteries : r.power <= 1
  /\ \A r \in MeterChargers : r.power >= -1

\* What is booked, with the time that may still be integrated, never exceeds
\* the time that has passed; the minutes last seen are not less than the
\* charger's own; and the two books agree.
Ahead(e, rd) == ByDay(e) + Positive(rd.now - e.integrated) <= (rd.now - rd.first) + rd.back

MeterInv ==
  /\ MeterOK(meter) /\ Agree(meter)
  /\ DOMAIN road = {"n", "first", "now", "back", "on"} /\ road.n \in Int
  /\ road.now \in Nat /\ road.back \in Nat /\ road.first \in Int /\ road.on \in Nat
  /\ charger \in [on : BOOLEAN, minutes : Nat]
  /\ meter.minutes >= 0 => charger.on = TRUE /\ charger.minutes <= meter.minutes
  /\ meter.runtime <= road.on
  /\ road.first < 0 =>
       meter.day < 0 /\ ByDay(meter) = 0 /\ road.now = 0 /\ road.back = 0 /\ road.first = -1
  /\ road.first >= 0 => meter.integrated >= 0
  /\ LightLoads /\ road.first >= 0 => Ahead(meter, road)

(* A reading keeps the books behind the road.                               *)
LEMMA AheadKept ==
  ASSUME MeterInv, NEW ts \in Nat, NEW f,
         Booked(ResetDaily(meter, ts), f, ts, LightLoads), NEW rd,
         rd.first = IF road.first < 0 THEN ts ELSE road.first,
         rd.now = ts, rd.back = road.back + Positive(road.now - ts)
  PROVE  MeterOK(f) /\ Agree(f) /\ f.integrated >= 0 /\ (LightLoads => Ahead(f, rd))
<1> DEFINE e == ResetDaily(meter, ts)
<1>1. /\ MeterOK(e) /\ e.day = Day(ts)
      /\ ByDay(meter) \in Int /\ ByDay(e) <= ByDay(meter) /\ Agree(e)
      /\ (e = meter \/ e.integrated = ts)
  BY ResetDailyStep DEF MeterInv
<1>2. Day(ts) \in Nat
  BY NatDiv, MeterAssumption DEF Day
<1> HIDE DEF e
<1>3. /\ MeterOK(f) /\ f.day = e.day /\ Agree(f)
      /\ \/ ByDay(f) = ByDay(e) /\ f.integrated = e.integrated
         \/ /\ f.integrated = ts
            /\ (LightLoads /\ e.integrated >= 0) => ByDay(f) <= ByDay(e) + Positive(ts - e.integrated)
  BY <1>1 DEF Booked, e
<1>4. ByDay(e) \in Int /\ ByDay(f) \in Int /\ e.integrated \in Int /\ f.integrated \in Int
      /\ meter.integrated \in Int
  BY <1>1, <1>3, BooksAreInt DEF MeterOK, MeterInv
<1>5. e.integrated >= 0
  <2>1. CASE road.first < 0
    <3>1. meter.day < 0 /\ e.day >= 0
      BY <1>1, <1>2, <2>1 DEF MeterInv
    <3>2. e # meter
      BY <3>1, <1>4, <1>2, <1>1
    <3> QED BY <1>1, <3>2
  <2>2. CASE road.first >= 0
    BY <1>1, <2>2 DEF MeterInv
  <2> QED BY <2>1, <2>2 DEF MeterInv
<1>6. ASSUME LightLoads PROVE Ahead(f, rd)
  <2>1. \/ ByDay(f) = ByDay(e) /\ f.integrated = e.integrated
        \/ f.integrated = ts /\ ByDay(f) <= ByDay(e) + Positive(ts - e.integrated)
    BY <1>3, <1>5, <1>6
  <2>2. CASE road.first < 0
    <3>1. meter.day < 0 /\ e.day >= 0
      BY <1>1, <1>2, <2>2 DEF MeterInv
    <3>2. e # meter
      BY <3>1, <1>2, <1>1
    <3>3. e.integrated = ts /\ ByDay(e) <= 0
      BY <1>1, <2>2, <3>2 DEF MeterInv
    <3>4. rd.first = ts /\ rd.now = ts /\ rd.back = 0
      BY <2>2 DEF MeterInv, Positive
    <3>5. Positive(ts - ts) = 0
      BY DEF Positive
    <3>6. f.integrated = ts /\ ByDay(f) <= 0
      <4>1. e.integrated = ts /\ Positive(ts - e.integrated) = 0
        BY <3>3, <3>5
      <4> QED BY <1>4, <2>1, <3>3, <4>1
    <3>7. ByDay(f) + Positive(rd.now - f.integrated) <= 0
      BY <1>4, <3>4, <3>5, <3>6
    <3>8. (rd.now - rd.first) + rd.back = 0
      BY <3>4
    <3> QED BY <3>7, <3>8 DEF Ahead
  <2>3. CASE road.first >= 0
    <3>1. Ahead(meter, road) /\ meter.integrated >= 0
      BY <1>6, <2>3 DEF MeterInv
    <3>2. rd.first = road.first
      BY <2>3 DEF MeterInv
    <3>3. road.now \in Nat /\ road.back \in Nat /\ road.first \in Int
      BY DEF MeterInv
    <3>4. CASE e = meter
      BY <1>1, <1>4, <2>1, <3>1, <3>2, <3>3, <3>4 DEF Ahead, Positive
    <3>5. CASE e.integrated = ts
      BY <1>1, <1>4, <2>1, <3>1, <3>2, <3>3, <3>5 DEF Ahead, Positive
    <3> QED BY <1>1, <3>4, <3>5
  <2> QED BY <2>2, <2>3 DEF MeterInv
<1>7. f.integrated >= 0
  BY <1>3, <1>5
<1> QED BY <1>3, <1>6, <1>7

LEMMA MeterInvInit == MeterInit => MeterInv
<1> SUFFICES ASSUME MeterInit PROVE MeterInv
  OBVIOUS
<1>1. Total(<<>>) = 0
  <2>1. [i \in DOMAIN <<>> |-> Wh(<<>>[i])] = <<>>
    OBVIOUS
  <2> QED BY <2>1, SumEmpty DEF Total, SumOf
<1>2. /\ meter.days = <<>> /\ meter.hours = <<>> /\ meter.discharged = 0 /\ meter.thisHour = 0
      /\ meter.day = -1 /\ meter.integrated = -1 /\ meter.minutes = -1 /\ meter.runtime = 0
      /\ meter.hour = -1 /\ meter.batAt = -1 /\ meter.chgAt = -1
  BY DEF MeterInit
<1>3. DOMAIN meter = MeterFields
  BY DEF MeterInit, MeterFields
<1>4. <<>> \in Seq(DayBook) /\ <<>> \in Seq(HourBook) /\ Len(<<>>) = 0
  OBVIOUS
<1>5. MeterOK(meter)
  BY <1>2, <1>3, <1>4, MeterAssumption DEF MeterOK
<1>6. ByDay(meter) = 0 /\ ByHour(meter) = 0
  <2>1. Total(meter.days) = 0 /\ Total(meter.hours) = 0
    BY <1>1, <1>2
  <2> QED BY <1>2, <2>1 DEF ByDay, ByHour
<1>7. road = [n |-> 0, first |-> -1, now |-> 0, back |-> 0, on |-> 0]
      /\ charger = [on |-> FALSE, minutes |-> 0]
  BY DEF MeterInit
<1>8. Agree(meter)
  BY <1>6 DEF Agree
<1> QED BY <1>2, <1>5, <1>6, <1>7, <1>8 DEF MeterInv

LEMMA ReadBatteryKeepsMeterInv ==
  ASSUME MeterInv, NEW ts \in Nat, NEW r \in MeterBatteries, ReadBattery(r, ts)
  PROVE  MeterInv'
<1> DEFINE f == OnBattery(meter, r, ts)
           e == ResetDaily(meter, ts)
           rd == [road EXCEPT !.n = @ + 1, !.first = IF @ < 0 THEN ts ELSE @, !.now = ts,
                              !.back = @ + Positive(road.now - ts)]
<1>1. meter' = f /\ road' = rd /\ charger' = charger
  BY DEF ReadBattery, Travel
<1>2. LightLoads \in BOOLEAN /\ (LightLoads => r.power <= 1)
  BY DEF LightLoads
<1>3. MeterOK(meter)
  BY DEF MeterInv
<1>4. Flow(e, f, ts, LightLoads)
  BY <1>2, <1>3, OnBatteryStep
<1>5. /\ MeterOK(e) /\ ((e.runtime = meter.runtime /\ e.minutes = meter.minutes)
                     \/ (e.runtime = 0 /\ e.minutes = -1))
  BY <1>3, ResetDailyStep
<1> HIDE DEF f, e
<1>6. /\ DOMAIN rd = {"n", "first", "now", "back", "on"} /\ rd.n = road.n + 1
      /\ rd.first = IF road.first < 0 THEN ts ELSE road.first
      /\ rd.now = ts /\ rd.back = road.back + Positive(road.now - ts) /\ rd.on = road.on
  BY DEF MeterInv
<1> HIDE DEF rd
<1>7. MeterOK(f) /\ Agree(f) /\ f.integrated >= 0 /\ (LightLoads => Ahead(f, rd))
  <2>1. Booked(ResetDaily(meter, ts), f, ts, LightLoads)
    BY <1>4 DEF Flow, e
  <2> QED BY <1>6, <2>1, AheadKept
<1>8. f.runtime = e.runtime /\ f.minutes = e.minutes
  BY <1>4 DEF Flow
<1>9. f.runtime <= road.on
  BY <1>5, <1>8 DEF MeterInv
<1>10. f.minutes >= 0 => charger.on = TRUE /\ charger.minutes <= f.minutes
  BY <1>5, <1>8 DEF MeterInv
<1>11. rd.n \in Int /\ rd.first \in Int /\ rd.first >= 0 /\ rd.now \in Nat /\ rd.back \in Nat
  BY <1>6 DEF MeterInv, Positive
<1>12. road.on \in Nat /\ charger \in [on : BOOLEAN, minutes : Nat]
  BY DEF MeterInv
<1> QED BY <1>1, <1>6, <1>7, <1>9, <1>10, <1>11, <1>12 DEF MeterInv

LEMMA ReadChargerKeepsMeterInv ==
  ASSUME MeterInv, NEW ts \in Nat, NEW r \in MeterChargers, NEW k \in Nat, ReadCharger(r, ts, k)
  PROVE  MeterInv'
<1> DEFINE m == IF charger.on THEN charger.minutes + k ELSE k
           m2 == IF r.on THEN m ELSE 0
           f == OnCharger(meter, r, ts, m2)
           e == ResetDaily(meter, ts)
           on2 == road.on + (IF r.on THEN k ELSE 0)
           rd == [[road EXCEPT !.n = @ + 1, !.first = IF @ < 0 THEN ts ELSE @, !.now = ts,
                               !.back = @ + Positive(road.now - ts)]
                  EXCEPT !.on = @ + (IF r.on THEN k ELSE 0)]
<1>1. meter' = f /\ road' = rd /\ charger' = [on |-> r.on, minutes |-> m2]
  BY DEF ReadCharger, Travel
<1>2. LightLoads \in BOOLEAN /\ (LightLoads => r.power >= -1)
  BY DEF LightLoads
<1>3. MeterOK(meter) /\ charger.on \in BOOLEAN /\ charger.minutes \in Nat /\ r.on \in BOOLEAN
      /\ road.on \in Nat
  BY MeterAssumption DEF MeterInv
<1>4. m \in Nat /\ m2 \in Nat /\ (r.on = TRUE => m2 = m) /\ on2 \in Nat
      /\ on2 = IF r.on THEN road.on + k ELSE road.on
  BY <1>3
<1> HIDE DEF m2
<1>5. /\ Booked(e, f, ts, LightLoads)
      /\ r.on = FALSE => f.minutes = -1 /\ f.runtime = e.runtime
      /\ r.on = TRUE => /\ f.minutes = m2
                      /\ \/ f.runtime = e.runtime
                         \/ /\ e.minutes >= 0 /\ m2 - e.minutes >= 0
                            /\ f.runtime = e.runtime + (m2 - e.minutes)
  <2> HIDE DEF m, on2, rd
  <2>1. LightLoads \in BOOLEAN /\ (LightLoads => r.power >= -1) /\ MeterOK(meter) /\ m2 \in Nat
    BY <1>2, <1>3, <1>4
  <2>2. \A l \in BOOLEAN : (l => r.power >= -1) =>
          /\ Booked(e, f, ts, l)
          /\ r.on = FALSE => f.minutes = -1 /\ f.runtime = e.runtime
          /\ r.on = TRUE => /\ f.minutes = m2
                          /\ \/ f.runtime = e.runtime
                             \/ /\ e.minutes >= 0 /\ m2 - e.minutes >= 0
                                /\ f.runtime = e.runtime + (m2 - e.minutes)
    BY <2>1, OnChargerStep
  <2> HIDE DEF f, e
  <2> QED BY <2>1, <2>2
<1>6. /\ MeterOK(e) /\ ((e.runtime = meter.runtime /\ e.minutes = meter.minutes)
                     \/ (e.runtime = 0 /\ e.minutes = -1))
  BY <1>3, ResetDailyStep
<1> HIDE DEF f, e
<1>7. /\ DOMAIN rd = {"n", "first", "now", "back", "on"} /\ rd.n = road.n + 1
      /\ rd.first = IF road.first < 0 THEN ts ELSE road.first
      /\ rd.now = ts /\ rd.back = road.back + Positive(road.now - ts) /\ rd.on = on2
  BY DEF MeterInv
<1> HIDE DEF rd, on2
<1>8. MeterOK(f) /\ Agree(f) /\ f.integrated >= 0 /\ (LightLoads => Ahead(f, rd))
  <2>1. Booked(ResetDaily(meter, ts), f, ts, LightLoads)
    BY <1>5 DEF e
  <2> QED BY <1>7, <2>1, AheadKept
<1>9. /\ meter.minutes >= 0 => charger.on = TRUE /\ charger.minutes <= meter.minutes
      /\ meter.runtime <= road.on /\ meter.minutes \in Int /\ meter.runtime \in Nat
      /\ e.minutes \in Int /\ e.runtime \in Nat /\ e.runtime <= road.on
  BY <1>3, <1>6 DEF MeterInv, MeterOK
<1>10. f.runtime <= on2
  <2>1. CASE r.on = FALSE
    BY <1>3, <1>4, <1>5, <1>9, <2>1
  <2>2. CASE r.on = TRUE
    <3>1. CASE f.runtime = e.runtime
      BY <1>3, <1>4, <1>9, <2>2, <3>1
    <3>2. CASE /\ e.minutes >= 0 /\ m2 - e.minutes >= 0
               /\ f.runtime = e.runtime + (m2 - e.minutes)
      <4>1. e.minutes = meter.minutes /\ charger.on = TRUE /\ charger.minutes <= e.minutes
        BY <1>6, <1>9, <3>2
      <4>2. m2 = charger.minutes + k
        BY <1>4, <2>2, <4>1
      <4>3. m2 - e.minutes <= k
        BY <1>3, <1>9, <4>1, <4>2
      <4> QED BY <1>3, <1>4, <1>9, <2>2, <3>2, <4>3
    <3> QED BY <1>5, <2>2, <3>1, <3>2
  <2> QED BY <1>3, <2>1, <2>2
<1>11. f.minutes >= 0 => r.on = TRUE /\ m2 <= f.minutes
  BY <1>3, <1>4, <1>5
<1>12. rd.n \in Int /\ rd.first \in Int /\ rd.first >= 0 /\ rd.now \in Nat /\ rd.back \in Nat
  BY <1>7 DEF MeterInv, Positive
<1>13. [on |-> r.on, minutes |-> m2] \in [on : BOOLEAN, minutes : Nat]
  BY <1>3, <1>4
<1> DEFINE c == [on |-> r.on, minutes |-> m2]
<1>14. charger' = c /\ c.on = r.on /\ c.minutes = m2 /\ c \in [on : BOOLEAN, minutes : Nat]
  BY <1>1, <1>13
<1> HIDE DEF c
<1> QED BY <1>1, <1>4, <1>7, <1>8, <1>10, <1>11, <1>12, <1>14 DEF MeterInv

LEMMA RestartKeepsMeterInv ==
  ASSUME MeterInv, ChargeRestarts
  PROVE  MeterInv'
<1>1. meter' = meter /\ road' = road /\ charger' = [charger EXCEPT !.minutes = 0]
  BY DEF ChargeRestarts
<1>2. charger' \in [on : BOOLEAN, minutes : Nat] /\ charger'.on = charger.on /\ charger'.minutes = 0
  BY <1>1 DEF MeterInv
<1>3. meter.minutes >= 0 => charger'.on = TRUE /\ charger'.minutes <= meter.minutes
  BY <1>2 DEF MeterInv, MeterOK
<1> QED BY <1>1, <1>2, <1>3 DEF MeterInv

LEMMA MeterInvHolds == MeterSpec => []MeterInv
<1>1. ASSUME MeterInv, [MeterNext]_meterVars
      PROVE  MeterInv'
  <2>1. CASE UNCHANGED meterVars
    BY <1>1, <2>1 DEF MeterInv, meterVars
  <2>2. ASSUME NEW ts \in {road.now - 1, road.now + 1, road.now + Gap} \ {-1},
               NEW r \in MeterBatteries, ReadBattery(r, ts)
        PROVE  MeterInv'
    <3>1. ts \in Nat
      BY <1>1, <2>2, MeterAssumption DEF MeterInv
    <3> QED BY <1>1, <2>2, <3>1, ReadBatteryKeepsMeterInv
  <2>3. ASSUME NEW ts \in {road.now - 1, road.now + 1, road.now + Gap} \ {-1},
               NEW r \in MeterChargers, NEW k \in {0, MaxMinutes + 1}, ReadCharger(r, ts, k)
        PROVE  MeterInv'
    <3>1. ts \in Nat /\ k \in Nat
      BY <1>1, <2>3, MeterAssumption DEF MeterInv
    <3> QED BY <1>1, <2>3, <3>1, ReadChargerKeepsMeterInv
  <2>4. CASE ChargeRestarts
    BY <1>1, <2>4, RestartKeepsMeterInv
  <2> QED BY <1>1, <2>1, <2>2, <2>3, <2>4 DEF MeterNext
<1> QED BY <1>1, MeterInvInit, PTL DEF MeterSpec

\* However the two streams interleave, and however often times step back, no
\* stretch of time is booked twice: with loads of at most 1 the energy is at most
\* the time that passed, and the runtime is made of minutes the charger was on.
THEOREM NoDoubleCountHolds == ASSUME LightLoads PROVE MeterSpec => []NoDoubleCount
<1>1. MeterInv => NoDoubleCount
  <2> SUFFICES ASSUME MeterInv PROVE NoDoubleCount
    OBVIOUS
  <2>1. Discharged = ByDay(meter)
    BY DEF Discharged, ByDay, Total
  <2>2. meter.runtime \in 0..road.on
    BY DEF MeterInv, MeterOK
  <2>3. ByDay(meter) <= (road.now - road.first) + road.back
    <3>1. ByDay(meter) \in Int /\ meter.integrated \in Int
      BY BooksAreInt DEF MeterInv, MeterOK
    <3>2. CASE road.first < 0
      BY <3>1, <3>2 DEF MeterInv
    <3>3. CASE road.first >= 0
      BY <3>1, <3>3 DEF MeterInv, Ahead, Positive
    <3> QED BY <3>2, <3>3 DEF MeterInv
  <2> QED BY <2>1, <2>2, <2>3 DEF NoDoubleCount
<1> QED BY <1>1, MeterInvHolds, PTL

\* The books by day and by hour agree as long as nothing was shifted out of
\* them, and the week is the sum of its days, whatever the loads.
THEOREM BooksAgreeHolds == MeterSpec => []BooksAgree
<1>1. MeterInv => BooksAgree
  <2> SUFFICES ASSUME MeterInv PROVE BooksAgree
    OBVIOUS
  <2>1. Discharged = ByDay(meter) /\ ByHour(meter) = meter.thisHour + SumOf(meter.hours, Wh)
    BY DEF Discharged, ByDay, ByHour, Total
  <2>2. Len(meter.days) <= 6 => WeekWh(meter) = Discharged
    <3>1. Len(meter.days) <= 6 => Trim(meter.days, 6) = meter.days
      BY LenProperties DEF Trim, MeterInv, MeterOK
    <3> QED BY <3>1 DEF WeekWh, Discharged
  <2> QED BY <2>1, <2>2 DEF BooksAgree, MeterInv, Agree
<1> QED BY <1>1, MeterInvHolds, PTL

(* What the counters that are not booked stay in.                           *)
Percents == \A r \in MeterBatteries : r.soc <= 100

Extremes(soc) ==
  soc = <<>> \/ \E lo, hi \in Nat : soc = <<lo, hi>> /\ (Percents => lo <= 100 /\ hi <= 100)

Counted(e) == e.charged \in Nat /\ e.solar \in Nat /\ e.bestAh \in Nat /\ Extremes(e.soc)

(* A battery's reading keeps them, ...                                      *)
LEMMA OnBatteryCounted ==
  ASSUME NEW e0, MeterOK(e0), Counted(e0), e0.fromAh \in Int, NEW ts \in Nat, NEW r \in MeterBatteries
  PROVE  Counted(OnBattery(e0, r, ts)) /\ OnBattery(e0, r, ts).fromAh \in Int
<1>0. r.power \in Int /\ r.soc \in Nat /\ r.ah \in Int /\ (Percents => r.soc <= 100)
  BY MeterAssumption DEF Percents
<1> DEFINE e == ResetDaily(e0, ts)
           b == BatteryEnergy(e, r, ts)
           h == HourTurns(b, ts)
           s == SocSeen(h, r)
           c == CapacitySeen(s, r)
<1>1. /\ DOMAIN e = MeterFields /\ Counted(e) /\ e.fromAh \in Int /\ e.batAt \in Int
      /\ e.integrated \in Int
  <2>1. e.charged \in Nat /\ e.solar \in Nat /\ e.bestAh \in Nat
    BY DEF ResetDaily, MeterOK, MeterFields, Counted
  <2>2. e.soc = e0.soc \/ e.soc = <<>>
    BY DEF ResetDaily, MeterOK, MeterFields
  <2>3. Extremes(e.soc)
    BY <2>2 DEF Counted, Extremes
  <2>4. DOMAIN e = MeterFields /\ e.fromAh = e0.fromAh /\ e.batAt = e0.batAt /\ e.integrated \in Int
    BY DEF ResetDaily, MeterOK, MeterFields
  <2> QED BY <2>1, <2>3, <2>4 DEF Counted, MeterOK
<1> HIDE DEF e
<1>2. /\ DOMAIN b = MeterFields /\ b.charged \in Nat /\ b.soc = e.soc /\ b.solar = e.solar
      /\ b.bestAh = e.bestAh /\ b.fromAh = e.fromAh
  <2>1. CASE e.batAt < 0 \/ Step(ts, e.batAt) = 0 \/ r.power = 0
    BY <1>1, <2>1 DEF BatteryEnergy, Counted
  <2>2. CASE ~(e.batAt < 0 \/ Step(ts, e.batAt) = 0 \/ r.power = 0) /\ r.power > 0
    BY <1>1, <2>2 DEF BatteryEnergy, Integrate, Counted, MeterFields
  <2>3. CASE ~(e.batAt < 0 \/ Step(ts, e.batAt) = 0 \/ r.power = 0) /\ ~(r.power > 0)
    <3>1. b = [e EXCEPT !.charged = @ + (-r.power) * (ts - e.batAt)]
      BY <2>3 DEF BatteryEnergy
    <3>2. -r.power \in Nat /\ ts - e.batAt \in Nat
      BY <1>0, <1>1, <2>3 DEF Step
    <3>3. (-r.power) * (ts - e.batAt) \in Nat
      BY <3>2, NatTimes
    <3>4. \A n \in Nat : e.charged + n \in Nat
      BY <1>1 DEF Counted
    <3>5. b.charged = e.charged + (-r.power) * (ts - e.batAt)
      BY <1>1, <3>1 DEF MeterFields
    <3>6. b.charged \in Nat
      BY <3>3, <3>4, <3>5
    <3> QED BY <1>1, <3>1, <3>6 DEF MeterFields
  <2> QED BY <2>1, <2>2, <2>3
<1> HIDE DEF b
<1>3. /\ DOMAIN h = MeterFields /\ h.charged = b.charged /\ h.soc = b.soc /\ h.solar = b.solar
      /\ h.bestAh = b.bestAh /\ h.fromAh = b.fromAh
  BY <1>2 DEF HourTurns, MeterFields
<1> HIDE DEF h
<1>4. Extremes(s.soc)
  <2>0. Extremes(h.soc)
    BY <1>1, <1>2, <1>3 DEF Counted
  <2>1. CASE r.soc = 0
    BY <2>0, <2>1 DEF SocSeen
  <2>2. CASE r.soc # 0 /\ h.soc = <<>>
    <3>1. s.soc = <<r.soc, r.soc>>
      BY <1>3, <2>2 DEF SocSeen, MeterFields
    <3> QED BY <1>0, <3>1 DEF Extremes
  <2>3. CASE r.soc # 0 /\ h.soc # <<>>
    <3>1. PICK lo \in Nat, hi \in Nat : h.soc = <<lo, hi>> /\ (Percents => lo <= 100 /\ hi <= 100)
      BY <2>0, <2>3 DEF Extremes
    <3>2. s.soc = <<Min({lo, r.soc}), Max({hi, r.soc})>>
      BY <1>3, <2>3, <3>1 DEF SocSeen, MeterFields
    <3>3. /\ Min({lo, r.soc}) \in {lo, r.soc}
          /\ Max({hi, r.soc}) \in {hi, r.soc}
      <4>1. \A x, y \in Int : \E z \in {x, y} : \A u \in {x, y} : z <= u
        OBVIOUS
      <4>2. \A x, y \in Int : \E z \in {x, y} : \A u \in {x, y} : z >= u
        OBVIOUS
      <4> QED BY <1>0, <3>1, <4>1, <4>2 DEF Min, Max
    <3>4. /\ Min({lo, r.soc}) \in Nat /\ Max({hi, r.soc}) \in Nat
          /\ Percents => Min({lo, r.soc}) <= 100 /\ Max({hi, r.soc}) <= 100
      BY <1>0, <3>1, <3>3
    <3> QED BY <3>2, <3>4 DEF Extremes
  <2> QED BY <2>1, <2>2, <2>3
<1>5. /\ DOMAIN s = MeterFields /\ s.charged = h.charged /\ s.solar = h.solar
      /\ s.bestAh = h.bestAh /\ s.fromAh = h.fromAh
  BY <1>3 DEF SocSeen, MeterFields
<1> HIDE DEF s
<1>6. /\ DOMAIN c = MeterFields /\ c.charged = s.charged /\ c.solar = s.solar /\ c.soc = s.soc
      /\ c.bestAh \in Nat /\ c.fromAh \in Int
  BY <1>0, <1>1, <1>2, <1>3, <1>5 DEF CapacitySeen, MeterFields, Counted
<1> HIDE DEF c
<1>7. OnBattery(e0, r, ts) = [c EXCEPT !.batAt = ts]
  BY DEF OnBattery, c, s, h, b, e
<1>8. Counted([c EXCEPT !.batAt = ts]) /\ [c EXCEPT !.batAt = ts].fromAh \in Int
  BY <1>1, <1>2, <1>3, <1>4, <1>5, <1>6 DEF Counted, MeterFields
<1> QED BY <1>7, <1>8

(* ... and so does a charger's.                                             *)
LEMMA OnChargerCounted ==
  ASSUME NEW e0, MeterOK(e0), Counted(e0), e0.fromAh \in Int, NEW ts \in Nat, NEW r \in MeterChargers,
         NEW m \in Nat
  PROVE  Counted(OnCharger(e0, r, ts, m)) /\ OnCharger(e0, r, ts, m).fromAh \in Int
<1>0. r.power \in Int
  BY MeterAssumption
<1> DEFINE e == ResetDaily(e0, ts)
           solar == IF e.chgAt >= 0 /\ r.sol /\ r.power > 0
                    THEN [e EXCEPT !.solar = @ + r.power * Step(ts, e.chgAt)] ELSE e
           loaded == IF r.power < 0 THEN Integrate(solar, ts, -r.power) ELSE solar
           f == [Runtime(loaded, r, m) EXCEPT !.chgAt = ts]
<1>1. DOMAIN e = MeterFields /\ Counted(e) /\ e.fromAh \in Int /\ e.chgAt \in Int
  <2>1. e.charged \in Nat /\ e.solar \in Nat /\ e.bestAh \in Nat
    BY DEF ResetDaily, MeterOK, MeterFields, Counted
  <2>2. e.soc = e0.soc \/ e.soc = <<>>
    BY DEF ResetDaily, MeterOK, MeterFields
  <2>3. Extremes(e.soc)
    BY <2>2 DEF Counted, Extremes
  <2>4. DOMAIN e = MeterFields /\ e.fromAh = e0.fromAh /\ e.chgAt = e0.chgAt
    BY DEF ResetDaily, MeterOK, MeterFields
  <2> QED BY <2>1, <2>3, <2>4 DEF Counted, MeterOK
<1> HIDE DEF e
<1>2. /\ DOMAIN solar = MeterFields /\ solar.charged = e.charged /\ solar.soc = e.soc
      /\ solar.bestAh = e.bestAh /\ solar.fromAh = e.fromAh
  BY <1>1 DEF MeterFields
<1>3. solar.solar \in Nat
  <2>1. CASE e.chgAt >= 0 /\ r.sol /\ r.power > 0
    <3>1. r.power \in Nat /\ Step(ts, e.chgAt) \in Nat
      BY <1>0, <1>1, <2>1 DEF Step
    <3>2. r.power * Step(ts, e.chgAt) \in Nat
      BY <3>1, NatTimes
    <3>3. \A n \in Nat : e.solar + n \in Nat
      BY <1>1 DEF Counted
    <3>4. solar.solar = e.solar + r.power * Step(ts, e.chgAt)
      BY <1>1, <2>1 DEF MeterFields
    <3> QED BY <3>2, <3>3, <3>4
  <2>2. CASE ~(e.chgAt >= 0 /\ r.sol /\ r.power > 0)
    BY <1>1, <2>2 DEF Counted
  <2> QED BY <2>1, <2>2
<1> HIDE DEF solar
<1>4. /\ DOMAIN loaded = MeterFields /\ loaded.charged = solar.charged /\ loaded.soc = solar.soc
      /\ loaded.bestAh = solar.bestAh /\ loaded.fromAh = solar.fromAh /\ loaded.solar = solar.solar
  BY <1>2 DEF Integrate, MeterFields
<1> HIDE DEF loaded
<1>5. Counted(f) /\ f.fromAh \in Int
  BY <1>1, <1>2, <1>3, <1>4 DEF Runtime, Counted, MeterFields
<1>6. OnCharger(e0, r, ts, m) = f
  BY DEF OnCharger, f, loaded, solar, e
<1> QED BY <1>5, <1>6

(* With states of charge that are percentages, as the BMS reports them, the *)
(* counters keep their types over any readings and steps of the clock: the  *)
(* archives their size, energies and the observed capacity their sign, and  *)
(* the depth of discharge its range (reset_daily_if_needed, on_battery).    *)
THEOREM MeterTypes == ASSUME Percents PROVE MeterSpec => []MeterTypeOK
<1> DEFINE Inv == Counted(meter) /\ meter.fromAh \in Int /\ meter.day >= -1
<1>1. MeterInit => Inv
  BY DEF MeterInit, Counted, Extremes
<1>2. ASSUME Inv, MeterInv, [MeterNext]_meterVars
      PROVE  Inv'
  <2>1. CASE UNCHANGED meterVars
    BY <1>2, <2>1 DEF meterVars
  <2>2. ASSUME NEW ts \in {road.now - 1, road.now + 1, road.now + Gap} \ {-1},
               NEW r \in MeterBatteries, ReadBattery(r, ts)
        PROVE  Inv'
    <3>1. ts \in Nat /\ MeterOK(meter)
      BY <1>2, MeterAssumption DEF MeterInv
    <3>2. meter' = OnBattery(meter, r, ts)
      BY <2>2 DEF ReadBattery
    <3>3. Flow(ResetDaily(meter, ts), OnBattery(meter, r, ts), ts, FALSE)
      BY <3>1, OnBatteryStep
    <3>4. meter'.day = Day(ts)
      BY <3>1, <3>2, <3>3, ResetDailyStep DEF Flow, Booked
    <3>5. Day(ts) \in Nat
      BY <3>1, NatDiv, MeterAssumption DEF Day
    <3>6. Counted(OnBattery(meter, r, ts)) /\ OnBattery(meter, r, ts).fromAh \in Int
      BY <1>2, <3>1, OnBatteryCounted
    <3>7. Extremes(meter'.soc) /\ meter'.charged \in Nat /\ meter'.solar \in Nat
          /\ meter'.bestAh \in Nat /\ meter'.fromAh \in Int /\ meter'.day >= -1
      BY <3>2, <3>4, <3>5, <3>6 DEF Counted
    <3> QED BY <3>7 DEF Counted, Extremes
  <2>3. ASSUME NEW ts \in {road.now - 1, road.now + 1, road.now + Gap} \ {-1},
               NEW r \in MeterChargers, NEW k \in {0, MaxMinutes + 1}, ReadCharger(r, ts, k)
        PROVE  Inv'
    <3>1. ts \in Nat /\ k \in Nat /\ MeterOK(meter) /\ charger \in [on : BOOLEAN, minutes : Nat]
      BY <1>2, MeterAssumption DEF MeterInv
    <3>2. PICK m \in Nat : meter' = OnCharger(meter, r, ts, m)
      BY <2>3, <3>1 DEF ReadCharger
    <3>3. Booked(ResetDaily(meter, ts), OnCharger(meter, r, ts, m), ts, FALSE)
      BY <3>1, <3>2, OnChargerStep
    <3>4. meter'.day = Day(ts)
      BY <3>1, <3>2, <3>3, ResetDailyStep DEF Booked
    <3>5. Day(ts) \in Nat
      BY <3>1, NatDiv, MeterAssumption DEF Day
    <3>6. Counted(OnCharger(meter, r, ts, m)) /\ OnCharger(meter, r, ts, m).fromAh \in Int
      BY <1>2, <3>1, <3>2, OnChargerCounted
    <3>7. Extremes(meter'.soc) /\ meter'.charged \in Nat /\ meter'.solar \in Nat
          /\ meter'.bestAh \in Nat /\ meter'.fromAh \in Int /\ meter'.day >= -1
      BY <3>2, <3>4, <3>5, <3>6 DEF Counted
    <3> QED BY <3>7 DEF Counted, Extremes
  <2>4. CASE ChargeRestarts
    BY <1>2, <2>4 DEF ChargeRestarts
  <2> QED BY <1>2, <2>1, <2>2, <2>3, <2>4 DEF MeterNext
<1>3. Inv /\ MeterInv => MeterTypeOK
  <2> SUFFICES ASSUME Inv, MeterInv PROVE MeterTypeOK
    OBVIOUS
  <2>1. DepthOfDischarge(meter) \in -100..100
    <3>1. CASE meter.soc = <<>>
      BY <3>1 DEF DepthOfDischarge
    <3>2. CASE meter.soc # <<>>
      <4>1. PICK lo \in Nat, hi \in Nat : meter.soc = <<lo, hi>> /\ lo <= 100 /\ hi <= 100
        BY <3>2 DEF Counted, Extremes
      <4>2. DepthOfDischarge(meter) = hi - lo
        BY <3>2, <4>1 DEF DepthOfDischarge
      <4>3. \A a, b \in Nat : a <= 100 /\ b <= 100 => b - a \in -100..100
        OBVIOUS
      <4> QED BY <4>1, <4>2, <4>3
    <3> QED BY <3>1, <3>2
  <2>2. MeterOK(meter)
    BY DEF MeterInv
  <2>3. Len(meter.days) <= KeptDays /\ Len(meter.hours) <= KeptHours /\ meter.discharged >= 0
    BY <2>2 DEF MeterOK
  <2>4. meter.charged >= 0 /\ meter.solar >= 0 /\ meter.bestAh >= 0 /\ meter.day >= -1
    BY DEF Counted
  <2> HIDE DEF Inv
  <2> QED BY <2>1, <2>3, <2>4 DEF MeterTypeOK
<1> QED BY <1>1, <1>2, <1>3, MeterInvHolds, PTL DEF MeterSpec

-----------------------------------------------------------------------------
(***** TrendRings *****)
(* Where the j-th oldest entry is in a ring of n slots.                     *)
Place(r, j, n) ==
  IF r.count < n THEN j ELSE IF (r.head + j) - 1 > n THEN ((r.head + j) - 1) - n ELSE (r.head + j) - 1

\* The ring holds the window w, oldest first from its head.
RingOf(r, w, n, S) ==
  /\ {"slot", "head", "count"} \subseteq DOMAIN r
  /\ r.slot \in Seq(S) /\ Len(r.slot) = r.count /\ Len(w) = r.count
  /\ r.count \in 0..n /\ r.head \in 1..n /\ (r.count < n => r.head = r.count + 1)
  /\ \A j \in 1..r.count : r.slot[Place(r, j, n)] = w[j]

LEMMA NextHead ==
  ASSUME NEW n \in Nat \ {0}, NEW h \in 1..n
  PROVE  (h % n) + 1 = IF h = n THEN 1 ELSE h + 1
<1>1. CASE h = n
  <2>1. n % n = 0
    OBVIOUS
  <2> QED BY <1>1, <2>1
<1>2. CASE h < n
  <2>1. h % n = h
    BY <1>2
  <2> QED BY <1>2, <2>1
<1> QED BY <1>1, <1>2

(* In a full ring the head's next entry has the next one's place.           *)
LEMMA PlaceOfNext ==
  ASSUME NEW n \in Nat \ {0}, NEW q, NEW r, NEW j \in 1..n, j # n,
         q.count = n /\ r.count = n /\ r.head \in 1..n /\ q.head = IF r.head = n THEN 1 ELSE r.head + 1
  PROVE  /\ Place(q, j, n) = Place(r, j + 1, n)
         /\ Place(r, j + 1, n) \in 1..n /\ Place(r, j + 1, n) # r.head
<1> DEFINE h == r.head
<1>0. h \in 1..n /\ q.count = n /\ r.count = n /\ q.head = IF h = n THEN 1 ELSE h + 1
  OBVIOUS
<1>1. Place(r, j + 1, n) = IF (h + (j + 1)) - 1 > n THEN ((h + (j + 1)) - 1) - n ELSE (h + (j + 1)) - 1
  BY <1>0 DEF Place
<1> SUFFICES /\ Place(q, j, n) = Place(r, j + 1, n)
             /\ Place(r, j + 1, n) \in 1..n /\ Place(r, j + 1, n) # h
  OBVIOUS
<1> HIDE DEF h
<1>2. CASE h = n
  <2>1. q.head = 1
    BY <1>0, <1>2
  <2>2. Place(q, j, n) = IF (1 + j) - 1 > n THEN ((1 + j) - 1) - n ELSE (1 + j) - 1
    BY <1>0, <2>1 DEF Place
  <2>3. Place(q, j, n) = j
    BY <2>2
  <2>4. Place(r, j + 1, n) = j
    BY <1>1, <1>2
  <2> QED BY <1>2, <2>3, <2>4
<1>3. CASE h < n
  <2>1. q.head = h + 1
    BY <1>0, <1>3
  <2>2. Place(q, j, n) = IF ((h + 1) + j) - 1 > n THEN (((h + 1) + j) - 1) - n ELSE ((h + 1) + j) - 1
    BY <1>0, <2>1 DEF Place
  <2>3. CASE h + j > n
    <3>1. Place(q, j, n) = (h + j) - n /\ Place(r, j + 1, n) = (h + j) - n
      BY <1>0, <1>1, <2>2, <2>3
    <3> QED BY <1>0, <1>3, <2>3, <3>1
  <2>4. CASE h + j <= n
    <3>1. Place(q, j, n) = h + j /\ Place(r, j + 1, n) = h + j
      BY <1>0, <1>1, <2>2, <2>4
    <3> QED BY <1>0, <1>3, <2>4, <3>1
  <2> QED BY <1>0, <2>3, <2>4
<1> QED BY <1>0, <1>2, <1>3

(* Writing at the head: the oldest entry goes, the newest is behind it.     *)
LEMMA PutStep ==
  ASSUME NEW S, NEW n \in Nat \ {0}, NEW r, NEW w \in Seq(S), RingOf(r, w, n, S), NEW x \in S
  PROVE  LET q == Put(r, x, n) IN
         /\ RingOf(q, Push(w, x, n), n, S) /\ DOMAIN q = DOMAIN r
         /\ \A f \in DOMAIN r \ {"slot", "head", "count"} : q[f] = r[f]
         /\ q.slot = IF r.count < n THEN Append(r.slot, x) ELSE [r.slot EXCEPT ![r.head] = x]
<1> DEFINE q == Put(r, x, n)
           v == Push(w, x, n)
           c == r.count
           h == r.head
           sl == IF r.count < n THEN Append(r.slot, x) ELSE [r.slot EXCEPT ![r.head] = x]
<1>1. /\ {"slot", "head", "count"} \subseteq DOMAIN r
      /\ r.slot \in Seq(S) /\ Len(r.slot) = c /\ Len(w) = c
      /\ c \in 0..n /\ h \in 1..n /\ (c < n => h = c + 1)
      /\ \A j \in 1..c : r.slot[Place(r, j, n)] = w[j]
  BY DEF RingOf
<1>2. q = [r EXCEPT !.slot = sl, !.head = (h % n) + 1, !.count = IF c < n THEN c + 1 ELSE c]
  BY DEF Put
<1>3. (h % n) + 1 = IF h = n THEN 1 ELSE h + 1
  BY <1>1, NextHead
<1> HIDE DEF q, sl
<1>4. /\ DOMAIN q = DOMAIN r /\ q.slot = sl /\ q.head = (IF h = n THEN 1 ELSE h + 1)
      /\ q.count = (IF c < n THEN c + 1 ELSE c)
      /\ \A f \in DOMAIN r \ {"slot", "head", "count"} : q[f] = r[f]
  BY <1>1, <1>2, <1>3
<1>5. /\ v \in Seq(S) /\ Len(v) = IF c < n THEN c + 1 ELSE n
      /\ \A i \in 1..Len(v) : v[i] = IF i = Len(v) THEN x ELSE IF c < n THEN w[i] ELSE w[i + 1]
  <2>1. Len(w) <= n /\ Len(w) = c
    BY <1>1
  <2>2. v \in Seq(S) /\ Len(v) = IF Len(w) < n THEN Len(w) + 1 ELSE n
    BY <2>1, PushKept
  <2>3. ASSUME NEW i \in 1..Len(v)
        PROVE  v[i] = IF i = Len(v) THEN x ELSE IF Len(w) < n THEN w[i] ELSE w[i + 1]
    BY <2>1, PushKept
  <2> QED BY <2>1, <2>2, <2>3
<1> HIDE DEF v
<1>6. /\ sl \in Seq(S) /\ Len(sl) = q.count
      /\ c < n => (\A i \in 1..c : sl[i] = r.slot[i]) /\ sl[c + 1] = x
      /\ c = n => \A i \in 1..n : sl[i] = IF i = h THEN x ELSE r.slot[i]
  <2>1. CASE c < n
    BY <1>1, <1>4, <2>1, AppendProperties DEF sl
  <2>2. CASE c = n
    BY <1>1, <1>4, <2>2, ExceptSeq DEF sl
  <2> QED BY <1>1, <2>1, <2>2
<1>7. ASSUME NEW j \in 1..q.count
      PROVE  q.slot[Place(q, j, n)] = v[j]
  <2>1. CASE c + 1 < n
    <3>1. Place(q, j, n) = j /\ Place(r, j, n) = j /\ q.count = c + 1 /\ Len(v) = c + 1
      BY <1>1, <1>4, <1>5, <2>1 DEF Place
    <3>2. j = c + 1 \/ j \in 1..c
      BY <1>1, <3>1
    <3>3. q.slot[Place(q, j, n)] = sl[j]
      BY <1>4, <3>1
    <3>4. CASE j = c + 1
      <4>1. sl[j] = x
        BY <1>1, <1>6, <2>1, <3>4
      <4>2. v[j] = x
        BY <1>1, <1>5, <3>1, <3>4
      <4> QED BY <3>3, <4>1, <4>2
    <3>5. CASE j \in 1..c
      <4>1. sl[j] = r.slot[j]
        BY <1>1, <1>6, <2>1, <3>5
      <4>2. r.slot[j] = w[j]
        BY <1>1, <3>1, <3>5
      <4>3. v[j] = w[j]
        BY <1>1, <1>5, <2>1, <3>1, <3>5
      <4> QED BY <3>3, <4>1, <4>2, <4>3
    <3> QED BY <3>2, <3>4, <3>5
  <2>2. CASE c + 1 = n
    <3>1. q.count = n /\ h = n /\ q.head = 1 /\ Len(v) = n /\ Place(r, j, n) = j
      BY <1>1, <1>4, <1>5, <2>2 DEF Place
    <3>2. Place(q, j, n) = j
      BY <1>1, <3>1 DEF Place
    <3>3. j = c + 1 \/ j \in 1..c
      BY <1>1, <2>2, <3>1
    <3>4. q.slot[Place(q, j, n)] = sl[j]
      BY <1>4, <3>2
    <3>5. CASE j = c + 1
      <4>1. sl[j] = x
        BY <1>1, <1>6, <2>2, <3>5
      <4>2. v[j] = x
        BY <1>1, <1>5, <2>2, <3>1, <3>5
      <4> QED BY <3>4, <4>1, <4>2
    <3>6. CASE j \in 1..c
      <4>1. sl[j] = r.slot[j]
        BY <1>1, <1>6, <2>2, <3>6
      <4>2. r.slot[j] = w[j]
        BY <1>1, <3>1, <3>6
      <4>3. v[j] = w[j]
        BY <1>1, <1>5, <2>2, <3>1, <3>6
      <4> QED BY <3>4, <4>1, <4>2, <4>3
    <3> QED BY <3>3, <3>5, <3>6
  <2>3. CASE c = n
    <3>1. q.count = n /\ Len(v) = n /\ j \in 1..n /\ h \in 1..n
      BY <1>1, <1>4, <1>5, <2>3
    <3>2. CASE j = n
      <4>1. Place(q, j, n) = h
        BY <1>4, <3>1, <3>2 DEF Place
      <4>2. sl[h] = x /\ v[j] = x
        BY <1>5, <1>6, <2>3, <3>1, <3>2
      <4> QED BY <1>4, <4>1, <4>2
    <3>3. CASE j # n
      <4>1. j + 1 \in 1..n /\ v[j] = w[j + 1]
        BY <1>5, <2>3, <3>1, <3>3
      <4>2. q.count = n /\ r.count = n /\ r.head \in 1..n /\ q.head = IF r.head = n THEN 1 ELSE r.head + 1
        BY <1>4, <2>3, <3>1
      <4>3. Place(q, j, n) = Place(r, j + 1, n) /\ Place(r, j + 1, n) \in 1..n /\ Place(r, j + 1, n) # h
        BY <3>1, <3>3, <4>2, PlaceOfNext
      <4>4. sl[Place(r, j + 1, n)] = r.slot[Place(r, j + 1, n)]
        BY <1>6, <2>3, <4>3
      <4>5. r.slot[Place(r, j + 1, n)] = w[j + 1]
        BY <1>1, <2>3, <4>1
      <4> QED BY <1>4, <4>1, <4>3, <4>4, <4>5
    <3> QED BY <3>2, <3>3
  <2>4. c + 1 < n \/ c + 1 = n \/ c = n
    BY <1>1
  <2> QED BY <2>1, <2>2, <2>3, <2>4
<1>8. /\ q.count \in 0..n /\ q.head \in 1..n /\ (q.count < n => q.head = q.count + 1)
      /\ Len(v) = q.count
  BY <1>1, <1>4, <1>5
<1>9. RingOf(q, v, n, S)
  BY <1>1, <1>4, <1>5, <1>6, <1>7, <1>8 DEF RingOf
<1> QED BY <1>4, <1>9 DEF q, v, sl

(* A ring of numbers has the sum of its window.                             *)
LEMMA PutSum ==
  ASSUME NEW n \in Nat \ {0}, NEW r, NEW w \in Seq(Int), RingOf(r, w, n, Int), NEW x \in Int,
         SumSeq(r.slot) = SumSeq(w)
  PROVE  SumSeq(Put(r, x, n).slot) = SumSeq(Push(w, x, n))
<1> DEFINE q == Put(r, x, n)
<1>1. q.slot = IF r.count < n THEN Append(r.slot, x) ELSE [r.slot EXCEPT ![r.head] = x]
  BY DEF Put, RingOf
<1>2. /\ r.slot \in Seq(Int) /\ Len(r.slot) = r.count /\ Len(w) = r.count
      /\ r.count \in 0..n /\ r.head \in 1..n
      /\ \A j \in 1..r.count : r.slot[Place(r, j, n)] = w[j]
  BY DEF RingOf
<1> HIDE DEF q
<1>3. /\ Len(w) < n => SumSeq(Push(w, x, n)) = SumSeq(w) + x
      /\ Len(w) = n => SumSeq(Push(w, x, n)) = (SumSeq(w) - w[1]) + x
  <2>1. Len(w) <= n
    BY <1>2
  <2> QED BY <2>1, SumPush
<1>4. CASE r.count < n
  <2>1. SumSeq(Append(r.slot, x)) = SumSeq(r.slot) + x
    BY <1>2, SumAppend
  <2> QED BY <1>1, <1>2, <1>3, <1>4, <2>1 DEF q
<1>5. CASE r.count = n
  <2>1. r.slot[r.head] = w[1]
    <3>1. Place(r, 1, n) = r.head
      BY <1>2, <1>5 DEF Place
    <3> QED BY <1>2, <1>5, <3>1
  <2>2. SumSeq([r.slot EXCEPT ![r.head] = x]) = (SumSeq(r.slot) - r.slot[r.head]) + x
    BY <1>2, <1>5, SumReplace
  <2>3. q.slot = [r.slot EXCEPT ![r.head] = x]
    BY <1>1, <1>5
  <2>4. SumSeq(q.slot) = (SumSeq(w) - w[1]) + x
    BY <2>1, <2>2, <2>3
  <2> QED BY <1>2, <1>3, <1>5, <2>4 DEF q
<1> QED BY <1>2, <1>4, <1>5

(* What is in the slots is what is in the window.                           *)
LEMMA RingRange ==
  ASSUME NEW S, NEW n \in Nat \ {0}, NEW r, NEW w \in Seq(S), RingOf(r, w, n, S)
  PROVE  Range(r.slot) = Range(w)
<1>1. /\ r.slot \in Seq(S) /\ Len(r.slot) = r.count /\ Len(w) = r.count
      /\ r.count \in 0..n /\ r.head \in 1..n
      /\ \A j \in 1..r.count : r.slot[Place(r, j, n)] = w[j]
  BY DEF RingOf
<1>2. DOMAIN r.slot = 1..r.count /\ DOMAIN w = 1..r.count
  BY <1>1, LenProperties
<1>3. ASSUME NEW j \in 1..r.count
      PROVE  w[j] \in Range(r.slot)
  <2>1. Place(r, j, n) \in 1..r.count
    BY <1>1 DEF Place
  <2> QED BY <1>1, <1>2, <2>1 DEF Range
<1>4. ASSUME NEW i \in 1..r.count
      PROVE  r.slot[i] \in Range(w)
  <2>1. CASE r.count < n
    <3>1. Place(r, i, n) = i
      BY <2>1 DEF Place
    <3> QED BY <1>1, <1>2, <3>1 DEF Range
  <2>2. CASE r.count = n
    <3> DEFINE j == IF i >= r.head THEN (i - r.head) + 1 ELSE ((i - r.head) + 1) + n
    <3>1. j \in 1..n /\ Place(r, j, n) = i
      <4>1. CASE i >= r.head
        <5>1. j = (i - r.head) + 1 /\ j \in 1..n /\ (r.head + j) - 1 = i
          BY <1>1, <2>2, <4>1
        <5> HIDE DEF j
        <5> QED BY <1>1, <2>2, <5>1 DEF Place
      <4>2. CASE ~(i >= r.head)
        <5>1. j = ((i - r.head) + 1) + n /\ j \in 1..n /\ (r.head + j) - 1 = i + n /\ i + n > n
          BY <1>1, <2>2, <4>2
        <5> HIDE DEF j
        <5> QED BY <1>1, <2>2, <5>1 DEF Place
      <4> QED BY <4>1, <4>2
    <3> HIDE DEF j
    <3> QED BY <1>1, <1>2, <2>2, <3>1 DEF Range
  <2> QED BY <1>1, <2>1, <2>2
<1> QED BY <1>2, <1>3, <1>4 DEF Range

-----------------------------------------------------------------------------
Points == [ts : Int, v : Int, soc : Int]
Ts == [p \in Points |-> p.ts]
Tt == [p \in Points |-> p.ts * p.ts]
Vs == [p \in Points |-> p.v]
Tv == [p \in Points |-> p.ts * p.v]
Cs == [p \in Points |-> p.soc]
Tc == [p \in Points |-> p.ts * p.soc]

LEMMA SumsAre ==
  ASSUME NEW w \in Seq(Points)
  PROVE  SumsOver(w) =
           [x |-> SumSeq(Mapped(w, Ts)), x2 |-> SumSeq(Mapped(w, Tt)),
            v |-> SumSeq(Mapped(w, Vs)), xv |-> SumSeq(Mapped(w, Tv)),
            soc |-> SumSeq(Mapped(w, Cs)), xsoc |-> SumSeq(Mapped(w, Tc))]
<1>1. DOMAIN w = 1..Len(w) /\ \A i \in DOMAIN w : w[i] \in Points
  BY LenProperties, ElementOfSeq
<1>2. Mapped(w, Ts) = [i \in DOMAIN w |-> w[i].ts] /\ Mapped(w, Tt) = [i \in DOMAIN w |-> w[i].ts * w[i].ts]
  BY <1>1 DEF Mapped, Ts, Tt
<1>3. Mapped(w, Vs) = [i \in DOMAIN w |-> w[i].v] /\ Mapped(w, Tv) = [i \in DOMAIN w |-> w[i].ts * w[i].v]
  BY <1>1 DEF Mapped, Vs, Tv
<1>4. Mapped(w, Cs) = [i \in DOMAIN w |-> w[i].soc] /\ Mapped(w, Tc) = [i \in DOMAIN w |-> w[i].ts * w[i].soc]
  BY <1>1 DEF Mapped, Cs, Tc
<1> QED BY <1>2, <1>3, <1>4 DEF SumsOver, SumOf

SumTypes == [x : Int, x2 : Int, v : Int, xv : Int, soc : Int, xsoc : Int]

LEMMA Reads ==
  /\ Ts \in [Points -> Int] /\ Tt \in [Points -> Int] /\ Vs \in [Points -> Int]
  /\ Tv \in [Points -> Int] /\ Cs \in [Points -> Int] /\ Tc \in [Points -> Int]
<1>1. \A p \in Points : p.ts \in Int /\ p.v \in Int /\ p.soc \in Int
  BY DEF Points
<1>2. \A a, b \in Int : a * b \in Int
  OBVIOUS
<1> QED BY <1>1, <1>2 DEF Ts, Tt, Vs, Tv, Cs, Tc

(* Taking a sample on, and taking one off.                                  *)
LEMMA PlusIs ==
  ASSUME NEW s \in SumTypes, NEW p \in Points
  PROVE  /\ Plus(s, 1, p) =
              [x |-> s.x + Ts[p], x2 |-> s.x2 + Tt[p], v |-> s.v + Vs[p],
               xv |-> s.xv + Tv[p], soc |-> s.soc + Cs[p], xsoc |-> s.xsoc + Tc[p]]
         /\ Plus(s, -1, p) =
              [x |-> s.x - Ts[p], x2 |-> s.x2 - Tt[p], v |-> s.v - Vs[p],
               xv |-> s.xv - Tv[p], soc |-> s.soc - Cs[p], xsoc |-> s.xsoc - Tc[p]]
<1>1. p.ts \in Int /\ p.v \in Int /\ p.soc \in Int
  BY DEF Points
<1>2. /\ Ts[p] = p.ts /\ Tt[p] = p.ts * p.ts /\ Vs[p] = p.v /\ Tv[p] = p.ts * p.v
      /\ Cs[p] = p.soc /\ Tc[p] = p.ts * p.soc
  BY DEF Ts, Tt, Vs, Tv, Cs, Tc
<1>3. /\ s.x \in Int /\ s.x2 \in Int /\ s.v \in Int /\ s.xv \in Int /\ s.soc \in Int /\ s.xsoc \in Int
  BY DEF SumTypes
<1>4. \A a, b, c \in Int : a + 1 * b = a + b /\ a + 1 * b * c = a + b * c
  OBVIOUS
<1>5. \A a, b, c \in Int : a + (-1) * b = a - b /\ a + (-1) * b * c = a - b * c
  OBVIOUS
<1>6. Plus(s, 1, p) =
              [x |-> s.x + Ts[p], x2 |-> s.x2 + Tt[p], v |-> s.v + Vs[p],
               xv |-> s.xv + Tv[p], soc |-> s.soc + Cs[p], xsoc |-> s.xsoc + Tc[p]]
  BY <1>1, <1>2, <1>3, <1>4 DEF Plus
<1>7. Plus(s, -1, p) =
              [x |-> s.x - Ts[p], x2 |-> s.x2 - Tt[p], v |-> s.v - Vs[p],
               xv |-> s.xv - Tv[p], soc |-> s.soc - Cs[p], xsoc |-> s.xsoc - Tc[p]]
  BY <1>1, <1>2, <1>3, <1>5 DEF Plus
<1> QED BY <1>6, <1>7

(* The cached sums follow the window.                                       *)
LEMMA SumsStep ==
  ASSUME NEW n \in Nat \ {0}, NEW w \in Seq(Points), NEW p \in Points, Len(w) <= n
  PROVE  /\ Len(w) < n => SumsOver(Push(w, p, n)) = Plus(SumsOver(w), 1, p)
         /\ Len(w) = n => SumsOver(Push(w, p, n)) = Plus(Plus(SumsOver(w), -1, w[1]), 1, p)
<1> DEFINE q == Push(w, p, n)
           s == SumsOver(w)
           S(l, F) == SumSeq(Mapped(l, F))
<1>1. q \in Seq(Points)
  BY PushKept
<1>2. SumsOver(q) = [x |-> S(q, Ts), x2 |-> S(q, Tt), v |-> S(q, Vs),
                     xv |-> S(q, Tv), soc |-> S(q, Cs), xsoc |-> S(q, Tc)]
  BY <1>1, SumsAre
<1>3. s = [x |-> S(w, Ts), x2 |-> S(w, Tt), v |-> S(w, Vs),
           xv |-> S(w, Tv), soc |-> S(w, Cs), xsoc |-> S(w, Tc)]
  BY SumsAre
<1>4. ASSUME NEW F \in [Points -> Int]
      PROVE  /\ S(w, F) \in Int
             /\ Len(w) < n => S(q, F) = S(w, F) + F[p]
             /\ Len(w) = n => S(q, F) = (S(w, F) - F[w[1]]) + F[p]
  BY FieldStep
<1> HIDE DEF q, s, S
<1>5. s \in SumTypes
  BY <1>3, <1>4, Reads DEF SumTypes
<1>6. CASE Len(w) < n
  <2>1. Plus(s, 1, p) =
              [x |-> s.x + Ts[p], x2 |-> s.x2 + Tt[p], v |-> s.v + Vs[p],
               xv |-> s.xv + Tv[p], soc |-> s.soc + Cs[p], xsoc |-> s.xsoc + Tc[p]]
    BY <1>5, PlusIs
  <2>2. /\ S(q, Ts) = s.x + Ts[p] /\ S(q, Tt) = s.x2 + Tt[p] /\ S(q, Vs) = s.v + Vs[p]
        /\ S(q, Tv) = s.xv + Tv[p] /\ S(q, Cs) = s.soc + Cs[p] /\ S(q, Tc) = s.xsoc + Tc[p]
    BY <1>3, <1>4, <1>6, Reads
  <2> QED BY <1>2, <1>6, <2>1, <2>2 DEF q, s
<1>7. CASE Len(w) = n
  <2> DEFINE o == w[1]
             t == Plus(s, -1, o)
  <2>1. o \in Points
    BY <1>7, ElementOfSeq
  <2> HIDE DEF o
  <2>2. t =
              [x |-> s.x - Ts[o], x2 |-> s.x2 - Tt[o], v |-> s.v - Vs[o],
               xv |-> s.xv - Tv[o], soc |-> s.soc - Cs[o], xsoc |-> s.xsoc - Tc[o]]
    BY <1>5, <2>1, PlusIs
  <2> HIDE DEF t
  <2>3. t \in SumTypes
    <3>1. /\ Ts[o] \in Int /\ Tt[o] \in Int /\ Vs[o] \in Int
          /\ Tv[o] \in Int /\ Cs[o] \in Int /\ Tc[o] \in Int
      BY <2>1, Reads
    <3>2. /\ s.x \in Int /\ s.x2 \in Int /\ s.v \in Int
          /\ s.xv \in Int /\ s.soc \in Int /\ s.xsoc \in Int
      BY <1>5 DEF SumTypes
    <3>3. /\ s.x - Ts[o] \in Int /\ s.x2 - Tt[o] \in Int /\ s.v - Vs[o] \in Int
          /\ s.xv - Tv[o] \in Int /\ s.soc - Cs[o] \in Int /\ s.xsoc - Tc[o] \in Int
      <4>1. \A a, b \in Int : a - b \in Int
        OBVIOUS
      <4> QED BY <3>1, <3>2, <4>1, Zenon
    <3> QED BY <2>2, <3>3 DEF SumTypes
  <2>4. Plus(t, 1, p) =
              [x |-> t.x + Ts[p], x2 |-> t.x2 + Tt[p], v |-> t.v + Vs[p],
               xv |-> t.xv + Tv[p], soc |-> t.soc + Cs[p], xsoc |-> t.xsoc + Tc[p]]
    BY <2>3, PlusIs
  <2>5. /\ S(q, Ts) = (s.x - Ts[o]) + Ts[p] /\ S(q, Tt) = (s.x2 - Tt[o]) + Tt[p]
        /\ S(q, Vs) = (s.v - Vs[o]) + Vs[p] /\ S(q, Tv) = (s.xv - Tv[o]) + Tv[p]
        /\ S(q, Cs) = (s.soc - Cs[o]) + Cs[p] /\ S(q, Tc) = (s.xsoc - Tc[o]) + Tc[p]
    BY <1>3, <1>4, <1>7, Reads DEF o
  <2>6. SumsOver(q) = Plus(t, 1, p)
    BY <1>2, <2>2, <2>4, <2>5
  <2> QED BY <1>7, <2>6 DEF q, s, t, o
<1> QED BY <1>6, <1>7

\* The voltage ring holds the window w and its sums.
SampleRing(r, w) ==
  /\ w \in Seq(Points) /\ RingOf(r, w, TrendN, Points)
  /\ "sums" \in DOMAIN r /\ r.sums = SumsOver(w)

LEMMA PushSampleStep ==
  ASSUME NEW r, NEW w, SampleRing(r, w), NEW p \in Points
  PROVE  SampleRing(PushSample(r, p), Push(w, p, TrendN))
<1> DEFINE q == Put(r, p, TrendN)
           z == PushSample(r, p)
           v == Push(w, p, TrendN)
<1>1. TrendN \in Nat \ {0}
  BY TrendAssumption
<1>2. /\ w \in Seq(Points) /\ RingOf(r, w, TrendN, Points)
      /\ "sums" \in DOMAIN r /\ r.sums = SumsOver(w)
  BY DEF SampleRing
<1>3. /\ RingOf(q, v, TrendN, Points) /\ DOMAIN q = DOMAIN r
      /\ \A f \in DOMAIN r \ {"slot", "head", "count"} : q[f] = r[f]
  <2>1. RingOf(q, v, TrendN, Points)
    BY <1>1, <1>2, PutStep
  <2>2. DOMAIN q = DOMAIN r
    BY DEF Put
  <2>3. \A f \in DOMAIN r \ {"slot", "head", "count"} : q[f] = r[f]
    BY DEF Put
  <2> QED BY <2>1, <2>2, <2>3
<1>4. q.sums = SumsOver(w)
  BY <1>2, <1>3
<1>5. /\ Len(w) = r.count /\ r.count <= TrendN
      /\ r.count = TrendN => r.slot[r.head] = w[1]
  <2>1. /\ Len(w) = r.count /\ r.count \in 0..TrendN /\ r.head \in 1..TrendN
        /\ \A j \in 1..r.count : r.slot[Place(r, j, TrendN)] = w[j]
    BY <1>2 DEF RingOf
  <2>2. r.count = TrendN => Place(r, 1, TrendN) = r.head /\ 1 \in 1..r.count
    BY <1>1, <2>1 DEF Place
  <2> QED BY <1>1, <2>1, <2>2
<1> HIDE DEF q
<1>6. z = [q EXCEPT !.sums = Plus(IF r.count = TrendN THEN Plus(@, -1, r.slot[r.head]) ELSE @, 1, p)]
  BY DEF PushSample, q
<1> HIDE DEF z
<1>7. z.sums = Plus(IF r.count = TrendN THEN Plus(SumsOver(w), -1, w[1]) ELSE SumsOver(w), 1, p)
  BY <1>2, <1>3, <1>4, <1>5, <1>6
<1>8. z.sums = SumsOver(v)
  <2>1. /\ Len(w) < TrendN => SumsOver(v) = Plus(SumsOver(w), 1, p)
        /\ Len(w) = TrendN => SumsOver(v) = Plus(Plus(SumsOver(w), -1, w[1]), 1, p)
    BY <1>1, <1>2, <1>5, SumsStep
  <2>2. r.count \in Nat
    BY <1>2 DEF RingOf
  <2> HIDE DEF v
  <2> QED BY <1>1, <1>5, <1>7, <2>1, <2>2
<1>9. DOMAIN z = DOMAIN q /\ z.slot = q.slot /\ z.head = q.head /\ z.count = q.count
  BY <1>3, <1>6
<1>10. v \in Seq(Points)
  <2>1. Len(w) <= TrendN
    BY <1>5
  <2> QED BY <1>1, <1>2, <2>1, PushKept
<1> HIDE DEF v
<1>11. RingOf(z, v, TrendN, Points)
  BY <1>3, <1>9 DEF RingOf, Place
<1> QED BY <1>2, <1>3, <1>8, <1>9, <1>10, <1>11 DEF SampleRing, z, v
\* A ring of numbers holds the window w and adds up to its sum.
NumberRing(r, w) ==
  w \in Seq(Int) /\ RingOf(r, w, LoadN, Int) /\ SumSeq(r.slot) = SumSeq(w)

LEMMA PutNumber ==
  ASSUME NEW r, NEW w, NumberRing(r, w), NEW x \in Int
  PROVE  NumberRing(Put(r, x, LoadN), Push(w, x, LoadN))
<1>1. LoadN \in Nat \ {0}
  BY TrendAssumption
<1>2. w \in Seq(Int) /\ RingOf(r, w, LoadN, Int) /\ SumSeq(r.slot) = SumSeq(w)
  BY DEF NumberRing
<1>3. RingOf(Put(r, x, LoadN), Push(w, x, LoadN), LoadN, Int)
  BY <1>1, <1>2, PutStep
<1>4. SumSeq(Put(r, x, LoadN).slot) = SumSeq(Push(w, x, LoadN))
  BY <1>1, <1>2, PutSum
<1>5. Push(w, x, LoadN) \in Seq(Int)
  <2>1. Len(w) <= LoadN
    BY <1>1, <1>2 DEF RingOf
  <2> QED BY <1>1, <1>2, <2>1, PushKept
<1> QED BY <1>3, <1>4, <1>5 DEF NumberRing

(* The inductive invariant: each ring holds the newest of what was pushed.  *)
TrendInv ==
  /\ fed \in [samples : Seq(Points), loads : Seq(Int), powers : Seq(Int)]
  /\ SampleRing(ring, Trim(fed.samples, TrendN))
  /\ NumberRing(load, Trim(fed.loads, LoadN))
  /\ NumberRing(chgPower, Trim(fed.powers, LoadN))

(* The load ring takes the load, or leaves it when it comes too early.      *)
LEMMA PushLoadStep ==
  ASSUME NEW loads \in Seq(Int), NumberRing(load, Trim(loads, LoadN)), NEW ts \in Int, NEW w \in Int,
         NEW l, l = PushLoad(load, ts, w)
  PROVE  /\ (IF l = load THEN loads ELSE Append(loads, w)) \in Seq(Int)
         /\ NumberRing(l, Trim(IF l = load THEN loads ELSE Append(loads, w), LoadN))
<1>1. CASE l = load
  BY <1>1
<1>2. CASE l # load
  <2> DEFINE q == Put(load, w, LoadN)
  <2>1. l = [q EXCEPT !.at = ts]
    BY <1>2 DEF PushLoad
  <2>2. NumberRing(q, Trim(Append(loads, w), LoadN))
    <3>1. LoadN \in Nat \ {0}
      BY TrendAssumption
    <3>2. Trim(Append(loads, w), LoadN) = Push(Trim(loads, LoadN), w, LoadN)
      BY <3>1, TrimAppend
    <3> QED BY <3>2, PutNumber
  <2> HIDE DEF q
  <2>3. DOMAIN l = DOMAIN q /\ l.slot = q.slot /\ l.head = q.head /\ l.count = q.count
    <3>1. {"slot", "head", "count"} \subseteq DOMAIN q
      BY <2>2 DEF NumberRing, RingOf
    <3> QED BY <2>1, <3>1
  <2>4. NumberRing(l, Trim(Append(loads, w), LoadN))
    BY <2>2, <2>3 DEF NumberRing, RingOf, Place
  <2> QED BY <1>2, <2>4, AppendProperties
<1> QED BY <1>1, <1>2

LEMMA NumberRingEmpty ==
  ASSUME NEW r, {"slot", "head", "count"} \subseteq DOMAIN r, r.slot = <<>>, r.head = 1, r.count = 0
  PROVE  NumberRing(r, Trim(<<>>, LoadN))
<1>1. LoadN \in Nat \ {0}
  BY TrendAssumption
<1>2. Trim(<<>>, LoadN) = <<>> /\ <<>> \in Seq(Int) /\ Len(<<>>) = 0
  BY <1>1 DEF Trim
<1>3. RingOf(r, <<>>, LoadN, Int)
  BY <1>1, <1>2 DEF RingOf
<1> QED BY <1>2, <1>3 DEF NumberRing

LEMMA TrendInvInit == TrendInit => TrendInv
<1> SUFFICES ASSUME TrendInit
             PROVE  TrendInv
  OBVIOUS
<1>1. /\ DOMAIN ring = {"slot", "head", "count", "sums"}
      /\ ring.slot = <<>> /\ ring.head = 1 /\ ring.count = 0 /\ ring.sums = NoSums
  BY DEF TrendInit
<1>2. /\ DOMAIN load = {"slot", "head", "count", "at"}
      /\ load.slot = <<>> /\ load.head = 1 /\ load.count = 0
  BY DEF TrendInit
<1>3. /\ DOMAIN chgPower = {"slot", "head", "count"}
      /\ chgPower.slot = <<>> /\ chgPower.head = 1 /\ chgPower.count = 0
  BY DEF TrendInit
<1>4. /\ fed = [samples |-> <<>>, loads |-> <<>>, powers |-> <<>>]
      /\ fed \in [samples : Seq(Points), loads : Seq(Int), powers : Seq(Int)]
  BY DEF TrendInit
<1>5. SampleRing(ring, Trim(<<>>, TrendN))
  <2>1. TrendN \in Nat \ {0}
    BY TrendAssumption
  <2>2. Trim(<<>>, TrendN) = <<>> /\ <<>> \in Seq(Points) /\ Len(<<>>) = 0
    BY <2>1 DEF Trim
  <2>3. RingOf(ring, <<>>, TrendN, Points)
    BY <1>1, <2>1, <2>2 DEF RingOf
  <2>4. SumsOver(<<>>) = NoSums
    <3>1. \A F : Mapped(<<>>, F) = <<>>
      BY DEF Mapped
    <3> QED BY <2>2, <3>1, SumsAre, SumEmpty DEF NoSums
  <2> QED BY <1>1, <2>2, <2>3, <2>4 DEF SampleRing
<1> QED BY <1>2, <1>3, <1>4, <1>5, NumberRingEmpty DEF TrendInv

LEMMA BatteryKeepsTrendInv ==
  ASSUME TrendInv, NEW ts \in Int, NEW v \in Int, NEW soc \in Int, NEW w \in Int,
         TrendBattery(ts, v, soc, w)
  PROVE  TrendInv'
<1> DEFINE p == [ts |-> ts, v |-> v, soc |-> soc]
           l == IF w > 0 THEN PushLoad(load, ts, w) ELSE load
<1>1. /\ load' = l /\ ring' = PushSample(ring, p) /\ chgPower' = chgPower
      /\ fed' = [fed EXCEPT !.samples = Append(@, p),
                            !.loads = IF l = load THEN @ ELSE Append(@, w)]
  BY DEF TrendBattery
<1>2. /\ fed \in [samples : Seq(Points), loads : Seq(Int), powers : Seq(Int)]
      /\ SampleRing(ring, Trim(fed.samples, TrendN))
      /\ NumberRing(load, Trim(fed.loads, LoadN))
      /\ NumberRing(chgPower, Trim(fed.powers, LoadN))
  BY DEF TrendInv
<1>3. p \in Points
  BY DEF Points
<1>4. /\ (IF l = load THEN fed.loads ELSE Append(fed.loads, w)) \in Seq(Int)
      /\ NumberRing(l, Trim(IF l = load THEN fed.loads ELSE Append(fed.loads, w), LoadN))
  <2>1. CASE w > 0
    <3>1. fed.loads \in Seq(Int) /\ l = PushLoad(load, ts, w)
      BY <1>2, <2>1
    <3> HIDE DEF l
    <3> QED BY <1>2, <3>1, PushLoadStep
  <2>2. CASE ~(w > 0)
    BY <1>2, <2>2
  <2> QED BY <2>1, <2>2
<1> HIDE DEF p, l
<1>5. /\ fed'.samples = Append(fed.samples, p)
      /\ fed'.loads = (IF l = load THEN fed.loads ELSE Append(fed.loads, w))
      /\ fed'.powers = fed.powers
      /\ DOMAIN fed' = {"samples", "loads", "powers"}
  BY <1>1, <1>2
<1>6. Append(fed.samples, p) \in Seq(Points)
  BY <1>2, <1>3, AppendProperties
<1>7. fed' \in [samples : Seq(Points), loads : Seq(Int), powers : Seq(Int)]
  BY <1>1, <1>2, <1>4, <1>6
<1>8. SampleRing(ring', Trim(fed'.samples, TrendN))
  <2>1. TrendN \in Nat \ {0}
    BY TrendAssumption
  <2>2. Trim(fed'.samples, TrendN) = Push(Trim(fed.samples, TrendN), p, TrendN)
    BY <1>2, <1>3, <1>5, <2>1, TrimAppend
  <2>3. SampleRing(PushSample(ring, p), Push(Trim(fed.samples, TrendN), p, TrendN))
    BY <1>2, <1>3, PushSampleStep
  <2> QED BY <1>1, <2>2, <2>3
<1>9. NumberRing(load', Trim(fed'.loads, LoadN))
  BY <1>1, <1>4, <1>5
<1>10. NumberRing(chgPower', Trim(fed'.powers, LoadN))
  BY <1>1, <1>2, <1>5
<1> QED BY <1>7, <1>8, <1>9, <1>10 DEF TrendInv

LEMMA ChargerKeepsTrendInv ==
  ASSUME TrendInv, NEW ts \in Int, NEW w \in Int, TrendCharger(ts, w)
  PROVE  TrendInv'
<1> DEFINE l == IF w < 0 THEN PushLoad(load, ts, -w) ELSE load
           c == IF w > 0 THEN Put(chgPower, w, LoadN) ELSE chgPower
<1>1. /\ load' = l /\ ring' = ring /\ chgPower' = c
      /\ fed' = [fed EXCEPT !.loads = IF l = load THEN @ ELSE Append(@, -w),
                            !.powers = IF w > 0 THEN Append(@, w) ELSE @]
  BY DEF TrendCharger
<1>2. /\ fed \in [samples : Seq(Points), loads : Seq(Int), powers : Seq(Int)]
      /\ SampleRing(ring, Trim(fed.samples, TrendN))
      /\ NumberRing(load, Trim(fed.loads, LoadN))
      /\ NumberRing(chgPower, Trim(fed.powers, LoadN))
  BY DEF TrendInv
<1>3. /\ (IF l = load THEN fed.loads ELSE Append(fed.loads, -w)) \in Seq(Int)
      /\ NumberRing(l, Trim(IF l = load THEN fed.loads ELSE Append(fed.loads, -w), LoadN))
  <2>1. CASE w < 0
    <3>1. fed.loads \in Seq(Int) /\ l = PushLoad(load, ts, -w) /\ -w \in Int
      BY <1>2, <2>1
    <3> HIDE DEF l
    <3> QED BY <1>2, <3>1, PushLoadStep
  <2>2. CASE ~(w < 0)
    BY <1>2, <2>2
  <2> QED BY <2>1, <2>2
<1> HIDE DEF l
<1>4. /\ (IF w > 0 THEN Append(fed.powers, w) ELSE fed.powers) \in Seq(Int)
      /\ NumberRing(c, Trim(IF w > 0 THEN Append(fed.powers, w) ELSE fed.powers, LoadN))
  <2>1. CASE w > 0
    <3>1. LoadN \in Nat \ {0}
      BY TrendAssumption
    <3>2. Trim(Append(fed.powers, w), LoadN) = Push(Trim(fed.powers, LoadN), w, LoadN)
      BY <1>2, <3>1, TrimAppend
    <3>3. NumberRing(Put(chgPower, w, LoadN), Push(Trim(fed.powers, LoadN), w, LoadN))
      BY <1>2, PutNumber
    <3>4. Append(fed.powers, w) \in Seq(Int)
      BY <1>2, AppendProperties
    <3> QED BY <2>1, <3>2, <3>3, <3>4
  <2>2. CASE ~(w > 0)
    BY <1>2, <2>2
  <2> QED BY <2>1, <2>2
<1> HIDE DEF c
<1>5. /\ fed'.samples = fed.samples
      /\ fed'.loads = (IF l = load THEN fed.loads ELSE Append(fed.loads, -w))
      /\ fed'.powers = (IF w > 0 THEN Append(fed.powers, w) ELSE fed.powers)
  BY <1>1, <1>2
<1>6. fed' \in [samples : Seq(Points), loads : Seq(Int), powers : Seq(Int)]
  BY <1>1, <1>2, <1>3, <1>4
<1>7. /\ SampleRing(ring', Trim(fed'.samples, TrendN))
      /\ NumberRing(load', Trim(fed'.loads, LoadN))
      /\ NumberRing(chgPower', Trim(fed'.powers, LoadN))
  BY <1>1, <1>2, <1>3, <1>4, <1>5
<1> QED BY <1>6, <1>7 DEF TrendInv

LEMMA TrendInvHolds == TrendSpec => []TrendInv
<1>1. TrendInv /\ [TrendNext]_trendVars => TrendInv'
  <2> SUFFICES ASSUME TrendInv, [TrendNext]_trendVars
               PROVE  TrendInv'
    OBVIOUS
  <2>1. TrendClock \in Int
    <3>1. fed.samples \in Seq(Points)
      BY DEF TrendInv
    <3>2. CASE fed.samples # <<>>
      <4>1. Last(fed.samples) \in Points
        BY <3>1, <3>2, ElementOfSeq, LenProperties, EmptySeq DEF Last
      <4> QED BY <3>2, <4>1 DEF TrendClock, Points
    <3> QED BY <3>2 DEF TrendClock
  <2>2. ASSUME NEW dt \in {0, 1}, NEW v \in {130, 131}, NEW soc \in {50, 52}, NEW w \in {0, 20},
               TrendBattery(TrendClock + dt, v, soc, w)
        PROVE  TrendInv'
    <3>1. TrendClock + dt \in Int /\ v \in Int /\ soc \in Int /\ w \in Int
      BY <2>1
    <3> QED BY <2>2, <3>1, BatteryKeepsTrendInv
  <2>3. ASSUME NEW w \in {-10, -20, 30}, TrendCharger(TrendClock, w)
        PROVE  TrendInv'
    <3>1. w \in Int
      OBVIOUS
    <3> QED BY <2>1, <2>3, <3>1, ChargerKeepsTrendInv
  <2>4. CASE UNCHANGED trendVars
    BY <2>4 DEF TrendInv, trendVars, SampleRing, NumberRing
  <2>5. CASE TrendNext
    <3>1. \/ \E dt \in {0, 1}, v \in {130, 131}, soc \in {50, 52}, w \in {0, 20} :
               TrendBattery(TrendClock + dt, v, soc, w)
          \/ \E w \in {-10, -20, 30} : TrendCharger(TrendClock, w)
      BY <2>5 DEF TrendNext
    <3> QED BY <2>2, <2>3, <3>1
  <2> QED BY <2>4, <2>5
<1> QED BY <1>1, TrendInvInit, PTL DEF TrendSpec

(* A charge that only rose has a rising regression line.                    *)
LEMMA RisingIsUp ==
  ASSUME NEW r, NEW w, SampleRing(r, w), Len(w) >= TrendMin,
         Rises([i \in DOMAIN w |-> w[i].ts]), Rises([i \in DOMAIN w |-> w[i].soc])
  PROVE  SocTrend(r) = "up"
<1> DEFINE n == r.count
           s == Mapped(w, Ts)
           t == Mapped(w, Cs)
           s2 == Mapped(w, Tt)
           st == Mapped(w, Tc)
<1>1. /\ w \in Seq(Points) /\ Len(w) = n /\ n \in Nat /\ n >= 2 /\ n >= TrendMin
      /\ r.sums = SumsOver(w) /\ TrendMin \in Int
  BY TrendAssumption DEF SampleRing, RingOf
<1>2. /\ r.sums.x = SumSeq(s) /\ r.sums.x2 = SumSeq(s2)
      /\ r.sums.soc = SumSeq(t) /\ r.sums.xsoc = SumSeq(st)
  BY <1>1, SumsAre
<1>3. ASSUME NEW F \in [Points -> Int]
      PROVE  /\ Mapped(w, F) \in Seq(Int) /\ Len(Mapped(w, F)) = n
             /\ \A i \in 1..n : Mapped(w, F)[i] = F[w[i]] /\ w[i] \in Points
  <2> HIDE DEF n
  <2> QED BY <1>1, MappedSeq
<1>4. /\ s \in Seq(Int) /\ Len(s) = n
      /\ \A i \in 1..n : s[i] = Ts[w[i]] /\ w[i] \in Points
  BY <1>3, Reads
<1>5. /\ t \in Seq(Int) /\ Len(t) = n
      /\ \A i \in 1..n : t[i] = Cs[w[i]] /\ w[i] \in Points
  BY <1>3, Reads
<1>6. /\ s2 \in Seq(Int) /\ Len(s2) = n
      /\ \A i \in 1..n : s2[i] = Tt[w[i]] /\ w[i] \in Points
  BY <1>3, Reads
<1>7. /\ st \in Seq(Int) /\ Len(st) = n
      /\ \A i \in 1..n : st[i] = Tc[w[i]] /\ w[i] \in Points
  BY <1>3, Reads
<1>8. s = [i \in DOMAIN w |-> w[i].ts] /\ t = [i \in DOMAIN w |-> w[i].soc]
  <2>1. \A i \in DOMAIN w : w[i] \in Points
    BY <1>1, ElementOfSeq, LenProperties
  <2> QED BY <2>1 DEF Mapped, Ts, Cs
<1> HIDE DEF s, t, s2, st
<1>9. \A i \in 1..(n - 1) : s[i + 1] > s[i]
  BY <1>4, <1>8 DEF Rises
<1>10. \A i \in 1..(n - 1) : t[i + 1] > t[i]
  BY <1>5, <1>8 DEF Rises
<1>11. Multiplied(s2, s, s, n) /\ Multiplied(st, s, t, n)
  <2> SUFFICES ASSUME NEW i \in 1..n
               PROVE  /\ s[i] \in Int /\ t[i] \in Int
                      /\ s2[i] = s[i] * s[i] /\ st[i] = s[i] * t[i]
    BY DEF Multiplied
  <2>1. s[i] \in Int /\ t[i] \in Int
    BY <1>4, <1>5, ElementOfSeq
  <2>2. s2[i] = s[i] * s[i]
    BY <1>4, <1>6 DEF Ts, Tt
  <2>3. st[i] = s[i] * t[i]
    BY <1>4, <1>5, <1>7 DEF Ts, Cs, Tc
  <2> QED BY <2>1, <2>2, <2>3
<1>12. n * SumSeq(s2) > SumSeq(s) * SumSeq(s)
  BY <1>1, <1>4, <1>6, <1>9, <1>11, Chebyshev
<1>13. n * SumSeq(st) > SumSeq(s) * SumSeq(t)
  BY <1>1, <1>4, <1>5, <1>7, <1>9, <1>10, <1>11, Chebyshev
<1>14. SumSeq(s) \in Int /\ SumSeq(s2) \in Int /\ SumSeq(t) \in Int /\ SumSeq(st) \in Int
  <2>1. \A q \in Seq(Int) : SumSeq(q) \in Int
    BY SumAppend
  <2> QED BY <1>4, <1>5, <1>6, <1>7, <2>1
<1> DEFINE slope == Slope(n, r.sums, r.sums.soc, r.sums.xsoc)
<1>15. slope > 0
  <2>1. slope = IF n * SumSeq(s2) = SumSeq(s) * SumSeq(s) THEN 0
                ELSE n * SumSeq(st) - SumSeq(s) * SumSeq(t)
    BY <1>2 DEF Slope
  <2>2. \A a, b \in Int : a > b => a # b /\ a - b > 0
    OBVIOUS
  <2>3. \A a, b \in Int : a * b \in Int
    OBVIOUS
  <2>4. /\ n * SumSeq(s2) \in Int /\ SumSeq(s) * SumSeq(s) \in Int
        /\ n * SumSeq(st) \in Int /\ SumSeq(s) * SumSeq(t) \in Int
    BY <1>1, <1>14, <2>3
  <2>5. n * SumSeq(s2) # SumSeq(s) * SumSeq(s) /\ n * SumSeq(st) - SumSeq(s) * SumSeq(t) > 0
    BY <1>12, <1>13, <2>2, <2>4
  <2> HIDE DEF slope
  <2> QED BY <2>1, <2>5
<1>16. SocTrend(r) = Trend(n, slope)
  BY DEF SocTrend
<1> HIDE DEF slope
<1>17. ~(n < TrendMin)
  BY <1>1
<1> QED BY <1>15, <1>16, <1>17 DEF Trend

(* What the statistics read is what the ring holds.                         *)
LEMMA StatsAre ==
  ASSUME NEW r, NEW w, NumberRing(r, w)
  PROVE  [i \in 1..r.count |-> r.slot[i]] = r.slot /\ Range(r.slot) = Range(w)
<1>1. w \in Seq(Int) /\ RingOf(r, w, LoadN, Int) /\ LoadN \in Nat \ {0}
  BY TrendAssumption DEF NumberRing
<1>2. r.slot \in Seq(Int) /\ Len(r.slot) = r.count
  BY <1>1 DEF RingOf
<1>3. r.slot \in [1..r.count -> Int]
  BY <1>2, LenProperties
<1> QED BY <1>1, <1>3, RingRange

(* For rings of any size and any samples: the sums kept beside the ring are *)
(* those over the newest samples, whichever were overwritten; the load's    *)
(* statistics and the charger's average are of the newest loads; and a      *)
(* charge that only rose is shown as going up (push_voltage_soc_sample,     *)
(* compute_soc_trend).                                                      *)
THEOREM RingsMatchWindowHolds == TrendSpec => []RingsMatchWindow
<1>1. TrendInv => RingsMatchWindow
  <2> SUFFICES ASSUME TrendInv
               PROVE  RingsMatchWindow
    OBVIOUS
  <2>1. /\ SampleRing(ring, Trim(fed.samples, TrendN))
        /\ NumberRing(load, Trim(fed.loads, LoadN))
        /\ NumberRing(chgPower, Trim(fed.powers, LoadN))
    BY DEF TrendInv
  <2>2. ring.sums = SumsOver(Trim(fed.samples, TrendN))
    BY <2>1 DEF SampleRing
  <2>3. LoadStats(load).total = SumSeq(Trim(fed.loads, LoadN))
    BY <2>1, StatsAre DEF LoadStats, NumberRing
  <2>4. LoadStats(load).peak = Max({0} \union Range(Trim(fed.loads, LoadN)))
    BY <2>1, StatsAre DEF LoadStats
  <2>5. ChargerPower(chgPower)[1] = SumSeq(Trim(fed.powers, LoadN))
    BY <2>1, StatsAre DEF ChargerPower, NumberRing
  <2> DEFINE window == Trim(fed.samples, TrendN)
  <2>6. (/\ Len(window) >= TrendMin /\ Rises([i \in DOMAIN window |-> window[i].ts])
         /\ Rises([i \in DOMAIN window |-> window[i].soc])) => SocTrend(ring) = "up"
    BY <2>1, RisingIsUp
  <2> QED BY <2>2, <2>3, <2>4, <2>5, <2>6 DEF RingsMatchWindow
<1> QED BY <1>1, TrendInvHolds, PTL

(* The heads stay in their rings, for rings of any size, and a trend is     *)
(* told or not told (compute_voltage_trend).                                *)
THEOREM TrendTypes == TrendSpec => []TrendTypeOK
<1>1. TrendInv => TrendTypeOK
  <2> SUFFICES ASSUME TrendInv
               PROVE  TrendTypeOK
    OBVIOUS
  <2>1. /\ ring.count \in 0..TrendN /\ ring.head \in 1..TrendN
        /\ load.count \in 0..LoadN /\ load.head \in 1..LoadN /\ chgPower.count \in 0..LoadN
    BY DEF TrendInv, SampleRing, NumberRing, RingOf
  <2>2. \A n, slope : Trend(n, slope) \in {"-", "up", "down", "stable"}
    BY DEF Trend
  <2> QED BY <2>1, <2>2 DEF TrendTypeOK, VoltageTrend
<1> QED BY <1>1, TrendInvHolds, PTL
=============================================================================
