---------------------------- MODULE ClockProofs ----------------------------
(***************************************************************************)
(* Proofs about the devices that count time: the PWM timers for any        *)
(* timers, counts and intervals, the real-time clock for any calendar,     *)
(* second, tick intervals and bounds on how late a pass comes.             *)
(***************************************************************************)
EXTENDS PwmTimer, Rtc, TLAPS

(***************************************************************************)
(* The PWM timers.  prev_tcon is TCON plus the one-shot timers that        *)
(* cleared their own bit and, written again, are not seen to start; a      *)
(* timer is on the list while it is started and not one of these.  But for *)
(* the timers a change of PCLK caught, tcnt is a count of TCNTB, and the   *)
(* deadline is within a full count by the PCLK of now.                     *)
(***************************************************************************)
OnList(s, done) ==
  /\ s.prev = s.start \cup done
  /\ s.pending = s.start \ done
CountsTo(s, but) == \A i \in Chan \ but : s.tcnt[i] <= MaxCount
EndsBy(s, but) == \A i \in s.pending \ but : s.left[i] <= Ahead(s, i, MaxCount)

PwmInv ==
  /\ PwmTypes /\ OnList(pwm, spent)
  /\ CountsTo(pwm, scaled) /\ EndsBy(pwm, scaled)

Counts == [Chan -> 0..MaxCount]
Words == [Chan -> 0..(WordSize - 1)]
Lefts == [Chan -> Int]

-----------------------------------------------------------------------------
\* Division by a positive number, as multiplication.
LEMMA Division ==
  ASSUME NEW a \in Int, NEW d \in Nat \ {0}
  PROVE  /\ a \div d \in Int
         /\ (a \div d) * d <= a /\ a < (a \div d) * d + d
OBVIOUS

LEMMA ProductGrows ==
  ASSUME NEW a \in Int, NEW b \in Int, a <= b, NEW d \in Nat
  PROVE  a * d \in Int /\ b * d \in Int /\ a * d <= b * d
OBVIOUS

LEMMA QuotientAtMost ==
  ASSUME NEW a \in Int, NEW d \in Nat \ {0}, NEW q \in Int, a < q * d + d
  PROVE  a \div d <= q
<1>1. a \div d \in Int /\ (a \div d) * d <= a BY Division
<1> DEFINE k == a \div d
<1> HIDE DEF k
<1>2. k \in Int /\ k * d <= a BY <1>1 DEF k
<1>3. SUFFICES ASSUME q + 1 <= k PROVE FALSE BY <1>2 DEF k
<1>4. (q + 1) * d <= k * d BY <1>2, <1>3, ProductGrows
<1>5. (q + 1) * d = q * d + d BY SMT
<1>6. q * d + d \in Int /\ k * d \in Int BY <1>2
<1> QED BY <1>2, <1>4, <1>5, <1>6

LEMMA QuotientNat ==
  ASSUME NEW a \in Nat, NEW d \in Nat \ {0}
  PROVE  a \div d \in Nat
<1> DEFINE k == a \div d
<1>1. k \in Int /\ a < k * d + d BY Division
<1> HIDE DEF k
<1>2. SUFFICES ASSUME k + 1 <= 0 PROVE FALSE BY <1>1 DEF k
<1>3. (k + 1) * d <= 0 * d BY <1>1, <1>2, ProductGrows
<1>4. (k + 1) * d = k * d + d /\ 0 * d = 0 BY <1>1
<1> QED BY <1>1, <1>3, <1>4

LEMMA QuotientGrows ==
  ASSUME NEW a \in Int, NEW b \in Int, a <= b, NEW d \in Nat \ {0}
  PROVE  a \div d <= b \div d
<1> DEFINE q == b \div d
<1>1. q \in Int /\ b < q * d + d BY Division
<1> HIDE DEF q
<1>2. q * d + d \in Int BY <1>1
<1>3. a < q * d + d BY <1>1, <1>2
<1>4. a \div d <= q BY <1>1, <1>3, QuotientAtMost
<1> QED BY <1>4 DEF q

LEMMA ProductNat ==
  ASSUME NEW a \in Nat, NEW b \in Nat
  PROVE  a * b \in Nat
OBVIOUS

\* The longest period is that of the largest count.
LEMMA PeriodGrows ==
  ASSUME NEW c \in Nat, NEW m \in Nat, c <= m, NEW n \in Nat \ {0}, NEW p \in Nat \ {0}
  PROVE  Period(c, n, p) \in Nat /\ Period(m, n, p) \in Nat
         /\ Period(c, n, p) <= Period(m, n, p)
<1>1. ClockRate \in Nat BY PwmAssumption
<1>2. ClockRate * c \in Nat /\ ClockRate * m \in Nat BY <1>1, ProductNat
<1>3. ClockRate * c <= ClockRate * m
  <2>1. c * ClockRate <= m * ClockRate BY <1>1, ProductGrows
  <2>2. c * ClockRate = ClockRate * c /\ m * ClockRate = ClockRate * m BY <1>1
  <2> QED BY <2>1, <2>2
<1> DEFINE x == ClockRate * c
           y == ClockRate * m
<1>4. x \in Nat /\ y \in Nat /\ x <= y BY <1>2, <1>3
<1>5. Period(c, n, p) = (x * n) \div p /\ Period(m, n, p) = (y * n) \div p
  BY DEF Period
<1> HIDE DEF x, y
<1>6. x * n <= y * n BY <1>4, ProductGrows
<1>7. x * n \in Nat /\ y * n \in Nat BY <1>4, ProductNat
<1>8. (x * n) \div p <= (y * n) \div p BY <1>6, <1>7, QuotientGrows
<1>9. (x * n) \div p \in Nat /\ (y * n) \div p \in Nat BY <1>7, QuotientNat
<1> QED BY <1>5, <1>8, <1>9

\* What TCNTO reads is a word, and by the PCLK of the deadline no more counts
\* than the deadline was made of.
LEMMA CountIsWord ==
  ASSUME NEW l \in Int, l > 0, NEW n \in Nat \ {0}, NEW p \in Nat \ {0}
  PROVE  /\ Count(l, n, p) \in 0..(WordSize - 1)
         /\ l <= Period(MaxCount, n, p) => Count(l, n, p) <= MaxCount
<1>1. /\ ClockRate \in Nat \ {0} /\ MaxCount \in Nat /\ WordSize \in Nat
      /\ MaxCount < WordSize
  BY PwmAssumption
<1> DEFINE d == ClockRate * n
           k == (l * p) \div d
<1>2. d \in Nat \ {0}
  <2>1. d \in Nat BY <1>1, ProductNat
  <2>2. 1 * n <= ClockRate * n BY <1>1, ProductGrows
  <2>3. 1 * n = n BY SMT
  <2> QED BY <2>1, <2>2, <2>3
<1>3. Count(l, n, p) = k % WordSize BY DEF Count
<1>4. l * p \in Nat BY ProductNat
<1> HIDE DEF d
<1>5. k \in Nat BY <1>2, <1>4, QuotientNat
<1>6. l <= Period(MaxCount, n, p) => k <= MaxCount
  <2> DEFINE x == ClockRate * MaxCount * n
             v == x \div p
  <2>1. SUFFICES ASSUME l <= v PROVE k <= MaxCount BY DEF Period
  <2>2. x \in Nat
    <3>1. ClockRate * MaxCount \in Nat BY <1>1, ProductNat
    <3> QED BY <3>1, ProductNat
  <2>3. x = MaxCount * d BY <1>1 DEF d
  <2> HIDE DEF x
  <2>4. v \in Int /\ v * p <= x BY <2>2, Division
  <2> HIDE DEF v
  <2>5. l * p <= v * p BY <2>1, <2>4, ProductGrows
  <2>6. v * p \in Int BY <2>4
  <2>7. l * p <= x BY <1>4, <2>2, <2>4, <2>5, <2>6
  <2>8. MaxCount * d \in Int BY <1>1, <1>2
  <2>9. l * p < MaxCount * d + d BY <1>2, <1>4, <2>3, <2>7, <2>8
  <2> QED BY <1>1, <1>2, <1>4, <2>9, QuotientAtMost
<1> HIDE DEF k
<1>7. k % WordSize \in 0..(WordSize - 1) BY <1>1, <1>5
<1>8. k <= MaxCount => k % WordSize = k BY <1>1, <1>5
<1> QED BY <1>1, <1>3, <1>5, <1>6, <1>7, <1>8

\* The deadline of a timer that counts c from now.
LEMMA AheadGrows ==
  ASSUME NEW s \in PwmState, NEW i \in Chan, NEW c \in Nat
  PROVE  /\ Ahead(s, i, c) \in Int
         /\ c <= MaxCount => Ahead(s, i, c) <= Ahead(s, i, MaxCount)
<1>1. s.interval[i] \in Nat \ {0} /\ s.pclk \in Nat \ {0} /\ MaxCount \in Nat
  BY PwmAssumption DEF PwmState
<1>2. Ahead(s, i, c) \in Int BY <1>1, PeriodGrows DEF Ahead
<1>3. c <= MaxCount => Ahead(s, i, c) <= Ahead(s, i, MaxCount)
  BY <1>1, PeriodGrows DEF Ahead
<1> QED BY <1>2, <1>3

LEMMA UpdateTcfgFits ==
  ASSUME NEW s \in PwmState, NEW but, CountsTo(s, but)
  PROVE  /\ UpdateTcfg(s) \in PwmState
         /\ CountsTo(UpdateTcfg(s), but) /\ EndsBy(UpdateTcfg(s), but)
         /\ \A done : OnList(s, done) => OnList(UpdateTcfg(s), done)
<1> DEFINE left == [i \in Chan |-> IF i \in s.pending THEN Ahead(s, i, s.tcnt[i])
                                   ELSE s.left[i]]
           t == UpdateTcfg(s)
<1>1. \A i \in Chan : s.tcnt[i] \in Nat /\ s.left[i] \in Int
  BY PwmAssumption DEF PwmState
<1>2. left \in Lefts BY <1>1, AheadGrows DEF Lefts
<1>3. t = [s EXCEPT !.left = left] BY DEF UpdateTcfg, PwmState
<1>4. s.pending \subseteq Chan BY DEF PwmState
<1>5. \A i \in s.pending : left[i] = Ahead(s, i, s.tcnt[i]) BY <1>4
<1> HIDE DEF left, t
<1>6. /\ t \in PwmState /\ t.left = left /\ t.pending = s.pending
      /\ t.interval = s.interval /\ t.pclk = s.pclk
      /\ t.prev = s.prev /\ t.start = s.start /\ t.tcnt = s.tcnt
  BY <1>2, <1>3 DEF PwmState, Lefts
<1>7. CountsTo(t, but) BY <1>6 DEF CountsTo
<1>8. EndsBy(t, but)
  <2> SUFFICES ASSUME NEW i \in s.pending, i \notin but
               PROVE  t.left[i] <= Ahead(t, i, MaxCount)
    BY <1>6 DEF EndsBy
  <2>1. i \in Chan /\ s.tcnt[i] \in Nat /\ s.tcnt[i] <= MaxCount
    BY <1>1, <1>4 DEF CountsTo
  <2>2. Ahead(s, i, s.tcnt[i]) <= Ahead(s, i, MaxCount) BY <2>1, AheadGrows
  <2>3. Ahead(t, i, MaxCount) = Ahead(s, i, MaxCount) BY <1>6 DEF Ahead
  <2> QED BY <1>5, <1>6, <2>2, <2>3
<1> QED BY <1>6, <1>7, <1>8 DEF OnList, t

\* Edges of the start bits, seen from the bits before; a timer that counts
\* anew from TCNTB has its deadline by the PCLK of now.
Caught(s, but) == {i \in but : i \in s.update => i \in s.start \cap s.prev}
LEMMA UpdateTconKeeps ==
  ASSUME NEW s \in PwmState, NEW but, CountsTo(s, but), s.pending \subseteq s.prev
  PROVE  /\ UpdateTcon(s) \in PwmState
         /\ CountsTo(UpdateTcon(s), Caught(s, but))
         /\ EndsBy(s, but) => EndsBy(UpdateTcon(s), Caught(s, but))
         /\ UpdateTcon(s).start = s.start /\ UpdateTcon(s).prev = s.start
         /\ UpdateTcon(s).pending = (s.pending \cup (s.start \ s.prev)) \ (s.prev \ s.start)
<1> DEFINE count == [i \in Chan |-> IF i \in s.update THEN s.tcntb[i] ELSE s.tcnt[i]]
           started == s.start \ s.prev
           stopped == s.prev \ s.start
           left == [i \in Chan |-> IF i \in started THEN Ahead(s, i, count[i])
                                   ELSE IF i \in stopped THEN 0 ELSE s.left[i]]
           t == UpdateTcon(s)
<1>1. \A i \in Chan : /\ s.tcntb[i] \in 0..MaxCount /\ s.tcnt[i] \in 0..(WordSize - 1)
                      /\ s.left[i] \in Int
  BY DEF PwmState
<1>2. \A i \in Chan : count[i] = IF i \in s.update THEN s.tcntb[i] ELSE s.tcnt[i]
  OBVIOUS
<1>3. count \in Words BY <1>1, PwmAssumption DEF Words
<1>4. t = [s EXCEPT !.prev = s.start, !.tcnt = count,
                    !.pending = (@ \cup started) \ stopped, !.left = left]
  BY DEF UpdateTcon, PwmState
<1> HIDE DEF count
<1>5. \A i \in Chan : count[i] \in Nat BY <1>3, PwmAssumption DEF Words
<1>6. left \in Lefts BY <1>1, <1>5, AheadGrows DEF Lefts
<1>7. \A i \in Chan : left[i] = IF i \in started THEN Ahead(s, i, count[i])
                                ELSE IF i \in stopped THEN 0 ELSE s.left[i]
  OBVIOUS
<1> HIDE DEF left, t
<1>8. /\ t \in PwmState /\ t.left = left /\ t.tcnt = count
      /\ t.pending = (s.pending \cup started) \ stopped
      /\ t.start = s.start /\ t.prev = s.start
      /\ t.interval = s.interval /\ t.pclk = s.pclk
  BY <1>3, <1>4, <1>6 DEF PwmState, Words, Lefts
<1>9. \A i \in Chan \ Caught(s, but) : count[i] <= MaxCount
  <2> SUFFICES ASSUME NEW i \in Chan, i \notin Caught(s, but)
               PROVE  count[i] <= MaxCount
    OBVIOUS
  <2>1. CASE i \in s.update
    <3>1. s.tcntb[i] \in 0..MaxCount /\ count[i] = s.tcntb[i] BY <1>1, <1>2, <2>1
    <3> QED BY <3>1, PwmAssumption
  <2>2. CASE i \notin s.update
    <3>1. i \notin but BY <2>2 DEF Caught
    <3> QED BY <1>2, <2>2, <3>1 DEF CountsTo
  <2> QED BY <2>1, <2>2
<1>10. CountsTo(t, Caught(s, but)) BY <1>8, <1>9 DEF CountsTo
<1>11. ASSUME EndsBy(s, but) PROVE EndsBy(t, Caught(s, but))
  <2> SUFFICES ASSUME NEW i \in t.pending, i \notin Caught(s, but)
               PROVE  t.left[i] <= Ahead(s, i, MaxCount)
    BY <1>8 DEF EndsBy, Ahead
  <2>1. i \in Chan BY <1>8 DEF PwmState
  <2>2. CASE i \in started
    <3>1. count[i] \in Nat /\ count[i] <= MaxCount BY <1>5, <1>9, <2>1
    <3>2. Ahead(s, i, count[i]) <= Ahead(s, i, MaxCount) BY <2>1, <3>1, AheadGrows
    <3> QED BY <1>7, <1>8, <2>1, <2>2, <3>2
  <2>3. CASE i \notin started
    <3>1. i \in s.pending /\ i \notin stopped BY <1>8, <2>3
    <3>2. i \in s.start \cap s.prev BY <3>1
    <3>3. i \notin but BY <3>2 DEF Caught
    <3>4. s.left[i] <= Ahead(s, i, MaxCount) BY <1>11, <3>1, <3>3 DEF EndsBy
    <3>5. t.left[i] = s.left[i] BY <1>7, <1>8, <2>1, <2>3, <3>1
    <3> QED BY <3>4, <3>5
  <2> QED BY <2>2, <2>3
<1> QED BY <1>8, <1>10, <1>11 DEF t

-----------------------------------------------------------------------------
LEMMA PwmInitSound == ASSUME PwmInit PROVE PwmInv
<1> DEFINE zero == [i \in Chan |-> 0]
<1>1. zero \in Counts /\ zero \in Words /\ zero \in Lefts
      /\ \A i \in Chan : zero[i] = 0
  BY PwmAssumption DEF Counts, Words, Lefts
<1>2. /\ pwm = [start |-> {}, reload |-> {}, update |-> {}, prev |-> {},
                tcntb |-> zero, tcnt |-> zero, interval |-> ResetTcfg,
                pending |-> {}, left |-> zero, pclk |-> StartPclk]
      /\ spent = {} /\ scaled = {}
  BY DEF PwmInit
<1> HIDE DEF zero
<1>3. pwm \in PwmState
  BY <1>1, <1>2, PwmAssumption DEF PwmState, Counts, Words, Lefts
<1>4. CountsTo(pwm, scaled)
  <2>1. pwm.tcnt = zero BY <1>2
  <2>2. \A i \in Chan : pwm.tcnt[i] = 0 BY <1>1, <2>1
  <2>3. 0 <= MaxCount BY PwmAssumption
  <2>4. \A i \in Chan : pwm.tcnt[i] <= MaxCount BY <2>2, <2>3
  <2> QED BY <2>4 DEF CountsTo
<1>5. EndsBy(pwm, scaled) /\ OnList(pwm, spent) BY <1>2 DEF EndsBy, OnList
<1> QED BY <1>2, <1>3, <1>4, <1>5 DEF PwmInv, PwmTypes

LEMMA ExpireKeeps ==
  ASSUME PwmInv, NEW i \in Chan, Expire(i)
  PROVE  PwmInv'
<1>1. /\ pwm \in PwmState /\ spent \subseteq Chan /\ scaled \subseteq Chan
      /\ i \in pwm.pending /\ pwm.pending \subseteq Chan
      /\ OnList(pwm, spent) /\ CountsTo(pwm, scaled) /\ EndsBy(pwm, scaled)
  BY DEF PwmInv, PwmTypes, PwmState, Expire
<1>2. CASE i \in pwm.reload
  <2> DEFINE full == Ahead(pwm, i, pwm.tcntb[i])
  <2>1. pwm.tcntb[i] \in 0..MaxCount /\ pwm.tcntb[i] \in 0..(WordSize - 1)
    BY <1>1, PwmAssumption DEF PwmState
  <2>2. full \in Int /\ full <= Ahead(pwm, i, MaxCount)
    BY <1>1, <2>1, PwmAssumption, AheadGrows
  <2>3. /\ pwm' = [pwm EXCEPT !.tcnt[i] = pwm.tcntb[i], !.left[i] = full]
        /\ scaled' = scaled \ {i} /\ spent' = spent
    BY <1>2 DEF Expire, Timeout
  <2> HIDE DEF full
  <2>4. /\ pwm'.tcnt = [pwm.tcnt EXCEPT ![i] = pwm.tcntb[i]]
        /\ pwm'.left = [pwm.left EXCEPT ![i] = full]
        /\ pwm'.pending = pwm.pending /\ pwm'.start = pwm.start
        /\ pwm'.prev = pwm.prev /\ pwm'.interval = pwm.interval
        /\ pwm'.pclk = pwm.pclk
    BY <1>1, <2>3 DEF PwmState
  <2>5. pwm'.tcnt \in Words /\ pwm'.left \in Lefts
    BY <1>1, <2>1, <2>2, <2>4 DEF PwmState, Words, Lefts
  <2>6. pwm' \in PwmState BY <1>1, <2>3, <2>4, <2>5 DEF PwmState, Words, Lefts
  <2>7. \A j \in Chan : /\ pwm'.tcnt[j] = IF j = i THEN pwm.tcntb[i] ELSE pwm.tcnt[j]
                        /\ pwm'.left[j] = IF j = i THEN full ELSE pwm.left[j]
    BY <1>1, <2>4 DEF PwmState
  <2>8. CountsTo(pwm', scaled')
    <3>1. \A j \in Chan \ scaled : pwm.tcnt[j] <= MaxCount BY <1>1 DEF CountsTo
    <3>2. \A j \in Chan \ scaled' : pwm'.tcnt[j] <= MaxCount
      BY <2>1, <2>3, <2>7, <3>1
    <3> QED BY <3>2 DEF CountsTo
  <2>9. EndsBy(pwm', scaled')
    <3> SUFFICES ASSUME NEW j \in pwm.pending, j = i \/ j \notin scaled
                 PROVE  pwm'.left[j] <= Ahead(pwm, j, MaxCount)
      BY <2>3, <2>4 DEF EndsBy, Ahead
    <3>1. j \in Chan BY <1>1
    <3>2. CASE j = i BY <2>2, <2>7, <3>1, <3>2
    <3>3. CASE j # i
      <4>1. pwm.left[j] <= Ahead(pwm, j, MaxCount) BY <1>1, <3>3 DEF EndsBy
      <4> QED BY <2>7, <3>1, <3>3, <4>1
    <3> QED BY <3>2, <3>3
  <2>10. OnList(pwm', spent') BY <1>1, <2>3, <2>4 DEF OnList
  <2> QED BY <1>1, <2>3, <2>6, <2>8, <2>9, <2>10 DEF PwmInv, PwmTypes
<1>3. CASE i \notin pwm.reload
  <2> DEFINE off == OffList(pwm, i)
  <2>1. /\ pwm' = [off EXCEPT !.start = off.start \ {i}]
        /\ spent' = spent \cup {i} /\ scaled' = scaled
    BY <1>3 DEF Expire, Timeout
  <2>2. /\ off = [pwm EXCEPT !.pending = pwm.pending \ {i},
                             !.left = [pwm.left EXCEPT ![i] = 0]]
        /\ [pwm.left EXCEPT ![i] = 0] \in [Chan -> Int]
    BY <1>1 DEF OffList, PwmState
  <2> HIDE DEF off
  <2>3. off.left = [pwm.left EXCEPT ![i] = 0] BY <1>1, <2>2 DEF PwmState
  <2>4. /\ off \in PwmState /\ off.pending = pwm.pending \ {i} /\ off.start = pwm.start
        /\ off.prev = pwm.prev /\ off.interval = pwm.interval
        /\ off.pclk = pwm.pclk /\ off.tcnt = pwm.tcnt
    BY <1>1, <2>2, <2>3 DEF PwmState
  <2>5. /\ pwm' \in PwmState /\ pwm'.left = [pwm.left EXCEPT ![i] = 0]
        /\ pwm'.pending = pwm.pending \ {i} /\ pwm'.start = pwm.start \ {i}
        /\ pwm'.prev = pwm.prev /\ pwm'.interval = pwm.interval
        /\ pwm'.pclk = pwm.pclk /\ pwm'.tcnt = pwm.tcnt
    BY <2>1, <2>3, <2>4 DEF PwmState
  <2>6. EndsBy(pwm', scaled')
    <3> SUFFICES ASSUME NEW j \in pwm.pending, j # i, j \notin scaled
                 PROVE  pwm'.left[j] <= Ahead(pwm, j, MaxCount)
      BY <2>1, <2>5 DEF EndsBy, Ahead
    <3>1. pwm'.left[j] = pwm.left[j] BY <1>1, <2>5 DEF PwmState
    <3> QED BY <1>1, <3>1 DEF EndsBy
  <2>7. CountsTo(pwm', scaled') BY <1>1, <2>1, <2>5 DEF CountsTo
  <2>8. OnList(pwm', spent') BY <1>1, <2>1, <2>5 DEF OnList
  <2> QED BY <1>1, <2>1, <2>5, <2>6, <2>7, <2>8 DEF PwmInv, PwmTypes
<1> QED BY <1>2, <1>3

LEMMA PwmNextKeeps ==
  ASSUME PwmInv, PwmNext
  PROVE  PwmInv'
<1>1. /\ pwm \in PwmState /\ spent \subseteq Chan /\ scaled \subseteq Chan
      /\ OnList(pwm, spent) /\ CountsTo(pwm, scaled) /\ EndsBy(pwm, scaled)
      /\ pwm.pending \subseteq Chan
  BY DEF PwmInv, PwmTypes, PwmState
<1>2. CASE ExpireFirst BY <1>2, ExpireKeeps DEF ExpireFirst
<1>3. CASE Tick
  <2> DEFINE later == [i \in Chan |-> IF i \in pwm.pending THEN pwm.left[i] - 1
                                      ELSE pwm.left[i]]
  <2>1. pwm' = [pwm EXCEPT !.left = later] /\ spent' = spent /\ scaled' = scaled
    BY <1>3 DEF Tick
  <2>2. \A i \in Chan : pwm.left[i] \in Int /\ pwm.left[i] - 1 \in Int
    BY <1>1 DEF PwmState
  <2>3. later \in [Chan -> Int] /\ \A i \in pwm.pending : later[i] = pwm.left[i] - 1
    BY <1>1, <2>2
  <2> HIDE DEF later
  <2>4. /\ pwm' \in PwmState /\ pwm'.left = later /\ pwm'.pending = pwm.pending
        /\ pwm'.start = pwm.start /\ pwm'.prev = pwm.prev
        /\ pwm'.interval = pwm.interval /\ pwm'.pclk = pwm.pclk
        /\ pwm'.tcnt = pwm.tcnt
    BY <1>1, <2>1, <2>3 DEF PwmState
  <2>5. EndsBy(pwm', scaled')
    <3> SUFFICES ASSUME NEW i \in pwm.pending, i \notin scaled
                 PROVE  later[i] <= Ahead(pwm, i, MaxCount)
      BY <2>1, <2>4 DEF EndsBy, Ahead
    <3>1. Ahead(pwm, i, MaxCount) \in Int BY <1>1, PwmAssumption, AheadGrows
    <3>2. pwm.left[i] <= Ahead(pwm, i, MaxCount) BY <1>1 DEF EndsBy
    <3>3. pwm.left[i] \in Int BY <1>1, <2>2
    <3> QED BY <2>3, <3>1, <3>2, <3>3
  <2>6. CountsTo(pwm', scaled') /\ OnList(pwm', spent')
    BY <1>1, <2>1, <2>4 DEF CountsTo, OnList
  <2> QED BY <1>1, <2>1, <2>4, <2>5, <2>6 DEF PwmInv, PwmTypes
<1>4. CASE WriteTCON
  <2>1. PICK c \in Tcons :
          /\ pwm' = UpdateTcon([pwm EXCEPT !.start = c.start, !.reload = c.reload,
                                           !.update = c.update])
          /\ spent' = spent \cap c.start
          /\ scaled' = {i \in scaled : i \in c.update => i \in c.start \cap pwm.prev}
    BY <1>4 DEF WriteTCON
  <2> DEFINE s == [pwm EXCEPT !.start = c.start, !.reload = c.reload,
                              !.update = c.update]
  <2>2. c.start \subseteq Chan /\ c.reload \subseteq Chan /\ c.update \subseteq Chan
    BY PwmAssumption
  <2>3. /\ s \in PwmState /\ s.start = c.start /\ s.prev = pwm.prev
        /\ s.update = c.update /\ s.pending = pwm.pending /\ s.left = pwm.left
        /\ s.interval = pwm.interval /\ s.pclk = pwm.pclk /\ s.tcnt = pwm.tcnt
    BY <1>1, <2>2 DEF PwmState
  <2>4. pwm' = UpdateTcon(s) BY <2>1
  <2> HIDE DEF s
  <2>5. CountsTo(s, scaled) /\ EndsBy(s, scaled) /\ s.pending \subseteq s.prev
    <3>1. CountsTo(s, scaled) BY <1>1, <2>3 DEF CountsTo
    <3>2. EndsBy(s, scaled) BY <1>1, <2>3 DEF EndsBy, Ahead
    <3>3. s.pending \subseteq s.prev BY <1>1, <2>3 DEF OnList
    <3> QED BY <3>1, <3>2, <3>3
  <2>6. scaled' = Caught(s, scaled) BY <2>1, <2>3 DEF Caught
  <2>7. /\ pwm' \in PwmState /\ CountsTo(pwm', scaled') /\ EndsBy(pwm', scaled')
        /\ pwm'.start = c.start /\ pwm'.prev = c.start
        /\ pwm'.pending = (pwm.pending \cup (c.start \ pwm.prev)) \ (pwm.prev \ c.start)
    BY <2>3, <2>4, <2>5, <2>6, UpdateTconKeeps
  <2>8. OnList(pwm', spent') BY <1>1, <2>1, <2>7 DEF OnList
  <2>9. spent' \subseteq Chan /\ scaled' \subseteq Chan BY <1>1, <2>1
  <2> QED BY <2>7, <2>8, <2>9 DEF PwmInv, PwmTypes
<1>5. CASE WriteTCFG
  <2>1. PICK f \in Tcfgs : pwm' = UpdateTcfg([pwm EXCEPT !.interval = f])
    BY <1>5 DEF WriteTCFG
  <2> DEFINE s == [pwm EXCEPT !.interval = f]
  <2>2. s \in PwmState /\ s.start = pwm.start /\ s.prev = pwm.prev
        /\ s.pending = pwm.pending /\ s.tcnt = pwm.tcnt
    BY <1>1, PwmAssumption DEF PwmState
  <2>3. pwm' = UpdateTcfg(s) /\ spent' = spent /\ scaled' = scaled
    BY <1>5, <2>1 DEF WriteTCFG
  <2> HIDE DEF s
  <2>4. OnList(s, spent) /\ CountsTo(s, scaled) BY <1>1, <2>2 DEF OnList, CountsTo
  <2> QED BY <1>1, <2>2, <2>3, <2>4, UpdateTcfgFits DEF PwmInv, PwmTypes
<1>6. CASE WriteTCNTB
  <2>1. PICK i \in Chan, n \in 0..MaxCount : pwm' = [pwm EXCEPT !.tcntb[i] = n]
    BY <1>6 DEF WriteTCNTB
  <2>2. /\ pwm' \in PwmState /\ pwm'.left = pwm.left /\ pwm'.pending = pwm.pending
        /\ pwm'.start = pwm.start /\ pwm'.prev = pwm.prev /\ pwm'.tcnt = pwm.tcnt
        /\ pwm'.interval = pwm.interval /\ pwm'.pclk = pwm.pclk
    BY <1>1, <2>1 DEF PwmState
  <2>3. spent' = spent /\ scaled' = scaled BY <1>6 DEF WriteTCNTB
  <2>4. EndsBy(pwm', scaled') BY <1>1, <2>2, <2>3 DEF EndsBy, Ahead
  <2> QED BY <1>1, <2>2, <2>3, <2>4 DEF PwmInv, PwmTypes, OnList, CountsTo
<1>7. CASE ReadTCNTO
  <2>1. PICK i \in pwm.pending :
          /\ pwm.left[i] > 0
          /\ pwm' = [pwm EXCEPT !.tcnt[i] = Count(pwm.left[i], pwm.interval[i], pwm.pclk)]
    BY <1>7 DEF ReadTCNTO
  <2> DEFINE n == Count(pwm.left[i], pwm.interval[i], pwm.pclk)
  <2>2. /\ i \in Chan /\ pwm.left[i] \in Int /\ pwm.interval[i] \in Nat \ {0}
        /\ pwm.pclk \in Nat \ {0}
    BY <1>1, PwmAssumption DEF PwmState
  <2>3. n \in 0..(WordSize - 1) BY <2>1, <2>2, CountIsWord
  <2>4. i \notin scaled => n <= MaxCount
    BY <1>1, <2>1, <2>2, CountIsWord DEF EndsBy, Ahead
  <2>5. pwm' = [pwm EXCEPT !.tcnt[i] = n] BY <2>1
  <2> HIDE DEF n
  <2>6. /\ pwm' \in PwmState /\ pwm'.left = pwm.left /\ pwm'.pending = pwm.pending
        /\ pwm'.start = pwm.start /\ pwm'.prev = pwm.prev
        /\ pwm'.interval = pwm.interval /\ pwm'.pclk = pwm.pclk
        /\ pwm'.tcnt = [pwm.tcnt EXCEPT ![i] = n]
    BY <1>1, <2>2, <2>3, <2>5 DEF PwmState
  <2>7. spent' = spent /\ scaled' = scaled BY <1>7 DEF ReadTCNTO
  <2>8. CountsTo(pwm', scaled')
    <3>1. \A j \in Chan : pwm'.tcnt[j] = IF j = i THEN n ELSE pwm.tcnt[j]
      BY <1>1, <2>2, <2>6 DEF PwmState
    <3> QED BY <1>1, <2>4, <2>7, <3>1 DEF CountsTo
  <2>9. EndsBy(pwm', scaled') BY <1>1, <2>6, <2>7 DEF EndsBy, Ahead
  <2> QED BY <1>1, <2>6, <2>7, <2>8, <2>9 DEF PwmInv, PwmTypes, OnList
<1>8. CASE WriteClock
  <2>1. PICK p \in Pclks :
          /\ pwm' = [pwm EXCEPT !.pclk = p] /\ spent' = spent
          /\ scaled' = IF p = pwm.pclk THEN scaled ELSE scaled \cup pwm.pending
    BY <1>8 DEF WriteClock
  <2>2. /\ pwm' \in PwmState /\ pwm'.left = pwm.left /\ pwm'.pending = pwm.pending
        /\ pwm'.start = pwm.start /\ pwm'.prev = pwm.prev /\ pwm'.tcnt = pwm.tcnt
        /\ pwm'.interval = pwm.interval /\ pwm'.pclk = p
    BY <1>1, <2>1 DEF PwmState
  <2>3. scaled \subseteq scaled' /\ scaled' \subseteq Chan BY <1>1, <2>1
  <2>4. EndsBy(pwm', scaled')
    <3>1. CASE p = pwm.pclk BY <1>1, <2>1, <2>2, <3>1 DEF EndsBy, Ahead
    <3>2. CASE p # pwm.pclk BY <2>1, <2>2, <3>2 DEF EndsBy
    <3> QED BY <3>1, <3>2
  <2>5. CountsTo(pwm', scaled') BY <1>1, <2>2, <2>3 DEF CountsTo
  <2> QED BY <1>1, <2>1, <2>2, <2>3, <2>4, <2>5 DEF PwmInv, PwmTypes, OnList
\* A reset and a load take the registers as they come, then look at both.
<1>9. ASSUME NEW s \in PwmState, s.pending \subseteq s.prev,
             s.prev \ s.pending \subseteq Chan \ s.start,
             NEW but \in SUBSET Chan, CountsTo(s, but),
             pwm' = UpdateTcfg(UpdateTcon(s)), spent' = {}, scaled' = but
      PROVE  PwmInv'
  <2> DEFINE t == UpdateTcon(s)
  <2>1. /\ t \in PwmState /\ t.start = s.start /\ t.prev = s.start
        /\ t.pending = (s.pending \cup (s.start \ s.prev)) \ (s.prev \ s.start)
        /\ CountsTo(t, Caught(s, but))
    BY <1>9, UpdateTconKeeps
  <2>2. OnList(t, {}) BY <1>9, <2>1 DEF OnList
  <2> HIDE DEF t
  <2>3. CountsTo(t, but) BY <2>1 DEF CountsTo, Caught
  <2>4. pwm' = UpdateTcfg(t) BY <1>9 DEF t
  <2>5. /\ pwm' \in PwmState /\ CountsTo(pwm', but) /\ EndsBy(pwm', but)
        /\ OnList(pwm', {})
    BY <2>1, <2>2, <2>3, <2>4, UpdateTcfgFits
  <2> QED BY <1>9, <2>5 DEF PwmInv, PwmTypes
<1>10. CASE PwmReset
  <2> DEFINE none == [i \in Chan |-> 0]
             s == ResetRegs(pwm)
  <2>1. none \in Counts /\ none \in Words /\ \A i \in Chan : none[i] <= MaxCount
    BY PwmAssumption DEF Counts, Words
  <2>2. s = [pwm EXCEPT !.start = {}, !.reload = {}, !.update = {}, !.tcntb = none,
                        !.tcnt = none, !.interval = ResetTcfg]
    BY DEF ResetRegs
  <2>3. pwm' = UpdateTcfg(UpdateTcon(s)) /\ spent' = {} /\ scaled' = {}
    BY <1>10 DEF PwmReset
  <2> HIDE DEF none, s
  <2>4. /\ s \in PwmState /\ s.start = {} /\ s.prev = pwm.prev
        /\ s.pending = pwm.pending /\ s.tcnt = none
    BY <1>1, <2>1, <2>2, PwmAssumption DEF PwmState, Counts, Words
  <2>5. s.pending \subseteq s.prev /\ s.prev \ s.pending \subseteq Chan \ s.start
    BY <1>1, <2>4 DEF OnList, PwmState
  <2>6. CountsTo(s, {}) BY <2>1, <2>4 DEF CountsTo
  <2> QED BY <1>9, <2>3, <2>4, <2>5, <2>6
<1>11. CASE PwmRestart
  <2> DEFINE zero == [i \in Chan |-> 0]
             s == [pwm EXCEPT !.prev = {}, !.pending = {}, !.left = zero,
                              !.pclk = StartPclk]
  <2>1. zero \in [Chan -> Int] OBVIOUS
  <2>2. pwm' = UpdateTcfg(UpdateTcon(s)) /\ spent' = {} /\ scaled' = scaled
    BY <1>11 DEF PwmRestart
  <2> HIDE DEF zero
  <2>3. s \in PwmState /\ s.prev = {} /\ s.pending = {} /\ s.tcnt = pwm.tcnt
    BY <1>1, <2>1, PwmAssumption DEF PwmState
  <2> HIDE DEF s
  <2>4. CountsTo(s, scaled) BY <1>1, <2>3 DEF CountsTo
  <2> QED BY <1>1, <1>9, <2>2, <2>3, <2>4
<1> QED
  BY <1>2, <1>3, <1>4, <1>5, <1>6, <1>7, <1>8, <1>10, <1>11 DEF PwmNext

LEMMA PwmInvariant == PwmSpec => []PwmInv
<1>1. PwmInit => PwmInv BY PwmInitSound
<1>2. PwmInv /\ [PwmNext]_pwmVars => PwmInv'
  <2>1. ASSUME PwmInv, UNCHANGED pwmVars PROVE PwmInv'
    BY <2>1 DEF pwmVars, PwmInv, PwmTypes, OnList, CountsTo, EndsBy, Ahead
  <2> QED BY <2>1, PwmNextKeeps
<1> QED BY <1>1, <1>2, PTL DEF PwmSpec

-----------------------------------------------------------------------------
(***************************************************************************)
(* The theorems.                                                           *)
(***************************************************************************)
\* Registers and list keep their types; for a timer no change of PCLK has
\* caught running, the count a guest reads from TCNTO (s3c2410_read_tcnt) is
\* one of TCNTB: its deadline was made by the PCLK it is read with, and a
\* change of TCFG moves it.
THEOREM PwmTypeCorrect == PwmSpec => []PwmTypeOK
<1>1. PwmInv => PwmTypeOK
  BY DEF PwmInv, CountsTo, EndsBy, CountFits, PwmTypeOK
<1> QED BY <1>1, PwmInvariant, PTL

\* No timer is on the list that the guest has stopped, that ran out or that
\* was reset (s3c2410_update_tcon, s3c2410_timer_timeout).
THEOREM StoppedIsOffTheorem == PwmSpec => []StoppedIsOff
<1>1. PwmInv => StoppedIsOff BY DEF PwmInv, OnList, StoppedIsOff
<1> QED BY <1>1, PwmInvariant, PTL

\* A started timer runs, but for a one-shot timer that ran out and was set
\* again without a 0 in between.
THEOREM StartedRunsTheorem == PwmSpec => []StartedRuns
<1>1. PwmInv => StartedRuns BY DEF PwmInv, OnList, StartedRuns
<1> QED BY <1>1, PwmInvariant, PTL

-----------------------------------------------------------------------------
(***************************************************************************)
(* The real-time clock.  The tick's deadline is one interval past the last *)
(* tick, on the phase TICNT was written with; the alarm's is in the second *)
(* after the last one looked at, and close to where that second begins.    *)
(***************************************************************************)
OnTime ==
  /\ timers.tick # NoTimer => now <= timers.tick + Late
  /\ timers.alarm # NoTimer => now <= timers.alarm + Late

\* A timer is on the list exactly while what it serves is switched on.
Armed ==
  /\ rtc.rtcalm.on <=> timers.alarm # NoTimer
  /\ rtc.ticnt # 0 <=> timers.tick # NoTimer

OnPhase ==
  rtc.ticnt # 0 =>
    /\ timers.tick = expires
    /\ expires = begun + (ticks + 1) * rtc.ticnt
    /\ expires <= now + rtc.ticnt

Begins(s) == s * Second

\* The alarm as registers r, deadline d, last ring g, time t and the time c its
\* registers changed have it: it is aimed at a second that has not rung, and
\* every matching second before that one has.
AlarmState(r, d, g, t, c) ==
  /\ g <= SecondOf(t)
  /\ r.rtcalm.on =>
       /\ d <= Begins(SecondOf(d)) + Lag /\ d <= t + Second
       /\ g < SecondOf(d)
       /\ \A s \in Seconds :
            s < SecondOf(d) /\ Begins(s) > c /\ Matches(r, s) => g >= s

TickInv == RtcTypeOK /\ OnTime /\ Armed /\ OnPhase
AlarmInv == AlarmState(rtc, timers.alarm, rung, now, settled)
RtcInv == TickInv /\ AlarmInv

-----------------------------------------------------------------------------
(***************************************************************************)
(* Seconds.                                                                *)
(***************************************************************************)
LEMMA Products ==
  ASSUME NEW n \in Nat \ {0}, NEW a \in Int, NEW b \in Int, a < b
  PROVE  a * n + n <= b * n /\ a * n + n = (a + 1) * n /\ a * n \in Int /\ b * n \in Int
<1>1. PICK d \in Nat : b = a + 1 + d
  <2>1. b - a - 1 \in Nat /\ b = a + 1 + (b - a - 1) OBVIOUS
  <2> QED BY <2>1
<1>2. b * n = a * n + n + d * n BY <1>1
<1>3. d * n \in Nat OBVIOUS
<1>4. a * n \in Int /\ b * n \in Int /\ a * n + n = (a + 1) * n OBVIOUS
<1> QED BY <1>2, <1>3, <1>4

LEMMA OneMore ==
  ASSUME NEW a \in Nat, NEW n \in Nat
  PROVE  a * n + n = (a + 1) * n /\ a * n \in Nat
OBVIOUS

LEMMA Quotient ==
  ASSUME NEW n \in Nat \ {0}, NEW k \in Int, NEW x \in Int, k * n <= x, x < k * n + n
  PROVE  x \div n = k
<1>1. PICK q \in Int, r \in 0..(n - 1) : x = q * n + r /\ q = x \div n
  OBVIOUS
<1>2. k * n \in Int /\ q * n \in Int OBVIOUS
<1>3. ~(q < k) BY <1>1, <1>2, Products
<1>4. ~(k < q) BY <1>1, <1>2, Products
<1> QED BY <1>1, <1>3, <1>4

LEMMA SecondBounds ==
  ASSUME NEW t \in Nat
  PROVE  /\ SecondOf(t) \in Nat /\ Begins(SecondOf(t)) \in Nat
         /\ Begins(SecondOf(t)) <= t /\ t < Begins(SecondOf(t)) + Second
         /\ t % Second = t - Begins(SecondOf(t))
<1>1. Second \in Nat \ {0} BY RtcAssumption
<1>2. PICK q \in Nat, r \in 0..(Second - 1) : t = q * Second + r /\ q = t \div Second
                                              /\ r = t % Second
  BY <1>1
<1>3. q * Second \in Nat BY <1>1
<1> QED BY <1>1, <1>2, <1>3 DEF SecondOf, Begins

LEMMA SecondIs ==
  ASSUME NEW s \in Nat, NEW t \in Nat, Begins(s) <= t, t < Begins(s) + Second
  PROVE  SecondOf(t) = s
BY RtcAssumption, Quotient DEF SecondOf, Begins

LEMMA SecondsInOrder ==
  ASSUME NEW s \in Int, NEW u \in Int
  PROVE  /\ Begins(s) \in Int /\ Begins(s + 1) = Begins(s) + Second
         /\ s < u => Begins(s) + Second <= Begins(u)
<1>1. Second \in Nat \ {0} BY RtcAssumption
<1>2. s * Second \in Int /\ (s + 1) * Second = s * Second + Second BY <1>1
<1> QED BY <1>1, <1>2, Products DEF Begins

LEMMA SecondsGoOn ==
  ASSUME NEW t \in Nat, NEW u \in Nat, t <= u
  PROVE  SecondOf(t) <= SecondOf(u)
<1>1. /\ SecondOf(t) \in Nat /\ Begins(SecondOf(t)) <= t
      /\ SecondOf(u) \in Nat /\ u < Begins(SecondOf(u)) + Second
  BY SecondBounds
<1>2. Begins(SecondOf(t)) \in Int /\ Begins(SecondOf(u)) \in Int
  BY <1>1, SecondsInOrder
<1>3. SecondOf(u) < SecondOf(t) => Begins(SecondOf(u)) + Second <= Begins(SecondOf(t))
  BY <1>1, SecondsInOrder
<1>4. Second \in Nat BY RtcAssumption
<1> QED BY <1>1, <1>2, <1>3, <1>4

\* The alarm is armed for the second after t, from a second look at the clock.
LEMMA NextAlarmAims ==
  ASSUME NEW t \in Nat, NEW u \in Nat, t <= u, u <= t + Lag
  PROVE  /\ NextAlarm(t, u) \in Nat /\ NextAlarm(t, u) # NoTimer
         /\ SecondOf(NextAlarm(t, u)) = SecondOf(t) + 1
         /\ NextAlarm(t, u) <= Begins(SecondOf(t) + 1) + Lag
         /\ u < NextAlarm(t, u) /\ NextAlarm(t, u) <= u + Second
<1> DEFINE b == Begins(SecondOf(t))
           d == NextAlarm(t, u)
<1>1. /\ SecondOf(t) \in Nat /\ b \in Nat /\ b <= t /\ t < b + Second
      /\ t % Second = t - b
  BY SecondBounds
<1>2. Begins(SecondOf(t) + 1) = b + Second BY <1>1, SecondsInOrder
<1>3. d = u + Second - (t % Second) BY DEF NextAlarm
<1>4. /\ Second \in Nat \ {0} /\ Lag \in Nat /\ Late \in Nat /\ Late + Lag < Second
  BY RtcAssumption, TimelyAssumption
<1> HIDE DEF b, d
<1>5. /\ d \in Nat /\ u < d /\ d <= u + Second
      /\ b + Second <= d /\ d <= b + Second + Lag /\ d < b + Second + Second
  BY <1>1, <1>3, <1>4
<1>6. SecondOf(d) = SecondOf(t) + 1
  <2>1. SecondOf(t) + 1 \in Nat BY <1>1
  <2> QED BY <1>2, <1>5, <2>1, SecondIs
<1> QED BY <1>2, <1>5, <1>6 DEF d, NoTimer

\* The second the alarm is aimed at is not over, and it began if it is due.
LEMMA AimAhead ==
  ASSUME RtcInv, rtc.rtcalm.on
  PROVE  /\ timers.alarm \in Nat /\ SecondOf(timers.alarm) \in Nat
         /\ SecondOf(now) \in Nat /\ SecondOf(now) <= SecondOf(timers.alarm)
         /\ timers.alarm <= now => SecondOf(now) = SecondOf(timers.alarm)
<1> DEFINE d == timers.alarm
<1>1. d \in Nat /\ now \in Nat /\ now <= d + Late /\ d <= Begins(SecondOf(d)) + Lag
  BY DEF RtcInv, TickInv, AlarmInv, AlarmState, RtcTypeOK, OnTime, Armed
<1> HIDE DEF d
<1>2. SecondOf(d) \in Nat /\ SecondOf(now) \in Nat /\ Begins(SecondOf(now)) <= now
      /\ Begins(SecondOf(d)) <= d
  BY <1>1, SecondBounds
<1>3. /\ Begins(SecondOf(d)) \in Int /\ Begins(SecondOf(now)) \in Int
      /\ SecondOf(d) < SecondOf(now) => Begins(SecondOf(d)) + Second <= Begins(SecondOf(now))
  BY <1>2, SecondsInOrder
<1>4. /\ Second \in Nat /\ Lag \in Nat /\ Late \in Nat /\ Late + Lag < Second
  BY RtcAssumption, TimelyAssumption
<1>5. SecondOf(now) <= SecondOf(d) BY <1>1, <1>2, <1>3, <1>4
<1>6. d <= now => SecondOf(d) <= SecondOf(now) BY <1>1, SecondsGoOn
<1> QED BY <1>1, <1>2, <1>5, <1>6 DEF d

\* No second before a deadline within a second of c begins after c.
LEMMA NoneBetween ==
  ASSUME NEW c \in Nat, NEW d \in Nat, Begins(SecondOf(d)) <= c + Second,
         NEW s \in Seconds, s < SecondOf(d)
  PROVE  ~(Begins(s) > c)
<1>1. s \in Int BY DEF Seconds
<1>2. SecondOf(d) \in Int BY SecondBounds
<1>3. Begins(s) \in Int /\ Begins(SecondOf(d)) \in Int
      /\ Begins(s) + Second <= Begins(SecondOf(d))
  BY <1>1, <1>2, SecondsInOrder
<1>4. Second \in Nat BY RtcAssumption
<1> QED BY <1>3, <1>4

LEMMA IntervalsAreCounts ==
  ASSUME NEW i \in Interval \cup {0}
  PROVE  i \in Nat /\ (i # 0 => i \in Interval)
<1>1. CASE i \in Interval
  <2>1. i \in Nat \ {0} BY <1>1, RtcAssumption
  <2> QED BY <1>1, <2>1
<1> QED BY <1>1

LEMMA ResetSettles ==
  ASSUME NEW r \in Registers
  PROVE  /\ ResetAlarm(r) \in Registers /\ [r EXCEPT !.ticnt = 0] \in Registers
         /\ ~ResetAlarm(r).rtcalm.on /\ ResetAlarm(r).ticnt = r.ticnt
<1> DEFINE a == [f \in Field |-> CHOOSE v \in Value : TRUE]
<1>1. a \in [Field -> Value]
  <2>1. ASSUME NEW f \in Field PROVE (CHOOSE v \in Value : TRUE) \in Value
    <3>1. Calendar[f] \in [Seconds -> Value] BY <2>1, RtcAssumption
    <3>2. SecondOf(MaxTime) \in Nat BY RtcAssumption, SecondBounds
    <3>3. Calendar[f][0] \in Value BY <3>1, <3>2 DEF Seconds
    <3> QED BY <3>3
  <2> QED BY <2>1
<1> DEFINE q == [r EXCEPT !.rtcalm = [on |-> FALSE, compare |-> {}]]
<1>2. q \in Registers /\ q.rtcalm.on = FALSE /\ q.ticnt = r.ticnt BY DEF Registers
<1>3. ResetAlarm(r) = [q EXCEPT !.alarm = a] BY DEF ResetAlarm
<1> HIDE DEF a, q
<1>4. /\ ResetAlarm(r) \in Registers
      /\ ~ResetAlarm(r).rtcalm.on /\ ResetAlarm(r).ticnt = r.ticnt
  BY <1>1, <1>2, <1>3 DEF Registers
<1>5. [r EXCEPT !.ticnt = 0] \in Registers BY DEF Registers
<1> QED BY <1>4, <1>5

\* The alarm armed at t, and the clock at u by then.
LEMMA ArmedAfresh ==
  ASSUME NEW t \in Nat, NEW u \in Nat, t <= u, u <= t + Lag,
         NEW r, NEW g \in Nat \cup {-1}, g <= SecondOf(t),
         NEW d, r.rtcalm.on => d = NextAlarm(t, u)
  PROVE  AlarmState(r, d, g, u, t)
<1>1. SecondOf(t) \in Nat /\ SecondOf(u) \in Nat BY SecondBounds
<1>2. g <= SecondOf(u) BY <1>1, SecondsGoOn
<1>3. ASSUME r.rtcalm.on
      PROVE  /\ d <= Begins(SecondOf(d)) + Lag /\ d <= u + Second
             /\ g < SecondOf(d)
             /\ \A s \in Seconds : s < SecondOf(d) => ~(Begins(s) > t)
  <2>1. /\ d \in Nat /\ SecondOf(d) = SecondOf(t) + 1
        /\ d <= Begins(SecondOf(d)) + Lag /\ d <= u + Second
    BY <1>3, NextAlarmAims
  <2>2. Begins(SecondOf(d)) <= t + Second
    <3>1. Begins(SecondOf(t)) \in Nat /\ Begins(SecondOf(t)) <= t BY SecondBounds
    <3>2. Begins(SecondOf(d)) = Begins(SecondOf(t)) + Second
      BY <1>1, <2>1, SecondsInOrder
    <3>3. Second \in Nat BY RtcAssumption
    <3> QED BY <3>1, <3>2, <3>3
  <2>3. \A s \in Seconds : s < SecondOf(d) => ~(Begins(s) > t)
    BY <2>1, <2>2, NoneBetween
  <2> QED BY <1>1, <2>1, <2>3
<1> QED BY <1>2, <1>3 DEF AlarmState

LEMMA ArmedAtOnce ==
  ASSUME NEW t \in Nat, NEW r, NEW g \in Nat \cup {-1}, g <= SecondOf(t),
         NEW d, r.rtcalm.on => d = NextAlarm(t, t)
  PROVE  AlarmState(r, d, g, t, t)
<1>1. t <= t /\ t <= t + Lag BY RtcAssumption
<1> QED BY <1>1, ArmedAfresh

-----------------------------------------------------------------------------
(***************************************************************************)
(* The steps.                                                              *)
(***************************************************************************)
LEMMA RtcStarts == RtcInit => RtcInv
<1> SUFFICES ASSUME RtcInit PROVE RtcInv OBVIOUS
<1> PICK q \in Registers : rtc = [ResetAlarm(q) EXCEPT !.ticnt = 0] BY DEF RtcInit
<1>1. /\ rtc \in Registers /\ ~rtc.rtcalm.on /\ rtc.ticnt = 0
  BY ResetSettles DEF Registers
<1>2. 0 \in 0..MaxTime /\ SecondOf(0) \in Nat BY RtcAssumption, SecondBounds
<1>3. TickInv
  BY <1>1, <1>2 DEF RtcInit, TickInv, RtcTypeOK, OnTime, Armed, OnPhase, NoTimer
<1>4. AlarmInv
  BY <1>1, <1>2 DEF RtcInit, AlarmInv, AlarmState
<1> QED BY <1>3, <1>4 DEF RtcInv

\* What the parts of the invariant say of the two timers.
LEMMA Deadlines ==
  ASSUME RtcInv
  PROVE  /\ now \in Nat /\ now <= MaxTime /\ MaxTime \in Nat /\ rtc.ticnt \in Nat
         /\ rtc.rtcalm.on => timers.alarm \in Nat /\ now <= timers.alarm + Late
         /\ ~rtc.rtcalm.on => timers.alarm = NoTimer
         /\ rtc.ticnt # 0 => /\ rtc.ticnt \in Interval
                             /\ timers.tick \in Nat /\ now <= timers.tick + Late
         /\ rtc.ticnt = 0 => timers.tick = NoTimer
<1>1. /\ now \in Nat /\ now <= MaxTime /\ MaxTime \in Nat
  BY RtcAssumption DEF RtcInv, TickInv, RtcTypeOK
<1>2. rtc.ticnt \in Interval \cup {0}
  BY DEF RtcInv, TickInv, RtcTypeOK, Registers
<1>3. rtc.ticnt \in Nat /\ (rtc.ticnt # 0 => rtc.ticnt \in Interval)
  BY <1>2, IntervalsAreCounts
<1> QED
  BY <1>1, <1>3 DEF RtcInv, TickInv, RtcTypeOK, OnTime, Armed, NoTimer

\* The clock moves on beside a timer that is left alone.
LEMMA ClockMoves ==
  ASSUME RtcInv, now' \in Nat, now <= now', UNCHANGED rtc
  PROVE  /\ UNCHANGED <<expires, begun, ticks>> /\ timers'.tick = timers.tick
              => OnPhase'
         /\ UNCHANGED <<settled, rung>> /\ timers'.alarm = timers.alarm
              => AlarmInv'
<1>1. /\ now \in Nat /\ expires \in Nat /\ rung \in Nat \cup {-1} /\ rtc.ticnt \in Nat
  BY Deadlines DEF RtcInv, TickInv, RtcTypeOK
<1>2. UNCHANGED <<expires, begun, ticks>> /\ timers'.tick = timers.tick => OnPhase'
  BY <1>1 DEF RtcInv, TickInv, OnPhase
<1>3. SecondOf(now) \in Nat /\ SecondOf(now') \in Nat /\ SecondOf(now) <= SecondOf(now')
  BY <1>1, SecondBounds, SecondsGoOn
<1>4. ASSUME UNCHANGED <<settled, rung>>, timers'.alarm = timers.alarm PROVE AlarmInv'
  <2>1. AlarmState(rtc, timers.alarm, rung, now, settled) BY DEF RtcInv, AlarmInv
  <2>2. Second \in Nat /\ (rtc.rtcalm.on => timers.alarm \in Nat)
    BY RtcAssumption, Deadlines
  <2>3. AlarmState(rtc, timers.alarm, rung, now', settled)
    BY <1>1, <1>3, <2>1, <2>2 DEF AlarmState
  <2> QED BY <1>4, <2>3 DEF AlarmInv
<1> QED BY <1>2, <1>4

LEMMA ClockStep ==
  ASSUME RtcInv, ClockAdvances
  PROVE  RtcInv'
<1>1. /\ now' = now + 1 /\ now' <= MaxTime
      /\ UNCHANGED <<rtc, expires, timers, begun, ticks, settled, rung>>
  BY DEF ClockAdvances, Timely
<1>2. OnTime'
  <2>1. \A k \in DOMAIN timers : timers[k] # NoTimer => now' <= timers[k] + Late
    BY DEF ClockAdvances, Timely
  <2>2. DOMAIN timers = {"tick", "alarm"} BY DEF RtcInv, TickInv, RtcTypeOK
  <2> QED BY <1>1, <2>1, <2>2 DEF OnTime
<1>3. now \in Nat /\ now' \in 0..MaxTime BY <1>1, Deadlines
<1>4. OnPhase' /\ AlarmInv' BY <1>1, <1>3, ClockMoves
<1>5. RtcTypeOK' /\ Armed' BY <1>1, <1>3 DEF RtcInv, TickInv, RtcTypeOK, Armed
<1> QED BY <1>2, <1>4, <1>5 DEF RtcInv, TickInv

\* The pass comes within the interval, so the next deadline is one on.
LEMMA NextTickIsNext ==
  ASSUME NEW e \in Nat, NEW t \in Nat, NEW i \in Interval, e <= t, t <= e + Late + Lag
  PROVE  e + ((t - e) \div i + 1) * i = e + i
<1>1. i \in Nat \ {0} BY RtcAssumption
<1>2. Late + Lag < i /\ Late \in Nat /\ Lag \in Nat
  BY RtcAssumption, TimelyAssumption
<1>3. 0 * i = 0 /\ 1 * i = i BY <1>1
<1>4. (t - e) \div i = 0 BY <1>1, <1>2, <1>3, Quotient
<1> QED BY <1>1, <1>3, <1>4

LEMMA TickStep ==
  ASSUME RtcInv, TickTimeout
  PROVE  RtcInv'
<1>1. /\ timers.tick # NoTimer /\ timers.tick <= now
      /\ UNCHANGED <<rtc, begun, settled, rung>>
  BY DEF TickTimeout
<1>2. /\ now \in Nat /\ rtc.ticnt # 0 /\ rtc.ticnt \in Interval /\ rtc.ticnt \in Nat
      /\ timers.tick \in Nat /\ now <= timers.tick + Late
  BY <1>1, Deadlines
<1>3. /\ ticks' = ticks + 1 /\ expires' = NextTick(now')
      /\ timers' = [timers EXCEPT !.tick = expires']
      /\ now' \in now..now + Lag /\ now' <= MaxTime
      /\ timers.alarm # NoTimer => now' <= timers.alarm + Late
  BY <1>2 DEF TickTimeout, Meanwhile
<1>4. Late \in Nat /\ Lag \in Nat BY RtcAssumption
<1>5. now' \in Nat /\ now <= now' /\ now' <= now + Lag BY <1>2, <1>3, <1>4
<1>6. /\ expires \in Nat /\ timers.tick = expires
      /\ expires = begun + (ticks + 1) * rtc.ticnt
      /\ ticks \in Nat /\ begun \in Nat
  BY <1>2 DEF RtcInv, TickInv, RtcTypeOK, OnPhase
<1>7. expires' = expires + rtc.ticnt
  <2>1. expires <= now' /\ now' <= expires + Late + Lag
    BY <1>1, <1>2, <1>4, <1>5, <1>6
  <2> QED BY <1>2, <1>3, <1>5, <1>6, <2>1, NextTickIsNext DEF NextTick
<1>8. /\ timers'.tick = expires' /\ timers'.alarm = timers.alarm
      /\ timers' \in [tick : Nat \cup {NoTimer}, alarm : Nat \cup {NoTimer}]
  <2>1. expires' \in Nat BY <1>2, <1>6, <1>7
  <2> QED BY <1>3, <2>1 DEF RtcInv, TickInv, RtcTypeOK
<1>9. OnPhase'
  <2>1. expires' = begun + (ticks' + 1) * rtc.ticnt
    <3>0. ticks + 1 \in Nat BY <1>6
    <3>1. (ticks + 1) * rtc.ticnt + rtc.ticnt = (ticks + 1 + 1) * rtc.ticnt
          /\ (ticks + 1) * rtc.ticnt \in Nat
      BY <1>2, <3>0, OneMore
    <3>2. (ticks + 1 + 1) * rtc.ticnt = (ticks' + 1) * rtc.ticnt BY <1>3
    <3> QED BY <1>2, <1>6, <1>7, <3>1, <3>2
  <2>2. expires' <= now' + rtc.ticnt BY <1>1, <1>2, <1>5, <1>6, <1>7
  <2> QED BY <1>1, <1>8, <2>1, <2>2 DEF OnPhase
<1>10. OnTime'
  <2>1. now' <= timers'.tick + Late
    <3>1. Late + Lag < rtc.ticnt BY <1>2, TimelyAssumption
    <3> QED BY <1>2, <1>4, <1>5, <1>6, <1>7, <1>8, <3>1
  <2> QED BY <1>3, <1>8, <2>1 DEF OnTime
<1>11. RtcTypeOK'
  <2>1. expires' \in Nat /\ ticks' \in Nat /\ now' \in 0..MaxTime
    BY <1>2, <1>3, <1>5, <1>6, <1>7, RtcAssumption
  <2> QED BY <1>1, <1>8, <2>1 DEF RtcInv, TickInv, RtcTypeOK
<1>12. Armed'
  <2>1. timers'.tick # NoTimer BY <1>2, <1>6, <1>7, <1>8 DEF NoTimer
  <2> QED BY <1>1, <1>2, <1>8, <2>1 DEF RtcInv, TickInv, Armed
<1>13. AlarmInv' BY <1>1, <1>5, <1>8, ClockMoves
<1> QED BY <1>9, <1>10, <1>11, <1>12, <1>13 DEF RtcInv, TickInv

LEMMA AlarmStep ==
  ASSUME RtcInv, AlarmTimeout
  PROVE  /\ RtcInv'
         /\ rtc.rtcalm.on /\ Matches(rtc, SecondOf(now)) => SecondOf(now) > rung
<1>1. /\ timers.alarm # NoTimer /\ timers.alarm <= now
      /\ UNCHANGED <<rtc, expires, begun, ticks, settled>>
  BY DEF AlarmTimeout
<1>2. rtc.rtcalm.on /\ now \in Nat BY <1>1, Deadlines
<1>3. /\ rung' = (IF Matches(rtc, SecondOf(now)) THEN SecondOf(now) ELSE rung)
      /\ timers' = [timers EXCEPT !.alarm = NextAlarm(now, now')]
      /\ now' \in now..now + Lag /\ now' <= MaxTime
      /\ timers.tick # NoTimer => now' <= timers.tick + Late
  BY <1>2 DEF AlarmTimeout, Meanwhile
<1>4. Late \in Nat /\ Lag \in Nat /\ Second \in Nat \ {0} BY RtcAssumption
<1>5. now' \in Nat /\ now <= now' /\ now' <= now + Lag BY <1>2, <1>3, <1>4
<1> DEFINE a == SecondOf(now)
           d == NextAlarm(now, now')
<1>6. /\ a \in Nat /\ a = SecondOf(timers.alarm) /\ timers.alarm \in Nat
      /\ rung \in Nat \cup {-1} /\ rung < a
      /\ \A s \in Seconds : s < a /\ Begins(s) > settled /\ Matches(rtc, s) => rung >= s
  BY <1>1, <1>2, AimAhead DEF RtcInv, TickInv, RtcTypeOK, AlarmInv, AlarmState
<1>7. /\ d \in Nat /\ d # NoTimer /\ SecondOf(d) = a + 1 /\ d <= Begins(a + 1) + Lag
      /\ now' < d /\ d <= now' + Second
  BY <1>2, <1>5, NextAlarmAims
<1>8. /\ timers'.alarm = d /\ timers'.tick = timers.tick
      /\ timers' \in [tick : Nat \cup {NoTimer}, alarm : Nat \cup {NoTimer}]
  <2> HIDE DEF d
  <2> QED BY <1>3, <1>7 DEF d, RtcInv, TickInv, RtcTypeOK
<1> HIDE DEF a, d
<1>9. rung' = (IF Matches(rtc, a) THEN a ELSE rung) BY <1>3 DEF a
<1>10. AlarmInv'
  <2>1. a <= SecondOf(now') /\ SecondOf(now') \in Nat
    BY <1>2, <1>5, SecondsGoOn, SecondBounds DEF a
  <2>2. rung' <= SecondOf(now') /\ rung' < a + 1 BY <1>6, <1>9, <2>1
  <2>3. ASSUME NEW s \in Seconds, s < a + 1, Begins(s) > settled, Matches(rtc, s)
        PROVE  rung' >= s
    <3>1. s \in Nat BY DEF Seconds
    <3>2. CASE s = a BY <1>6, <1>9, <2>3, <3>2
    <3>3. CASE s < a BY <1>6, <1>9, <2>3, <3>1, <3>3
    <3> QED BY <1>6, <2>3, <3>1, <3>2, <3>3
  <2>4. AlarmState(rtc, d, rung', now', settled)
    BY <1>7, <2>2, <2>3 DEF AlarmState
  <2> QED BY <1>1, <1>8, <2>4 DEF AlarmInv
<1>11. OnPhase' BY <1>1, <1>5, <1>8, ClockMoves
<1>12. OnTime' BY <1>3, <1>4, <1>5, <1>7, <1>8 DEF OnTime
<1>13. Armed' BY <1>1, <1>2, <1>7, <1>8 DEF RtcInv, TickInv, Armed
<1>14. RtcTypeOK'
  <2>1. now' \in 0..MaxTime /\ rung' \in Nat \cup {-1}
    BY <1>3, <1>5, <1>6, <1>9, RtcAssumption
  <2> QED BY <1>1, <1>8, <2>1 DEF RtcInv, TickInv, RtcTypeOK
<1>15. rtc.rtcalm.on /\ Matches(rtc, SecondOf(now)) => SecondOf(now) > rung
  BY <1>6 DEF a
<1> QED BY <1>10, <1>11, <1>12, <1>13, <1>14, <1>15 DEF RtcInv, TickInv

\* TICNT written, or cleared by a reset, at time t.
LEMMA TicntStep ==
  ASSUME RtcInv, NEW i \in Interval \cup {0}, rtc' = [rtc EXCEPT !.ticnt = i],
         SetTicnt(i, now), timers' = [timers EXCEPT !.tick = TickTimer(i, now)],
         UNCHANGED <<now, settled, rung>>
  PROVE  RtcInv'
<1>1. i \in Nat /\ now \in Nat BY IntervalsAreCounts, Deadlines
<1>2. /\ rtc' \in Registers /\ rtc'.ticnt = i /\ rtc'.rtcalm = rtc.rtcalm
      /\ rtc'.alarm = rtc.alarm
  BY DEF RtcInv, TickInv, RtcTypeOK, Registers
<1>3. /\ timers'.tick = (IF i = 0 THEN NoTimer ELSE now + i)
      /\ timers'.alarm = timers.alarm
      /\ timers' \in [tick : Nat \cup {NoTimer}, alarm : Nat \cup {NoTimer}]
  BY <1>1 DEF TickTimer, RtcInv, TickInv, RtcTypeOK
<1>4. /\ expires' = (IF i = 0 THEN expires ELSE now + i) /\ begun' = now /\ ticks' = 0
  BY DEF SetTicnt
<1>5. RtcTypeOK' BY <1>1, <1>2, <1>3, <1>4 DEF RtcInv, TickInv, RtcTypeOK
<1>6. OnTime'
  <2>1. Late \in Nat BY RtcAssumption
  <2> QED BY <1>1, <1>3, <2>1 DEF RtcInv, TickInv, OnTime
<1>7. Armed' BY <1>1, <1>2, <1>3 DEF RtcInv, TickInv, Armed, NoTimer
<1>8. OnPhase'
  <2>1. (0 + 1) * i = i BY <1>1
  <2> QED BY <1>1, <1>2, <1>3, <1>4, <2>1 DEF OnPhase
<1>9. AlarmInv'
  <2>1. \A s : Matches(rtc', s) <=> Matches(rtc, s) BY <1>2 DEF Matches
  <2>2. AlarmState(rtc, timers.alarm, rung, now, settled) BY DEF RtcInv, AlarmInv
  <2>3. AlarmState(rtc', timers.alarm, rung, now, settled)
    BY <1>2, <2>1, <2>2 DEF AlarmState
  <2> QED BY <1>3, <2>3 DEF AlarmInv
<1> QED BY <1>5, <1>6, <1>7, <1>8, <1>9 DEF RtcInv, TickInv

LEMMA WriteRtcalmStep ==
  ASSUME RtcInv, WriteRTCALM
  PROVE  RtcInv'
<1> PICK on \in BOOLEAN, c \in SUBSET Field :
      rtc' = [rtc EXCEPT !.rtcalm = [on |-> on, compare |-> c]]
  BY DEF WriteRTCALM
<1>1. /\ Meanwhile("tick") /\ settled' = now
      /\ timers' = [timers EXCEPT !.alarm = AlarmTimer(rtc', now, now')]
      /\ UNCHANGED <<expires, begun, ticks, rung>>
  BY DEF WriteRTCALM
<1>2. /\ rtc' \in Registers /\ rtc'.ticnt = rtc.ticnt
  BY DEF RtcInv, TickInv, RtcTypeOK, Registers
<1>3. Late \in Nat /\ Lag \in Nat /\ Second \in Nat /\ now \in Nat /\ MaxTime \in Nat
  BY RtcAssumption, Deadlines
<1>4. /\ now' \in Nat /\ now <= now' /\ now' <= now + Lag /\ now' <= MaxTime
      /\ timers.tick # NoTimer => now' <= timers.tick + Late
  BY <1>1, <1>3 DEF Meanwhile
<1> DEFINE d == NextAlarm(now, now')
<1>5. d \in Nat /\ d # NoTimer /\ now' < d BY <1>3, <1>4, NextAlarmAims
<1>6. AlarmTimer(rtc', now, now') = IF rtc'.rtcalm.on THEN d ELSE NoTimer
  BY DEF AlarmTimer
<1> HIDE DEF d
<1>7. /\ timers'.alarm = (IF rtc'.rtcalm.on THEN d ELSE NoTimer)
      /\ timers'.tick = timers.tick
      /\ timers' \in [tick : Nat \cup {NoTimer}, alarm : Nat \cup {NoTimer}]
  BY <1>1, <1>5, <1>6 DEF RtcInv, TickInv, RtcTypeOK
<1>8. RtcTypeOK' BY <1>1, <1>2, <1>3, <1>4, <1>7 DEF RtcInv, TickInv, RtcTypeOK
<1>9. OnTime' BY <1>3, <1>4, <1>5, <1>7 DEF OnTime
<1>10. Armed' BY <1>2, <1>5, <1>7 DEF RtcInv, TickInv, Armed
<1>11. OnPhase'
  <2>1. rtc.ticnt \in Nat /\ expires \in Nat
    BY Deadlines DEF RtcInv, TickInv, RtcTypeOK
  <2> QED BY <1>1, <1>2, <1>3, <1>4, <1>7, <2>1 DEF RtcInv, TickInv, OnPhase
<1>12. AlarmInv'
  <2>1. rung \in Nat \cup {-1} /\ rung <= SecondOf(now)
    BY DEF RtcInv, TickInv, RtcTypeOK, AlarmInv, AlarmState
  <2>2. rtc'.rtcalm.on => timers'.alarm = NextAlarm(now, now') BY <1>7 DEF d
  <2>3. AlarmState(rtc', timers'.alarm, rung, now', now)
    BY <1>3, <1>4, <2>1, <2>2, ArmedAfresh
  <2> QED BY <1>1, <2>3 DEF AlarmInv
<1> QED BY <1>8, <1>9, <1>10, <1>11, <1>12 DEF RtcInv, TickInv

\* ALMSEC to ALMYEAR: the alarm stays aimed at the next second, and those
\* before it began too early to count.
LEMMA WriteAlarmStep ==
  ASSUME RtcInv, WriteAlarm
  PROVE  RtcInv'
<1> PICK f \in Field, v \in Value : rtc' = [rtc EXCEPT !.alarm[f] = v]
  BY DEF WriteAlarm
<1>1. settled' = now /\ UNCHANGED <<now, expires, timers, begun, ticks, rung>>
  BY DEF WriteAlarm
<1>2. rtc' \in Registers /\ rtc'.ticnt = rtc.ticnt /\ rtc'.rtcalm = rtc.rtcalm
  BY DEF RtcInv, TickInv, RtcTypeOK, Registers
<1>3. now \in Nat BY Deadlines
<1>4. TickInv'
  BY <1>1, <1>2, <1>3 DEF RtcInv, TickInv, RtcTypeOK, OnTime, Armed, OnPhase
<1>5. AlarmInv'
  <2>1. AlarmState(rtc, timers.alarm, rung, now, settled) BY DEF RtcInv, AlarmInv
  <2>2. ASSUME rtc.rtcalm.on, NEW s \in Seconds, s < SecondOf(timers.alarm)
        PROVE  ~(Begins(s) > now)
    <3>1. timers.alarm \in Nat BY <2>2, Deadlines
    <3>2. Begins(SecondOf(timers.alarm)) <= now + Second
      <4>1. timers.alarm <= now + Second BY <2>1, <2>2 DEF AlarmState
      <4>2. Begins(SecondOf(timers.alarm)) \in Nat
            /\ Begins(SecondOf(timers.alarm)) <= timers.alarm
        BY <3>1, SecondBounds
      <4>3. Second \in Nat BY RtcAssumption
      <4> QED BY <1>3, <3>1, <4>1, <4>2, <4>3
    <3> QED BY <1>3, <2>2, <3>1, <3>2, NoneBetween
  <2>3. AlarmState(rtc', timers.alarm, rung, now, now)
    BY <1>2, <2>1, <2>2 DEF AlarmState
  <2> QED BY <1>1, <2>3 DEF AlarmInv
<1> QED BY <1>4, <1>5 DEF RtcInv

\* A new process, with the clock further on.
LEMMA RestartStep ==
  ASSUME RtcInv, NEW complete, RtcRestart(complete)
  PROVE  RtcInv'
<1>1. /\ now' \in now + 1..MaxTime /\ settled' = now' /\ UNCHANGED rung
      /\ SetTicnt(rtc'.ticnt, now')
      /\ timers' = [tick |-> TickTimer(rtc'.ticnt, now'),
                    alarm |-> AlarmTimer(rtc', now', now')]
  BY DEF RtcRestart
<1>2. rtc' \in Registers
  <2>1. rtc \in Registers BY DEF RtcInv, TickInv, RtcTypeOK
  <2>2. \/ rtc' = rtc
        \/ rtc' = [rtc EXCEPT !.ticnt = 0]
        \/ rtc' = [ResetAlarm(rtc) EXCEPT !.ticnt = 0]
    BY DEF RtcRestart
  <2> QED BY <2>1, <2>2, ResetSettles
<1> DEFINE i == rtc'.ticnt
           d == NextAlarm(now', now')
<1>3. i \in Nat
  <2>1. i \in Interval \cup {0} BY <1>2 DEF Registers
  <2> QED BY <2>1, IntervalsAreCounts
<1>4. Late \in Nat /\ Lag \in Nat /\ now \in Nat /\ MaxTime \in Nat
  BY RtcAssumption, Deadlines
<1>5. now' \in Nat /\ now <= now' /\ now' <= now' + Lag /\ now' \in 0..MaxTime
  <2>1. now' \in Int /\ now + 1 <= now' /\ now' <= MaxTime BY <1>1, <1>4
  <2>2. \A u \in Int : now + 1 <= u /\ u <= MaxTime
                       => u \in Nat /\ now <= u /\ u <= u + Lag /\ u \in 0..MaxTime
    BY <1>4
  <2> QED BY <2>1, <2>2
<1>6. d \in Nat /\ d # NoTimer /\ now' < d BY <1>5, NextAlarmAims
<1>7. /\ timers'.tick = (IF i = 0 THEN NoTimer ELSE now' + i)
      /\ timers'.alarm = (IF rtc'.rtcalm.on THEN d ELSE NoTimer)
  BY <1>1 DEF TickTimer, AlarmTimer
<1>8. /\ expires' = (IF i = 0 THEN expires ELSE now' + i) /\ begun' = now' /\ ticks' = 0
  BY <1>1 DEF SetTicnt
<1> HIDE DEF d
<1>9. timers' \in [tick : Nat \cup {NoTimer}, alarm : Nat \cup {NoTimer}]
  <2>1. timers' = [tick |-> timers'.tick, alarm |-> timers'.alarm] BY <1>1
  <2>2. timers'.tick \in Nat \cup {NoTimer} BY <1>3, <1>5, <1>7
  <2>3. timers'.alarm \in Nat \cup {NoTimer} BY <1>6, <1>7
  <2> QED BY <2>1, <2>2, <2>3
<1>10. RtcTypeOK'
  <2>1. expires \in Nat /\ rung \in Nat \cup {-1} BY DEF RtcInv, TickInv, RtcTypeOK
  <2>2. expires' \in Nat BY <1>3, <1>5, <1>8, <2>1
  <2> QED BY <1>1, <1>2, <1>5, <1>8, <1>9, <2>1, <2>2 DEF RtcTypeOK
<1>11. OnTime' BY <1>3, <1>4, <1>5, <1>6, <1>7 DEF OnTime
<1>12. Armed' BY <1>3, <1>5, <1>6, <1>7 DEF Armed, NoTimer
<1>13. OnPhase'
  <2>1. (0 + 1) * i = i BY <1>3
  <2> QED BY <1>3, <1>5, <1>7, <1>8, <2>1 DEF OnPhase
<1>14. AlarmInv'
  <2>1. rung \in Nat \cup {-1} /\ rung <= SecondOf(now)
    BY DEF RtcInv, TickInv, RtcTypeOK, AlarmInv, AlarmState
  <2>2. SecondOf(now) \in Nat /\ SecondOf(now') \in Nat /\ SecondOf(now) <= SecondOf(now')
    BY <1>4, <1>5, SecondBounds, SecondsGoOn
  <2>3. rtc'.rtcalm.on => timers'.alarm = NextAlarm(now', now') BY <1>7 DEF d
  <2>4. rung <= SecondOf(now') BY <2>1, <2>2
  <2>5. AlarmState(rtc', timers'.alarm, rung, now', now')
    BY <1>5, <2>1, <2>3, <2>4, ArmedAtOnce
  <2> QED BY <1>1, <2>5 DEF AlarmInv
<1> QED BY <1>10, <1>11, <1>12, <1>13, <1>14 DEF RtcInv, TickInv

LEMMA RtcStep ==
  ASSUME RtcInv, [RtcNext]_rtcVars
  PROVE  RtcInv'
<1>1. CASE WriteTICNT
  <2>1. PICK i \in Interval \cup {0} :
          /\ rtc' = [rtc EXCEPT !.ticnt = i]
          /\ SetTicnt(i, now)
          /\ timers' = [timers EXCEPT !.tick = TickTimer(i, now)]
          /\ UNCHANGED <<now, settled, rung>>
    BY <1>1 DEF WriteTICNT
  <2> QED BY <2>1, TicntStep
<1>2. CASE RtcReset
  <2>1. /\ 0 \in Interval \cup {0} /\ rtc' = [rtc EXCEPT !.ticnt = 0]
        /\ SetTicnt(0, now) /\ UNCHANGED <<now, settled, rung>>
        /\ timers' = [timers EXCEPT !.tick = TickTimer(0, now)]
    BY <1>2 DEF RtcReset, TickTimer
  <2> QED BY <2>1, TicntStep
<1>3. CASE UNCHANGED rtcVars
  BY <1>3
  DEF rtcVars, RtcInv, TickInv, AlarmInv, RtcTypeOK, OnTime, Armed, OnPhase
<1>4. CASE \E complete \in BOOLEAN : RtcRestart(complete)
  BY <1>4, RestartStep
<1> QED
  BY <1>1, <1>2, <1>3, <1>4, ClockStep, TickStep, AlarmStep, WriteRtcalmStep,
     WriteAlarmStep
  DEF RtcNext

-----------------------------------------------------------------------------
(***************************************************************************)
(* The theorems on the clock.                                              *)
(***************************************************************************)
\* Over any run of the clock (s3c2410_rtc_timeout, s3c2410_rtc_alarm, the
\* writes, resets and restarts): no deadline is overdue by more than Late, a
\* timer is on the list exactly while it is switched on, the tick keeps the
\* phase of its start, and the alarm looks at each second while it lasts.
THEOREM RtcInvariant == RtcSpec => []RtcInv
<1>1. RtcInit => RtcInv BY RtcStarts
<1>2. RtcInv /\ [RtcNext]_rtcVars => RtcInv' BY RtcStep
<1> QED BY <1>1, <1>2, PTL DEF RtcSpec

\* s3c2410_rtc_set_ticnt, s3c2410_rtc_set_rtcalm and the two callbacks: a tick
\* or an alarm has its timer exactly while it is switched on, and the timer is
\* due within its period, across writes, resets and restarts.
THEOREM TimersArmedTheorem == RtcSpec => []TimersArmed
<1>1. RtcInv => TimersArmed
  <2> SUFFICES ASSUME RtcInv PROVE TimersArmed OBVIOUS
  <2>1. RtcTypeOK /\ Armed BY DEF RtcInv, TickInv
  <2>2. now \in Nat /\ Second \in Nat /\ rtc.ticnt \in Nat
    BY Deadlines, RtcAssumption
  <2>3. timers.alarm <= now + Second
    <3>1. CASE rtc.rtcalm.on
      BY <3>1 DEF RtcInv, AlarmInv, AlarmState
    <3>2. CASE ~rtc.rtcalm.on
      BY <2>2, <3>2, Deadlines DEF NoTimer
    <3> QED BY <3>1, <3>2
  <2>4. timers.tick <= now + rtc.ticnt
    <3>1. CASE rtc.ticnt # 0
      BY <3>1 DEF RtcInv, TickInv, OnPhase
    <3>2. CASE rtc.ticnt = 0
      BY <2>2, <3>2, Deadlines DEF NoTimer
    <3> QED BY <3>1, <3>2
  <2> QED BY <2>1, <2>3, <2>4 DEF TimersArmed, Armed
<1> QED BY <1>1, RtcInvariant, PTL

\* s3c2410_rtc_alarm: a second that matches rings before it is over, if it
\* began after the registers were last touched.
THEOREM AlarmRingsTheorem == RtcSpec => []AlarmRings
<1>1. RtcInv => AlarmRings
  <2> DEFINE last == SecondOf(now) - 1
  <2> SUFFICES ASSUME RtcInv, rtc.rtcalm.on, last * Second > settled,
                      Matches(rtc, last)
               PROVE  rung >= last
    BY DEF AlarmRings
  <2>1. /\ now \in Nat /\ now <= MaxTime /\ MaxTime \in Nat
        /\ settled \in Nat /\ Second \in Nat \ {0}
    BY Deadlines, RtcAssumption DEF RtcInv, TickInv, RtcTypeOK
  <2>2. /\ SecondOf(now) \in Nat /\ SecondOf(MaxTime) \in Nat
        /\ SecondOf(now) <= SecondOf(MaxTime)
    BY <2>1, SecondBounds, SecondsGoOn
  <2>3. last \in Int /\ last # -1
    <3>1. -1 * Second < 0 BY <2>1
    <3> QED BY <2>1, <2>2, <3>1
  <2>4. last \in Seconds BY <2>2, <2>3 DEF Seconds
  <2>5. SecondOf(now) <= SecondOf(timers.alarm) /\ SecondOf(timers.alarm) \in Nat
    BY AimAhead
  <2>6. last < SecondOf(timers.alarm) BY <2>2, <2>5
  <2>7. Begins(last) > settled BY DEF Begins
  <2> HIDE DEF last
  <2> QED BY <2>4, <2>6, <2>7 DEF RtcInv, AlarmInv, AlarmState
<1> QED BY <1>1, RtcInvariant, PTL

\* s3c2410_rtc_timeout: late passes lose no tick and add none.
THEOREM TicksKeepTimeTheorem == RtcSpec => []TicksKeepTime
<1>1. RtcInv => TicksKeepTime
  <2> SUFFICES ASSUME RtcInv, rtc.ticnt # 0
               PROVE  LET due == (now - begun) \div rtc.ticnt IN ticks \in {due - 1, due}
    BY DEF TicksKeepTime
  <2> DEFINE n == rtc.ticnt
             x == now - begun
  <2>1. /\ n \in Nat \ {0} /\ now \in Nat /\ ticks \in Nat /\ begun \in Nat
        /\ now <= expires + Late /\ expires = begun + (ticks + 1) * n
        /\ expires <= now + n /\ n \in Interval
    BY Deadlines DEF RtcInv, TickInv, RtcTypeOK, OnPhase
  <2>2. Late < n /\ Late \in Nat BY <2>1, RtcAssumption, TimelyAssumption
  <2>3. /\ x \in Int /\ ticks * n \in Nat /\ (ticks + 1) * n \in Nat
        /\ ticks * n + n = (ticks + 1) * n
    <3>1. x \in Int BY <2>1
    <3>2. ticks + 1 \in Nat /\ n \in Nat BY <2>1
    <3> HIDE DEF n, x
    <3> QED BY <2>1, <3>1, <3>2, OneMore
  <2>4. ticks * n <= x /\ x < (ticks + 1) * n + n
    BY <2>1, <2>2, <2>3
  <2> HIDE DEF n, x
  <2>5. CASE x < (ticks + 1) * n
    <3>1. x \div n = ticks BY <2>1, <2>3, <2>4, <2>5, Quotient
    <3> QED BY <3>1 DEF x, n
  <2>6. CASE ~(x < (ticks + 1) * n)
    <3>1. ticks + 1 \in Int /\ (ticks + 1) * n <= x BY <2>1, <2>3, <2>6
    <3>2. x \div n = ticks + 1 BY <2>1, <2>3, <2>4, <3>1, Quotient
    <3>3. ticks = x \div n - 1 BY <2>1, <3>2
    <3> QED BY <3>3 DEF x, n
  <2> QED BY <2>5, <2>6
<1> QED BY <1>1, RtcInvariant, PTL

\* s3c2410_rtc_alarm re-arms itself for the next second: none rings twice.
THEOREM OneRingPerSecondTheorem == RtcSpec => OneRingPerSecond
<1>1. RtcInv /\ [RtcNext]_rtcVars
        => [AlarmTimeout /\ rtc.rtcalm.on /\ Matches(rtc, SecondOf(now))
              => SecondOf(now) > rung]_rtcVars
  BY AlarmStep
<1> QED BY <1>1, RtcInvariant, PTL DEF RtcSpec, OneRingPerSecond
=============================================================================
