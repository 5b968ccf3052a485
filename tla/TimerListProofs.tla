-------------------------- MODULE TimerListProofs ---------------------------
(***************************************************************************)
(* Proofs about the timer list for any set of timers, any deadlines and    *)
(* any length of a run: it stays sorted and free of cycles, and it         *)
(* implements the queue of TimerQueue.                                     *)
(***************************************************************************)
EXTENDS TimerList, SequenceTheorems, FiniteSetTheorems, TLAPS

Injective(l) == \A i, j \in DOMAIN l : l[i] = l[j] => i = j
InOrder(l, exp) == \A i, j \in DOMAIN l : i < j => exp[l[i]] <= exp[l[j]]

-----------------------------------------------------------------------------
\* A walk along a list stops at the first place that stops it.
LEMMA FirstIndex ==
  ASSUME NEW n \in Nat, NEW T \in SUBSET (1..n), T # {}
  PROVE  \E k \in T : \A j \in T : k <= j
<1> DEFINE prefixes == {1..x : x \in T}
           R == StrictSubsetOrdering(1..n)
<1>1. IsFiniteSet(1..n) BY FS_Interval
<1>2. IsWellFoundedOn(R, FiniteSubsetsOf(1..n))
  BY FS_StrictSubsetOrderingWellFounded
<1>3. FiniteSubsetsOf(1..n) = SUBSET (1..n)
  BY <1>1, FS_FiniteSubsetsOfFinite
<1>4. /\ \A U \in prefixes : U \in SUBSET (1..n)
      /\ prefixes # {}
  <2>1. \A x \in T : 1..x \subseteq 1..n OBVIOUS
  <2> QED BY <2>1
<1> HIDE DEF R, prefixes
<1>5. \E U \in prefixes : \A V \in prefixes : <<V, U>> \notin R
  BY <1>2, <1>3, <1>4, WFMin
<1>6. PICK k \in T : \A V \in prefixes : <<V, 1..k>> \notin R
  BY <1>5 DEF prefixes
<1>7. ASSUME NEW j \in T, ~(k <= j) PROVE FALSE
  <2>1. 1..j \in prefixes BY DEF prefixes
  <2>2. 1..j \subseteq 1..k /\ k \in 1..k /\ k \notin 1..j BY <1>7
  <2>3. <<1..j, 1..k>> \in R
    BY <2>2 DEF R, StrictSubsetOrdering
  <2> QED BY <1>6, <2>1, <2>3
<1> QED BY <1>7

-----------------------------------------------------------------------------
(***************************************************************************)
(* Unlinking.                                                              *)
(***************************************************************************)
LEMMA UnlinkEffect ==
  ASSUME NEW l \in Seq(Timer), NEW t \in Linked(l)
  PROVE  \E k \in 1..Len(l) :
           /\ l[k] = t
           /\ Unlink(l, t) \in Seq(Timer)
           /\ Len(Unlink(l, t)) = Len(l) - 1
           /\ \A i \in 1..(Len(l) - 1) :
                Unlink(l, t)[i] = IF i < k THEN l[i] ELSE l[i + 1]
<1> DEFINE k == CHOOSE i \in DOMAIN l : l[i] = t
           a == SubSeq(l, 1, k - 1)
           b == SubSeq(l, k + 1, Len(l))
<1>1. k \in 1..Len(l) /\ l[k] = t BY DEF Linked
<1>2. Unlink(l, t) = a \o b BY DEF Unlink
<1> HIDE DEF k
<1>3. /\ a \in Seq(Timer) /\ Len(a) = k - 1
      /\ \A i \in 1..(k - 1) : a[i] = l[i]
  BY <1>1, SubSeqProperties
<1>4. /\ b \in Seq(Timer) /\ Len(b) = Len(l) - k
      /\ \A i \in 1..(Len(l) - k) : b[i] = l[k + i]
  BY <1>1, SubSeqProperties
<1> HIDE DEF a, b
<1>5. /\ a \o b \in Seq(Timer) /\ Len(a \o b) = Len(l) - 1
      /\ \A i \in 1..(Len(l) - 1) :
           (a \o b)[i] = IF i <= k - 1 THEN a[i] ELSE b[i - (k - 1)]
  <2>1. Len(l) \in Nat /\ Len(a) + Len(b) = Len(l) - 1 BY <1>1, <1>3, <1>4
  <2>2. /\ a \o b \in Seq(Timer) /\ Len(a \o b) = Len(a) + Len(b)
        /\ \A i \in 1..(Len(a) + Len(b)) :
             (a \o b)[i] = IF i <= Len(a) THEN a[i] ELSE b[i - Len(a)]
    BY <1>3, <1>4, ConcatProperties
  <2> QED BY <1>3, <2>1, <2>2
<1>6. ASSUME NEW i \in 1..(Len(l) - 1)
      PROVE (a \o b)[i] = IF i < k THEN l[i] ELSE l[i + 1]
  <2>1. CASE i < k BY <1>1, <1>3, <1>5, <2>1
  <2>2. CASE ~(i < k)
    <3>1. i - (k - 1) \in 1..(Len(l) - k) /\ k + (i - (k - 1)) = i + 1
      BY <1>1, <2>2
    <3> QED BY <1>1, <1>4, <1>5, <2>2, <3>1
  <2> QED BY <2>1, <2>2
<1> QED BY <1>1, <1>2, <1>5, <1>6

\* x49gp_del_timer takes its timer off and leaves the others as they are.
LEMMA UnlinkKeeps ==
  ASSUME NEW l \in Seq(Timer), Injective(l), NEW t
  PROVE  /\ Unlink(l, t) \in Seq(Timer)
         /\ Injective(Unlink(l, t))
         /\ Linked(Unlink(l, t)) = Linked(l) \ {t}
         /\ \A u, v : Ahead(Unlink(l, t), u, v) <=> Ahead(l, u, v) /\ u # t /\ v # t
         /\ \A exp : InOrder(l, exp) => InOrder(Unlink(l, t), exp)
<1>1. CASE t \notin Linked(l)
  BY <1>1 DEF Unlink, Ahead, Linked
<1>2. CASE t \in Linked(l)
  <2> DEFINE d == Unlink(l, t)
  <2>1. PICK k \in 1..Len(l) :
           /\ l[k] = t
           /\ d \in Seq(Timer)
           /\ Len(d) = Len(l) - 1
           /\ \A i \in 1..(Len(l) - 1) : d[i] = IF i < k THEN l[i] ELSE l[i + 1]
    BY <1>2, UnlinkEffect
  <2> HIDE DEF d
  <2>2. DOMAIN l = 1..Len(l) /\ DOMAIN d = 1..(Len(l) - 1) /\ Len(l) \in Nat
    BY <2>1
  <2>3. \A i \in DOMAIN d : i \in DOMAIN l /\ i + 1 \in DOMAIN l
    BY <2>2
  <2>4. ASSUME NEW j \in DOMAIN l, j # k
        PROVE  \E i \in DOMAIN d : d[i] = l[j] /\ i = IF j < k THEN j ELSE j - 1
    <3>1. CASE j < k BY <2>1, <2>2, <2>4, <3>1
    <3>2. CASE j > k
      <4>1. j - 1 \in DOMAIN d /\ ~(j - 1 < k) /\ (j - 1) + 1 = j BY <2>1, <2>2, <3>2
      <4> QED BY <2>1, <2>2, <3>2, <4>1
    <3> QED BY <2>1, <2>2, <2>4, <3>1, <3>2
  <2>5. Injective(d)
    BY <2>1, <2>2, <2>3 DEF Injective
  <2>6. \A i \in DOMAIN d : d[i] # t
    BY <2>1, <2>2, <2>3 DEF Injective
  <2>7. Linked(d) = Linked(l) \ {t}
    BY <2>1, <2>2, <2>3, <2>4, <2>6 DEF Linked
  <2>8. ASSUME NEW u, NEW v, Ahead(d, u, v) PROVE Ahead(l, u, v) /\ u # t /\ v # t
    <3>1. PICK i, j \in DOMAIN d : i < j /\ d[i] = u /\ d[j] = v BY <2>8 DEF Ahead
    <3>2. \E p, q \in DOMAIN l : p < q /\ l[p] = u /\ l[q] = v
      BY <2>1, <2>2, <2>3, <3>1
    <3> QED BY <2>6, <3>1, <3>2 DEF Ahead
  <2>9. ASSUME NEW u, NEW v, Ahead(l, u, v), u # t, v # t PROVE Ahead(d, u, v)
    <3>1. PICK i, j \in DOMAIN l : i < j /\ l[i] = u /\ l[j] = v BY <2>9 DEF Ahead
    <3>2. i # k /\ j # k BY <2>1, <2>9, <3>1
    <3>3. PICK p \in DOMAIN d : d[p] = u /\ p = IF i < k THEN i ELSE i - 1
      BY <2>4, <3>1, <3>2
    <3>4. PICK q \in DOMAIN d : d[q] = v /\ q = IF j < k THEN j ELSE j - 1
      BY <2>4, <3>1, <3>2
    <3>5. p < q BY <2>1, <2>2, <3>1, <3>2, <3>3, <3>4
    <3> QED BY <3>3, <3>4, <3>5 DEF Ahead
  <2>10. ASSUME NEW exp, InOrder(l, exp) PROVE InOrder(d, exp)
    <3> SUFFICES ASSUME NEW i \in DOMAIN d, NEW j \in DOMAIN d, i < j
                 PROVE  exp[d[i]] <= exp[d[j]]
      BY DEF InOrder
    <3>1. \E p, q \in DOMAIN l : p < q /\ l[p] = d[i] /\ l[q] = d[j]
      BY <2>1, <2>2, <2>3
    <3> QED BY <2>10, <3>1 DEF InOrder
  <2> QED BY <2>1, <2>5, <2>7, <2>8, <2>9, <2>10 DEF d
<1> QED BY <1>1, <1>2

\* x49gp_run_timers takes the timer it calls off the head of the list.
LEMMA TailUnlinks ==
  ASSUME NEW l \in Seq(Timer), Injective(l), l # <<>>
  PROVE  /\ Head(l) \in Linked(l) /\ Head(l) = l[1] /\ 1 \in DOMAIN l
         /\ Tail(l) = Unlink(l, Head(l))
<1>1. Head(l) = l[1] /\ 1 \in DOMAIN l /\ Head(l) \in Linked(l)
  BY DEF Linked
<1>2. PICK k \in 1..Len(l) :
         /\ l[k] = Head(l)
         /\ Unlink(l, Head(l)) \in Seq(Timer)
         /\ Len(Unlink(l, Head(l))) = Len(l) - 1
         /\ \A i \in 1..(Len(l) - 1) :
              Unlink(l, Head(l))[i] = IF i < k THEN l[i] ELSE l[i + 1]
  BY <1>1, UnlinkEffect
<1>3. k = 1 BY <1>1, <1>2 DEF Injective
<1>4. /\ Tail(l) \in Seq(Timer) /\ Len(Tail(l)) = Len(l) - 1
      /\ \A i \in 1..(Len(l) - 1) : Tail(l)[i] = l[i + 1]
  BY HeadTailProperties
<1> DEFINE d == Unlink(l, Head(l))
<1>5. /\ d \in Seq(Timer) /\ Len(d) = Len(l) - 1
      /\ \A i \in 1..(Len(l) - 1) : d[i] = IF i < k THEN l[i] ELSE l[i + 1]
  BY <1>2
<1> HIDE DEF d
<1>6. ASSUME NEW i \in 1..(Len(l) - 1) PROVE Tail(l)[i] = d[i]
  <2>1. ~(i < k) BY <1>3
  <2> QED BY <1>4, <1>5, <2>1
<1>7. Tail(l) = d BY <1>4, <1>5, <1>6, SeqEqual
<1> QED BY <1>1, <1>7 DEF d

-----------------------------------------------------------------------------
(***************************************************************************)
(* Inserting.                                                              *)
(***************************************************************************)
\* q is l with t at place k, in front of the first timer later than e.
PutAt(q, l, exp, t, e, k) ==
  /\ k <= Len(l) => exp[l[k]] > e
  /\ \A j \in 1..(k - 1) : exp[l[j]] <= e
  /\ q \in Seq(Timer)
  /\ Len(q) = Len(l) + 1
  /\ \A i \in 1..(Len(l) + 1) :
       q[i] = IF i < k THEN l[i] ELSE IF i = k THEN t ELSE l[i - 1]

\* Where the walk of x49gp_mod_timer puts its timer.
LEMMA InsertEffect ==
  ASSUME NEW l \in Seq(Timer), NEW exp \in [Timer -> Int], NEW t \in Timer, NEW e \in Int
  PROVE  \E k \in 1..(Len(l) + 1) : PutAt(Insert(l, exp, t, e), l, exp, t, e, k)
<1> DEFINE Stop(i) == /\ i <= Len(l) => exp[l[i]] > e
                      /\ \A j \in 1..(i - 1) : exp[l[j]] <= e
           T == {i \in 1..(Len(l) + 1) : i <= Len(l) => exp[l[i]] > e}
           k == CHOOSE i \in 1..(Len(l) + 1) : Stop(i)
           a == SubSeq(l, 1, k - 1)
           b == SubSeq(l, k, Len(l))
<1>1. Len(l) \in Nat /\ DOMAIN l = 1..Len(l) /\ \A i \in 1..Len(l) : exp[l[i]] \in Int
  OBVIOUS
<1>2. /\ Len(l) + 1 \in Nat /\ T \in SUBSET (1..(Len(l) + 1))
      /\ Len(l) + 1 \in T
  BY <1>1
<1>3. PICK i \in T : \A j \in T : i <= j
  <2> HIDE DEF T
  <2> QED BY <1>2, FirstIndex
<1>4. Stop(i)
  <2>1. ASSUME NEW j \in 1..(i - 1) PROVE exp[l[j]] <= e
    <3>1. j \notin T /\ j \in 1..Len(l) BY <1>1, <1>3
    <3> QED BY <1>1, <3>1
  <2> QED BY <1>3, <2>1
<1>5. k \in 1..(Len(l) + 1) /\ Stop(k) BY <1>3, <1>4
<1>6. Insert(l, exp, t, e) = (a \o <<t>>) \o b BY DEF Insert
<1> HIDE DEF k
<1>7. /\ a \in Seq(Timer) /\ Len(a) = k - 1
      /\ \A x \in 1..(k - 1) : a[x] = l[x]
  BY <1>1, <1>5, SubSeqProperties
<1>8. /\ b \in Seq(Timer) /\ Len(b) = Len(l) + 1 - k
      /\ \A x \in 1..(Len(l) + 1 - k) : b[x] = l[k + x - 1]
  <2>1. /\ k \in 1..(Len(l) + 1) /\ Len(l) \in (k - 1)..Len(l)
        /\ Len(l) - k + 1 = Len(l) + 1 - k
    BY <1>1, <1>5
  <2>2. /\ b \in Seq(Timer) /\ Len(b) = Len(l) - k + 1
        /\ \A x \in 1..(Len(l) - k + 1) : b[x] = l[k + x - 1]
    BY <2>1, SubSeqProperties
  <2> HIDE DEF b
  <2> QED BY <2>1, <2>2
<1> HIDE DEF a, b
<1> DEFINE c == a \o <<t>>
<1>9. /\ c \in Seq(Timer) /\ Len(c) = k
      /\ \A x \in 1..(k - 1) : c[x] = l[x]
      /\ c[k] = t
  <2>1. c = Append(a, t) BY <1>7
  <2> QED BY <1>5, <1>7, <2>1, AppendProperties
<1> HIDE DEF c
<1>10. /\ c \o b \in Seq(Timer) /\ Len(c \o b) = Len(l) + 1
       /\ \A x \in 1..(Len(l) + 1) :
            (c \o b)[x] = IF x <= k THEN c[x] ELSE b[x - k]
  <2>1. Len(c) + Len(b) = Len(l) + 1 BY <1>1, <1>5, <1>8, <1>9
  <2>2. /\ c \o b \in Seq(Timer) /\ Len(c \o b) = Len(c) + Len(b)
        /\ \A x \in 1..(Len(c) + Len(b)) :
             (c \o b)[x] = IF x <= Len(c) THEN c[x] ELSE b[x - Len(c)]
    BY <1>8, <1>9, ConcatProperties
  <2> QED BY <1>9, <2>1, <2>2
<1>11. ASSUME NEW x \in 1..(Len(l) + 1)
       PROVE (c \o b)[x] = IF x < k THEN l[x] ELSE IF x = k THEN t ELSE l[x - 1]
  <2>1. CASE x <= k BY <1>5, <1>9, <1>10, <2>1
  <2>2. CASE ~(x <= k)
    <3>1. /\ x - k \in 1..(Len(l) + 1 - k) /\ k + (x - k) - 1 = x - 1
          /\ ~(x < k) /\ x # k
      BY <1>1, <1>5, <2>2
    <3>2. (c \o b)[x] = b[x - k] BY <1>10, <2>2
    <3>3. b[x - k] = l[x - 1] BY <1>8, <3>1
    <3> QED BY <3>1, <3>2, <3>3
  <2> QED BY <2>1, <2>2
<1>12. Insert(l, exp, t, e) = c \o b BY <1>6 DEF c
<1> QED BY <1>5, <1>10, <1>11, <1>12 DEF PutAt

\* Making room at place k keeps what is behind and before what.
Moved(x, k) == IF x < k THEN x ELSE x + 1
LEMMA RoomKeepsOrder ==
  \A k \in Int, x \in Int, y \in Int : Moved(x, k) < Moved(y, k) <=> x < y
BY DEF Moved

\* The list x49gp_mod_timer makes of one that does not hold the timer.
LEMMA InsertKeeps ==
  ASSUME NEW l \in Seq(Timer), NEW exp \in [Timer -> Int], NEW t \in Timer, NEW e \in Int,
         Injective(l), InOrder(l, exp), t \notin Linked(l)
  PROVE  LET q == Insert(l, exp, t, e) IN
         /\ q \in Seq(Timer)
         /\ Injective(q)
         /\ Linked(q) = Linked(l) \cup {t}
         /\ InOrder(q, [exp EXCEPT ![t] = e])
         /\ \A u, v : Ahead(q, u, v) <=>
              \/ Ahead(l, u, v)
              \/ v = t /\ u \in Linked(l) /\ exp[u] <= e
              \/ u = t /\ v \in Linked(l) /\ exp[v] > e
<1> DEFINE q == Insert(l, exp, t, e)
           new == [exp EXCEPT ![t] = e]
<1>0. PICK k \in 1..(Len(l) + 1) : PutAt(q, l, exp, t, e, k)
  BY InsertEffect
<1> HIDE DEF q
<1>1. /\ k <= Len(l) => exp[l[k]] > e
      /\ \A j \in 1..(k - 1) : exp[l[j]] <= e
      /\ q \in Seq(Timer)
      /\ Len(q) = Len(l) + 1
      /\ \A i \in 1..(Len(l) + 1) :
           q[i] = IF i < k THEN l[i] ELSE IF i = k THEN t ELSE l[i - 1]
  BY <1>0 DEF PutAt
<1>2. /\ DOMAIN l = 1..Len(l) /\ DOMAIN q = 1..(Len(l) + 1) /\ Len(l) \in Nat
      /\ \A i \in DOMAIN l : l[i] \in Timer /\ exp[l[i]] \in Int
  BY <1>1
<1>3. /\ new[t] = e
      /\ \A i \in DOMAIN l : l[i] # t /\ l[i] \in Linked(l) /\ new[l[i]] = exp[l[i]]
  BY <1>2 DEF Linked
<1> HIDE DEF new
<1>4. \A j \in DOMAIN l : (j < k => exp[l[j]] <= e) /\ (j >= k => exp[l[j]] > e)
  <2> SUFFICES ASSUME NEW j \in DOMAIN l, j >= k PROVE exp[l[j]] > e
    BY <1>1, <1>2
  <2>1. k \in DOMAIN l /\ exp[l[k]] > e BY <1>1, <1>2
  <2>2. k = j \/ exp[l[k]] <= exp[l[j]] BY <1>2, <2>1 DEF InOrder
  <2> QED BY <1>2, <2>1, <2>2
\* Where the places of the new list come from.
<1>5. ASSUME NEW i \in DOMAIN q
      PROVE  \/ i < k /\ i \in DOMAIN l /\ q[i] = l[i]
             \/ i = k /\ q[i] = t
             \/ i > k /\ i - 1 \in DOMAIN l /\ i - 1 >= k /\ q[i] = l[i - 1]
  <2>1. CASE i < k BY <1>1, <1>2, <2>1
  <2>2. CASE i = k BY <1>1, <1>2, <2>2
  <2>3. CASE i > k
    <3>1. i - 1 \in DOMAIN l /\ i - 1 >= k /\ ~(i < k) /\ i # k BY <1>1, <1>2, <2>3
    <3>2. q[i] = l[i - 1] BY <1>1, <1>2, <3>1
    <3> QED BY <2>3, <3>1, <3>2
  <2> QED BY <1>2, <2>1, <2>2, <2>3
<1>15. \A i \in DOMAIN q :
         i # k => \E x \in DOMAIN l : q[i] = l[x] /\ i = Moved(x, k)
  <2> SUFFICES ASSUME NEW i \in DOMAIN q, i # k
               PROVE  \E x \in DOMAIN l : q[i] = l[x] /\ i = Moved(x, k)
    OBVIOUS
  <2>1. CASE i < k BY <1>5, <1>2, <2>1 DEF Moved
  <2>2. CASE i > k
    <3>1. i - 1 \in DOMAIN l /\ q[i] = l[i - 1] /\ ~(i - 1 < k) /\ i = (i - 1) + 1
      BY <1>2, <1>5, <2>2
    <3> QED BY <3>1 DEF Moved
  <2> QED BY <1>2, <2>1, <2>2
<1>6. ASSUME NEW j \in DOMAIN l
      PROVE  \E i \in DOMAIN q : q[i] = l[j] /\ i = Moved(j, k)
  <2>1. CASE j < k BY <1>1, <1>2, <2>1 DEF Moved
  <2>2. CASE j >= k
    <3>1. j \in 1..Len(l) /\ k \in Int /\ Len(l) \in Nat BY <1>2
    <3>2. /\ j + 1 \in 1..(Len(l) + 1) /\ ~(j + 1 < k) /\ j + 1 # k
          /\ (j + 1) - 1 = j /\ ~(j < k)
      BY <2>2, <3>1
    <3>3. q[j + 1] = l[j] BY <1>1, <3>2
    <3> QED BY <1>2, <3>2, <3>3 DEF Moved
  <2> QED BY <1>1, <1>2, <2>1, <2>2
<1>7. k \in DOMAIN q /\ q[k] = t BY <1>1, <1>2
<1>8. Injective(q)
  <2> SUFFICES ASSUME NEW i \in DOMAIN q, NEW j \in DOMAIN q, q[i] = q[j] PROVE i = j
    BY DEF Injective
  <2>1. CASE q[i] = t
    <3>1. \A x \in DOMAIN q : q[x] = t => x = k BY <1>3, <1>5
    <3> QED BY <2>1, <3>1
  <2>2. CASE q[i] # t
    <3>1. PICK x \in DOMAIN l : q[i] = l[x] /\ i = Moved(x, k)
      BY <1>7, <1>15, <2>2
    <3>2. j # k BY <1>7, <2>2
    <3>4. PICK y \in DOMAIN l : q[j] = l[y] /\ j = Moved(y, k)
      BY <1>15, <3>2
    <3>3. x = y BY <3>1, <3>4 DEF Injective
    <3> QED BY <3>1, <3>3, <3>4
  <2> QED BY <2>1, <2>2
<1>9. Linked(q) = Linked(l) \cup {t}
  BY <1>5, <1>6, <1>7 DEF Linked
<1>10. InOrder(q, new)
  <2> SUFFICES ASSUME NEW i \in DOMAIN q, NEW j \in DOMAIN q, i < j
               PROVE  new[q[i]] <= new[q[j]]
    BY DEF InOrder
  <2>1. CASE i = k
    <3>1. j - 1 \in DOMAIN l /\ j - 1 >= k /\ q[j] = l[j - 1]
      BY <1>1, <1>2, <1>5, <2>1
    <3> QED BY <1>2, <1>3, <1>4, <1>7, <2>1, <3>1
  <2>2. CASE j = k
    <3>1. i \in DOMAIN l /\ i < k /\ q[i] = l[i]
      BY <1>1, <1>2, <1>5, <2>2
    <3> QED BY <1>2, <1>3, <1>4, <1>7, <2>2, <3>1
  <2>3. CASE i # k /\ j # k
    <3>1. PICK x \in DOMAIN l : q[i] = l[x] /\ i = Moved(x, k)
      BY <1>15, <2>3
    <3>2. PICK y \in DOMAIN l : q[j] = l[y] /\ j = Moved(y, k)
      BY <1>15, <2>3
    <3>3. x \in Int /\ y \in Int /\ k \in Int BY <1>2
    <3>4. x < y BY <3>1, <3>2, <3>3, RoomKeepsOrder
    <3> QED BY <1>3, <3>1, <3>2, <3>4 DEF InOrder
  <2> QED BY <2>1, <2>2, <2>3
<1>11. ASSUME NEW u, NEW v, Ahead(q, u, v)
       PROVE  \/ Ahead(l, u, v)
              \/ v = t /\ u \in Linked(l) /\ exp[u] <= e
              \/ u = t /\ v \in Linked(l) /\ exp[v] > e
  <2>1. PICK i, j \in DOMAIN q : i < j /\ q[i] = u /\ q[j] = v BY <1>11 DEF Ahead
  <2>2. CASE i = k
    BY <1>1, <1>2, <1>3, <1>4, <1>5, <2>1, <2>2
  <2>3. CASE j = k
    BY <1>1, <1>2, <1>3, <1>4, <1>5, <2>1, <2>3
  <2>4. CASE i # k /\ j # k
    <3>1. PICK x \in DOMAIN l : q[i] = l[x] /\ i = Moved(x, k)
      BY <1>15, <2>4
    <3>2. PICK y \in DOMAIN l : q[j] = l[y] /\ j = Moved(y, k)
      BY <1>15, <2>4
    <3>3. x \in Int /\ y \in Int /\ k \in Int BY <1>2
    <3>4. x < y BY <2>1, <3>1, <3>2, <3>3, RoomKeepsOrder
    <3> QED BY <2>1, <3>1, <3>2, <3>4 DEF Ahead
  <2> QED BY <2>2, <2>3, <2>4
<1>12. ASSUME NEW u, NEW v, Ahead(l, u, v) PROVE Ahead(q, u, v)
  <2>1. PICK x, y \in DOMAIN l : x < y /\ l[x] = u /\ l[y] = v BY <1>12 DEF Ahead
  <2>2. PICK i \in DOMAIN q : q[i] = u /\ i = Moved(x, k) BY <1>6, <2>1
  <2>3. PICK j \in DOMAIN q : q[j] = v /\ j = Moved(y, k) BY <1>6, <2>1
  <2>4. x \in Int /\ y \in Int /\ k \in Int BY <1>2
  <2>5. i < j BY <2>1, <2>2, <2>3, <2>4, RoomKeepsOrder
  <2> QED BY <2>2, <2>3, <2>5 DEF Ahead
<1>13. ASSUME NEW u \in Linked(l), exp[u] <= e PROVE Ahead(q, u, t)
  <2>1. PICK x \in DOMAIN l : l[x] = u BY DEF Linked
  <2>2. x < k
    <3>1. x \in Int /\ k \in Int /\ exp[l[x]] \in Int BY <1>2
    <3>2. exp[l[x]] <= e BY <1>13, <2>1
    <3>3. x >= k => exp[l[x]] > e BY <1>4
    <3> QED BY <3>1, <3>2, <3>3
  <2>3. PICK i \in DOMAIN q : q[i] = u /\ i = x BY <1>6, <2>1, <2>2 DEF Moved
  <2> QED BY <1>7, <2>2, <2>3 DEF Ahead
<1>14. ASSUME NEW v \in Linked(l), exp[v] > e PROVE Ahead(q, t, v)
  <2>1. PICK x \in DOMAIN l : l[x] = v BY DEF Linked
  <2>2. x >= k BY <1>1, <1>2, <1>4, <1>14, <2>1
  <2>3. PICK i \in DOMAIN q : q[i] = v /\ i = x + 1
    BY <1>1, <1>2, <1>6, <2>1, <2>2 DEF Moved
  <2>4. k < i BY <1>1, <1>2, <2>2, <2>3
  <2> QED BY <1>7, <2>3, <2>4 DEF Ahead
<1> QED BY <1>1, <1>8, <1>9, <1>10, <1>11, <1>12, <1>13, <1>14 DEF q, new

-----------------------------------------------------------------------------
(***************************************************************************)
(* The invariant: the types, the list without cycles and in order.  The    *)
(* order needs the other two, since a timer linked twice would change its  *)
(* deadline at both places.                                                *)
(***************************************************************************)
ListInv == ListTypes /\ Injective(list) /\ InOrder(list, expires)

\* The first timer of the list is due before the others.
LEMMA HeadIsFirst ==
  ASSUME ListInv, list # <<>>
  PROVE  /\ Head(list) \in Linked(list) /\ Head(list) \in Timer
         /\ \A u \in Linked(list) : /\ expires[Head(list)] <= expires[u]
                                    /\ ~Ahead(list, u, Head(list))
<1>1. list \in Seq(Timer) /\ expires \in [Timer -> Int] BY DEF ListInv, ListTypes
<1>2. Head(list) \in Linked(list) /\ Head(list) = list[1] /\ 1 \in DOMAIN list
  BY <1>1, TailUnlinks DEF ListInv
<1>3. DOMAIN list = 1..Len(list) /\ \A i \in DOMAIN list : expires[list[i]] \in Int
  BY <1>1
<1>4. ASSUME NEW u \in Linked(list) PROVE expires[Head(list)] <= expires[u]
  <2>1. PICK i \in DOMAIN list : list[i] = u BY DEF Linked
  <2>2. i = 1 \/ 1 < i BY <1>3
  <2> QED BY <1>2, <1>3, <2>1, <2>2 DEF ListInv, InOrder
<1>5. ASSUME NEW u, Ahead(list, u, Head(list)) PROVE FALSE
  <2>1. PICK i, j \in DOMAIN list : i < j /\ list[j] = Head(list) BY <1>5 DEF Ahead
  <2>2. j = 1 BY <1>2, <2>1 DEF ListInv, Injective
  <2> QED BY <1>3, <2>1, <2>2
<1> QED BY <1>1, <1>2, <1>3, <1>4, <1>5

\* What x49gp_mod_timer leaves, in terms of the list it found.
LEMMA ArmEffect ==
  ASSUME ListInv, NEW t \in Timer, NEW e \in Int
  PROVE  LET q == Insert(Unlink(list, t), expires, t, e)
             new == [expires EXCEPT ![t] = e]
         IN
         /\ q \in Seq(Timer) /\ new \in [Timer -> Int]
         /\ Injective(q) /\ InOrder(q, new)
         /\ Linked(q) = Linked(list) \cup {t}
         /\ \A u, v : Ahead(q, u, v) <=>
              \/ Ahead(list, u, v) /\ u # t /\ v # t
              \/ v = t /\ u \in Linked(list) \ {t} /\ expires[u] <= e
              \/ u = t /\ v \in Linked(list) \ {t} /\ expires[v] > e
<1> DEFINE d == Unlink(list, t)
           q == Insert(d, expires, t, e)
<1>1. list \in Seq(Timer) /\ expires \in [Timer -> Int] /\ Injective(list) /\ InOrder(list, expires)
  BY DEF ListInv, ListTypes
<1>2. /\ d \in Seq(Timer) /\ Injective(d)
      /\ Linked(d) = Linked(list) \ {t}
      /\ \A u, v : Ahead(d, u, v) <=> Ahead(list, u, v) /\ u # t /\ v # t
      /\ InOrder(d, expires)
  BY <1>1, UnlinkKeeps
<1> HIDE DEF d
<1>3. /\ q \in Seq(Timer)
      /\ Injective(q)
      /\ Linked(q) = Linked(d) \cup {t}
      /\ InOrder(q, [expires EXCEPT ![t] = e])
      /\ \A u, v : Ahead(q, u, v) <=>
           \/ Ahead(d, u, v)
           \/ v = t /\ u \in Linked(d) /\ expires[u] <= e
           \/ u = t /\ v \in Linked(d) /\ expires[v] > e
  BY <1>1, <1>2, InsertKeeps
<1> HIDE DEF q
<1>4. [expires EXCEPT ![t] = e] \in [Timer -> Int] BY <1>1
<1> QED BY <1>2, <1>3, <1>4 DEF q, d

LEMMA ListInvInductive == ListInv /\ [Next]_vars => ListInv'
<1> SUFFICES ASSUME ListInv, [Next]_vars PROVE ListInv' OBVIOUS
<1> USE TimerAssumption
<1>1. /\ list \in Seq(Timer) /\ expires \in [Timer -> Int] /\ now \in 0..MaxTime
      /\ limit \in (0..MaxTime) \cup {NoPass} /\ limit <= now
      /\ calling \in Timer \cup {NoTimer} /\ (calling # NoTimer => limit # NoPass)
      /\ Injective(list) /\ InOrder(list, expires)
  BY DEF ListInv, ListTypes
<1>2. CASE Mod
  <2>1. PICK t \in Timer, dl \in Delays :
           /\ list' = Insert(Unlink(list, t), expires, t, now + dl)
           /\ expires' = [expires EXCEPT ![t] = now + dl]
           /\ UNCHANGED <<now, limit, calling>>
    BY <1>2 DEF Mod
  <2>2. now + dl \in Int BY <1>1
  <2>3. /\ list' \in Seq(Timer) /\ expires' \in [Timer -> Int]
        /\ Injective(list') /\ InOrder(list', expires')
    BY <2>1, <2>2, ArmEffect
  <2> QED BY <1>1, <2>1, <2>3 DEF ListInv, ListTypes
<1>3. CASE Del
  <2>1. PICK t \in Timer : list' = Unlink(list, t) /\ UNCHANGED <<expires, now, limit, calling>>
    BY <1>3 DEF Del
  <2>2. list' \in Seq(Timer) /\ Injective(list') /\ InOrder(list', expires)
    BY <1>1, <2>1, UnlinkKeeps
  <2> QED BY <1>1, <2>1, <2>2 DEF ListInv, ListTypes
<1>4. CASE RunTimers BY <1>1, <1>4 DEF RunTimers, ListInv, ListTypes, NoPass
<1>5. CASE Call
  <2>1. /\ list # <<>> /\ limit # NoPass
        /\ list' = Tail(list) /\ calling' = Head(list) /\ UNCHANGED <<expires, now, limit>>
    BY <1>5 DEF Call
  <2>2. list' = Unlink(list, Head(list)) BY <1>1, <2>1, TailUnlinks
  <2>3. list' \in Seq(Timer) /\ Injective(list') /\ InOrder(list', expires)
    BY <1>1, <2>2, UnlinkKeeps
  <2>4. Head(list) \in Timer BY <2>1, HeadIsFirst
  <2> QED BY <1>1, <2>1, <2>3, <2>4 DEF ListInv, ListTypes
<1>6. CASE Return BY <1>1, <1>6 DEF Return, ListInv, ListTypes
<1>7. CASE Done BY <1>1, <1>7 DEF Done, ListInv, ListTypes, NoPass
<1>8. CASE Tick BY <1>1, <1>8 DEF Tick, ListInv, ListTypes, NoPass
<1>9. CASE UNCHANGED vars BY <1>1, <1>9 DEF vars, ListInv, ListTypes
<1> QED BY <1>2, <1>3, <1>4, <1>5, <1>6, <1>7, <1>8, <1>9 DEF Next

LEMMA ListInvHolds == Spec => []ListInv
<1>1. Init => ListInv
  BY TimerAssumption DEF Init, ListInv, ListTypes, Injective, InOrder, NoPass
<1> QED BY <1>1, ListInvInductive, PTL DEF Spec

\* The list, the deadlines and the pass over them keep their types: for one,
\* no callback runs outside a pass.
THEOREM TimerTypeCorrect == Spec => []TypeOK
<1>1. ListInv => TypeOK BY DEF ListInv, TypeOK, NoCycle, Injective
<1> QED BY <1>1, ListInvHolds, PTL

\* Whatever callbacks and callers arm and remove, the list stays in order.
THEOREM SortedTheorem == Spec => []Sorted
<1>1. ListInv => Sorted BY DEF ListInv, Sorted, InOrder
<1> QED BY <1>1, ListInvHolds, PTL

\* The look at the head of the list that the alarm takes is enough.
THEOREM AlarmSeesDueTheorem == Spec => []AlarmSeesDue
<1>1. ListInv => AlarmSeesDue
  <2> SUFFICES ASSUME ListInv, NEW t \in Timer, Due(t) PROVE expires[Head(list)] <= now
    BY DEF AlarmSeesDue
  <2>1. t \in Linked(list) /\ expires[t] <= now BY DEF Due
  <2>2. list # <<>> BY <2>1 DEF Linked
  <2>3. expires[Head(list)] <= expires[t] /\ Head(list) \in Timer BY <2>1, <2>2, HeadIsFirst
  <2> QED BY <2>1, <2>3 DEF ListInv, ListTypes
<1> QED BY <1>1, ListInvHolds, PTL

-----------------------------------------------------------------------------
(***************************************************************************)
(* The list implements the queue.                                          *)
(***************************************************************************)
LEMMA ArmArms ==
  ASSUME ListInv, NEW t \in Timer, NEW e \in Int,
         list' = Insert(Unlink(list, t), expires, t, e),
         expires' = [expires EXCEPT ![t] = e],
         UNCHANGED <<now, limit>>
  PROVE  Queue!Arm(t, e)
<1>1. expires \in [Timer -> Int] /\ Linked(list) \subseteq Timer
  BY DEF ListInv, ListTypes, Linked
<1>2. /\ Linked(list') = Linked(list) \cup {t}
      /\ \A u, v : Ahead(list', u, v) <=>
           \/ Ahead(list, u, v) /\ u # t /\ v # t
           \/ v = t /\ u \in Linked(list) \ {t} /\ expires[u] <= e
           \/ u = t /\ v \in Linked(list) \ {t} /\ expires[v] > e
  BY ArmEffect
<1>3. \A u \in Linked(list') : expires'[u] = IF u = t THEN e ELSE expires[u]
  BY <1>1, <1>2
<1>4. DOMAIN deadline = Linked(list) BY DEF deadline
<1>5. deadline' = [u \in Linked(list) \cup {t} |-> IF u = t THEN e ELSE deadline[u]]
  BY <1>2, <1>3 DEF deadline
<1> DEFINE kept == {p \in before : t \notin {p[1], p[2]}}
           added == {<<u, t>> : u \in {v \in Linked(list) \ {t} : deadline[v] = e}}
<1>6. ASSUME NEW u \in Linked(list'), NEW v \in Linked(list')
      PROVE  <<u, v>> \in before' <=> <<u, v>> \in kept \cup added
  <2>1. <<u, v>> \in before' <=> expires'[u] = expires'[v] /\ Ahead(list', u, v)
    BY DEF before
  <2>2. CASE u # t /\ v # t
    <3>1. u \in Linked(list) /\ v \in Linked(list) BY <1>2, <2>2
    <3>2. <<u, v>> \in kept <=> expires[u] = expires[v] /\ Ahead(list, u, v)
      BY <2>2, <3>1 DEF before
    <3>3. <<u, v>> \notin added BY <2>2
    <3> QED BY <1>2, <1>3, <2>1, <2>2, <3>1, <3>2, <3>3
  <2>3. CASE v = t
    <3>1. <<u, v>> \notin kept BY <2>3
    <3>2. <<u, v>> \in added <=> u \in Linked(list) \ {t} /\ expires[u] = e
      BY <2>3 DEF deadline
    <3>3. Ahead(list', u, v) <=> u \in Linked(list) \ {t} /\ expires[u] <= e
      BY <1>2, <2>3
    <3>4. expires'[v] = e /\ (u # t => expires'[u] = expires[u]) BY <1>3, <2>3
    <3> HIDE DEF kept, added
    <3>5. expires[u] = e => expires[u] <= e OBVIOUS
    <3> QED BY <2>1, <3>1, <3>2, <3>3, <3>4, <3>5
  <2>4. CASE u = t /\ v # t
    <3>1. <<u, v>> \notin kept /\ <<u, v>> \notin added BY <2>4
    <3>2. Ahead(list', u, v) => expires[v] > e BY <1>2, <2>4
    <3>3. expires'[u] = e /\ expires'[v] = expires[v] /\ v \in Timer
      BY <1>1, <1>2, <1>3, <2>4
    <3>4. expires[v] \in Int BY <1>1, <3>3
    <3> HIDE DEF kept, added
    <3> QED BY <2>1, <3>1, <3>2, <3>3, <3>4
  <2> QED BY <2>2, <2>3, <2>4
<1>7. before' = kept \cup added
  <2>1. before' \subseteq Linked(list') \X Linked(list') BY DEF before
  <2>2. kept \subseteq Linked(list') \X Linked(list') BY <1>2 DEF before
  <2>3. added \subseteq Linked(list') \X Linked(list') BY <1>2
  <2> HIDE DEF kept, added
  <2> QED BY <1>6, <2>1, <2>2, <2>3
<1> QED BY <1>4, <1>5, <1>7 DEF Queue!Arm, Queue!Armed, Queue!Without

LEMMA UnlinkRemoves ==
  ASSUME ListInv, NEW t,
         list' = Unlink(list, t), UNCHANGED <<expires, now, limit>>
  PROVE  Queue!Remove(t)
<1>1. /\ Linked(list') = Linked(list) \ {t}
      /\ \A u, v : Ahead(list', u, v) <=> Ahead(list, u, v) /\ u # t /\ v # t
  BY UnlinkKeeps DEF ListInv, ListTypes
<1>2. DOMAIN deadline = Linked(list) BY DEF deadline
<1>3. deadline' = [u \in Linked(list) \ {t} |-> deadline[u]]
  BY <1>1 DEF deadline
<1>4. before' = {p \in before : t \notin {p[1], p[2]}}
  <2>1. ASSUME NEW u, NEW v
        PROVE  <<u, v>> \in before' <=> <<u, v>> \in before /\ u # t /\ v # t
    BY <1>1 DEF before
  <2>2. before' \subseteq Linked(list) \X Linked(list) BY <1>1 DEF before
  <2>3. before \subseteq Linked(list) \X Linked(list) BY DEF before
  <2> QED BY <2>1, <2>2, <2>3
<1> QED BY <1>2, <1>3, <1>4 DEF Queue!Remove, Queue!Armed, Queue!Without

LEMMA StepIsQueueStep ==
  ListInv /\ [Next]_vars => [Queue!QueueNext]_(Queue!queueVars)
<1> SUFFICES ASSUME ListInv, [Next]_vars
             PROVE  Queue!QueueNext \/ UNCHANGED <<deadline, before, now, limit>>
  BY DEF Queue!queueVars
<1> USE DEF Queue!QueueNext
<1>1. /\ expires \in [Timer -> Int] /\ now \in 0..MaxTime
      /\ limit \in (0..MaxTime) \cup {NoPass} /\ Linked(list) \subseteq Timer
  BY DEF ListInv, ListTypes, Linked
<1>2. CASE Mod
  <2>1. PICK t \in Timer, dl \in Delays :
           /\ list' = Insert(Unlink(list, t), expires, t, now + dl)
           /\ expires' = [expires EXCEPT ![t] = now + dl]
           /\ UNCHANGED <<now, limit, calling>>
    BY <1>2 DEF Mod
  <2>2. now + dl \in Deadline /\ now + dl \in Int
    BY <1>1, TimerAssumption DEF Deadline
  <2>3. Queue!Arm(t, now + dl) BY <2>1, <2>2, ArmArms
  <2> QED BY <2>2, <2>3
<1>3. CASE Del
  <2>1. PICK t \in Timer : list' = Unlink(list, t) /\ UNCHANGED <<expires, now, limit, calling>>
    BY <1>3 DEF Del
  <2>2. Queue!Remove(t) BY <2>1, UnlinkRemoves
  <2> QED BY <2>2
<1>4. CASE RunTimers
  BY <1>4 DEF RunTimers, Queue!BeginPass, deadline, before, NoPass, Queue!NoPass
<1>5. CASE Call
  <2> DEFINE t == Head(list)
  <2>1. /\ list # <<>> /\ limit # NoPass /\ expires[t] <= limit
        /\ list' = Tail(list) /\ UNCHANGED <<expires, now, limit>>
    BY <1>5 DEF Call
  <2>2. list' = Unlink(list, t) BY <2>1, TailUnlinks DEF ListInv, ListTypes
  <2>3. /\ t \in Linked(list) /\ t \in Timer
        /\ \A u \in Linked(list) : expires[t] <= expires[u] /\ ~Ahead(list, u, t)
    BY <2>1, HeadIsFirst
  <2> HIDE DEF t
  <2>4. Queue!Remove(t) BY <2>1, <2>2, UnlinkRemoves
  <2>5. DOMAIN deadline = Linked(list) /\ \A u \in Linked(list) : deadline[u] = expires[u]
    BY DEF deadline
  <2>6. \A u \in Linked(list) : <<u, t>> \notin before BY <2>3 DEF before
  <2>7. Queue!Fire(t)
    BY <2>1, <2>3, <2>4, <2>5, <2>6 DEF Queue!Fire, Queue!Armed, NoPass, Queue!NoPass
  <2> QED BY <2>3, <2>7
<1>6. CASE Return BY <1>6 DEF Return, deadline, before
<1>7. CASE Done
  <2>1. limit' = NoPass /\ UNCHANGED <<list, expires, now>> BY <1>7 DEF Done
  <2>2. ASSUME NEW u \in Linked(list) PROVE deadline[u] > limit
    <3>1. list # <<>> BY <2>2 DEF Linked
    <3>2. expires[Head(list)] > limit BY <1>7, <3>1 DEF Done
    <3>3. expires[Head(list)] <= expires[u] /\ Head(list) \in Timer
      BY <2>2, <3>1, HeadIsFirst
    <3>4. expires[Head(list)] \in Int /\ expires[u] \in Int /\ limit \in Int
      BY <1>1, <2>2, <3>3, TimerAssumption DEF NoPass
    <3> QED BY <3>2, <3>3, <3>4 DEF deadline
  <2>3. DOMAIN deadline = Linked(list) BY DEF deadline
  <2>4. UNCHANGED <<deadline, before>> BY <2>1 DEF deadline, before
  <2>5. Queue!EndPass
    BY <2>1, <2>2, <2>3, <2>4 DEF Queue!EndPass, Queue!Armed, NoPass, Queue!NoPass
  <2> QED BY <2>5
<1>8. CASE Tick
  <2>1. now' > now /\ UNCHANGED <<list, expires, limit>> BY <1>1, <1>8, TimerAssumption DEF Tick
  <2>2. UNCHANGED <<deadline, before>> BY <2>1 DEF deadline, before
  <2> QED BY <2>1, <2>2 DEF Queue!ClockAdvances
<1>9. CASE UNCHANGED vars BY <1>9 DEF vars, deadline, before
<1> QED BY <1>2, <1>3, <1>4, <1>5, <1>6, <1>7, <1>8, <1>9 DEF Next

\* The linked list of timer.c, with passes whose callbacks arm and remove
\* timers, is a queue that fires in the order of the deadlines and, among
\* equal ones, in the order of arming.
THEOREM TimerListImplementsQueue == Spec => QueueSpec
<1>1. Init => Queue!QueueInit
  <2> SUFFICES ASSUME Init PROVE Queue!QueueInit OBVIOUS
  <2>1. Linked(list) = {} BY DEF Init, Linked
  <2>2. deadline = [t \in {} |-> 0] BY <2>1 DEF deadline
  <2>3. before = {} BY <2>1 DEF before
  <2> QED BY <2>2, <2>3 DEF Init, Queue!QueueInit, NoPass, Queue!NoPass
<1> QED BY <1>1, ListInvHolds, StepIsQueueStep, PTL DEF Spec, QueueSpec, Queue!QueueSpec

-----------------------------------------------------------------------------
(***************************************************************************)
(* What DueTimersFire rests on: the timers ahead of a due one only become  *)
(* fewer, and every call makes them fewer or is its own.                   *)
(***************************************************************************)
\* The list's order, read from the deadlines.
LEMMA EarlierIsAhead ==
  ASSUME ListInv, NEW t \in Linked(list), NEW u \in Linked(list),
         expires[u] < expires[t]
  PROVE  Ahead(list, u, t)
<1>1. list \in Seq(Timer) /\ expires \in [Timer -> Int] BY DEF ListInv, ListTypes
<1>2. PICK i \in DOMAIN list : list[i] = u BY DEF Linked
<1>3. PICK j \in DOMAIN list : list[j] = t BY DEF Linked
<1>4. i \in Int /\ j \in Int /\ expires[u] \in Int /\ expires[t] \in Int
  BY <1>1, <1>2, <1>3
<1>5. ~ j < i
  <2> SUFFICES ASSUME j < i PROVE FALSE OBVIOUS
  <2>1. expires[list[j]] <= expires[list[i]] BY DEF ListInv, InOrder
  <2> QED BY <1>2, <1>3, <1>4, <2>1
<1>6. i # j BY <1>2, <1>3, <1>4
<1>7. i < j BY <1>4, <1>5, <1>6
<1> QED BY <1>2, <1>3, <1>7 DEF Ahead

\* While timers are armed for times to come only, nothing gets ahead of a due
\* timer in x49gp_mod_timer's walk, unless that timer itself is armed again.
DueKeepsItsPlace ==
  [][ \A t, u \in Timer :
        ArmedAhead /\ Due(t) /\ Ahead(list', u, t) /\ ~Ahead(list, u, t)
          => \E d \in Delays : list' = Insert(Unlink(list, t), expires, t, now + d) ]_vars

\* Every call of a pass is that of a due timer itself, or of one ahead of it.
CallsTakeTurns ==
  [][ Call => \A t \in Timer :
        Due(t) => \/ calling' = t
                  \/ Ahead(list, calling', t) /\ ~Ahead(list', calling', t) ]_vars

\* The first half of the argument for DueTimersFire: a due timer's way to the
\* head of the list does not grow.
THEOREM DueKeepsItsPlaceTheorem == Spec => DueKeepsItsPlace
<1> DEFINE A == \A t, u \in Timer :
                  ArmedAhead /\ Due(t) /\ Ahead(list', u, t) /\ ~Ahead(list, u, t)
                    => \E d \in Delays :
                         list' = Insert(Unlink(list, t), expires, t, now + d)
<1>1. ListInv /\ [Next]_vars => [A]_vars
  <2> SUFFICES ASSUME ListInv, Next, NEW t \in Timer, NEW u \in Timer,
                      ArmedAhead, Due(t), Ahead(list', u, t), ~Ahead(list, u, t)
               PROVE  \E d \in Delays :
                        list' = Insert(Unlink(list, t), expires, t, now + d)
    OBVIOUS
  <2>1. /\ list \in Seq(Timer) /\ expires \in [Timer -> Int] /\ now \in Int
        /\ Injective(list) /\ t \in Linked(list) /\ expires[t] <= now
    BY DEF ListInv, ListTypes, Due
  <2>2. CASE Mod
    <3>1. PICK x \in Timer, d \in Delays :
            /\ list' = Insert(Unlink(list, x), expires, x, now + d)
            /\ expires' = [expires EXCEPT ![x] = now + d]
      BY <2>2 DEF Mod
    <3>2. CASE x = t BY <3>1, <3>2
    <3>3. CASE x # t
      <4> DEFINE e == now + d
      <4>1. e \in Int BY <2>1, TimerAssumption
      <4>2. /\ Linked(list') = Linked(list) \cup {x}
            /\ \A v, w : Ahead(list', v, w) <=>
                 \/ Ahead(list, v, w) /\ v # x /\ w # x
                 \/ w = x /\ v \in Linked(list) \ {x} /\ expires[v] <= e
                 \/ v = x /\ w \in Linked(list) \ {x} /\ expires[w] > e
        BY <3>1, <4>1, ArmEffect
      <4>3. u = x /\ expires[t] > e BY <3>3, <4>2
      <4>4. expires'[u] = e BY <2>1, <3>1, <4>3
      <4> HIDE DEF e
      <4>5. ~ e > now BY <2>1, <4>1, <4>3
      <4>6. u \in Linked(list) /\ expires[u] = e
        BY <4>2, <4>3, <4>4, <4>5 DEF ArmedAhead
      <4>7. expires[u] < expires[t] BY <2>1, <4>1, <4>3, <4>6
      <4> QED BY <2>1, <4>6, <4>7, EarlierIsAhead
    <3> QED BY <3>2, <3>3
  <2>3. CASE Del
    <3>1. PICK x \in Timer : list' = Unlink(list, x) BY <2>3 DEF Del
    <3> QED BY <2>1, <3>1, UnlinkKeeps
  <2>4. CASE Call
    <3>1. list' = Unlink(list, Head(list)) BY <2>1, <2>4, TailUnlinks DEF Call
    <3> QED BY <2>1, <3>1, UnlinkKeeps
  <2>5. CASE RunTimers \/ Return \/ Done \/ Tick
    BY <2>5 DEF RunTimers, Return, Done, Tick
  <2> QED BY <2>2, <2>3, <2>4, <2>5 DEF Next
<1> QED BY <1>1, ListInvHolds, PTL DEF Spec, DueKeepsItsPlace

\* The second half: every call brings it nearer to the head, or is its own.
THEOREM CallsTakeTurnsTheorem == Spec => CallsTakeTurns
<1> DEFINE A == Call => \A t \in Timer :
                  Due(t) => \/ calling' = t
                            \/ Ahead(list, calling', t) /\ ~Ahead(list', calling', t)
<1>1. ListInv /\ [Next]_vars => [A]_vars
  <2> SUFFICES ASSUME ListInv, Call, NEW t \in Timer, Due(t), calling' # t
               PROVE  Ahead(list, calling', t) /\ ~Ahead(list', calling', t)
    OBVIOUS
  <2>1. /\ list \in Seq(Timer) /\ Injective(list) /\ t \in Linked(list)
        /\ list # <<>> /\ calling' = Head(list) /\ list' = Tail(list)
    BY DEF ListInv, ListTypes, Due, Call
  <2>2. /\ Head(list) = list[1] /\ 1 \in DOMAIN list /\ list' = Unlink(list, Head(list))
    BY <2>1, TailUnlinks
  <2>3. PICK j \in DOMAIN list : list[j] = t BY <2>1 DEF Linked
  <2>4. 1 < j
    <3>1. j \in 1..Len(list) BY <2>1, <2>3
    <3>2. j # 1 BY <2>1, <2>2, <2>3
    <3> QED BY <3>1, <3>2
  <2>5. Ahead(list, calling', t) BY <2>1, <2>2, <2>3, <2>4 DEF Ahead
  <2>6. ~Ahead(list', calling', t)
    <3>1. ~Ahead(Unlink(list, Head(list)), Head(list), t) BY <2>1, UnlinkKeeps
    <3> QED BY <2>1, <2>2, <3>1
  <2> QED BY <2>5, <2>6
<1> QED BY <1>1, ListInvHolds, PTL DEF Spec, CallsTakeTurns
=============================================================================
