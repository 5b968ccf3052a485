---------------------------- MODULE IoPortProofs ----------------------------
(***************************************************************************)
(* The way of a key from the pins to the core, for every set of keys,      *)
(* sources and register values.                                            *)
(***************************************************************************)
EXTENDS IoPort, IntcProofs

(***************************************************************************)
(* A held source has reached the core when it is latched, and a line of    *)
(* the core is up unless INTMSK masks it.  Every operation of the          *)
(* controller keeps that source by source, also when other sources are in  *)
(* the state a reset leaves them in: held, but not latched.                *)
(***************************************************************************)
Reached(s, x) == x \in s.srcpnd /\ (x \notin s.intmsk => s.irq \/ s.fiq)

KeepsReached(s, t) ==
  /\ t \in Machine
  /\ \A x : x \in t.src_pending /\ (x \in s.src_pending => Reached(s, x)) => Reached(t, x)

LEMMA GenIntReaches ==
  ASSUME NEW s \in Machine, NEW x \in s.srcpnd, x \in Irq
  PROVE  Reached(GenInt(s), x)
<1>1. SameRegisters(s, GenInt(s)) /\ Served(GenInt(s)) BY GenIntEffect
<1> QED BY <1>1 DEF SameRegisters, Served, Reached

LEMMA AssertReaches ==
  ASSUME NEW s \in Machine, NEW irq \in Irq, NEW level \in {0, 1}
  PROVE  /\ KeepsReached(s, Assert(s, irq, level))
         /\ Assert(s, irq, level).src_pending
              = IF level = 1 THEN s.src_pending \cup {irq} ELSE s.src_pending
<1> DEFINE latch == [s EXCEPT
                       !.src_pending = IF level = 1 THEN @ \cup {irq} ELSE @,
                       !.srcpnd = @ \cup {irq}]
           latched == IF irq \in s.src_pending THEN s ELSE GenInt(latch)
<1>1. /\ KeepsReached(s, latched)
      /\ latched.src_pending = IF level = 1 THEN s.src_pending \cup {irq} ELSE s.src_pending
  <2>1. CASE irq \in s.src_pending
    BY <2>1 DEF KeepsReached
  <2>2. CASE irq \notin s.src_pending
    <3>1. /\ latch \in Machine /\ s.srcpnd \subseteq Irq
          /\ latch.srcpnd = s.srcpnd \cup {irq}
          /\ latch.src_pending = IF level = 1 THEN s.src_pending \cup {irq} ELSE s.src_pending
      BY DEF Machine
    <3>2. latched = GenInt(latch) BY <2>2
    <3> HIDE DEF latch, latched
    <3>3. latched \in Machine /\ latched.src_pending = latch.src_pending
      BY <3>1, <3>2, GenIntEffect DEF SameRegisters
    <3>4. ASSUME NEW x, x \in latched.src_pending, x \in s.src_pending => Reached(s, x)
          PROVE  Reached(latched, x)
      <4>1. x \in latch.srcpnd /\ x \in Irq BY <3>1, <3>3, <3>4 DEF Reached
      <4> QED BY <4>1, <3>1, <3>2, GenIntReaches
    <3> QED BY <3>1, <3>3, <3>4 DEF KeepsReached
  <2> QED BY <2>1, <2>2
<1>2. Assert(s, irq, level) \in {latched, SetIdle(latched, RUN)} BY DEF Assert
<1> HIDE DEF latched
<1>3. latched \in Machine BY <1>1 DEF KeepsReached
<1>4. /\ SetIdle(latched, RUN) \in Machine
      /\ SameRegisters(latched, SetIdle(latched, RUN))
      /\ SetIdle(latched, RUN).irq = latched.irq /\ SetIdle(latched, RUN).fiq = latched.fiq
  BY <1>3, SetIdleEffect
<1> QED BY <1>1, <1>2, <1>3, <1>4 DEF KeepsReached, Reached, SameRegisters

LEMMA DeassertReaches ==
  ASSUME NEW s \in Machine, NEW irq
  PROVE  /\ KeepsReached(s, Deassert(s, irq))
         /\ Deassert(s, irq).src_pending = s.src_pending \ {irq}
BY DEF Deassert, Machine, KeepsReached, Reached

LEMMA SrcpndPutReaches ==
  ASSUME NEW s \in Machine, NEW d \in SUBSET Irq
  PROVE  KeepsReached(s, SrcpndPut(s, d)) /\ SrcpndPut(s, d).src_pending = s.src_pending
<1> DEFINE t == [s EXCEPT !.srcpnd = (@ \ d) \cup s.src_pending]
<1>1. /\ t \in Machine /\ s.src_pending \subseteq Irq
      /\ t.src_pending = s.src_pending /\ s.src_pending \subseteq t.srcpnd
      /\ t.intmsk = s.intmsk /\ t.irq = s.irq /\ t.fiq = s.fiq
  BY DEF Machine
<1>2. SrcpndPut(s, d) \in {t, GenInt(t)} BY DEF SrcpndPut
<1> HIDE DEF t
<1>3. KeepsReached(s, t) BY <1>1 DEF KeepsReached, Reached
<1>4. KeepsReached(s, GenInt(t)) /\ GenInt(t).src_pending = s.src_pending
  <2>1. GenInt(t) \in Machine /\ GenInt(t).src_pending = t.src_pending
    BY <1>1, GenIntEffect DEF SameRegisters
  <2>2. ASSUME NEW x, x \in GenInt(t).src_pending PROVE Reached(GenInt(t), x)
    BY <1>1, <2>1, <2>2, GenIntReaches
  <2> QED BY <1>1, <2>1, <2>2 DEF KeepsReached
<1> QED BY <1>1, <1>2, <1>3, <1>4

LEMMA GuestGenIntReaches ==
  ASSUME NEW s \in Machine, NEW t \in Machine,
         t.srcpnd = s.srcpnd, t.src_pending = s.src_pending
  PROVE  KeepsReached(s, GenInt(t)) /\ GenInt(t).src_pending = s.src_pending
<1>1. GenInt(t) \in Machine /\ GenInt(t).src_pending = s.src_pending
  BY GenIntEffect DEF SameRegisters
<1>2. ASSUME NEW x, x \in GenInt(t).src_pending, x \in s.src_pending => Reached(s, x)
      PROVE  Reached(GenInt(t), x)
  <2>1. x \in t.srcpnd /\ x \in Irq BY <1>1, <1>2 DEF Reached, Machine
  <2> QED BY <2>1, GenIntReaches
<1> QED BY <1>1, <1>2 DEF KeepsReached

LEMMA MaskAndPendReach ==
  ASSUME NEW s \in Machine, NEW d \in SUBSET Irq
  PROVE  \A t \in {IntmskPut(s, d), IntpndPut(s, d)} :
           KeepsReached(s, t) /\ t.src_pending = s.src_pending
<1> DEFINE a == [s EXCEPT !.intmsk = d]
           b == [s EXCEPT !.intpnd = @ \ d]
<1>1. /\ a \in Machine /\ a.srcpnd = s.srcpnd /\ a.src_pending = s.src_pending
      /\ b \in Machine /\ b.srcpnd = s.srcpnd /\ b.src_pending = s.src_pending
      /\ IntmskPut(s, d) = GenInt(a) /\ IntpndPut(s, d) = GenInt(b)
  BY DEF Machine, IntmskPut, IntpndPut
<1> HIDE DEF a, b
<1> QED BY <1>1, GuestGenIntReaches

\* The sub-sources are folded into sources of their own, so that folding
\* them leaves the shared levels alone, and so does a restart: save writes
\* the levels, load reads them back.
SameShared(s, t) == Shared \cap t.src_pending = Shared \cap s.src_pending

LEMMA FoldShared ==
  ASSUME NEW s \in Machine, NEW service \in SUBSET SubIrq,
         NEW p \in {INT_UART0, INT_UART1, INT_UART2, INT_ADC}
  PROVE  SameShared(s, Fold(s, p, service)) /\ Fold(s, p, service) \in Machine
<1>1. p \notin Shared
  BY DEF Shared, EINT4_7, EINT8_23, INT_UART0, INT_UART1, INT_UART2, INT_ADC
<1>2. CASE \E x \in service : Parent(x) = p
  <2>1. p \in Irq /\ Fold(s, p, service) = Assert(s, p, 1)
    BY <1>2, SubIrqAssumption DEF Fold
  <2>2. Assert(s, p, 1).src_pending = s.src_pending \cup {p} BY <2>1, AssertReaches
  <2> QED BY <1>1, <2>1, <2>2, FoldKeeps DEF SameShared, Keeps
<1>3. CASE ~ \E x \in service : Parent(x) = p
  <2>1. Fold(s, p, service) = Deassert(s, p) BY <1>3 DEF Fold
  <2>2. Deassert(s, p).src_pending = s.src_pending \ {p} BY DeassertReaches
  <2> QED BY <1>1, <2>1, <2>2, FoldKeeps DEF SameShared, Keeps
<1> QED BY <1>2, <1>3

LEMMA SubIntShared ==
  ASSUME NEW s \in Machine
  PROVE  SameShared(s, GenIntFromSubInt(s))
<1> DEFINE service == s.subsrcpnd \ s.intsubmsk
           uart0 == Fold(s, INT_UART0, service)
           uart1 == Fold(uart0, INT_UART1, service)
           uart2 == Fold(uart1, INT_UART2, service)
           adc == Fold(uart2, INT_ADC, service)
           last == [adc EXCEPT !.subsrcpnd = adc.subsrc_pending]
<1>1. service \in SUBSET SubIrq BY DEF Machine
<1>2. GenIntFromSubInt(s) = last BY DEF GenIntFromSubInt
<1> HIDE DEF service
<1>3. uart0 \in Machine /\ SameShared(s, uart0) BY <1>1, FoldShared
<1> HIDE DEF uart0
<1>4. uart1 \in Machine /\ SameShared(uart0, uart1) BY <1>1, <1>3, FoldShared
<1> HIDE DEF uart1
<1>5. uart2 \in Machine /\ SameShared(uart1, uart2) BY <1>1, <1>4, FoldShared
<1> HIDE DEF uart2
<1>6. adc \in Machine /\ SameShared(uart2, adc) BY <1>1, <1>5, FoldShared
<1> HIDE DEF adc
<1>7. last.src_pending = adc.src_pending BY <1>6 DEF Machine
<1> QED BY <1>2, <1>3, <1>4, <1>5, <1>6, <1>7 DEF SameShared

LEMMA ReloadShared ==
  ASSUME NEW s \in Machine
  PROVE  Reload(s) \in Machine /\ SameShared(s, Reload(s))
<1> DEFINE loaded == [s EXCEPT !.srcpnd = {}, !.subsrcpnd = {},
                               !.exit_request = FALSE,
                               !.idle = IF s.halted THEN SLEEP ELSE RUN]
           ranked == [loaded EXCEPT !.priority = s.priority, !.sel = s.priority.sel,
                                    !.mode = s.priority.mode]
           prio == GenInt(ranked)
           sub == [prio EXCEPT !.intsubmsk = s.intsubmsk]
           folded == GenIntFromSubInt(sub)
           masked == [folded EXCEPT !.intmsk = s.intmsk]
<1>1. Reload(s) = GenInt(masked) BY DEF Reload, PriorityPut, IntsubmskPut, IntmskPut
<1>2. /\ s.priority \in PriorityWord /\ s.intsubmsk \in SUBSET SubIrq
      /\ s.intmsk \in SUBSET Irq
  BY DEF Machine
<1>3. loaded \in Machine /\ loaded.src_pending = s.src_pending BY DEF Machine
<1> HIDE DEF loaded
<1>4. ranked \in Machine /\ ranked.src_pending = loaded.src_pending
  BY <1>2, <1>3 DEF Machine, PriorityWord
<1> HIDE DEF ranked
<1>5. prio \in Machine /\ prio.src_pending = ranked.src_pending
  BY <1>4, GenIntEffect DEF SameRegisters
<1> HIDE DEF prio
<1>6. sub \in Machine /\ sub.src_pending = prio.src_pending
  BY <1>2, <1>5 DEF Machine
<1> HIDE DEF sub
<1>7. folded \in Machine /\ SameShared(sub, folded)
  BY <1>6, SubIntShared, GenIntFromSubIntKeeps DEF Keeps
<1> HIDE DEF folded
<1>8. masked \in Machine /\ masked.src_pending = folded.src_pending
  BY <1>2, <1>7 DEF Machine
<1> HIDE DEF masked
<1>9. GenInt(masked) \in Machine /\ GenInt(masked).src_pending = masked.src_pending
  BY <1>8, GenIntEffect DEF SameRegisters
<1> QED BY <1>1, <1>3, <1>4, <1>5, <1>6, <1>7, <1>8, <1>9 DEF SameShared

-----------------------------------------------------------------------------
(***************************************************************************)
(* The inductive invariant, of a port p, a controller s and the history.   *)
(* Carried: a line that counts as pending holds its source.  Latched: a    *)
(* held source has reached the core.  Caused: it has a line.               *)
(***************************************************************************)
Carried(p, s, miss) ==
  \A src \in Shared :
    (p.eintpend \cap Group(src)) \ (p.eintmask \cup miss) # {} => src \in s.src_pending
Latched(s, old) == \A src \in (Shared \cap s.src_pending) \ old : Reached(s, src)
Caused(p, s, old) ==
  \A src \in (Shared \cap s.src_pending) \ old : p.eintpend \cap Group(src) # {}

Sound(p, s, miss, old) ==
  /\ p \in Ports /\ s \in Machine
  /\ miss \subseteq p.eintpend /\ old \subseteq Shared \cap s.src_pending
  /\ Carried(p, s, miss) /\ Latched(s, old) /\ Caused(p, s, old)

\* What Becomes(w) establishes.
SoundAfter(w, miss, old) ==
  Sound(w.io, w.m, miss \cap w.io.eintpend, old \cap w.m.src_pending)

\* The operations of the controller that leave the shared levels alone.
LEMMA IntcSound ==
  ASSUME NEW p, NEW s, NEW miss, NEW old, Sound(p, s, miss, old),
         NEW t, KeepsReached(s, t),
         Shared \cap t.src_pending = Shared \cap s.src_pending
  PROVE  Sound(p, t, miss, old)
<1>1. t \in Machine /\ old \subseteq Shared \cap t.src_pending
  BY DEF Sound, KeepsReached
<1>2. Carried(p, t, miss) BY DEF Sound, Carried
<1>3. Latched(t, old) BY DEF Sound, Latched, KeepsReached
<1>4. Caused(p, t, old) BY DEF Sound, Caused
<1> QED BY <1>1, <1>2, <1>3, <1>4 DEF Sound

\* The registers the invariant does not mention.
LEMMA PortSound ==
  ASSUME NEW p, NEW s, NEW miss, NEW old, Sound(p, s, miss, old),
         NEW q \in Ports, q.eintpend = p.eintpend, q.eintmask = p.eintmask
  PROVE  Sound(q, s, miss, old)
BY DEF Sound, Carried, Latched, Caused

LEMMA PairSound ==
  ASSUME NEW p, NEW s, NEW miss, NEW old, Sound(p, s, miss, old)
  PROVE  SoundAfter(Pair(p, s), miss, old)
<1>1. miss \cap p.eintpend = miss /\ old \cap s.src_pending = old BY DEF Sound
<1> QED BY <1>1 DEF SoundAfter, Pair

LEMMA PendSound ==
  ASSUME NEW p, NEW s, NEW miss, NEW old, Sound(p, s, miss, old),
         NEW src \in Shared, src \in Irq, NEW line \in Group(src)
  PROVE  SoundAfter(Pend(p, s, line, src), miss, old)
<1> DEFINE pend == [p EXCEPT !.eintpend = @ \cup {line}]
           t == IF pend.eintpend \ pend.eintmask = {} THEN s ELSE Assert(s, src, 1)
<1>1. p \in Ports /\ s \in Machine BY DEF Sound
<1>2. line \in Eint BY DEF Group
<1>3. /\ pend \in Ports /\ pend.eintmask = p.eintmask
      /\ pend.eintpend = p.eintpend \cup {line}
  BY <1>1, <1>2 DEF Ports
<1>4. Pend(p, s, line, src) = Pair(pend, t) BY DEF Pend
<1>5. /\ KeepsReached(s, Assert(s, src, 1))
      /\ Assert(s, src, 1).src_pending = s.src_pending \cup {src}
  BY <1>1, AssertReaches
<1> HIDE DEF pend
<1>6. CASE pend.eintpend \ pend.eintmask = {}
  <2>1. t = s BY <1>6
  <2>2. Carried(pend, s, miss) BY <1>6 DEF Carried
  <2>3. Caused(pend, s, old) BY <1>3 DEF Sound, Caused
  <2>4. Sound(pend, s, miss, old) BY <1>3, <2>2, <2>3 DEF Sound
  <2> QED BY <1>4, <2>1, <2>4, PairSound
<1>7. CASE pend.eintpend \ pend.eintmask # {}
  <2>1. t = Assert(s, src, 1) BY <1>7
  <2>2. /\ KeepsReached(s, t) /\ t.src_pending = s.src_pending \cup {src}
        /\ t \in Machine
    BY <1>5, <2>1 DEF KeepsReached
  <2> HIDE DEF t
  <2>3. Carried(pend, t, miss)
    <3> SUFFICES ASSUME NEW x \in Shared,
                        (pend.eintpend \cap Group(x)) \ (pend.eintmask \cup miss) # {}
                 PROVE  x \in t.src_pending
      BY DEF Carried
    <3>1. CASE x = src BY <3>1, <2>2
    <3>2. CASE x # src
      <4>1. line \notin Group(x) BY <3>2 DEF Group, Shared, EINT4_7, EINT8_23
      <4>2. (p.eintpend \cap Group(x)) \ (p.eintmask \cup miss) # {} BY <4>1, <1>3
      <4> QED BY <4>2, <2>2 DEF Sound, Carried
    <3> QED BY <3>1, <3>2
  <2>4. Latched(t, old) BY <2>2 DEF Sound, Latched, KeepsReached
  <2>5. Caused(pend, t, old)
    <3> SUFFICES ASSUME NEW x \in (Shared \cap t.src_pending) \ old
                 PROVE  pend.eintpend \cap Group(x) # {}
      BY DEF Caused
    <3>1. CASE x = src BY <3>1, <1>3
    <3>2. CASE x # src
      <4>1. p.eintpend \cap Group(x) # {} BY <3>2, <2>2 DEF Sound, Caused
      <4> QED BY <4>1, <1>3
    <3> QED BY <3>1, <3>2
  <2>6. Sound(pend, t, miss, old) BY <1>3, <2>2, <2>3, <2>4, <2>5 DEF Sound
  <2> QED BY <1>4, <2>6, PairSound
<1> QED BY <1>6, <1>7

LEMMA EintpendPutSound ==
  ASSUME NEW p, NEW s, NEW miss, NEW old, Sound(p, s, miss, old), NEW d \in SUBSET Eint
  PROVE  SoundAfter(EintpendPut(p, s, d), miss, old)
<1> DEFINE left == p.eintpend \ d
           lower == IF left \cap 4..7 = {} THEN Deassert(s, EINT4_7) ELSE s
           t == IF left \cap 8..23 = {} THEN Deassert(lower, EINT8_23) ELSE lower
           q == [p EXCEPT !.eintpend = left]
<1>1. p \in Ports /\ s \in Machine /\ p.eintpend \subseteq Eint BY DEF Sound, Ports
<1>2. q \in Ports /\ q.eintpend = left /\ q.eintmask = p.eintmask BY <1>1 DEF Ports
<1>3. EintpendPut(p, s, d) = Pair(q, t) BY DEF EintpendPut
<1>4. left \subseteq p.eintpend /\ left \subseteq Eint BY <1>1
<1>5. /\ KeepsReached(s, lower)
      /\ lower.src_pending = IF left \cap 4..7 = {} THEN s.src_pending \ {EINT4_7}
                             ELSE s.src_pending
  BY <1>1, DeassertReaches DEF KeepsReached
<1>6. lower \in Machine BY <1>5 DEF KeepsReached
<1> HIDE DEF lower, q
<1>7. /\ KeepsReached(lower, t)
      /\ t.src_pending = IF left \cap 8..23 = {} THEN lower.src_pending \ {EINT8_23}
                         ELSE lower.src_pending
  BY <1>6, DeassertReaches DEF KeepsReached
<1> HIDE DEF t
<1>8. KeepsReached(s, t) BY <1>5, <1>7 DEF KeepsReached
<1>9. t.src_pending \subseteq s.src_pending BY <1>5, <1>7
\* A shared source is released exactly with the last line of its group.
<1>10. \A src \in Shared :
         src \in t.src_pending <=> src \in s.src_pending /\ left \cap Group(src) # {}
  <2>1. EINT4_7 # EINT8_23 BY DEF EINT4_7, EINT8_23
  <2>2. left \cap Group(EINT4_7) = left \cap 4..7
        /\ left \cap Group(EINT8_23) = left \cap 8..23
    BY <1>4, <2>1 DEF Group
  <2>3. EINT4_7 \in t.src_pending <=> EINT4_7 \in s.src_pending /\ left \cap 4..7 # {}
    BY <1>5, <1>7, <2>1
  <2>4. EINT8_23 \in t.src_pending <=> EINT8_23 \in s.src_pending /\ left \cap 8..23 # {}
    BY <1>5, <1>7, <2>1
  <2> QED BY <2>2, <2>3, <2>4 DEF Shared
<1> HIDE DEF left
<1> DEFINE miss2 == miss \cap left
           old2 == old \cap t.src_pending
<1>11. Carried(q, t, miss2)
  <2> SUFFICES ASSUME NEW x \in Shared,
                      (q.eintpend \cap Group(x)) \ (q.eintmask \cup miss2) # {}
               PROVE  x \in t.src_pending
    BY DEF Carried
  <2>1. left \cap Group(x) # {} BY <1>2
  <2>2. (p.eintpend \cap Group(x)) \ (p.eintmask \cup miss) # {} BY <1>2, <1>4
  <2>3. x \in s.src_pending BY <2>2 DEF Sound, Carried
  <2> QED BY <1>10, <2>1, <2>3
<1>12. Latched(t, old2) BY <1>8, <1>9 DEF Sound, Latched, KeepsReached
<1>13. Caused(q, t, old2) BY <1>2, <1>10 DEF Caused
<1>14. miss2 \subseteq q.eintpend /\ old2 \subseteq Shared \cap t.src_pending
  BY <1>2 DEF Sound
<1>15. t \in Machine BY <1>8 DEF KeepsReached
<1>16. Sound(q, t, miss2, old2) BY <1>2, <1>11, <1>12, <1>13, <1>14, <1>15 DEF Sound
<1>17. Pair(q, t).io = q /\ Pair(q, t).m = t BY DEF Pair
<1> QED BY <1>2, <1>3, <1>16, <1>17 DEF SoundAfter

LEMMA ScanType ==
  ASSUME NEW p, NEW k
  PROVE  ScanKeys(p, k) \subseteq Pin
BY DEF ScanKeys, Pin

LEMMA GSetBitSound ==
  ASSUME NEW p, NEW s, NEW miss, NEW old, Sound(p, s, miss, old),
         NEW k, NEW n \in Row, NEW set \in BOOLEAN
  PROVE  SoundAfter(GSetBit(p, s, k, n, set), miss, old)
<1> DEFINE dat == ScanKeys(p, k)
           value == ~(set /\ p.gpgcon[ColPin(n)] = "out" /\ ColPin(n) \notin dat)
           moved == [p EXCEPT !.gpgdat = WithBit(dat, n, value)]
           read == [p EXCEPT !.gpgdat = dat]
<1>1. p \in Ports BY DEF Sound
<1>2. dat \subseteq Pin /\ n \in Pin BY ScanType DEF Pin
<1>3. WithBit(dat, n, value) \subseteq Pin BY <1>2 DEF WithBit
<1> HIDE DEF dat, value
<1>4. /\ moved \in Ports /\ moved.eintpend = p.eintpend /\ moved.eintmask = p.eintmask
      /\ read \in Ports /\ read.eintpend = p.eintpend /\ read.eintmask = p.eintmask
  BY <1>1, <1>2, <1>3 DEF Ports
<1>5. GSetBit(p, s, k, n, set)
        \in {Pair(read, s), Pair(moved, s), Pend(moved, s, RowEint(n), EINT8_23)}
  BY DEF GSetBit, dat, value
<1> HIDE DEF moved, read
<1>6. Sound(moved, s, miss, old) /\ Sound(read, s, miss, old) BY <1>4, PortSound
<1>7. EINT8_23 \in Shared /\ EINT8_23 \in Irq BY PortAssumption DEF Shared
<1>8. RowEint(n) \in Group(EINT8_23)
  <2>1. n \in 1..7 BY PortAssumption
  <2>2. RowEint(n) \in 8..23 BY <2>1 DEF RowEint
  <2>3. RowEint(n) \in Eint BY DEF Eint
  <2> QED BY <2>2, <2>3 DEF Group, EINT4_7, EINT8_23
<1>9. SoundAfter(Pend(moved, s, RowEint(n), EINT8_23), miss, old)
  BY <1>6, <1>7, <1>8, PendSound
<1> QED BY <1>5, <1>6, <1>9, PairSound

LEMMA FSetBitSound ==
  ASSUME NEW p, NEW s, NEW miss, NEW old, Sound(p, s, miss, old),
         NEW n \in FLine, NEW value \in BOOLEAN
  PROVE  SoundAfter(FSetBit(p, s, n, value), miss, old)
<1> DEFINE moved == [p EXCEPT !.gpfdat = WithBit(@, n, value)]
           level == IF p.extint0[n] \in {"low", "high"} THEN 1 ELSE 0
<1>1. p \in Ports /\ s \in Machine /\ p.gpfdat \subseteq FLine BY DEF Sound, Ports
<1>2. WithBit(p.gpfdat, n, value) \subseteq FLine BY <1>1 DEF WithBit
<1>3. moved \in Ports /\ moved.eintpend = p.eintpend /\ moved.eintmask = p.eintmask
  BY <1>1, <1>2 DEF Ports
<1>4. \/ FSetBit(p, s, n, value) \in {Pair(p, s), Pair(moved, s)}
      \/ n \in 0..3 /\ FSetBit(p, s, n, value) = Pair(moved, Assert(s, n, level))
      \/ n \notin 0..3 /\ FSetBit(p, s, n, value) = Pend(moved, s, n, EINT4_7)
  BY DEF FSetBit
<1>5. level \in {0, 1} OBVIOUS
<1> HIDE DEF moved, level
<1>6. Sound(moved, s, miss, old) BY <1>3, PortSound
<1>7. CASE FSetBit(p, s, n, value) \in {Pair(p, s), Pair(moved, s)}
  BY <1>6, <1>7, PairSound
<1>8. CASE n \in 0..3 /\ FSetBit(p, s, n, value) = Pair(moved, Assert(s, n, level))
  <2>1. n \in Irq /\ n \notin Shared
    BY <1>8, PortAssumption DEF Shared, EINT4_7, EINT8_23
  <2>2. /\ KeepsReached(s, Assert(s, n, level))
        /\ Assert(s, n, level).src_pending \in {s.src_pending, s.src_pending \cup {n}}
    BY <1>1, <1>5, <2>1, AssertReaches
  <2>3. Shared \cap Assert(s, n, level).src_pending = Shared \cap s.src_pending
    BY <2>1, <2>2
  <2>4. Sound(moved, Assert(s, n, level), miss, old) BY <1>6, <2>2, <2>3, IntcSound
  <2> QED BY <1>8, <2>4, PairSound
<1>9. CASE n \notin 0..3 /\ FSetBit(p, s, n, value) = Pend(moved, s, n, EINT4_7)
  <2>1. n \in {4, 5, 6} BY <1>9, PortAssumption
  <2>2. n \in Group(EINT4_7) BY <1>9, <2>1 DEF Group, Eint
  <2>3. EINT4_7 \in Shared /\ EINT4_7 \in Irq BY <2>1, PortAssumption DEF Shared
  <2> QED BY <1>6, <1>9, <2>2, <2>3, PendSound
<1> QED BY <1>4, <1>7, <1>8, <1>9

-----------------------------------------------------------------------------
(***************************************************************************)
(* Every step.                                                             *)
(***************************************************************************)
PortInv == Sound(io, m, missed, outlived)

ButtonsOK ==
  /\ keys \in [bycol : [Col -> SUBSET Row], byrow : [Row -> SUBSET Col]]
  /\ down \subseteq Keys /\ fdown \subseteq FLine
  /\ releasing \in BOOLEAN

LEMMA BecomesSound ==
  ASSUME NEW w, SoundAfter(w, missed, outlived), Becomes(w)
  PROVE  PortInv'
BY DEF Becomes, SoundAfter, PortInv

LEMMA PortInitSound ==
  ASSUME PortInit
  PROVE  PortInv /\ ButtonsOK
<1>1. /\ io \in Ports /\ io.eintpend = {} /\ missed = {} /\ outlived = {}
  BY StartAssumption DEF PortInit
<1>2. m \in Machine /\ m.src_pending = {}
  <2>1. PICK p \in Priorities : m = PriorityPut(ColdMachine, p) BY DEF PortInit
  <2>2. p \in PriorityWord BY GuestAssumption
  <2> DEFINE t == [ColdMachine EXCEPT !.priority = p, !.sel = p.sel, !.mode = p.mode]
  <2>3. t \in Machine /\ t.src_pending = {}
    BY <2>2 DEF ColdMachine, Machine, PriorityWord, ResetPriority, Arbiters
  <2>4. m = GenInt(t) BY <2>1 DEF PriorityPut
  <2> HIDE DEF t
  <2> QED BY <2>3, <2>4, GenIntEffect DEF SameRegisters
<1>3. PortInv BY <1>1, <1>2 DEF PortInv, Sound, Carried, Latched, Caused
<1>4. ButtonsOK BY DEF PortInit, ButtonsOK, NoKeys
<1> QED BY <1>3, <1>4

\* The matrix and the buttons, whatever the key does.
LEMMA MatrixType ==
  ASSUME ButtonsOK, NEW k \in Keys, NEW down2, NEW keys2,
         \/ /\ keys2 = [keys EXCEPT !.bycol[k[1]] = @ \cup {k[2]},
                                    !.byrow[k[2]] = @ \cup {k[1]}]
            /\ down2 = down \cup {k}
         \/ /\ keys2 = [keys EXCEPT !.bycol[k[1]] = @ \ {k[2]},
                                    !.byrow[k[2]] = @ \ {k[1]}]
            /\ down2 = down \ {k}
  PROVE  /\ keys2 \in [bycol : [Col -> SUBSET Row], byrow : [Row -> SUBSET Col]]
         /\ down2 \subseteq Keys
<1>1. k[1] \in Col /\ k[2] \in Row BY PortAssumption
<1>2. /\ keys = [bycol |-> keys.bycol, byrow |-> keys.byrow]
      /\ keys.bycol \in [Col -> SUBSET Row] /\ keys.byrow \in [Row -> SUBSET Col]
  BY DEF ButtonsOK
<1>3. ASSUME NEW rows \in SUBSET Row, NEW cols \in SUBSET Col
      PROVE  [keys EXCEPT !.bycol[k[1]] = rows, !.byrow[k[2]] = cols]
               \in [bycol : [Col -> SUBSET Row], byrow : [Row -> SUBSET Col]]
  BY <1>1, <1>2
<1>4. keys.bycol[k[1]] \subseteq Row /\ keys.byrow[k[2]] \subseteq Col BY <1>1, <1>2
<1>5. /\ keys.bycol[k[1]] \cup {k[2]} \in SUBSET Row
      /\ keys.byrow[k[2]] \cup {k[1]} \in SUBSET Col
      /\ keys.bycol[k[1]] \ {k[2]} \in SUBSET Row
      /\ keys.byrow[k[2]] \ {k[1]} \in SUBSET Col
  BY <1>1, <1>4
<1>6. keys2 \in [bycol : [Col -> SUBSET Row], byrow : [Row -> SUBSET Col]]
  BY <1>3, <1>5
<1> QED BY <1>6 DEF ButtonsOK

LEMMA PortNextSound ==
  ASSUME PortInv, ButtonsOK, PortNext
  PROVE  PortInv' /\ ButtonsOK'
<1> USE DEF PortInv
<1>1. m \in Machine /\ io \in Ports BY DEF Sound
<1>2. CASE Press
  <2>1. CASE \E k \in Keys : PressMatrix(k)
    <3>1. PICK k \in Keys : PressMatrix(k) BY <2>1
    <3>2. k[2] \in Row BY PortAssumption
    <3>3. SoundAfter(GSetBit(io, m, keys, k[2], TRUE), missed, outlived)
      BY <3>2, GSetBitSound
    <3>4. PortInv' BY <3>1, <3>3, BecomesSound DEF PressMatrix
    <3>5. ButtonsOK' BY <3>1, MatrixType DEF PressMatrix, ButtonsOK
    <3> QED BY <3>4, <3>5
  <2>2. CASE \E n \in FLine : PressF(n)
    <3>1. PICK n \in FLine : PressF(n) BY <2>2
    <3>2. SoundAfter(FSetBit(io, m, n, TRUE), missed, outlived) BY FSetBitSound
    <3>3. PortInv' BY <3>1, <3>2, BecomesSound DEF PressF
    <3>4. ButtonsOK' BY <3>1 DEF PressF, ButtonsOK
    <3> QED BY <3>3, <3>4
  <2> QED BY <1>2, <2>1, <2>2 DEF Press
<1>3. CASE Release \/ Released
  BY <1>3 DEF Release, Released, Sound, ButtonsOK
<1>4. CASE ReleaseOne
  <2>1. CASE \E k \in down : ReleaseMatrix(k)
    <3>1. PICK k \in down : ReleaseMatrix(k) BY <2>1
    <3>2. k \in Keys /\ k[2] \in Row BY PortAssumption DEF ButtonsOK
    <3>3. SoundAfter(GSetBit(io, m, keys, k[2], FALSE), missed, outlived)
      BY <3>2, GSetBitSound
    <3>4. PortInv' BY <3>1, <3>3, BecomesSound DEF ReleaseMatrix
    <3>5. ButtonsOK' BY <3>1, <3>2, MatrixType DEF ReleaseMatrix, ButtonsOK
    <3> QED BY <3>4, <3>5
  <2>2. CASE \E n \in fdown : ReleaseF(n)
    <3>1. PICK n \in fdown : ReleaseF(n) BY <2>2
    <3>2. n \in FLine BY DEF ButtonsOK
    <3>3. SoundAfter(FSetBit(io, m, n, FALSE), missed, outlived) BY <3>2, FSetBitSound
    <3>4. PortInv' BY <3>1, <3>3, BecomesSound DEF ReleaseF
    <3>5. ButtonsOK' BY <3>1 DEF ReleaseF, ButtonsOK
    <3> QED BY <3>4, <3>5
  <2> QED BY <1>4, <2>1, <2>2 DEF ReleaseOne
\* What the guest writes to the ports, EINTMASK and EINTPEND aside.
<1>5. ASSUME NEW q \in Ports, q.eintpend = io.eintpend, q.eintmask = io.eintmask,
             GuestPort(Pair(q, m))
      PROVE  PortInv' /\ ButtonsOK'
  <2>1. Sound(q, m, missed, outlived) BY <1>5, PortSound
  <2>2. SoundAfter(Pair(q, m), missed, outlived) BY <2>1, PairSound
  <2> QED BY <1>5, <2>2, BecomesSound DEF GuestPort, ButtonsOK, buttons
<1>6. CASE WriteGPGCON
  <2>1. PICK v \in GpgCons : GuestPort(Pair([io EXCEPT !.gpgcon = v], m))
    BY <1>6 DEF WriteGPGCON
  <2> DEFINE q == [io EXCEPT !.gpgcon = v]
  <2>2. v \in [Pin -> Modes] BY PortAssumption
  <2>3. q \in Ports /\ q.eintpend = io.eintpend /\ q.eintmask = io.eintmask
    BY <1>1, <2>2 DEF Ports
  <2>4. GuestPort(Pair(q, m)) BY <2>1
  <2> HIDE DEF q
  <2> QED BY <1>5, <2>3, <2>4
<1>7. CASE WriteGPGDAT
  <2>1. PICK v \in GpgDats : GuestPort(Pair([io EXCEPT !.gpgdat = v], m))
    BY <1>7 DEF WriteGPGDAT
  <2> DEFINE q == [io EXCEPT !.gpgdat = v]
  <2>2. v \in SUBSET Pin BY PortAssumption
  <2>3. q \in Ports /\ q.eintpend = io.eintpend /\ q.eintmask = io.eintmask
    BY <1>1, <2>2 DEF Ports
  <2>4. GuestPort(Pair(q, m)) BY <2>1
  <2> HIDE DEF q
  <2> QED BY <1>5, <2>3, <2>4
<1>8. CASE WriteGPFCON
  <2>1. PICK v \in GpfCons : GuestPort(Pair([io EXCEPT !.gpfcon = v], m))
    BY <1>8 DEF WriteGPFCON
  <2> DEFINE q == [io EXCEPT !.gpfcon = v]
  <2>2. v \in [FLine -> Modes] BY PortAssumption
  <2>3. q \in Ports /\ q.eintpend = io.eintpend /\ q.eintmask = io.eintmask
    BY <1>1, <2>2 DEF Ports
  <2>4. GuestPort(Pair(q, m)) BY <2>1
  <2> HIDE DEF q
  <2> QED BY <1>5, <2>3, <2>4
<1>9. CASE WriteGPFDAT
  <2>1. PICK v \in GpfDats : GuestPort(Pair([io EXCEPT !.gpfdat = v], m))
    BY <1>9 DEF WriteGPFDAT
  <2> DEFINE q == [io EXCEPT !.gpfdat = v]
  <2>2. v \in SUBSET FLine BY PortAssumption
  <2>3. q \in Ports /\ q.eintpend = io.eintpend /\ q.eintmask = io.eintmask
    BY <1>1, <2>2 DEF Ports
  <2>4. GuestPort(Pair(q, m)) BY <2>1
  <2> HIDE DEF q
  <2> QED BY <1>5, <2>3, <2>4
<1>10. CASE WriteEXTINT0
  <2>1. PICK v \in ExtInt0s : GuestPort(Pair([io EXCEPT !.extint0 = v], m))
    BY <1>10 DEF WriteEXTINT0
  <2> DEFINE q == [io EXCEPT !.extint0 = v]
  <2>2. v \in [FLine -> Triggers] BY PortAssumption
  <2>3. q \in Ports /\ q.eintpend = io.eintpend /\ q.eintmask = io.eintmask
    BY <1>1, <2>2 DEF Ports
  <2>4. GuestPort(Pair(q, m)) BY <2>1
  <2> HIDE DEF q
  <2> QED BY <1>5, <2>3, <2>4
<1>11. CASE WriteEXTINT1
  <2>1. PICK v \in ExtInt1s : GuestPort(Pair([io EXCEPT !.extint1 = v], m))
    BY <1>11 DEF WriteEXTINT1
  <2> DEFINE q == [io EXCEPT !.extint1 = v]
  <2>2. v \in [Row -> Triggers] BY PortAssumption
  <2>3. q \in Ports /\ q.eintpend = io.eintpend /\ q.eintmask = io.eintmask
    BY <1>1, <2>2 DEF Ports
  <2>4. GuestPort(Pair(q, m)) BY <2>1
  <2> HIDE DEF q
  <2> QED BY <1>5, <2>3, <2>4
<1>12. CASE ReadGPGDAT
  <2> DEFINE q == [io EXCEPT !.gpgdat = ScanKeys(io, keys)]
  <2>1. GuestPort(Pair(q, m)) BY <1>12 DEF ReadGPGDAT
  <2>2. q \in Ports /\ q.eintpend = io.eintpend /\ q.eintmask = io.eintmask
    BY <1>1, ScanType DEF Ports
  <2> HIDE DEF q
  <2> QED BY <1>5, <2>1, <2>2
<1>13. CASE WriteEINTPEND
  <2>1. PICK d \in SUBSET Eint : GuestPort(EintpendPut(io, m, d))
    BY <1>13 DEF WriteEINTPEND
  <2>2. SoundAfter(EintpendPut(io, m, d), missed, outlived) BY EintpendPutSound
  <2> QED BY <2>1, <2>2, BecomesSound DEF GuestPort, ButtonsOK, buttons
<1>14. CASE WriteEINTMASK
  <2>1. PICK v \in SUBSET Eint :
          /\ io' = [io EXCEPT !.eintmask = v]
          /\ missed' = missed \cup ((io.eintpend \cap io.eintmask) \ v)
    BY <1>14 DEF WriteEINTMASK
  <2>2. UNCHANGED <<m, keys, down, fdown, releasing, outlived>>
    BY <1>14 DEF WriteEINTMASK, buttons
  <2>3. io' \in Ports /\ io'.eintpend = io.eintpend /\ io'.eintmask = v
    BY <1>1, <2>1 DEF Ports
  <2>4. missed' \subseteq io'.eintpend BY <2>1, <2>3 DEF Sound
  <2>5. Carried(io', m, missed')
    <3> SUFFICES ASSUME NEW x \in Shared,
                        (io'.eintpend \cap Group(x)) \ (io'.eintmask \cup missed') # {}
                 PROVE  x \in m.src_pending
      BY DEF Carried
    <3>1. (io.eintpend \cap Group(x)) \ (io.eintmask \cup missed) # {} BY <2>1, <2>3
    <3> QED BY <3>1 DEF Sound, Carried
  <2>6. Caused(io', m, outlived) BY <2>3 DEF Sound, Caused
  <2>7. Sound(io', m, missed', outlived) BY <2>3, <2>4, <2>5, <2>6 DEF Sound
  <2> QED BY <2>2, <2>7 DEF ButtonsOK
<1>15. CASE WriteIntc
  <2>1. PICK d \in SUBSET Irq :
          \E t \in {SrcpndPut(m, d), IntmskPut(m, d), IntpndPut(m, d)} :
            GuestPort(Pair(io, t))
    BY <1>15 DEF WriteIntc
  <2>2. PICK t \in {SrcpndPut(m, d), IntmskPut(m, d), IntpndPut(m, d)} :
          GuestPort(Pair(io, t))
    BY <2>1
  <2>3. KeepsReached(m, t) /\ t.src_pending = m.src_pending
    BY <1>1, SrcpndPutReaches, MaskAndPendReach
  <2>4. SoundAfter(Pair(io, t), missed, outlived) BY <2>3, IntcSound, PairSound
  <2> QED BY <2>2, <2>4, BecomesSound DEF GuestPort, ButtonsOK, buttons
<1>16. CASE PortWatchdogReset
  <2>1. ModulesReset(m, "WATCHDOG") \in Machine BY <1>1, ModulesResetEffect
  <2>2. m' \in Machine BY <1>16, <2>1, CpuResetEffect DEF PortWatchdogReset
  <2>3. /\ io' = ResetPorts /\ missed' = {}
        /\ outlived' = m'.src_pending \cap Shared
        /\ UNCHANGED <<keys, down, fdown, releasing>>
    BY <1>16 DEF PortWatchdogReset, buttons
  <2>4. io' \in Ports /\ io'.eintpend = {}
    BY <2>3 DEF ResetPorts, Ports, Modes, Triggers
  <2>5. PortInv' BY <2>2, <2>3, <2>4 DEF Sound, Carried, Latched, Caused
  <2> QED BY <2>3, <2>5 DEF ButtonsOK
<1>17. CASE PortRestart
  <2>1. /\ io' = io /\ missed' = missed /\ releasing' = releasing
        /\ keys' = NoKeys /\ down' = {} /\ fdown' = {}
        /\ outlived' = m'.src_pending \cap Shared
        /\ m' = SetIdle(Reload(m), RUN)
    BY <1>17 DEF PortRestart
  <2>2. Reload(m) \in Machine /\ SameShared(m, Reload(m)) BY <1>1, ReloadShared
  <2>3. m' \in Machine /\ SameShared(m, m')
    BY <2>1, <2>2, SetIdleEffect DEF SameRegisters, SameShared
  <2>4. Carried(io, m', missed) BY <2>3 DEF Sound, Carried, SameShared
  <2>5. PortInv' BY <2>1, <2>3, <2>4 DEF Sound, Latched, Caused
  <2>6. ButtonsOK' BY <2>1 DEF ButtonsOK, NoKeys
  <2> QED BY <2>5, <2>6
<1> QED
  BY <1>2, <1>3, <1>4, <1>6, <1>7, <1>8, <1>9, <1>10, <1>11, <1>12, <1>13, <1>14,
     <1>15, <1>16, <1>17
  DEF PortNext, PortReset

LEMMA PortStep == PortInv /\ ButtonsOK /\ [PortNext]_portVars => PortInv' /\ ButtonsOK'
<1>1. ASSUME PortInv, ButtonsOK, UNCHANGED portVars PROVE PortInv' /\ ButtonsOK'
  BY <1>1 DEF portVars, PortInv, ButtonsOK
<1> QED BY <1>1, PortNextSound

-----------------------------------------------------------------------------
(***************************************************************************)
(* The theorems.                                                           *)
(***************************************************************************)
\* The registers of port and controller, the matrix and the buttons keep
\* their types, whatever keys, guest and resets do.
THEOREM PortTypeCorrect == PortSpec => []PortTypeOK
<1>1. PortInit => PortInv /\ ButtonsOK BY PortInitSound
<1>2. PortInv /\ ButtonsOK => PortTypeOK
  <2>1. ASSUME PortInv, ButtonsOK PROVE PortTypeOK
    <3>1. missed \subseteq io.eintpend /\ outlived \subseteq Shared \cap m.src_pending
      BY <2>1 DEF PortInv, Sound
    <3> QED BY <2>1, <3>1 DEF PortInv, Sound, ButtonsOK, PortTypeOK
  <2> QED BY <2>1
<1> QED BY <1>1, <1>2, PortStep, PTL DEF PortSpec

\* A key line that is pending and was unmasked when it came keeps a line of
\* the core up (s3c2410_io_port_g_set_bit to s3c2410_intc_gen_int), for any
\* keys, masks, acknowledgements and priorities.  The invariant: such a line
\* holds its source, and a held source has reached the core.
THEOREM KeyReachesCoreTheorem == PortSpec => []KeyReachesCore
<1>1. PortInit => PortInv /\ ButtonsOK BY PortInitSound
<1>2. PortInv => KeyReachesCore
  BY DEF PortInv, Sound, Carried, Latched, Reached, KeyReachesCore
<1> QED BY <1>1, <1>2, PortStep, PTL DEF PortSpec

\* A shared source the port holds in the controller has a pending line of its
\* group, so that the guest can release it (the write to EINTPEND).
THEOREM HeldSourceHasLineTheorem == PortSpec => []HeldSourceHasLine
<1>1. PortInit => PortInv /\ ButtonsOK BY PortInitSound
<1>2. PortInv => HeldSourceHasLine
  BY DEF PortInv, Sound, Caused, HeldSourceHasLine
<1> QED BY <1>1, <1>2, PortStep, PTL DEF PortSpec

\* Both copies of the matrix are the relation of the buttons that are down.
Matrix ==
  /\ \A c \in Col : keys.bycol[c] = {r \in Row : <<c, r>> \in down}
  /\ \A r \in Row : keys.byrow[r] = {c \in Col : <<c, r>> \in down}

LEMMA MatrixChange ==
  ASSUME ButtonsOK, Matrix, NEW k \in Keys,
         \/ /\ keys' = [keys EXCEPT !.bycol[k[1]] = @ \cup {k[2]},
                                    !.byrow[k[2]] = @ \cup {k[1]}]
            /\ down' = down \cup {k}
         \/ /\ keys' = [keys EXCEPT !.bycol[k[1]] = @ \ {k[2]},
                                    !.byrow[k[2]] = @ \ {k[1]}]
            /\ down' = down \ {k}
  PROVE  Matrix'
<1>1. PICK x \in Col, y \in Row : k = <<x, y>> BY PortAssumption
<1>2. keys.bycol \in [Col -> SUBSET Row] /\ keys.byrow \in [Row -> SUBSET Col]
      /\ keys \in [bycol : [Col -> SUBSET Row], byrow : [Row -> SUBSET Col]]
  BY DEF ButtonsOK
<1>3. \A c \in Col, r \in Row : <<c, r>> = k <=> c = x /\ r = y BY <1>1
<1>4. CASE /\ keys' = [keys EXCEPT !.bycol[k[1]] = @ \cup {k[2]},
                                   !.byrow[k[2]] = @ \cup {k[1]}]
           /\ down' = down \cup {k}
  <2>1. \A c \in Col : keys'.bycol[c] = IF c = x THEN keys.bycol[c] \cup {y} ELSE keys.bycol[c]
    BY <1>1, <1>2, <1>4
  <2>2. \A r \in Row : keys'.byrow[r] = IF r = y THEN keys.byrow[r] \cup {x} ELSE keys.byrow[r]
    BY <1>1, <1>2, <1>4
  <2>3. \A c \in Col, r \in Row : <<c, r>> \in down' <=> <<c, r>> \in down \/ (c = x /\ r = y)
    BY <1>3, <1>4
  <2>4. \A c \in Col : keys'.bycol[c] = {r \in Row : <<c, r>> \in down'}
    BY <1>1, <2>1, <2>3, ZenonT(40) DEF Matrix
  <2>5. \A r \in Row : keys'.byrow[r] = {c \in Col : <<c, r>> \in down'}
    BY <1>1, <2>2, <2>3, ZenonT(40) DEF Matrix
  <2> QED BY <2>4, <2>5 DEF Matrix
<1>5. CASE /\ keys' = [keys EXCEPT !.bycol[k[1]] = @ \ {k[2]},
                                   !.byrow[k[2]] = @ \ {k[1]}]
           /\ down' = down \ {k}
  <2>1. \A c \in Col : keys'.bycol[c] = IF c = x THEN keys.bycol[c] \ {y} ELSE keys.bycol[c]
    BY <1>1, <1>2, <1>5
  <2>2. \A r \in Row : keys'.byrow[r] = IF r = y THEN keys.byrow[r] \ {x} ELSE keys.byrow[r]
    BY <1>1, <1>2, <1>5
  <2>3. \A c \in Col, r \in Row : <<c, r>> \in down' <=> <<c, r>> \in down /\ ~(c = x /\ r = y)
    BY <1>3, <1>5
  <2>4. \A c \in Col : keys'.bycol[c] = {r \in Row : <<c, r>> \in down'}
    BY <1>1, <2>1, <2>3, ZenonT(40) DEF Matrix
  <2>5. \A r \in Row : keys'.byrow[r] = {c \in Col : <<c, r>> \in down'}
    BY <1>1, <2>2, <2>3, ZenonT(40) DEF Matrix
  <2> QED BY <2>4, <2>5 DEF Matrix
<1> QED BY <1>4, <1>5

LEMMA MatrixStep ==
  ASSUME ButtonsOK, Matrix, [PortNext]_portVars
  PROVE  Matrix'
<1>1. CASE UNCHANGED <<keys, down>> BY <1>1 DEF Matrix
<1>2. CASE \E k \in Keys : PressMatrix(k)
  BY <1>2, MatrixChange DEF PressMatrix
<1>3. CASE \E k \in down : ReleaseMatrix(k)
  BY <1>3, MatrixChange DEF ReleaseMatrix, ButtonsOK
<1>4. CASE PortRestart
  BY <1>4 DEF PortRestart, NoKeys, Matrix
<1>5. \/ UNCHANGED <<keys, down>> \/ PortRestart
      \/ \E k \in Keys : PressMatrix(k)
      \/ \E k \in down : ReleaseMatrix(k)
  BY DEF PortNext, portVars, buttons, Press, PressF, Release, ReleaseOne, ReleaseF, Released,
         GuestPort, WriteGPGCON, WriteGPGDAT, ReadGPGDAT, WriteGPFCON, WriteGPFDAT,
         WriteEXTINT0, WriteEXTINT1, WriteEINTMASK, WriteEINTPEND, WriteIntc,
         PortReset, PortWatchdogReset
<1> QED BY <1>1, <1>2, <1>3, <1>4, <1>5

\* A key goes down by its own press only.
LEMMA OnlyPressAdds ==
  ASSUME [PortNext]_portVars, NEW k \in Keys, k \in down', k \notin down
  PROVE  PressMatrix(k)
<1>1. \/ UNCHANGED down \/ down' \subseteq down
      \/ \E j \in Keys : PressMatrix(j)
  BY DEF PortNext, portVars, buttons, Press, PressF, Release, ReleaseOne, ReleaseF, Released,
         ReleaseMatrix,
         GuestPort, WriteGPGCON, WriteGPGDAT, ReadGPGDAT, WriteGPFCON, WriteGPFDAT,
         WriteEXTINT0, WriteEXTINT1, WriteEINTMASK, WriteEINTPEND, WriteIntc,
         PortReset, PortWatchdogReset, PortRestart
<1>2. PICK j \in Keys : PressMatrix(j) BY <1>1
<1>3. down' = down \cup {j} BY <1>2 DEF PressMatrix
<1> QED BY <1>2, <1>3

LEMMA MatrixScans ==
  ASSUME PortInv, ButtonsOK, Matrix
  PROVE  ScanFindsKeys
<1>1. Row \subseteq 1..7 /\ Col \subseteq 0..7 BY PortAssumption
<1>2. /\ \A c, x \in Col : ColPin(c) = ColPin(x) <=> c = x
      /\ \A c \in Col : ColPin(c) \in Pin /\ ColPin(c) \notin Row
      /\ Row \subseteq Pin
  <2>1. \A c, x \in Col : ColPin(c) = ColPin(x) <=> c = x BY <1>1 DEF ColPin
  <2>2. \A c \in Col : ColPin(c) \notin Row BY <1>1 DEF ColPin
  <2> QED BY <2>1, <2>2 DEF Pin
<1>3. \A pin, outs :
        /\ Scanning(pin, outs).gpgcon = [p \in Pin |-> IF p \in outs THEN "out" ELSE "in"]
        /\ Scanning(pin, outs).gpgdat = Pin \ {pin}
  BY DEF Scanning, PortInv, Sound, Ports
<1>4. ASSUME NEW c \in Col
      PROVE  Row \ ScanKeys(Scanning(ColPin(c), Pin \ Row), keys)
               = {r \in Row : <<c, r>> \in down}
  <2> DEFINE q == Scanning(ColPin(c), Pin \ Row)
  <2>1. /\ q.gpgcon = [p \in Pin |-> IF p \in Pin \ Row THEN "out" ELSE "in"]
        /\ q.gpgdat = Pin \ {ColPin(c)}
    BY <1>3
  <2> HIDE DEF q
  <2>2. LowCols(q) = {c} BY <1>2, <2>1 DEF LowCols
  <2>3. \A r \in Row : q.gpgcon[r] # "out" BY <1>2, <2>1
  <2>4. \A r \in Row : r \in ScanKeys(q, keys) <=> r \notin keys.bycol[c]
    BY <1>2, <2>2, <2>3 DEF ScanKeys
  <2> QED BY <2>4 DEF Matrix, q
<1>5. ASSUME NEW r \in Row
      PROVE  {c \in Col : ColPin(c) \notin ScanKeys(Scanning(r, Row), keys)}
               = {c \in Col : <<c, r>> \in down}
  <2> DEFINE q == Scanning(r, Row)
  <2>1. /\ q.gpgcon = [p \in Pin |-> IF p \in Row THEN "out" ELSE "in"]
        /\ q.gpgdat = Pin \ {r}
    BY <1>3
  <2> HIDE DEF q
  <2>2. LowRows(q) = {r} BY <1>2, <2>1 DEF LowRows
  <2>3. \A c \in Col : q.gpgcon[ColPin(c)] # "out" BY <1>2, <2>1
  <2>4. \A c \in Col : ColPin(c) \in ScanKeys(q, keys) <=> c \notin keys.byrow[r]
    BY <1>2, <2>2, <2>3 DEF ScanKeys
  <2> QED BY <2>4 DEF Matrix, q
<1> QED BY <1>4, <1>5 DEF ScanFindsKeys

LEMMA MatrixHolds == PortSpec => [](PortInv /\ ButtonsOK /\ Matrix)
<1>1. PortInit => PortInv /\ ButtonsOK /\ Matrix
  <2>1. ASSUME PortInit PROVE Matrix
    BY <2>1 DEF PortInit, NoKeys, Matrix
  <2> QED BY <2>1, PortInitSound
<1>2. PortInv /\ ButtonsOK /\ Matrix /\ [PortNext]_portVars
        => (PortInv /\ ButtonsOK /\ Matrix)'
  BY PortStep, MatrixStep
<1> QED BY <1>1, <1>2, PTL DEF PortSpec

\* A scan of a column or a row reads exactly the keys that are down in it
\* (s3c2410_scan_keys), for any set of keys, presses, releases and restarts.
\* The invariant is Matrix.
THEOREM ScanFindsKeysTheorem == PortSpec => []ScanFindsKeys
<1>1. PortInv /\ ButtonsOK /\ Matrix => ScanFindsKeys BY MatrixScans
<1> QED BY <1>1, MatrixHolds, PTL

LEMMA FallingFires ==
  ASSUME NEW trigger \in {"falling", "both"}, NEW from \in BOOLEAN
  PROVE  Fires(trigger, from, FALSE) <=> from
<1>1. CASE from = TRUE BY <1>1 DEF Fires
<1>2. CASE from = FALSE BY <1>2 DEF Fires
<1> QED BY <1>1, <1>2

\* What the press of a key makes of a row that waits: the row's pin reads low
\* from now on, and it fired if it read high before.
LEMMA WaitingRow ==
  ASSUME PortInv, Matrix, NEW r \in Row, Waiting(r)
  PROVE  LET w == GSetBit(io, m, keys, r, TRUE)
             free == \A c \in Col : <<c, r>> \notin down
         IN /\ free => RowEint(r) \in w.io.eintpend
            /\ ~free => w.m = m /\ w.io.eintpend = io.eintpend
<1> DEFINE dat == ScanKeys(io, keys)
           free == \A c \in Col : <<c, r>> \notin down
           moved == [io EXCEPT !.gpgdat = WithBit(dat, r, FALSE)]
<1>1. io \in Ports BY DEF PortInv, Sound
<1>2. /\ LowCols(io) = Col /\ io.gpgcon[r] = "int"
      /\ io.extint1[r] \in {"falling", "both"}
  BY DEF Waiting
<1>3. r \in Col /\ ColPin(r) \notin Row
  BY PortAssumption DEF ColPin
<1>4. io.gpgcon[ColPin(r)] = "out" /\ ColPin(r) \notin io.gpgdat
  BY <1>2, <1>3 DEF LowCols
<1>5. ColPin(r) \notin dat
  <2>1. \A x \in Col : ColPin(x) = ColPin(r) => x = r
    BY <1>3, PortAssumption DEF ColPin
  <2> QED BY <1>3, <1>4, <2>1 DEF ScanKeys
<1>6. r \in dat <=> free
  <2>1. \A x \in Col : ColPin(x) # r BY PortAssumption DEF ColPin
  <2>2. r \in dat <=> \A c \in Col : r \notin keys.bycol[c]
    BY <1>2, <2>1 DEF ScanKeys
  <2> QED BY <2>2 DEF Matrix
<1>7. Fires(io.extint1[r], r \in dat, FALSE) <=> r \in dat
  <2>1. (r \in dat) \in BOOLEAN OBVIOUS
  <2> QED BY <1>2, <2>1, FallingFires
<1>8. /\ moved.eintpend = io.eintpend
      /\ \A s, e : Pair(s, e).io = s /\ Pair(s, e).m = e
  BY <1>1 DEF Pair, Ports
<1>9. GSetBit(io, m, keys, r, TRUE)
        = IF r \in dat THEN Pend(moved, m, RowEint(r), EINT8_23) ELSE Pair(moved, m)
  BY <1>2, <1>4, <1>5, <1>7 DEF GSetBit
<1>10. RowEint(r) \in Pend(moved, m, RowEint(r), EINT8_23).io.eintpend
  <2>1. moved \in Ports
    <3>1. dat \in SUBSET Pin BY ScanType
    <3> QED BY <1>1, <3>1 DEF Ports, WithBit
  <2> HIDE DEF moved
  <2>2. RowEint(r) \in [moved EXCEPT !.eintpend = @ \cup {RowEint(r)}].eintpend
    BY <2>1 DEF Ports
  <2> QED BY <1>8, <2>2 DEF Pend
<1> HIDE DEF dat, moved
<1>11. CASE free BY <1>6, <1>9, <1>10, <1>11
<1>12. CASE ~free
  <2>1. GSetBit(io, m, keys, r, TRUE) = Pair(moved, m) BY <1>6, <1>9, <1>12
  <2>2. Pair(moved, m).io = moved /\ Pair(moved, m).m = m BY <1>8
  <2>3. /\ GSetBit(io, m, keys, r, TRUE).m = m
        /\ GSetBit(io, m, keys, r, TRUE).io.eintpend = io.eintpend
    BY <1>8, <2>1, <2>2
  <2> QED BY <1>12, <2>3
<1> QED BY <1>11, <1>12

\* The press of a key in a free row that waits for an interrupt makes the row
\* pending, and repeats of the press raise nothing more, whatever keys are
\* down in other rows (s3c2410_io_port_g_set_bit before x49gp_ui_button_press
\* updates the matrix).
THEOREM OneEdgePerPressTheorem == PortSpec => OneEdgePerPress
<1> DEFINE Edge == \A k \in Keys : Waiting(k[2]) =>
             /\ (k \in down' \ down /\ \A x \in down : x[2] # k[2])
                  => RowEint(k[2]) \in io'.eintpend
             /\ (k \in down /\ k \in down' /\ PressMatrix(k))
                  => UNCHANGED m /\ io'.eintpend = io.eintpend
<1>1. ASSUME PortInv, ButtonsOK, Matrix, [PortNext]_portVars PROVE Edge
  <2> SUFFICES ASSUME NEW k \in Keys, Waiting(k[2])
               PROVE  /\ (k \in down' \ down /\ \A x \in down : x[2] # k[2])
                           => RowEint(k[2]) \in io'.eintpend
                      /\ (k \in down /\ k \in down' /\ PressMatrix(k))
                           => UNCHANGED m /\ io'.eintpend = io.eintpend
    OBVIOUS
  <2>1. PICK c \in Col, r \in Row : k = <<c, r>>
    <3>1. k \in Col \X Row BY PortAssumption
    <3> QED BY <3>1
  <2>2. k[2] = r BY <2>1
  <2>3. ASSUME PressMatrix(k)
        PROVE  io' = GSetBit(io, m, keys, r, TRUE).io
               /\ m' = GSetBit(io, m, keys, r, TRUE).m
    BY <2>2, <2>3 DEF PressMatrix, Becomes
  <2>4. ASSUME k \in down', k \notin down, \A x \in down : x[2] # k[2]
        PROVE  RowEint(k[2]) \in io'.eintpend
    <3>1. PressMatrix(k) BY <1>1, <2>4, OnlyPressAdds
    <3>2. \A x \in Col : <<x, r>> \notin down BY <2>2, <2>4
    <3> QED BY <1>1, <2>2, <2>3, <3>1, <3>2, WaitingRow
  <2>5. ASSUME k \in down, PressMatrix(k)
        PROVE  UNCHANGED m /\ io'.eintpend = io.eintpend
    <3>1. ~ \A x \in Col : <<x, r>> \notin down BY <2>1, <2>5
    <3> QED BY <1>1, <2>2, <2>3, <2>5, <3>1, WaitingRow
  <2> QED BY <2>4, <2>5
<1>2. PortInv /\ ButtonsOK /\ Matrix /\ [PortNext]_portVars
        => [Edge]_portVars
  BY <1>1
<1> QED BY <1>2, MatrixHolds, PTL DEF PortSpec, OneEdgePerPress

-----------------------------------------------------------------------------
(***************************************************************************)
(* What the controller promises by itself (IntcProofs) it keeps under the  *)
(* port, whose steps are calls of its own: INTPND, INTOFFSET and the IRQ   *)
(* line go together, and nothing is granted that does not ask.             *)
(***************************************************************************)
StepsSoundly(s, t) == Keeps(s, t) /\ Eligible(s, t)

\* A set_bit function calls the controller at most once.
SetsBit(s, t) ==
  t = s \/ \E i \in Irq, level \in {0, 1} : t = Assert(s, i, level)

LEMMA AssertSteps ==
  ASSUME NEW s \in Machine, NEW t, SetsBit(s, t)
  PROVE  StepsSoundly(s, t)
<1>1. CASE t = s
  BY <1>1 DEF StepsSoundly, Keeps, Eligible, LineStep
<1>2. CASE \E i \in Irq, level \in {0, 1} : t = Assert(s, i, level)
  BY <1>2, AssertKeeps DEF StepsSoundly, Grows, Eligible
<1> QED BY <1>1, <1>2 DEF SetsBit

LEMMA PendSets ==
  ASSUME NEW p, NEW s, NEW line, NEW src \in Irq
  PROVE  SetsBit(s, Pend(p, s, line, src).m)
<1>1. Pend(p, s, line, src).m \in {s, Assert(s, src, 1)} BY DEF Pend, Pair
<1>2. 1 \in {0, 1} OBVIOUS
<1> QED BY <1>1, <1>2 DEF SetsBit

LEMMA GSetBitSets ==
  ASSUME NEW p, NEW s, NEW k, NEW n \in Row, NEW set
  PROVE  SetsBit(s, GSetBit(p, s, k, n, set).m)
<1>1. EINT8_23 \in Irq BY PortAssumption
<1>2. \/ GSetBit(p, s, k, n, set).m = s
      \/ \E q : GSetBit(p, s, k, n, set) = Pend(q, s, RowEint(n), EINT8_23)
  BY DEF GSetBit, Pair
<1> QED BY <1>1, <1>2, PendSets DEF SetsBit

LEMMA FSetBitSets ==
  ASSUME NEW p, NEW s, NEW n \in FLine, NEW value
  PROVE  SetsBit(s, FSetBit(p, s, n, value).m)
<1>1. n \notin 0..3 => EINT4_7 \in Irq
  <2>1. n \notin 0..3 => n \in FLine \cap 4..7 BY PortAssumption
  <2> QED BY <2>1, PortAssumption
<1>2. n \in 0..3 => n \in Irq BY PortAssumption
<1>3. \/ FSetBit(p, s, n, value).m = s
      \/ /\ n \in 0..3
         /\ \E level \in {0, 1} : FSetBit(p, s, n, value).m = Assert(s, n, level)
      \/ /\ n \notin 0..3
         /\ \E q : FSetBit(p, s, n, value) = Pend(q, s, n, EINT4_7)
  BY DEF FSetBit, Pair
<1> QED BY <1>1, <1>2, <1>3, PendSets DEF SetsBit

LEMMA EintpendPutSteps ==
  ASSUME NEW p, NEW s \in Machine, NEW d
  PROVE  StepsSoundly(s, EintpendPut(p, s, d).m)
<1> DEFINE lower == Deassert(s, EINT4_7)
<1>1. EintpendPut(p, s, d).m
        \in {s, lower, Deassert(s, EINT8_23), Deassert(lower, EINT8_23)}
  BY DEF EintpendPut, Pair
<1> DEFINE SameLine(t) == /\ t \in Machine /\ t.intpnd = s.intpnd
                          /\ t.intoffset = s.intoffset /\ t.intmod = s.intmod
                          /\ t.irq = s.irq
<1>2. ASSUME NEW t, SameLine(t), NEW irq PROVE SameLine(Deassert(t, irq))
  BY <1>2 DEF Deassert, Machine
<1>3. SameLine(s) OBVIOUS
<1> HIDE DEF SameLine
<1>4. SameLine(lower) /\ SameLine(Deassert(s, EINT8_23)) BY <1>2, <1>3
<1> HIDE DEF lower
<1>5. SameLine(Deassert(lower, EINT8_23)) BY <1>2, <1>4
<1>6. SameLine(EintpendPut(p, s, d).m) BY <1>1, <1>3, <1>4, <1>5
<1> QED
  BY <1>6 DEF SameLine, StepsSoundly, Keeps, Eligible, OneOffset, LineStep, LineFollows

LEMMA PortCalls ==
  ASSUME PortInv, ButtonsOK, PortNext
  PROVE  StepsSoundly(m, m')
<1>1. m \in Machine BY DEF PortInv, Sound
<1>2. CASE m' = m BY <1>1, <1>2, AssertSteps DEF SetsBit
<1>3. CASE Press
  <2>1. CASE \E k \in Keys : PressMatrix(k)
    <3>1. PICK k \in Keys : PressMatrix(k) BY <2>1
    <3>2. k[2] \in Row BY PortAssumption
    <3>3. m' = GSetBit(io, m, keys, k[2], TRUE).m BY <3>1 DEF PressMatrix, Becomes
    <3> QED BY <1>1, <3>2, <3>3, GSetBitSets, AssertSteps
  <2>2. CASE \E n \in FLine : PressF(n)
    <3>1. PICK n \in FLine : m' = FSetBit(io, m, n, TRUE).m BY <2>2 DEF PressF, Becomes
    <3> QED BY <1>1, <3>1, FSetBitSets, AssertSteps
  <2> QED BY <1>3, <2>1, <2>2 DEF Press
<1>4. CASE ReleaseOne
  <2>1. CASE \E k \in down : ReleaseMatrix(k)
    <3>1. PICK k \in down : ReleaseMatrix(k) BY <2>1
    <3>2. k \in Keys /\ k[2] \in Row BY PortAssumption DEF ButtonsOK
    <3>3. m' = GSetBit(io, m, keys, k[2], FALSE).m BY <3>1 DEF ReleaseMatrix, Becomes
    <3> QED BY <1>1, <3>2, <3>3, GSetBitSets, AssertSteps
  <2>2. CASE \E n \in fdown : ReleaseF(n)
    <3>1. PICK n \in fdown : m' = FSetBit(io, m, n, FALSE).m
      BY <2>2 DEF ReleaseF, Becomes
    <3>2. n \in FLine BY DEF ButtonsOK
    <3> QED BY <1>1, <3>1, <3>2, FSetBitSets, AssertSteps
  <2> QED BY <1>4, <2>1, <2>2 DEF ReleaseOne
<1>5. CASE WriteEINTPEND
  <2>1. PICK d \in SUBSET Eint : m' = EintpendPut(io, m, d).m
    BY <1>5 DEF WriteEINTPEND, GuestPort, Becomes
  <2> QED BY <1>1, <2>1, EintpendPutSteps
<1>6. CASE WriteIntc
  <2>1. PICK d \in SUBSET Irq : m' \in {SrcpndPut(m, d), IntmskPut(m, d), IntpndPut(m, d)}
    BY <1>6 DEF WriteIntc, GuestPort, Becomes, Pair
  <2> QED BY <1>1, <2>1, SrcpndPutKeeps, IntmskPutKeeps, IntpndPutKeeps DEF StepsSoundly
<1>7. CASE PortWatchdogReset
  <2> DEFINE t == ModulesReset(m, "WATCHDOG")
  <2>1. t \in Machine /\ t.intpnd = {} /\ t.intmod = {} BY <1>1, ModulesResetEffect
  <2>2. m' = CpuReset(t) BY <1>7 DEF PortWatchdogReset
  <2> HIDE DEF t
  <2>3. m' \in Machine /\ m'.intpnd = {} /\ m'.intmod = {} /\ ~m'.irq
    BY <2>1, <2>2, CpuResetEffect
  <2> QED BY <2>3 DEF StepsSoundly, Keeps, Eligible, OneOffset, LineStep, LineFollows
<1>8. CASE PortRestart
  <2>1. m' = SetIdle(Reload(m), RUN) BY <1>8 DEF PortRestart
  <2>2. Keeps(m, Reload(m)) /\ Eligible(m, Reload(m)) BY <1>1, ReloadKeeps
  <2>3. Reload(m) \in Machine /\ RUN \in {RUN, SLEEP, OFF} BY <2>2 DEF Keeps
  <2>4. /\ Keeps(Reload(m), m') /\ SameRegisters(Reload(m), m')
        /\ m'.intpnd = Reload(m).intpnd
    BY <2>1, <2>3, SetIdleKeeps, SetIdleEffect
  <2> QED
    BY <2>2, <2>4 DEF StepsSoundly, Keeps, Eligible, SameRegisters, LineStep, LineFollows
<1>9. Release \/ Released \/ WriteGPGCON \/ WriteGPGDAT \/ ReadGPGDAT \/ WriteGPFCON
      \/ WriteGPFDAT \/ WriteEXTINT0 \/ WriteEXTINT1 \/ WriteEINTMASK => m' = m
  BY DEF Release, Released, WriteGPGCON, WriteGPGDAT, ReadGPGDAT, WriteGPFCON,
         WriteGPFDAT, WriteEXTINT0, WriteEXTINT1, WriteEINTMASK, GuestPort, Becomes, Pair
<1> QED
  BY <1>2, <1>3, <1>4, <1>5, <1>6, <1>7, <1>8, <1>9 DEF PortNext, PortReset

ControllerSound == OneOffset(m) /\ LineFollows(m)

LEMMA ControllerStarts == PortInit => ControllerSound
<1> SUFFICES ASSUME PortInit PROVE ControllerSound OBVIOUS
<1>1. PICK p \in Priorities : m = PriorityPut(ColdMachine, p) BY DEF PortInit
<1>2. p \in PriorityWord BY GuestAssumption
<1>3. ColdMachine \in Machine /\ OneOffset(ColdMachine) /\ LineFollows(ColdMachine)
  BY DEF ColdMachine, Machine, ResetPriority, PriorityWord, Arbiters, OneOffset,
         LineFollows
<1> QED
  BY <1>1, <1>2, <1>3, PriorityPutKeeps
  DEF Keeps, ControllerSound, LineStep, LineFollows

LEMMA ControllerHolds == PortSpec => [](PortInv /\ ButtonsOK /\ ControllerSound)
<1>1. PortInit => PortInv /\ ButtonsOK /\ ControllerSound
  BY PortInitSound, ControllerStarts
<1>2. PortInv /\ ButtonsOK /\ ControllerSound /\ [PortNext]_portVars
        => (PortInv /\ ButtonsOK /\ ControllerSound)'
  <2> SUFFICES ASSUME PortInv, ButtonsOK, ControllerSound, [PortNext]_portVars
               PROVE  ControllerSound'
    BY PortStep
  <2>1. CASE PortNext
    BY <2>1, PortCalls DEF StepsSoundly, Keeps, ControllerSound, LineStep, LineFollows
  <2>2. CASE UNCHANGED portVars
    BY <2>2 DEF portVars, ControllerSound
  <2> QED BY <2>1, <2>2
<1> QED BY <1>1, <1>2, PTL DEF PortSpec

\* With the keyboard at its sources INTPND still never holds but the source
\* INTOFFSET names, and the core's IRQ line is up exactly while it holds one, for
\* any keys, acknowledgements, watchdog resets and restarts of a machine that is
\* not switched off: what calls s3c2410_intc_assert and _deassert, twice in a
\* write to EINTPEND, cannot part them.
THEOREM PortDispatchTheorem ==
  PortSpec => [](OffsetNamesPending /\ LineAgrees)
<1>1. ControllerSound => OffsetNamesPending /\ LineAgrees
  BY DEF ControllerSound, OneOffset, LineFollows, OffsetNamesPending, LineAgrees
<1> QED BY <1>1, ControllerHolds, PTL

\* No key, no acknowledgement and no restart grants a source that is masked or
\* no longer latched.
THEOREM PortGrantTheorem == PortSpec => GrantIsEligible
<1>1. PortInv /\ ButtonsOK /\ [PortNext]_portVars
        => [m'.intpnd \ m.intpnd \subseteq m'.srcpnd \ m'.intmsk]_m
  BY PortCalls DEF StepsSoundly, Eligible, portVars
<1> QED BY <1>1, ControllerHolds, PTL DEF PortSpec, GrantIsEligible
=============================================================================
