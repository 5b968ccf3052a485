----------------------------- MODULE IntcProofs -----------------------------
(***************************************************************************)
(* Proofs about the interrupt controller for every set of sources, every   *)
(* guest and, unless a theorem says otherwise, every kind of reset.        *)
(***************************************************************************)
EXTENDS Intc, TLAPS

-----------------------------------------------------------------------------
(***************************************************************************)
(* Arbitration.                                                            *)
(***************************************************************************)
\* An arbiter that sees a request lets one of its requests through.
LEMMA SelectIntSelects ==
  ASSUME NEW a \in Arbiters, NEW sel \in 0..3, NEW service,
         NEW i \in 1..6, ArbReq[a + 1][i] \in service, -1 \notin service
  PROVE  SelectInt(ArbReq[a + 1], sel, service) \in service
<1> DEFINE order == ArbOrder[sel + 1]
           asking == {k \in 1..6 : ArbReq[a + 1][order[k]] \in service}
<1>1. \E k \in 1..6 : order[k] = i
  BY DEF ArbOrder
<1>2. \E k \in asking : \A j \in asking : k <= j
  <2>1. asking \subseteq 1..6 /\ asking # {}
    BY <1>1
  <2> HIDE DEF asking
  <2>2. CASE 1 \in asking BY <2>1, <2>2
  <2>3. CASE 1 \notin asking /\ 2 \in asking BY <2>1, <2>3
  <2>4. CASE 1 \notin asking /\ 2 \notin asking /\ 3 \in asking BY <2>1, <2>4
  <2>5. CASE 1 \notin asking /\ 2 \notin asking /\ 3 \notin asking /\ 4 \in asking
    BY <2>1, <2>5
  <2>6. CASE 1 \notin asking /\ 2 \notin asking /\ 3 \notin asking /\ 4 \notin asking
             /\ 5 \in asking
    BY <2>1, <2>6
  <2>7. CASE asking = {6} BY <2>7
  <2>8. \/ 1 \in asking \/ 2 \in asking \/ 3 \in asking \/ 4 \in asking
        \/ 5 \in asking \/ asking = {6}
    <3>1. \A k \in asking : k \in {1, 2, 3, 4, 5, 6} BY <2>1
    <3> QED BY <2>1, <3>1
  <2> QED BY <2>2, <2>3, <2>4, <2>5, <2>6, <2>7, <2>8
<1> DEFINE first == CHOOSE k \in asking : \A j \in asking : k <= j
<1>3. first \in asking
  BY <1>2
<1>4. SelectInt(ArbReq[a + 1], sel, service) = ArbReq[a + 1][order[first]]
  BY <1>2 DEF SelectInt
<1> QED BY <1>3, <1>4

\* An arbiter lets nothing through but a request, or -1.
LEMMA SelectIntEligible ==
  ASSUME NEW a \in Arbiters, NEW sel \in 0..3, NEW service, -1 \notin service,
         SelectInt(ArbReq[a + 1], sel, service) # -1
  PROVE  SelectInt(ArbReq[a + 1], sel, service) \in service
<1>1. {k \in 1..6 : ArbReq[a + 1][ArbOrder[sel + 1][k]] \in service} # {}
  BY DEF SelectInt
<1>2. \A k \in 1..6 : ArbOrder[sel + 1][k] \in 1..6
  BY DEF ArbOrder
<1> QED BY <1>1, <1>2, SelectIntSelects

\* Every source of the chip is wired to a slot of one of the six arbiters.
LEMMA EverySourceHasSlot ==
  ASSUME NEW i \in (0..31) \ Unused
  PROVE  \E a \in 0..5, k \in 1..6 : ArbReq[a + 1][k] = i
BY SMTT(60) DEF ArbReq, Unused, EINT0, EINT1, EINT2, EINT3, EINT4_7, EINT8_23, nBATT_FLT,
       INT_TICK, INT_WDT, INT_UART2, INT_UART1, INT_UART0, INT_RTC, INT_ADC

-----------------------------------------------------------------------------
(***************************************************************************)
(* What each operation keeps.  OneOffset, Served and Held are invariants   *)
(* of Intc, and LineFollows its LineAgrees, said of any record.            *)
(***************************************************************************)
OneOffset(s) == s.intpnd \subseteq {s.intoffset}
Served(s) == s.srcpnd \ s.intmsk # {} => s.irq \/ s.fiq
Held(s) == s.src_pending \subseteq s.srcpnd
LineFollows(s) == s.intmod = {} /\ (s.irq <=> s.intpnd # {})

\* Where nothing is routed to FIQ: the step arbitrated, or touched neither the
\* line nor INTPND.
LineStep(s, t) ==
  s.intmod = {} =>
    /\ t.intmod = {}
    /\ LineFollows(t) \/ (t.irq = s.irq /\ t.intpnd = s.intpnd)

\* The registers and levels arbitration leaves alone.
SameRegisters(s, t) ==
  /\ t.srcpnd = s.srcpnd /\ t.intmod = s.intmod /\ t.intmsk = s.intmsk
  /\ t.src_pending = s.src_pending
  /\ t.subsrcpnd = s.subsrcpnd /\ t.intsubmsk = s.intsubmsk
  /\ t.subsrc_pending = s.subsrc_pending

LEMMA SetIdleEffect ==
  ASSUME NEW s \in Machine, NEW idle \in {RUN, SLEEP, OFF}
  PROVE  /\ SetIdle(s, idle) \in Machine
         /\ SameRegisters(s, SetIdle(s, idle))
         /\ SetIdle(s, idle).intpnd = s.intpnd
         /\ SetIdle(s, idle).intoffset = s.intoffset
         /\ SetIdle(s, idle).irq = s.irq
         /\ SetIdle(s, idle).fiq = s.fiq
         /\ SetIdle(s, idle).idle = idle
         /\ idle = RUN => ~SetIdle(s, idle).halted
         /\ idle = RUN => SetIdle(s, idle).exit_request = s.exit_request
BY DEF Machine, SetIdle, SameRegisters

\* The core is woken, or left as it is and then without a line.
Wakes(s, t) ==
  /\ \/ t.idle = s.idle /\ ~t.irq /\ ~t.fiq
     \/ t.idle = RUN
  /\ t.exit_request = s.exit_request
  /\ t.halted => s.halted

\* A grant names one eligible source, in INTPND and INTOFFSET alike.
LEMMA GrantEffect ==
  ASSUME NEW s \in Machine, NEW service \in SUBSET Irq, service # {}
  PROVE  \E w \in service :
           /\ Grant(s, service) \in Machine
           /\ SameRegisters(s, Grant(s, service))
           /\ Grant(s, service).intpnd = s.intpnd \cup {w}
           /\ Grant(s, service).intoffset = w
           /\ Grant(s, service).irq
           /\ Wakes(s, Grant(s, service))
<1> DEFINE offset == [a \in 0..5 |-> SelectInt(ArbReq[a + 1], s.sel[a], service)]
           request == {a \in 0..5 : offset[a] # -1}
           last == SelectInt(ArbReq[7], s.sel[6], request)
           winner == offset[last]
           moved == [s EXCEPT
                       !.sel = [a \in Arbiters |->
                                  IF a \in request \cup {6} /\ s.mode[a]
                                  THEN (s.sel[a] + 1) % 4 ELSE s.sel[a]],
                       !.intoffset = winner,
                       !.intpnd = @ \cup {winner},
                       !.irq = TRUE]
<1>1. /\ s.sel \in [Arbiters -> 0..3]
      /\ -1 \notin service /\ -1 \notin request
  BY IrqAssumption DEF Machine
<1>2. request # {}
  <2>1. PICK i \in service : TRUE BY DEF Machine
  <2>2. PICK a \in 0..5, k \in 1..6 : ArbReq[a + 1][k] = i
    BY <2>1, IrqAssumption, EverySourceHasSlot
  <2>3. SelectInt(ArbReq[a + 1], s.sel[a], service) \in service
    BY <1>1, <2>1, <2>2, SelectIntSelects DEF Arbiters
  <2> QED BY <1>1, <2>3
<1>3. last \in request
  <2>1. PICK a \in request : TRUE BY <1>2
  <2>2. a \in 0..5 /\ ArbReq[6 + 1][a + 1] = a
    BY <2>1 DEF ArbReq
  <2> HIDE DEF request
  <2>3. SelectInt(ArbReq[6 + 1], s.sel[6], request) \in request
    BY <1>1, <2>1, <2>2, SelectIntSelects DEF Arbiters
  <2> QED BY <2>3
<1>4. winner \in service
  <2>1. last \in 0..5 /\ winner = SelectInt(ArbReq[last + 1], s.sel[last], service)
        /\ winner # -1
    BY <1>3
  <2> HIDE DEF winner, last
  <2> QED BY <1>1, <2>1, SelectIntEligible DEF Arbiters
<1>5. Grant(s, service) = SetIdle(moved, RUN)
  BY <1>2 DEF Grant
<1>6. /\ moved \in Machine /\ SameRegisters(s, moved)
      /\ moved.intpnd = s.intpnd \cup {winner}
      /\ moved.intoffset = winner /\ moved.irq
      /\ moved.exit_request = s.exit_request
  <2> HIDE DEF request, winner
  <2>1. [a \in Arbiters |-> IF a \in request \cup {6} /\ s.mode[a]
                            THEN (s.sel[a] + 1) % 4 ELSE s.sel[a]]
          \in [Arbiters -> 0..3]
    BY <1>1
  <2> QED BY <1>4, <2>1 DEF Machine, SameRegisters
<1> HIDE DEF moved, winner
<1>7. SameRegisters(moved, SetIdle(moved, RUN)) => SameRegisters(s, SetIdle(moved, RUN))
  BY <1>6 DEF SameRegisters
<1>8. RUN \in {RUN, SLEEP, OFF} OBVIOUS
<1> QED BY <1>4, <1>5, <1>6, <1>7, <1>8, SetIdleEffect DEF Wakes

\* Whatever the state before it, arbitration leaves no eligible source
\* unserved and grants at most one.
LEMMA GenIntEffect ==
  ASSUME NEW s \in Machine
  PROVE  /\ GenInt(s) \in Machine
         /\ SameRegisters(s, GenInt(s))
         /\ Served(GenInt(s))
         /\ OneOffset(s) => OneOffset(GenInt(s))
         /\ s.intmod = {} => LineFollows(GenInt(s))
         /\ GenInt(s).intpnd \ s.intpnd \subseteq s.srcpnd \ s.intmsk
         /\ Wakes(s, GenInt(s))
<1> DEFINE quiet == [s EXCEPT !.fiq = FALSE]
           service == s.srcpnd \ s.intmsk
<1>1. CASE s.srcpnd \cap s.intmod # {}
  <2> DEFINE fast == [s EXCEPT !.fiq = TRUE]
  <2>1. GenInt(s) = SetIdle(fast, RUN) BY <1>1 DEF GenInt
  <2>2. /\ fast \in Machine /\ SameRegisters(s, fast) /\ fast.fiq
        /\ fast.intpnd = s.intpnd /\ fast.intoffset = s.intoffset
        /\ fast.exit_request = s.exit_request
    BY DEF Machine, SameRegisters
  <2> HIDE DEF fast
  <2>3. RUN \in {RUN, SLEEP, OFF} OBVIOUS
  <2> QED
    BY <1>1, <2>1, <2>2, <2>3, SetIdleEffect
    DEF SameRegisters, Served, OneOffset, LineFollows, Wakes
<1>2. CASE s.srcpnd \cap s.intmod = {} /\ s.intpnd # {}
  <2> DEFINE again == [quiet EXCEPT !.irq = TRUE]
  <2>1. GenInt(s) = SetIdle(again, RUN) BY <1>2 DEF GenInt
  <2>2. /\ again \in Machine /\ SameRegisters(s, again) /\ again.irq
        /\ again.intpnd = s.intpnd /\ again.intoffset = s.intoffset
        /\ again.exit_request = s.exit_request
    BY DEF Machine, SameRegisters
  <2> HIDE DEF again
  <2>3. RUN \in {RUN, SLEEP, OFF} OBVIOUS
  <2> QED
    BY <1>2, <2>1, <2>2, <2>3, SetIdleEffect
    DEF SameRegisters, Served, OneOffset, LineFollows, Wakes
<1>3. CASE s.srcpnd \cap s.intmod = {} /\ s.intpnd = {} /\ service = {}
  <2>1. GenInt(s) = [quiet EXCEPT !.irq = FALSE] BY <1>3 DEF GenInt
  <2> QED BY <1>3, <2>1 DEF SameRegisters, Served, OneOffset, LineFollows, Wakes, Machine
<1>4. CASE s.srcpnd \cap s.intmod = {} /\ s.intpnd = {} /\ service # {}
  <2>1. GenInt(s) = Grant(quiet, service) BY <1>4 DEF GenInt
  <2>2. quiet \in Machine /\ service \in SUBSET Irq BY DEF Machine
  <2>3. quiet.intpnd = s.intpnd /\ SameRegisters(s, quiet) /\ quiet.idle = s.idle
        /\ quiet.exit_request = s.exit_request /\ quiet.halted = s.halted
    BY DEF Machine, SameRegisters
  <2> HIDE DEF quiet, service
  <2>4. PICK w \in service :
           /\ GenInt(s) \in Machine
           /\ SameRegisters(quiet, GenInt(s))
           /\ GenInt(s).intpnd = quiet.intpnd \cup {w}
           /\ GenInt(s).intoffset = w
           /\ GenInt(s).irq
           /\ Wakes(quiet, GenInt(s))
    BY <1>4, <2>1, <2>2, GrantEffect
  <2>5. w \in s.srcpnd \ s.intmsk BY DEF service
  <2> QED BY <1>4, <2>3, <2>4, <2>5 DEF SameRegisters, Served, OneOffset, LineFollows, Wakes
<1> QED BY <1>1, <1>2, <1>3, <1>4

-----------------------------------------------------------------------------
(***************************************************************************)
(* Keeps: what every operation keeps, resets included.  KeepsServed: what  *)
(* every operation but a reset keeps.  Grows: nothing is taken from the    *)
(* latched sources, and INTPND gains eligible ones only.                   *)
(***************************************************************************)
Keeps(s, t) ==
  /\ t \in Machine
  /\ OneOffset(s) => OneOffset(t)
  /\ LineStep(s, t)

KeepsServed(s, t) == Served(s) /\ Held(s) => Served(t) /\ Held(t)

Grows(s, t) ==
  /\ s.srcpnd \subseteq t.srcpnd
  /\ t.intmsk = s.intmsk
  /\ t.intpnd \ s.intpnd \subseteq t.srcpnd \ t.intmsk

LEMMA Chain ==
  ASSUME NEW s, NEW t, NEW u,
         Keeps(s, t), KeepsServed(s, t), Grows(s, t),
         Keeps(t, u), KeepsServed(t, u), Grows(t, u)
  PROVE  Keeps(s, u) /\ KeepsServed(s, u) /\ Grows(s, u)
BY DEF Keeps, KeepsServed, Grows, LineStep, LineFollows

LEMMA SetIdleKeeps ==
  ASSUME NEW s \in Machine, NEW idle \in {RUN, SLEEP, OFF}
  PROVE  Keeps(s, SetIdle(s, idle)) /\ KeepsServed(s, SetIdle(s, idle))
         /\ Grows(s, SetIdle(s, idle))
BY SetIdleEffect
   DEF Keeps, KeepsServed, Grows, SameRegisters, OneOffset, Served, Held, LineStep, LineFollows

LEMMA GenIntKeeps ==
  ASSUME NEW s \in Machine
  PROVE  Keeps(s, GenInt(s)) /\ KeepsServed(s, GenInt(s)) /\ Grows(s, GenInt(s))
BY GenIntEffect DEF Keeps, KeepsServed, Grows, SameRegisters, Held, LineStep, LineFollows

LEMMA AssertKeeps ==
  ASSUME NEW s \in Machine, NEW irq \in Irq, NEW level \in {0, 1}
  PROVE  Keeps(s, Assert(s, irq, level)) /\ KeepsServed(s, Assert(s, irq, level))
         /\ Grows(s, Assert(s, irq, level))
<1> DEFINE latch == [s EXCEPT
                       !.src_pending = IF level = 1 THEN @ \cup {irq} ELSE @,
                       !.srcpnd = @ \cup {irq}]
           latched == IF irq \in s.src_pending THEN s ELSE GenInt(latch)
<1>1. latched \in Machine /\ Keeps(s, latched) /\ KeepsServed(s, latched)
      /\ Grows(s, latched)
  <2>1. CASE irq \in s.src_pending
    BY <2>1 DEF Keeps, KeepsServed, Grows, LineStep
  <2>2. CASE irq \notin s.src_pending
    <3>1. /\ latch \in Machine
          /\ latch.srcpnd = s.srcpnd \cup {irq} /\ latch.intmsk = s.intmsk
          /\ latch.src_pending \subseteq s.src_pending \cup {irq}
          /\ latch.intpnd = s.intpnd /\ latch.intoffset = s.intoffset
          /\ latch.intmod = s.intmod
      BY DEF Machine
    <3> HIDE DEF latch
    <3>2. latched = GenInt(latch) BY <2>2
    <3> QED
      BY <3>1, <3>2, GenIntEffect
      DEF Keeps, KeepsServed, Grows, SameRegisters, OneOffset, Held, LineStep, LineFollows
  <2> QED BY <2>1, <2>2
<1>2. \/ Assert(s, irq, level) = latched
      \/ Assert(s, irq, level) = SetIdle(latched, RUN)
  BY DEF Assert
<1> HIDE DEF latched
<1>3. RUN \in {RUN, SLEEP, OFF} OBVIOUS
<1> QED BY <1>1, <1>2, <1>3, SetIdleKeeps, Chain

LEMMA DeassertKeeps ==
  ASSUME NEW s \in Machine, NEW irq
  PROVE  Keeps(s, Deassert(s, irq)) /\ KeepsServed(s, Deassert(s, irq))
         /\ Grows(s, Deassert(s, irq))
BY DEF Deassert, Machine, Keeps, KeepsServed, Grows, OneOffset, Served, Held,
     LineStep, LineFollows

LEMMA FoldKeeps ==
  ASSUME NEW s \in Machine, NEW p, NEW service \in SUBSET SubIrq
  PROVE  Keeps(s, Fold(s, p, service)) /\ KeepsServed(s, Fold(s, p, service))
         /\ Grows(s, Fold(s, p, service))
<1>1. CASE \E x \in service : Parent(x) = p
  BY <1>1, SubIrqAssumption, AssertKeeps DEF Fold
<1>2. CASE ~ \E x \in service : Parent(x) = p
  BY <1>2, DeassertKeeps DEF Fold
<1> QED BY <1>1, <1>2

LEMMA GenIntFromSubIntKeeps ==
  ASSUME NEW s \in Machine
  PROVE  Keeps(s, GenIntFromSubInt(s)) /\ KeepsServed(s, GenIntFromSubInt(s))
         /\ Grows(s, GenIntFromSubInt(s))
<1> DEFINE service == s.subsrcpnd \ s.intsubmsk
           uart0 == Fold(s, INT_UART0, service)
           uart1 == Fold(uart0, INT_UART1, service)
           uart2 == Fold(uart1, INT_UART2, service)
           adc == Fold(uart2, INT_ADC, service)
           last == [adc EXCEPT !.subsrcpnd = adc.subsrc_pending]
<1>1. service \in SUBSET SubIrq BY DEF Machine
<1>2. GenIntFromSubInt(s) = last BY DEF GenIntFromSubInt
<1> HIDE DEF service
<1>3. Keeps(s, uart0) /\ KeepsServed(s, uart0) /\ Grows(s, uart0)
  BY <1>1, FoldKeeps
<1> HIDE DEF uart0
<1>4. Keeps(s, uart1) /\ KeepsServed(s, uart1) /\ Grows(s, uart1)
  BY <1>1, <1>3, FoldKeeps, Chain DEF Keeps
<1> HIDE DEF uart1
<1>5. Keeps(s, uart2) /\ KeepsServed(s, uart2) /\ Grows(s, uart2)
  BY <1>1, <1>4, FoldKeeps, Chain DEF Keeps
<1> HIDE DEF uart2
<1>6. Keeps(s, adc) /\ KeepsServed(s, adc) /\ Grows(s, adc)
  BY <1>1, <1>5, FoldKeeps, Chain DEF Keeps
<1> HIDE DEF adc
<1>7. adc \in Machine BY <1>6 DEF Keeps
<1>8. Keeps(adc, last) /\ KeepsServed(adc, last) /\ Grows(adc, last)
  BY <1>7 DEF Machine, Keeps, KeepsServed, Grows, OneOffset, Served, Held,
     LineStep, LineFollows
<1> QED BY <1>2, <1>6, <1>8, Chain

-----------------------------------------------------------------------------
(***************************************************************************)
(* The register writes.  Each changes a few registers, then arbitrates or  *)
(* folds the sub-sources again.                                            *)
(***************************************************************************)
Eligible(s, t) == t.intpnd \ s.intpnd \subseteq t.srcpnd \ t.intmsk

\* A change that leaves INTPND, INTOFFSET and INTMOD sound may be followed by
\* arbitration.
LEMMA ThenGenInt ==
  ASSUME NEW s \in Machine, NEW t \in Machine,
         t.intpnd \subseteq s.intpnd, t.intoffset = s.intoffset,
         t.intmod = s.intmod, Held(s) => Held(t)
  PROVE  Keeps(s, GenInt(t)) /\ KeepsServed(s, GenInt(t)) /\ Eligible(s, GenInt(t))
<1> DEFINE u == GenInt(t)
<1>1. /\ u \in Machine /\ SameRegisters(t, u) /\ Served(u)
      /\ OneOffset(t) => OneOffset(u)
      /\ t.intmod = {} => LineFollows(u)
      /\ u.intpnd \ t.intpnd \subseteq t.srcpnd \ t.intmsk
  BY GenIntEffect
<1> HIDE DEF u
<1>2. Held(t) => Held(u)
  BY <1>1 DEF Held, SameRegisters
<1>3. OneOffset(s) => OneOffset(t)
  BY DEF OneOffset
<1>4. Eligible(s, u)
  BY <1>1 DEF Eligible, SameRegisters
<1>5. LineStep(s, u)
  BY <1>1 DEF LineStep, LineFollows
<1> QED BY <1>1, <1>2, <1>3, <1>4, <1>5 DEF Keeps, KeepsServed, u

LEMMA SrcpndPutKeeps ==
  ASSUME NEW s \in Machine, NEW d \in SUBSET Irq
  PROVE  Keeps(s, SrcpndPut(s, d)) /\ KeepsServed(s, SrcpndPut(s, d))
         /\ Eligible(s, SrcpndPut(s, d))
<1> DEFINE t == [s EXCEPT !.srcpnd = (@ \ d) \cup s.src_pending]
<1>1. /\ t \in Machine /\ t.intpnd = s.intpnd /\ t.intoffset = s.intoffset
      /\ t.intmod = s.intmod /\ t.intmsk = s.intmsk /\ t.src_pending = s.src_pending
      /\ t.srcpnd = (s.srcpnd \ d) \cup s.src_pending
      /\ t.irq = s.irq /\ t.fiq = s.fiq
  BY DEF Machine
<1>2. SrcpndPut(s, d) = t \/ SrcpndPut(s, d) = GenInt(t)
  BY DEF SrcpndPut
<1> HIDE DEF t
<1>3. Keeps(s, t) /\ KeepsServed(s, t) /\ Eligible(s, t)
  BY <1>1 DEF Keeps, KeepsServed, Eligible, OneOffset, Served, Held, LineStep, LineFollows
<1> QED BY <1>1, <1>2, <1>3, ThenGenInt DEF Held

LEMMA IntmodPutKeeps ==
  ASSUME NEW s \in Machine, NEW d \in SUBSET Irq
  PROVE  /\ IntmodPut(s, d) \in Machine
         /\ OneOffset(s) => OneOffset(IntmodPut(s, d))
         /\ d = {} => LineFollows(IntmodPut(s, d))
         /\ KeepsServed(s, IntmodPut(s, d)) /\ Eligible(s, IntmodPut(s, d))
<1> DEFINE t == [s EXCEPT !.intmod = d]
<1>1. /\ t \in Machine /\ t.intpnd = s.intpnd /\ t.intoffset = s.intoffset
      /\ t.intmod = d /\ t.srcpnd = s.srcpnd /\ t.src_pending = s.src_pending
      /\ IntmodPut(s, d) = GenInt(t)
  BY DEF Machine, IntmodPut
<1> HIDE DEF t
<1> QED
  BY <1>1, GenIntEffect DEF KeepsServed, Eligible, OneOffset, Held, SameRegisters

LEMMA IntmskPutKeeps ==
  ASSUME NEW s \in Machine, NEW d \in SUBSET Irq
  PROVE  Keeps(s, IntmskPut(s, d)) /\ KeepsServed(s, IntmskPut(s, d))
         /\ Eligible(s, IntmskPut(s, d))
<1> DEFINE t == [s EXCEPT !.intmsk = d]
<1>1. /\ t \in Machine /\ t.intpnd = s.intpnd /\ t.intoffset = s.intoffset
      /\ t.intmod = s.intmod /\ t.srcpnd = s.srcpnd /\ t.src_pending = s.src_pending
      /\ IntmskPut(s, d) = GenInt(t)
  BY DEF Machine, IntmskPut
<1> HIDE DEF t
<1> QED BY <1>1, ThenGenInt DEF Held

LEMMA IntpndPutKeeps ==
  ASSUME NEW s \in Machine, NEW d \in SUBSET Irq
  PROVE  Keeps(s, IntpndPut(s, d)) /\ KeepsServed(s, IntpndPut(s, d))
         /\ Eligible(s, IntpndPut(s, d))
<1> DEFINE t == [s EXCEPT !.intpnd = @ \ d]
<1>1. /\ t \in Machine /\ t.intpnd \subseteq s.intpnd /\ t.intoffset = s.intoffset
      /\ t.intmod = s.intmod /\ t.srcpnd = s.srcpnd /\ t.src_pending = s.src_pending
      /\ IntpndPut(s, d) = GenInt(t)
  BY DEF Machine, IntpndPut
<1> HIDE DEF t
<1> QED BY <1>1, ThenGenInt DEF Held

LEMMA PriorityPutKeeps ==
  ASSUME NEW s \in Machine, NEW p \in PriorityWord
  PROVE  /\ Keeps(s, PriorityPut(s, p)) /\ KeepsServed(s, PriorityPut(s, p))
         /\ Grows(s, PriorityPut(s, p))
<1> DEFINE t == [s EXCEPT !.priority = p, !.sel = p.sel, !.mode = p.mode]
<1>1. /\ t \in Machine /\ t.intpnd = s.intpnd /\ t.intoffset = s.intoffset
      /\ t.intmod = s.intmod /\ t.srcpnd = s.srcpnd /\ t.src_pending = s.src_pending
      /\ t.intmsk = s.intmsk
      /\ PriorityPut(s, p) = GenInt(t)
  BY DEF Machine, PriorityWord, PriorityPut
<1> HIDE DEF t
<1>2. Grows(s, GenInt(t))
  BY <1>1, GenIntKeeps DEF Grows
<1> QED BY <1>1, <1>2, ThenGenInt DEF Held

LEMMA PriorityGetKeeps ==
  ASSUME NEW s \in Machine
  PROVE  Keeps(s, PriorityGet(s)) /\ KeepsServed(s, PriorityGet(s))
         /\ Eligible(s, PriorityGet(s))
BY DEF Machine, PriorityWord, PriorityGet, Keeps, KeepsServed, Eligible, OneOffset,
       Served, Held, LineStep, LineFollows

\* The sub-source registers do not enter into the invariants but through
\* the sources they are folded into.
LEMMA ThenFold ==
  ASSUME NEW s \in Machine, NEW t \in Machine,
         t.intpnd = s.intpnd, t.intoffset = s.intoffset, t.intmod = s.intmod,
         t.srcpnd = s.srcpnd, t.src_pending = s.src_pending, t.intmsk = s.intmsk,
         t.irq = s.irq, t.fiq = s.fiq
  PROVE  \A u \in {t, GenIntFromSubInt(t)} :
           Keeps(s, u) /\ KeepsServed(s, u) /\ Grows(s, u)
<1>1. Keeps(s, t) /\ KeepsServed(s, t) /\ Grows(s, t)
  BY DEF Keeps, KeepsServed, Grows, OneOffset, Served, Held,
     LineStep, LineFollows
<1>2. \A u \in {GenIntFromSubInt(t)} : Keeps(t, u) /\ KeepsServed(t, u) /\ Grows(t, u)
  BY GenIntFromSubIntKeeps
<1> QED BY <1>1, <1>2, Chain

LEMMA SubsrcpndPutKeeps ==
  ASSUME NEW s \in Machine, NEW d \in SUBSET SubIrq
  PROVE  Keeps(s, SubsrcpndPut(s, d)) /\ KeepsServed(s, SubsrcpndPut(s, d))
         /\ Grows(s, SubsrcpndPut(s, d))
<1> DEFINE t == [s EXCEPT !.subsrcpnd = (@ \ d) \cup s.subsrc_pending]
<1>1. /\ t \in Machine /\ t.intpnd = s.intpnd /\ t.intoffset = s.intoffset
      /\ t.intmod = s.intmod /\ t.srcpnd = s.srcpnd /\ t.src_pending = s.src_pending
      /\ t.intmsk = s.intmsk /\ t.irq = s.irq /\ t.fiq = s.fiq
  BY DEF Machine
<1>2. SubsrcpndPut(s, d) \in {t, GenIntFromSubInt(t)} BY DEF SubsrcpndPut
<1> HIDE DEF t
<1> QED BY <1>1, <1>2, ThenFold

LEMMA IntsubmskPutKeeps ==
  ASSUME NEW s \in Machine, NEW d \in SUBSET SubIrq
  PROVE  Keeps(s, IntsubmskPut(s, d)) /\ KeepsServed(s, IntsubmskPut(s, d))
         /\ Grows(s, IntsubmskPut(s, d))
<1> DEFINE t == [s EXCEPT !.intsubmsk = d]
<1>1. /\ t \in Machine /\ t.intpnd = s.intpnd /\ t.intoffset = s.intoffset
      /\ t.intmod = s.intmod /\ t.srcpnd = s.srcpnd /\ t.src_pending = s.src_pending
      /\ t.intmsk = s.intmsk /\ t.irq = s.irq /\ t.fiq = s.fiq
  BY DEF Machine
<1>2. IntsubmskPut(s, d) \in {t, GenIntFromSubInt(t)} BY DEF IntsubmskPut
<1> HIDE DEF t
<1> QED BY <1>1, <1>2, ThenFold

LEMMA SubAssertKeeps ==
  ASSUME NEW s \in Machine, NEW x \in SubIrq, NEW level \in {0, 1}
  PROVE  Keeps(s, SubAssert(s, x, level)) /\ KeepsServed(s, SubAssert(s, x, level))
         /\ Grows(s, SubAssert(s, x, level))
<1> DEFINE t == [s EXCEPT
                   !.subsrc_pending = IF level = 1 THEN @ \cup {x} ELSE @,
                   !.subsrcpnd = @ \cup {x}]
<1>1. /\ t \in Machine /\ t.intpnd = s.intpnd /\ t.intoffset = s.intoffset
      /\ t.intmod = s.intmod /\ t.srcpnd = s.srcpnd /\ t.src_pending = s.src_pending
      /\ t.intmsk = s.intmsk /\ t.irq = s.irq /\ t.fiq = s.fiq
  BY DEF Machine
<1>2. SubAssert(s, x, level) = s \/ SubAssert(s, x, level) \in {t, GenIntFromSubInt(t)}
  BY DEF SubAssert
<1> HIDE DEF t
<1>3. Keeps(s, s) /\ KeepsServed(s, s) /\ Grows(s, s)
  BY DEF Keeps, KeepsServed, Grows, LineStep
<1> QED BY <1>1, <1>2, <1>3, ThenFold

LEMMA SubDeassertKeeps ==
  ASSUME NEW s \in Machine, NEW x \in SubIrq
  PROVE  Keeps(s, SubDeassert(s, x)) /\ KeepsServed(s, SubDeassert(s, x))
         /\ Grows(s, SubDeassert(s, x))
BY DEF SubDeassert, Machine, Keeps, KeepsServed, Grows, OneOffset, Served, Held,
       LineStep, LineFollows

-----------------------------------------------------------------------------
(***************************************************************************)
(* Resets and restarts.                                                    *)
(***************************************************************************)
LEMMA CpuResetEffect ==
  ASSUME NEW s \in Machine
  PROVE  /\ CpuReset(s) \in Machine
         /\ CpuReset(s).intpnd = s.intpnd /\ CpuReset(s).intoffset = s.intoffset
         /\ CpuReset(s).intmod = s.intmod
         /\ ~CpuReset(s).irq
BY DEF Machine, CpuReset

LEMMA ModulesResetEffect ==
  ASSUME NEW s \in Machine, NEW kind \in {"WATCHDOG", "POWER_ON"}
  PROVE  /\ ModulesReset(s, kind) \in Machine
         /\ ModulesReset(s, kind).intpnd = {}
         /\ ModulesReset(s, kind).intmod = {}
         /\ ~ModulesReset(s, kind).irq
<1> DEFINE t == CpuReset(s)
<1>1. t \in Machine /\ ~t.irq BY CpuResetEffect
<1>2. ResetPriority \in PriorityWord
  BY DEF ResetPriority, PriorityWord, Arbiters
<1>3. kind # "POWER_OFF" /\ ModulesReset(s, kind) = IntcReset(t, kind)
  BY DEF ModulesReset
<1> HIDE DEF t
<1>4. ModulesReset(s, kind) =
        [t EXCEPT !.srcpnd = {}, !.intmod = {}, !.intmsk = Irq,
                  !.priority = ResetPriority, !.intpnd = {}, !.intoffset = 0,
                  !.subsrcpnd = {}, !.intsubmsk = SubIrq]
  BY <1>3 DEF IntcReset
<1> HIDE DEF ResetPriority
<1>5. ModulesReset(s, kind) \in Machine
  BY <1>1, <1>2, <1>4, ZenonT(40) DEF Machine
<1> QED BY <1>1, <1>4, <1>5 DEF Machine

\* A restart keeps what a running controller keeps, but for the levels: they
\* are loaded while SRCPND is not.
LEMMA ReloadKeeps ==
  ASSUME NEW s \in Machine
  PROVE  Keeps(s, Reload(s)) /\ Eligible(s, Reload(s))
<1> DEFINE loaded == [s EXCEPT !.srcpnd = {}, !.subsrcpnd = {},
                               !.exit_request = FALSE,
                               !.idle = IF s.halted THEN SLEEP ELSE RUN]
           prio == PriorityPut(loaded, s.priority)
           sub == IntsubmskPut(prio, s.intsubmsk)
<1>1. /\ loaded \in Machine /\ loaded.intpnd = s.intpnd
      /\ loaded.intoffset = s.intoffset /\ loaded.intmod = s.intmod
      /\ loaded.intmsk = s.intmsk /\ loaded.irq = s.irq
  BY DEF Machine
<1>2. /\ s.priority \in PriorityWord /\ s.intsubmsk \in SUBSET SubIrq
      /\ s.intmsk \in SUBSET Irq
  BY DEF Machine
<1>3. Reload(s) = IntmskPut(sub, s.intmsk) BY DEF Reload
<1> HIDE DEF loaded
<1>4. Keeps(s, loaded)
  BY <1>1 DEF Keeps, OneOffset, LineStep, LineFollows
<1>5. Keeps(loaded, prio) /\ Grows(loaded, prio)
  BY <1>1, <1>2, PriorityPutKeeps
<1> HIDE DEF prio
<1>6. Keeps(prio, sub) /\ Grows(prio, sub)
  BY <1>2, <1>5, IntsubmskPutKeeps DEF Keeps
<1> HIDE DEF sub
<1>7. sub \in Machine /\ sub.intmsk = s.intmsk
  BY <1>1, <1>5, <1>6 DEF Keeps, Grows
<1>8. Keeps(sub, Reload(s)) /\ Grows(sub, Reload(s))
  <2> DEFINE t == [sub EXCEPT !.intmsk = s.intmsk]
  <2>1. t = sub BY <1>7 DEF Machine
  <2>2. Reload(s) = GenInt(sub) BY <1>3, <2>1 DEF IntmskPut
  <2> QED BY <1>7, <2>2, GenIntKeeps
<1>9. Keeps(s, Reload(s))
  BY <1>4, <1>5, <1>6, <1>8 DEF Keeps, LineStep, LineFollows
<1>10. Eligible(s, Reload(s))
  BY <1>1, <1>5, <1>6, <1>8 DEF Eligible, Grows
<1> QED BY <1>9, <1>10

-----------------------------------------------------------------------------
(***************************************************************************)
(* Every step.                                                             *)
(***************************************************************************)
LEMMA InitSound ==
  ASSUME Init
  PROVE  m \in Machine /\ OneOffset(m) /\ LineFollows(m) /\ Served(m) /\ Held(m)
BY DEF Init, ColdMachine, Machine, ResetPriority, PriorityWord, Arbiters, OneOffset,
       LineFollows, Served, Held

\* The line is never up without a source in INTPND, and follows INTPND as
\* IrqLineFollowsIntpnd has it.
LineMoves(s, t) ==
  s.intmod = {} /\ (s.irq => s.intpnd # {}) =>
    /\ t.intmod = {} /\ (t.irq => t.intpnd # {})
    /\ \/ t.irq <=> t.intpnd # {}
       \/ t.idle = OFF /\ ~t.irq
       \/ ~s.irq /\ ~t.irq /\ t.intpnd = s.intpnd

\* One step of Next, by action.
StepKeeps(s, t) ==
  /\ t \in Machine
  /\ OneOffset(s) => OneOffset(t)
  /\ FiqSets \subseteq {{}} => LineMoves(s, t)
  /\ Resets = {} => KeepsServed(s, t)
  /\ Eligible(s, t)

LEMMA LineStepMoves ==
  ASSUME NEW s, NEW t, LineStep(s, t)
  PROVE  LineMoves(s, t)
BY DEF LineStep, LineMoves, LineFollows

LEMMA KeepsIsStepKeeps ==
  ASSUME NEW s, NEW t, Keeps(s, t), KeepsServed(s, t), Grows(s, t) \/ Eligible(s, t)
  PROVE  StepKeeps(s, t)
BY LineStepMoves DEF Keeps, Grows, Eligible, StepKeeps

LEMMA NextKeeps ==
  ASSUME TypeOK, Next
  PROVE  StepKeeps(m, m')
<1> m \in Machine BY DEF TypeOK
<1>1. CASE WriteSRCPND
  BY <1>1, SrcpndPutKeeps, KeepsIsStepKeeps DEF WriteSRCPND
<1>2. CASE WriteINTMOD
  <2>1. PICK d \in FiqSets : m' = IntmodPut(m, d) BY <1>2 DEF WriteINTMOD
  <2>2. d \in SUBSET Irq BY GuestAssumption
  <2>3. FiqSets \subseteq {{}} => d = {} OBVIOUS
  <2>4. FiqSets \subseteq {{}} => LineFollows(m') BY <2>1, <2>2, <2>3, IntmodPutKeeps
  <2>5. FiqSets \subseteq {{}} => LineMoves(m, m') BY <2>4 DEF LineMoves, LineFollows
  <2> QED BY <2>1, <2>2, <2>5, IntmodPutKeeps DEF StepKeeps
<1>3. CASE WriteINTMSK
  BY <1>3, IntmskPutKeeps, KeepsIsStepKeeps DEF WriteINTMSK
<1>4. CASE WriteINTPND
  BY <1>4, IntpndPutKeeps, KeepsIsStepKeeps DEF WriteINTPND
<1>5. CASE WritePRIORITY
  <2>1. PICK p \in Priorities : m' = PriorityPut(m, p) BY <1>5 DEF WritePRIORITY
  <2>2. p \in PriorityWord BY GuestAssumption
  <2> QED BY <2>1, <2>2, PriorityPutKeeps, KeepsIsStepKeeps
<1>6. CASE ReadPRIORITY
  BY <1>6, PriorityGetKeeps, KeepsIsStepKeeps DEF ReadPRIORITY
<1>7. CASE WriteSUBSRCPND
  BY <1>7, SubsrcpndPutKeeps, KeepsIsStepKeeps DEF WriteSUBSRCPND
<1>8. CASE WriteINTSUBMSK
  BY <1>8, IntsubmskPutKeeps, KeepsIsStepKeeps DEF WriteINTSUBMSK
<1>9. CASE DeviceAssert
  <2>1. PICK i \in Direct : \E l \in Levels(i) : m' = Assert(m, i, l)
    BY <1>9 DEF DeviceAssert
  <2>2. i \in Irq /\ Levels(i) \subseteq {0, 1} BY DEF Direct, Levels
  <2> QED BY <2>1, <2>2, AssertKeeps, KeepsIsStepKeeps
<1>10. CASE DeviceDeassert
  BY <1>10, DeassertKeeps, KeepsIsStepKeeps DEF DeviceDeassert
<1>11. CASE UartAssert
  BY <1>11, SubAssertKeeps, KeepsIsStepKeeps DEF UartAssert
<1>12. CASE UartDeassert
  BY <1>12, SubDeassertKeeps, KeepsIsStepKeeps DEF UartDeassert
<1>13. CASE WatchdogReset
  <2> DEFINE t == ModulesReset(m, "WATCHDOG")
  <2>1. Resets # {} /\ m' = CpuReset(t) BY <1>13 DEF WatchdogReset
  <2>2. t \in Machine /\ t.intpnd = {} /\ t.intmod = {} BY ModulesResetEffect
  <2> HIDE DEF t
  <2> QED
    BY <2>1, <2>2, CpuResetEffect DEF StepKeeps, Eligible, OneOffset, LineMoves
<1>14. CASE Restart
  <2>1. Resets # {} /\ m' = SetIdle(Reload(m), RUN) BY <1>14 DEF Restart
  <2>2. Keeps(m, Reload(m)) /\ Eligible(m, Reload(m)) BY ReloadKeeps
  <2>3. Reload(m) \in Machine BY <2>2 DEF Keeps
  <2>4. /\ m' \in Machine /\ SameRegisters(Reload(m), m')
        /\ m'.intpnd = Reload(m).intpnd /\ m'.intoffset = Reload(m).intoffset
        /\ m'.irq = Reload(m).irq
    BY <2>1, <2>3, SetIdleEffect
  <2>5. LineMoves(m, m')
    BY <2>2, <2>4, LineStepMoves DEF Keeps, LineStep, LineFollows, SameRegisters
  <2> QED
    BY <2>1, <2>2, <2>4, <2>5 DEF StepKeeps, Keeps, Eligible, OneOffset, SameRegisters
<1>15. CASE ColdRestart
  <2> DEFINE t == ModulesReset(Reload(m), "POWER_ON")
  <2>1. Resets # {} /\ m' = SetIdle(t, RUN) BY <1>15 DEF ColdRestart
  <2>2. Reload(m) \in Machine BY ReloadKeeps DEF Keeps
  <2>3. t \in Machine /\ t.intpnd = {} /\ t.intmod = {} /\ ~t.irq
    BY <2>2, ModulesResetEffect
  <2> HIDE DEF t
  <2>4. /\ m' \in Machine /\ SameRegisters(t, m') /\ m'.intpnd = t.intpnd
        /\ m'.irq = t.irq
    BY <2>1, <2>3, SetIdleEffect
  <2> QED
    BY <2>1, <2>3, <2>4 DEF StepKeeps, Eligible, OneOffset, LineMoves, SameRegisters
<1>16. CASE PowerOffReset
  <2> DEFINE t == CpuReset(m)
  <2>1. Resets # {} /\ m' = SetIdle(t, OFF)
    BY <1>16 DEF PowerOffReset, ModulesReset, IntcReset
  <2>2. /\ t \in Machine /\ t.intpnd = m.intpnd /\ t.intoffset = m.intoffset
        /\ t.intmod = m.intmod /\ ~t.irq
    BY CpuResetEffect
  <2> HIDE DEF t
  <2>3. OFF \in {RUN, SLEEP, OFF} OBVIOUS
  <2>4. /\ m' \in Machine /\ SameRegisters(t, m') /\ m'.intpnd = t.intpnd
        /\ m'.intoffset = t.intoffset /\ m'.irq = t.irq /\ m'.idle = OFF
    BY <2>1, <2>2, <2>3, SetIdleEffect
  <2> QED
    BY <2>1, <2>2, <2>4 DEF StepKeeps, Eligible, OneOffset, LineMoves, SameRegisters
<1> QED
  BY <1>1, <1>2, <1>3, <1>4, <1>5, <1>6, <1>7, <1>8, <1>9, <1>10, <1>11, <1>12,
     <1>13, <1>14, <1>15, <1>16 DEF Next

-----------------------------------------------------------------------------
(***************************************************************************)
(* The sub-sources.  A level is kept in SUBSRCPND as well, from which the  *)
(* UARTs' own sources are computed, one after the other.                   *)
(***************************************************************************)
SubLatched(s) == s.subsrc_pending \subseteq s.subsrcpnd
SubHeld(s) == \A x \in s.subsrc_pending \ s.intsubmsk : Parent(x) \in s.src_pending

\* Nothing about sub-sources changes.
SameSubs(s, t) ==
  /\ t.subsrcpnd = s.subsrcpnd /\ t.intsubmsk = s.intsubmsk
  /\ t.subsrc_pending = s.subsrc_pending

SubKeeps(s, t) == SubLatched(s) /\ SubHeld(s) => SubLatched(t) /\ SubHeld(t)

LEMMA AssertRaises ==
  ASSUME NEW s \in Machine, NEW irq \in Irq, NEW level \in {0, 1}
  PROVE  /\ SameSubs(s, Assert(s, irq, level))
         /\ s.src_pending \subseteq Assert(s, irq, level).src_pending
         /\ level = 1 => irq \in Assert(s, irq, level).src_pending
<1> DEFINE latch == [s EXCEPT
                       !.src_pending = IF level = 1 THEN @ \cup {irq} ELSE @,
                       !.srcpnd = @ \cup {irq}]
           latched == IF irq \in s.src_pending THEN s ELSE GenInt(latch)
<1>1. /\ latched \in Machine /\ SameSubs(s, latched)
      /\ s.src_pending \subseteq latched.src_pending
      /\ level = 1 => irq \in latched.src_pending
  <2>1. CASE irq \in s.src_pending
    BY <2>1 DEF SameSubs
  <2>2. CASE irq \notin s.src_pending
    <3>1. /\ latch \in Machine /\ SameSubs(s, latch)
          /\ s.src_pending \subseteq latch.src_pending
          /\ level = 1 => irq \in latch.src_pending
      BY DEF Machine, SameSubs
    <3> HIDE DEF latch
    <3>2. latched = GenInt(latch) BY <2>2
    <3> QED BY <3>1, <3>2, GenIntEffect DEF SameRegisters, SameSubs
  <2> QED BY <2>1, <2>2
<1>2. \/ Assert(s, irq, level) = latched
      \/ Assert(s, irq, level) = SetIdle(latched, RUN)
  BY DEF Assert
<1> HIDE DEF latched
<1>3. RUN \in {RUN, SLEEP, OFF} OBVIOUS
<1> QED BY <1>1, <1>2, <1>3, SetIdleEffect DEF SameRegisters, SameSubs

\* One of the four tests raises or lowers its own source and no other.
LEMMA FoldRaises ==
  ASSUME NEW s \in Machine, NEW p, NEW service \in SUBSET SubIrq
  PROVE  /\ Fold(s, p, service) \in Machine
         /\ SameSubs(s, Fold(s, p, service))
         /\ s.src_pending \ {p} \subseteq Fold(s, p, service).src_pending
         /\ (\E x \in service : Parent(x) = p) => p \in Fold(s, p, service).src_pending
<1>1. CASE \E x \in service : Parent(x) = p
  <2>1. p \in Irq /\ 1 \in {0, 1} BY <1>1, SubIrqAssumption
  <2>2. Fold(s, p, service) = Assert(s, p, 1) BY <1>1 DEF Fold
  <2> QED BY <2>1, <2>2, AssertKeeps, AssertRaises DEF Keeps
<1>2. CASE ~ \E x \in service : Parent(x) = p
  <2>1. Fold(s, p, service) = Deassert(s, p) BY <1>2 DEF Fold
  <2> QED BY <1>2, <2>1 DEF Deassert, Machine, SameSubs
<1> QED BY <1>1, <1>2

LEMMA FoldedLevels ==
  ASSUME NEW s \in Machine, SubLatched(s)
  PROVE  SubLatched(GenIntFromSubInt(s)) /\ SubHeld(GenIntFromSubInt(s))
<1> DEFINE service == s.subsrcpnd \ s.intsubmsk
           uart0 == Fold(s, INT_UART0, service)
           uart1 == Fold(uart0, INT_UART1, service)
           uart2 == Fold(uart1, INT_UART2, service)
           adc == Fold(uart2, INT_ADC, service)
           last == [adc EXCEPT !.subsrcpnd = adc.subsrc_pending]
           Asks(p) == \E x \in service : Parent(x) = p
<1>1. service \in SUBSET SubIrq BY DEF Machine
<1>2. GenIntFromSubInt(s) = last BY DEF GenIntFromSubInt
<1>3. s.subsrc_pending \ s.intsubmsk \subseteq service BY DEF SubLatched
<1> HIDE DEF service
<1>4. /\ uart0 \in Machine /\ SameSubs(s, uart0)
      /\ Asks(INT_UART0) => INT_UART0 \in uart0.src_pending
  BY <1>1, FoldRaises
<1> HIDE DEF uart0
<1>5. /\ uart1 \in Machine /\ SameSubs(s, uart1)
      /\ Asks(INT_UART0) => INT_UART0 \in uart1.src_pending
      /\ Asks(INT_UART1) => INT_UART1 \in uart1.src_pending
  <2>1. /\ uart1 \in Machine /\ SameSubs(uart0, uart1)
        /\ uart0.src_pending \ {INT_UART1} \subseteq uart1.src_pending
        /\ Asks(INT_UART1) => INT_UART1 \in uart1.src_pending
    BY <1>1, <1>4, FoldRaises
  <2> HIDE DEF uart1, Asks
  <2> QED BY <1>4, <2>1 DEF SameSubs, INT_UART0, INT_UART1
<1> HIDE DEF uart1
<1>6. /\ uart2 \in Machine /\ SameSubs(s, uart2)
      /\ Asks(INT_UART0) => INT_UART0 \in uart2.src_pending
      /\ Asks(INT_UART1) => INT_UART1 \in uart2.src_pending
      /\ Asks(INT_UART2) => INT_UART2 \in uart2.src_pending
  <2>1. /\ uart2 \in Machine /\ SameSubs(uart1, uart2)
        /\ uart1.src_pending \ {INT_UART2} \subseteq uart2.src_pending
        /\ Asks(INT_UART2) => INT_UART2 \in uart2.src_pending
    BY <1>1, <1>5, FoldRaises
  <2> HIDE DEF uart2, Asks
  <2> QED BY <1>5, <2>1 DEF SameSubs, INT_UART0, INT_UART1, INT_UART2
<1> HIDE DEF uart2
<1>7. /\ adc \in Machine /\ SameSubs(s, adc)
      /\ \A p \in {INT_UART0, INT_UART1, INT_UART2, INT_ADC} :
           Asks(p) => p \in adc.src_pending
  <2>1. /\ adc \in Machine /\ SameSubs(uart2, adc)
        /\ uart2.src_pending \ {INT_ADC} \subseteq adc.src_pending
        /\ Asks(INT_ADC) => INT_ADC \in adc.src_pending
    BY <1>1, <1>6, FoldRaises
  <2> HIDE DEF adc, Asks
  <2> QED BY <1>6, <2>1 DEF SameSubs, INT_UART0, INT_UART1, INT_UART2, INT_ADC
<1> HIDE DEF adc
<1>8. /\ last.src_pending = adc.src_pending
      /\ last.subsrc_pending = s.subsrc_pending
      /\ last.subsrcpnd = s.subsrc_pending
      /\ last.intsubmsk = s.intsubmsk
  BY <1>7 DEF Machine, SameSubs
<1> HIDE DEF last
<1>9. ASSUME NEW x \in last.subsrc_pending \ last.intsubmsk
      PROVE  Parent(x) \in last.src_pending
  <2>1. x \in service BY <1>3, <1>8
  <2>2. Parent(x) \in {INT_UART0, INT_UART1, INT_UART2, INT_ADC} BY DEF Parent
  <2>3. Asks(Parent(x)) BY <2>1
  <2> QED BY <1>7, <1>8, <2>2, <2>3
<1> QED BY <1>2, <1>8, <1>9 DEF SubLatched, SubHeld

\* Arbitration after a change that leaves levels and sub-sources alone.
LEMMA ThenGenIntSubs ==
  ASSUME NEW s \in Machine, NEW t \in Machine,
         SameSubs(s, t), t.src_pending = s.src_pending
  PROVE  \A u \in {t, GenInt(t)} : SubKeeps(s, u)
BY GenIntEffect DEF SameRegisters, SameSubs, SubKeeps, SubLatched, SubHeld

\* The sub-sources folded again, after a change of theirs.
LEMMA ThenFoldSubs ==
  ASSUME NEW s \in Machine, NEW t \in Machine, SubLatched(s) => SubLatched(t)
  PROVE  SubKeeps(s, GenIntFromSubInt(t))
BY FoldedLevels DEF SubKeeps

\* The writes to the registers of the sources proper.
LEMMA SourceWritesKeepSubs ==
  ASSUME NEW s \in Machine, NEW d \in SUBSET Irq
  PROVE  /\ SubKeeps(s, SrcpndPut(s, d)) /\ SubKeeps(s, IntmodPut(s, d))
         /\ SubKeeps(s, IntmskPut(s, d)) /\ SubKeeps(s, IntpndPut(s, d))
<1>1. SubKeeps(s, SrcpndPut(s, d))
  <2> DEFINE t == [s EXCEPT !.srcpnd = (@ \ d) \cup s.src_pending]
  <2>1. t \in Machine /\ SameSubs(s, t) /\ t.src_pending = s.src_pending
    BY DEF Machine, SameSubs
  <2>2. SrcpndPut(s, d) \in {t, GenInt(t)} BY DEF SrcpndPut
  <2> HIDE DEF t
  <2> QED BY <2>1, <2>2, ThenGenIntSubs
<1>2. SubKeeps(s, IntmodPut(s, d))
  <2> DEFINE t == [s EXCEPT !.intmod = d]
  <2>1. t \in Machine /\ SameSubs(s, t) /\ t.src_pending = s.src_pending
    BY DEF Machine, SameSubs
  <2>2. IntmodPut(s, d) = GenInt(t) BY DEF IntmodPut
  <2> HIDE DEF t
  <2> QED BY <2>1, <2>2, ThenGenIntSubs
<1>3. SubKeeps(s, IntmskPut(s, d))
  <2> DEFINE t == [s EXCEPT !.intmsk = d]
  <2>1. t \in Machine /\ SameSubs(s, t) /\ t.src_pending = s.src_pending
    BY DEF Machine, SameSubs
  <2>2. IntmskPut(s, d) = GenInt(t) BY DEF IntmskPut
  <2> HIDE DEF t
  <2> QED BY <2>1, <2>2, ThenGenIntSubs
<1>4. SubKeeps(s, IntpndPut(s, d))
  <2> DEFINE t == [s EXCEPT !.intpnd = @ \ d]
  <2>1. t \in Machine /\ SameSubs(s, t) /\ t.src_pending = s.src_pending
    BY DEF Machine, SameSubs
  <2>2. IntpndPut(s, d) = GenInt(t) BY DEF IntpndPut
  <2> HIDE DEF t
  <2> QED BY <2>1, <2>2, ThenGenIntSubs
<1> QED BY <1>1, <1>2, <1>3, <1>4

LEMMA PriorityKeepsSubs ==
  ASSUME NEW s \in Machine, NEW p \in PriorityWord
  PROVE  SubKeeps(s, PriorityPut(s, p)) /\ SubKeeps(s, PriorityGet(s))
<1> DEFINE t == [s EXCEPT !.priority = p, !.sel = p.sel, !.mode = p.mode]
           u == [s EXCEPT !.priority = [sel |-> s.sel, mode |-> s.mode]]
<1>1. t \in Machine /\ SameSubs(s, t) /\ t.src_pending = s.src_pending
  BY DEF Machine, PriorityWord, SameSubs
<1>2. u \in Machine /\ SameSubs(s, u) /\ u.src_pending = s.src_pending
  BY DEF Machine, PriorityWord, SameSubs
<1>3. PriorityPut(s, p) = GenInt(t) /\ PriorityGet(s) = u
  BY DEF PriorityPut, PriorityGet
<1> HIDE DEF t, u
<1> QED BY <1>1, <1>2, <1>3, ThenGenIntSubs

\* The writes to the sub-source registers, and the UARTs' own calls.
LEMMA SubWritesKeepSubs ==
  ASSUME NEW s \in Machine, NEW d \in SUBSET SubIrq
  PROVE  SubKeeps(s, SubsrcpndPut(s, d)) /\ SubKeeps(s, IntsubmskPut(s, d))
<1>1. SubKeeps(s, SubsrcpndPut(s, d))
  <2> DEFINE t == [s EXCEPT !.subsrcpnd = (@ \ d) \cup s.subsrc_pending]
  <2>1. t \in Machine /\ SubLatched(t) /\ SubKeeps(s, t)
    BY DEF Machine, SubKeeps, SubLatched, SubHeld
  <2>2. SubsrcpndPut(s, d) \in {t, GenIntFromSubInt(t)} BY DEF SubsrcpndPut
  <2> HIDE DEF t
  <2> QED BY <2>1, <2>2, ThenFoldSubs
<1>2. SubKeeps(s, IntsubmskPut(s, d))
  <2> DEFINE t == [s EXCEPT !.intsubmsk = d]
  <2>1. t \in Machine /\ (SubLatched(s) => SubLatched(t))
    BY DEF Machine, SubLatched
  <2>2. IntsubmskPut(s, d) = GenIntFromSubInt(t) BY DEF IntsubmskPut
  <2> HIDE DEF t
  <2> QED BY <2>1, <2>2, ThenFoldSubs
<1> QED BY <1>1, <1>2

LEMMA UartCallsKeepSubs ==
  ASSUME NEW s \in Machine, NEW x \in SubIrq, NEW level \in {0, 1}
  PROVE  SubKeeps(s, SubAssert(s, x, level)) /\ SubKeeps(s, SubDeassert(s, x))
<1>1. SubKeeps(s, SubAssert(s, x, level))
  <2> DEFINE t == [s EXCEPT !.subsrc_pending = IF level = 1 THEN @ \cup {x} ELSE @,
                            !.subsrcpnd = @ \cup {x}]
  <2>1. t \in Machine /\ (SubLatched(s) => SubLatched(t))
    BY DEF Machine, SubLatched
  <2>2. SubAssert(s, x, level) \in {s, GenIntFromSubInt(t)} BY DEF SubAssert
  <2> HIDE DEF t
  <2>3. SubKeeps(s, s) BY DEF SubKeeps
  <2> QED BY <2>1, <2>2, <2>3, ThenFoldSubs
<1>2. SubKeeps(s, SubDeassert(s, x))
  BY DEF SubDeassert, Machine, SubKeeps, SubLatched, SubHeld
<1> QED BY <1>1, <1>2

\* Devices hold and release sources that no sub-source is folded into.
LEMMA DeviceCallsKeepSubs ==
  ASSUME NEW s \in Machine, NEW i \in Direct, NEW level \in {0, 1}
  PROVE  SubKeeps(s, Assert(s, i, level)) /\ SubKeeps(s, Deassert(s, i))
<1>1. i \in Irq /\ \A x : Parent(x) # i BY DEF Direct, Parent
<1>2. SubKeeps(s, Assert(s, i, level))
  BY <1>1, AssertRaises DEF SameSubs, SubKeeps, SubLatched, SubHeld
<1>3. SubKeeps(s, Deassert(s, i))
  BY <1>1 DEF Deassert, Machine, SubKeeps, SubLatched, SubHeld
<1> QED BY <1>2, <1>3

LEMMA NextKeepsSubs ==
  ASSUME TypeOK, Next, Resets = {}
  PROVE  SubKeeps(m, m')
<1> m \in Machine BY DEF TypeOK
<1>1. CASE WriteSRCPND \/ WriteINTMOD \/ WriteINTMSK \/ WriteINTPND
  <2>1. \E d \in SUBSET Irq :
          m' \in {SrcpndPut(m, d), IntmodPut(m, d), IntmskPut(m, d), IntpndPut(m, d)}
    BY <1>1, GuestAssumption DEF WriteSRCPND, WriteINTMOD, WriteINTMSK, WriteINTPND
  <2> QED BY <2>1, SourceWritesKeepSubs
<1>2. CASE WritePRIORITY
  <2>1. \E p \in PriorityWord : m' = PriorityPut(m, p)
    BY <1>2, GuestAssumption DEF WritePRIORITY
  <2> QED BY <2>1, PriorityKeepsSubs
<1>3. CASE ReadPRIORITY
  <2>1. m.priority \in PriorityWord BY DEF Machine
  <2> QED BY <1>3, <2>1, PriorityKeepsSubs DEF ReadPRIORITY
<1>4. CASE WriteSUBSRCPND \/ WriteINTSUBMSK
  BY <1>4, SubWritesKeepSubs DEF WriteSUBSRCPND, WriteINTSUBMSK
<1>5. CASE DeviceAssert
  <2>1. PICK i \in Direct : \E l \in Levels(i) : m' = Assert(m, i, l)
    BY <1>5 DEF DeviceAssert
  <2>2. Levels(i) \subseteq {0, 1} BY DEF Levels
  <2> QED BY <2>1, <2>2, DeviceCallsKeepSubs
<1>6. CASE DeviceDeassert
  <2>1. 0 \in {0, 1} OBVIOUS
  <2> QED BY <1>6, <2>1, DeviceCallsKeepSubs DEF DeviceDeassert
<1>7. CASE UartAssert BY <1>7, UartCallsKeepSubs DEF UartAssert
<1>8. CASE UartDeassert
  <2>1. 0 \in {0, 1} OBVIOUS
  <2> QED BY <1>8, <2>1, UartCallsKeepSubs DEF UartDeassert
<1>9. ~PowerOffReset /\ ~WatchdogReset /\ ~Restart /\ ~ColdRestart
  BY DEF PowerOffReset, WatchdogReset, Restart, ColdRestart
<1> QED BY <1>1, <1>2, <1>3, <1>4, <1>5, <1>6, <1>7, <1>8, <1>9 DEF Next

-----------------------------------------------------------------------------
(***************************************************************************)
(* Fixed priority.  The rows of ArbReq hold the sources in ascending       *)
(* order, so scanning from their first slots finds the lowest.             *)
(***************************************************************************)
\* No rotation, and every arbiter scans from its first slot.
Fixed(s) == \A a \in Arbiters : ~s.mode[a] /\ s.sel[a] = 0

\* The sources of the rows: ascending within a row and from row to row.
LEMMA RowsAscend ==
  ASSUME NEW a \in 0..5, NEW b \in 0..5, NEW k \in 1..6, NEW l \in 1..6,
         ArbReq[a + 1][k] # -1, ArbReq[b + 1][l] # -1,
         \/ a < b
         \/ a = b /\ k <= l
  PROVE  ArbReq[a + 1][k] <= ArbReq[b + 1][l]
<1> DEFINE low == <<0, 4, 10, 16, 22, 28>>
           high == <<3, 9, 15, 21, 27, 31>>
<1>1. \A c \in 0..5, n \in 1..6 :
        ArbReq[c + 1][n] # -1 => /\ ArbReq[c + 1][n] \in low[c + 1]..high[c + 1]
                                 /\ low[c + 1] \in Nat /\ high[c + 1] \in Nat
  BY SMTT(60) DEF ArbReq, EINT0, EINT1, EINT2, EINT3, EINT4_7, EINT8_23, nBATT_FLT,
       INT_TICK, INT_WDT, INT_UART2, INT_UART1, INT_UART0, INT_RTC, INT_ADC
<1>2. CASE a < b
  <2>1. high[a + 1] < low[b + 1] BY <1>2
  <2> HIDE DEF low, high
  <2> QED BY <1>1, <2>1
<1>3. CASE a = b /\ k <= l
  BY <1>3, SMTT(60) DEF ArbReq, EINT0, EINT1, EINT2, EINT3, EINT4_7, EINT8_23, nBATT_FLT,
       INT_TICK, INT_WDT, INT_UART2, INT_UART1, INT_UART0, INT_RTC, INT_ADC
<1> QED BY <1>2, <1>3

\* With ARB_SEL = 0 an arbiter lets through the first slot that asks.
LEMMA SelectIntFirst ==
  ASSUME NEW req, NEW service, NEW k \in 1..6, req[k] \in service
  PROVE  \E n \in 1..k : /\ SelectInt(req, 0, service) = req[n]
                         /\ req[n] \in service
<1> DEFINE asking == {i \in 1..6 : req[ArbOrder[1][i]] \in service}
           first == CHOOSE i \in asking : \A j \in asking : i <= j
<1>1. \A i \in 1..6 : ArbOrder[1][i] = i BY DEF ArbOrder
<1>2. k \in asking BY <1>1
<1>3. \E i \in asking : \A j \in asking : i <= j
  <2> HIDE DEF asking
  <2>1. asking \subseteq 1..6 BY DEF asking
  <2> QED BY <1>2, <2>1, SMTT(30)
<1>4. first \in asking /\ first <= k BY <1>2, <1>3
<1>5. SelectInt(req, 0, service) = req[ArbOrder[1][first]] BY <1>2 DEF SelectInt
<1> HIDE DEF first
<1> QED BY <1>1, <1>4, <1>5

LEMMA SelectIntAsks ==
  ASSUME NEW req, NEW service, SelectInt(req, 0, service) # -1
  PROVE  \E k \in 1..6 : req[k] \in service
<1> DEFINE asking == {i \in 1..6 : req[ArbOrder[0 + 1][i]] \in service}
<1>1. \A i \in 1..6 : ArbOrder[0 + 1][i] = i BY DEF ArbOrder
<1>2. asking # {} BY DEF SelectInt
<1> QED BY <1>1, <1>2

LEMMA GrantIsLowest ==
  ASSUME NEW s \in Machine, NEW service \in SUBSET Irq, service # {},
         Fixed(Grant(s, service))
  PROVE  /\ Fixed(s)
         /\ \E w \in service : /\ \A i \in service : w <= i
                               /\ Grant(s, service).intpnd = s.intpnd \cup {w}
<1> DEFINE offset == [a \in 0..5 |-> SelectInt(ArbReq[a + 1], s.sel[a], service)]
           request == {a \in 0..5 : offset[a] # -1}
           last == SelectInt(ArbReq[7], s.sel[6], request)
           winner == offset[last]
           turned == [a \in Arbiters |->
                        IF a \in request \cup {6} /\ s.mode[a]
                        THEN (s.sel[a] + 1) % 4 ELSE s.sel[a]]
           moved == [s EXCEPT !.sel = turned,
                              !.intoffset = winner,
                              !.intpnd = @ \cup {winner},
                              !.irq = TRUE]
           g == Grant(s, service)
<1>1. -1 \notin service /\ service \subseteq (0..31) \ Unused
  BY IrqAssumption DEF Machine
\* A slot that asks, and what its arbiter then lets through.
<1>2. ASSUME Fixed(s), NEW i \in service
      PROVE  \E a \in 0..5, k \in 1..6 : \E n \in 1..k :
               /\ ArbReq[a + 1][k] = i
               /\ offset[a] = ArbReq[a + 1][n]
               /\ offset[a] \in service
  <2>1. PICK a \in 0..5, k \in 1..6 : ArbReq[a + 1][k] = i
    BY <1>1, EverySourceHasSlot
  <2>2. s.sel[a] = 0 BY <1>2 DEF Fixed, Arbiters
  <2>3. PICK n \in 1..k : /\ SelectInt(ArbReq[a + 1], 0, service) = ArbReq[a + 1][n]
                          /\ ArbReq[a + 1][n] \in service
    BY <2>1, SelectIntFirst
  <2> QED BY <2>1, <2>2, <2>3
<1>3. request # {}
  <2>1. PICK i \in service : TRUE OBVIOUS
  <2>2. PICK a \in 0..5, k \in 1..6 : ArbReq[a + 1][k] = i
    BY <1>1, EverySourceHasSlot
  <2>3. s.sel[a] \in 0..3 BY DEF Machine, Arbiters
  <2>4. SelectInt(ArbReq[a + 1], s.sel[a], service) \in service
    BY <1>1, <2>1, <2>2, <2>3, SelectIntSelects DEF Arbiters
  <2> QED BY <1>1, <2>4
<1>4. g = SetIdle(moved, RUN) BY <1>3 DEF Grant
<1>5. g.sel = turned /\ g.mode = s.mode /\ g.intpnd = s.intpnd \cup {winner}
  <2> HIDE DEF turned, winner
  <2> QED BY <1>4 DEF SetIdle, Machine
<1>6. Fixed(s)
  <2> SUFFICES ASSUME NEW a \in Arbiters PROVE ~s.mode[a] /\ s.sel[a] = 0
    BY DEF Fixed
  <2>1. ~g.mode[a] /\ g.sel[a] = 0 BY DEF Fixed
  <2>2. turned[a] = s.sel[a] BY <1>5, <2>1
  <2> QED BY <1>5, <2>1, <2>2
<1>7. last \in request /\ \A a \in request : last <= a
  <2>1. s.sel[6] = 0 BY <1>6 DEF Fixed, Arbiters
  <2>2. ASSUME NEW a \in request PROVE last \in request /\ last <= a
    <3>1. a \in 0..5 /\ a + 1 \in 1..6 OBVIOUS
    <3>2. \A n \in 1..6 : ArbReq[7][n] = n - 1 BY DEF ArbReq
    <3> HIDE DEF request
    <3>3. ArbReq[7][a + 1] \in request BY <2>2, <3>1, <3>2
    <3>4. PICK n \in 1..(a + 1) : /\ SelectInt(ArbReq[7], 0, request) = ArbReq[7][n]
                                  /\ ArbReq[7][n] \in request
      BY <3>1, <3>3, SelectIntFirst
    <3>5. n \in 1..6 /\ n - 1 <= a BY <3>1
    <3> QED BY <2>1, <3>2, <3>4, <3>5
  <2> QED BY <1>3, <2>2
<1>8. winner \in service
  <2>1. last \in 0..5 /\ winner = SelectInt(ArbReq[last + 1], s.sel[last], service)
        /\ winner # -1
    BY <1>7
  <2>2. \A a \in 0..5 : s.sel[a] \in 0..3 BY DEF Machine, Arbiters
  <2> HIDE DEF winner, last
  <2> QED BY <1>1, <2>1, <2>2, SelectIntEligible DEF Arbiters
<1>9. ASSUME NEW i \in service PROVE winner <= i
  <2>0. PICK b \in 0..5, l \in 1..6 : \E n \in 1..l :
          /\ ArbReq[b + 1][l] = i
          /\ offset[b] = ArbReq[b + 1][n]
          /\ offset[b] \in service
    BY <1>2, <1>6
  <2>1. PICK n \in 1..l : /\ ArbReq[b + 1][l] = i
                         /\ offset[b] = ArbReq[b + 1][n]
                         /\ offset[b] \in service
    BY <2>0
  <2>2. b \in request BY <1>1, <2>1
  <2>3. n \in 1..6 /\ n <= l OBVIOUS
  <2>4. i # -1 /\ offset[b] # -1 BY <1>1, <2>1
  <2>5. CASE last = b
    <3>1. winner = ArbReq[b + 1][n] BY <2>1, <2>5
    <3> HIDE DEF offset, winner, last, request
    <3> QED BY <2>1, <2>3, <2>4, <3>1, RowsAscend
  <2>6. CASE last # b
    <3>1. last \in 0..5 /\ last < b BY <1>7, <2>2, <2>6
    <3>3. \E x \in 1..6 : ArbReq[last + 1][x] = winner
      <4>1. winner = SelectInt(ArbReq[last + 1], 0, service)
        <5>1. \A c \in 0..5 : s.sel[c] = 0 BY <1>6 DEF Fixed, Arbiters
        <5>2. winner = SelectInt(ArbReq[last + 1], s.sel[last], service) BY <3>1
        <5> HIDE DEF winner, last
        <5> QED BY <3>1, <5>1, <5>2
      <4> HIDE DEF winner, last
      <4>2. PICK x \in 1..6 : ArbReq[last + 1][x] \in service
        BY <1>1, <1>8, <4>1, SelectIntAsks
      <4> QED BY <4>1, <4>2, SelectIntFirst
    <3>4. PICK x \in 1..6 : ArbReq[last + 1][x] = winner BY <3>3
    <3>5. winner # -1 BY <1>1, <1>8
    <3> HIDE DEF offset, winner, last, request
    <3> QED BY <2>1, <2>4, <3>1, <3>4, <3>5, RowsAscend
  <2> QED BY <2>5, <2>6
<1> QED BY <1>5, <1>6, <1>8, <1>9

\* GenInt grants the lowest of what it sees, and does not leave fixed order.
LowestOf(s, t) ==
  /\ Fixed(t) => Fixed(s)
  /\ Fixed(t) => \A w \in t.intpnd \ s.intpnd : \A i \in s.srcpnd \ s.intmsk : w <= i

LEMMA GenIntIsLowest ==
  ASSUME NEW s \in Machine
  PROVE  LowestOf(s, GenInt(s))
<1> DEFINE quiet == [s EXCEPT !.fiq = FALSE]
           service == s.srcpnd \ s.intmsk
<1>1. CASE s.srcpnd \cap s.intmod # {}
  <2>1. GenInt(s) = SetIdle([s EXCEPT !.fiq = TRUE], RUN) BY <1>1 DEF GenInt
  <2> QED BY <2>1 DEF SetIdle, Machine, LowestOf, Fixed
<1>2. CASE s.srcpnd \cap s.intmod = {} /\ s.intpnd # {}
  <2>1. GenInt(s) = SetIdle([quiet EXCEPT !.irq = TRUE], RUN) BY <1>2 DEF GenInt
  <2> QED BY <2>1 DEF SetIdle, Machine, LowestOf, Fixed
<1>3. CASE s.srcpnd \cap s.intmod = {} /\ s.intpnd = {} /\ service = {}
  <2>1. GenInt(s) = [quiet EXCEPT !.irq = FALSE] BY <1>3 DEF GenInt
  <2> QED BY <2>1 DEF Machine, LowestOf, Fixed
<1>4. CASE s.srcpnd \cap s.intmod = {} /\ s.intpnd = {} /\ service # {}
  <2>1. GenInt(s) = Grant(quiet, service) BY <1>4 DEF GenInt
  <2>2. quiet \in Machine /\ service \in SUBSET Irq BY DEF Machine
  <2>3. quiet.intpnd = s.intpnd /\ quiet.sel = s.sel /\ quiet.mode = s.mode
    BY DEF Machine
  <2> HIDE DEF quiet
  <2>4. ASSUME Fixed(GenInt(s))
        PROVE  Fixed(s) /\ \A w \in GenInt(s).intpnd \ s.intpnd : \A i \in service : w <= i
    <3> HIDE DEF service
    <3>1. Fixed(quiet) /\ \E w \in service : /\ \A i \in service : w <= i
                                             /\ GenInt(s).intpnd = quiet.intpnd \cup {w}
      BY <1>4, <2>1, <2>2, <2>4, GrantIsLowest
    <3> QED BY <2>3, <3>1 DEF Fixed
  <2> QED BY <2>4 DEF LowestOf
<1> QED BY <1>1, <1>2, <1>3, <1>4

\* What a call that latches sources may do: it grants the lowest, unless a
\* lower one of those folded from sub-sources is latched after the grant.
Ranks(s, t) ==
  Fixed(t) => \A w \in t.intpnd \ s.intpnd : \A i \in t.srcpnd \ t.intmsk :
                w <= i \/ i \in Irq \ (Direct \cup s.srcpnd)

\* Ranks, said so that folds can follow each other.
Latches(s, t) ==
  /\ t \in Machine
  /\ Fixed(t) => Fixed(s)
  /\ Ranks(s, t)
  /\ s.srcpnd \subseteq t.srcpnd
  /\ t.srcpnd \ s.srcpnd \subseteq Irq \ Direct
  /\ t.intmsk = s.intmsk

LEMMA LatchesChain ==
  ASSUME NEW s, NEW t, NEW u, Latches(s, t), Latches(t, u)
  PROVE  Latches(s, u)
<1> USE DEF Latches
<1>1. /\ u \in Machine /\ s.srcpnd \subseteq u.srcpnd /\ u.intmsk = s.intmsk
      /\ u.srcpnd \ s.srcpnd \subseteq Irq \ Direct
      /\ Fixed(u) => Fixed(s)
  OBVIOUS
<1>2. Ranks(s, u)
  <2> SUFFICES ASSUME Fixed(u), NEW w \in u.intpnd \ s.intpnd,
                      NEW i \in u.srcpnd \ u.intmsk
               PROVE  w <= i \/ i \in Irq \ (Direct \cup s.srcpnd)
    BY DEF Ranks
  <2>1. CASE i \notin t.srcpnd
    BY <2>1
  <2>2. CASE i \in t.srcpnd /\ w \in t.intpnd
    BY <2>2 DEF Ranks
  <2>3. CASE i \in t.srcpnd /\ w \notin t.intpnd
    BY <2>3 DEF Ranks
  <2> QED BY <2>1, <2>2, <2>3
<1> QED BY <1>1, <1>2

\* s3c2410_intc_assert looks at the new source in the same arbitration.
LEMMA AssertRanks ==
  ASSUME NEW s \in Machine, NEW irq \in Irq, NEW level \in {0, 1}
  PROVE  /\ Ranks(s, Assert(s, irq, level))
         /\ irq \notin Direct => Latches(s, Assert(s, irq, level))
<1> DEFINE latch == [s EXCEPT
                       !.src_pending = IF level = 1 THEN @ \cup {irq} ELSE @,
                       !.srcpnd = @ \cup {irq}]
           latched == IF irq \in s.src_pending THEN s ELSE GenInt(latch)
           Does(t) == /\ t \in Machine
                      /\ Fixed(t) => Fixed(s)
                      /\ Ranks(s, t)
                      /\ s.srcpnd \subseteq t.srcpnd
                      /\ t.srcpnd \subseteq s.srcpnd \cup {irq}
                      /\ t.intmsk = s.intmsk
<1>1. Does(latched)
  <2>1. CASE irq \in s.src_pending
    BY <2>1 DEF Ranks
  <2>2. CASE irq \notin s.src_pending
    <3>1. /\ latch \in Machine
          /\ latch.srcpnd = s.srcpnd \cup {irq} /\ latch.intmsk = s.intmsk
          /\ latch.intpnd = s.intpnd /\ latch.sel = s.sel /\ latch.mode = s.mode
      BY DEF Machine
    <3> HIDE DEF latch
    <3>2. latched = GenInt(latch) BY <2>2
    <3>3. LowestOf(latch, latched) /\ SameRegisters(latch, latched) /\ latched \in Machine
      BY <3>1, <3>2, GenIntIsLowest, GenIntEffect
    <3> HIDE DEF latched
    <3> QED BY <3>1, <3>3 DEF LowestOf, SameRegisters, Ranks, Fixed
  <2> QED BY <2>1, <2>2
<1>2. \/ Assert(s, irq, level) = latched
      \/ Assert(s, irq, level) = SetIdle(latched, RUN)
  BY DEF Assert
<1> HIDE DEF latched
<1>3. Does(SetIdle(latched, RUN))
  <2>1. RUN \in {RUN, SLEEP, OFF} OBVIOUS
  <2>2. /\ SetIdle(latched, RUN) \in Machine
        /\ SameRegisters(latched, SetIdle(latched, RUN))
        /\ SetIdle(latched, RUN).intpnd = latched.intpnd
    BY <1>1, <2>1, SetIdleEffect
  <2>3. SetIdle(latched, RUN).sel = latched.sel /\ SetIdle(latched, RUN).mode = latched.mode
    BY <1>1 DEF SetIdle, Machine
  <2> QED BY <1>1, <2>2, <2>3 DEF SameRegisters, Ranks, Fixed
<1> QED BY <1>1, <1>2, <1>3 DEF Latches

LEMMA FoldLatches ==
  ASSUME NEW s \in Machine, NEW p \in {INT_UART0, INT_UART1, INT_UART2, INT_ADC},
         NEW service \in SUBSET SubIrq
  PROVE  Latches(s, Fold(s, p, service))
<1>1. CASE \E x \in service : Parent(x) = p
  <2>1. p \in Irq /\ p \notin Direct /\ 1 \in {0, 1}
    BY <1>1, SubIrqAssumption DEF Direct
  <2> QED BY <1>1, <2>1, AssertRanks DEF Fold
<1>2. CASE ~ \E x \in service : Parent(x) = p
  <2>1. Fold(s, p, service) = Deassert(s, p) BY <1>2 DEF Fold
  <2> QED BY <2>1 DEF Deassert, Machine, Latches, Ranks, Fixed
<1> QED BY <1>1, <1>2

LEMMA SubSourcesLatch ==
  ASSUME NEW s \in Machine
  PROVE  Latches(s, GenIntFromSubInt(s))
<1> DEFINE service == s.subsrcpnd \ s.intsubmsk
           uart0 == Fold(s, INT_UART0, service)
           uart1 == Fold(uart0, INT_UART1, service)
           uart2 == Fold(uart1, INT_UART2, service)
           adc == Fold(uart2, INT_ADC, service)
           last == [adc EXCEPT !.subsrcpnd = adc.subsrc_pending]
<1>1. service \in SUBSET SubIrq BY DEF Machine
<1>2. GenIntFromSubInt(s) = last BY DEF GenIntFromSubInt
<1> HIDE DEF service
<1>3. Latches(s, uart0) BY <1>1, FoldLatches
<1> HIDE DEF uart0
<1>4. Latches(uart0, uart1) BY <1>1, <1>3, FoldLatches DEF Latches
<1> HIDE DEF uart1
<1>5. Latches(uart1, uart2) BY <1>1, <1>4, FoldLatches DEF Latches
<1> HIDE DEF uart2
<1>6. Latches(uart2, adc) BY <1>1, <1>5, FoldLatches DEF Latches
<1> HIDE DEF adc
<1>7. adc \in Machine BY <1>6 DEF Latches
<1>8. Latches(adc, last) BY <1>7 DEF Machine, Latches, Ranks, Fixed
<1> QED BY <1>2, <1>3, <1>4, <1>5, <1>6, <1>8, LatchesChain

\* A change that leaves INTPND alone, or takes from it, then arbitration.
LEMMA ThenGenIntRanks ==
  ASSUME NEW s \in Machine, NEW t \in Machine, t.intpnd \subseteq s.intpnd
  PROVE  Ranks(s, GenInt(t))
<1> DEFINE u == GenInt(t)
<1>1. LowestOf(t, u) /\ SameRegisters(t, u) BY GenIntIsLowest, GenIntEffect
<1> HIDE DEF u
<1>2. ASSUME Fixed(u), NEW w \in u.intpnd \ s.intpnd, NEW i \in u.srcpnd \ u.intmsk
      PROVE  w <= i
  <2>1. w \in u.intpnd \ t.intpnd OBVIOUS
  <2>2. i \in t.srcpnd \ t.intmsk BY <1>1 DEF SameRegisters
  <2> QED BY <1>1, <1>2, <2>1, <2>2 DEF LowestOf
<1>3. Ranks(s, u) BY <1>2 DEF Ranks
<1> QED BY <1>3 DEF u

\* The same before the sub-sources are folded again.
LEMMA ThenFoldRanks ==
  ASSUME NEW s \in Machine, NEW t \in Machine,
         t.intpnd = s.intpnd, t.srcpnd = s.srcpnd
  PROVE  Ranks(s, t) /\ Ranks(s, GenIntFromSubInt(t))
<1>1. Latches(t, GenIntFromSubInt(t)) BY SubSourcesLatch
<1> QED BY <1>1 DEF Latches, Ranks

LEMMA SourceWritesRank ==
  ASSUME NEW s \in Machine, NEW d \in SUBSET Irq
  PROVE  /\ Ranks(s, SrcpndPut(s, d)) /\ Ranks(s, IntmodPut(s, d))
         /\ Ranks(s, IntmskPut(s, d)) /\ Ranks(s, IntpndPut(s, d))
<1>1. Ranks(s, SrcpndPut(s, d))
  <2> DEFINE t == [s EXCEPT !.srcpnd = (@ \ d) \cup s.src_pending]
  <2>1. t \in Machine /\ t.intpnd = s.intpnd BY DEF Machine
  <2>2. SrcpndPut(s, d) \in {t, GenInt(t)} BY DEF SrcpndPut
  <2> HIDE DEF t
  <2>3. Ranks(s, t) BY <2>1 DEF Ranks
  <2> QED BY <2>1, <2>2, <2>3, ThenGenIntRanks
<1>2. Ranks(s, IntmodPut(s, d))
  <2> DEFINE t == [s EXCEPT !.intmod = d]
  <2>1. t \in Machine /\ t.intpnd = s.intpnd BY DEF Machine
  <2>2. IntmodPut(s, d) = GenInt(t) BY DEF IntmodPut
  <2> HIDE DEF t
  <2> QED BY <2>1, <2>2, ThenGenIntRanks
<1>3. Ranks(s, IntmskPut(s, d))
  <2> DEFINE t == [s EXCEPT !.intmsk = d]
  <2>1. t \in Machine /\ t.intpnd = s.intpnd BY DEF Machine
  <2>2. IntmskPut(s, d) = GenInt(t) BY DEF IntmskPut
  <2> HIDE DEF t
  <2> QED BY <2>1, <2>2, ThenGenIntRanks
<1>4. Ranks(s, IntpndPut(s, d))
  <2> DEFINE t == [s EXCEPT !.intpnd = @ \ d]
  <2>1. t \in Machine /\ t.intpnd \subseteq s.intpnd BY DEF Machine
  <2>2. IntpndPut(s, d) = GenInt(t) BY DEF IntpndPut
  <2> HIDE DEF t
  <2> QED BY <2>1, <2>2, ThenGenIntRanks
<1> QED BY <1>1, <1>2, <1>3, <1>4

LEMMA PriorityRanks ==
  ASSUME NEW s \in Machine, NEW p \in PriorityWord
  PROVE  Ranks(s, PriorityPut(s, p)) /\ Ranks(s, PriorityGet(s))
<1> DEFINE t == [s EXCEPT !.priority = p, !.sel = p.sel, !.mode = p.mode]
<1>1. t \in Machine /\ t.intpnd = s.intpnd BY DEF Machine, PriorityWord
<1>2. PriorityPut(s, p) = GenInt(t) BY DEF PriorityPut
<1>3. Ranks(s, PriorityGet(s)) BY DEF PriorityGet, Machine, Ranks
<1> HIDE DEF t
<1> QED BY <1>1, <1>2, <1>3, ThenGenIntRanks

LEMMA SubWritesRank ==
  ASSUME NEW s \in Machine, NEW d \in SUBSET SubIrq
  PROVE  Ranks(s, SubsrcpndPut(s, d)) /\ Ranks(s, IntsubmskPut(s, d))
<1>1. Ranks(s, SubsrcpndPut(s, d))
  <2> DEFINE t == [s EXCEPT !.subsrcpnd = (@ \ d) \cup s.subsrc_pending]
  <2>1. t \in Machine /\ t.intpnd = s.intpnd /\ t.srcpnd = s.srcpnd BY DEF Machine
  <2>2. SubsrcpndPut(s, d) \in {t, GenIntFromSubInt(t)} BY DEF SubsrcpndPut
  <2> HIDE DEF t
  <2> QED BY <2>1, <2>2, ThenFoldRanks
<1>2. Ranks(s, IntsubmskPut(s, d))
  <2> DEFINE t == [s EXCEPT !.intsubmsk = d]
  <2>1. t \in Machine /\ t.intpnd = s.intpnd /\ t.srcpnd = s.srcpnd BY DEF Machine
  <2>2. IntsubmskPut(s, d) = GenIntFromSubInt(t) BY DEF IntsubmskPut
  <2> HIDE DEF t
  <2> QED BY <2>1, <2>2, ThenFoldRanks
<1> QED BY <1>1, <1>2

LEMMA UartCallsRank ==
  ASSUME NEW s \in Machine, NEW x \in SubIrq, NEW level \in {0, 1}
  PROVE  Ranks(s, SubAssert(s, x, level))
<1> DEFINE t == [s EXCEPT !.subsrc_pending = IF level = 1 THEN @ \cup {x} ELSE @,
                          !.subsrcpnd = @ \cup {x}]
<1>1. t \in Machine /\ t.intpnd = s.intpnd /\ t.srcpnd = s.srcpnd BY DEF Machine
<1>2. SubAssert(s, x, level) \in {s, GenIntFromSubInt(t)} BY DEF SubAssert
<1> HIDE DEF t
<1>3. Ranks(s, s) BY DEF Ranks
<1> QED BY <1>1, <1>2, <1>3, ThenFoldRanks

\* Nothing is latched while a state file is loaded, so nothing is granted.
LEMMA ReloadGrantsNothing ==
  ASSUME NEW s \in Machine
  PROVE  Reload(s) \in Machine /\ Reload(s).intpnd \subseteq s.intpnd
<1> DEFINE loaded == [s EXCEPT !.srcpnd = {}, !.subsrcpnd = {},
                               !.exit_request = FALSE,
                               !.idle = IF s.halted THEN SLEEP ELSE RUN]
           put == [loaded EXCEPT !.priority = s.priority, !.sel = s.priority.sel,
                                 !.mode = s.priority.mode]
           prio == PriorityPut(loaded, s.priority)
           masked == [prio EXCEPT !.intsubmsk = s.intsubmsk]
           sub == IntsubmskPut(prio, s.intsubmsk)
<1>1. /\ put \in Machine /\ put.srcpnd = {} /\ put.subsrcpnd = {}
      /\ prio = GenInt(put)
  BY DEF Machine, PriorityWord, PriorityPut
<1> HIDE DEF put
<1>2. /\ prio \in Machine /\ prio.srcpnd = {} /\ prio.subsrcpnd = {}
  BY <1>1, GenIntEffect DEF SameRegisters
<1> HIDE DEF prio
<1>3. masked \in Machine /\ masked.srcpnd = {} /\ masked.subsrcpnd = {}
  BY <1>2 DEF Machine
<1>4. sub.srcpnd = {}
  <2> DEFINE none == masked.subsrcpnd \ masked.intsubmsk
             uart0 == Fold(masked, INT_UART0, none)
             uart1 == Fold(uart0, INT_UART1, none)
             uart2 == Fold(uart1, INT_UART2, none)
             adc == Fold(uart2, INT_ADC, none)
  <2>1. none = {} BY <1>3
  <2>2. \A t, p : t \in Machine /\ t.srcpnd = {}
                    => Fold(t, p, none) \in Machine /\ Fold(t, p, none).srcpnd = {}
    BY <2>1 DEF Fold, Deassert, Machine
  <2>3. sub = [adc EXCEPT !.subsrcpnd = adc.subsrc_pending]
    BY DEF IntsubmskPut, GenIntFromSubInt
  <2> HIDE DEF none, masked
  <2>4. uart0 \in Machine /\ uart0.srcpnd = {} BY <1>3, <2>2
  <2> HIDE DEF uart0
  <2>5. uart1 \in Machine /\ uart1.srcpnd = {} BY <2>2, <2>4
  <2> HIDE DEF uart1
  <2>6. uart2 \in Machine /\ uart2.srcpnd = {} BY <2>2, <2>5
  <2> HIDE DEF uart2
  <2>7. adc \in Machine /\ adc.srcpnd = {} BY <2>2, <2>6
  <2> HIDE DEF adc, sub
  <2> QED BY <2>3, <2>7 DEF Machine
<1>5. Reload(s).srcpnd = {}
  <2> DEFINE t == [sub EXCEPT !.intmsk = s.intmsk]
  <2>1. Reload(s) = GenInt(t) BY DEF Reload, IntmskPut, prio
  <2>2. sub \in Machine /\ s.intmsk \in SUBSET Irq /\ s.intsubmsk \in SUBSET SubIrq
    BY <1>2, IntsubmskPutKeeps DEF Keeps, Machine
  <2> HIDE DEF sub
  <2>3. t \in Machine /\ t.srcpnd = {} BY <1>4, <2>2 DEF Machine
  <2> HIDE DEF t
  <2> QED BY <2>1, <2>3, GenIntEffect DEF SameRegisters
<1> QED BY <1>5, ReloadKeeps DEF Keeps, Eligible

LEMMA NextRanks ==
  ASSUME TypeOK, Next
  PROVE  Ranks(m, m')
<1> m \in Machine BY DEF TypeOK
<1>1. CASE WriteSRCPND \/ WriteINTMOD \/ WriteINTMSK \/ WriteINTPND
  <2>1. \E d \in SUBSET Irq :
          m' \in {SrcpndPut(m, d), IntmodPut(m, d), IntmskPut(m, d), IntpndPut(m, d)}
    BY <1>1, GuestAssumption DEF WriteSRCPND, WriteINTMOD, WriteINTMSK, WriteINTPND
  <2> QED BY <2>1, SourceWritesRank
<1>2. CASE WritePRIORITY \/ ReadPRIORITY
  <2>1. \E p \in PriorityWord : m' \in {PriorityPut(m, p), PriorityGet(m)}
    <3>1. m.priority \in PriorityWord BY DEF Machine
    <3> QED BY <1>2, <3>1, GuestAssumption DEF WritePRIORITY, ReadPRIORITY
  <2> QED BY <2>1, PriorityRanks
<1>3. CASE WriteSUBSRCPND \/ WriteINTSUBMSK
  BY <1>3, SubWritesRank DEF WriteSUBSRCPND, WriteINTSUBMSK
<1>4. CASE DeviceAssert
  <2>1. PICK i \in Direct : \E l \in Levels(i) : m' = Assert(m, i, l)
    BY <1>4 DEF DeviceAssert
  <2>2. i \in Irq /\ Levels(i) \subseteq {0, 1} BY DEF Direct, Levels
  <2> QED BY <2>1, <2>2, AssertRanks
<1>5. CASE UartAssert BY <1>5, UartCallsRank DEF UartAssert
<1>6. CASE DeviceDeassert \/ UartDeassert
  <2>1. m'.intpnd = m.intpnd
    BY <1>6 DEF DeviceDeassert, UartDeassert, Deassert, SubDeassert, Machine
  <2> QED BY <2>1 DEF Ranks
<1>7. CASE PowerOffReset \/ WatchdogReset \/ Restart \/ ColdRestart
  <2>1. m'.intpnd \subseteq m.intpnd
    <3>1. RUN \in {RUN, SLEEP, OFF} /\ OFF \in {RUN, SLEEP, OFF} OBVIOUS
    <3>2. CASE WatchdogReset
      BY <3>2, ModulesResetEffect, CpuResetEffect DEF WatchdogReset
    <3>3. CASE Restart
      BY <3>1, <3>3, ReloadGrantsNothing, SetIdleEffect DEF Restart
    <3>4. CASE ColdRestart
      BY <3>1, <3>4, ReloadGrantsNothing, ModulesResetEffect, SetIdleEffect
      DEF ColdRestart
    <3>5. CASE PowerOffReset
      BY <3>1, <3>5, CpuResetEffect, SetIdleEffect
      DEF PowerOffReset, ModulesReset, IntcReset
    <3> QED BY <1>7, <3>2, <3>3, <3>4, <3>5
  <2> QED BY <2>1 DEF Ranks
<1> QED BY <1>1, <1>2, <1>3, <1>4, <1>5, <1>6, <1>7 DEF Next

-----------------------------------------------------------------------------
(***************************************************************************)
(* The theorems.                                                           *)
(***************************************************************************)
\* Every register holds sources in use and every arbiter a legal position,
\* under any guest, device and reset.
THEOREM TypeCorrect == Spec => []TypeOK
<1>1. Init => TypeOK BY InitSound DEF TypeOK
<1>2. TypeOK /\ [Next]_m => TypeOK'
  BY NextKeeps DEF StepKeeps, TypeOK
<1> QED BY <1>1, <1>2, PTL DEF Spec

\* INTPND holds at most the source INTOFFSET names (s3c2410_intc_gen_int),
\* across resets and restarts too.
THEOREM OffsetNamesPendingTheorem == Spec => []OffsetNamesPending
<1> DEFINE IInv == TypeOK /\ OffsetNamesPending
<1>1. Init => IInv BY InitSound DEF TypeOK, OffsetNamesPending, OneOffset
<1>2. IInv /\ [Next]_m => IInv'
  BY NextKeeps DEF StepKeeps, TypeOK, OffsetNamesPending, OneOffset
<1> QED BY <1>1, <1>2, PTL DEF Spec

\* Until the first reset, a latched and unmasked source keeps a line of the
\* core up.  The levels have to be latched for it: a write to SRCPND puts
\* them back without arbitrating, which must not latch anything new.
THEOREM NoLostInterruptTheorem ==
  ASSUME Resets = {}
  PROVE  Spec => [](NoLostInterrupt /\ HeldLevelIsLatched)
<1> DEFINE IInv == TypeOK /\ NoLostInterrupt /\ HeldLevelIsLatched
<1>1. Init => IInv
  BY InitSound DEF TypeOK, NoLostInterrupt, HeldLevelIsLatched, Served, Held
<1>2. IInv /\ [Next]_m => IInv'
  BY NextKeeps, Resets = {}
  DEF StepKeeps, KeepsServed, TypeOK, NoLostInterrupt, HeldLevelIsLatched, Served, Held
<1> QED BY <1>1, <1>2, PTL DEF Spec

\* A level a device drives stays latched in SRCPND until the first reset, for
\* a write to SRCPND puts it back (s3c2410_intc_write).
THEOREM HeldLevelIsLatchedTheorem ==
  ASSUME Resets = {}
  PROVE  Spec => []HeldLevelIsLatched
BY NoLostInterruptTheorem, PTL

\* Until the first reset, a UART or ADC level that INTSUBMSK lets through
\* holds the source it is folded into: acknowledging SUBSRCPND neither drops
\* it nor, through one of the other three tests, takes its source away.
THEOREM SubLevelReachesParentTheorem ==
  ASSUME Resets = {}
  PROVE  Spec => []SubLevelReachesParent
<1>1. Init => SubLatched(m) /\ SubHeld(m)
  BY DEF Init, ColdMachine, SubLatched, SubHeld
<1>2. TypeOK /\ TypeOK' /\ SubLatched(m) /\ SubHeld(m) /\ [Next]_m
        => SubLatched(m)' /\ SubHeld(m)'
  BY NextKeepsSubs, Resets = {} DEF SubKeeps, SubLatched, SubHeld
<1>3. SubHeld(m) => SubLevelReachesParent BY DEF SubHeld, SubLevelReachesParent
<1> QED BY <1>1, <1>2, <1>3, TypeCorrect, PTL DEF Spec

\* With no source routed to FIQ the core's IRQ line is never up while INTPND is
\* empty, and follows INTPND in every step but the one that switches the
\* machine off, under watchdog resets and restarts too.
THEOREM IrqLineTheorem ==
  ASSUME FiqSets \subseteq {{}}
  PROVE  Spec => [](m.irq => m.intpnd # {}) /\ IrqLineFollowsIntpnd
<1> DEFINE IInv == TypeOK /\ m.intmod = {} /\ (m.irq => m.intpnd # {})
<1>1. Init => IInv
  BY InitSound DEF TypeOK, LineFollows
<1>2. IInv /\ [Next]_m => IInv'
  BY NextKeeps, FiqSets \subseteq {{}} DEF StepKeeps, TypeOK, LineMoves
<1>3. IInv /\ [Next]_m
        => [ \/ LineAgrees'
             \/ m'.idle = OFF /\ ~m'.irq
             \/ ~m.irq /\ ~m'.irq /\ m'.intpnd = m.intpnd ]_m
  BY NextKeeps, FiqSets \subseteq {{}} DEF StepKeeps, TypeOK, LineMoves, LineAgrees
<1> QED BY <1>1, <1>2, <1>3, PTL DEF Spec, IrqLineFollowsIntpnd

\* A source enters INTPND only latched and unmasked: the arbiters grant none
\* that was not asking, however the two levels of arbiters are rotated.
THEOREM GrantIsEligibleTheorem == Spec => GrantIsEligible
<1>1. TypeOK /\ [Next]_m => [m'.intpnd \ m.intpnd \subseteq m'.srcpnd \ m'.intmsk]_m
  BY NextKeeps DEF StepKeeps, Eligible
<1> QED BY <1>1, TypeCorrect, PTL DEF Spec, GrantIsEligible

\* Arbiters that neither rotate nor were rotated grant by source number, with
\* any sources, any guest and across resets; the one exception is a source
\* folded from sub-sources after the grant (s3c2410_intc_gen_int_from_sub_int).
THEOREM FixedPriorityTheorem == Spec => FixedPriority
<1>1. TypeOK /\ Next
        => \A w \in m'.intpnd \ m.intpnd :
             (\A a \in Arbiters : ~m'.mode[a] /\ m'.sel[a] = 0)
               => \A i \in m'.srcpnd \ m'.intmsk :
                    w <= i \/ i \in Irq \ (Direct \cup m.srcpnd)
  BY NextRanks DEF Ranks, Fixed
<1> QED BY <1>1, TypeCorrect, PTL DEF Spec, FixedPriority
=============================================================================
