--------------------------- MODULE MainLoopProofs ---------------------------
(***************************************************************************)
(* The main loop with any sources, any use of the power states, any count  *)
(* of the watchdog: a core that is stopped leaves cpu_exec, one that is    *)
(* off is quiet, and the watchdog's timer runs while it is enabled.        *)
(***************************************************************************)
EXTENDS MainLoop, IntcProofs

\* A core that is switched off has no line up.
Quiet(s) == s.idle = OFF => ~s.irq /\ ~s.fiq

\* From cpu_exec to the test after it, prev_idle is still what let the core
\* in; behind that test, a core that is off has been reset.
Returned ==
  /\ pc \in {"exec", "left"} => prev_idle = RUN
  /\ m.idle = OFF /\ pc \in {"virt", "real", "top"} => booting /\ cpsr_i

LoopInv ==
  /\ m \in Machine /\ Quiet(m)
  /\ WatchdogArmed
  /\ Returned
  /\ StoppedCoreLeaves

-----------------------------------------------------------------------------
(***************************************************************************)
(* The controller never stops the core, and a line it raises ends OFF.     *)
(***************************************************************************)
\* What any call of the controller does to the run state.
Drives(s, t) ==
  /\ t \in Machine
  /\ t.idle = s.idle \/ t.idle = RUN
  /\ t.exit_request = s.exit_request
  /\ Quiet(s) => Quiet(t)

\* A change that touches neither lines nor run state, then arbitration.
LEMMA GenIntDrives ==
  ASSUME NEW s, NEW t \in Machine, t.idle = s.idle, t.exit_request = s.exit_request
  PROVE  Drives(s, GenInt(t))
<1>1. GenInt(t) \in Machine /\ Wakes(t, GenInt(t))
  BY GenIntEffect
<1> QED BY <1>1 DEF Wakes, Drives, Quiet, RUN, OFF

\* s3c2410_intc_assert, which may itself set the core running.
LEMMA AssertDrives ==
  ASSUME NEW s \in Machine, NEW irq \in Irq, NEW level \in {0, 1}
  PROVE  Drives(s, Assert(s, irq, level))
<1> DEFINE latch == [s EXCEPT
                       !.src_pending = IF level = 1 THEN @ \cup {irq} ELSE @,
                       !.srcpnd = @ \cup {irq}]
           latched == IF irq \in s.src_pending THEN s ELSE GenInt(latch)
<1>1. latch \in Machine /\ latch.idle = s.idle /\ latch.exit_request = s.exit_request
  BY DEF Machine
<1> HIDE DEF latch
<1>2. Drives(s, latched)
  <2>1. Drives(s, GenInt(latch)) BY <1>1, GenIntDrives
  <2> QED BY <2>1 DEF Drives
<1>3. \/ Assert(s, irq, level) = latched
      \/ Assert(s, irq, level) = SetIdle(latched, RUN)
  BY DEF Assert, latch
<1> HIDE DEF latched
<1>4. Drives(s, SetIdle(latched, RUN))
  <2>1. RUN \in {RUN, SLEEP, OFF} /\ latched \in Machine BY <1>2 DEF Drives
  <2>2. /\ SetIdle(latched, RUN) \in Machine
        /\ SetIdle(latched, RUN).idle = RUN
        /\ SetIdle(latched, RUN).exit_request = latched.exit_request
    BY <2>1, SetIdleEffect
  <2> QED BY <1>2, <2>2 DEF Drives, Quiet, RUN, OFF
<1> QED BY <1>2, <1>3, <1>4

LEMMA DeassertDrives ==
  ASSUME NEW s \in Machine, NEW irq
  PROVE  Drives(s, Deassert(s, irq))
BY DEF Machine, Deassert, Drives, Quiet

\* The writes the loop's guest makes.
LEMMA WritesDrive ==
  ASSUME NEW s \in Machine, NEW d \in SUBSET Irq
  PROVE  /\ Drives(s, SrcpndPut(s, d))
         /\ Drives(s, IntmskPut(s, d))
         /\ Drives(s, IntpndPut(s, d))
<1>1. Drives(s, SrcpndPut(s, d))
  <2> DEFINE t == [s EXCEPT !.srcpnd = (@ \ d) \cup s.src_pending]
  <2>1. /\ t \in Machine /\ t.idle = s.idle /\ t.exit_request = s.exit_request
        /\ t.irq = s.irq /\ t.fiq = s.fiq
    BY DEF Machine
  <2>2. SrcpndPut(s, d) = IF s.src_pending \cap d # {} THEN GenInt(t) ELSE t
    BY DEF SrcpndPut
  <2> HIDE DEF t
  <2>3. Drives(s, GenInt(t)) BY <2>1, GenIntDrives
  <2>4. Drives(s, t) BY <2>1 DEF Drives, Quiet
  <2> QED BY <2>2, <2>3, <2>4
<1>2. Drives(s, IntmskPut(s, d))
  <2> DEFINE t == [s EXCEPT !.intmsk = d]
  <2>1. t \in Machine /\ t.idle = s.idle /\ t.exit_request = s.exit_request
    BY DEF Machine
  <2> HIDE DEF t
  <2>2. Drives(s, GenInt(t)) BY <2>1, GenIntDrives
  <2> QED BY <2>2 DEF IntmskPut, t
<1>3. Drives(s, IntpndPut(s, d))
  <2> DEFINE t == [s EXCEPT !.intpnd = @ \ d]
  <2>1. t \in Machine /\ t.idle = s.idle /\ t.exit_request = s.exit_request
    BY DEF Machine
  <2> HIDE DEF t
  <2>2. Drives(s, GenInt(t)) BY <2>1, GenIntDrives
  <2> QED BY <2>2 DEF IntpndPut, t
<1> QED BY <1>1, <1>2, <1>3

-----------------------------------------------------------------------------
(***************************************************************************)
(* Resets: of the core, of everything, of the watchdog.                    *)
(***************************************************************************)
LEMMA ResetsLowerLines ==
  ASSUME NEW s \in Machine
  PROVE  /\ CpuReset(s) \in Machine /\ CpuReset(s).idle = s.idle
         /\ ~CpuReset(s).irq /\ ~CpuReset(s).fiq
         /\ ModulesReset(s, "WATCHDOG") \in Machine
         /\ ModulesReset(s, "WATCHDOG").idle = s.idle
<1>1. /\ CpuReset(s) \in Machine /\ CpuReset(s).idle = s.idle
      /\ ~CpuReset(s).irq /\ ~CpuReset(s).fiq
  BY DEF Machine, CpuReset
<1>2. ModulesReset(s, "WATCHDOG") \in Machine
  BY ModulesResetEffect
<1>3. ModulesReset(s, "WATCHDOG").idle = s.idle
  BY <1>1 DEF ModulesReset, IntcReset, Machine
<1> QED BY <1>1, <1>2, <1>3

LEMMA ArmedIsEnabled ==
  ASSUME NEW w \in WatchdogState
  PROVE  /\ WatchdogUpdate(w) \in WatchdogState
         /\ WatchdogUpdate(w).armed <=> "ENABLE" \in WatchdogUpdate(w).wtcon
<1>1. ("ENABLE" \in w.wtcon) \in BOOLEAN OBVIOUS
<1>2. WatchdogUpdate(w) \in WatchdogState BY <1>1 DEF WatchdogUpdate, WatchdogState
<1>3. WatchdogUpdate(w).wtcon = w.wtcon BY DEF WatchdogUpdate, WatchdogState
<1>4. WatchdogUpdate(w).armed = ("ENABLE" \in w.wtcon)
  BY DEF WatchdogUpdate, WatchdogState
<1> QED BY <1>2, <1>3, <1>4

LEMMA ResetArms ==
  ASSUME WatchdogArmed, wd' = WatchdogResetRegs(wd)
  PROVE  WatchdogArmed'
<1> DEFINE w == [wd EXCEPT !.wtcon = {"ENABLE", "RESET"},
                           !.wtdat = MaxCount, !.wtcnt = MaxCount]
<1>1. MaxCount \in 0..MaxCount BY MaxCountAssumption
<1>2. w \in WatchdogState BY <1>1 DEF WatchdogArmed, WatchdogState, WtconBits
<1>3. wd' = WatchdogUpdate(w) BY DEF WatchdogResetRegs
<1> HIDE DEF w
<1> QED BY <1>2, <1>3, ArmedIsEnabled DEF WatchdogArmed

\* s3c2410_watchdog_tick arms the timer again in every case.
LEMMA TickArms ==
  ASSUME WatchdogArmed, wd.armed, wd' = TickWatchdog(wd)
  PROVE  WatchdogArmed'
<1> DEFINE w == Counted(wd)
<1>1. /\ w \in WatchdogState /\ w.wtcon = wd.wtcon
  <2>1. (IF wd.wtcnt > 0 THEN wd.wtcnt - 1 ELSE wd.wtdat) \in 0..MaxCount
    BY MaxCountAssumption DEF WatchdogArmed, WatchdogState
  <2> QED BY <2>1 DEF Counted, WatchdogArmed, WatchdogState
<1> HIDE DEF w
<1>2. CASE Bites(wd)
  <2> DEFINE v == [w EXCEPT !.wtcon = {"ENABLE", "RESET"},
                            !.wtdat = MaxCount, !.wtcnt = MaxCount]
  <2>1. MaxCount \in 0..MaxCount BY MaxCountAssumption
  <2>2. v \in WatchdogState BY <1>1, <2>1 DEF WatchdogState, WtconBits
  <2>3. wd' = WatchdogUpdate(v) BY <1>2 DEF TickWatchdog, WatchdogResetRegs, w
  <2> HIDE DEF v
  <2> QED BY <2>2, <2>3, ArmedIsEnabled DEF WatchdogArmed
<1>3. CASE ~Bites(wd)
  <2>1. wd' = [w EXCEPT !.armed = TRUE] BY <1>3 DEF TickWatchdog, w
  <2> QED BY <1>1, <2>1 DEF WatchdogArmed, WatchdogState
<1> QED BY <1>2, <1>3

LEMMA GuestKeepsArmed ==
  ASSUME WatchdogArmed, WriteWTCON \/ WriteWTCNT \/ WriteWTDAT
  PROVE  WatchdogArmed'
<1>1. CASE WriteWTCON
  <2>1. PICK d \in Wtcons : wd' = WatchdogUpdate([wd EXCEPT !.wtcon = d])
    BY <1>1 DEF WriteWTCON
  <2>2. d \in SUBSET WtconBits BY WtconAssumption
  <2>3. [wd EXCEPT !.wtcon = d] \in WatchdogState
    BY <2>2 DEF WatchdogArmed, WatchdogState
  <2> QED BY <2>1, <2>3, ArmedIsEnabled DEF WatchdogArmed
<1>2. CASE WriteWTCNT
  <2> PICK n \in 0..MaxCount : wd' = WatchdogUpdate([wd EXCEPT !.wtcnt = n])
    BY <1>2 DEF WriteWTCNT
  <2>1. [wd EXCEPT !.wtcnt = n] \in WatchdogState BY DEF WatchdogArmed, WatchdogState
  <2> QED BY <2>1, ArmedIsEnabled DEF WatchdogArmed
<1>3. CASE WriteWTDAT
  BY <1>3 DEF WriteWTDAT, WatchdogArmed, WatchdogState
<1> QED BY <1>1, <1>2, <1>3

-----------------------------------------------------------------------------
(***************************************************************************)
(* The steps of the loop.                                                  *)
(***************************************************************************)
LEMMA LoopStarts == LoopInit => LoopInv
<1> SUFFICES ASSUME LoopInit PROVE LoopInv OBVIOUS
<1>1. m \in Machine BY InitSound DEF LoopInit, Init
<1>2. WatchdogArmed
  BY MaxCountAssumption
  DEF LoopInit, ColdWatchdog, WatchdogArmed, WatchdogState, WtconBits
<1>3. m.idle = RUN BY DEF LoopInit, ColdMachine
<1> QED
  BY <1>1, <1>2, <1>3
  DEF LoopInit, LoopInv, Quiet, Returned, StoppedCoreLeaves, RUN, OFF

\* A call of the controller from a timer or from the guest.
LEMMA DrivenStep ==
  ASSUME LoopInv, Drives(m, m'), UNCHANGED <<wd, loopVars>>
  PROVE  LoopInv'
<1>1. WatchdogArmed' BY DEF LoopInv, WatchdogArmed
<1> QED
  BY <1>1
  DEF LoopInv, Drives, Quiet, Returned, StoppedCoreLeaves, loopVars, RUN, OFF

\* The watchdog's timer: a reset it causes leaves arm_idle as it was, and the
\* core at its reset vector.
LEMMA WatchdogTimerStep ==
  ASSUME LoopInv, WatchdogTimer
  PROVE  LoopInv'
<1> DEFINE s == IF Barks(wd) /\ "IRQ" \in wd.wtcon THEN Assert(m, INT_WDT, 0) ELSE m
<1>1. Drives(m, s)
  <2>1. INT_WDT \in Irq /\ 0 \in {0, 1} BY LoopAssumption
  <2>2. Drives(m, Assert(m, INT_WDT, 0)) BY <2>1, AssertDrives DEF LoopInv
  <2>3. Drives(m, m) BY DEF Drives, LoopInv
  <2> QED BY <2>2, <2>3
<1>2. m' = IF Bites(wd) THEN CpuReset(ModulesReset(s, "WATCHDOG")) ELSE s
  BY DEF WatchdogTimer, WatchdogTick, TickMachine
<1> HIDE DEF s
<1>3. WatchdogArmed' BY TickArms DEF WatchdogTimer, WatchdogTick, LoopInv
<1>4. CASE Bites(wd)
  <2> DEFINE t == ModulesReset(s, "WATCHDOG")
  <2>1. t \in Machine /\ t.idle = s.idle
    BY <1>1, ResetsLowerLines DEF Drives
  <2>2. m' = CpuReset(t) BY <1>2, <1>4
  <2> HIDE DEF t
  <2>3. m' \in Machine /\ Quiet(m') BY <2>1, <2>2, ResetsLowerLines DEF Quiet
  <2> QED
    BY <1>3, <1>4, <2>3
    DEF WatchdogTimer, LoopInv, Returned, StoppedCoreLeaves
<1>5. CASE ~Bites(wd)
  <2>1. m' = s BY <1>2, <1>5
  <2> QED
    BY <1>1, <1>3, <1>5, <2>1
    DEF WatchdogTimer, LoopInv, Drives, Quiet, Returned, StoppedCoreLeaves, RUN, OFF
<1> QED BY <1>4, <1>5

\* CLKCON with POWER_OFF: the resets lower the lines, and the exit request is
\* raised after them.
LEMMA PowerOffStep ==
  ASSUME LoopInv, PowerOff
  PROVE  LoopInv'
<1> DEFINE t == CpuReset(m)
<1>1. t \in Machine /\ ~t.irq /\ ~t.fiq BY ResetsLowerLines DEF LoopInv
<1>2. m' = SetIdle(t, OFF) BY DEF PowerOff, IntcReset
<1> HIDE DEF t
<1>3. m' \in Machine /\ m'.irq = t.irq /\ m'.fiq = t.fiq
  BY <1>1, <1>2, SetIdleEffect
<1>4. m'.exit_request
  BY <1>1, <1>2 DEF SetIdle, Machine, OFF, RUN
<1>5. WatchdogArmed' BY ResetArms DEF PowerOff, LoopInv
<1> QED
  BY <1>1, <1>3, <1>4, <1>5
  DEF PowerOff, GuestRuns, LoopInv, Quiet, Returned, StoppedCoreLeaves

\* CLKCON without it may put the core to sleep.
LEMMA WriteCLKCONStep ==
  ASSUME LoopInv, WriteCLKCON
  PROVE  LoopInv'
<1>1. WatchdogArmed' BY DEF WriteCLKCON, LoopInv, WatchdogArmed
<1>2. CASE m' = m
  BY <1>1, <1>2
  DEF WriteCLKCON, LoopInv, Quiet, Returned, StoppedCoreLeaves
<1>3. CASE m' = SetIdle(m, SLEEP)
  <2>1. m' \in Machine /\ m'.idle = SLEEP
    BY <1>3, SetIdleEffect DEF LoopInv
  <2>2. m'.exit_request BY <1>3 DEF SetIdle, Machine, LoopInv, SLEEP, RUN
  <2> QED
    BY <1>1, <2>1, <2>2
    DEF WriteCLKCON, GuestRuns, LoopInv, Quiet, Returned, StoppedCoreLeaves, SLEEP, OFF
<1> QED BY <1>2, <1>3 DEF WriteCLKCON

\* The actions that call neither the controller nor the watchdog.
LEMMA PlaceStep ==
  ASSUME LoopInv,
         Top \/ TakeIrq \/ LeaveExec \/ AfterExec \/ VirtDone \/ RealDone
         \/ SetCpsr \/ WaitForInterrupt \/ Alarm \/ Quit \/ CloseWindow
  PROVE  LoopInv'
<1>1. WatchdogArmed'
  BY DEF LoopInv, WatchdogArmed, Top, TakeIrq, LeaveExec, AfterExec, VirtDone,
         RealDone, SetCpsr, WaitForInterrupt, Alarm, Quit, CloseWindow
<1>2. m' \in Machine /\ (Quiet(m) => Quiet(m'))
  <2>1. CpuReset(m) \in Machine /\ Quiet(CpuReset(m))
    BY ResetsLowerLines DEF LoopInv, Quiet
  <2>2. CASE AfterExec BY <2>1, <2>2 DEF AfterExec, LoopInv
  <2>3. CASE Top BY <2>3 DEF Top, LoopInv, Machine, Quiet
  <2>4. CASE LeaveExec \/ Alarm \/ Quit
    <3>1. PICK b \in BOOLEAN : m' = [m EXCEPT !.exit_request = b]
      BY <2>4 DEF LeaveExec, Alarm, Quit
    <3> QED BY <3>1 DEF LoopInv, Machine, Quiet
  <2>5. CASE WaitForInterrupt BY <2>5 DEF WaitForInterrupt, LoopInv, Machine, Quiet
  <2>6. CASE TakeIrq \/ VirtDone \/ RealDone \/ SetCpsr \/ CloseWindow
    BY <2>6 DEF TakeIrq, VirtDone, RealDone, SetCpsr, CloseWindow, LoopInv
  <2> QED BY <2>2, <2>3, <2>4, <2>5, <2>6
<1>3. Returned'
  <2>1. CASE Top
    BY <2>1 DEF Top, LoopInv, Returned, Machine, RUN, OFF
  <2>2. CASE AfterExec
    <3>1. CASE m.idle = OFF
      BY <2>2, <3>1 DEF AfterExec, LoopInv, Returned, RUN, OFF
    <3>2. CASE m.idle # OFF
      BY <2>2, <3>2 DEF AfterExec, LoopInv, Returned
    <3> QED BY <3>1, <3>2
  <2>3. CASE LeaveExec \/ Alarm \/ Quit
    BY <2>3 DEF LeaveExec, Alarm, Quit, loopVars, LoopInv, Machine, Returned
  <2>4. CASE WaitForInterrupt
    BY <2>4 DEF WaitForInterrupt, GuestRuns, LoopInv, Machine, Returned
  <2>5. CASE TakeIrq \/ VirtDone \/ RealDone \/ SetCpsr \/ CloseWindow
    BY <2>5 DEF TakeIrq, VirtDone, RealDone, SetCpsr, GuestRuns, CloseWindow, LoopInv,
                Returned
  <2> QED BY <2>1, <2>2, <2>3, <2>4, <2>5
<1>4. StoppedCoreLeaves'
  <2>1. CASE Top
    BY <2>1 DEF Top, LoopInv, Machine, StoppedCoreLeaves
  <2>2. CASE Alarm \/ Quit
    BY <2>2 DEF Alarm, Quit, LoopInv, Machine, StoppedCoreLeaves
  <2>3. CASE TakeIrq \/ SetCpsr \/ CloseWindow
    BY <2>3 DEF TakeIrq, SetCpsr, CloseWindow, LoopInv, StoppedCoreLeaves
  <2>4. CASE LeaveExec \/ AfterExec \/ VirtDone \/ RealDone \/ WaitForInterrupt
    BY <2>4 DEF LeaveExec, AfterExec, VirtDone, RealDone, WaitForInterrupt,
                StoppedCoreLeaves
  <2> QED BY <2>1, <2>2, <2>3, <2>4
<1> QED BY <1>1, <1>2, <1>3, <1>4 DEF LoopInv

LEMMA LoopStep ==
  ASSUME LoopInv, [LoopNext]_allVars
  PROVE  LoopInv'
<1> USE DEF LoopInv
<1>1. CASE Top \/ TakeIrq \/ LeaveExec \/ AfterExec \/ VirtDone \/ RealDone
           \/ SetCpsr \/ WaitForInterrupt \/ Alarm \/ Quit \/ CloseWindow
  BY <1>1, PlaceStep
<1>2. CASE VirtTimer
  <2>1. PICK i \in VirtIrq : m' = Assert(m, i, 0) BY <1>2 DEF VirtTimer
  <2>2. i \in Irq /\ 0 \in {0, 1} BY LoopAssumption
  <2>3. Drives(m, m') BY <2>1, <2>2, AssertDrives
  <2> QED BY <1>2, <2>3, DrivenStep DEF VirtTimer
<1>3. CASE RealTimer
  <2>1. PICK i \in RealIrq : \E l \in Levels(i) : m' = Assert(m, i, l)
    BY <1>3 DEF RealTimer
  <2>2. PICK l \in Levels(i) : m' = Assert(m, i, l) BY <2>1
  <2>3. i \in Irq /\ l \in {0, 1} BY LoopAssumption DEF Levels
  <2>4. Drives(m, m') BY <2>2, <2>3, AssertDrives
  <2> QED BY <1>3, <2>4, DrivenStep DEF RealTimer
<1>4. CASE KeyAcknowledged
  <2>1. PICK i \in RealIrq \cap Shared : m' = Deassert(m, i)
    BY <1>4 DEF KeyAcknowledged
  <2>2. Drives(m, m') BY <2>1, DeassertDrives
  <2> QED BY <1>4, <2>2, DrivenStep DEF KeyAcknowledged
<1>5. CASE GuestWrite
  <2>1. \E d \in SUBSET Irq :
          m' \in {SrcpndPut(m, d), IntmskPut(m, d), IntpndPut(m, d)}
    BY <1>5 DEF GuestWrite, WriteSRCPND, WriteINTMSK, WriteINTPND
  <2>2. Drives(m, m') BY <2>1, WritesDrive
  <2> QED BY <1>5, <2>2, DrivenStep DEF GuestWrite
<1>6. CASE GuestWatchdog
  <2>1. UNCHANGED <<m, loopVars>>
    BY <1>6 DEF GuestWatchdog, WriteWTCON, WriteWTCNT, WriteWTDAT
  <2>2. WatchdogArmed' BY <1>6, GuestKeepsArmed DEF GuestWatchdog
  <2> QED BY <2>1, <2>2 DEF Returned, StoppedCoreLeaves, loopVars
<1>7. CASE UNCHANGED allVars
  <2>1. WatchdogArmed' BY <1>7 DEF allVars, WatchdogArmed
  <2> QED BY <1>7, <2>1 DEF allVars, loopVars, Returned, StoppedCoreLeaves
<1>8. CASE WatchdogTimer BY <1>8, WatchdogTimerStep
<1>9. CASE PowerOff BY <1>9, PowerOffStep
<1>10. CASE WriteCLKCON BY <1>10, WriteCLKCONStep
<1>11. CASE Terminated BY <1>7, <1>11 DEF Terminated
<1> QED
  BY <1>1, <1>2, <1>3, <1>4, <1>5, <1>6, <1>7, <1>8, <1>9, <1>10, <1>11 DEF LoopNext

-----------------------------------------------------------------------------
(***************************************************************************)
(* The core and its sources.  The controller never tells the core of an    *)
(* interrupt it cannot name; levels are held by the keys only; and without *)
(* a tail behind the block that stops it, a core that was reset does not   *)
(* wait for an interrupt.                                                  *)
(***************************************************************************)
Named(s) ==
  /\ s.intmod = {} /\ OneOffset(s)
  /\ s.irq => s.intpnd # {}

HeldByKeys(s) == \A i \in s.src_pending : i \in RealIrq /\ Levels(i) # {0}

\* cpu_exec clears booting; behind the test after it, the reset core stands.
Fresh ==
  ~TailWrites /\ booting =>
    /\ pc = "exec" => m.idle = OFF
    /\ m.idle # OFF \/ pc \in {"virt", "real", "top"} => ~m.halted

CoreInv == Named(m) /\ HeldByKeys(m) /\ Fresh

\* What any call of the controller does to these; raised may become held.
Serves(s, t, raised) ==
  /\ Named(s) => Named(t)
  /\ t.src_pending \subseteq s.src_pending \cup raised
  /\ t.halted => s.halted

\* A change of the latches, then arbitration.
LEMMA GenIntServes ==
  ASSUME NEW s, NEW raised, NEW t \in Machine,
         t.intmod = s.intmod, OneOffset(s) => OneOffset(t),
         t.src_pending \subseteq s.src_pending \cup raised, t.halted = s.halted
  PROVE  Serves(s, GenInt(t), raised)
<1>1. /\ SameRegisters(t, GenInt(t)) /\ Wakes(t, GenInt(t))
      /\ OneOffset(t) => OneOffset(GenInt(t))
      /\ t.intmod = {} => LineFollows(GenInt(t))
  BY GenIntEffect
<1> QED BY <1>1 DEF SameRegisters, Wakes, LineFollows, Named, Serves

\* s3c2410_intc_assert; one that is neither held nor masked sets the core
\* running.
LEMMA AssertServes ==
  ASSUME NEW s \in Machine, NEW irq \in Irq, NEW level \in {0, 1}
  PROVE  /\ Serves(s, Assert(s, irq, level), IF level = 1 THEN {irq} ELSE {})
         /\ irq \notin s.src_pending \cup s.intmsk => Assert(s, irq, level).idle = RUN
<1> DEFINE raised == IF level = 1 THEN {irq} ELSE {}
           latch == [s EXCEPT
                       !.src_pending = IF level = 1 THEN @ \cup {irq} ELSE @,
                       !.srcpnd = @ \cup {irq}]
           latched == IF irq \in s.src_pending THEN s ELSE GenInt(latch)
<1>1. /\ latch \in Machine /\ latch.intmod = s.intmod /\ latch.intmsk = s.intmsk
      /\ latch.intpnd = s.intpnd /\ latch.intoffset = s.intoffset
      /\ latch.src_pending \subseteq s.src_pending \cup raised
      /\ irq \in latch.srcpnd /\ latch.halted = s.halted
  BY DEF Machine
<1> HIDE DEF latch
<1>2. Serves(s, s, raised) BY DEF Serves
<1>3. Serves(s, GenInt(latch), raised) BY <1>1, GenIntServes DEF OneOffset
<1>4. latched \in Machine BY <1>1, GenIntEffect
<1>5. irq \notin s.src_pending \cup s.intmsk => latched.idle = RUN
  <2> SUFFICES ASSUME irq \notin s.src_pending \cup s.intmsk PROVE latched.idle = RUN
    OBVIOUS
  <2>1. latched = GenInt(latch) OBVIOUS
  <2>2. /\ SameRegisters(latch, GenInt(latch)) /\ Served(GenInt(latch))
        /\ Wakes(latch, GenInt(latch))
    BY <1>1, GenIntEffect
  <2> QED BY <1>1, <2>1, <2>2 DEF SameRegisters, Served, Wakes
<1>6. Serves(s, latched, raised) BY <1>2, <1>3
<1>7. \/ Assert(s, irq, level) = latched
      \/ Assert(s, irq, level) = SetIdle(latched, RUN)
  BY DEF Assert, latch
<1> HIDE DEF latched, raised
<1>8. /\ Serves(s, SetIdle(latched, RUN), raised)
      /\ SetIdle(latched, RUN).idle = RUN
  <2>1. RUN \in {RUN, SLEEP, OFF} OBVIOUS
  <2> QED
    BY <1>4, <1>6, <2>1, SetIdleEffect DEF Serves, Named, OneOffset, SameRegisters
<1> QED BY <1>5, <1>6, <1>7, <1>8 DEF raised

\* One without a level, and one that is ON or the alarm.
LEMMA EdgeServes ==
  ASSUME NEW s \in Machine, NEW irq \in Irq
  PROVE  Serves(s, Assert(s, irq, 0), {})
<1>1. 0 \in {0, 1} OBVIOUS
<1>2. (IF 0 = 1 THEN {irq} ELSE {}) = {} OBVIOUS
<1>3. Serves(s, Assert(s, irq, 0), IF 0 = 1 THEN {irq} ELSE {}) BY <1>1, AssertServes
<1> QED BY <1>2, <1>3

LEMMA AssertEndsOff ==
  ASSUME NEW s \in Machine, NEW irq \in Irq, NEW level \in {0, 1},
         irq \in {EINT0, INT_RTC}, s.idle = OFF
  PROVE  Assert(s, irq, level).idle = RUN
<1> DEFINE latch == [s EXCEPT
                       !.src_pending = IF level = 1 THEN @ \cup {irq} ELSE @,
                       !.srcpnd = @ \cup {irq}]
           latched == IF irq \in s.src_pending THEN s ELSE GenInt(latch)
<1>1. latch \in Machine /\ latch.idle = OFF BY DEF Machine
<1>2. latched \in Machine /\ latched.idle \in {OFF, RUN}
  <2> HIDE DEF latch
  <2> QED BY <1>1, GenIntEffect DEF Wakes
<1>3. Assert(s, irq, level)
        = IF latched.idle = OFF THEN SetIdle(latched, RUN) ELSE latched
  BY DEF Assert
<1> HIDE DEF latched
<1>4. RUN \in {RUN, SLEEP, OFF} OBVIOUS
<1> QED BY <1>2, <1>3, <1>4, SetIdleEffect

\* The writes the loop's guest makes, and the acknowledged key.
LEMMA WritesServe ==
  ASSUME NEW s \in Machine, NEW d \in SUBSET Irq, NEW irq
  PROVE  /\ Serves(s, SrcpndPut(s, d), {})
         /\ Serves(s, IntmskPut(s, d), {})
         /\ Serves(s, IntpndPut(s, d), {})
         /\ Serves(s, Deassert(s, irq), {})
<1>1. Serves(s, SrcpndPut(s, d), {})
  <2> DEFINE t == [s EXCEPT !.srcpnd = (@ \ d) \cup s.src_pending]
  <2>1. /\ t \in Machine /\ t.intmod = s.intmod /\ t.intpnd = s.intpnd
        /\ t.intoffset = s.intoffset /\ t.src_pending = s.src_pending
        /\ t.halted = s.halted /\ t.irq = s.irq
    BY DEF Machine
  <2>2. SrcpndPut(s, d) \in {t, GenInt(t)} BY DEF SrcpndPut
  <2> HIDE DEF t
  <2>3. Serves(s, t, {}) BY <2>1 DEF Serves, Named, OneOffset
  <2>4. Serves(s, GenInt(t), {}) BY <2>1, GenIntServes DEF OneOffset
  <2> QED BY <2>2, <2>3, <2>4
<1>2. Serves(s, IntmskPut(s, d), {})
  <2> DEFINE t == [s EXCEPT !.intmsk = d]
  <2>1. /\ t \in Machine /\ t.intmod = s.intmod /\ t.intpnd = s.intpnd
        /\ t.intoffset = s.intoffset /\ t.src_pending = s.src_pending
        /\ t.halted = s.halted
    BY DEF Machine
  <2>2. IntmskPut(s, d) = GenInt(t) BY DEF IntmskPut
  <2> HIDE DEF t
  <2> QED BY <2>1, <2>2, GenIntServes DEF OneOffset
<1>3. Serves(s, IntpndPut(s, d), {})
  <2> DEFINE t == [s EXCEPT !.intpnd = @ \ d]
  <2>1. /\ t \in Machine /\ t.intmod = s.intmod /\ t.intpnd \subseteq s.intpnd
        /\ t.intoffset = s.intoffset /\ t.src_pending = s.src_pending
        /\ t.halted = s.halted
    BY DEF Machine
  <2>2. IntpndPut(s, d) = GenInt(t) BY DEF IntpndPut
  <2> HIDE DEF t
  <2> QED BY <2>1, <2>2, GenIntServes DEF OneOffset
<1>4. Serves(s, Deassert(s, irq), {})
  BY DEF Deassert, Machine, Serves, Named, OneOffset
<1> QED BY <1>1, <1>2, <1>3, <1>4

LEMMA CoreStarts == LoopInit => CoreInv
<1> SUFFICES ASSUME LoopInit PROVE CoreInv OBVIOUS
<1>1. /\ m.intmod = {} /\ m.intpnd = {} /\ ~m.irq /\ m.src_pending = {} /\ ~m.halted
      /\ m.idle = RUN
  BY DEF LoopInit, ColdMachine
<1> QED BY <1>1 DEF LoopInit, CoreInv, Named, OneOffset, HeldByKeys, Fresh, RUN, OFF

\* A call of the controller, from a timer or from the guest.
LEMMA ServedStep ==
  ASSUME LoopInv, CoreInv, NEW raised, Serves(m, m', raised), Drives(m, m'),
         \A i \in raised : i \in RealIrq /\ Levels(i) # {0},
         UNCHANGED <<booting, pc>>,
         pc \in {"exec", "virt", "real"}, pc = "exec" => TailWrites \/ m.idle = RUN
  PROVE  CoreInv'
<1>1. Named(m') BY DEF CoreInv, Serves
<1>2. HeldByKeys(m') BY DEF CoreInv, Serves, HeldByKeys
<1>3. Fresh'
  BY DEF CoreInv, Serves, Drives, Fresh, RUN, OFF
<1> QED BY <1>1, <1>2, <1>3 DEF CoreInv

LEMMA CoreWatchdogStep ==
  ASSUME LoopInv, CoreInv, WatchdogTimer
  PROVE  CoreInv'
<1> DEFINE s == IF Barks(wd) /\ "IRQ" \in wd.wtcon THEN Assert(m, INT_WDT, 0) ELSE m
<1>1. Drives(m, s) /\ Serves(m, s, {})
  <2>1. INT_WDT \in Irq /\ 0 \in {0, 1} BY LoopAssumption
  <2>2. Drives(m, Assert(m, INT_WDT, 0)) BY <2>1, AssertDrives DEF LoopInv
  <2>3. Serves(m, Assert(m, INT_WDT, 0), {}) BY <2>1, EdgeServes DEF LoopInv
  <2>4. Drives(m, m) /\ Serves(m, m, {}) BY DEF Drives, Serves, LoopInv
  <2> QED BY <2>2, <2>3, <2>4
<1>2. m' = IF Bites(wd) THEN CpuReset(ModulesReset(s, "WATCHDOG")) ELSE s
  BY DEF WatchdogTimer, WatchdogTick, TickMachine
<1> HIDE DEF s
<1>3. CASE Bites(wd)
  <2> DEFINE t == ModulesReset(s, "WATCHDOG")
  <2>1. /\ t \in Machine /\ t.intpnd = {} /\ t.intmod = {}
        /\ t.src_pending = s.src_pending
    <3>1. CpuReset(s) \in Machine /\ CpuReset(s).src_pending = s.src_pending
      BY <1>1 DEF Drives, Machine, CpuReset
    <3>2. t.src_pending = CpuReset(s).src_pending
      BY <3>1 DEF ModulesReset, IntcReset, Machine
    <3> QED BY <1>1, <3>1, <3>2, ModulesResetEffect DEF Drives
  <2>2. m' = CpuReset(t) BY <1>2, <1>3
  <2> HIDE DEF t
  <2>3. /\ m'.intmod = {} /\ m'.intpnd = {} /\ ~m'.irq /\ ~m'.halted
        /\ m'.src_pending = s.src_pending
    BY <2>1, <2>2 DEF CpuReset, Machine
  <2>4. Named(m') BY <2>3 DEF Named, OneOffset
  <2>5. HeldByKeys(m') BY <1>1, <2>3 DEF CoreInv, Serves, HeldByKeys
  <2>6. Fresh' BY <2>3 DEF WatchdogTimer, Fresh
  <2> QED BY <2>4, <2>5, <2>6 DEF CoreInv
<1>4. CASE ~Bites(wd)
  <2>1. m' = s /\ UNCHANGED <<booting, pc>> /\ pc = "virt"
    BY <1>2, <1>4 DEF WatchdogTimer
  <2> QED BY <1>1, <2>1, ServedStep
<1> QED BY <1>3, <1>4

LEMMA CorePowerStep ==
  ASSUME LoopInv, CoreInv, PowerOff \/ WriteCLKCON
  PROVE  CoreInv'
<1>1. CASE PowerOff
  <2> DEFINE t == CpuReset(m)
  <2>1. /\ t \in Machine /\ ~t.irq /\ t.intpnd = m.intpnd /\ t.intoffset = m.intoffset
        /\ t.intmod = m.intmod /\ t.src_pending = m.src_pending
    BY DEF LoopInv, Machine, CpuReset
  <2>2. m' = SetIdle(t, OFF) BY <1>1 DEF PowerOff, IntcReset
  <2> HIDE DEF t
  <2>3. /\ m'.idle = OFF /\ ~m'.irq /\ m'.intpnd = m.intpnd
        /\ m'.intoffset = m.intoffset /\ m'.intmod = m.intmod
        /\ m'.src_pending = m.src_pending
    BY <2>1, <2>2, SetIdleEffect DEF SameRegisters
  <2> QED
    BY <1>1, <2>3
    DEF PowerOff, GuestRuns, CoreInv, Named, OneOffset, HeldByKeys, Fresh
<1>2. CASE WriteCLKCON
  <2>1. /\ m'.irq = m.irq /\ m'.intpnd = m.intpnd /\ m'.intoffset = m.intoffset
        /\ m'.intmod = m.intmod /\ m'.src_pending = m.src_pending
    <3>1. m' \in {m, SetIdle(m, SLEEP)} BY <1>2 DEF WriteCLKCON
    <3> QED BY <3>1, SetIdleEffect DEF LoopInv, SameRegisters
  <2>2. Fresh' BY <1>2 DEF WriteCLKCON, GuestRuns, CoreInv, Fresh, RUN, OFF
  <2> QED BY <2>1, <2>2 DEF CoreInv, Named, OneOffset, HeldByKeys
<1> QED BY <1>1, <1>2

\* The actions that call neither the controller nor the watchdog.
LEMMA CorePlaceStep ==
  ASSUME LoopInv, CoreInv,
         Top \/ TakeIrq \/ LeaveExec \/ AfterExec \/ VirtDone \/ RealDone
         \/ SetCpsr \/ WaitForInterrupt \/ Alarm \/ Quit \/ CloseWindow
  PROVE  CoreInv'
<1>1. /\ m'.intpnd = m.intpnd /\ m'.intoffset = m.intoffset
      /\ m'.intmod = m.intmod /\ m'.src_pending = m.src_pending
      /\ m'.irq => m.irq
  <2>1. CASE AfterExec
    BY <2>1 DEF AfterExec, CpuReset, LoopInv, Machine
  <2>2. CASE Top \/ WaitForInterrupt
    BY <2>2 DEF Top, WaitForInterrupt, LoopInv, Machine
  <2>3. CASE LeaveExec \/ Alarm \/ Quit
    BY <2>3 DEF LeaveExec, Alarm, Quit, LoopInv, Machine
  <2>4. CASE TakeIrq \/ VirtDone \/ RealDone \/ SetCpsr \/ CloseWindow
    BY <2>4 DEF TakeIrq, VirtDone, RealDone, SetCpsr, CloseWindow
  <2> QED BY <2>1, <2>2, <2>3, <2>4
<1>2. Named(m') /\ HeldByKeys(m')
  BY <1>1 DEF CoreInv, Named, OneOffset, HeldByKeys
<1>3. Fresh'
  <2>1. CASE Top
    BY <2>1 DEF Top, LoopInv, Machine, CoreInv, Fresh
  <2>2. CASE AfterExec
    <3>1. CASE m.idle = OFF
      <4>1. m' = CpuReset(m)
        BY <2>2, <3>1 DEF AfterExec, LoopInv, Returned, RUN, OFF
      <4>2. ~m'.halted BY <4>1 DEF CpuReset, LoopInv, Machine
      <4> QED BY <2>2, <4>2 DEF AfterExec, Fresh
    <3>2. CASE m.idle # OFF
      BY <2>2, <3>2 DEF AfterExec, CoreInv, Fresh
    <3> QED BY <3>1, <3>2
  <2>3. CASE LeaveExec \/ Alarm \/ Quit
    <3>1. m'.halted = m.halted /\ m'.idle = m.idle
      BY <2>3 DEF LeaveExec, Alarm, Quit, LoopInv, Machine
    <3> QED BY <2>3, <3>1 DEF LeaveExec, Alarm, Quit, loopVars, CoreInv, Fresh
  <2>4. CASE WaitForInterrupt
    BY <2>4 DEF WaitForInterrupt, GuestRuns, CoreInv, Fresh, RUN, OFF
  <2>5. CASE TakeIrq \/ VirtDone \/ RealDone \/ SetCpsr \/ CloseWindow
    BY <2>5 DEF TakeIrq, VirtDone, RealDone, SetCpsr, CloseWindow, CoreInv, Fresh
  <2> QED BY <2>1, <2>2, <2>3, <2>4, <2>5
<1> QED BY <1>2, <1>3 DEF CoreInv

LEMMA CoreStep ==
  ASSUME LoopInv, CoreInv, [LoopNext]_allVars
  PROVE  CoreInv'
<1>1. CASE Top \/ TakeIrq \/ LeaveExec \/ AfterExec \/ VirtDone \/ RealDone
           \/ SetCpsr \/ WaitForInterrupt \/ Alarm \/ Quit \/ CloseWindow
  BY <1>1, CorePlaceStep
<1>2. CASE VirtTimer
  <2>1. PICK i \in VirtIrq : m' = Assert(m, i, 0) BY <1>2 DEF VirtTimer
  <2>2. m \in Machine /\ i \in Irq /\ 0 \in {0, 1} BY LoopAssumption DEF LoopInv
  <2>3. Drives(m, m') /\ Serves(m, m', {}) BY <2>1, <2>2, AssertDrives, EdgeServes
  <2> QED BY <1>2, <2>3, ServedStep DEF VirtTimer, loopVars
<1>3. CASE RealTimer
  <2>1. PICK i \in RealIrq : \E l \in Levels(i) : m' = Assert(m, i, l)
    BY <1>3 DEF RealTimer
  <2>2. PICK l \in Levels(i) : m' = Assert(m, i, l) BY <2>1
  <2>3. m \in Machine /\ i \in Irq /\ l \in {0, 1} BY LoopAssumption DEF Levels, LoopInv
  <2> DEFINE raised == IF l = 1 THEN {i} ELSE {}
  <2>4. Drives(m, m') /\ Serves(m, m', raised)
    BY <2>2, <2>3, AssertDrives, AssertServes
  <2>5. \A j \in raised : j \in RealIrq /\ Levels(j) # {0} BY <2>2
  <2> HIDE DEF raised
  <2> QED BY <1>3, <2>4, <2>5, ServedStep DEF RealTimer, loopVars
<1>4. CASE KeyAcknowledged
  <2>1. PICK i \in RealIrq \cap Shared : m' = Deassert(m, i)
    BY <1>4 DEF KeyAcknowledged
  <2>2. Drives(m, m') /\ Serves(m, m', {})
    BY <2>1, DeassertDrives, WritesServe DEF LoopInv
  <2> QED BY <1>4, <2>2, ServedStep DEF KeyAcknowledged, GuestRuns, loopVars
<1>5. CASE GuestWrite
  <2>1. PICK d \in SUBSET Irq :
          m' \in {SrcpndPut(m, d), IntmskPut(m, d), IntpndPut(m, d)}
    BY <1>5 DEF GuestWrite, WriteSRCPND, WriteINTMSK, WriteINTPND
  <2>2. Drives(m, m') /\ Serves(m, m', {}) BY <2>1, WritesDrive, WritesServe DEF LoopInv
  <2> QED BY <1>5, <2>2, ServedStep DEF GuestWrite, GuestRuns, loopVars
<1>6. CASE GuestWatchdog
  <2>1. UNCHANGED <<m, loopVars>>
    BY <1>6 DEF GuestWatchdog, WriteWTCON, WriteWTCNT, WriteWTDAT
  <2> QED BY <2>1 DEF loopVars, CoreInv, Fresh
<1>7. CASE UNCHANGED allVars
  BY <1>7 DEF allVars, loopVars, CoreInv, Fresh
<1>8. CASE WatchdogTimer BY <1>8, CoreWatchdogStep
<1>9. CASE PowerOff \/ WriteCLKCON BY <1>9, CorePowerStep
<1>10. CASE Terminated BY <1>7, <1>10 DEF Terminated
<1> QED
  BY <1>1, <1>2, <1>3, <1>4, <1>5, <1>6, <1>7, <1>8, <1>9, <1>10 DEF LoopNext

-----------------------------------------------------------------------------
(***************************************************************************)
(* The theorems.                                                           *)
(***************************************************************************)
\* Over any run of x49gp_main_loop: the machine has its type, and the four
\* parts of the invariant hold together.
THEOREM LoopInvariant == LoopSpec => []LoopInv
<1>1. LoopInit => LoopInv BY LoopStarts
<1>2. LoopInv /\ [LoopNext]_allVars => LoopInv' BY LoopStep
<1> QED BY <1>1, <1>2, PTL DEF LoopSpec

\* s3c2410_watchdog_update: the timer is armed exactly while WTCON enables it,
\* whatever bites, power-offs and writes come, and the counts keep in range.
THEOREM WatchdogArmedTheorem == LoopSpec => []WatchdogArmed
<1>1. LoopInv => WatchdogArmed BY DEF LoopInv
<1> QED BY <1>1, LoopInvariant, PTL

\* x49gp_set_idle: a core stopped or switched off while cpu_exec runs it has an
\* exit request raised, which the resets of POWER_OFF before it cannot lower.
THEOREM StoppedCoreLeavesTheorem == LoopSpec => []StoppedCoreLeaves
<1>1. LoopInv => StoppedCoreLeaves BY DEF LoopInv
<1> QED BY <1>1, LoopInvariant, PTL

\* A machine that is off has neither line up, and from the loop's test on its
\* core is at the reset vector with interrupts masked.
THEOREM OffIsQuietTheorem == LoopSpec => []OffIsQuiet
<1>1. LoopInv => OffIsQuiet BY DEF LoopInv, Returned, Quiet, OffIsQuiet
<1> QED BY <1>1, LoopInvariant, PTL

-----------------------------------------------------------------------------
(***************************************************************************)
(* What the liveness properties of the runs rest on, step by step.         *)
(***************************************************************************)
LEMMA CoreHolds == LoopSpec => [](LoopInv /\ CoreInv)
<1>1. LoopInit => LoopInv /\ CoreInv BY LoopStarts, CoreStarts
<1>2. LoopInv /\ CoreInv /\ [LoopNext]_allVars => (LoopInv /\ CoreInv)'
  BY LoopStep, CoreStep
<1> QED BY <1>1, <1>2, PTL DEF LoopSpec

\* Whenever the core's IRQ line is up, INTPND holds one source, the one
\* INTOFFSET names: do_interrupt never enters the firmware's handler with
\* nothing to dispatch.
IrqHasSource == m.irq => m.intpnd = {m.intoffset}

\* s3c2410_intc_gen_int and the resets of POWER_OFF and the watchdog: INTPND
\* holds at most the source INTOFFSET names, and holds it while the line is up.
\* (The converse fails after POWER_OFF, which lowers the line and keeps INTPND.)
THEOREM LoopDispatchTheorem == LoopSpec => [](OffsetNamesPending /\ IrqHasSource)
<1>1. CoreInv => OffsetNamesPending /\ IrqHasSource
  BY DEF CoreInv, Named, OneOffset, OffsetNamesPending, IrqHasSource
<1> QED BY <1>1, CoreHolds, PTL

\* In the composition too a source enters INTPND only latched and unmasked,
\* whichever timer, key, write or reset comes.
THEOREM LoopGrantTheorem == LoopSpec => GrantIsEligible
<1>1. LoopInv /\ [LoopNext]_allVars => [Eligible(m, m')]_m
  <2> SUFFICES ASSUME LoopInv, [LoopNext]_allVars PROVE Eligible(m, m') OBVIOUS
  <2>1. m \in Machine BY DEF LoopInv
  <2>2. CASE m' = m BY <2>2 DEF Eligible
  <2>3. CASE VirtTimer \/ RealTimer
    <3>1. PICK i \in Irq, l \in {0, 1} : m' = Assert(m, i, l)
      <4>1. 0 \in {0, 1} /\ \A i : Levels(i) \subseteq {0, 1} BY DEF Levels
      <4>2. VirtIrq \subseteq Irq /\ RealIrq \subseteq Irq BY LoopAssumption
      <4> QED BY <2>3, <4>1, <4>2 DEF VirtTimer, RealTimer
    <3> QED BY <2>1, <3>1, AssertKeeps DEF Grows, Eligible
  <2>4. CASE KeyAcknowledged
    BY <2>1, <2>4, DeassertKeeps DEF KeyAcknowledged, Grows, Eligible
  <2>5. CASE GuestWrite
    <3>1. PICK d \in SUBSET Irq :
            m' \in {SrcpndPut(m, d), IntmskPut(m, d), IntpndPut(m, d)}
      BY <2>5 DEF GuestWrite, WriteSRCPND, WriteINTMSK, WriteINTPND
    <3> QED BY <2>1, <3>1, SrcpndPutKeeps, IntmskPutKeeps, IntpndPutKeeps
  <2>6. CASE WatchdogTimer
    <3> DEFINE s == IF Barks(wd) /\ "IRQ" \in wd.wtcon THEN Assert(m, INT_WDT, 0) ELSE m
    <3>1. s \in Machine /\ Eligible(m, s)
      <4>1. INT_WDT \in Irq /\ 0 \in {0, 1} BY LoopAssumption
      <4>2. Keeps(m, Assert(m, INT_WDT, 0)) /\ Grows(m, Assert(m, INT_WDT, 0))
        BY <2>1, <4>1, AssertKeeps
      <4> QED BY <2>1, <4>2 DEF Keeps, Grows, Eligible
    <3>2. m' = IF Bites(wd) THEN CpuReset(ModulesReset(s, "WATCHDOG")) ELSE s
      BY <2>6 DEF WatchdogTimer, WatchdogTick, TickMachine
    <3> HIDE DEF s
    <3>3. CpuReset(ModulesReset(s, "WATCHDOG")).intpnd = {}
      BY <3>1, ModulesResetEffect, CpuResetEffect
    <3> QED BY <3>1, <3>2, <3>3 DEF Eligible
  <2>7. m'.intpnd = m.intpnd => Eligible(m, m') BY DEF Eligible
  <2>8. CASE PowerOff
    <3>1. CpuReset(m) \in Machine /\ CpuReset(m).intpnd = m.intpnd
      BY <2>1, CpuResetEffect
    <3>2. m' = SetIdle(CpuReset(m), OFF) BY <2>8 DEF PowerOff, IntcReset
    <3>3. m'.intpnd = m.intpnd BY <3>1, <3>2, SetIdleEffect
    <3> QED BY <2>7, <3>3
  <2>9. CASE WriteCLKCON
    <3>1. m' \in {m, SetIdle(m, SLEEP)} BY <2>9 DEF WriteCLKCON
    <3> QED BY <2>1, <2>7, <3>1, SetIdleEffect
  <2>10. CASE Top \/ LeaveExec \/ AfterExec \/ WaitForInterrupt \/ Alarm \/ Quit
    <3>1. m'.intpnd = m.intpnd
      BY <2>1, <2>10, CpuResetEffect
      DEF Top, LeaveExec, AfterExec, WaitForInterrupt, Alarm, Quit, Machine
    <3> QED BY <2>7, <3>1
  <2>11. CASE TakeIrq \/ VirtDone \/ RealDone \/ SetCpsr \/ CloseWindow \/ Terminated
              \/ GuestWatchdog \/ UNCHANGED allVars
    BY <2>2, <2>11 DEF TakeIrq, VirtDone, RealDone, SetCpsr, CloseWindow, Terminated,
       GuestWatchdog, WriteWTCON, WriteWTCNT, WriteWTDAT, allVars
  <2> QED
    BY <2>3, <2>4, <2>5, <2>6, <2>8, <2>9, <2>10, <2>11 DEF LoopNext
<1>2. LoopInv /\ [LoopNext]_allVars
        => [m'.intpnd \ m.intpnd \subseteq m'.srcpnd \ m'.intmsk]_m
  BY <1>1 DEF Eligible
<1> QED BY <1>2, LoopInvariant, PTL DEF LoopSpec, GrantIsEligible

\* s3c2410_intc_assert from a PWM timer: a source without a level that is not
\* masked sets a stopped core running, latched already or not; and ON does so to a
\* machine that is off, held already or masked.
WakersWake ==
  [][ /\ \A i \in VirtIrq :
           Levels(i) = {0} /\ i \notin m.intmsk /\ m' = Assert(m, i, 0) => m'.idle = RUN
      /\ m.idle = OFF /\ EINT0 \in Irq /\ OnKey => m'.idle = RUN ]_allVars

\* The steps TimerEndsSleep and OnKeyWakes wait for do what they are waited for.
THEOREM WakersWakeTheorem == LoopSpec => WakersWake
<1> DEFINE A == /\ \A i \in VirtIrq :
                     Levels(i) = {0} /\ i \notin m.intmsk /\ m' = Assert(m, i, 0)
                       => m'.idle = RUN
                /\ m.idle = OFF /\ EINT0 \in Irq /\ OnKey => m'.idle = RUN
<1>1. LoopInv /\ CoreInv => A
  <2> SUFFICES ASSUME LoopInv, CoreInv PROVE A OBVIOUS
  <2>1. ASSUME NEW i \in VirtIrq,
               Levels(i) = {0}, i \notin m.intmsk, m' = Assert(m, i, 0)
        PROVE  m'.idle = RUN
    <3>1. i \notin m.src_pending BY <2>1 DEF CoreInv, HeldByKeys
    <3>2. m \in Machine /\ i \in Irq /\ 0 \in {0, 1} BY LoopAssumption DEF LoopInv
    <3> QED BY <2>1, <3>1, <3>2, AssertServes
  <2>2. ASSUME m.idle = OFF, EINT0 \in Irq, OnKey PROVE m'.idle = RUN
    <3>1. PICK l \in {0, 1} : m' = Assert(m, EINT0, l) BY <2>2 DEF OnKey
    <3>2. m \in Machine /\ EINT0 \in {EINT0, INT_RTC} BY DEF LoopInv
    <3> QED BY <2>2, <3>1, <3>2, AssertEndsOff
  <2> QED BY <2>1, <2>2
<1> HIDE DEF A
<1>2. LoopInv /\ CoreInv => [A]_allVars BY <1>1
<1> USE DEF A
<1> QED BY <1>2, CoreHolds, PTL DEF WakersWake

\* x49gp_main_loop: a quit request is not taken back, and from then on every
\* step that changes the place in the loop goes on towards its end; cpu_exec is
\* not entered again.
Ahead ==
  {<<"exec", "left">>, <<"left", "virt">>, <<"left", "real">>, <<"virt", "real">>,
   <<"real", "top">>, <<"top", "done">>}
QuitGoesOn == [][arm_exit => arm_exit' /\ (pc' = pc \/ <<pc, pc'>> \in Ahead)]_allVars

\* The safety half of QuitEnds: what is left to fairness is that steps are taken.
THEOREM QuitGoesOnTheorem == LoopSpec => QuitGoesOn
<1> DEFINE A == arm_exit => arm_exit' /\ (pc' = pc \/ <<pc, pc'>> \in Ahead)
<1>1. [LoopNext]_allVars => [A]_allVars
  <2> SUFFICES ASSUME LoopNext, arm_exit
               PROVE  arm_exit' /\ (pc' = pc \/ <<pc, pc'>> \in Ahead)
    OBVIOUS
  <2>1. CASE Top \/ LeaveExec \/ AfterExec \/ VirtDone \/ RealDone \/ WaitForInterrupt
    BY <2>1 DEF Top, LeaveExec, AfterExec, VirtDone, RealDone, WaitForInterrupt,
                GuestRuns, Ahead
  <2>2. CASE \/ TakeIrq \/ VirtTimer \/ WatchdogTimer \/ RealTimer \/ KeyAcknowledged
             \/ GuestWrite \/ SetCpsr \/ GuestWatchdog \/ PowerOff \/ WriteCLKCON
             \/ Alarm \/ Quit \/ CloseWindow \/ Terminated
    BY <2>2 DEF TakeIrq, VirtTimer, WatchdogTimer, RealTimer, KeyAcknowledged, GuestWrite,
                SetCpsr, GuestWatchdog, PowerOff, WriteCLKCON, Alarm, Quit, CloseWindow,
                Terminated, loopVars, allVars
  <2> QED BY <2>1, <2>2 DEF LoopNext
<1> HIDE DEF A
<1>2. [][LoopNext]_allVars => [][A]_allVars BY <1>1, PTL
<1> USE DEF A
<1> QED BY <1>2 DEF LoopSpec, QuitGoesOn

\* A core that was reset does not wait for an interrupt once the machine runs:
\* the next pass of a loop nobody quit enters cpu_exec, at the reset vector.
ResetCoreIsReady == booting /\ m.idle = RUN => pc # "exec" /\ ~m.halted

\* The safety half of BootsAfterReset.  A block that goes on behind POWER_OFF
\* might wake the machine and then wait for an interrupt, hence the condition.
THEOREM ResetCoreIsReadyTheorem ==
  ASSUME ~TailWrites
  PROVE  LoopSpec => []ResetCoreIsReady
<1>1. LoopInv /\ CoreInv => ResetCoreIsReady
  BY DEF CoreInv, Fresh, ResetCoreIsReady, RUN, OFF
<1> QED BY <1>1, CoreHolds, PTL
=============================================================================
