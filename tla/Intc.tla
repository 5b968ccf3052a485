-------------------------------- MODULE Intc --------------------------------
(***************************************************************************)
(* The S3C2410 interrupt controller of s3c2410_intc.c, with the ARM core's *)
(* interrupt lines and the machine's run state it drives through           *)
(* cpu_interrupt(), cpu_reset_interrupt() and x49gp_set_idle().            *)
(*                                                                         *)
(* All of that state is one record m, and every C function that changes it *)
(* is an operator from a record to a record, so that the modules composed  *)
(* with the controller can chain calls the way the code does.  A 32-bit    *)
(* register of one bit per source is the set of the sources whose bit is 1.*)
(***************************************************************************)
EXTENDS Integers, FiniteSets

CONSTANTS
  Irq,        \* The sources in use, by bit number.
  SubIrq,     \* The UART and ADC sub-sources in use, by bit number.
  GuestRegs,  \* The registers the guest program touches.
  FiqSets,    \* The values the guest writes to INTMOD.
  Priorities, \* The values the guest writes to PRIORITY.
  Resets      \* WATCHDOG: the watchdog bites.  RELOAD: the program is quit and
              \* started again from its state file.  POWER_ON: the same, but
              \* the file lacks a key of some other module.  POWER_OFF: the
              \* guest switches the calculator off.

VARIABLE m

(***************************************************************************)
(* The wiring: include/s3c2410_intc.h and the two static tables.           *)
(***************************************************************************)
EINT0 == 0
EINT1 == 1
EINT2 == 2
EINT3 == 3
EINT4_7 == 4
EINT8_23 == 5
nBATT_FLT == 7
INT_TICK == 8
INT_WDT == 9
INT_UART2 == 15
INT_UART1 == 23
INT_UART0 == 28
INT_RTC == 30
INT_ADC == 31

\* Arbiter a is ArbReq[a + 1], its slots 0..5 at indices 1..6; -1 is an empty
\* slot.
ArbReq ==
  << <<-1, EINT0, EINT1, EINT2, EINT3, -1>>,
     <<EINT4_7, EINT8_23, -1, nBATT_FLT, INT_TICK, INT_WDT>>,
     <<10, 11, 12, 13, 14, INT_UART2>>,
     <<16, 17, 18, 19, 20, 21>>,
     <<22, INT_UART1, -1, 25, 26, 27>>,
     <<-1, INT_UART0, 29, INT_RTC, INT_ADC, -1>>,
     <<0, 1, 2, 3, 4, 5>> >>

\* The order in which an arbiter scans its slots, for each ARB_SEL.
ArbOrder ==
  << <<1, 2, 3, 4, 5, 6>>,
     <<1, 3, 4, 5, 2, 6>>,
     <<1, 4, 5, 2, 3, 6>>,
     <<1, 5, 2, 3, 4, 6>> >>

\* The source each sub-source is folded into.
Parent(s) ==
  IF s \in 0..2 THEN INT_UART0
  ELSE IF s \in 3..5 THEN INT_UART1
  ELSE IF s \in 6..8 THEN INT_UART2
  ELSE INT_ADC

\* Sources 6 and 24 do not exist: INTMSK holds them at 1 and INTMOD at 0.
Unused == {6, 24}

RUN == 0
SLEEP == 1
OFF == 2

RegNames == {"SRCPND", "INTMOD", "INTMSK", "PRIORITY", "INTPND",
             "SUBSRCPND", "INTSUBMSK"}
ResetKinds == {"POWER_ON", "WATCHDOG", "POWER_OFF", "RELOAD"}
Arbiters == 0..6
PriorityWord == [sel : [Arbiters -> 0..3], mode : [Arbiters -> BOOLEAN]]

ASSUME IrqAssumption == Irq \subseteq (0..31) \ Unused
ASSUME SubIrqAssumption ==
  SubIrq \subseteq 0..10 /\ \A s \in SubIrq : Parent(s) \in Irq
ASSUME GuestAssumption ==
  /\ GuestRegs \subseteq RegNames
  /\ FiqSets \subseteq SUBSET Irq
  /\ Priorities \subseteq PriorityWord
  /\ Resets \subseteq ResetKinds

(***************************************************************************)
(* The state.  sel and mode are the live arb_data[]; priority is the       *)
(* register image, brought up to date only when the guest reads it.        *)
(* src_pending and subsrc_pending hold the levels the devices drive.       *)
(***************************************************************************)
Machine ==
  [srcpnd : SUBSET Irq, intmod : SUBSET Irq, intmsk : SUBSET Irq,
   intpnd : SUBSET Irq, intoffset : Irq \cup {0},
   subsrcpnd : SUBSET SubIrq, intsubmsk : SUBSET SubIrq,
   src_pending : SUBSET Irq, subsrc_pending : SUBSET SubIrq,
   sel : [Arbiters -> 0..3], mode : [Arbiters -> BOOLEAN],
   priority : PriorityWord,
   irq : BOOLEAN, fiq : BOOLEAN,
   halted : BOOLEAN, exit_request : BOOLEAN, idle : {RUN, SLEEP, OFF}]

ResetPriority == [sel |-> [a \in Arbiters |-> 0],
                  mode |-> [a \in Arbiters |-> TRUE]]

ColdMachine ==
  [srcpnd |-> {}, intmod |-> {}, intmsk |-> Irq,
   intpnd |-> {}, intoffset |-> 0,
   subsrcpnd |-> {}, intsubmsk |-> SubIrq,
   src_pending |-> {}, subsrc_pending |-> {},
   sel |-> ResetPriority.sel, mode |-> ResetPriority.mode,
   priority |-> ResetPriority,
   irq |-> FALSE, fiq |-> FALSE,
   halted |-> FALSE, exit_request |-> FALSE, idle |-> RUN]

(***************************************************************************)
(* x49gp_set_idle, and the part of QEMU's cpu_reset that matters here.     *)
(***************************************************************************)
SetIdle(s, idle) ==
  IF idle = RUN
  THEN [s EXCEPT !.idle = RUN, !.halted = FALSE]
  ELSE [s EXCEPT !.idle = idle, !.halted = TRUE, !.exit_request = TRUE]

\* Variation: a reset leaves a core that waits for an interrupt waiting.
CpuResetHalted(s) ==
  [s EXCEPT !.irq = FALSE, !.fiq = FALSE, !.exit_request = FALSE]

CpuReset(s) ==
  [s EXCEPT !.irq = FALSE, !.fiq = FALSE, !.halted = FALSE,
            !.exit_request = FALSE]

\* Variation: the lowest-ranked request wins.
SelectIntLast(req, sel, service) ==
  LET order == ArbOrder[sel + 1]
      asking == {i \in 1..6 : req[order[i]] \in service}
  IN IF asking = {} THEN -1
     ELSE req[order[CHOOSE i \in asking : \A j \in asking : i >= j]]

(***************************************************************************)
(* s3c2410_intc_select_int: the request an arbiter with slots req lets     *)
(* through, scanning from ARB_SEL = sel, or -1.                            *)
(***************************************************************************)
SelectInt(req, sel, service) ==
  LET order == ArbOrder[sel + 1]
      asking == {i \in 1..6 : req[order[i]] \in service}
  IN IF asking = {} THEN -1
     ELSE req[order[CHOOSE i \in asking : \A j \in asking : i <= j]]

\* Variation: ARB_SEL advances without ARBx_SEL_MASK.
GrantUnmasked(s, service) ==
  LET offset  == [a \in 0..5 |-> SelectInt(ArbReq[a + 1], s.sel[a], service)]
      request == {a \in 0..5 : offset[a] # -1}
      winner  == offset[SelectInt(ArbReq[7], s.sel[6], request)]
  IN [s EXCEPT !.sel = [a \in Arbiters |-> IF a \in request \cup {6}
                                           THEN s.sel[a] + 1 ELSE s.sel[a]],
               !.intoffset = winner, !.intpnd = @ \cup {winner}, !.irq = TRUE]

\* Arbitrate among service: the arbiters that saw a request and are in
\* rotating mode move on, those whose request then loses in arbiter 6 too.
Grant(s, service) ==
  LET offset  == [a \in 0..5 |-> SelectInt(ArbReq[a + 1], s.sel[a], service)]
      request == {a \in 0..5 : offset[a] # -1}
      winner  == offset[SelectInt(ArbReq[7], s.sel[6], request)]
  IN IF request = {} THEN [s EXCEPT !.irq = FALSE]
     ELSE SetIdle([s EXCEPT
            !.sel = [a \in Arbiters |->
                       IF a \in request \cup {6} /\ s.mode[a]
                       THEN (s.sel[a] + 1) % 4 ELSE s.sel[a]],
            !.intoffset = winner,
            !.intpnd = @ \cup {winner},
            !.irq = TRUE], RUN)

\* Variation: arbitration goes on while INTPND names a source.
GenIntRearbitrates(s) ==
  LET service == s.srcpnd \ s.intmsk
  IN IF s.srcpnd \cap s.intmod # {} THEN SetIdle([s EXCEPT !.fiq = TRUE], RUN)
     ELSE IF service = {} THEN [s EXCEPT !.fiq = FALSE, !.irq = FALSE]
     ELSE Grant([s EXCEPT !.fiq = FALSE], service)

\* Variation: INTMSK is not consulted.
GenIntUnmasked(s) ==
  IF s.intpnd = {} /\ s.srcpnd # {} THEN Grant(s, s.srcpnd) ELSE s

\* s3c2410_intc_gen_int
GenInt(s) ==
  LET quiet == [s EXCEPT !.fiq = FALSE]
      service == s.srcpnd \ s.intmsk
  IN IF s.srcpnd \cap s.intmod # {}
     THEN SetIdle([s EXCEPT !.fiq = TRUE], RUN)
     ELSE IF s.intpnd # {} THEN SetIdle([quiet EXCEPT !.irq = TRUE], RUN)
     ELSE IF service = {} THEN [quiet EXCEPT !.irq = FALSE]
     ELSE Grant(quiet, service)

\* Variation: the wake-up from OFF only with a newly latched source.
AssertWakesOnce(s, irq, level) ==
  LET latched == GenInt([s EXCEPT
                   !.src_pending = IF level = 1 THEN @ \cup {irq} ELSE @,
                   !.srcpnd = @ \cup {irq}])
  IN IF irq \in s.src_pending THEN s
     ELSE IF latched.idle = OFF /\ irq \in {EINT0, INT_RTC}
     THEN SetIdle(latched, RUN) ELSE latched

\* Variation: a source still latched in SRCPND is not looked at again.
AssertOnLatch(s, irq, level) ==
  IF irq \in s.srcpnd THEN s
  ELSE GenInt([s EXCEPT !.src_pending = IF level = 1 THEN @ \cup {irq} ELSE @,
                        !.srcpnd = @ \cup {irq}])

\* s3c2410_intc_assert: a source whose level is already held is not latched
\* again; EINT0 and the RTC alarm bring the machine out of OFF in any case.
Assert(s, irq, level) ==
  LET latched == IF irq \in s.src_pending THEN s
                 ELSE GenInt([s EXCEPT
                        !.src_pending = IF level = 1 THEN @ \cup {irq} ELSE @,
                        !.srcpnd = @ \cup {irq}])
  IN IF latched.idle = OFF /\ irq \in {EINT0, INT_RTC}
     THEN SetIdle(latched, RUN) ELSE latched

\* s3c2410_intc_deassert
Deassert(s, irq) == [s EXCEPT !.src_pending = @ \ {irq}]

\* One of the four tests of s3c2410_intc_gen_int_from_sub_int.
Fold(s, p, service) ==
  IF \E x \in service : Parent(x) = p THEN Assert(s, p, 1) ELSE Deassert(s, p)

\* s3c2410_intc_gen_int_from_sub_int
GenIntFromSubInt(s) ==
  LET service == s.subsrcpnd \ s.intsubmsk
      uart0 == Fold(s, INT_UART0, service)
      uart1 == Fold(uart0, INT_UART1, service)
      uart2 == Fold(uart1, INT_UART2, service)
      adc   == Fold(uart2, INT_ADC, service)
  IN [adc EXCEPT !.subsrcpnd = adc.subsrc_pending]

\* Variation: an unmasked level waits for the next register write.
SubAssertQuiet(s, x, level) ==
  [s EXCEPT !.subsrc_pending = IF level = 1 THEN @ \cup {x} ELSE @,
            !.subsrcpnd = @ \cup {x}]

\* s3c2410_intc_sub_assert
SubAssert(s, x, level) ==
  IF x \in s.subsrc_pending THEN s
  ELSE GenIntFromSubInt([s EXCEPT
         !.subsrc_pending = IF level = 1 THEN @ \cup {x} ELSE @,
         !.subsrcpnd = @ \cup {x}])

\* s3c2410_intc_sub_deassert
SubDeassert(s, x) == [s EXCEPT !.subsrc_pending = @ \ {x}]

(***************************************************************************)
(* The register writes of s3c2410_intc_write; d is the set of 1 bits.      *)
(***************************************************************************)
\* Variations: an acknowledged level is dropped; the controller is not told
\* of a new mask, nor of an acknowledged INTPND.
SrcpndPutPlain(s, d) == [s EXCEPT !.srcpnd = @ \ d]
IntmskPutPlain(s, d) == [s EXCEPT !.intmsk = d]
IntpndPutPlain(s, d) == [s EXCEPT !.intpnd = @ \ d]

SrcpndPut(s, d) ==
  LET t == [s EXCEPT !.srcpnd = (@ \ d) \cup s.src_pending]
  IN IF s.src_pending \cap d # {} THEN GenInt(t) ELSE t

IntmodPut(s, d) == GenInt([s EXCEPT !.intmod = d])

IntmskPut(s, d) == GenInt([s EXCEPT !.intmsk = d])

PriorityPut(s, p) ==
  GenInt([s EXCEPT !.priority = p, !.sel = p.sel, !.mode = p.mode])

PriorityGet(s) == [s EXCEPT !.priority = [sel |-> s.sel, mode |-> s.mode]]

IntpndPut(s, d) == GenInt([s EXCEPT !.intpnd = @ \ d])

SubsrcpndPut(s, d) ==
  LET t == [s EXCEPT !.subsrcpnd = (@ \ d) \cup s.subsrc_pending]
  IN IF s.subsrc_pending \cap d # {} THEN GenIntFromSubInt(t) ELSE t

IntsubmskPut(s, d) == GenIntFromSubInt([s EXCEPT !.intsubmsk = d])

(***************************************************************************)
(* Module entry points: reset, and save followed by load in a new process. *)
(***************************************************************************)
\* s3c2410_intc_reset: the registers only, not the levels nor arb_data[].
IntcReset(s, kind) ==
  IF kind = "POWER_OFF" THEN s
  ELSE [s EXCEPT !.srcpnd = {}, !.intmod = {}, !.intmsk = Irq,
                 !.priority = ResetPriority, !.intpnd = {}, !.intoffset = 0,
                 !.subsrcpnd = {}, !.intsubmsk = SubIrq]

\* x49gp_modules_reset as far as m is concerned: the ARM module comes first.
ModulesReset(s, kind) == IntcReset(CpuReset(s), kind)

\* s3c2410_arm_load, whose CPU lines come from the saved interrupt_request,
\* then s3c2410_intc_load on the levels s3c2410_intc_save wrote as SRCPND
\* and SUBSRCPND.
Reload(s) ==
  LET loaded == [s EXCEPT !.srcpnd = {}, !.subsrcpnd = {},
                          !.exit_request = FALSE,
                          !.idle = IF s.halted THEN SLEEP ELSE RUN]
      prio == PriorityPut(loaded, s.priority)
      sub  == IntsubmskPut(prio, s.intsubmsk)
  IN IntmskPut(sub, s.intmsk)

-----------------------------------------------------------------------------
(***************************************************************************)
(* The controller with the most general guest and devices.  The guest      *)
(* writes any register at any time; a device asserts its source with the   *)
(* levels its C code passes.                                               *)
(***************************************************************************)
Init == m = ColdMachine

WriteSRCPND == "SRCPND" \in GuestRegs /\ \E d \in SUBSET Irq : m' = SrcpndPut(m, d)
WriteINTMOD == "INTMOD" \in GuestRegs /\ \E d \in FiqSets : m' = IntmodPut(m, d)
WriteINTMSK == "INTMSK" \in GuestRegs /\ \E d \in SUBSET Irq : m' = IntmskPut(m, d)
WriteINTPND == "INTPND" \in GuestRegs /\ \E d \in SUBSET Irq : m' = IntpndPut(m, d)
WritePRIORITY ==
  "PRIORITY" \in GuestRegs /\ \E p \in Priorities : m' = PriorityPut(m, p)
ReadPRIORITY == "PRIORITY" \in GuestRegs /\ m' = PriorityGet(m)
WriteSUBSRCPND ==
  "SUBSRCPND" \in GuestRegs /\ \E d \in SUBSET SubIrq : m' = SubsrcpndPut(m, d)
WriteINTSUBMSK ==
  "INTSUBMSK" \in GuestRegs /\ \E d \in SUBSET SubIrq : m' = IntsubmskPut(m, d)

\* The sources asserted directly, with the levels of the call sites: the port
\* passes 0 or 1 for EINT0..3 and 1 for the shared lines, all others pass 0.
Direct == Irq \ {INT_UART0, INT_UART1, INT_UART2, INT_ADC}
Shared == {EINT4_7, EINT8_23}
Levels(irq) ==
  IF irq \in EINT0..EINT3 THEN {0, 1} ELSE IF irq \in Shared THEN {1} ELSE {0}

DeviceAssert == \E i \in Direct : \E l \in Levels(i) : m' = Assert(m, i, l)
DeviceDeassert == \E i \in Direct \cap Shared : m' = Deassert(m, i)
UartAssert == \E x \in SubIrq, l \in {0, 1} : m' = SubAssert(m, x, l)
UartDeassert == \E x \in SubIrq : m' = SubDeassert(m, x)

PowerOffReset ==
  "POWER_OFF" \in Resets /\ m' = SetIdle(ModulesReset(m, "POWER_OFF"), OFF)
WatchdogReset == "WATCHDOG" \in Resets /\ m' = CpuReset(ModulesReset(m, "WATCHDOG"))
Restart == "RELOAD" \in Resets /\ m' = SetIdle(Reload(m), RUN)
ColdRestart ==
  "POWER_ON" \in Resets /\ m' = SetIdle(ModulesReset(Reload(m), "POWER_ON"), RUN)

Next ==
  \/ WriteSRCPND \/ WriteINTMOD \/ WriteINTMSK \/ WriteINTPND
  \/ WritePRIORITY \/ ReadPRIORITY \/ WriteSUBSRCPND \/ WriteINTSUBMSK
  \/ DeviceAssert \/ DeviceDeassert \/ UartAssert \/ UartDeassert
  \/ PowerOffReset \/ WatchdogReset \/ Restart \/ ColdRestart

Spec == Init /\ [][Next]_m

-----------------------------------------------------------------------------
(***************************************************************************)
(* Properties.                                                             *)
(***************************************************************************)
TypeOK == m \in Machine

\* INTPND never holds anything but the source INTOFFSET names: the firmware
\* dispatches on INTOFFSET alone (README, "IRQ Branch Table"), so a second
\* bit would be a handler that never runs.
OffsetNamesPending == m.intpnd \subseteq {m.intoffset}

\* A latched, unmasked source is never left with both lines of the core down.
NoLostInterrupt == m.srcpnd \ m.intmsk # {} => m.irq \/ m.fiq

\* While no source is routed to FIQ, every step leaves the core's IRQ line up
\* exactly while INTPND names a source: writes, watchdog resets and restarts
\* do.  Excepted is switching off, which lowers the line of the core and leaves
\* INTPND as it is; from there on, after an ON key that is already held too,
\* the line stays down and INTPND the same until the next arbitration.
LineAgrees == m.irq <=> m.intpnd # {}
IrqLineFollowsIntpnd ==
  [][ \/ LineAgrees'
      \/ m'.idle = OFF /\ ~m'.irq
      \/ ~m.irq /\ ~m'.irq /\ m'.intpnd = m.intpnd ]_m

\* A level a device still drives is latched in SRCPND, whatever the guest
\* acknowledged meanwhile.
HeldLevelIsLatched == m.src_pending \subseteq m.srcpnd

\* A UART level the guest has not masked holds the UART's own source.
SubLevelReachesParent ==
  \A x \in m.subsrc_pending \ m.intsubmsk : Parent(x) \in m.src_pending

\* A source enters INTPND only while it is latched and unmasked.
GrantIsEligible == [][m'.intpnd \ m.intpnd \subseteq m'.srcpnd \ m'.intmsk]_m

\* With rotation off and every ARB_SEL at 0, arbitration is by source number:
\* the two levels of arbiters let the lowest eligible source through.  Sources
\* folded from sub-sources are latched one by one, UART0 first and each with
\* an arbitration of its own, so a lower one may come too late.
FixedPriority ==
  [][ \A w \in m'.intpnd \ m.intpnd :
        (\A a \in Arbiters : ~m'.mode[a] /\ m'.sel[a] = 0)
          => \A i \in m'.srcpnd \ m'.intmsk :
               w <= i \/ i \in Irq \ (Direct \cup m.srcpnd) ]_m
=============================================================================
