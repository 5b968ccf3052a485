------------------------------ MODULE MainLoop ------------------------------
(***************************************************************************)
(* The emulator's one thread: x49gp_main_loop of timer.c around QEMU's     *)
(* cpu_exec, the power states CLKCON and the interrupt controller switch   *)
(* it between, the watchdog, and the two signals that cut into it.         *)
(*                                                                         *)
(* pc is the place in the loop:                                            *)
(*   top   the test of arm_exit and arm_idle                               *)
(*   exec  inside cpu_exec, at an instruction or block boundary            *)
(*   left  cpu_exec has returned                                           *)
(*   virt  main_loop_wait is running expired VIRTUAL timers                *)
(*   real  main_loop_wait is running expired REALTIME timers               *)
(*   done  the loop has ended                                              *)
(* Which timers have expired is left open.  Keys arrive in gtk_timer, a    *)
(* REALTIME timer as are those of the RTC; PWM timers and the watchdog are *)
(* VIRTUAL.                                                                *)
(***************************************************************************)
EXTENDS Watchdog

CONSTANTS
  VirtIrq,      \* Edge sources asserted from VIRTUAL timers.
  RealIrq,      \* Sources asserted from REALTIME timers: those of the RTC,
                \*   EINT0 for ON, EINT8_23 for the other keys.
  GuestPower,   \* What the guest does to the power state.
  TailWrites    \* The block that stops the core goes on to use devices.

VARIABLES
  pc,
  prev_idle,    \* arm_idle when the current iteration began.
  cpsr_i,       \* CPSR_I: IRQs masked in the core.
  booting,      \* The core was reset and has executed nothing since.
  clkcon_idle,  \* CLKCON_IDLE in the clkcon register.
  arm_exit

loopVars == <<pc, prev_idle, cpsr_i, booting, clkcon_idle, arm_exit>>
allVars == <<m, wd, loopVars>>

ASSUME LoopAssumption ==
  /\ VirtIrq \cup RealIrq \cup {INT_WDT} \subseteq Irq
  /\ GuestPower \subseteq {"IDLE", "POWER_OFF", "WFI", "WATCHDOG"}
  /\ TailWrites \in BOOLEAN

LoopInit ==
  /\ m = ColdMachine
  /\ wd = ColdWatchdog
  /\ pc = "top" /\ prev_idle = RUN
  /\ cpsr_i = TRUE /\ booting = TRUE
  /\ clkcon_idle = FALSE
  /\ arm_exit = FALSE

(***************************************************************************)
(* One pass of the loop.  cpu_exec returns at once if the core is halted   *)
(* and neither line is up; cpu_exec_entry clears halted otherwise.         *)
(***************************************************************************)
\* Variation: arm_exit is only looked at by a running machine.
TopLooksLate ==
  /\ pc = "top"
  /\ prev_idle' = m.idle
  /\ pc' = IF m.idle # RUN THEN "real" ELSE IF arm_exit THEN "done" ELSE "exec"
  /\ UNCHANGED <<m, wd, booting, cpsr_i, clkcon_idle, arm_exit>>

Top ==
  /\ pc = "top"
  /\ prev_idle' = m.idle
  /\ \/ /\ arm_exit
        /\ pc' = "done"
        /\ UNCHANGED <<m, booting>>
     \/ /\ ~arm_exit /\ m.idle # RUN
        /\ pc' = IF m.idle = OFF THEN "real" ELSE "virt"
        /\ UNCHANGED <<m, booting>>
     \/ /\ ~arm_exit /\ m.idle = RUN /\ m.halted /\ ~m.irq /\ ~m.fiq
        /\ pc' = "left"
        /\ UNCHANGED <<m, booting>>
     \/ /\ ~arm_exit /\ m.idle = RUN /\ (m.halted => m.irq \/ m.fiq)
        /\ pc' = "exec"
        /\ m' = [m EXCEPT !.halted = FALSE]
        /\ booting' = FALSE
  /\ UNCHANGED <<wd, cpsr_i, clkcon_idle, arm_exit>>

\* do_interrupt for an IRQ
TakeIrq ==
  /\ pc = "exec" /\ m.irq /\ ~cpsr_i
  /\ cpsr_i' = TRUE
  /\ UNCHANGED <<m, wd, pc, prev_idle, booting, clkcon_idle, arm_exit>>

\* The exit_request test between two translation blocks.
LeaveExec ==
  /\ pc = "exec" /\ m.exit_request
  /\ m' = [m EXCEPT !.exit_request = FALSE]
  /\ pc' = "left"
  /\ UNCHANGED <<wd, prev_idle, cpsr_i, booting, clkcon_idle, arm_exit>>

\* Variations: no second reset; a running machine goes straight back to exec.
AfterExecNoReset ==
  /\ pc = "left"
  /\ pc' = IF m.idle = OFF THEN "real" ELSE "virt"
  /\ UNCHANGED <<m, wd, prev_idle, cpsr_i, booting, clkcon_idle, arm_exit>>
AfterExecNoWait ==
  /\ pc = "left"
  /\ pc' = IF m.idle = OFF THEN "real" ELSE "top"
  /\ UNCHANGED <<m, wd, prev_idle, cpsr_i, booting, clkcon_idle, arm_exit>>

\* After cpu_exec: a core that was switched off meanwhile is reset again.
AfterExec ==
  /\ pc = "left"
  /\ IF m.idle # prev_idle /\ m.idle = OFF
     THEN m' = CpuReset(m) /\ cpsr_i' = TRUE /\ booting' = TRUE
     ELSE UNCHANGED <<m, cpsr_i, booting>>
  /\ pc' = IF m.idle = OFF THEN "real" ELSE "virt"
  /\ UNCHANGED <<wd, prev_idle, clkcon_idle, arm_exit>>

VirtDone ==
  /\ pc = "virt" /\ pc' = "real"
  /\ UNCHANGED <<m, wd, prev_idle, cpsr_i, booting, clkcon_idle, arm_exit>>

RealDone ==
  /\ pc = "real" /\ pc' = "top"
  /\ UNCHANGED <<m, wd, prev_idle, cpsr_i, booting, clkcon_idle, arm_exit>>

(***************************************************************************)
(* Timer callbacks.                                                        *)
(***************************************************************************)
VirtTimer ==
  /\ pc = "virt"
  /\ \E i \in VirtIrq : m' = Assert(m, i, 0)
  /\ UNCHANGED <<wd, loopVars>>

WatchdogTimer ==
  /\ pc = "virt"
  /\ WatchdogTick
  /\ IF Bites(wd) THEN cpsr_i' = TRUE /\ booting' = TRUE /\ clkcon_idle' = FALSE
     ELSE UNCHANGED <<cpsr_i, booting, clkcon_idle>>
  /\ UNCHANGED <<pc, prev_idle, arm_exit>>

RealTimer ==
  /\ pc = "real"
  /\ \E i \in RealIrq : \E l \in Levels(i) : m' = Assert(m, i, l)
  /\ UNCHANGED <<wd, loopVars>>

(***************************************************************************)
(* What the guest does while cpu_exec runs it.  An instruction that asks   *)
(* cpu_exec to return is still followed by the rest of its block.          *)
(***************************************************************************)
GuestRuns == pc = "exec" /\ (TailWrites \/ m.idle = RUN)

GuestWrite ==
  /\ GuestRuns
  /\ WriteSRCPND \/ WriteINTMSK \/ WriteINTPND
  /\ UNCHANGED <<wd, loopVars>>

\* The guest acknowledged the shared port line through EINTPEND.
KeyAcknowledged ==
  /\ GuestRuns
  /\ \E i \in RealIrq \cap Shared : m' = Deassert(m, i)
  /\ UNCHANGED <<wd, loopVars>>

SetCpsr ==
  /\ GuestRuns
  /\ cpsr_i' \in BOOLEAN
  /\ UNCHANGED <<m, wd, pc, prev_idle, booting, clkcon_idle, arm_exit>>

GuestWatchdog ==
  /\ GuestRuns /\ "WATCHDOG" \in GuestPower
  /\ WriteWTCON \/ WriteWTCNT \/ WriteWTDAT
  /\ UNCHANGED loopVars

\* Variation: the resets come first.
PowerOffResetLast ==
  /\ GuestRuns /\ "POWER_OFF" \in GuestPower
  /\ m' = CpuReset(SetIdle(m, OFF))
  /\ wd' = WatchdogResetRegs(wd)
  /\ cpsr_i' = TRUE /\ booting' = TRUE
  /\ clkcon_idle' = FALSE
  /\ UNCHANGED <<pc, prev_idle, arm_exit>>

\* s3c2410_power_write to CLKCON with POWER_OFF: every module is reset, and
\* the core with them, before the machine is switched off.
PowerOff ==
  /\ GuestRuns /\ "POWER_OFF" \in GuestPower
  /\ m' = SetIdle(IntcReset(CpuReset(m), "POWER_OFF"), OFF)
  /\ wd' = WatchdogResetRegs(wd)
  /\ cpsr_i' = TRUE /\ booting' = TRUE
  /\ clkcon_idle' = FALSE
  /\ UNCHANGED <<pc, prev_idle, arm_exit>>

\* The same with POWER_OFF clear: only a 0 to 1 change of IDLE stops the core.
WriteCLKCON ==
  /\ GuestRuns /\ "IDLE" \in GuestPower
  /\ clkcon_idle' \in BOOLEAN
  /\ m' = IF clkcon_idle' /\ ~clkcon_idle THEN SetIdle(m, SLEEP) ELSE m
  /\ UNCHANGED <<wd, pc, prev_idle, cpsr_i, booting, arm_exit>>

\* CP15 wait for interrupt: EXCP_HLT ends cpu_exec.
WaitForInterrupt ==
  /\ GuestRuns /\ "WFI" \in GuestPower
  /\ m' = [m EXCEPT !.halted = TRUE]
  /\ pc' = "left"
  /\ UNCHANGED <<wd, prev_idle, cpsr_i, booting, clkcon_idle, arm_exit>>

(***************************************************************************)
(* Signals.  gtk_timer is never more than 30 ms from its deadline, so the  *)
(* 1 ms SIGALRM always finds an expired timer in time.                     *)
(***************************************************************************)
Alarm ==
  /\ pc = "exec" /\ ~m.exit_request
  /\ m' = [m EXCEPT !.exit_request = TRUE]
  /\ UNCHANGED <<wd, loopVars>>

Quit ==
  /\ pc # "done" /\ ~arm_exit
  /\ arm_exit' = TRUE
  /\ m' = [m EXCEPT !.exit_request = TRUE]
  /\ UNCHANGED <<wd, pc, prev_idle, cpsr_i, booting, clkcon_idle>>

\* x49gp_ui_quit, from the window or the menu
CloseWindow ==
  /\ pc = "real" /\ ~arm_exit
  /\ arm_exit' = TRUE
  /\ UNCHANGED <<m, wd, pc, prev_idle, cpsr_i, booting, clkcon_idle>>

Terminated == pc = "done" /\ UNCHANGED allVars

LoopNext ==
  \/ Top \/ TakeIrq \/ LeaveExec \/ AfterExec \/ VirtDone \/ RealDone
  \/ VirtTimer \/ WatchdogTimer \/ RealTimer \/ KeyAcknowledged
  \/ GuestWrite \/ SetCpsr \/ GuestWatchdog \/ PowerOff \/ WriteCLKCON
  \/ WaitForInterrupt \/ Alarm \/ Quit \/ CloseWindow
  \/ Terminated

LoopSpec == LoopInit /\ [][LoopNext]_allVars

\* The thread is scheduled, cpu_exec notices an exit request, the interval
\* timer signals, and the two expired lists are finite.
LoopFairness ==
  /\ WF_allVars(Top) /\ WF_allVars(LeaveExec) /\ WF_allVars(AfterExec)
  /\ WF_allVars(VirtDone) /\ WF_allVars(RealDone) /\ WF_allVars(Alarm)

FairLoop == LoopSpec /\ LoopFairness

\* The user presses ON again and again.
OnKey == RealTimer /\ m' \in {Assert(m, EINT0, l) : l \in {0, 1}}
OnPressed == SF_allVars(OnKey)

\* A PWM timer is running.
TimerRuns == SF_allVars(VirtTimer)

-----------------------------------------------------------------------------
(***************************************************************************)
(* Properties.                                                             *)
(***************************************************************************)
\* A machine that is switched off asks nothing of its core: whatever raises a
\* line also ends OFF, and switching off lowers both lines.  Once the loop has
\* seen OFF, the core stands at its reset vector with interrupts masked,
\* whatever the rest of its last block did.
OffIsQuiet ==
  m.idle = OFF =>
    /\ ~m.irq /\ ~m.fiq
    /\ pc \in {"virt", "real", "top"} => booting /\ cpsr_i

\* A core that has been stopped or switched off under its own feet is on its
\* way out of cpu_exec: the exit request survives the resets of POWER_OFF.
StoppedCoreLeaves == pc = "exec" /\ m.idle # RUN => m.exit_request

\* A quit request ends the loop, whatever the guest and the power state do.
QuitEnds == arm_exit ~> pc = "done"

\* The window's events are handled again and again until the program quits.
EventsAreHandled == []<>(pc \in {"real", "done"})

\* A calculator the loop has seen off runs again if the user keeps pressing ON,
\* even while an earlier press still holds EINT0.
OnKeyWakes ==
  OnPressed => (pc = "real" /\ m.idle = OFF ~> (pc = "exec" /\ m.idle = RUN) \/ arm_exit)

\* A stopped core wakes from a running timer it has left unmasked, also when
\* the interrupt it meant to wait for came before it stopped.
TimerEndsSleep ==
  TimerRuns => \A i \in VirtIrq :
    m.idle = SLEEP /\ i \notin m.intmsk
      ~> m.idle = RUN \/ i \in m.intmsk \/ arm_exit

\* A core that is reset while the machine runs, out of a wait for interrupt
\* too, executes its reset vector.
BootsAfterReset ==
  booting /\ m.idle = RUN ~> pc = "exec" \/ m.idle = OFF \/ arm_exit

\* The same of any reset core that is not off.
ResetCoreRuns == booting /\ m.idle # OFF ~> pc = "exec" \/ m.idle = OFF \/ arm_exit
=============================================================================
