------------------------------ MODULE Watchdog ------------------------------
(***************************************************************************)
(* The watchdog timer of s3c2410_watchdog.c.  wd.armed says that its       *)
(* x49gp timer is on the VIRTUAL list; deadlines are left to the loop that *)
(* runs expired timers.  WTCON keeps the three bits the code tests.        *)
(***************************************************************************)
EXTENDS Intc

CONSTANTS
  MaxCount,  \* Bound on WTDAT and WTCNT, whose reset value 0x8000 it is.
  Wtcons     \* What the guest writes to WTCON.

VARIABLE wd

WtconBits == {"ENABLE", "IRQ", "RESET"}

ASSUME MaxCountAssumption == MaxCount \in Nat
ASSUME WtconAssumption == Wtcons \subseteq SUBSET WtconBits

WatchdogState ==
  [wtcon : SUBSET WtconBits, wtdat : 0..MaxCount, wtcnt : 0..MaxCount,
   armed : BOOLEAN]

\* s3c2410_watchdog_update
WatchdogUpdate(w) == [w EXCEPT !.armed = "ENABLE" \in w.wtcon]

\* s3c2410_watchdog_reset, the same for every kind of reset: WTCON = 0x8021.
WatchdogResetRegs(w) ==
  WatchdogUpdate([w EXCEPT !.wtcon = {"ENABLE", "RESET"},
                           !.wtdat = MaxCount, !.wtcnt = MaxCount])

ColdWatchdog ==
  [wtcon |-> {"ENABLE", "RESET"}, wtdat |-> MaxCount, wtcnt |-> MaxCount,
   armed |-> TRUE]

(***************************************************************************)
(* s3c2410_watchdog_tick, called with the timer already off the list.      *)
(***************************************************************************)
Counted(w) == [w EXCEPT !.wtcnt = IF @ > 0 THEN @ - 1 ELSE w.wtdat,
                        !.armed = FALSE]

Barks(w) == Counted(w).wtcnt = 0
Bites(w) == Barks(w) /\ "RESET" \in w.wtcon

\* What a tick leaves in the controller and the core: the interrupt first,
\* then x49gp_modules_reset and a second cpu_reset, which leave arm_idle alone.
TickMachine(s, w) ==
  LET barked == IF Barks(w) /\ "IRQ" \in w.wtcon THEN Assert(s, INT_WDT, 0) ELSE s
  IN IF Bites(w) THEN CpuReset(ModulesReset(barked, "WATCHDOG")) ELSE barked

\* Variation: a bite leaves the timer off the list.
TickWatchdogOnce(w) ==
  IF Bites(w) THEN [WatchdogResetRegs(Counted(w)) EXCEPT !.armed = FALSE]
  ELSE [Counted(w) EXCEPT !.armed = TRUE]

TickWatchdog(w) ==
  IF Bites(w) THEN WatchdogResetRegs(Counted(w))
  ELSE [Counted(w) EXCEPT !.armed = TRUE]

WatchdogTick ==
  /\ wd.armed
  /\ m' = TickMachine(m, wd)
  /\ wd' = TickWatchdog(wd)

WriteWTCON ==
  /\ \E d \in Wtcons : wd' = WatchdogUpdate([wd EXCEPT !.wtcon = d])
  /\ UNCHANGED m

WriteWTCNT ==
  /\ \E n \in 0..MaxCount : wd' = WatchdogUpdate([wd EXCEPT !.wtcnt = n])
  /\ UNCHANGED m

WriteWTDAT ==
  /\ \E n \in 0..MaxCount : wd' = [wd EXCEPT !.wtdat = n]
  /\ UNCHANGED m

\* The timer is on the list exactly while the watchdog is enabled: it neither
\* dies after a bite nor ticks after it was disabled.  The count stays within
\* what it was set to, and does not pass below zero.
WatchdogArmed ==
  /\ wd \in WatchdogState
  /\ wd.armed <=> "ENABLE" \in wd.wtcon
=============================================================================
