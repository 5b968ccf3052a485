\* The guest programs the watchdog and stops the core, with a timer on the same
\* source and a key of the matrix.
CONSTANTS
  Irq = {5, 9}
  SubIrq = {}
  GuestRegs = {"INTMSK", "INTPND"}
  FiqSets <- NoFiq
  Priorities = {}
  Resets = {}
  MaxCount = 0
  Wtcons <- WtconWrites
  VirtIrq = {9}
  RealIrq = {5}
  GuestPower = {"IDLE", "WATCHDOG", "WFI"}
  TailWrites = FALSE
SPECIFICATION FairLoop
INVARIANT WatchdogArmed
PROPERTIES TimerEndsSleep BootsAfterReset
