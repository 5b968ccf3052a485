\* ON, the watchdog at its reset setting, and every way to stop the core; the
\* block that stops it goes on to use devices.
CONSTANTS
  Irq = {0, 9}
  SubIrq = {}
  GuestRegs = {"SRCPND", "INTMSK", "INTPND"}
  FiqSets <- NoFiq
  Priorities = {}
  Resets = {}
  MaxCount = 1
  Wtcons = {}
  VirtIrq = {}
  RealIrq = {0}
  GuestPower = {"IDLE", "POWER_OFF", "WFI"}
  TailWrites = TRUE
SPECIFICATION FairLoop
INVARIANTS StoppedCoreLeaves OffIsQuiet
PROPERTIES QuitEnds EventsAreHandled OnKeyWakes
