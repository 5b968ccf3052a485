\* The watchdog bites a guest that has stopped the core.
CONSTANTS
  Irq = {0, 9}
  SubIrq = {}
  GuestRegs = {"SRCPND", "INTMSK", "INTPND"}
  FiqSets <- NoFiq
  Priorities = {}
  Resets = {}
  MaxCount = 1
  Wtcons = {}
  VirtIrq = {}
  RealIrq = {0}
  GuestPower = {"IDLE"}
  TailWrites = FALSE
SPECIFICATION FairLoop
PROPERTY ResetCoreRuns
